SPECIFICATION Spec
CONSTANTS
    Header = 2
    Sizes = {2, 4}
    Replies = {2, 3}
    Garbage = {1}
    Room = 3
    Limits = {0, 3}
    Networks = {"whole", "pieces"}
    MaxCalls = 2
    Cookies = 2
    Habits = {}
INVARIANT TypeOK
INVARIANT WholePackets
INVARIANT NoneLost
 
INVARIANT AnswersItsCall
PROPERTY PollingReturns
CHECK_DEADLOCK FALSE
