------------------------- MODULE DescriptorOwnership -------------------------
(***************************************************************************)
(* What a set of Socket objects promises about descriptors, with all of the *)
(* socket's states, buffers and blocking calls left out: a descriptor that  *)
(* is open has exactly one holder, an object holds at most one, and neither *)
(* side of that relation changes without the other.                         *)
(***************************************************************************)
CONSTANTS Fds, Holders

VARIABLES
    open,       \* the descriptors the kernel has open for the process
    heldBy      \* the objects that hold each descriptor

TypeOK ==
    /\ open \subseteq Fds
    /\ heldBy \in [Fds -> SUBSET Holders]

Init ==
    /\ open = {}
    /\ heldBy = [f \in Fds |-> {}]

(* An object that holds nothing receives a descriptor that was not open. *)
Acquire(f, o) ==
    /\ f \notin open
    /\ \A g \in Fds : o \notin heldBy[g]
    /\ open' = open \union {f}
    /\ heldBy' = [heldBy EXCEPT ![f] = {o}]

(* A descriptor is closed and forgotten in one step. *)
Release(f) ==
    /\ f \in open
    /\ open' = open \ {f}
    /\ heldBy' = [heldBy EXCEPT ![f] = {}]

Next ==
    \E f \in Fds : Release(f) \/ \E o \in Holders : Acquire(f, o)

Spec == Init /\ [][Next]_<<open, heldBy>>

==============================================================================
