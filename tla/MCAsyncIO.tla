------------------------------ MODULE MCAsyncIO ------------------------------
(* AsyncIO with a reader and a writer at a time, or two of a kind. *)
EXTENDS AsyncIO

Permits(habits, writes, opens) == [habits |-> habits, writes |-> writes, opens |-> opens]

(* Values of Programs. *)
AllPrograms == {Permits({"stream"}, 2, 1),
                Permits({"stream"}, 1, 2),
                Permits({"overlap", "stream", "rushes"}, 2, 1),
                Permits({"overlap", "stream", "closeBusy"}, 1, 1),
                Permits({"overlap", "closeBusy"}, 0, 2),
                Permits({"overlap", "sameBuffer"}, 1, 1)}
ClosesBusy == {Permits({"closeBusy"}, 1, 2)}
Overlaps == {Permits({"overlap"}, 0, 1)}
==============================================================================
