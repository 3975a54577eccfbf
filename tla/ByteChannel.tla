----------------------------- MODULE ByteChannel -----------------------------
(***************************************************************************)
(* What an ordered, reliable channel of bytes promises: what has left it is *)
(* always a prefix of what has entered it.  Bytes neither change places nor *)
(* appear twice, and none is taken back on either side.                     *)
(***************************************************************************)
EXTENDS SequencesExt

VARIABLES entered, left

Init ==
    /\ entered = <<>>
    /\ left = <<>>

(* Bytes enter, bytes leave, or both in one step. *)
Next ==
    /\ IsPrefix(entered, entered')
    /\ IsPrefix(left, left')
    /\ IsPrefix(left', entered')

Spec == Init /\ [][Next]_<<entered, left>>

==============================================================================
