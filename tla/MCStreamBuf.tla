----------------------------- MODULE MCStreamBuf -----------------------------
(* StreamBuf with buffers of two bytes and a few bytes in each direction. *)
EXTENDS StreamBuf

(* Values of Regimes. *)
Errors == {"sendError", "recvError"}
AllRegimes ==
    {{"unget", "byteFF"} \union Errors, AllHabits \union Errors, AllHabits \union AllFaults}
Polls == {{"clear"}}
==============================================================================
