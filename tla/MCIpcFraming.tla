---------------------------- MODULE MCIpcFraming ----------------------------
(* IpcFraming with headers of two bytes and a packet that does not fit. *)
EXTENDS IpcFraming
==============================================================================
