---------------------------- MODULE MCEchoServer ----------------------------
(* EchoServer with two clients; the second character of each is 0xFF. *)
EXTENDS EchoServer
==============================================================================
