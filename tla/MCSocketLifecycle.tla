-------------------------- MODULE MCSocketLifecycle --------------------------
(* SocketLifecycle on small sets of objects and descriptors. *)
EXTENDS SocketLifecycle, TLC

(* A target for each opener, stream and datagram. *)
Plain(n, p, c) == [net |-> n, proto |-> p, port443 |-> FALSE, create |-> c]
Https(p) == [net |-> "Inet", proto |-> p, port443 |-> TRUE, create |-> FALSE]

OpenerTargets ==
    {Plain("Inet", "stream", FALSE), Https("stream"),
     Plain("None", "stream", FALSE), Plain("Any", "stream", FALSE),
     Plain("Inet", "dgram", FALSE), Plain("Inet", "dgram", TRUE), Https("dgram"),
     Plain("None", "dgram", FALSE)}
SomeTargets == {Plain("Any", "stream", FALSE), Https("stream")}
ServerTarget == {Plain("Any", "stream", FALSE)}
ClientTarget == {Plain("Inet", "stream", FALSE)}

(* Values of Programs: the one without habits opens everything, one with a single
   habit some; those that copy sockets or combine habits open one kind. *)
Careful == {[opens |-> OpenerTargets, habits |-> {}]}
OneHabit ==
    {[opens |-> SomeTargets, habits |-> {h}] : h \in AllHabits \ {"assign"}}
Combined ==
    {[opens |-> ServerTarget, habits |-> {"assign"}],
     [opens |-> ClientTarget, habits |-> {"assign"}],
     [opens |-> ServerTarget, habits |-> {"trustIsOpen", "retry"}],
     [opens |-> ClientTarget, habits |-> {"trustIsOpen", "clear", "retry"}],
     [opens |-> {Https("stream")}, habits |-> {"trustIsOpen", "retry", "clear"}]}
ProgramSet == Careful \union OneHabit \union Combined

(* Objects and descriptors are interchangeable. *)
Symmetry == Permutations(Sockets) \union Permutations(Fds)
==============================================================================
