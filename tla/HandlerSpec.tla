---------------------------- MODULE HandlerSpec -----------------------------
(* The steps of HandlerAbs as a specification, with the events that are on *)
(* their way to the behaviour.                                             *)
EXTENDS HandlerAbs

VARIABLES handler, handler_out

vars == <<handler, handler_out>>

Moves(S) == \E t \in S : handler' = t.state /\ handler_out' = handler_out \o t.events

Enable == Moves(Enabling(handler))

Disable == Moves(Disabling(handler))

Steps == Moves(Stepping(handler))

\* The behaviour takes an event.
Taken == handler_out # <<>> /\ handler_out' = Tail(handler_out) /\ UNCHANGED handler

\* The connection is over, and another one begins.
Replaced == handler' = "Init" /\ handler_out' = <<>>

Init == handler = "Init" /\ handler_out = <<>>

Next == Enable \/ Disable \/ Steps \/ Taken \/ Replaced

Spec == Init /\ [][Next]_vars
=============================================================================
