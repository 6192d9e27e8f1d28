-------------------------- MODULE NotifSubstreams ---------------------------
(***************************************************************************)
(* generic_proto/handler/notif_in.rs and notif_out.rs: the parts of a      *)
(* connection's handler that manage the substreams of one notifications    *)
(* protocol, the one the remote opens and the one we open, and the         *)
(* handshake of upgrade/notifications.rs.  Both are values, with their     *)
(* methods as operators.                                                   *)
(*                                                                         *)
(* A NotifsInHandler has the fields                                        *)
(*   sub      no substream, or the state of its handshake                  *)
(*   greeted  history: the handshake was written to the substream          *)
(*   kept     history: the request was kept for the first command          *)
(*   pending  pending_accept_refuses                                       *)
(*   queue    events_queue                                                 *)
(* and a NotifsOutHandler the variant of its State, its queue, and the     *)
(* number of requests that the swarm has not answered.                     *)
(***************************************************************************)
EXTENDS Naturals, Sequences

InStates == [sub : {"none", "NotSent", "PendingSend", "Sent"}, greeted : BOOLEAN, kept : BOOLEAN,
             pending : Nat, queue : Seq({"OpenRequest"})]

OutStates == [st : {"Disabled", "DisabledOpen", "DisabledOpening", "Opening", "Refused", "Open", "Poisoned"},
              queue : Seq({"Request", "Open", "Closed", "Refused"}), requests : Nat]

new_in == [sub |-> "none", greeted |-> FALSE, kept |-> FALSE, pending |-> 0, queue |-> <<>>]

new_out == [st |-> "Disabled", queue |-> <<>>, requests |-> 0]

Returns(h, ev) == [next |-> h, event |-> ev]

Pop(h) == [h EXCEPT !.queue = Tail(@)]
-----------------------------------------------------------------------------
(* NotifsInHandler *)

\* A new substream, or none.
SetSub(h, sub) == [h EXCEPT !.sub = sub, !.greeted = FALSE, !.kept = FALSE]

\* A second substream is ignored.
in_negotiated(h) ==
    IF h.sub # "none" THEN h
    ELSE [SetSub(h, "NotSent") EXCEPT !.pending = @ + 1, !.queue = Append(@, "OpenRequest")]

\* send_handshake: does nothing if the handshake is not in the state NotSent.
send_handshake(h) == IF h.sub = "NotSent" THEN [h EXCEPT !.sub = "PendingSend"] ELSE h

\* inject_event with Accept or Refuse: all the answers but the last are obsolete.
answer(h, ans) ==
    LET counted == [h EXCEPT !.pending = @ - 1]
    IN  IF h.pending = 0 THEN h
        ELSE IF counted.pending # 0 THEN counted
        ELSE IF ans = "Accept" THEN send_handshake(counted)
        ELSE SetSub(counted, "none")

\* NotificationsInSubstream::poll_next, when the handshake is not waiting for an
\* answer: it is written if that is still to do, and flushed; then the socket is
\* polled.
PollSocket(h) ==
    LET greeting == [h EXCEPT !.sub = "Sent", !.greeted = @ \/ h.sub = "PendingSend"]
    IN  {Returns(greeting, "Pending"), Returns(greeting, "Notif"), Returns(SetSub(h, "none"), "Closed")}

\* poll.  Polling a substream that waits for the answer marks it as Sent: poll_next
\* replaces the state and does not put it back.
in_poll(h) ==
    IF h.queue # <<>> THEN {Returns(Pop(h), Head(h.queue))}
    ELSE CASE h.sub = "none"    -> {Returns(h, "Pending")}
           [] h.sub = "NotSent" -> {Returns([h EXCEPT !.sub = "Sent"], "Pending")}
           [] OTHER             -> PollSocket(h)
-----------------------------------------------------------------------------
(* NotifsOutHandler: mem::replace leaves Poisoned where no state is put back *)

Become(h, st) == [h EXCEPT !.st = st]

BecomeAndQueue(h, st, ev) == [h EXCEPT !.st = st, !.queue = Append(@, ev)]

out_negotiated(h) ==
    CASE h.st = "Opening"         -> BecomeAndQueue(h, "Open", "Open")
      [] h.st = "DisabledOpening" -> Become(h, "DisabledOpen")
      [] OTHER                    -> Become(h, "Poisoned")

\* Mutant: opens a second substream while the first is being negotiated.
out_enable_again(h) ==
    CASE h.st \in {"Disabled", "DisabledOpen", "DisabledOpening"} -> BecomeAndQueue(h, "Opening", "Request")
      [] OTHER -> Become(h, "Poisoned")

out_enable(h) ==
    CASE h.st \in {"Disabled", "DisabledOpen"} -> BecomeAndQueue(h, "Opening", "Request")
      [] h.st = "DisabledOpening" -> Become(h, "Opening")
      [] OTHER -> Become(h, "Poisoned")

out_disable(h) ==
    Become(h, CASE h.st = "Opening" -> "DisabledOpening"
                [] h.st = "Refused" -> "Disabled"
                [] h.st = "Open"    -> "DisabledOpen"
                [] OTHER            -> "Poisoned")

out_dial_upgrade_error(h) ==
    CASE h.st = "Opening"         -> BecomeAndQueue(h, "Refused", "Refused")
      [] h.st = "DisabledOpening" -> Become(h, "Disabled")
      [] OTHER                    -> Become(h, "Poisoned")

\* A flush that fails makes it open a new substream.
out_poll(h) ==
    IF h.queue # <<>> THEN {Returns(Pop(h), Head(h.queue))}
    ELSE {Returns(h, "Pending")} \cup
         (CASE h.st = "Open"         -> {Returns(BecomeAndQueue(h, "Opening", "Request"), "Closed")}
            [] h.st = "DisabledOpen" -> {Returns(Become(h, "Disabled"), "Closed")}
            [] OTHER                 -> {})
=============================================================================
