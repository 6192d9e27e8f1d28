---------------------------- MODULE LegacyProto -----------------------------
(***************************************************************************)
(* generic_proto/handler/legacy.rs: the part of a connection's handler that *)
(* manages the substreams of the legacy protocol.  A LegacyProtoHandler is *)
(* a value, a record with the fields                                       *)
(*                                                                         *)
(*   st        the variant of ProtocolState                                *)
(*   subs      the number of open substreams (Init and Normal)             *)
(*   shut      the number of substreams being shut down                    *)
(*   reenable  of Disabled                                                 *)
(*   queue     events_queue                                                *)
(*   requests  the OutboundSubstreamRequests the swarm has not answered    *)
(*                                                                         *)
(* and its methods are operators on it.  A substream is only told apart by *)
(* what polling it returns, so they are counted.                           *)
(***************************************************************************)
EXTENDS Naturals, Sequences

LegacyStates ==
    [st : {"Init", "Opening", "Normal", "Disabled", "KillAsap", "Poisoned"},
     subs : Nat, shut : Nat, reenable : BOOLEAN,
     queue : Seq({"Request", "Open", "ProtocolError"}), requests : Nat]

\* Only the fields of the variant are used.
HasVariant(l) ==
    /\ l.st \notin {"Init", "Normal"} => l.subs = 0
    /\ l.st \notin {"Normal", "Disabled"} => l.shut = 0
    /\ l.st # "Disabled" => ~l.reenable

new == [st |-> "Init", subs |-> 0, shut |-> 0, reenable |-> FALSE, queue |-> <<>>, requests |-> 0]

\* A variant of ProtocolState with its fields.
In(l, st, subs, shut, reenable) ==
    [l EXCEPT !.st = st, !.subs = subs, !.shut = shut, !.reenable = reenable]

Queue(l, ev) == [l EXCEPT !.queue = Append(@, ev)]

is_open(l) == l.st \in {"Init", "Normal"} /\ l.subs > 0

\* A listener leaves it to the remote to open the first substream.
enable(l, endpoint) ==
    CASE l.st = "Init" /\ l.subs = 0 ->
            LET opening == In(l, "Opening", 0, 0, FALSE)
            IN  IF endpoint = "Dialer" THEN Queue(opening, "Request") ELSE opening
      [] l.st = "Init" /\ l.subs > 0 -> Queue(In(l, "Normal", l.subs, 0, FALSE), "Open")
      [] l.st = "Disabled" -> [l EXCEPT !.reenable = TRUE]
      [] OTHER -> l

\* Getting disabled while things were working kills the connection.
disable(l) ==
    CASE l.st = "Init" -> In(l, "Disabled", 0, l.subs, FALSE)
      [] l.st \in {"Opening", "Normal"} -> In(l, "KillAsap", 0, 0, FALSE)
      [] l.st = "Disabled" -> [l EXCEPT !.reenable = FALSE]
      [] OTHER -> l

inject_fully_negotiated(l) ==
    CASE l.st = "Init"     -> [l EXCEPT !.subs = @ + 1]
      [] l.st = "Opening"  -> Queue(In(l, "Normal", 1, 0, FALSE), "Open")
      [] l.st = "Normal"   -> [l EXCEPT !.subs = @ + 1]
      [] l.st = "Disabled" -> [l EXCEPT !.shut = @ + 1, !.reenable = FALSE]
      [] OTHER -> l

inject_dial_upgrade_error(l) == Queue(l, "ProtocolError")
-----------------------------------------------------------------------------
(* poll: the set of what it may do, the value it leaves and what it returns *)

Returns(l, ev) == [next |-> l, event |-> ev]

\* The substreams of Normal are polled until one has something: some of them may
\* have ended before, and are shut down, or failed, and are forgotten.
PollNormal(l) ==
    LET left(ended, failed) == l.subs - ended - failed
        after(ended, failed) == In(l, "Normal", left(ended, failed), l.shut + ended, FALSE)
    IN  UNION {
            IF ended + failed > l.subs THEN {}
            ELSE IF left(ended, failed) = 0
            THEN {Returns(In(l, "Disabled", 0, l.shut + ended, TRUE), "Closed")}
            ELSE {Returns(after(ended, failed), ev) : ev \in {"Pending", "Message", "Clogged"}}
        : ended \in 0 .. l.subs, failed \in 0 .. l.subs}

\* The numbers of substreams that may be left: some of them are closed by now.
shutdown_list(shut) == 0 .. shut

PollDisabled(l) ==
    {IF l.reenable /\ shut = 0 THEN Returns(In(l, "Opening", 0, 0, FALSE), "Request")
     ELSE Returns(In(l, "Disabled", 0, shut, l.reenable), "Pending") : shut \in shutdown_list(l.shut)}

poll_state(l) ==
    CASE l.st = "Normal"   -> PollNormal(l)
      [] l.st = "Disabled" -> PollDisabled(l)
      [] l.st = "Opening"  -> {Returns(l, "Pending"), Returns(l, "ProtocolError")}
      [] OTHER             -> {Returns(l, "Pending")}

\* Mutant: the substreams before the queue.
poll_state_first(l) ==
    IF l.st = "Normal" THEN poll_state(l)
    ELSE IF l.queue # <<>> THEN {Returns([l EXCEPT !.queue = Tail(@)], Head(l.queue))}
    ELSE IF l.st = "KillAsap" THEN {Returns(l, "Close")}
    ELSE poll_state(l)

\* The events queue first, then the connection is killed if needed.
poll(l) ==
    IF l.queue # <<>> THEN {Returns([l EXCEPT !.queue = Tail(@)], Head(l.queue))}
    ELSE IF l.st = "KillAsap" THEN {Returns(l, "Close")}
    ELSE poll_state(l)
=============================================================================
