---------------------------- MODULE GenericProto ----------------------------
(***************************************************************************)
(* client/network/src/protocol/generic_proto/behaviour.rs: the behaviour   *)
(* that keeps four parties in step: the libp2p swarm, the handler of each  *)
(* connection, the peer set manager and the external API.                  *)
(*                                                                         *)
(* The PSM is its abstract specification, PeersetAbs, and the handler is   *)
(* HandlerAbs.  The swarm is external: it reports connections, one at a    *)
(* time for each peer, it dials when told to (and because of others, the   *)
(* discovery for instance), delivers commands to handlers and events from  *)
(* them, in order, and calls poll.                                         *)
(*                                                                         *)
(* poll drains the PSM, fires the timers and returns ONE of the queued     *)
(* events; between two calls of poll the swarm may inject anything.        *)
(* polling is TRUE inside of the loop over the PSM, where it cannot.       *)
(*                                                                         *)
(* Instants: a ban (and the timer that waits for its end) is "active" or   *)
(* "over"; "none" is banned_until: None.                                   *)
(***************************************************************************)
EXTENDS HandlerAbs, PeersetMessages, FiniteSets, SequencesExt

CONSTANTS
    Peers,
    MaxIndex,       \* bound: incoming connections, over all instances
    MaxQueue,       \* bound: messages of the PSM
    Setups          \* the instances: [peers: the peers there are,
                    \*   max_events: the swarm polls before more events are queued,
                    \*   max_out: bound on the events of a handler in flight,
                    \*   max_index: bound on its incoming connections]

VARIABLES
    setup,                                          \* the instance of this behaviour
    peers, incoming, next_incoming_index, events,   \* struct GenericProto
    polling,
    connected, message_queue, in_poll,              \* the PSM
    conn, dialing,                                  \* the swarm
    handler, handler_out,                           \* the handlers and their events in flight
    api,                                            \* the peers the external API believes open
    fault,                                          \* error!, warn! or debug_assert! of the last step, and the peer it is about
    twice                                           \* history: the peers that have had two entries in `incoming` at a time

psmVars == <<connected, message_queue, in_poll>>
swarmVars == <<conn, dialing>>
handlerVars == <<handler, handler_out>>
vars == <<setup, peers, incoming, next_incoming_index, events, polling, psmVars, swarmVars, handlerVars, api, fault, twice>>

Index == 0 .. MaxIndex

PSM == INSTANCE PeersetAbs WITH Indices <- Index

PeerState == [st : {"Absent", "Poisoned", "Banned", "PendingRequest", "Requested", "Disabled",
                    "DisabledPendingEnable", "Enabled", "Incoming"},
              open : BOOLEAN, ban : {"none", "active", "over"}]

State(st, open, ban) == [st |-> st, open |-> open, ban |-> ban]
Absent == State("Absent", FALSE, "none")
Poisoned == State("Poisoned", FALSE, "none")

SendEvent(p, cmd) == [to |-> "handler", peer |-> p, what |-> cmd]
Dial(p) == [to |-> "swarm", peer |-> p, what |-> "Dial"]
Generate(p, ev) == [to |-> "api", peer |-> p, what |-> ev]

Event == [to : {"handler"}, peer : Peers, what : {"Enable", "Disable", "Packet"}]
    \cup [to : {"swarm"}, peer : Peers, what : {"Dial"}]
    \cup [to : {"api"}, peer : Peers, what : {"Open", "Closed", "Message"}]
-----------------------------------------------------------------------------
(* Helpers *)

SetPeer(p, s) == peers' = [peers EXCEPT ![p] = s]

Push(evs) == events' = events \o evs

NoFault == fault' = {}

Fault(p, what) == fault' = {[peer |-> p, what |-> what]}

FaultIf(c, p, what) == fault' = IF c THEN {[peer |-> p, what |-> what]} ELSE {}

\* An index that is not in `incoming`: nobody knows whose it was.
InvalidIndex == fault' = {[peer |-> p, what |-> "invalid index"] : p \in Peers}

PsmUnchanged == UNCHANGED psmVars

\* A call of the PSM, from outside of its poll_next.
Dropped(p) == PSM!dropped(p)

\* The position in `incoming` of the first entry of a peer, of its first alive
\* one, and of the entry with an index; 0 if there is none.
EntryOf(p) == SelectInSeq(incoming, LAMBDA i : i.peer = p)

\* Mutant: does not compare the peer.
AliveEntryOf_any(p) == SelectInSeq(incoming, LAMBDA i : i.alive)

AliveEntryOf(p) == SelectInSeq(incoming, LAMBDA i : i.peer = p /\ i.alive)

EntryAt(index) == SelectInSeq(incoming, LAMBDA i : i.id = index)

MarkDead(i) == incoming' = [incoming EXCEPT ![i].alive = FALSE]

IsOpen(p) == peers[p].open

IsRequested(p) == peers[p].st \in {"PendingRequest", "Requested", "DisabledPendingEnable", "Enabled"}
-----------------------------------------------------------------------------
(* peerset_report_connect, _disconnect, _accept, _reject: the loop of poll *)

peerset_report_connect(p) ==
    LET s == peers[p]
        alive == AliveEntryOf(p)
    IN  \/ /\ s.st = "Absent" \/ (s.st = "Banned" /\ s.ban # "active")
           /\ SetPeer(p, State("Requested", FALSE, "none")) /\ Push(<<Dial(p)>>)
           /\ UNCHANGED incoming /\ NoFault
        \/ /\ s.st = "Banned" /\ s.ban = "active"
           /\ SetPeer(p, State("PendingRequest", FALSE, s.ban))
           /\ UNCHANGED <<incoming, events>> /\ NoFault
        \/ /\ s.st = "Disabled" /\ s.ban = "active"
           /\ SetPeer(p, State("DisabledPendingEnable", s.open, s.ban))
           /\ UNCHANGED <<incoming, events>> /\ NoFault
        \/ /\ s.st = "Disabled" /\ s.ban # "active"
           /\ SetPeer(p, State("Enabled", s.open, "none")) /\ Push(<<SendEvent(p, "Enable")>>)
           /\ UNCHANGED incoming /\ NoFault
        \/ /\ s.st = "Incoming"
           /\ SetPeer(p, State("Enabled", FALSE, "none")) /\ Push(<<SendEvent(p, "Enable")>>)
           /\ IF alive # 0 THEN MarkDead(alive) /\ NoFault
              ELSE UNCHANGED incoming /\ Fault(p, "no incoming entry")
        \/ /\ s.st \in {"Enabled", "DisabledPendingEnable", "Requested", "PendingRequest"}
           /\ UNCHANGED <<peers, incoming, events>> /\ Fault(p, "connect: already requested")
        \/ /\ s.st = "Poisoned"
           /\ UNCHANGED <<peers, incoming, events>> /\ Fault(p, "poisoned")

peerset_report_disconnect(p) ==
    LET s == peers[p]
    IN  /\ UNCHANGED incoming
        /\ \/ /\ s.st \in {"Absent", "Disabled", "Banned"}
              /\ UNCHANGED <<peers, events>> /\ NoFault
           \/ /\ s.st = "DisabledPendingEnable"
              /\ SetPeer(p, State("Disabled", s.open, s.ban)) /\ UNCHANGED events /\ NoFault
           \/ /\ s.st = "Enabled"
              /\ SetPeer(p, State("Disabled", s.open, "none"))
              /\ Push(<<SendEvent(p, "Disable")>>) /\ NoFault
           \/ /\ s.st = "Incoming"
              /\ UNCHANGED <<peers, events>> /\ Fault(p, "drop: was in incoming mode")
           \/ /\ s.st = "Requested"
              /\ SetPeer(p, Absent) /\ UNCHANGED events /\ NoFault
           \/ /\ s.st = "PendingRequest"
              /\ SetPeer(p, State("Banned", FALSE, s.ban)) /\ UNCHANGED events /\ NoFault
           \/ /\ s.st = "Poisoned"
              /\ UNCHANGED <<peers, events>> /\ Fault(p, "poisoned")

\* The answer to the alive incoming connection at a position of `incoming`.
Answer(at, cmd, s) ==
    LET p == incoming[at].peer
    IN  IF peers[p].st = "Incoming"
        THEN SetPeer(p, s) /\ Push(<<SendEvent(p, cmd)>>) /\ NoFault
        ELSE /\ UNCHANGED <<peers, events>>
             /\ Fault(p, IF peers[p].st = "Absent" THEN "alive incoming: no entry in peers"
                         ELSE "alive incoming: not in incoming state")

\* Includes the step of the PSM: an obsolete incoming is reported as dropped.
peerset_report_accept(index) ==
    LET at == EntryAt(index)
    IN  \/ /\ at = 0
           /\ UNCHANGED <<peers, incoming, events>> /\ InvalidIndex
           /\ PSM!PollReady(Accept(index))
        \/ /\ at # 0 /\ ~incoming[at].alive
           /\ incoming' = RemoveAt(incoming, at)
           /\ UNCHANGED <<peers, events>> /\ NoFault
           /\ Head(message_queue) = Accept(index)
           /\ PSM!Alloc(connected \ {incoming[at].peer}, Tail(message_queue)) /\ in_poll' = FALSE
        \/ /\ at # 0 /\ incoming[at].alive
           /\ incoming' = RemoveAt(incoming, at)
           /\ Answer(at, "Enable", State("Enabled", FALSE, "none"))
           /\ PSM!PollReady(Accept(index))

peerset_report_reject(index) ==
    LET at == EntryAt(index)
    IN  /\ PSM!PollReady(Reject(index))
        /\ \/ /\ at = 0
              /\ UNCHANGED <<peers, incoming, events>> /\ InvalidIndex
           \/ /\ at # 0 /\ ~incoming[at].alive
              /\ incoming' = RemoveAt(incoming, at)
              /\ UNCHANGED <<peers, events>> /\ Fault(incoming[at].peer, "reject: obsolete incoming")
           \/ /\ at # 0 /\ incoming[at].alive
              /\ incoming' = RemoveAt(incoming, at)
              /\ Answer(at, "Disable", State("Disabled", FALSE, "none"))
-----------------------------------------------------------------------------
(* The calls of the swarm and of the external API *)

\* No call is in progress: not in poll, and not between the two halves of a
\* replacement.
Idle == ~polling /\ \A q \in Peers : conn[q] # "replaced"

HasRoom == Len(events) < setup.max_events /\ Len(message_queue) <= MaxQueue

NextIndex(i) == i + 1

\* inject_connected, for a connection we dialed or one we listened for.
inject_connected(p, point) ==
    LET s == peers[p]
    IN  \/ /\ s.st \in {"Requested", "PendingRequest"}
           /\ SetPeer(p, State("Enabled", FALSE, "none")) /\ Push(<<SendEvent(p, "Enable")>>)
           /\ UNCHANGED <<incoming, next_incoming_index>> /\ PsmUnchanged /\ NoFault
        \/ /\ s.st \in {"Absent", "Poisoned", "Banned"} /\ point = "Listener"
           /\ next_incoming_index < setup.max_index
           /\ next_incoming_index' = NextIndex(next_incoming_index)
           /\ PSM!incoming(p, next_incoming_index)
           /\ incoming' = Append(incoming, [peer |-> p, alive |-> TRUE, id |-> next_incoming_index])
           /\ SetPeer(p, State("Incoming", FALSE, "none"))
           /\ UNCHANGED events /\ NoFault
        \/ /\ s.st \in {"Absent", "Poisoned", "Banned"} /\ point = "Dialer"
           /\ SetPeer(p, State("Disabled", FALSE, s.ban)) /\ Push(<<SendEvent(p, "Disable")>>)
           /\ UNCHANGED <<incoming, next_incoming_index>> /\ PsmUnchanged /\ NoFault
        \/ /\ s.st \in {"Disabled", "DisabledPendingEnable", "Enabled", "Incoming"}
           /\ UNCHANGED <<peers, incoming, next_incoming_index, events>> /\ PsmUnchanged
           /\ Fault(p, "connected: already connected")

ClosedIf(open, p) == IF open THEN <<Generate(p, "Closed")>> ELSE <<>>

\* What is left of a disabled peer: the ban.
AfterDisabled(ban) == IF ban = "none" THEN Absent ELSE State("Banned", FALSE, ban)

inject_disconnected(p) ==
    LET s == peers[p]
        entry == EntryOf(p)
    IN  /\ UNCHANGED next_incoming_index
        /\ \/ /\ s.st \in {"Absent", "Requested", "PendingRequest", "Banned", "Poisoned"}
              /\ SetPeer(p, Absent) /\ UNCHANGED <<incoming, events>> /\ PsmUnchanged
              /\ Fault(p, IF s.st = "Poisoned" THEN "poisoned" ELSE "disconnected: not connected")
           \/ /\ s.st = "Disabled"
              /\ SetPeer(p, AfterDisabled(s.ban))
              /\ Push(ClosedIf(s.open, p)) /\ UNCHANGED incoming /\ PsmUnchanged /\ NoFault
           \/ /\ s.st = "DisabledPendingEnable"
              /\ Dropped(p)
              /\ SetPeer(p, State("Banned", FALSE, s.ban))
              /\ Push(ClosedIf(s.open, p)) /\ UNCHANGED incoming /\ NoFault
           \/ /\ s.st = "Enabled"
              /\ Dropped(p)
              /\ SetPeer(p, State("Banned", FALSE, "active"))
              /\ Push(ClosedIf(s.open, p)) /\ UNCHANGED incoming /\ NoFault
           \/ /\ s.st = "Incoming"
              /\ SetPeer(p, Absent) /\ UNCHANGED events /\ PsmUnchanged
              /\ IF entry # 0 THEN MarkDead(entry) /\ NoFault
                 ELSE UNCHANGED incoming /\ Fault(p, "no incoming entry")

\* Mutant: the PSM is not told.
inject_dial_failure_silent(p) ==
    /\ UNCHANGED <<incoming, next_incoming_index, events>> /\ PsmUnchanged /\ NoFault
    /\ peers' = IF peers[p].st \in {"Requested", "PendingRequest"}
                THEN [peers EXCEPT ![p] = State("Banned", FALSE, "active")] ELSE peers

inject_dial_failure(p) ==
    LET s == peers[p]
    IN  /\ UNCHANGED <<incoming, next_incoming_index, events>>
        /\ \/ /\ s.st \in {"Requested", "PendingRequest"}
              /\ SetPeer(p, State("Banned", FALSE, "active")) /\ Dropped(p) /\ NoFault
           \/ /\ s.st \in {"Absent", "Banned", "Disabled", "Enabled", "DisabledPendingEnable", "Incoming"}
              /\ UNCHANGED peers /\ PsmUnchanged /\ NoFault
           \/ /\ s.st = "Poisoned"
              /\ UNCHANGED peers /\ PsmUnchanged /\ Fault(p, "poisoned")

\* ban is the ban the caller asks for, "none" or "active" (a duration from now).
disconnect_peer_inner(p, ban) ==
    LET s == peers[p]
        alive == AliveEntryOf(p)
    IN  /\ UNCHANGED next_incoming_index
        /\ \/ /\ s.st \in {"Absent", "Disabled", "Requested", "PendingRequest", "Banned"}
              /\ UNCHANGED <<peers, incoming, events>> /\ PsmUnchanged /\ NoFault
           \/ /\ s.st = "DisabledPendingEnable"
              /\ Dropped(p)
              /\ SetPeer(p, State("Disabled", s.open, IF ban = "none" THEN s.ban ELSE ban))
              /\ UNCHANGED <<incoming, events>> /\ NoFault
           \/ /\ s.st = "Enabled"
              /\ Dropped(p)
              /\ SetPeer(p, State("Disabled", s.open, ban)) /\ Push(<<SendEvent(p, "Disable")>>)
              /\ UNCHANGED incoming /\ NoFault
           \/ /\ s.st = "Incoming"
              /\ IF alive # 0
                 THEN /\ MarkDead(alive) /\ Push(<<SendEvent(p, "Disable")>>)
                      /\ SetPeer(p, State("Disabled", FALSE, ban)) /\ NoFault
                 ELSE /\ UNCHANGED <<incoming, events>>
                      /\ SetPeer(p, Poisoned) /\ Fault(p, "no incoming entry")
              /\ PsmUnchanged
           \/ /\ s.st = "Poisoned"
              /\ UNCHANGED <<peers, incoming, events>> /\ PsmUnchanged /\ Fault(p, "poisoned")

Shut(s) == State(s.st, FALSE, s.ban)

\* inject_node_event: NotifsHandlerOut::Closed.
HandlerClosed(p) ==
    LET s == peers[p]
    IN  \/ /\ s.st = "Absent"
           /\ UNCHANGED <<peers, events>> /\ PsmUnchanged /\ Fault(p, "closed: no entry")
        \/ /\ s.st = "Enabled"
           /\ Dropped(p)
           /\ Push(<<Generate(p, "Closed"), SendEvent(p, "Disable")>>)
           /\ SetPeer(p, State("Disabled", FALSE, "none"))
           /\ FaultIf(~s.open, p, "assert: closed while not open")
        \/ /\ s.st \in {"Disabled", "DisabledPendingEnable"}
           /\ Push(<<Generate(p, "Closed")>>)
           /\ SetPeer(p, Shut(s)) /\ PsmUnchanged
           /\ FaultIf(~s.open, p, "assert: closed while not open")
        \/ /\ s.st \in {"Poisoned", "Banned", "PendingRequest", "Requested", "Incoming"}
           /\ Push(<<Generate(p, "Closed")>>)
           /\ SetPeer(p, Poisoned) /\ PsmUnchanged /\ Fault(p, "closed: state mismatch")

\* Mutant: only expects the event while the peer is enabled.
HandlerOpen_enabled(p) ==
    LET s == peers[p]
    IN  IF s.st = "Enabled" /\ ~s.open
        THEN SetPeer(p, State(s.st, TRUE, s.ban)) /\ Push(<<Generate(p, "Open")>>) /\ NoFault
        ELSE UNCHANGED <<peers, events>> /\ Fault(p, "open: state mismatch")

\* inject_node_event: NotifsHandlerOut::Open.
HandlerOpen(p) ==
    LET s == peers[p]
    IN  IF s.st \in {"Enabled", "DisabledPendingEnable", "Disabled"} /\ ~s.open
        THEN SetPeer(p, State(s.st, TRUE, s.ban)) /\ Push(<<Generate(p, "Open")>>) /\ NoFault
        ELSE UNCHANGED <<peers, events>> /\ Fault(p, "open: state mismatch")

\* inject_node_event: CustomMessage, Notification and Clogged.
HandlerMessage(p, ev) ==
    /\ Push(<<Generate(p, "Message")>>)
    /\ UNCHANGED peers
    /\ FaultIf(~IsOpen(p), p, IF ev = "Notification" THEN "assert: notification while not open"
                              ELSE "assert: message while not open")

inject_node_event(p, ev) ==
    \/ ev = "Closed" /\ HandlerClosed(p) /\ UNCHANGED <<incoming, next_incoming_index>>
    \/ ev = "Open" /\ HandlerOpen(p) /\ UNCHANGED <<incoming, next_incoming_index>> /\ PsmUnchanged
    \/ /\ ev \in {"Message", "Notification", "Clogged"}
       /\ HandlerMessage(p, ev) /\ UNCHANGED <<incoming, next_incoming_index>> /\ PsmUnchanged
    \/ ev = "ProtocolError" /\ disconnect_peer_inner(p, "active")
-----------------------------------------------------------------------------
(* The swarm (external): each of its steps and the call it makes *)

Swarm == Idle /\ HasRoom /\ UNCHANGED <<polling, api>>

NewHandler(p) ==
    /\ handler' = [handler EXCEPT ![p] = "Init"]
    /\ handler_out' = [handler_out EXCEPT ![p] = <<>>]

Connected(p, point) ==
    /\ Swarm
    /\ conn[p] = "none"
    /\ point = "Dialer" => dialing[p]
    /\ inject_connected(p, point)
    /\ conn' = [conn EXCEPT ![p] = "up"]
    /\ dialing' = [dialing EXCEPT ![p] = @ /\ point # "Dialer"]
    /\ NewHandler(p)

Disconnected(p) ==
    /\ Swarm
    /\ conn[p] = "up"
    /\ inject_disconnected(p)
    /\ conn' = [conn EXCEPT ![p] = "none"]
    /\ NewHandler(p)
    /\ UNCHANGED dialing

\* inject_replaced, which the behaviour leaves to the default of the trait:
\* inject_disconnected followed by inject_connected.
Replaced(p) ==
    /\ Swarm
    /\ conn[p] = "up"
    /\ next_incoming_index < setup.max_index
    /\ inject_disconnected(p)
    /\ conn' = [conn EXCEPT ![p] = "replaced"]
    /\ NewHandler(p)
    /\ UNCHANGED dialing

ReplacedBy(p, point) ==
    /\ conn[p] = "replaced"
    /\ inject_connected(p, point)
    /\ conn' = [conn EXCEPT ![p] = "up"]
    /\ UNCHANGED <<polling, api, dialing, handlerVars>>

DialFailed(p) ==
    /\ Swarm
    /\ dialing[p]
    /\ inject_dial_failure(p)
    /\ dialing' = [dialing EXCEPT ![p] = FALSE]
    /\ UNCHANGED <<conn, handlerVars>>

\* Another part of the node dials the peer.
OtherDials(p) ==
    /\ Idle
    /\ conn[p] = "none" /\ ~dialing[p]
    /\ dialing' = [dialing EXCEPT ![p] = TRUE]
    /\ NoFault
    /\ UNCHANGED <<peers, incoming, next_incoming_index, events, polling, psmVars, conn, handlerVars, api>>

\* The handler does something by itself; the event is on its way.
HandlerSteps(p) ==
    /\ Idle
    /\ conn[p] = "up" /\ Len(handler_out[p]) < setup.max_out
    /\ \E t \in Stepping(handler[p]) :
        /\ handler' = [handler EXCEPT ![p] = t.state]
        /\ handler_out' = [handler_out EXCEPT ![p] = @ \o t.events]
    /\ NoFault
    /\ UNCHANGED <<peers, incoming, next_incoming_index, events, polling, psmVars, swarmVars, api>>

NodeEvent(p) ==
    /\ Swarm
    /\ handler_out[p] # <<>>
    /\ inject_node_event(p, Head(handler_out[p]))
    /\ handler_out' = [handler_out EXCEPT ![p] = Tail(@)]
    /\ UNCHANGED <<handler, swarmVars>>

\* A ban ends, and with it the timer that waits for its end.
BanOver(p) ==
    /\ peers[p].ban = "active"
    /\ peers' = [peers EXCEPT ![p].ban = "over"]
    /\ NoFault
    /\ UNCHANGED <<incoming, next_incoming_index, events, polling, psmVars, swarmVars, handlerVars, api>>
-----------------------------------------------------------------------------
(* The external API *)

disconnect_peer(p) == Swarm /\ disconnect_peer_inner(p, "none") /\ UNCHANGED <<swarmVars, handlerVars>>

\* send_packet and write_notification.
send_packet(p) ==
    /\ Swarm
    /\ IsOpen(p)
    /\ Push(<<SendEvent(p, "Packet")>>)
    /\ NoFault
    /\ UNCHANGED <<peers, incoming, next_incoming_index, psmVars, swarmVars, handlerVars>>

add_discovered_nodes ==
    /\ Swarm
    /\ PSM!discovered
    /\ NoFault
    /\ UNCHANGED <<peers, incoming, next_incoming_index, events, swarmVars, handlerVars>>
-----------------------------------------------------------------------------
(* poll *)

InLoop ==
    /\ \A q \in Peers : conn[q] # "replaced"
    /\ polling' = TRUE
    /\ UNCHANGED <<next_incoming_index, swarmVars, handlerVars, api>>

\* The loop gets a message from the PSM.
PollMessage ==
    /\ InLoop
    /\ message_queue # <<>>
    /\ \/ \E p \in Peers : PSM!PollReady(Connect(p)) /\ peerset_report_connect(p)
       \/ \E p \in Peers : PSM!PollReady(Drop(p)) /\ peerset_report_disconnect(p)
       \/ \E i \in Index : Head(message_queue) = Accept(i) /\ peerset_report_accept(i)
       \/ \E i \in Index : Head(message_queue) = Reject(i) /\ peerset_report_reject(i)

\* The PSM takes an Action before it returns.
PollAction ==
    /\ InLoop
    /\ Len(events) < setup.max_events
    /\ PSM!HandleAction
    /\ NoFault
    /\ UNCHANGED <<peers, incoming, events>>

\* Mutant: the timer of a delayed dial is not polled.
Due_enable == {p \in Peers : peers[p].st = "DisabledPendingEnable" /\ peers[p].ban = "over"}

Due == {p \in Peers : peers[p].st \in {"PendingRequest", "DisabledPendingEnable"} /\ peers[p].ban = "over"}

\* The timers that have fired; their events come in the order of a hash map.
FireTimers ==
    peers' = [p \in Peers |->
        IF p \notin Due THEN peers[p]
        ELSE IF peers[p].st = "PendingRequest" THEN State("Requested", FALSE, "none")
        ELSE State("Enabled", peers[p].open, "none")]

\* Mutants: one kind of event for both kinds of timer.
TimerEvents_dial(s) == [i \in 1 .. Len(s) |-> Dial(s[i])]
TimerEvents_enable(s) == [i \in 1 .. Len(s) |-> SendEvent(s[i], "Enable")]

TimerEvents(s) ==
    [i \in 1 .. Len(s) |-> IF peers[s[i]].st = "PendingRequest" THEN Dial(s[i]) ELSE SendEvent(s[i], "Enable")]

\* The command that a handler got last comes again: its outgoing notification
\* handlers replace their state by Poisoned.  A handler that is closing down is
\* left out: its state does not tell which command it got last.
Repeats(h, cmd) == \/ cmd = "Enable" /\ h \in {"Enabled", "Open"}
                   \/ cmd = "Disable" /\ h = "Disabled"

\* What the swarm does with the event that poll returns.
Deliver(e) ==
    \/ /\ e.to = "swarm"
       /\ dialing' = [dialing EXCEPT ![e.peer] = @ \/ conn[e.peer] = "none"]
       /\ UNCHANGED <<conn, handlerVars, api>> /\ NoFault
    \/ /\ e.to = "handler" /\ (conn[e.peer] = "none" \/ e.what = "Packet")
       /\ UNCHANGED <<swarmVars, handlerVars, api>> /\ NoFault
    \/ /\ e.to = "handler" /\ conn[e.peer] = "up" /\ e.what # "Packet"
       /\ \E t \in (IF e.what = "Enable" THEN Enabling(handler[e.peer]) ELSE Disabling(handler[e.peer])) :
            /\ handler' = [handler EXCEPT ![e.peer] = t.state]
            /\ handler_out' = [handler_out EXCEPT ![e.peer] = @ \o t.events]
       /\ FaultIf(Repeats(handler[e.peer], e.what), e.peer, "handler: poisoned")
       /\ UNCHANGED <<swarmVars, api>>
    \/ /\ e.to = "api"
       /\ api' = [api EXCEPT ![e.peer] = CASE e.what = "Open" -> TRUE [] e.what = "Closed" -> FALSE [] OTHER -> @]
       /\ UNCHANGED <<swarmVars, handlerVars>> /\ NoFault

\* The PSM has no more messages: the timers, then one event.
PollReturns ==
    /\ \A q \in Peers : conn[q] # "replaced"
    /\ message_queue = <<>>
    /\ polling' = FALSE /\ in_poll' = FALSE
    /\ FireTimers
    /\ \E s \in SetToSeqs(Due) :
        LET queued == events \o TimerEvents(s)
        IN  IF queued = <<>>
            THEN events' = queued /\ UNCHANGED <<swarmVars, handlerVars, api>> /\ NoFault
            ELSE events' = Tail(queued) /\ Deliver(Head(queued))
    /\ UNCHANGED <<incoming, next_incoming_index, connected, message_queue>>
-----------------------------------------------------------------------------
(* Specification *)

Init ==
    /\ setup \in Setups
    /\ peers = [p \in Peers |-> Absent]
    /\ incoming = <<>> /\ next_incoming_index = 0 /\ events = <<>>
    /\ polling = FALSE
    /\ PSM!Init /\ connected \subseteq setup.peers
    /\ conn = [p \in Peers |-> "none"] /\ dialing = [p \in Peers |-> FALSE]
    /\ handler = [p \in Peers |-> "Init"] /\ handler_out = [p \in Peers |-> <<>>]
    /\ api = [p \in Peers |-> FALSE]
    /\ fault = {}
    /\ twice = {}

\* A step, in which the PSM knows no other peers than those of the instance; the
\* history notes who has come back before its last incoming connection was answered.
Within(A) ==
    /\ A
    /\ connected' \subseteq setup.peers
    /\ twice' = twice \cup {p \in setup.peers : Cardinality({i \in DOMAIN incoming' : incoming'[i].peer = p}) > 1}
    /\ UNCHANGED setup

Next ==
    \/ \E p \in setup.peers, point \in {"Dialer", "Listener"} :
            Within(Connected(p, point)) \/ Within(ReplacedBy(p, point))
    \/ \E p \in setup.peers : Within(Disconnected(p)) \/ Within(Replaced(p))
    \/ \E p \in setup.peers : Within(DialFailed(p)) \/ Within(OtherDials(p))
    \/ \E p \in setup.peers : Within(HandlerSteps(p)) \/ Within(NodeEvent(p))
    \/ \E p \in setup.peers : Within(BanOver(p))
    \/ \E p \in setup.peers : Within(disconnect_peer(p)) \/ Within(send_packet(p))
    \/ Within(add_discovered_nodes)
    \/ Within(PollMessage) \/ Within(PollAction) \/ Within(PollReturns)

Spec == Init /\ [][Next]_vars

\* The executor polls the swarm, and the swarm the behaviour, as long as there is
\* something to do; the channel of the PSM runs empty from time to time; a ban
\* ends; a dial succeeds or fails; inject_replaced returns.
Fairness ==
    /\ WF_vars(Within(PollMessage))
    /\ SF_vars(Within(PollReturns))
    /\ \A p \in Peers : /\ WF_vars(Within(BanOver(p)))
                        /\ SF_vars(Within(DialFailed(p) \/ Connected(p, "Dialer")))
                        /\ WF_vars(Within(\E point \in {"Dialer", "Listener"} : ReplacedBy(p, point)))

FairSpec == Spec /\ Fairness
-----------------------------------------------------------------------------
(* Properties *)

TypeOK ==
    /\ peers \in [Peers -> PeerState]
    /\ incoming \in Seq([peer : Peers, alive : BOOLEAN, id : 0 .. next_incoming_index - 1])
    /\ next_incoming_index \in Index
    /\ events \in Seq(Event)
    /\ polling \in BOOLEAN
    /\ connected \in SUBSET Peers /\ message_queue \in Seq(MessagesOn(Peers, Index)) /\ in_poll \in BOOLEAN
    /\ conn \in [Peers -> {"none", "up", "replaced"}] /\ dialing \in [Peers -> BOOLEAN]
    /\ handler \in [Peers -> HandlerStates] /\ handler_out \in [Peers -> Seq(HandlerEvents)]
    /\ api \in [Peers -> BOOLEAN]
    /\ twice \in SUBSET Peers

\* The peers that never came back before the answer to their last incoming
\* connection was polled.  Of the others `incoming` has had two entries, of which
\* inject_disconnected marks the first, be it dead (behaviour.rs:859), and the
\* PSM does not answer the second when it has accepted the first (behaviour.rs:757).
Patient == Peers \ twice

\* The behaviour and the swarm agree on who is connected, so that the
\* "already connected" and "not connected" errors of inject_connected and
\* inject_disconnected are unreachable for a patient peer.
ConnectionsAgree ==
    \A p \in Patient : conn[p] # "replaced" =>
        (conn[p] = "up" <=> peers[p].st \in {"Disabled", "DisabledPendingEnable", "Enabled", "Incoming"})

\* The behaviour and the PSM agree on who is requested as soon as the messages
\* of the PSM are handled: "The Enabled/Disabled component must be in sync with
\* the peerset manager" (behaviour.rs:63-64).  No connection works, and nobody is
\* dialed, without a slot; and the PSM keeps no slot for a patient peer that
\* nobody dials.
InSyncWithPeerset ==
    message_queue = <<>> =>
        LET requested == {p \in Peers : IsRequested(p)}
        IN  requested \subseteq connected /\ connected \ requested \subseteq twice

\* The entries of p in `incoming` that are alive, and the messages of the PSM
\* that settle one.
AliveEntries(p) == {i \in 1 .. Len(incoming) : incoming[i].peer = p /\ incoming[i].alive}

Settles(i) == {Accept(incoming[i].id), Reject(incoming[i].id), Connect(incoming[i].peer)}

\* A patient peer whose connection waits is waiting for something: its one alive
\* entry in `incoming`, and a message of the PSM that settles it; and who does not
\* wait has no alive entry.
IncomingIsAwaited ==
    \A p \in Patient :
        IF peers[p].st # "Incoming" THEN AliveEntries(p) = {}
        ELSE \E i \in AliveEntries(p) :
                AliveEntries(p) = {i} /\ \E m \in Settles(i) : Contains(message_queue, m)

\* "We are waiting for the Accept or Reject from the peerset. There is a
\* corresponding entry in `incoming`." (behaviour.rs:172-173), said of every peer
\* in the state Incoming.
IncomingIsAnswered ==
    \A p \in Peers : peers[p].st = "Incoming" =>
        \E i \in AliveEntries(p) : \E m \in Settles(i) : Contains(message_queue, m)

\* What the API believes of a peer after some more events.
Believes(p, evs) ==
    LET after(open, e) == IF e.to = "api" /\ e.peer = p /\ e.what # "Message" THEN e.what = "Open" ELSE open
    IN  FoldLeft(after, api[p], evs)

\* "The Open/Closed component must be in sync with the external API"
\* (behaviour.rs:66): when it has the queued events, it has is_open.
InSyncWithApi == \A p \in Peers : Believes(p, events) = IsOpen(p)

\* A command to the handler of p is queued.
CommandQueued(p) == \E i \in 1 .. Len(events) : events[i].to = "handler" /\ events[i].peer = p

\* The handler of a patient peer that has its commands is in the mode of its peer:
\* "if the peerset manager requires a disconnection, we disable the existing
\* handler" (behaviour.rs:64-65).  A handler that is closing down stays so.
HandlerObeys ==
    \A p \in Patient : conn[p] = "up" /\ ~CommandQueued(p) =>
        handler[p] \in CASE peers[p].st = "Enabled" -> {"Enabled", "Open", "KillAsap", "KillOpening"}
                         [] peers[p].st = "Incoming" -> {"Init"}
                         [] OTHER -> {"Disabled", "KillAsap", "KillOpening"}

\* "The Dialing state must correspond to a "link established" state in the
\* peerset manager" (behaviour.rs:69-71): somebody is dialing, or about to be
\* told to, so a request that the PSM holds a slot for is never stuck.
RequestedIsDialed ==
    \A p \in Peers : peers[p].st = "Requested" => dialing[p] \/ Contains(events, Dial(p))

\* The branches with an error!, a warn! or a false debug_assert! that a patient
\* peer does take: the rejection of a connection that is gone is logged as an error
\* (behaviour.rs:678), a notification overtakes the Open event (:1011), and a
\* command meant for the last connection reaches the next one, which gets it
\* twice (:515).
Taken ==
    {"reject: obsolete incoming", "assert: notification while not open", "handler: poisoned"}

\* Of all the other branches of the behaviour that log an error or a warning,
\* leave a peer poisoned, or are ruled out by a debug_assert!, a patient peer takes
\* none.
NoMismatch == \A f \in fault : f.peer \in Patient => f.what \in Taken

\* A request that waits for the end of a ban, or for a dial, does not wait for
\* ever, and the incoming connection of a patient peer is answered.
NothingWaitsForever ==
    /\ \A p \in Peers, st \in {"PendingRequest", "DisabledPendingEnable", "Requested"} :
            peers[p].st = st ~> peers[p].st # st
    /\ \A p \in Peers : peers[p].st = "Incoming" ~> peers[p].st # "Incoming" \/ p \in twice

\* The four views of a peer agree at every moment: the behaviour's, the swarm's
\* (ConnectionsAgree), the PSM's and the API's.
ViewsAgree == TypeOK /\ ConnectionsAgree /\ InSyncWithPeerset /\ InSyncWithApi
=============================================================================
