------------------------------ MODULE Peerset -------------------------------
(***************************************************************************)
(* client/peerset/src/lib.rs: the peer set manager (PSM).  It decides which *)
(* peers the node is connected to and tells its owner, the network         *)
(* behaviour, through a queue of messages.                                 *)
(*                                                                         *)
(* The owner calls incoming, dropped, discovered and debug_info directly   *)
(* and polls the PSM for messages.  Everybody else holds a PeersetHandle   *)
(* and sends Actions through an unbounded channel: poll_next takes one     *)
(* only when the message queue is empty, and any holder may have sent any  *)
(* Action, so the channel is modelled by the choice poll_next makes.       *)
(*                                                                         *)
(* poll_next loops: after an Action it returns the first message the       *)
(* Action produced, if any.  in_poll is TRUE inside of that loop, where no *)
(* direct call can happen (they all need &mut self).                       *)
(***************************************************************************)
EXTENDS PeersState, PeersetMessages

CONSTANTS
    BannedThreshold,    \* BANNED_THRESHOLD
    DisconnectChange,   \* DISCONNECT_REPUTATION_CHANGE
    RepChanges,         \* the values of the ReputationChanges that are reported
    Indices,            \* values of IncomingIndex
    MaxQueue            \* bound: the owner polls before the queue is longer

ASSUME ReputationConstants ==
    /\ BannedThreshold \in Int
    /\ DisconnectChange \in Int
    /\ RepChanges \subseteq Int
ASSUME QueueBound == MaxQueue \in Nat

VARIABLES data, reserved_only, message_queue, in_poll

vars == <<data, reserved_only, message_queue, in_poll>>

Message == MessagesOn(Peers, Indices)
-----------------------------------------------------------------------------
(* Time *)

\* One second moves a reputation towards zero by 2%, and at least by one.
reput_tick(r) ==
    LET diff == IF r < 0 THEN -((-r) \div 50) ELSE r \div 50
    IN  IF diff = 0 /\ r < 0 THEN r + 1
        ELSE IF diff = 0 /\ r > 0 THEN r - 1
        ELSE r - diff

\* One pass of the loop of update_time over the known peers: a peer that has been
\* neutral and out of contact for long enough is forgotten.
TickNode(n) ==
    IF n.conn = "Unknown" THEN n
    ELSE IF n.conn = "NotConnected" /\ n.rep = 0 /\ n.stale THEN NoNode
    ELSE [n EXCEPT !.rep = reput_tick(@)]

Tick(d) == [d EXCEPT !.nodes = [p \in Peers |-> TickNode(@[p])]]

\* The states update_time may leave: no second has gone by since the last call,
\* or one has.  Several seconds are several calls (DebugInfo is a call alone).
update_time(d) == {d, Tick(d)}
-----------------------------------------------------------------------------
(* alloc_slots *)

\* The peers the two loops of alloc_slots may try next: the priority peers
\* first (only the reserved ones in reserved-only mode), then the peer with the
\* highest reputation, unless that is abysmal.
NextToTry(d, reserved) ==
    LET priority == IF reserved THEN PriorityNotConnectedFrom(d, Reserved)
                    ELSE PriorityNotConnected(d)
    IN  IF priority # {} THEN priority
        ELSE IF reserved THEN {}
        ELSE {p \in HighestNotConnected(d) : d.nodes[p].rep >= BannedThreshold}

\* The sequences of peers the loops may connect to, one after the other, until
\* there is nobody left to try or no slot.
Allocations(d, reserved) ==
    LET before(s, i) == outgoing(d, {s[j] : j \in 1 .. i-1})
        candidates == {p \in Peers : IsNotConnected(d, p)}
    IN  {s \in OrdersOfParts(candidates) :
            /\ \A i \in 1 .. Len(s) : /\ s[i] \in NextToTry(before(s, i), reserved)
                                      /\ CanOutgoing(before(s, i), s[i])
            /\ \A p \in NextToTry(before(s, Len(s) + 1), reserved) :
                    ~CanOutgoing(before(s, Len(s) + 1), p)}

\* alloc_slots from state d, with q the message queue: the next state.
alloc_slots(d, reserved, q) ==
    \E now \in update_time(d) : \E s \in Allocations(now, reserved) :
        /\ data' = outgoing(now, {s[i] : i \in 1 .. Len(s)})
        /\ message_queue' = q \o Connects(s)
-----------------------------------------------------------------------------
(* Actions, taken by poll_next from the channel *)

TakesAction == message_queue = <<>> /\ in_poll' = TRUE

SetGroupAndAlloc(d) == alloc_slots(d, reserved_only, message_queue) /\ UNCHANGED reserved_only

on_add_reserved_peer(p) ==
    TakesAction /\ SetGroupAndAlloc(add_to_priority_group(data, Reserved, p))

\* Mutant: the owner is not told.
on_remove_reserved_peer_silent(p) ==
    LET d == remove_from_priority_group(data, Reserved, p)
    IN  /\ TakesAction
        /\ data' = IF IsConnected(d, p) /\ reserved_only THEN disconnect(d, p) ELSE d
        /\ UNCHANGED <<message_queue, reserved_only>>

on_remove_reserved_peer(p) ==
    LET d == remove_from_priority_group(data, Reserved, p)
    IN  /\ TakesAction
        /\ IF IsConnected(d, p) /\ reserved_only
           THEN data' = disconnect(d, p) /\ message_queue' = Append(message_queue, Drop(p))
           ELSE data' = d /\ UNCHANGED message_queue
        /\ UNCHANGED reserved_only

on_set_reserved_only(b) ==
    LET d == set_priority_only(data, b)
        dropped_peers == connected_peers(d) \ d.priority_nodes[Reserved]
    IN  /\ TakesAction
        /\ reserved_only' = b
        /\ IF b
           THEN \E s \in Orders(dropped_peers) :
                    /\ data' = DisconnectAll(d, dropped_peers)
                    /\ message_queue' = message_queue \o Drops(s)
           ELSE alloc_slots(d, b, message_queue)

on_set_priority_group(g, S) == TakesAction /\ SetGroupAndAlloc(set_priority_group(data, g, S))

on_add_to_priority_group(g, p) == TakesAction /\ SetGroupAndAlloc(add_to_priority_group(data, g, p))

on_remove_from_priority_group(g, p) ==
    TakesAction /\ SetGroupAndAlloc(remove_from_priority_group(data, g, p))

on_report_peer(p, change) ==
    /\ TakesAction
    /\ \E now \in update_time(data) :
        LET d == add_reputation(now, p, change)
        IN  IF IsConnected(now, p) /\ d.nodes[p].rep < BannedThreshold
            THEN data' = disconnect(d, p) /\ message_queue' = Append(message_queue, Drop(p))
            ELSE data' = d /\ UNCHANGED message_queue
    /\ UNCHANGED reserved_only

HandleAction ==
    \/ \E p \in Peers : on_add_reserved_peer(p)
    \/ \E p \in Peers : on_remove_reserved_peer(p)
    \/ \E b \in BOOLEAN : on_set_reserved_only(b)
    \/ \E g \in Groups, S \in SUBSET Peers : on_set_priority_group(g, S)
    \/ \E g \in Groups, p \in Peers : on_add_to_priority_group(g, p)
    \/ \E g \in Groups, p \in Peers : on_remove_from_priority_group(g, p)
    \/ \E p \in Peers, change \in RepChanges : on_report_peer(p, change)
-----------------------------------------------------------------------------
(* The interface of the owner *)

Called == ~in_poll /\ Len(message_queue) <= MaxQueue /\ UNCHANGED <<in_poll, reserved_only>>

incoming(p, i) ==
    /\ Called
    /\ \E now \in update_time(data) :
        IF IsConnected(now, p)
        THEN data' = now /\ UNCHANGED message_queue
        ELSE LET d == IF IsUnknown(now, p) THEN discover(now, p)
                      ELSE bump_last_connected_or_discovered(now, p)
             IN  IF d.nodes[p].rep >= BannedThreshold /\ CanAcceptIncoming(d, p)
                 THEN data' = accept_incoming(d, p) /\ message_queue' = Append(message_queue, Accept(i))
                 ELSE data' = d /\ message_queue' = Append(message_queue, Reject(i))

dropped(p) ==
    /\ Called
    /\ \E now \in update_time(data) :
        LET d == IF IsConnected(now, p)
                 THEN disconnect(add_reputation(now, p, DisconnectChange), p)
                 ELSE now
        IN  alloc_slots(d, reserved_only, message_queue)

discovered(S) ==
    /\ Called
    /\ IF \E p \in S : IsUnknown(data, p)
       THEN alloc_slots(DiscoverAll(data, S), reserved_only, message_queue)
       ELSE UNCHANGED <<data, message_queue>>

debug_info ==
    /\ Called
    /\ data' \in update_time(data)
    /\ UNCHANGED message_queue

\* poll_next returns a message, the first one of the queue.
PollReady(m) ==
    /\ message_queue # <<>>
    /\ m = Head(message_queue)
    /\ message_queue' = Tail(message_queue)
    /\ in_poll' = FALSE
    /\ UNCHANGED <<data, reserved_only>>

\* poll_next returns Pending: no message, no Action in the channel.
PollPending ==
    /\ message_queue = <<>>
    /\ in_poll
    /\ in_poll' = FALSE
    /\ UNCHANGED <<data, reserved_only, message_queue>>

\* FORGET_AFTER has gone by since the last contact with a peer.
ForgetAfterElapsed(p) ==
    /\ IsNotConnected(data, p)
    /\ ~data.nodes[p].stale
    /\ data' = [data EXCEPT !.nodes[p].stale = TRUE]
    /\ UNCHANGED <<reserved_only, message_queue, in_poll>>
-----------------------------------------------------------------------------
(* Specification *)

\* from_config with reserved nodes R and boot nodes B.
from_config(R, B, reserved) ==
    LET d == DiscoverAll(set_priority_group(NewState(reserved), Reserved, R), B)
    IN  {[data |-> outgoing(d, {s[i] : i \in 1 .. Len(s)}), queue |-> Connects(s)] :
            s \in Allocations(d, reserved)}

Init ==
    /\ \E R, B \in SUBSET Peers, b \in BOOLEAN : \E c \in from_config(R, B, b) :
        /\ data = c.data
        /\ reserved_only = b
        /\ message_queue = c.queue
    /\ in_poll = FALSE

Next ==
    \/ HandleAction
    \/ \E p \in Peers, i \in Indices : incoming(p, i)
    \/ \E p \in Peers : dropped(p)
    \/ \E S \in SUBSET Peers : discovered(S)
    \/ debug_info
    \/ \E m \in Message : PollReady(m)
    \/ PollPending
    \/ \E p \in Peers : ForgetAfterElapsed(p)

Spec == Init /\ [][Next]_vars
-----------------------------------------------------------------------------
(* The abstract specification that Peerset implements *)

Abs == INSTANCE PeersetAbs WITH connected <- connected_peers(data)

-----------------------------------------------------------------------------
(* Properties *)

TypeOK ==
    /\ data \in States
    /\ reserved_only \in BOOLEAN
    /\ message_queue \in Seq(Message)
    /\ in_poll \in BOOLEAN

\* num_in and num_out are exactly the numbers of connected non-priority nodes
\* of each direction, whatever groups a peer enters or leaves while connected
\* (the fields' comments, peersstate.rs:40-44).  In particular no counter is
\* ever decremented below zero, where the u32 would wrap or panic.
SlotsCounted == Counted(data)

\* For its owner the PSM is a set of connected peers that changes only with an
\* announcement: PeersetAbs.
Implements == Abs!Spec

\* A connection that needs a slot is only made while there is one: after a step
\* that connects a non-priority peer the counter of that direction is within
\* its limit (it may be over it because of peers that left a priority group).
ConnectsWithinLimits ==
    [][\A p \in Peers : ~IsConnected(data, p) /\ ~IsPriority(data', p) =>
            /\ data'.nodes[p].conn = "Out" => data'.num_out <= MaxOut
            /\ data'.nodes[p].conn = "In" => data'.num_in <= MaxIn]_vars

\* reserved_nodes is the "List of nodes that we should always be connected to"
\* (lib.rs:169): the PSM does not forget that such a node exists.
ReservedIsKnown == \A p \in data.priority_nodes[Reserved] : ~IsUnknown(data, p)
=============================================================================
