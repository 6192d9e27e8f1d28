----------------------------- MODULE PeersetAbs -----------------------------
(***************************************************************************)
(* What the peer set manager (client/peerset/src/lib.rs) promises to the   *)
(* code that owns it, with the reasons of its decisions left out: no slots, *)
(* reputations, groups or clock.  It keeps a set of peers that it considers *)
(* connected and a queue of messages; every change of the set that the     *)
(* owner did not ask for is announced by a message put in the queue at the *)
(* same moment.  Peerset.tla implements this specification, and            *)
(* GenericProto.tla is composed with it.                                   *)
(***************************************************************************)
EXTENDS PeersetMessages

CONSTANTS Peers, Indices

VARIABLES
    connected,      \* the peers the PSM considers connected
    message_queue,  \* what poll_next is to return
    in_poll         \* inside of the loop of poll_next, after an Action

vars == <<connected, message_queue, in_poll>>

\* alloc_slots, from a set of connected peers and a queue: any peers that are
\* not connected, in any order.
Alloc(C, q) ==
    \E s \in OrdersOfParts(Peers \ C) :
        /\ connected' = C \cup {s[i] : i \in 1 .. Len(s)}
        /\ message_queue' = q \o Connects(s)
-----------------------------------------------------------------------------
(* Actions, taken by poll_next from the channel when it has no message *)

TakesAction == message_queue = <<>> /\ in_poll' = TRUE

\* A peer became a reserved node or a member of a group, a group was set, the
\* reserved-only mode ended.
ActionAllocates == TakesAction /\ Alloc(connected, message_queue)

\* A reputation fell, a reserved node was removed, the reserved-only mode began.
ActionDrops(D) ==
    /\ TakesAction
    /\ connected' = connected \ D
    /\ \E s \in Orders(D) : message_queue' = message_queue \o Drops(s)

HandleAction == ActionAllocates \/ \E D \in SUBSET connected : ActionDrops(D)
-----------------------------------------------------------------------------
(* The interface of the owner *)

\* The answer to an incoming connection; a peer that the PSM has itself decided
\* to connect to gets no answer (its Connect is still in the queue).
AnswerIncoming(p, i) ==
    \/ p \in connected /\ UNCHANGED <<connected, message_queue>>
    \/ p \notin connected /\ connected' = connected \cup {p} /\ message_queue' = Append(message_queue, Accept(i))
    \/ p \notin connected /\ UNCHANGED connected /\ message_queue' = Append(message_queue, Reject(i))

Called == ~in_poll /\ UNCHANGED in_poll

incoming(p, i) == Called /\ AnswerIncoming(p, i)

dropped(p) == Called /\ Alloc(connected \ {p}, message_queue)

discovered == Called /\ Alloc(connected, message_queue)

PollReady(m) ==
    /\ message_queue # <<>>
    /\ m = Head(message_queue)
    /\ message_queue' = Tail(message_queue)
    /\ in_poll' = FALSE
    /\ UNCHANGED connected

PollPending == message_queue = <<>> /\ in_poll /\ in_poll' = FALSE /\ UNCHANGED <<connected, message_queue>>
-----------------------------------------------------------------------------
Init ==
    /\ \E s \in OrdersOfParts(Peers) :
        connected = {s[i] : i \in 1 .. Len(s)} /\ message_queue = Connects(s)
    /\ in_poll = FALSE

Next ==
    \/ HandleAction
    \/ \E p \in Peers, i \in Indices : incoming(p, i)
    \/ \E p \in Peers : dropped(p)
    \/ discovered
    \/ \E m \in MessagesOn(Peers, Indices) : PollReady(m)
    \/ PollPending

Spec == Init /\ [][Next]_vars
=============================================================================
