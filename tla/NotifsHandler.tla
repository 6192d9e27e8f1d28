--------------------------- MODULE NotifsHandler ----------------------------
(***************************************************************************)
(* generic_proto/handler/group.rs: the handler of one connection, made of  *)
(* the handler of the legacy protocol and of the two handlers of each      *)
(* notifications protocol.                                                 *)
(*                                                                         *)
(* The swarm calls poll, which polls the incoming handlers, the outgoing   *)
(* ones and the legacy one, in this order, and returns at the first event  *)
(* for the outside.  pc is the handler whose turn it is, 0 outside of      *)
(* poll; the other calls happen only there.                                *)
(*                                                                         *)
(* When the connection ends, a new one begins at once.                     *)
(***************************************************************************)
EXTENDS Naturals, Sequences, FiniteSets

CONSTANTS
    N,              \* the number of notifications protocols
    MaxSubs,        \* bound: legacy substreams at a time
    MaxPending,     \* bound: answers an incoming handler waits for
    MaxRequests,    \* bound: requests to the swarm not answered, of each handler
    MaxOut          \* bound: events that the behaviour has not taken

VARIABLES
    enabled, pending_in, in_handlers, out_handlers, legacy,     \* struct NotifsHandler
    endpoint,       \* who opened the connection
    pc,
    handler_out,    \* the events on their way to the behaviour
    repeated        \* history: this connection got the same command twice in a row

vars == <<enabled, pending_in, in_handlers, out_handlers, legacy, endpoint, pc, handler_out, repeated>>

L == INSTANCE LegacyProto
S == INSTANCE NotifSubstreams

Protocols == 1 .. N

\* The turns of poll.
InTurn(k) == k
OutTurn(k) == N + k
LegacyTurn == 2 * N + 1

Emit(ev) == handler_out' = Append(handler_out, ev)
-----------------------------------------------------------------------------
(* Commands of the behaviour *)

\* Mutant: the kept requests stay.
AnswerPending_kept(ans) ==
    /\ in_handlers' = [k \in Protocols |->
            IF \E i \in 1 .. Len(pending_in) : pending_in[i] = k THEN S!answer(in_handlers[k], ans)
            ELSE in_handlers[k]]
    /\ UNCHANGED pending_in

\* The answers to the substreams the remote opened before the first command.
AnswerPending(ans) ==
    /\ in_handlers' = [k \in Protocols |->
            LET times == Cardinality({i \in 1 .. Len(pending_in) : pending_in[i] = k})
                answered[n \in Nat] == IF n = 0 THEN in_handlers[k] ELSE S!answer(answered[n - 1], ans)
            IN  answered[times]]
    /\ pending_in' = <<>>

\* The behaviour may repeat a command: one that was queued for the connection
\* before reaches this one as well (GenericProto.tla).
Enable ==
    /\ pc = 0
    /\ enabled' = "Enabled" /\ repeated' = (repeated \/ enabled = "Enabled")
    /\ legacy' = L!enable(legacy, endpoint)
    /\ out_handlers' = [k \in Protocols |-> S!out_enable(out_handlers[k])]
    /\ AnswerPending("Accept")
    /\ UNCHANGED <<endpoint, pc, handler_out>>

Disable ==
    /\ pc = 0
    /\ enabled' = "Disabled" /\ repeated' = (repeated \/ enabled = "Disabled")
    /\ legacy' = L!disable(legacy)
    /\ out_handlers' = IF enabled = "Initial" THEN out_handlers
                       ELSE [k \in Protocols |-> S!out_disable(out_handlers[k])]
    /\ AnswerPending("Refuse")
    /\ UNCHANGED <<endpoint, pc, handler_out>>
-----------------------------------------------------------------------------
(* The swarm opens substreams, or fails to (external) *)

Swarm == pc = 0 /\ UNCHANGED <<enabled, pending_in, endpoint, pc, handler_out, repeated>>

LegacyInbound ==
    /\ Swarm /\ legacy.subs + legacy.shut < MaxSubs
    /\ legacy' = L!inject_fully_negotiated(legacy)
    /\ UNCHANGED <<in_handlers, out_handlers>>

\* The answer to a request of the legacy handler: it becomes h.
LegacyAnswer(h) ==
    /\ Swarm /\ legacy.requests > 0
    /\ legacy' = [h EXCEPT !.requests = @ - 1]
    /\ UNCHANGED <<in_handlers, out_handlers>>

LegacyOutbound ==
    /\ legacy.subs + legacy.shut < MaxSubs
    /\ LegacyAnswer(L!inject_fully_negotiated(legacy))

LegacyDialError == LegacyAnswer(L!inject_dial_upgrade_error(legacy))

NotifInbound(k) ==
    /\ Swarm /\ in_handlers[k].pending < MaxPending
    /\ in_handlers' = [in_handlers EXCEPT ![k] = S!in_negotiated(@)]
    /\ UNCHANGED <<legacy, out_handlers>>

NotifAnswer(k, h) ==
    /\ Swarm /\ out_handlers[k].requests > 0
    /\ out_handlers' = [out_handlers EXCEPT ![k] = [h EXCEPT !.requests = @ - 1]]
    /\ UNCHANGED <<legacy, in_handlers>>

NotifOutbound(k) == NotifAnswer(k, S!out_negotiated(out_handlers[k]))

NotifDialError(k) == NotifAnswer(k, S!out_dial_upgrade_error(out_handlers[k]))
-----------------------------------------------------------------------------
(* poll *)

StartPoll ==
    /\ pc = 0
    /\ Len(handler_out) < MaxOut
    /\ \A h \in {legacy} \cup {out_handlers[k] : k \in Protocols} : h.requests < MaxRequests
    /\ pc' = 1
    /\ UNCHANGED <<enabled, pending_in, in_handlers, out_handlers, legacy, endpoint, handler_out, repeated>>

\* The incoming handler asks what to do with a substream.
OnOpenRequest(k, h) ==
    LET answered(ans) == in_handlers' = [in_handlers EXCEPT ![k] = S!answer(h, ans)]
    IN  \/ /\ enabled = "Initial"
           /\ in_handlers' = [in_handlers EXCEPT ![k] = [h EXCEPT !.kept = TRUE]] /\ pending_in' = Append(pending_in, k)
        \/ enabled = "Enabled" /\ answered("Accept") /\ UNCHANGED pending_in
        \/ enabled = "Disabled" /\ answered("Refuse") /\ UNCHANGED pending_in

PollIn(k) ==
    /\ pc = InTurn(k)
    /\ \E r \in S!in_poll(in_handlers[k]) :
        IF r.event = "OpenRequest"
        THEN OnOpenRequest(k, r.next) /\ UNCHANGED <<pc, handler_out>>
        ELSE /\ in_handlers' = [in_handlers EXCEPT ![k] = r.next]
             /\ UNCHANGED pending_in
             /\ \/ r.event = "Pending" /\ pc' = pc + 1 /\ UNCHANGED handler_out
                \/ r.event = "Closed" /\ UNCHANGED <<pc, handler_out>>
                \/ r.event = "Notif" /\ ~L!is_open(legacy) /\ UNCHANGED <<pc, handler_out>>
                \/ r.event = "Notif" /\ L!is_open(legacy) /\ pc' = 0 /\ Emit("Notification")
    /\ UNCHANGED <<enabled, out_handlers, legacy, endpoint, repeated>>

PollOut(k) ==
    /\ pc = OutTurn(k)
    /\ \E r \in S!out_poll(out_handlers[k]) :
        \/ /\ r.event = "Request"
           /\ out_handlers' = [out_handlers EXCEPT ![k] = [r.next EXCEPT !.requests = @ + 1]]
           /\ pc' = 0
        \/ /\ r.event # "Request"
           /\ out_handlers' = [out_handlers EXCEPT ![k] = r.next]
           /\ pc' = IF r.event = "Pending" THEN pc + 1 ELSE pc
    /\ UNCHANGED <<enabled, pending_in, in_handlers, legacy, endpoint, handler_out, repeated>>

PollLegacy ==
    /\ pc = LegacyTurn
    /\ pc' = 0
    /\ \E r \in L!poll(legacy) :
        \/ /\ r.event = "Request"
           /\ legacy' = [r.next EXCEPT !.requests = @ + 1] /\ UNCHANGED handler_out
        \/ r.event = "Pending" /\ legacy' = r.next /\ UNCHANGED handler_out
        \/ /\ r.event \in {"Open", "Closed", "Message", "Clogged", "ProtocolError"}
           /\ legacy' = r.next /\ Emit(r.event)
    /\ UNCHANGED <<enabled, pending_in, in_handlers, out_handlers, endpoint, repeated>>
-----------------------------------------------------------------------------
(* Specification *)

Init ==
    /\ enabled = "Initial" /\ pending_in = <<>>
    /\ in_handlers = [k \in Protocols |-> S!new_in]
    /\ out_handlers = [k \in Protocols |-> S!new_out]
    /\ legacy = L!new
    /\ endpoint \in {"Dialer", "Listener"} /\ pc = 0 /\ handler_out = <<>>
    /\ repeated = FALSE

\* The connection breaks, or the handler returns Close; there is a new one.
ConnectionEnds ==
    /\ pc = 0 \/ (pc = LegacyTurn /\ \E r \in L!poll(legacy) : r.event = "Close")
    /\ enabled' = "Initial" /\ pending_in' = <<>>
    /\ in_handlers' = [k \in Protocols |-> S!new_in]
    /\ out_handlers' = [k \in Protocols |-> S!new_out]
    /\ legacy' = L!new
    /\ endpoint' \in {"Dialer", "Listener"} /\ pc' = 0 /\ handler_out' = <<>>
    /\ repeated' = FALSE

\* The behaviour takes an event.
Taken ==
    /\ handler_out # <<>>
    /\ handler_out' = Tail(handler_out)
    /\ UNCHANGED <<enabled, pending_in, in_handlers, out_handlers, legacy, endpoint, pc, repeated>>

Next ==
    \/ Enable \/ Disable
    \/ LegacyInbound \/ LegacyOutbound \/ LegacyDialError
    \/ \E k \in Protocols : NotifInbound(k) \/ NotifOutbound(k) \/ NotifDialError(k)
    \/ StartPoll \/ PollLegacy
    \/ \E k \in Protocols : PollIn(k) \/ PollOut(k)
    \/ ConnectionEnds \/ Taken

Spec == Init /\ [][Next]_vars
-----------------------------------------------------------------------------
(* The abstract specification that NotifsHandler implements *)

OpenQueued == \E i \in 1 .. Len(legacy.queue) : legacy.queue[i] = "Open"

HandlerState ==
    CASE legacy.st = "KillAsap" -> IF OpenQueued THEN "KillOpening" ELSE "KillAsap"
      [] enabled = "Initial"    -> "Init"
      [] enabled = "Disabled"   -> "Disabled"
      [] OTHER                  -> IF legacy.st = "Normal" /\ ~OpenQueued THEN "Open" ELSE "Enabled"

Abs == INSTANCE HandlerSpec WITH handler <- HandlerState
-----------------------------------------------------------------------------
(* Properties *)

TypeOK ==
    /\ enabled \in {"Initial", "Enabled", "Disabled"}
    /\ pending_in \in Seq(Protocols)
    /\ in_handlers \in [Protocols -> S!InStates]
    /\ out_handlers \in [Protocols -> S!OutStates]
    /\ legacy \in L!LegacyStates /\ L!HasVariant(legacy)
    /\ endpoint \in {"Dialer", "Listener"} /\ pc \in 0 .. LegacyTurn
    /\ handler_out \in Seq({"Open", "Closed", "Message", "Notification", "Clogged", "ProtocolError"})
    /\ repeated \in BOOLEAN

\* For the behaviour the handler is HandlerSpec: what GenericProto is composed with.
Implements == Abs!Spec

\* In the Normal state there is a substream: send_message takes the first one
\* without asking (legacy.rs:510).
NormalHasSubstream == legacy.st = "Normal" => legacy.subs > 0

\* Every OpenRequest of an incoming handler is answered exactly once, so that
\* the last answer is the one to the substream that is there: the answers an
\* incoming handler waits for are the requests not seen yet and the ones kept
\* for the first command.
EveryRequestIsAnswered ==
    \A k \in Protocols :
        in_handlers[k].pending =
            Len(in_handlers[k].queue) + Cardinality({i \in 1 .. Len(pending_in) : pending_in[i] = k})

\* An outgoing handler never has more than one substream being negotiated, and
\* has one exactly when its state says so.  Only a repeated command, which the code
\* answers with an error (notif_out.rs:284-293), leaves it poisoned for the rest of
\* the connection: the "State mismatch" errors of an answer of the swarm are
\* unreachable before.
OneSubstreamIsNegotiated ==
    \A k \in Protocols :
        LET h == out_handlers[k]
            asked == h.requests + Cardinality({i \in 1 .. Len(h.queue) : h.queue[i] = "Request"})
        IN  /\ asked <= 1
            /\ IF h.st = "Poisoned" THEN repeated
               ELSE asked = (IF h.st \in {"Opening", "DisabledOpening"} THEN 1 ELSE 0)

\* A substream of the remote whose handshake waits for the answer of the local
\* node gets one: an answer that is only counted, as obsolete, is followed by
\* another (notif_in.rs:187-210).
WaitingIsAnswered ==
    \A k \in Protocols :
        in_handlers[k].sub = "NotSent" => in_handlers[k].pending > 0

\* "The Init/Enabled/Disabled state is entirely controlled by the user", the
\* handler "never transitions automatically between these states"
\* (legacy.rs:59-61): one that was told to enable itself is open, opens a
\* substream, or is going to.
EnabledStaysEnabled ==
    enabled = "Enabled" => legacy.st \in {"Opening", "Normal", "KillAsap"} \/ legacy.reenable

\* The state Sent of a substream is "Handshake message successfully sent."
\* (upgrade/notifications.rs:87).  Only a substream whose request was kept for the
\* first command can be in it without a handshake: it was polled while it waited,
\* which marks it as Sent (upgrade/notifications.rs:192), and its Accept is ignored.
SentIsGreetedOrKept ==
    \A k \in Protocols : in_handlers[k].sub = "Sent" => in_handlers[k].greeted \/ in_handlers[k].kept

\* The handlers and their substreams agree: a legacy handler that may send has
\* one, and an outgoing handler negotiates at most one.
SubstreamsAgree == TypeOK /\ NormalHasSubstream /\ OneSubstreamIsNegotiated

\* No OpenRequest of the remote is lost or answered twice, whatever substreams it
\* closes and opens meanwhile; a substream that waits for the answer gets one; and
\* one that was opened after the first command is only taken for open when the
\* remote was sent the handshake.
RequestsAreAnswered == EveryRequestIsAnswered /\ WaitingIsAnswered /\ SentIsGreetedOrKept
=============================================================================
