----------------------------- MODULE PeersState -----------------------------
(***************************************************************************)
(* client/peerset/src/peersstate.rs: the data structure behind the peer    *)
(* set manager (PSM).  A PeersState is a value, a record with the fields   *)
(*                                                                         *)
(*   nodes         what is known of each peer (conn = "Unknown": the peer  *)
(*                 is not a key of the map `nodes`)                        *)
(*   num_in, num_out   the slot counters                                   *)
(*   priority_nodes    the priority groups (a group that is not a key of   *)
(*                 the map is the same as an empty group)                  *)
(*   priority_only                                                         *)
(*                                                                         *)
(* and every method of the Rust type is an operator from a value to a      *)
(* value.  max_in and max_out never change and are the constants MaxIn and *)
(* MaxOut.  The counters are u32 in the code: they are integers here, so a *)
(* decrement below zero shows as a negative number.                        *)
(*                                                                         *)
(* Instants: the only question the code asks of `last_connected` is        *)
(* whether FORGET_AFTER has gone by since, so a node keeps the answer, the *)
(* flag `stale`; Peerset.tla lets time set it.                             *)
(***************************************************************************)
EXTENDS Integers, FiniteSets, Sequences

CONSTANTS
    Peers,          \* peer identities
    Groups,         \* names of priority groups
    Reserved,       \* RESERVED_NODES, the name of the group of reserved nodes
    MaxIn, MaxOut,  \* in_peers and out_peers of the configuration
    MinRep, MaxRep  \* i32::min_value() and i32::max_value()

ASSUME PeersFinite == IsFiniteSet(Peers)
ASSUME ReservedIsGroup == Reserved \in Groups
ASSUME SlotLimits == MaxIn \in Nat /\ MaxOut \in Nat
ASSUME RepRange == MinRep \in Int /\ MaxRep \in Int /\ MinRep <= 0 /\ 0 <= MaxRep

Reps == MinRep .. MaxRep

Node == [conn : {"Unknown", "NotConnected", "In", "Out"}, rep : Reps, stale : BOOLEAN]

States == [nodes : [Peers -> Node], num_in : Int, num_out : Int,
           priority_nodes : [Groups -> SUBSET Peers], priority_only : BOOLEAN]

NoNode == [conn |-> "Unknown", rep |-> 0, stale |-> FALSE]

\* Default::default() and UnknownPeer::discover(): not connected, last seen now.
NewNode == [conn |-> "NotConnected", rep |-> 0, stale |-> FALSE]

NewState(priority_only) ==
    [nodes |-> [p \in Peers |-> NoNode], num_in |-> 0, num_out |-> 0,
     priority_nodes |-> [g \in Groups |-> {}], priority_only |-> priority_only]
-----------------------------------------------------------------------------
(* Queries *)

IsConnected(d, p) == d.nodes[p].conn \in {"In", "Out"}

IsNotConnected(d, p) == d.nodes[p].conn = "NotConnected"

IsUnknown(d, p) == d.nodes[p].conn = "Unknown"

connected_peers(d) == {p \in Peers : IsConnected(d, p)}

IsPriority(d, p) == \E g \in Groups : p \in d.priority_nodes[g]

\* The peers priority_not_connected_peer() may return, and the ones
\* priority_not_connected_peer_from_group(g) may return.
PriorityNotConnected(d) == {p \in Peers : IsNotConnected(d, p) /\ IsPriority(d, p)}

PriorityNotConnectedFrom(d, g) == {p \in d.priority_nodes[g] : IsNotConnected(d, p)}

\* The peers highest_not_connected_peer() may return: ties are broken by the
\* order of a hash map.
HighestNotConnected(d) ==
    {p \in Peers : /\ IsNotConnected(d, p)
                   /\ \A q \in Peers : IsNotConnected(d, q) => d.nodes[q].rep <= d.nodes[p].rep}

\* The non-priority nodes that the counters count.
SlotUsers(d, conn) == {p \in Peers : d.nodes[p].conn = conn /\ ~IsPriority(d, p)}

Counted(d) ==
    /\ d.num_in = Cardinality(SlotUsers(d, "In"))
    /\ d.num_out = Cardinality(SlotUsers(d, "Out"))
-----------------------------------------------------------------------------
(* Updates *)

SetNode(d, p, n) == [d EXCEPT !.nodes[p] = n]

discover(d, p) == SetNode(d, p, NewNode)

\* discover, for every peer of a set that is unknown.
DiscoverAll(d, S) ==
    [d EXCEPT !.nodes = [p \in Peers |-> IF p \in S /\ IsUnknown(d, p) THEN NewNode ELSE @[p]]]

bump_last_connected_or_discovered(d, p) == [d EXCEPT !.nodes[p].stale = FALSE]

\* disconnect, for every peer of a set: a disconnected node gives its slot back
\* unless it is a priority node, which never took one.
DisconnectAll(d, S) ==
    LET users(conn) == {p \in S : d.nodes[p].conn = conn /\ ~IsPriority(d, p)}
    IN  [d EXCEPT !.nodes = [p \in Peers |->
                                IF p \in S THEN [@[p] EXCEPT !.conn = "NotConnected", !.stale = FALSE]
                                ELSE @[p]],
                  !.num_in = @ - Cardinality(users("In")),
                  !.num_out = @ - Cardinality(users("Out"))]

disconnect(d, p) == DisconnectAll(d, {p})

\* The conditions under which try_outgoing and try_accept_incoming return true.
CanOutgoing(d, p) == IsPriority(d, p) \/ (~d.priority_only /\ d.num_out < MaxOut)

\* Mutant: one slot too many.
CanAcceptIncoming_over(d, p) == IsPriority(d, p) \/ (~d.priority_only /\ d.num_in <= MaxIn)

CanAcceptIncoming(d, p) == IsPriority(d, p) \/ (~d.priority_only /\ d.num_in < MaxIn)

\* What a successful try_outgoing does to the state, for a set of peers.
outgoing(d, S) ==
    [d EXCEPT !.nodes = [p \in Peers |-> IF p \in S THEN [@[p] EXCEPT !.conn = "Out"] ELSE @[p]],
              !.num_out = @ + Cardinality({p \in S : ~IsPriority(d, p)})]

accept_incoming(d, p) ==
    [d EXCEPT !.nodes[p].conn = "In",
              !.num_in = @ + (IF IsPriority(d, p) THEN 0 ELSE 1)]

\* Mutant: forgets that a peer may be in another group as well.
set_priority_group_ignores_others(d, g, S) ==
    LET in(T, conn) == Cardinality({p \in T : d.nodes[p].conn = conn})
    IN  [d EXCEPT
            !.nodes = [p \in Peers |-> IF p \in S /\ IsUnknown(d, p) THEN NewNode ELSE @[p]],
            !.num_in = (@ + in(d.priority_nodes[g], "In")) - in(S, "In"),
            !.num_out = (@ + in(d.priority_nodes[g], "Out")) - in(S, "Out"),
            !.priority_nodes[g] = S]

\* Peers that leave the group take a slot if they are connected, peers that
\* enter it give theirs back; members of another group keep their status.  The
\* new members are made known.
set_priority_group(d, g, S) ==
    LET others == UNION {d.priority_nodes[h] : h \in Groups \ {g}}
        lost   == d.priority_nodes[g] \ others
        gained == S \ others
        in(T, conn) == Cardinality({p \in T : d.nodes[p].conn = conn})
    IN  [d EXCEPT
            !.nodes = [p \in Peers |-> IF p \in gained /\ IsUnknown(d, p) THEN NewNode ELSE @[p]],
            !.num_in = (@ + in(lost, "In")) - in(gained, "In"),
            !.num_out = (@ + in(lost, "Out")) - in(gained, "Out"),
            !.priority_nodes[g] = S]

add_to_priority_group(d, g, p) == set_priority_group(d, g, d.priority_nodes[g] \cup {p})

remove_from_priority_group(d, g, p) == set_priority_group(d, g, d.priority_nodes[g] \ {p})

set_priority_only(d, b) == [d EXCEPT !.priority_only = b]

\* i32::saturating_add
Saturate(r) == IF r < MinRep THEN MinRep ELSE IF r > MaxRep THEN MaxRep ELSE r

\* An unknown peer is inserted first, with a reputation of 0.
add_reputation(d, p, modifier) ==
    LET known == IF IsUnknown(d, p) THEN discover(d, p) ELSE d
    IN  [known EXCEPT !.nodes[p].rep = Saturate(@ + modifier)]
=============================================================================
