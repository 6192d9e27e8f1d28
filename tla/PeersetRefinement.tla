------------------------- MODULE PeersetRefinement --------------------------
(***************************************************************************)
(* Peerset implements PeersetAbs, for every value of the constants.  The   *)
(* refinement mapping takes the set of connected peers from the states of  *)
(* the nodes.  Each operator of PeersState has a lemma that says what it   *)
(* does to that set; every action of Peerset is then an action of          *)
(* PeersetAbs, or a step that the owner cannot see.                        *)
(***************************************************************************)
EXTENDS PeersetProofs

-----------------------------------------------------------------------------
(* What the operators do to the set of connected peers *)

LEMMA ConnectedOutgoing ==
    ASSUME NEW d \in States, NEW S \in SUBSET Peers
    PROVE  connected_peers(outgoing(d, S)) = connected_peers(d) \cup S
<1> DEFINE n == [p \in Peers |-> IF p \in S THEN [d.nodes[p] EXCEPT !.conn = "Out"] ELSE d.nodes[p]]
           o == d.num_out + Cardinality({p \in S : ~IsPriority(d, p)})
           e == [d EXCEPT !.nodes = n, !.num_out = o]
<1>1. d.nodes \in [Peers -> Node]
    BY Fields
<1>2. \A p \in Peers : n[p].conn = IF p \in S THEN "Out" ELSE d.nodes[p].conn
    BY <1>1 DEF Node
<1> HIDE DEF n, o
<1>3. e.nodes = n
    BY DEF States
<1> HIDE DEF e
<1>4. connected_peers(e) = connected_peers(d) \cup S
    BY <1>2, <1>3 DEF connected_peers, IsConnected
<1> QED BY <1>4, Zenon DEF e, n, o, outgoing

LEMMA ConnectedDisconnectAll ==
    ASSUME NEW d \in States, NEW S \in SUBSET Peers
    PROVE  connected_peers(DisconnectAll(d, S)) = connected_peers(d) \ S
<1> DEFINE users(conn) == {p \in S : d.nodes[p].conn = conn /\ ~IsPriority(d, p)}
           n == [p \in Peers |-> IF p \in S THEN [d.nodes[p] EXCEPT !.conn = "NotConnected", !.stale = FALSE]
                                 ELSE d.nodes[p]]
           i == d.num_in - Cardinality(users("In"))
           o == d.num_out - Cardinality(users("Out"))
           e == [d EXCEPT !.nodes = n, !.num_in = i, !.num_out = o]
<1>1. d.nodes \in [Peers -> Node]
    BY Fields
<1>2. \A p \in Peers : n[p].conn = IF p \in S THEN "NotConnected" ELSE d.nodes[p].conn
    BY <1>1 DEF Node
<1> HIDE DEF n, i, o
<1>3. e.nodes = n
    BY DEF States
<1> HIDE DEF e
<1>4. connected_peers(e) = connected_peers(d) \ S
    BY <1>2, <1>3 DEF connected_peers, IsConnected
<1> QED BY <1>4, Zenon DEF e, n, i, o, users, DisconnectAll

LEMMA ConnectedAcceptIncoming ==
    ASSUME NEW d \in States, NEW p \in Peers
    PROVE  connected_peers(accept_incoming(d, p)) = connected_peers(d) \cup {p}
<1> DEFINE m == [d.nodes[p] EXCEPT !.conn = "In"]
           i == d.num_in + (IF IsPriority(d, p) THEN 0 ELSE 1)
           n == [d.nodes EXCEPT ![p] = m]
           e == [d EXCEPT !.nodes = n, !.num_in = i]
<1>1. d.nodes \in [Peers -> Node] /\ m.conn = "In"
    BY Fields DEF Node
<1> HIDE DEF m
<1>2. \A q \in Peers : n[q] = IF q = p THEN m ELSE d.nodes[q]
    BY <1>1
<1> HIDE DEF n, i
<1>3. e.nodes = n
    BY DEF States
<1>4. accept_incoming(d, p) = e
    BY DEF accept_incoming, e, n, m, i
<1> HIDE DEF e
<1> QED BY <1>1, <1>2, <1>3, <1>4 DEF connected_peers, IsConnected

\* A new value for one node that is as connected as the old one.
LEMMA ConnectedSetNode ==
    ASSUME NEW d \in States, NEW p \in Peers, NEW m,
           m.conn \in {"In", "Out"} <=> d.nodes[p].conn \in {"In", "Out"}
    PROVE  connected_peers([d EXCEPT !.nodes[p] = m]) = connected_peers(d)
<1> DEFINE n == [d.nodes EXCEPT ![p] = m]
           e == [d EXCEPT !.nodes = n]
<1>1. d.nodes \in [Peers -> Node]
    BY Fields
<1>2. \A q \in Peers : n[q] = IF q = p THEN m ELSE d.nodes[q]
    BY <1>1
<1> HIDE DEF n
<1>3. e.nodes = n
    BY DEF States
<1>4. e = [d EXCEPT !.nodes[p] = m]
    BY DEF e, n
<1> HIDE DEF e
<1>5. connected_peers(e) = connected_peers(d)
    BY <1>2, <1>3 DEF connected_peers, IsConnected
<1> QED BY <1>4, <1>5

\* New values for all nodes.
LEMMA ConnectedSetNodes ==
    ASSUME NEW d \in States, NEW e, 
           \A p \in Peers : e.nodes[p].conn \in {"In", "Out"} <=> d.nodes[p].conn \in {"In", "Out"}
    PROVE  connected_peers(e) = connected_peers(d)
BY DEF connected_peers, IsConnected

LEMMA ConnectedSetPriorityGroup ==
    ASSUME NEW d \in States, NEW g \in Groups, NEW S \in SUBSET Peers
    PROVE  connected_peers(set_priority_group(d, g, S)) = connected_peers(d)
<1> DEFINE others == UNION {d.priority_nodes[h] : h \in Groups \ {g}}
           lost   == d.priority_nodes[g] \ others
           gained == S \ others
           in(T, conn) == Cardinality({p \in T : d.nodes[p].conn = conn})
           n == [p \in Peers |-> IF p \in gained /\ IsUnknown(d, p) THEN NewNode ELSE d.nodes[p]]
           i == (d.num_in + in(lost, "In")) - in(gained, "In")
           o == (d.num_out + in(lost, "Out")) - in(gained, "Out")
           k == [d.priority_nodes EXCEPT ![g] = S]
           e == [d EXCEPT !.nodes = n, !.num_in = i, !.num_out = o, !.priority_nodes = k]
<1>1. d.nodes \in [Peers -> Node]
    BY Fields
<1>2. \A p \in Peers : n[p].conn \in {"In", "Out"} <=> d.nodes[p].conn \in {"In", "Out"}
    BY <1>1 DEF NewNode, IsUnknown
<1> HIDE DEF n, i, o, k
<1>3. e.nodes = n
    BY DEF States
<1>4. set_priority_group(d, g, S) = e
    BY DEF set_priority_group, e, n, i, o, k, in, lost, gained, others
<1> HIDE DEF e
<1> QED BY <1>2, <1>3, <1>4, ConnectedSetNodes

LEMMA ConnectedUpdateTime ==
    ASSUME NEW d \in States, NEW now \in update_time(d)
    PROVE  connected_peers(now) = connected_peers(d)
<1>1. CASE now = d
    BY <1>1
<1>2. CASE now = Tick(d)
    <2> DEFINE n == [p \in Peers |-> TickNode(d.nodes[p])]
               e == [d EXCEPT !.nodes = n]
    <2>1. d.nodes \in [Peers -> Node]
        BY Fields
    <2>2. ASSUME NEW p \in Peers
          PROVE  TickNode(d.nodes[p]).conn \in {"In", "Out"} <=> d.nodes[p].conn \in {"In", "Out"}
        <3>1. d.nodes[p] \in Node
            BY <2>1
        <3> QED BY <3>1 DEF TickNode, NoNode, Node
    <2>3. \A p \in Peers : n[p] = TickNode(d.nodes[p])
        OBVIOUS
    <2> HIDE DEF n
    <2>4. e.nodes = n
        BY DEF States
    <2>5. Tick(d) = e
        BY DEF Tick, e, n
    <2> HIDE DEF e
    <2> QED BY <1>2, <2>2, <2>3, <2>4, <2>5, ConnectedSetNodes
<1> QED BY <1>1, <1>2 DEF update_time

LEMMA ConnectedDiscover ==
    ASSUME NEW d \in States, NEW p \in Peers, IsUnknown(d, p)
    PROVE  connected_peers(discover(d, p)) = connected_peers(d)
BY ConnectedSetNode DEF discover, SetNode, NewNode, IsUnknown

LEMMA ConnectedBump ==
    ASSUME NEW d \in States, NEW p \in Peers
    PROVE  connected_peers(bump_last_connected_or_discovered(d, p)) = connected_peers(d)
<1> DEFINE m == [d.nodes[p] EXCEPT !.stale = FALSE]
<1>1. m.conn = d.nodes[p].conn
    BY Fields DEF Node
<1>2. bump_last_connected_or_discovered(d, p) = [d EXCEPT !.nodes[p] = m]
    BY DEF bump_last_connected_or_discovered
<1> HIDE DEF m
<1> QED BY <1>1, <1>2, ConnectedSetNode

LEMMA ConnectedDiscoverAll ==
    ASSUME NEW d \in States, NEW S
    PROVE  connected_peers(DiscoverAll(d, S)) = connected_peers(d)
<1> DEFINE n == [p \in Peers |-> IF p \in S /\ IsUnknown(d, p) THEN NewNode ELSE d.nodes[p]]
           e == [d EXCEPT !.nodes = n]
<1>1. \A p \in Peers : n[p].conn \in {"In", "Out"} <=> d.nodes[p].conn \in {"In", "Out"}
    BY DEF NewNode, IsUnknown
<1> HIDE DEF n
<1>2. e.nodes = n
    BY DEF States
<1>3. DiscoverAll(d, S) = e
    BY DEF DiscoverAll, e, n
<1> HIDE DEF e
<1> QED BY <1>1, <1>2, <1>3, ConnectedSetNodes

LEMMA ConnectedAddReputation ==
    ASSUME NEW d, Good(d), NEW p \in Peers, NEW change \in Int
    PROVE  connected_peers(add_reputation(d, p, change)) = connected_peers(d)
<1> DEFINE known == IF IsUnknown(d, p) THEN discover(d, p) ELSE d
           m == [known.nodes[p] EXCEPT !.rep = Saturate(@ + change)]
<1>1. Good(known)
    BY DiscoverGood DEF IsUnknown, IsConnected
<1>2. connected_peers(known) = connected_peers(d)
    BY ConnectedDiscover DEF Good
<1>3. add_reputation(d, p, change) = [known EXCEPT !.nodes[p] = m]
    BY DEF add_reputation
<1> HIDE DEF known
<1>4. known \in States /\ known.nodes[p] \in Node
    BY <1>1, Fields DEF Good
<1>5. m.conn = known.nodes[p].conn
    BY <1>4 DEF Node
<1> HIDE DEF m
<1> QED BY <1>2, <1>3, <1>4, <1>5, ConnectedSetNode
-----------------------------------------------------------------------------
(* The actions *)

\* The two specifications use the same sequences and the same messages.
LEMMA SameHelpers ==
    /\ \A S : Abs!OrdersOfParts(S) = OrdersOfParts(S) /\ Abs!Orders(S) = Orders(S)
    /\ \A s : Abs!Connects(s) = Connects(s) /\ Abs!Drops(s) = Drops(s)
<1>1. ASSUME NEW S PROVE Abs!Orders(S) = Orders(S)
    <2>1. Abs!Cardinality(S) = Cardinality(S)
        BY DEF Abs!Cardinality, Cardinality
    <2> QED BY <2>1 DEF Abs!Orders, Orders
<1>2. ASSUME NEW S PROVE Abs!OrdersOfParts(S) = OrdersOfParts(S)
    BY <1>1 DEF Abs!OrdersOfParts, OrdersOfParts
<1>3. ASSUME NEW s PROVE Abs!Connects(s) = Connects(s) /\ Abs!Drops(s) = Drops(s)
    BY DEF Abs!Connects, Connects, Abs!Connect, Connect, Abs!Drops, Drops, Abs!Drop, Drop
<1> QED BY <1>1, <1>2, <1>3

\* Whatever alloc_slots does is an Alloc of the abstract specification.
LEMMA AllocSlotsAbs ==
    ASSUME NEW d, Good(d), NEW r, NEW q, alloc_slots(d, r, q)
    PROVE  Abs!Alloc(connected_peers(d), q)
<1>1. PICK now \in update_time(d) : \E s \in Allocations(now, r) :
        /\ data' = outgoing(now, {s[i] : i \in 1 .. Len(s)})
        /\ message_queue' = q \o Connects(s)
    BY Zenon DEF alloc_slots
<1>2. PICK s \in Allocations(now, r) :
        /\ data' = outgoing(now, {s[i] : i \in 1 .. Len(s)})
        /\ message_queue' = q \o Connects(s)
    BY <1>1, Zenon
<1> DEFINE range == {s[i] : i \in 1 .. Len(s)}
           candidates == {p \in Peers : IsNotConnected(now, p)}
<1>3. now \in States /\ connected_peers(now) = connected_peers(d)
    BY UpdateTimeGood, ConnectedUpdateTime DEF Good
<1>4. range \in SUBSET Peers
    BY <1>2, AllocationsType
<1>5. s \in OrdersOfParts(Peers \ connected_peers(d))
    <2>1. s \in OrdersOfParts(candidates)
        BY <1>2 DEF Allocations
    <2>2. candidates \subseteq Peers \ connected_peers(d)
        BY <1>3 DEF connected_peers, IsConnected, IsNotConnected
    <2> HIDE DEF candidates
    <2> QED BY <2>1, <2>2 DEF OrdersOfParts
<1>6. connected_peers(data') = connected_peers(d) \cup range
    BY <1>2, <1>3, <1>4, ConnectedOutgoing
<1> QED BY <1>2, <1>5, <1>6, SameHelpers, Zenon DEF Abs!Alloc

LEMMA HandleActionAbs ==
    ASSUME IInv, HandleAction
    PROVE  Abs!HandleAction
<1>1. /\ Good(data) /\ data \in States
      /\ message_queue \in Seq(Message)
    BY DEF IInv, TypeOK, SlotsCounted, Good
<1>2. message_queue = <<>> /\ in_poll' = TRUE
    BY Zenon DEF HandleAction, TakesAction, on_add_reserved_peer, on_remove_reserved_peer, on_set_reserved_only,
           on_set_priority_group, on_add_to_priority_group, on_remove_from_priority_group, on_report_peer
<1>3. ASSUME NEW d, Good(d), connected_peers(d) = connected_peers(data), NEW r, alloc_slots(d, r, message_queue)
      PROVE  Abs!HandleAction
    <2>1. Abs!Alloc(connected_peers(data), message_queue)
        BY <1>3, AllocSlotsAbs
    <2> QED BY <1>2, <2>1 DEF Abs!HandleAction, Abs!ActionAllocates, Abs!TakesAction
<1>4. ASSUME NEW D \in SUBSET connected_peers(data), connected_peers(data') = connected_peers(data) \ D,
             NEW s \in Orders(D), message_queue' = message_queue \o Drops(s)
      PROVE  Abs!HandleAction
    <2>1. message_queue' = message_queue \o Abs!Drops(s) /\ s \in Abs!Orders(D)
        BY <1>4, SameHelpers
    <2> QED BY <1>2, <1>4, <2>1 DEF Abs!HandleAction, Abs!ActionDrops, Abs!TakesAction
<1>5. ASSUME connected_peers(data') = connected_peers(data), message_queue' = message_queue
      PROVE  Abs!HandleAction
    <2>1. <<>> \in Orders({})
        BY FS_EmptySet DEF Orders
    <2>2. message_queue' = message_queue \o Drops(<<>>)
        BY <1>2, <1>5 DEF Drops
    <2> QED BY <1>4, <1>5, <2>1, <2>2
<1>6. ASSUME NEW p \in connected_peers(data), connected_peers(data') = connected_peers(data) \ {p},
             message_queue' = Append(message_queue, Drop(p))
      PROVE  Abs!HandleAction
    <2>1. <<p>> \in Orders({p})
        <3>1. Cardinality({p}) = 1
            BY FS_Singleton, Zenon
        <3> QED BY <3>1 DEF Orders
    <2>2. Drops(<<p>>) = <<Drop(p)>>
        BY DEF Drops
    <2>3. message_queue' = message_queue \o Drops(<<p>>)
        BY <1>2, <1>6, <2>2
    <2> QED BY <1>4, <1>6, <2>1, <2>3, Zenon
<1>7. ASSUME NEW g \in Groups, NEW p \in Peers
      PROVE  /\ Good(add_to_priority_group(data, g, p)) /\ Good(remove_from_priority_group(data, g, p))
             /\ connected_peers(add_to_priority_group(data, g, p)) = connected_peers(data)
             /\ connected_peers(remove_from_priority_group(data, g, p)) = connected_peers(data)
    <2>1. data.priority_nodes[g] \subseteq Peers
        BY <1>1, Fields
    <2> QED BY <1>1, <2>1, SetPriorityGroupGood, ConnectedSetPriorityGroup
            DEF add_to_priority_group, remove_from_priority_group
<1>8. CASE \E p \in Peers : on_add_reserved_peer(p)
    BY <1>3, <1>7, <1>8, ReservedIsGroup DEF on_add_reserved_peer, SetGroupAndAlloc
<1>9. ASSUME NEW p \in Peers, on_remove_reserved_peer(p)
      PROVE  Abs!HandleAction
    <2> DEFINE d == remove_from_priority_group(data, Reserved, p)
    <2>1. Good(d) /\ d \in States /\ connected_peers(d) = connected_peers(data)
        BY <1>7, ReservedIsGroup DEF Good
    <2>2. connected_peers(disconnect(d, p)) = connected_peers(data) \ {p}
        BY <2>1, ConnectedDisconnectAll DEF disconnect
    <2>3. \/ IsConnected(d, p) /\ data' = disconnect(d, p) /\ message_queue' = Append(message_queue, Drop(p))
          \/ data' = d /\ message_queue' = message_queue
        BY <1>9 DEF on_remove_reserved_peer
    <2> HIDE DEF d
    <2>4. IsConnected(d, p) => p \in connected_peers(data)
        BY <2>1 DEF connected_peers
    <2> QED BY <1>5, <1>6, <2>1, <2>2, <2>3, <2>4
<1>10. ASSUME NEW b \in BOOLEAN, on_set_reserved_only(b)
       PROVE  Abs!HandleAction
    <2> DEFINE d == set_priority_only(data, b)
               D == connected_peers(d) \ d.priority_nodes[Reserved]
    <2>1. /\ d \in States /\ d.nodes = data.nodes /\ d.priority_nodes = data.priority_nodes
          /\ d.num_in = data.num_in /\ d.num_out = data.num_out
        BY <1>1 DEF set_priority_only, States
    <2>2. CASE b
        <3>1. PICK s \in Orders(D) : data' = DisconnectAll(d, D) /\ message_queue' = message_queue \o Drops(s)
            BY <1>10, <2>2, Zenon DEF on_set_reserved_only
        <3> HIDE DEF d
        <3>2. connected_peers(d) = connected_peers(data)
            BY <1>1, <2>1, ConnectedSetNodes
        <3>3. D \in SUBSET connected_peers(data) /\ D \in SUBSET Peers
            BY <3>2 DEF connected_peers
        <3> HIDE DEF D
        <3>4. connected_peers(data') = connected_peers(data) \ D
            BY <2>1, <3>1, <3>2, <3>3, ConnectedDisconnectAll
        <3> QED BY <1>4, <3>1, <3>3, <3>4
    <2>3. CASE ~b
        <3>1. alloc_slots(d, b, message_queue)
            BY <1>10, <2>3 DEF on_set_reserved_only
        <3> HIDE DEF d
        <3>2. Good(d) /\ connected_peers(d) = connected_peers(data)
            BY <1>1, <2>1, SameConnections, ConnectedSetNodes
        <3> QED BY <1>3, <3>1, <3>2
    <2> QED BY <2>2, <2>3
<1>11. CASE \E g \in Groups, S \in SUBSET Peers : on_set_priority_group(g, S)
    BY <1>1, <1>3, <1>11, SetPriorityGroupGood, ConnectedSetPriorityGroup
        DEF on_set_priority_group, SetGroupAndAlloc
<1>12. CASE \E g \in Groups, p \in Peers : on_add_to_priority_group(g, p)
    BY <1>3, <1>7, <1>12 DEF on_add_to_priority_group, SetGroupAndAlloc
<1>13. CASE \E g \in Groups, p \in Peers : on_remove_from_priority_group(g, p)
    BY <1>3, <1>7, <1>13 DEF on_remove_from_priority_group, SetGroupAndAlloc
<1>14. ASSUME NEW p \in Peers, NEW change \in RepChanges, on_report_peer(p, change)
       PROVE  Abs!HandleAction
    <2>1. PICK now \in update_time(data) :
            \/ /\ IsConnected(now, p)
               /\ data' = disconnect(add_reputation(now, p, change), p)
               /\ message_queue' = Append(message_queue, Drop(p))
            \/ data' = add_reputation(now, p, change) /\ message_queue' = message_queue
        BY <1>14 DEF on_report_peer
    <2> DEFINE d == add_reputation(now, p, change)
    <2>2. Good(now) /\ change \in Int /\ connected_peers(now) = connected_peers(data)
        BY <1>1, UpdateTimeGood, ConnectedUpdateTime, ReputationConstants
    <2>3. Good(d) /\ d \in States /\ connected_peers(d) = connected_peers(data)
        BY <2>2, AddReputationGood, ConnectedAddReputation DEF Good
    <2>4. connected_peers(disconnect(d, p)) = connected_peers(data) \ {p}
        BY <2>3, ConnectedDisconnectAll DEF disconnect
    <2>5. IsConnected(now, p) => p \in connected_peers(data)
        BY <2>2 DEF connected_peers
    <2> QED BY <1>5, <1>6, <2>1, <2>3, <2>4, <2>5
<1> QED BY <1>8, <1>9, <1>10, <1>11, <1>12, <1>13, <1>14 DEF HandleAction

LEMMA CallsAbs ==
    ASSUME IInv,
           \/ \E p \in Peers, i \in Indices : incoming(p, i)
           \/ \E p \in Peers : dropped(p)
           \/ \E S \in SUBSET Peers : discovered(S)
           \/ debug_info
    PROVE  [Abs!Next]_Abs!vars
<1>1. Good(data) /\ data \in States
    BY DEF IInv, TypeOK, SlotsCounted, Good
<1>2. Abs!Called
    BY DEF incoming, dropped, discovered, debug_info, Called, Abs!Called
<1>3. ASSUME connected_peers(data') = connected_peers(data), message_queue' = message_queue
      PROVE  UNCHANGED Abs!vars
    BY <1>2, <1>3 DEF Abs!vars, Abs!Called
<1>4. ASSUME NEW p \in Peers, NEW i \in Indices, incoming(p, i)
      PROVE  [Abs!Next]_Abs!vars
    <2> DEFINE known(now) == IF IsUnknown(now, p) THEN discover(now, p)
                             ELSE bump_last_connected_or_discovered(now, p)
    <2>1. PICK now \in update_time(data) :
            \/ data' = now /\ message_queue' = message_queue
            \/ /\ ~IsConnected(now, p)
               /\ \/ data' = accept_incoming(known(now), p) /\ message_queue' = Append(message_queue, Accept(i))
                  \/ data' = known(now) /\ message_queue' = Append(message_queue, Reject(i))
        BY <1>4, Zenon DEF incoming
    <2>2. Good(now) /\ now \in States /\ connected_peers(now) = connected_peers(data)
        BY <1>1, UpdateTimeGood, ConnectedUpdateTime DEF Good
    <2>3. CASE data' = now /\ message_queue' = message_queue
        BY <1>3, <2>2, <2>3
    <2>4. CASE ~IsConnected(now, p)
        <3>1. Good(known(now)) /\ known(now) \in States
            BY <2>2, <2>4, DiscoverGood, BumpGood DEF Good
        <3>2. connected_peers(known(now)) = connected_peers(data)
            BY <2>2, ConnectedDiscover, ConnectedBump
        <3> HIDE DEF known
        <3>3. connected_peers(accept_incoming(known(now), p)) = connected_peers(data) \cup {p}
            BY <3>1, <3>2, ConnectedAcceptIncoming
        <3>4. p \notin connected_peers(data)
            BY <2>2, <2>4 DEF connected_peers
        <3>5. CASE data' = now /\ message_queue' = message_queue
            BY <2>3, <3>5
        <3>6. CASE \/ data' = accept_incoming(known(now), p) /\ message_queue' = Append(message_queue, Accept(i))
                   \/ data' = known(now) /\ message_queue' = Append(message_queue, Reject(i))
            <4>1. Abs!AnswerIncoming(p, i)
                BY <3>2, <3>3, <3>4, <3>6 DEF Abs!AnswerIncoming, Abs!Accept, Accept, Abs!Reject, Reject
            <4> QED BY <1>2, <4>1 DEF Abs!Next, Abs!incoming
        <3> QED BY <2>1, <3>5, <3>6
    <2> QED BY <2>1, <2>3, <2>4
<1>5. ASSUME NEW p \in Peers, dropped(p)
      PROVE  [Abs!Next]_Abs!vars
    <2> DEFINE after(now) == IF IsConnected(now, p)
                             THEN disconnect(add_reputation(now, p, DisconnectChange), p)
                             ELSE now
    <2>1. PICK now \in update_time(data) : alloc_slots(after(now), reserved_only, message_queue)
        BY <1>5 DEF dropped
    <2>2. Good(now) /\ now \in States /\ connected_peers(now) = connected_peers(data)
        BY <1>1, UpdateTimeGood, ConnectedUpdateTime DEF Good
    <2>3. Good(after(now)) /\ connected_peers(after(now)) = connected_peers(data) \ {p}
        <3> DEFINE d == add_reputation(now, p, DisconnectChange)
        <3>1. Good(d) /\ d \in States /\ connected_peers(d) = connected_peers(data)
            BY <2>2, AddReputationGood, ConnectedAddReputation, ReputationConstants DEF Good
        <3>2. Good(disconnect(d, p)) /\ connected_peers(disconnect(d, p)) = connected_peers(data) \ {p}
            BY <3>1, DisconnectAllGood, ConnectedDisconnectAll DEF disconnect
        <3>3. ~IsConnected(now, p) => p \notin connected_peers(data)
            BY <2>2 DEF connected_peers
        <3> HIDE DEF d
        <3> QED BY <2>2, <3>2, <3>3 DEF d
    <2> HIDE DEF after
    <2>4. Abs!Alloc(connected_peers(data) \ {p}, message_queue)
        BY <2>1, <2>3, AllocSlotsAbs
    <2> QED BY <1>2, <2>4 DEF Abs!Next, Abs!dropped
<1>6. ASSUME NEW S \in SUBSET Peers, discovered(S)
      PROVE  [Abs!Next]_Abs!vars
    <2>1. \/ alloc_slots(DiscoverAll(data, S), reserved_only, message_queue)
          \/ data' = data /\ message_queue' = message_queue
        BY <1>6 DEF discovered
    <2>2. Good(DiscoverAll(data, S)) /\ connected_peers(DiscoverAll(data, S)) = connected_peers(data)
        BY <1>1, DiscoverAllGood, ConnectedDiscoverAll
    <2>3. CASE alloc_slots(DiscoverAll(data, S), reserved_only, message_queue)
        <3>1. Abs!Alloc(connected_peers(data), message_queue)
            BY <2>2, <2>3, AllocSlotsAbs
        <3> QED BY <1>2, <3>1 DEF Abs!Next, Abs!discovered
    <2>4. CASE data' = data /\ message_queue' = message_queue
        BY <1>3, <2>4
    <2> QED BY <2>1, <2>3, <2>4
<1>7. CASE debug_info
    BY <1>1, <1>3, <1>7, ConnectedUpdateTime DEF debug_info
<1> QED BY <1>4, <1>5, <1>6, <1>7

LEMMA PollAbs ==
    ASSUME IInv, \/ \E m \in Message : PollReady(m)
                 \/ PollPending
                 \/ \E p \in Peers : ForgetAfterElapsed(p)
    PROVE  [Abs!Next]_Abs!vars
<1>1. CASE \E m \in Message : PollReady(m)
    BY <1>1 DEF PollReady, Abs!Next, Abs!PollReady, Message, MessagesOn, Abs!MessagesOn
<1>2. CASE PollPending
    BY <1>2 DEF PollPending, Abs!Next, Abs!PollPending
<1>3. ASSUME NEW p \in Peers, ForgetAfterElapsed(p)
      PROVE  UNCHANGED Abs!vars
    <2> DEFINE m == [data.nodes[p] EXCEPT !.stale = TRUE]
    <2>1. data \in States /\ m.conn = data.nodes[p].conn
        BY Fields DEF IInv, TypeOK, Node
    <2>2. data' = [data EXCEPT !.nodes[p] = m]
        BY <1>3 DEF ForgetAfterElapsed
    <2> HIDE DEF m
    <2>3. connected_peers(data') = connected_peers(data)
        BY <2>1, <2>2, ConnectedSetNode
    <2> QED BY <1>3, <2>3 DEF ForgetAfterElapsed, Abs!vars
<1> QED BY <1>1, <1>2, <1>3

LEMMA InitAbs == Init => Abs!Init
<1> SUFFICES ASSUME Init PROVE Abs!Init
    OBVIOUS
<1>1. PICK R \in SUBSET Peers, B \in SUBSET Peers, b \in BOOLEAN : \E c \in from_config(R, B, b) :
        data = c.data /\ message_queue = c.queue
    BY DEF Init
<1> DEFINE new == set_priority_group(NewState(b), Reserved, R)
           d == DiscoverAll(new, B)
<1>2. PICK s \in Allocations(d, b) :
        data = outgoing(d, {s[i] : i \in 1 .. Len(s)}) /\ message_queue = Connects(s)
    <2>1. PICK c \in from_config(R, B, b) : data = c.data /\ message_queue = c.queue
        BY <1>1
    <2>2. PICK s \in Allocations(d, b) :
            c = [data |-> outgoing(d, {s[i] : i \in 1 .. Len(s)}), queue |-> Connects(s)]
        BY Zenon DEF from_config
    <2> QED BY <2>1, <2>2, Zenon
<1>3. Good(NewState(b)) /\ connected_peers(NewState(b)) = {}
    BY NewStateGood DEF connected_peers, IsConnected, NewState, NoNode
<1>4. Good(new) /\ connected_peers(new) = {}
    BY <1>3, SetPriorityGroupGood, ConnectedSetPriorityGroup, ReservedIsGroup DEF Good
<1> HIDE DEF new
<1>5. Good(d) /\ d \in States /\ connected_peers(d) = {}
    BY <1>4, DiscoverAllGood, ConnectedDiscoverAll DEF Good
<1> HIDE DEF d
<1> DEFINE range == {s[i] : i \in 1 .. Len(s)}
           candidates == {p \in Peers : IsNotConnected(d, p)}
<1>6. connected_peers(data) = range
    <2>1. range \in SUBSET Peers
        BY <1>2, AllocationsType
    <2> QED BY <1>2, <1>5, <2>1, ConnectedOutgoing
<1>7. s \in OrdersOfParts(Peers)
    <2>1. s \in OrdersOfParts(candidates) /\ candidates \subseteq Peers
        BY <1>2 DEF Allocations
    <2> HIDE DEF candidates
    <2> QED BY <2>1 DEF OrdersOfParts
<1> QED BY <1>2, <1>6, <1>7, SameHelpers, Zenon DEF Init, Abs!Init

\* The PSM implements its abstract specification: seen by its owner it is a set
\* of connected peers, and each change of the set that the owner did not make
\* (alloc_slots, on_report_peer, on_set_reserved_only, ...) comes with the
\* message that announces it.
THEOREM Refinement == Spec => Implements
<1>1. IInv /\ [Next]_vars => [Abs!Next]_Abs!vars
    <2> SUFFICES ASSUME IInv, [Next]_vars PROVE [Abs!Next]_Abs!vars
        OBVIOUS
    <2>1. CASE UNCHANGED vars
        BY <2>1 DEF vars, Abs!vars
    <2>2. CASE HandleAction
        BY <2>2, HandleActionAbs DEF Abs!Next
    <2> QED BY <2>1, <2>2, CallsAbs, PollAbs DEF Next
<1>2. Spec => []IInv
    BY SlotAccounting, PTL DEF IInv
<1> QED BY <1>1, <1>2, InitAbs, PTL DEF Spec, Abs!Spec, Implements
=============================================================================
