--------------------------- MODULE PeersetProofs ----------------------------
(***************************************************************************)
(* Proofs about Peerset: the state keeps its type and the slot counters    *)
(* are exact, for every set of peers, every set of groups, every limit.    *)
(* The method: each operator of PeersState preserves Good, the type and    *)
(* the count together (disconnect needs the count to be exact to be sure   *)
(* that it can decrement); the actions are then compositions of operators. *)
(***************************************************************************)
EXTENDS Peerset, FiniteSetTheorems, TLAPS

Good(d) == d \in States /\ Counted(d)

-----------------------------------------------------------------------------
(* Facts about the operators of PeersState *)

\* The sets the counters count are finite.
LEMMA SubsetsFinite ==
    ASSUME NEW S, S \subseteq Peers
    PROVE  IsFiniteSet(S) /\ Cardinality(S) \in Nat
BY PeersFinite, FS_Subset, FS_CardinalityType

\* Adding a disjoint set and removing a subset: what happens to a count.
LEMMA CountUnion ==
    ASSUME NEW A, A \subseteq Peers, NEW B, B \subseteq Peers, A \cap B = {}
    PROVE  Cardinality(A \cup B) = Cardinality(A) + Cardinality(B)
<1>1. IsFiniteSet(A) /\ IsFiniteSet(B) /\ Cardinality(A) \in Nat /\ Cardinality(B) \in Nat
    BY SubsetsFinite
<1>2. Cardinality(A \cup B) = Cardinality(A) + Cardinality(B) - Cardinality(A \cap B)
    BY <1>1, FS_Union
<1>3. Cardinality(A \cap B) = 0
    BY FS_EmptySet
<1> QED BY <1>1, <1>2, <1>3

LEMMA CountDifference ==
    ASSUME NEW A, A \subseteq Peers, NEW B, B \subseteq A
    PROVE  Cardinality(A \ B) = Cardinality(A) - Cardinality(B)
<1>1. Cardinality((A \ B) \cup B) = Cardinality(A \ B) + Cardinality(B)
    BY CountUnion
<1>2. (A \ B) \cup B = A
    OBVIOUS
<1>3. Cardinality(A) = Cardinality(A \ B) + Cardinality(B)
    BY <1>1, <1>2, Zenon
<1>4. Cardinality(A \ B) \in Nat /\ Cardinality(B) \in Nat /\ Cardinality(A) \in Nat
    BY SubsetsFinite
<1> QED BY <1>3, <1>4

\* Slots do not depend on reputations and on the time of the last contact, and
\* making an unknown peer known, or forgetting a peer, takes or frees none.
LEMMA SameConnections ==
    ASSUME NEW d, Good(d), NEW e \in States,
           e.priority_nodes = d.priority_nodes, e.num_in = d.num_in, e.num_out = d.num_out,
           \A p \in Peers : \/ e.nodes[p].conn = d.nodes[p].conn
                            \/ ~IsConnected(d, p) /\ ~IsConnected(e, p)
    PROVE  Good(e)
<1>1. \A p \in Peers : IsPriority(e, p) <=> IsPriority(d, p)
    BY DEF IsPriority
<1>2. SlotUsers(e, "In") = SlotUsers(d, "In") /\ SlotUsers(e, "Out") = SlotUsers(d, "Out")
    BY <1>1 DEF SlotUsers, IsConnected
<1> QED BY <1>2 DEF Good, Counted

LEMMA Fields ==
    ASSUME NEW d \in States
    PROVE  /\ d.nodes \in [Peers -> Node]
           /\ d.num_in \in Int /\ d.num_out \in Int
           /\ d.priority_nodes \in [Groups -> SUBSET Peers]
           /\ d.priority_only \in BOOLEAN
BY DEF States

\* A change of nodes whose effect on the slots is known: in the slots of
\* direction c, the peers of del(c) leave and the peers of add(c) enter.
LEMMA CountedAfter ==
    ASSUME NEW d, Good(d), NEW e \in States,
           NEW addIn, NEW addOut, NEW delIn, NEW delOut,
           addIn \subseteq Peers, addOut \subseteq Peers,
           addIn \cap SlotUsers(d, "In") = {}, addOut \cap SlotUsers(d, "Out") = {},
           delIn \subseteq SlotUsers(d, "In") \cup addIn,
           delOut \subseteq SlotUsers(d, "Out") \cup addOut,
           SlotUsers(e, "In") = (SlotUsers(d, "In") \cup addIn) \ delIn,
           SlotUsers(e, "Out") = (SlotUsers(d, "Out") \cup addOut) \ delOut,
           e.num_in = (d.num_in + Cardinality(addIn)) - Cardinality(delIn),
           e.num_out = (d.num_out + Cardinality(addOut)) - Cardinality(delOut)
    PROVE  Good(e)
<1>1. ASSUME NEW A, A \subseteq Peers, NEW add, add \subseteq Peers, add \cap A = {},
             NEW del, del \subseteq A \cup add
      PROVE  Cardinality((A \cup add) \ del) = (Cardinality(A) + Cardinality(add)) - Cardinality(del)
    <2>1. Cardinality(A \cup add) = Cardinality(A) + Cardinality(add)
        BY <1>1, CountUnion
    <2>2. Cardinality((A \cup add) \ del) = Cardinality(A \cup add) - Cardinality(del)
        BY <1>1, CountDifference
    <2> QED BY <2>1, <2>2
<1>2. SlotUsers(d, "In") \subseteq Peers /\ SlotUsers(d, "Out") \subseteq Peers
    BY DEF SlotUsers
<1>3. Cardinality(SlotUsers(e, "In")) = (Cardinality(SlotUsers(d, "In")) + Cardinality(addIn)) - Cardinality(delIn)
    <2>1. Cardinality((SlotUsers(d, "In") \cup addIn) \ delIn)
            = (Cardinality(SlotUsers(d, "In")) + Cardinality(addIn)) - Cardinality(delIn)
        BY <1>1, <1>2
    <2> QED BY <2>1, Zenon
<1>4. Cardinality(SlotUsers(e, "Out")) = (Cardinality(SlotUsers(d, "Out")) + Cardinality(addOut)) - Cardinality(delOut)
    <2>1. Cardinality((SlotUsers(d, "Out") \cup addOut) \ delOut)
            = (Cardinality(SlotUsers(d, "Out")) + Cardinality(addOut)) - Cardinality(delOut)
        BY <1>1, <1>2
    <2> QED BY <2>1, Zenon
<1> QED BY <1>3, <1>4 DEF Good, Counted

LEMMA DisconnectAllGood ==
    ASSUME NEW d, Good(d), NEW S, S \subseteq Peers
    PROVE  Good(DisconnectAll(d, S))
<1> DEFINE e == DisconnectAll(d, S)
           users(conn) == {p \in S : d.nodes[p].conn = conn /\ ~IsPriority(d, p)}
           n == [p \in Peers |-> IF p \in S THEN [d.nodes[p] EXCEPT !.conn = "NotConnected", !.stale = FALSE]
                                 ELSE d.nodes[p]]
           i == d.num_in - Cardinality(users("In"))
           o == d.num_out - Cardinality(users("Out"))
<1>1. d \in States
    BY DEF Good
<1>2. d.nodes \in [Peers -> Node] /\ d.num_in \in Int /\ d.num_out \in Int
    BY <1>1, Fields
<1>3. Cardinality(users("In")) \in Nat /\ Cardinality(users("Out")) \in Nat
    BY SubsetsFinite
<1>4. n \in [Peers -> Node]
    BY <1>2, Zenon DEF Node
<1>5. e = [d EXCEPT !.nodes = n, !.num_in = i, !.num_out = o]
    BY DEF DisconnectAll
<1>6. i \in Int /\ o \in Int
    BY <1>2, <1>3
<1> HIDE DEF e, users, n, i, o
<1>7. /\ e \in States
      /\ e.nodes = n /\ e.num_in = i /\ e.num_out = o
      /\ e.priority_nodes = d.priority_nodes
    BY <1>1, <1>4, <1>5, <1>6, Zenon DEF States
<1>8. \A p \in Peers : IsPriority(e, p) <=> IsPriority(d, p)
    BY <1>7 DEF IsPriority
<1>9. ASSUME NEW c \in {"In", "Out"}
      PROVE  SlotUsers(e, c) = (SlotUsers(d, c) \cup {}) \ users(c) /\ users(c) \subseteq SlotUsers(d, c) \cup {}
    BY <1>2, <1>7, <1>8, Zenon DEF SlotUsers, Node, users, n
<1>10. /\ e.num_in = (d.num_in + Cardinality({})) - Cardinality(users("In"))
       /\ e.num_out = (d.num_out + Cardinality({})) - Cardinality(users("Out"))
    BY <1>2, <1>7, FS_EmptySet DEF i, o
<1>11. Good(e)
    BY <1>7, <1>9, <1>10, CountedAfter
<1> QED BY <1>11 DEF e

LEMMA OutgoingGood ==
    ASSUME NEW d, Good(d), NEW S, S \subseteq Peers, \A p \in S : IsNotConnected(d, p)
    PROVE  Good(outgoing(d, S))
<1> DEFINE e == outgoing(d, S)
           users == {p \in S : ~IsPriority(d, p)}
           n == [p \in Peers |-> IF p \in S THEN [d.nodes[p] EXCEPT !.conn = "Out"] ELSE d.nodes[p]]
           o == d.num_out + Cardinality(users)
<1>1. d \in States
    BY DEF Good
<1>2. d.nodes \in [Peers -> Node] /\ d.num_in \in Int /\ d.num_out \in Int
    BY <1>1, Fields
<1>3. Cardinality(users) \in Nat
    BY SubsetsFinite
<1>4. n \in [Peers -> Node]
    BY <1>2 DEF Node
<1>5. e = [d EXCEPT !.nodes = n, !.num_out = o]
    BY DEF outgoing
<1>6. o \in Int
    BY <1>2, <1>3
<1> HIDE DEF e, users, n, o
<1>7. /\ e \in States
      /\ e.nodes = n /\ e.num_in = d.num_in /\ e.num_out = o
      /\ e.priority_nodes = d.priority_nodes
    BY <1>1, <1>4, <1>5, <1>6, Zenon DEF States
<1>8. \A p \in Peers : IsPriority(e, p) <=> IsPriority(d, p)
    BY <1>7 DEF IsPriority
<1>9. /\ SlotUsers(e, "Out") = (SlotUsers(d, "Out") \cup users) \ {}
      /\ users \cap SlotUsers(d, "Out") = {}
      /\ users \subseteq Peers
      /\ SlotUsers(e, "In") = (SlotUsers(d, "In") \cup {}) \ {}
    BY <1>2, <1>7, <1>8 DEF SlotUsers, Node, users, n, IsNotConnected
<1>10. /\ e.num_in = (d.num_in + Cardinality({})) - Cardinality({})
       /\ e.num_out = (d.num_out + Cardinality(users)) - Cardinality({})
    BY <1>2, <1>3, <1>7, FS_EmptySet DEF o
<1>11. Good(e)
    BY <1>7, <1>9, <1>10, CountedAfter
<1> QED BY <1>11 DEF e

LEMMA AcceptIncomingGood ==
    ASSUME NEW d, Good(d), NEW p \in Peers, IsNotConnected(d, p)
    PROVE  Good(accept_incoming(d, p))
<1> DEFINE e == accept_incoming(d, p)
           users == {q \in {p} : ~IsPriority(d, q)}
           n == [d.nodes EXCEPT ![p].conn = "In"]
           i == d.num_in + (IF IsPriority(d, p) THEN 0 ELSE 1)
<1>1. d \in States
    BY DEF Good
<1>2. d.nodes \in [Peers -> Node] /\ d.num_in \in Int /\ d.num_out \in Int
    BY <1>1, Fields
<1>3. Cardinality(users) = IF IsPriority(d, p) THEN 0 ELSE 1
    <2>1. CASE IsPriority(d, p)
        <3>1. users = {}
            BY <2>1
        <3> QED BY <2>1, <3>1, FS_EmptySet, Zenon
    <2>2. CASE ~IsPriority(d, p)
        <3>1. users = {p}
            BY <2>2
        <3>2. Cardinality(users) = 1
            BY <3>1, FS_Singleton, Zenon
        <3> QED BY <2>2, <3>2
    <2> QED BY <2>1, <2>2
<1>4. n \in [Peers -> Node]
    BY <1>2 DEF Node
<1>5. e = [d EXCEPT !.nodes = n, !.num_in = i]
    BY DEF accept_incoming
<1>6. i \in Int
    BY <1>2
<1>7. users \subseteq Peers
    OBVIOUS
<1> HIDE DEF e, n, i
<1>8. /\ e \in States
      /\ e.nodes = n /\ e.num_in = i /\ e.num_out = d.num_out
      /\ e.priority_nodes = d.priority_nodes
    BY <1>1, <1>4, <1>5, <1>6, Zenon DEF States
<1>9. \A q \in Peers : IsPriority(e, q) <=> IsPriority(d, q)
    BY <1>8 DEF IsPriority
<1>10. /\ SlotUsers(e, "In") = (SlotUsers(d, "In") \cup users) \ {}
       /\ users \cap SlotUsers(d, "In") = {}
       /\ SlotUsers(e, "Out") = (SlotUsers(d, "Out") \cup {}) \ {}
    BY <1>2, <1>8, <1>9 DEF SlotUsers, Node, n, IsNotConnected
<1> HIDE DEF users
<1>11. /\ e.num_in = (d.num_in + Cardinality(users)) - Cardinality({})
       /\ e.num_out = (d.num_out + Cardinality({})) - Cardinality({})
    BY <1>2, <1>3, <1>8, FS_EmptySet DEF i
<1>12. Good(e)
    BY <1>7, <1>8, <1>10, <1>11, CountedAfter
<1> QED BY <1>12 DEF e

LEMMA SetPriorityGroupGood ==
    ASSUME NEW d, Good(d), NEW g \in Groups, NEW S, S \subseteq Peers
    PROVE  Good(set_priority_group(d, g, S))
<1> DEFINE e == set_priority_group(d, g, S)
           others == UNION {d.priority_nodes[h] : h \in Groups \ {g}}
           lost(conn) == {p \in d.priority_nodes[g] \ others : d.nodes[p].conn = conn}
           gained(conn) == {p \in S \ others : d.nodes[p].conn = conn}
           n == [p \in Peers |-> IF p \in S \ others /\ IsUnknown(d, p) THEN NewNode ELSE d.nodes[p]]
           i == (d.num_in + Cardinality(lost("In"))) - Cardinality(gained("In"))
           o == (d.num_out + Cardinality(lost("Out"))) - Cardinality(gained("Out"))
           pn == [d.priority_nodes EXCEPT ![g] = S]
<1>1. d \in States
    BY DEF Good
<1>2. /\ d.nodes \in [Peers -> Node] /\ d.num_in \in Int /\ d.num_out \in Int
      /\ d.priority_nodes \in [Groups -> SUBSET Peers]
    BY <1>1, Fields
<1>3. ASSUME NEW c PROVE /\ lost(c) \subseteq Peers /\ gained(c) \subseteq Peers
                         /\ Cardinality(lost(c)) \in Nat /\ Cardinality(gained(c)) \in Nat
    <2>1. lost(c) \subseteq Peers /\ gained(c) \subseteq Peers
        BY <1>2
    <2> QED BY <2>1, SubsetsFinite
<1>4. n \in [Peers -> Node]
    BY <1>2, RepRange DEF Node, NewNode, Reps
<1>5. e = [d EXCEPT !.nodes = n, !.num_in = i, !.num_out = o, !.priority_nodes = pn]
    BY DEF set_priority_group
<1> HIDE DEF lost, gained
<1>6. i \in Int /\ o \in Int
    BY <1>2, <1>3
<1>7. pn \in [Groups -> SUBSET Peers]
    BY <1>2
<1> HIDE DEF e, n, i, o, pn
<1>8. /\ e \in States
      /\ e.nodes = n /\ e.num_in = i /\ e.num_out = o
      /\ e.priority_nodes = pn
    BY <1>1, <1>4, <1>5, <1>6, <1>7, Zenon DEF States
<1>9. \A p \in Peers : /\ IsPriority(e, p) <=> p \in S \/ p \in others
                       /\ IsPriority(d, p) <=> p \in d.priority_nodes[g] \/ p \in others
    BY <1>2, <1>8 DEF IsPriority, pn
<1> HIDE DEF others
<1>10. ASSUME NEW c \in {"In", "Out"}
       PROVE  /\ SlotUsers(e, c) = (SlotUsers(d, c) \cup lost(c)) \ gained(c)
              /\ lost(c) \cap SlotUsers(d, c) = {}
              /\ gained(c) \subseteq SlotUsers(d, c) \cup lost(c)
    <2>1. \A p \in Peers : n[p].conn = c <=> d.nodes[p].conn = c
        BY <1>2 DEF n, NewNode, IsUnknown
    <2> QED BY <1>2, <1>8, <1>9, <2>1 DEF SlotUsers, lost, gained
<1>11. Good(e)
    BY <1>3, <1>8, <1>10, CountedAfter DEF i, o
<1> QED BY <1>11 DEF e

\* Reputations stay in their range as they move towards zero.
LEMMA TickType ==
    ASSUME NEW r \in Reps
    PROVE  reput_tick(r) \in Reps
BY RepRange DEF Reps, reput_tick

LEMMA TickGood ==
    ASSUME NEW d, Good(d)
    PROVE  Good(Tick(d))
<1> DEFINE e == Tick(d)
           n == [p \in Peers |-> TickNode(d.nodes[p])]
<1>1. d \in States /\ d.nodes \in [Peers -> Node]
    BY Fields DEF Good
<1>2. e = [d EXCEPT !.nodes = n]
    BY DEF Tick
<1>3. ASSUME NEW m \in Node
      PROVE  /\ TickNode(m) \in Node
             /\ \/ TickNode(m).conn = m.conn
                \/ m.conn = "NotConnected" /\ TickNode(m).conn = "Unknown"
    <2>1. NoNode \in Node /\ NoNode.conn = "Unknown"
        BY RepRange DEF Node, NoNode, Reps
    <2>2. /\ [m EXCEPT !.rep = reput_tick(m.rep)] \in Node
          /\ [m EXCEPT !.rep = reput_tick(m.rep)].conn = m.conn
        BY TickType DEF Node
    <2> QED BY <2>1, <2>2 DEF TickNode
<1>4. \A p \in Peers : \/ n[p].conn = d.nodes[p].conn
                       \/ d.nodes[p].conn = "NotConnected" /\ n[p].conn = "Unknown"
    BY <1>1, <1>3
<1>a. n \in [Peers -> Node]
    BY <1>1, <1>3
<1> HIDE DEF e, n
<1>5. /\ e \in States /\ e.nodes = n /\ e.priority_nodes = d.priority_nodes
      /\ e.num_in = d.num_in /\ e.num_out = d.num_out
    BY <1>1, <1>2, <1>a DEF States
<1>6. Good(e)
    BY <1>4, <1>5, SameConnections DEF IsConnected
<1> QED BY <1>6 DEF e

LEMMA UpdateTimeGood ==
    ASSUME NEW d, Good(d), NEW now \in update_time(d)
    PROVE  Good(now)
BY TickGood DEF update_time

\* A change of a single node that neither connects nor disconnects it.
LEMMA SetNodeGood ==
    ASSUME NEW d, Good(d), NEW p \in Peers, NEW m \in Node,
           \/ m.conn = d.nodes[p].conn
           \/ m.conn \notin {"In", "Out"} /\ d.nodes[p].conn \notin {"In", "Out"}
    PROVE  Good([d EXCEPT !.nodes[p] = m])
<1> DEFINE e == [d EXCEPT !.nodes[p] = m]
           n == [d.nodes EXCEPT ![p] = m]
<1>1. d \in States /\ d.nodes \in [Peers -> Node]
    BY Fields DEF Good
<1>2. e = [d EXCEPT !.nodes = n]
    OBVIOUS
<1>3. n \in [Peers -> Node] /\ \A q \in Peers : n[q] = IF q = p THEN m ELSE d.nodes[q]
    BY <1>1
<1> HIDE DEF e, n
<1>4. /\ e \in States /\ e.nodes = n /\ e.priority_nodes = d.priority_nodes
      /\ e.num_in = d.num_in /\ e.num_out = d.num_out
    BY <1>1, <1>2, <1>3 DEF States
<1>5. Good(e)
    BY <1>3, <1>4, SameConnections DEF IsConnected
<1> QED BY <1>5 DEF e

LEMMA DiscoverGood ==
    ASSUME NEW d, Good(d), NEW p \in Peers, ~IsConnected(d, p)
    PROVE  Good(discover(d, p))
<1>1. NewNode \in Node /\ NewNode.conn = "NotConnected"
    BY RepRange DEF NewNode, Node, Reps
<1> QED BY <1>1, SetNodeGood DEF discover, SetNode, IsConnected

LEMMA BumpGood ==
    ASSUME NEW d, Good(d), NEW p \in Peers
    PROVE  Good(bump_last_connected_or_discovered(d, p))
<1>1. d.nodes[p] \in Node
    BY Fields DEF Good
<1>2. [d.nodes[p] EXCEPT !.stale = FALSE] \in Node /\ [d.nodes[p] EXCEPT !.stale = FALSE].conn = d.nodes[p].conn
    BY <1>1, Zenon DEF Node
<1>3. Good([d EXCEPT !.nodes[p] = [d.nodes[p] EXCEPT !.stale = FALSE]])
    BY <1>2, SetNodeGood, Zenon
<1>4. bump_last_connected_or_discovered(d, p) = [d EXCEPT !.nodes[p] = [d.nodes[p] EXCEPT !.stale = FALSE]]
    BY DEF bump_last_connected_or_discovered
<1> QED BY <1>3, <1>4

LEMMA AddReputationGood ==
    ASSUME NEW d, Good(d), NEW p \in Peers, NEW v \in Int
    PROVE  Good(add_reputation(d, p, v))
<1> DEFINE k == IF IsUnknown(d, p) THEN discover(d, p) ELSE d
           m == [k.nodes[p] EXCEPT !.rep = Saturate(k.nodes[p].rep + v)]
<1>1. Good(k)
    BY DiscoverGood DEF IsUnknown, IsConnected
<1> HIDE DEF k
<1>2. k.nodes[p] \in Node
    BY <1>1, Fields DEF Good
<1>3. m \in Node /\ m.conn = k.nodes[p].conn
    BY <1>2, RepRange DEF Node, Reps, Saturate
<1> HIDE DEF m
<1>4. Good([k EXCEPT !.nodes[p] = m])
    BY <1>1, <1>3, SetNodeGood
<1>5. add_reputation(d, p, v) = [k EXCEPT !.nodes[p] = m]
    BY DEF add_reputation, k, m
<1> QED BY <1>4, <1>5
-----------------------------------------------------------------------------
(* The actions *)

LEMMA AllocationsType ==
    ASSUME NEW d, NEW r, NEW s \in Allocations(d, r)
    PROVE  /\ s \in Seq(Peers)
           /\ {s[i] : i \in 1 .. Len(s)} \subseteq Peers
           /\ \A p \in {s[i] : i \in 1 .. Len(s)} : IsNotConnected(d, p)
<1> DEFINE candidates == {p \in Peers : IsNotConnected(d, p)}
<1>1. s \in OrdersOfParts(candidates)
    BY DEF Allocations
<1>2. PICK T \in SUBSET candidates : s \in [1 .. Cardinality(T) -> T]
    BY <1>1 DEF OrdersOfParts, Orders
<1>3. Cardinality(T) \in Nat
    BY SubsetsFinite
<1>4. Len(s) = Cardinality(T) /\ s \in Seq(T)
    BY <1>2, <1>3
<1> QED BY <1>2, <1>4

LEMMA ConnectsType ==
    ASSUME NEW s \in Seq(Peers)
    PROVE  Connects(s) \in Seq(Message)
BY DEF Connects, Connect, Message, MessagesOn

LEMMA AllocSlotsGood ==
    ASSUME NEW d, Good(d), NEW r, NEW q \in Seq(Message), alloc_slots(d, r, q)
    PROVE  Good(data') /\ message_queue' \in Seq(Message)
<1>1. PICK now \in update_time(d) : \E s \in Allocations(now, r) :
        /\ data' = outgoing(now, {s[i] : i \in 1 .. Len(s)})
        /\ message_queue' = q \o Connects(s)
    BY Zenon DEF alloc_slots
<1>2. PICK s \in Allocations(now, r) :
        /\ data' = outgoing(now, {s[i] : i \in 1 .. Len(s)})
        /\ message_queue' = q \o Connects(s)
    BY <1>1, Zenon
<1>3. Good(now)
    BY UpdateTimeGood
<1>4. Good(data')
    BY <1>2, <1>3, AllocationsType, OutgoingGood
<1>5. message_queue' \in Seq(Message)
    BY <1>2, AllocationsType, ConnectsType
<1> QED BY <1>4, <1>5

\* The inductive invariant: the type and the count hold together.
IInv == TypeOK /\ SlotsCounted

LEMMA NewStateGood ==
    ASSUME NEW b \in BOOLEAN
    PROVE  Good(NewState(b))
<1> DEFINE d == NewState(b)
<1>1. d \in States
    BY RepRange DEF NewState, NoNode, States, Node, Reps
<1>2. SlotUsers(d, "In") = {} /\ SlotUsers(d, "Out") = {}
    BY DEF SlotUsers, NewState, NoNode
<1>3. d.num_in = 0 /\ d.num_out = 0
    BY DEF NewState
<1>4. Cardinality(SlotUsers(d, "In")) = 0 /\ Cardinality(SlotUsers(d, "Out")) = 0
    BY <1>2, FS_EmptySet, Zenon
<1> QED BY <1>1, <1>3, <1>4 DEF Good, Counted

LEMMA DiscoverAllGood ==
    ASSUME NEW d, Good(d), NEW S
    PROVE  Good(DiscoverAll(d, S))
<1> DEFINE n == [p \in Peers |-> IF p \in S /\ IsUnknown(d, p) THEN NewNode ELSE d.nodes[p]]
           e == [d EXCEPT !.nodes = n]
<1>1. d \in States /\ d.nodes \in [Peers -> Node]
    BY Fields DEF Good
<1>2. NewNode \in Node /\ NewNode.conn = "NotConnected"
    BY RepRange DEF NewNode, Node, Reps
<1>3. n \in [Peers -> Node] /\ \A p \in Peers : n[p] = IF p \in S /\ IsUnknown(d, p) THEN NewNode ELSE d.nodes[p]
    BY <1>1, <1>2
<1> HIDE DEF n
<1>4. /\ e \in States /\ e.nodes = n /\ e.priority_nodes = d.priority_nodes
      /\ e.num_in = d.num_in /\ e.num_out = d.num_out
    BY <1>1, <1>3 DEF States
<1> HIDE DEF e
<1>5. Good(e)
    BY <1>2, <1>3, <1>4, SameConnections DEF IsConnected, IsUnknown
<1> QED BY <1>5 DEF e, n, DiscoverAll

LEMMA InitIInv == Init => IInv
<1> SUFFICES ASSUME Init PROVE IInv
    OBVIOUS
<1>1. PICK R \in SUBSET Peers, B \in SUBSET Peers, b \in BOOLEAN : \E c \in from_config(R, B, b) :
        data = c.data /\ reserved_only = b /\ message_queue = c.queue
    BY DEF Init
<1> DEFINE d == DiscoverAll(set_priority_group(NewState(b), Reserved, R), B)
<1>2. PICK s \in Allocations(d, b) :
        data = outgoing(d, {s[i] : i \in 1 .. Len(s)}) /\ message_queue = Connects(s)
    <2>1. PICK c \in from_config(R, B, b) : data = c.data /\ message_queue = c.queue
        BY <1>1
    <2>2. PICK s \in Allocations(d, b) :
            c = [data |-> outgoing(d, {s[i] : i \in 1 .. Len(s)}), queue |-> Connects(s)]
        BY Zenon DEF from_config
    <2> QED BY <2>1, <2>2, Zenon
<1>3. Good(set_priority_group(NewState(b), Reserved, R))
    BY NewStateGood, SetPriorityGroupGood, ReservedIsGroup
<1>4. Good(d)
    BY <1>3, DiscoverAllGood
<1> HIDE DEF d
<1>5. Good(data)
    BY <1>2, <1>4, AllocationsType, OutgoingGood
<1>6. message_queue \in Seq(Message)
    BY <1>2, AllocationsType, ConnectsType
<1> QED BY <1>1, <1>5, <1>6, Zenon DEF IInv, TypeOK, SlotsCounted, Good, Init

\* Every handler of an Action preserves the invariant.
LEMMA HandleActionIInv == IInv /\ HandleAction => IInv'
<1> SUFFICES ASSUME IInv, HandleAction PROVE IInv'
    OBVIOUS
<1>1. /\ Good(data) /\ reserved_only \in BOOLEAN
      /\ message_queue \in Seq(Message)
    BY DEF IInv, TypeOK, SlotsCounted, Good
<1>2. SUFFICES Good(data') /\ reserved_only' \in BOOLEAN /\ message_queue' \in Seq(Message)
    <2>1. in_poll' = TRUE
        BY Zenon DEF HandleAction, TakesAction, on_add_reserved_peer, on_remove_reserved_peer, on_set_reserved_only,
               on_set_priority_group, on_add_to_priority_group, on_remove_from_priority_group, on_report_peer
    <2> QED BY <2>1 DEF IInv, TypeOK, SlotsCounted, Good
<1>3. \A g \in Groups : data.priority_nodes[g] \subseteq Peers
    BY <1>1, Fields DEF Good
<1>4. ASSUME NEW d, Good(d), SetGroupAndAlloc(d)
      PROVE  Good(data') /\ reserved_only' \in BOOLEAN /\ message_queue' \in Seq(Message)
    BY <1>1, <1>4, AllocSlotsGood DEF SetGroupAndAlloc
<1>5. ASSUME NEW g \in Groups, NEW p \in Peers
      PROVE  Good(add_to_priority_group(data, g, p)) /\ Good(remove_from_priority_group(data, g, p))
    BY <1>1, <1>3, SetPriorityGroupGood DEF add_to_priority_group, remove_from_priority_group
<1>6. ASSUME NEW p \in Peers PROVE Drop(p) \in Message
    BY DEF Drop, Message, MessagesOn
<1>7. CASE \E p \in Peers : on_add_reserved_peer(p)
    BY <1>4, <1>5, <1>7, ReservedIsGroup DEF on_add_reserved_peer
<1>8. ASSUME NEW p \in Peers, on_remove_reserved_peer(p)
      PROVE  Good(data') /\ reserved_only' \in BOOLEAN /\ message_queue' \in Seq(Message)
    <2> DEFINE d == remove_from_priority_group(data, Reserved, p)
    <2>1. Good(d)
        BY <1>5, ReservedIsGroup
    <2>2. Good(disconnect(d, p))
        BY <2>1, DisconnectAllGood DEF disconnect
    <2>3. \/ data' = disconnect(d, p) /\ message_queue' = Append(message_queue, Drop(p))
          \/ data' = d /\ message_queue' = message_queue
        BY <1>8 DEF on_remove_reserved_peer
    <2> QED BY <1>1, <1>6, <1>8, <2>1, <2>2, <2>3 DEF on_remove_reserved_peer
<1>9. ASSUME NEW b \in BOOLEAN, on_set_reserved_only(b)
      PROVE  Good(data') /\ reserved_only' \in BOOLEAN /\ message_queue' \in Seq(Message)
    <2> DEFINE d == set_priority_only(data, b)
               D == connected_peers(d) \ d.priority_nodes[Reserved]
    <2>1. Good(d)
        <3>1. /\ d \in States /\ d.nodes = data.nodes /\ d.priority_nodes = data.priority_nodes
              /\ d.num_in = data.num_in /\ d.num_out = data.num_out
            BY <1>1 DEF set_priority_only, States, Good
        <3> HIDE DEF d
        <3> QED BY <1>1, <3>1, SameConnections
    <2>2. CASE b
        <3>1. PICK s \in Orders(D) :
                /\ data' = DisconnectAll(d, D)
                /\ message_queue' = message_queue \o Drops(s)
            BY <1>9, <2>2, Zenon DEF on_set_reserved_only
        <3>2. D \subseteq Peers
            BY DEF connected_peers
        <3>3. Good(data')
            BY <2>1, <3>1, <3>2, DisconnectAllGood
        <3>4. s \in [1 .. Cardinality(D) -> D] /\ Cardinality(D) \in Nat
            BY <3>2, SubsetsFinite, Zenon DEF Orders
        <3> HIDE DEF D
        <3>5. Drops(s) \in Seq(Message)
            <4>1. Len(s) = Cardinality(D) /\ \A i \in 1 .. Len(s) : s[i] \in Peers
                BY <3>2, <3>4
            <4>2. \A i \in 1 .. Len(s) : Drop(s[i]) \in Message
                BY <1>6, <4>1
            <4> QED BY <3>4, <4>1, <4>2 DEF Drops
        <3> QED BY <1>1, <1>9, <3>1, <3>3, <3>5 DEF on_set_reserved_only
    <2>3. CASE ~b
        <3>1. alloc_slots(d, b, message_queue) /\ reserved_only' = b
            BY <1>9, <2>3 DEF on_set_reserved_only
        <3> QED BY <1>1, <2>1, <3>1, AllocSlotsGood
    <2> QED BY <2>2, <2>3
<1>10. CASE \E g \in Groups, S \in SUBSET Peers : on_set_priority_group(g, S)
    BY <1>1, <1>4, <1>10, SetPriorityGroupGood DEF on_set_priority_group
<1>11. CASE \E g \in Groups, p \in Peers : on_add_to_priority_group(g, p)
    BY <1>4, <1>5, <1>11 DEF on_add_to_priority_group
<1>12. CASE \E g \in Groups, p \in Peers : on_remove_from_priority_group(g, p)
    BY <1>4, <1>5, <1>12 DEF on_remove_from_priority_group
<1>13. ASSUME NEW p \in Peers, NEW change \in RepChanges, on_report_peer(p, change)
       PROVE  Good(data') /\ reserved_only' \in BOOLEAN /\ message_queue' \in Seq(Message)
    <2>1. PICK now \in update_time(data) :
            \/ /\ data' = disconnect(add_reputation(now, p, change), p)
               /\ message_queue' = Append(message_queue, Drop(p))
            \/ data' = add_reputation(now, p, change) /\ message_queue' = message_queue
        BY <1>13 DEF on_report_peer
    <2>2. Good(add_reputation(now, p, change))
        BY <1>1, UpdateTimeGood, AddReputationGood, ReputationConstants
    <2>3. Good(disconnect(add_reputation(now, p, change), p))
        BY <2>2, DisconnectAllGood DEF disconnect
    <2> QED BY <1>1, <1>6, <1>13, <2>1, <2>2, <2>3 DEF on_report_peer
<1> QED BY <1>7, <1>8, <1>9, <1>10, <1>11, <1>12, <1>13 DEF HandleAction

\* What is left to show of a step that leaves well-typed values in the other variables.
LEMMA IInvAfter ==
    ASSUME Good(data'), message_queue' \in Seq(Message), reserved_only' \in BOOLEAN, in_poll' \in BOOLEAN
    PROVE  IInv'
BY Zenon DEF IInv, TypeOK, SlotsCounted, Good

\* The calls of the owner, and the steps of poll_next, preserve the invariant.
LEMMA CallsIInv ==
    ASSUME IInv,
           \/ \E p \in Peers, i \in Indices : incoming(p, i)
           \/ \E p \in Peers : dropped(p)
           \/ \E S \in SUBSET Peers : discovered(S)
           \/ debug_info
    PROVE  IInv'
<1>1. /\ Good(data) /\ reserved_only \in BOOLEAN /\ in_poll \in BOOLEAN
      /\ message_queue \in Seq(Message)
    BY DEF IInv, TypeOK, SlotsCounted, Good
<1>2. SUFFICES Good(data') /\ message_queue' \in Seq(Message)
    <2>1. Called
        BY Zenon DEF incoming, dropped, discovered, debug_info
    <2>2. reserved_only' \in BOOLEAN /\ in_poll' \in BOOLEAN
        BY <1>1, <2>1 DEF Called
    <2> QED BY <2>2, IInvAfter, Zenon
<1>3. ASSUME NEW p \in Peers, NEW i \in Indices, incoming(p, i)
      PROVE  Good(data') /\ message_queue' \in Seq(Message)
    <2> DEFINE known(now) == IF IsUnknown(now, p) THEN discover(now, p)
                             ELSE bump_last_connected_or_discovered(now, p)
    <2>1. PICK now \in update_time(data) :
            \/ data' = now /\ message_queue' = message_queue
            \/ /\ ~IsConnected(now, p)
               /\ \/ data' = accept_incoming(known(now), p) /\ message_queue' = Append(message_queue, Accept(i))
                  \/ data' = known(now) /\ message_queue' = Append(message_queue, Reject(i))
        BY <1>3, Zenon DEF incoming
    <2> HIDE DEF known
    <2>2. Good(now)
        BY <1>1, UpdateTimeGood
    <2>3. CASE data' = now /\ message_queue' = message_queue
        BY <1>1, <2>2, <2>3
    <2>4. CASE ~IsConnected(now, p)
        <3>1. Good(known(now))
            BY <2>2, <2>4, DiscoverGood, BumpGood DEF IsUnknown, IsConnected, known
        <3>2. IsNotConnected(known(now), p)
            <4>1. now \in States /\ now.nodes \in [Peers -> Node]
                BY <2>2, Fields DEF Good
            <4>2. discover(now, p).nodes[p].conn = "NotConnected"
                BY <4>1 DEF discover, SetNode, NewNode, States
            <4>3. bump_last_connected_or_discovered(now, p).nodes[p].conn = now.nodes[p].conn
                BY <4>1 DEF bump_last_connected_or_discovered, States, Node
            <4>4. now.nodes[p].conn \in {"Unknown", "NotConnected"}
                BY <2>4, <4>1 DEF IsConnected, Node
            <4> QED BY <4>2, <4>3, <4>4 DEF IsNotConnected, IsUnknown, known
        <3>3. Accept(i) \in Message /\ Reject(i) \in Message
            BY DEF Accept, Reject, Message, MessagesOn
        <3>4. Good(accept_incoming(known(now), p))
            BY <3>1, <3>2, AcceptIncomingGood
        <3> QED BY <1>1, <2>1, <2>2, <3>1, <3>3, <3>4
    <2> QED BY <2>1, <2>3, <2>4, Zenon
<1>4. ASSUME NEW p \in Peers, dropped(p)
      PROVE  Good(data') /\ message_queue' \in Seq(Message)
    <2> DEFINE after(now) == IF IsConnected(now, p)
                             THEN disconnect(add_reputation(now, p, DisconnectChange), p)
                             ELSE now
    <2>1. PICK now \in update_time(data) : alloc_slots(after(now), reserved_only, message_queue)
        BY <1>4 DEF dropped
    <2>2. Good(now)
        BY <1>1, UpdateTimeGood
    <2>3. Good(after(now))
        BY <2>2, AddReputationGood, DisconnectAllGood, ReputationConstants DEF disconnect
    <2> QED BY <1>1, <2>1, <2>3, AllocSlotsGood
<1>5. ASSUME NEW S \in SUBSET Peers, discovered(S)
      PROVE  Good(data') /\ message_queue' \in Seq(Message)
    <2>1. \/ alloc_slots(DiscoverAll(data, S), reserved_only, message_queue)
          \/ data' = data /\ message_queue' = message_queue
        BY <1>5 DEF discovered
    <2>2. Good(DiscoverAll(data, S))
        BY <1>1, DiscoverAllGood
    <2> QED BY <1>1, <2>1, <2>2, AllocSlotsGood
<1>6. CASE debug_info
    BY <1>1, <1>6, UpdateTimeGood DEF debug_info
<1> QED BY <1>3, <1>4, <1>5, <1>6

LEMMA PollIInv ==
    ASSUME IInv, \/ \E m \in Message : PollReady(m)
                 \/ PollPending
                 \/ \E p \in Peers : ForgetAfterElapsed(p)
    PROVE  IInv'
<1>1. CASE \E m \in Message : PollReady(m)
    <2>1. Tail(message_queue) \in Seq(Message)
        BY <1>1 DEF PollReady, IInv, TypeOK
    <2> QED BY <1>1, <2>1, Zenon DEF PollReady, IInv, TypeOK, SlotsCounted
<1>2. CASE PollPending
    BY <1>2, Zenon DEF PollPending, IInv, TypeOK, SlotsCounted
<1>3. ASSUME NEW p \in Peers, ForgetAfterElapsed(p)
      PROVE  IInv'
    <2>1. data.nodes[p] \in Node /\ Good(data)
        BY Fields DEF IInv, TypeOK, SlotsCounted, Good
    <2> DEFINE m == [data.nodes[p] EXCEPT !.stale = TRUE]
    <2>2. m \in Node /\ m.conn = data.nodes[p].conn
        BY <2>1, Zenon DEF Node
    <2>3. data' = [data EXCEPT !.nodes[p] = m]
        BY <1>3 DEF ForgetAfterElapsed
    <2> HIDE DEF m
    <2>4. Good(data')
        BY <2>1, <2>2, <2>3, SetNodeGood
    <2> QED BY <1>3, <2>4 DEF ForgetAfterElapsed, IInv, TypeOK, SlotsCounted, Good
<1> QED BY <1>1, <1>2, <1>3

\* The slot counters of the PSM are exact and every value keeps its type, in
\* every state that any sequence of calls and Actions can reach: disconnect and
\* set_priority_group never make a counter go below zero.
THEOREM SlotAccounting == Spec => [](TypeOK /\ SlotsCounted)
<1>1. IInv /\ [Next]_vars => IInv'
    <2> SUFFICES ASSUME IInv, [Next]_vars PROVE IInv'
        OBVIOUS
    <2>1. CASE UNCHANGED vars
        BY <2>1 DEF vars, IInv, TypeOK, SlotsCounted
    <2> QED BY <2>1, HandleActionIInv, CallsIInv, PollIInv DEF Next
<1> QED BY <1>1, InitIInv, PTL DEF Spec, IInv
=============================================================================
