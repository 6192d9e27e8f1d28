-------------------------- MODULE PeersetMessages ---------------------------
(* The messages of the peer set manager to its owner: enum Message of      *)
(* client/peerset/src/lib.rs.                                              *)
EXTENDS Naturals, Sequences, FiniteSets

Connect(p) == [type |-> "Connect", peer |-> p]
Drop(p)    == [type |-> "Drop", peer |-> p]
Accept(i)  == [type |-> "Accept", index |-> i]
Reject(i)  == [type |-> "Reject", index |-> i]

MessagesOn(peers, indices) ==
    [type : {"Connect", "Drop"}, peer : peers] \cup [type : {"Accept", "Reject"}, index : indices]

\* The ways to go through a set, each element once, and through any part of it:
\* the order is that of a hash map.
Orders(S) == {f \in [1 .. Cardinality(S) -> S] : \A i, j \in DOMAIN f : f[i] = f[j] => i = j}

OrdersOfParts(S) == UNION {Orders(T) : T \in SUBSET S}

\* One message for each peer of a sequence of peers.
Connects(s) == [i \in 1 .. Len(s) |-> Connect(s[i])]
Drops(s)    == [i \in 1 .. Len(s) |-> Drop(s[i])]
=============================================================================
