------------------------------ MODULE BlockTree ------------------------------
(* The tree of block headers and the state of each block.                   *)
(*                                                                           *)
(* A trie node is named by the set of blocks whose state holds it, so with  *)
(* Nodes = SUBSET Block every pattern of insertions and deletions along     *)
(* every branch is present at once.  {b} is the state root of b: every      *)
(* block changes its state, so no other state holds it.                     *)
EXTENDS Integers, Sequences, FiniteSets, SequencesExt

CONSTANTS Block,     \* the hashes of all blocks that can be imported
          Genesis,   \* the block Client::new builds
          Default,   \* the hash Default::default(): "no block"
          Parent,    \* the parent hash in each header
          Nodes      \* the trie nodes

ASSUME TreeAssumption ==
  /\ IsFiniteSet(Block)
  /\ Genesis \in Block
  /\ Default \notin Block
  /\ Parent \in [Block -> Block \cup {Default}]
  /\ \A b \in Block : Parent[b] = Default <=> b = Genesis
  /\ Nodes \subseteq SUBSET Block
  /\ \A b \in Block : {b} \in Nodes

blockNumber[b \in Block] == IF b = Genesis THEN 0 ELSE blockNumber[Parent[b]] + 1
number == [b \in Block |-> blockNumber[b]]

\* The state of b, and the change set its execution hands to the database:
\* the nodes with a positive and with a negative reference count.
State(b) == {n \in Nodes : b \in n}
Inserted(b) == {n \in State(b) : Parent[b] \notin n}
Deleted(b) == {n \in Nodes : Parent[b] \in n /\ b \notin n}

-----------------------------------------------------------------------------
\* Routes through the tree (sp_blockchain::tree_route).

\* b and its ancestors, the highest first; and those above height n.
ancestry[b \in Block] == IF b = Genesis THEN <<b>> ELSE <<b>> \o ancestry[Parent[b]]
Branch(b, n) == SubSeq(ancestry[b], 1, number[b] - n)

\* Both ends step up to the same height and then together until they meet.
meet[p \in Block \X Block] ==
  LET from == p[1]
      to == p[2]
  IN CASE from = to                    -> to
       [] number[to] > number[from]    -> meet[<<from, Parent[to]>>]
       [] number[from] > number[to]    -> meet[<<Parent[from], to>>]
       [] OTHER                        -> meet[<<Parent[from], Parent[to]>>]

Common(from, to) == meet[<<from, to>>]
Retracted(from, to) == Branch(from, number[Common(from, to)])
Enacted(from, to) == Reverse(Branch(to, number[Common(from, to)]))

\* a is b or one of its ancestors.
Ancestors == [b \in Block |-> Range(ancestry[b])]
IsAncestor(a, b) == a \in Ancestors[b]
=============================================================================
