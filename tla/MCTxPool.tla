------------------------------ MODULE MCTxPool ------------------------------
(* t1 and u1 compete for the tag p; t1 also provides r, as does w; t2 needs *)
(* both and t3 needs t2.  Block a1 is one fork, b1 and b2 are the other.    *)
EXTENDS TxPool

MCTx == {"t1", "u1", "w", "t2", "t3"}
MCProvides == [t1 |-> {"p", "r"}, u1 |-> {"p"}, w |-> {"r"}, t2 |-> {"q"}, t3 |-> {"s"}]
MCRequires == [t1 |-> {}, u1 |-> {}, w |-> {}, t2 |-> {"p", "r"}, t3 |-> {"q"}]
MCPriority == [t1 |-> 1, u1 |-> 2, w |-> 1, t2 |-> 1, t3 |-> 1]

MCBlock == {"g", "a1", "b1", "b2"}
MCParent == [g |-> "none", a1 |-> "g", b1 |-> "g", b2 |-> "b1"]
MCBody == [g |-> <<>>, a1 |-> <<"t1">>, b1 |-> <<"w">>, b2 |-> <<"u1", "t2">>]
\* Two submissions and a reorganisation; three and a growing chain; two blocks of
\* different forks, and then all of them, maintained at once; more submissions, and
\* a removal, around a single block.
Budget(submits, removals, atOnce, blocks, finals) ==
  [submits |-> submits, removals |-> removals, tasks |-> atOnce, blocks |-> blocks,
   finals |-> finals]
MCBudgets == {Budget(2, 0, 1, MCBlock, {}), Budget(3, 0, 1, {"b1", "b2"}, {}),
              Budget(2, 0, 2, {"a1", "b1"}, {"a1"}), Budget(1, 0, 2, MCBlock, {"a1"}),
              Budget(4, 1, 1, {"a1"}, {})}
MCNodes == {{b} : b \in MCBlock}
=============================================================================
