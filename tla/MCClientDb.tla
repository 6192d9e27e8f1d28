----------------------------- MODULE MCClientDb ------------------------------
(* A small instance of the client database: two forks at height 1, one of    *)
(* which forks again and grows to height 3.  A trie node is named by the     *)
(* blocks whose state holds it: each block has a root of its own, and five   *)
(* nodes are shared, deleted, or deleted and inserted again along the forks. *)
EXTENDS ClientDb

MCBlock == {"g", "a1", "b1", "x2", "y2", "z2", "w3"}

MCParent == [b \in MCBlock |->
   CASE b = "g" -> "none" [] b \in {"a1", "b1"} -> "g" [] b \in {"x2", "z2"} -> "a1"
     [] b = "y2" -> "b1" [] b = "w3" -> "z2"]

MCNodes == {{b} : b \in MCBlock}
             \cup {MCBlock, MCBlock \ {"a1"}, {"g", "b1", "y2"}, {"a1", "z2", "y2"},
                   {"g", "w3", "z2"}}

Constrained(n) == [kind |-> "constrained", max_blocks |-> n]
Archive == [kind |-> "archive", max_blocks |-> 0]
ArchiveCanonical == [kind |-> "archive_canonical", max_blocks |-> 0]

\* A pruning node with a reader, and nodes of every mode that meet faults.
MCSetups ==
  {[mode |-> Constrained(1), readers |-> {1}, faults |-> 0],
   [mode |-> Constrained(1), readers |-> {}, faults |-> 1],
   [mode |-> Archive, readers |-> {}, faults |-> 1],
   [mode |-> ArchiveCanonical, readers |-> {1}, faults |-> 1]}

\* A pruning node that nothing happens to.
MCFaultless == {[mode |-> Constrained(1), readers |-> {}, faults |-> 0]}
=============================================================================
