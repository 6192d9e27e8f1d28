------------------------------- MODULE ForkTree -------------------------------
(* The fork tree (utils/fork-tree): values kept at blocks of several         *)
(* branches and finalized in order.                                          *)
(*                                                                           *)
(* A tree is [up, best]: up maps each block in the tree to its parent in the *)
(* tree (Default for a root), best is best_finalized_number (NoNumber for    *)
(* None).  Nodes of one branch are imported in order, so siblings are never  *)
(* on one branch and at most one of them is an ancestor of a given hash: the *)
(* order rebalance() gives them only says how long a search takes.           *)
(* Predicates on the value of a node are passed as the set of the blocks     *)
(* whose value satisfies them.                                               *)
EXTENDS BlockTree

NoNumber == -1

EmptyTree == [up |-> <<>>, best |-> NoNumber]

InTree(t) == DOMAIN t.up
Roots(t) == {n \in InTree(t) : t.up[n] = Default}
Children(t, n) == {c \in InTree(t) : t.up[c] = n}

\* is_descendent_of(a, b), which is_descendent_of of client/api builds: b is a
\* proper descendant of a.
IsDescendentOf(a, b) == a # b /\ IsAncestor(a, b)

\* The node and all the nodes below it.
Subtree(t, n) == {m \in InTree(t) : n = m \/ IsDescendentOf(n, m)}

\* The tree after the roots in gone are replaced by their children, and the
\* roots in cut are dropped with everything below them.
Reroot(t, gone, cut) ==
  LET kept == InTree(t) \ (gone \cup UNION {Subtree(t, r) : r \in cut})
  IN [up |-> [n \in kept |-> IF t.up[n] \in gone THEN Default ELSE t.up[n]],
      best |-> t.best]

Reverts(t, n) == t.best # NoNumber /\ n <= t.best

-----------------------------------------------------------------------------
\* ForkTree::import: [tree, err].  The node goes below its deepest ancestor in
\* the tree, and becomes a root if it has none.
Import(t, hash) ==
  LET above == {n \in InTree(t) : IsDescendentOf(n, hash)}
      deepest == {n \in above : \A m \in above : number[m] <= number[n]}
      parent == IF above = {} THEN Default ELSE CHOOSE n \in deepest : TRUE
  IN CASE Reverts(t, number[hash]) -> [tree |-> t, err |-> "Revert"]
       [] hash \in InTree(t)       -> [tree |-> t, err |-> "Duplicate"]
       [] OTHER -> [tree |-> [t EXCEPT !.up = [n \in InTree(t) \cup {hash} |->
                                IF n = hash THEN parent ELSE t.up[n]]],
                    err |-> "none"]

\* ForkTree::finalize_root: the tree when hash is one of its roots.
FinalizeRoot(t, hash) ==
  [Reroot(t, {hash}, Roots(t) \ {hash}) EXCEPT !.best = number[hash]]

\* ForkTree::finalize_with_ancestors: [tree, err].  Opens the roots that are
\* ancestors of hash, keeps its descendants, drops the others; the children of
\* an opened root are looked at in their turn.
FinalizeWithAncestors(t, hash) ==
  LET n == number[hash]
      opened == {m \in InTree(t) : IsAncestor(m, hash)}
      off == {m \in InTree(t) : ~IsAncestor(m, hash) /\ ~IsDescendentOf(hash, m)}
      kept == InTree(t) \ (opened \cup off)
  IN CASE Reverts(t, n)     -> [tree |-> t, err |-> "Revert"]
       [] hash \in Roots(t) -> [tree |-> FinalizeRoot(t, hash), err |-> "none"]
       [] OTHER -> [tree |-> [up |-> [m \in kept |->
                                 IF t.up[m] \in kept THEN t.up[m] ELSE Default],
                              best |-> n],
                    err |-> "none"]

-----------------------------------------------------------------------------
\* The nodes satisfying ok that are hash or above it.
Passing(t, hash, ok) == {n \in InTree(t) \cap ok : IsAncestor(n, hash)}

\* Finalizing hash at node n would pass over a child of n.
PassesChild(t, n, hash) ==
  \E c \in Children(t, n) : number[c] <= number[hash] /\ IsDescendentOf(c, hash)

\* ForkTree::finalizes_any_with_descendent_if: the search is in pre-order, so it
\* stops at the highest matching node of the branch.  "root" is Some(true),
\* "inner" Some(false), "none" None; the others are errors.
FinalizesAny(t, hash, ok) ==
  LET found == Passing(t, hash, ok)
      first == CHOOSE n \in found : \A m \in found : number[n] <= number[m]
  IN CASE Reverts(t, number[hash])      -> "Revert"
       [] found = {}                    -> "none"
       [] PassesChild(t, first, hash)   -> "UnfinalizedAncestor"
       [] first \in Roots(t)            -> "root"
       [] OTHER                         -> "inner"

\* Mutant: the root at the finalized height goes with the others.
RetainedMutant(r, hash) ==
  (number[r] > number[hash] /\ IsDescendentOf(hash, r)) \/ IsDescendentOf(r, hash)

\* A root stays when it is below hash, is hash, or is above it and still waits.
Retained(r, hash) ==
  \/ number[r] > number[hash] /\ IsDescendentOf(hash, r)
  \/ r = hash
  \/ IsDescendentOf(r, hash)

\* ForkTree::finalize_with_descendent_if: [tree, err, changed, node].  Only a root is
\* finalized; afterwards the roots that are neither above nor below nor equal to
\* hash are dropped.
FinalizeWithDescendentIf(t, hash, ok) ==
  LET n == number[hash]
      found == Passing(t, hash, ok) \cap Roots(t)
      node == IF found = {} THEN Default ELSE CHOOSE r \in found : TRUE
      opened == IF node = Default THEN t
                ELSE Reroot(t, {node}, Roots(t) \ {node})
      cut == {r \in Roots(opened) : ~Retained(r, hash)}
      fail(e) == [tree |-> t, err |-> e, changed |-> FALSE, node |-> Default]
  IN CASE Reverts(t, n) -> fail("Revert")
       [] node # Default /\ PassesChild(t, node, hash) -> fail("UnfinalizedAncestor")
       [] OTHER -> [tree |-> [Reroot(opened, {}, cut) EXCEPT !.best = n],
                    err |-> "none",
                    changed |-> node # Default \/ cut # {},
                    node |-> node]
=============================================================================
