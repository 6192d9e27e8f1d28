---------------------------- MODULE AuthoritySet ----------------------------
(* The authorities of the finality gadget and their pending changes         *)
(* (client/finality-grandpa/src/authorities.rs, consensus_changes.rs).      *)
(*                                                                           *)
(* A change is named by the block whose digest signals it, and so is the set *)
(* of authorities it hands over to; Genesis names the first set.  An         *)
(* authority set is [auth, set_id, standard, forced]: the current            *)
(* authorities, the set id, the fork tree of the standard changes, and the   *)
(* forced ones.  At most one forced change lies on any branch, so the order  *)
(* in which they are kept never decides which of them applies.               *)
EXTENDS ForkTree

CONSTANT Signal   \* the change each block's digest carries

Kinds == {"none", "standard", "forced"}

ASSUME SignalAssumption ==
  Signal \in [Block -> [kind : Kinds, delay : Nat, median : Nat]]

EffectiveNumber(c) == number[c] + Signal[c].delay

GenesisSet == [auth |-> Genesis, set_id |-> 0, standard |-> EmptyTree, forced |-> {}]

Changed(set, err) == [set |-> set, err |-> err]

AddStandardChange(s, c) ==
  LET res == Import(s.standard, c)
  IN Changed([s EXCEPT !.standard = res.tree], res.err)

AddForcedChange(s, c) ==
  IF \E d \in s.forced : IsAncestor(d, c)
  THEN Changed(s, "UnfinalizedAncestor")
  ELSE Changed([s EXCEPT !.forced = @ \cup {c}], "none")

AddPendingChange(s, c) ==
  IF Signal[c].kind = "forced" THEN AddForcedChange(s, c) ELSE AddStandardChange(s, c)

PendingChanges(s) == InTree(s.standard) \cup s.forced

\* current_limit: the lowest effective number at or above min among the roots.
CurrentLimit(s, min) ==
  LET due == {n \in {EffectiveNumber(c) : c \in Roots(s.standard)} : n >= min}
  IN IF due = {} THEN NoNumber ELSE CHOOSE n \in due : \A m \in due : n <= m

\* apply_forced_changes: the change that the import of hash makes effective, and the
\* set it leads to, with no pending changes at all.
ForcedAt(s, hash) ==
  {c \in s.forced : EffectiveNumber(c) = number[hash] /\ IsDescendentOf(c, hash)}

\* Mutant: the set id stays.
ForcedSetMutant(s, c) ==
  [auth |-> c, set_id |-> s.set_id, standard |-> EmptyTree, forced |-> {}]

ForcedSet(s, c) ==
  [auth |-> c, set_id |-> s.set_id + 1, standard |-> EmptyTree, forced |-> {}]

\* The set after the standard change that res says is finalized, if any.
Applied(s, res, enacted) ==
  [set |-> [s EXCEPT !.standard = res.tree,
                     !.forced = IF res.changed THEN {} ELSE @,
                     !.auth = IF enacted THEN res.node ELSE @,
                     !.set_id = IF enacted THEN @ + 1 ELSE @],
   err |-> res.err, changed |-> res.changed, enacted |-> enacted]

AppliedFrom(s, res) == Applied(s, res, res.node # Default)

\* Mutant: a change counts as reached one block late.
ApplyStandardChangesMutant(s, hash) ==
  AppliedFrom(s, FinalizeWithDescendentIf(s.standard, hash,
                   {c \in InTree(s.standard) : EffectiveNumber(c) < number[hash]}))

\* apply_standard_changes: [set, err, changed, enacted], on the finalization of hash.
ApplyStandardChanges(s, hash) ==
  AppliedFrom(s, FinalizeWithDescendentIf(s.standard, hash,
                   {c \in InTree(s.standard) : EffectiveNumber(c) <= number[hash]}))

\* enacts_standard_change: whether finalizing hash makes a change effective.
EnactsStandardChange(s, hash) ==
  FinalizesAny(s.standard, hash,
               {c \in InTree(s.standard) : EffectiveNumber(c) = number[hash]})

-----------------------------------------------------------------------------
\* ConsensusChanges: the blocks that changed cached consensus data and were
\* imported without a justification.  finalize takes those up to hash away; canon is
\* the block of the best chain at a height.
UpTo(changes, hash) == {b \in changes : number[b] <= number[hash]}

\* canonical_at_height for a finalized base.
CanonicalAtHeight(best, hash, n) ==
  CASE n = number[hash]  -> {hash}
    [] n > number[best]  -> {}
    [] OTHER             -> {b \in Range(ancestry[best]) : number[b] = n}

FinalizesChange(changes, best, hash) ==
  \E b \in UpTo(changes, hash) : b \in CanonicalAtHeight(best, hash, number[b])
=============================================================================
