------------------------------ MODULE BasePool ------------------------------
(* The two queues of the transaction pool and the pool of both            *)
(* (transaction-pool/graph: future.rs, ready.rs and base_pool.rs).         *)
EXTENDS Integers, Sequences, FiniteSets, SequencesExt, FiniteSetsExt, Functions

-----------------------------------------------------------------------------
(* FutureTransactions (transaction-pool/graph/src/future.rs): transactions  *)
(* that wait for tags nobody in the ready queue provides.  The record holds *)
(* waiting and wanted_tags; order lists the waiting hashes by imported_at.  *)
(* What one call to the runtime said of a transaction is the set of the    *)
(* tags it requires; what it provides never changes.                       *)

CONSTANTS Tx,        \* the hashes of the transactions
          Provides,  \* the tags each transaction provides
          Requires,  \* the tags each transaction requires at genesis
          Priority   \* its priority

Tag == UNION {Provides[h] \cup Requires[h] : h \in Tx}

\* A nonce is never its own predecessor, and NoTagsProvided is an error.
ASSUME TagAssumption ==
  \A h \in Tx : /\ Provides[h] # {}
                /\ Provides[h] \cap Requires[h] = {}
                /\ Priority[h] \in Nat

EmptyFuture == [waiting |-> <<>>, order |-> <<>>, wanted |-> [t \in Tag |-> {}]]

MissingMutant(requires, provided, pruned) == requires \ pruned

\* WaitingTransaction::new
Missing(requires, provided, pruned) == requires \ (provided \cup pruned)

FutureImport(f, h, requires, missing) ==
  [waiting |-> [x \in DOMAIN f.waiting \cup {h} |->
                  IF x = h THEN [requires |-> requires, missing |-> missing]
                  ELSE f.waiting[x]],
   order   |-> Append(f.order, h),
   wanted  |-> [t \in Tag |-> IF t \in missing THEN f.wanted[t] \cup {h}
                              ELSE f.wanted[t]]]

Without(f, gone, waiting, wanted) ==
  [waiting |-> [x \in DOMAIN waiting \ gone |-> waiting[x]],
   order   |-> SelectSeq(f.order, LAMBDA x : x \notin gone),
   wanted  |-> wanted]

\* satisfy_tags: the queue left over, and what became ready.
SatisfyTags(f, tags) ==
  LET woken   == UNION {f.wanted[t] : t \in tags}
      waiting == [x \in DOMAIN f.waiting |->
                    IF x \in woken THEN [f.waiting[x] EXCEPT !.missing = @ \ tags]
                    ELSE f.waiting[x]]
      became  == {x \in woken : waiting[x].missing = {}}
  IN [future |-> Without(f, became, waiting,
                         [t \in Tag |-> IF t \in tags THEN {} ELSE f.wanted[t]]),
      became |-> {[hash |-> x, requires |-> waiting[x].requires] : x \in became}]

\* remove, and the removal of everything by clear.
FutureRemove(f, hashes) ==
  LET gone == hashes \cap DOMAIN f.waiting
  IN Without(f, gone, f.waiting,
             [t \in Tag |-> f.wanted[t] \ {x \in gone : t \in f.waiting[x].missing}])

-----------------------------------------------------------------------------
(* ReadyTransactions and BestIterator (transaction-pool/graph/src/ready.rs).*)
(* A queue is a record: ready maps each hash to what it requires, to how    *)
(* often each other hash is in its list of unlocks, and to requires_offset; *)
(* order lists the hashes by insertion_id; provided is provided_tags; best  *)
(* are the hashes whose present entry is in the set best; stale those whose *)
(* entry was left there by prune_tags.  All transactions are valid for the  *)
(* same time, so priority and then insertion_id order the set best.         *)

EmptyReady ==
  [ready |-> <<>>, order |-> <<>>, provided |-> <<>>, best |-> {}, stale |-> {}]

Unlocked(q, h) == {u \in DOMAIN q.ready : q.ready[h].unlocks[u] > 0}

\* What the loop of remove_subtree_with_tag_filter reaches: it goes on from a
\* transaction that takes a tag away with it.
Subtree(q, roots, filter) ==
  LET reach[n \in 0 .. Cardinality(Tx)] ==
        IF n = 0 THEN roots \cap DOMAIN q.ready
        ELSE reach[n - 1] \cup
             UNION {Unlocked(q, h) : h \in {x \in reach[n - 1] : Provides[x] \ filter # {}}}
  IN reach[Cardinality(Tx)]

\* The code means to take a removed hash off the unlocks of its providers, but
\* the name is shadowed: it looks for the hash of the provider itself, which is
\* never there.  The unlocks of what stays are unchanged.
RemoveSubtreeWithTagFilter(q, roots, filter) ==
  LET gone == Subtree(q, roots, filter)
      tags == UNION {Provides[h] : h \in gone} \ filter
  IN [q EXCEPT !.ready = Restrict(@, DOMAIN @ \ gone),
               !.order = SelectSeq(@, LAMBDA x : x \notin gone),
               !.provided = Restrict(@, DOMAIN @ \ tags),
               !.best = @ \ gone]

\* replace_previous: what has to go, and whether it may.
Replaced(q, h) == {q.provided[t] : t \in Provides[h] \cap DOMAIN q.provided}
TooLowPriority(q, h) ==
  /\ Replaced(q, h) # {}
  /\ MapThenSumSet(LAMBDA r : Priority[r], Replaced(q, h)) >= Priority[h]
Inherited(q, h) ==
  [u \in Tx |-> MapThenSumSet(LAMBDA r : q.ready[r].unlocks[u], Replaced(q, h))]

\* import: the queue and the transactions that were replaced.
ReadyImport(q, h, requires) ==
  LET left     == RemoveSubtreeWithTagFilter(q, Replaced(q, h), Provides[h])
      inside   == requires \cap DOMAIN left.provided
      linked   == [p \in DOMAIN left.ready |->
                     [left.ready[p] EXCEPT
                        !.unlocks[h] = @ + Cardinality({t \in inside : left.provided[t] = p})]]
      entry    == [requires |-> requires, unlocks |-> Inherited(q, h),
                   offset |-> Cardinality(requires \ inside)]
  IN [queue   |-> [ready    |-> [x \in DOMAIN linked \cup {h} |->
                                   IF x = h THEN entry ELSE linked[x]],
                   order    |-> Append(left.order, h),
                   provided |-> [t \in DOMAIN left.provided \cup Provides[h] |->
                                   IF t \in Provides[h] THEN h ELSE left.provided[t]],
                   best     |-> IF inside = {} THEN left.best \cup {h} ELSE left.best,
                   stale    |-> left.stale],
      removed |-> DOMAIN q.ready \ DOMAIN left.ready]

\* Forgets what the pruned transaction unlocks.
PruneOneMutant(q, h) ==
  [queue |-> [ready    |-> Restrict(q.ready, DOMAIN q.ready \ {h}),
              order    |-> SelectSeq(q.order, LAMBDA x : x # h),
              provided |-> Restrict(q.provided, DOMAIN q.provided \ Provides[h]),
              best     |-> q.best \ {h},
              stale    |-> q.stale],
   previous |-> {}]

\* One round of prune_tags for the transaction h: the queue without it, and the
\* previous transactions, which are pruned as well once they unlock nothing.
PruneOne(q, h) ==
  LET tx     == q.ready[h]
      links(p) == Cardinality({t \in tx.requires \cap DOMAIN q.provided : q.provided[t] = p})
      left   == [p \in DOMAIN q.ready \ {h} |->
                   [q.ready[p] EXCEPT !.unlocks[h] = Max({0, @ - links(p)}),
                                      !.offset = @ + tx.unlocks[p]]]
  IN [queue |-> [ready    |-> left,
                 order    |-> SelectSeq(q.order, LAMBDA x : x # h),
                 provided |-> Restrict(q.provided, DOMAIN q.provided \ Provides[h]),
                 best     |-> (q.best \ {h}) \cup
                              {p \in DOMAIN left :
                                 /\ q.ready[p].offset < Cardinality(left[p].requires)
                                 /\ left[p].offset >= Cardinality(left[p].requires)},
                 stale    |-> q.stale \cup (q.best \cap {h})],
      previous |-> {p \in DOMAIN left : links(p) > 0 /\ \A u \in Tx : left[p].unlocks[u] = 0}]

\* The loop of prune_tags over its stack of tags.
RECURSIVE PruneLoop(_, _, _)
PruneLoop(q, tags, pruned) ==
  IF tags = <<>> THEN [queue |-> q, pruned |-> pruned]
  ELSE IF Last(tags) \notin DOMAIN q.provided THEN PruneLoop(q, Front(tags), pruned)
  ELSE LET h   == q.provided[Last(tags)]
           one == PruneOne(q, h)
       IN PruneLoop(one.queue,
                    Front(tags) \o SetToSeq(UNION {Provides[p] : p \in one.previous}),
                    pruned \cup {h})

ReadyPruneTag(q, tag) == PruneLoop(q, <<tag>>, {})

-----------------------------------------------------------------------------
\* BestIterator::next, until it returns None.  it.awaiting holds how many
\* requirements of a transaction the returned ones satisfied.

Better(q, a, b) ==
  \/ Priority[a] > Priority[b]
  \/ /\ Priority[a] = Priority[b]
     /\ \A i, j \in DOMAIN q.order : q.order[i] = a /\ q.order[j] = b => i <= j

\* best_or_awaiting for each hash in unlocks, as often as it is there.
Unlock(q, it, h) ==
  LET more(u) == (IF u \in DOMAIN it.awaiting THEN it.awaiting[u] ELSE q.ready[u].offset)
                   + q.ready[h].unlocks[u]
      full    == {u \in Unlocked(q, h) : more(u) >= Cardinality(q.ready[u].requires)}
      waits   == (DOMAIN it.awaiting \cup Unlocked(q, h)) \ full
  IN [best     |-> (it.best \ {h}) \cup full,
      stale    |-> it.stale,
      awaiting |-> [u \in waits |-> IF u \in Unlocked(q, h) THEN more(u) ELSE it.awaiting[u]],
      out      |-> Append(it.out, h)]

RECURSIVE Iterate(_, _)
Iterate(q, it) ==
  IF it.stale # {} THEN
    LET h == CHOOSE x \in it.stale : TRUE
        next == Unlock(q, [it EXCEPT !.stale = @ \ {h}], h)
    IN Iterate(q, [next EXCEPT !.best = @ \cup (it.best \cap {h})])
  ELSE IF it.best = {} THEN it.out
  ELSE LET h == CHOOSE x \in it.best : \A y \in it.best : Better(q, x, y)
       IN Iterate(q, Unlock(q, it, h))

\* ReadyTransactions::get: entries of the set best that are no longer in the
\* map are skipped.
Get(q) ==
  Iterate(q, [best |-> q.best, stale |-> q.stale \cap DOMAIN q.ready,
              awaiting |-> <<>>, out |-> <<>>])

-----------------------------------------------------------------------------
(* BasePool (transaction-pool/graph/src/base_pool.rs): the two queues and   *)
(* the tags that were pruned by the last two blocks.  Every operation runs  *)
(* under the lock of the pool.  The sets the code iterates over have no     *)
(* order, so an operation that imports has a set of possible results.       *)

RecentlyPrunedTags == 2

EmptyPool == [future |-> EmptyFuture, ready |-> EmptyReady,
              recent |-> [i \in 0 .. RecentlyPrunedTags - 1 |-> {}], index |-> 0]

InFuture(p) == DOMAIN p.future.waiting
InReady(p) == DOMAIN p.ready.ready
InPool(p) == InFuture(p) \cup InReady(p)

\* Results of an import.  lost are the transactions that leave the pool without
\* being named in the result.
Nothing == [promoted |-> {}, failed |-> {}, removed |-> {}, lost |-> {}]
Outcome(status, pool, changes) == [status |-> status, pool |-> pool, changes |-> changes]

\* The loop of import_to_ready over the stack to_import; first is the hash the
\* call is about.
RECURSIVE ImportLoop(_, _, _, _, _)
ImportLoop(p, stack, first, started, c) ==
  IF stack = <<>>
  THEN IF first \in c.removed
       THEN LET left == RemoveSubtreeWithTagFilter(p.ready, c.promoted, {})
            IN {Outcome("CycleDetected", [p EXCEPT !.ready = left],
                        [Nothing EXCEPT !.lost = c.promoted \cup c.failed \cup c.removed
                                          \cup (DOMAIN p.ready.ready \ DOMAIN left.ready)])}
       ELSE {Outcome("Ready", p, c)}
  ELSE LET tx   == Last(stack)
           woken == SatisfyTags(p.future, Provides[tx.hash])
           q    == [p EXCEPT !.future = woken.future]
           done == ReadyImport(p.ready, tx.hash, tx.requires)
       IN UNION {
            LET rest == Front(stack) \o batch
            IN IF ~TooLowPriority(p.ready, tx.hash)
               THEN ImportLoop([q EXCEPT !.ready = done.queue], rest, first, TRUE,
                      [c EXCEPT !.promoted = IF started THEN @ \cup {tx.hash} ELSE @,
                                !.removed = @ \cup done.removed])
               ELSE IF started
               THEN ImportLoop(q, rest, first, TRUE, [c EXCEPT !.failed = @ \cup {tx.hash}])
               ELSE {Outcome("TooLowPriority", q,
                             [Nothing EXCEPT !.lost = {x.hash : x \in woken.became}])}
            : batch \in SetToSeqs(woken.became)}

ImportToReady(p, h, requires) ==
  ImportLoop(p, <<[hash |-> h, requires |-> requires]>>, h, FALSE, Nothing)

Import(p, h, requires, reject) ==
  LET missing == Missing(requires, DOMAIN p.ready.provided, UNION Range(p.recent))
  IN IF h \in InPool(p) THEN {Outcome("AlreadyImported", p, Nothing)}
     ELSE IF missing = {} THEN ImportToReady(p, h, requires)
     ELSE IF reject THEN {Outcome("RejectedFuture", p, Nothing)}
     ELSE {Outcome("Future",
                   [p EXCEPT !.future = FutureImport(@, h, requires, missing)], Nothing)}

RemoveSubtree(p, hashes) ==
  [p EXCEPT !.ready = RemoveSubtreeWithTagFilter(@, hashes, {}),
            !.future = FutureRemove(@, hashes)]

\* enforce_limits: the oldest transaction goes, with what depends on it, until
\* both queues are within their limits.
RECURSIVE EnforceLimits(_, _, _)
EnforceLimits(p, readyLimit, futureLimit) ==
  CASE Cardinality(InReady(p)) > readyLimit ->
         EnforceLimits(RemoveSubtree(p, {Head(p.ready.order)}), readyLimit, futureLimit)
    [] Cardinality(InReady(p)) <= readyLimit /\ Cardinality(InFuture(p)) > futureLimit ->
         EnforceLimits(RemoveSubtree(p, {Head(p.future.order)}), readyLimit, futureLimit)
    [] OTHER -> p

\* The first loop of prune_tags, over the tags of a block.
PruneStep(acc, tag) ==
  LET woken == SatisfyTags(acc.pool.future, {tag})
      done  == ReadyPruneTag(acc.pool.ready, tag)
  IN [pool   |-> [acc.pool EXCEPT !.future = woken.future, !.ready = done.queue,
                                  !.recent[acc.slot] = @ \cup {tag}],
      slot   |-> acc.slot,
      pruned |-> acc.pruned \cup done.pruned,
      woken  |-> acc.woken \o SetToSeq(woken.became)]

Merge(c, d) == [x \in DOMAIN c |-> c[x] \cup d[x]]

\* The second loop: promotes what was waiting for the tags.
RECURSIVE Promote(_, _, _)
Promote(p, txs, c) ==
  IF txs = <<>> THEN {[pool |-> p, changes |-> c]}
  ELSE UNION {Promote(o.pool, Tail(txs),
                Merge(c, IF o.status = "Ready"
                         THEN [o.changes EXCEPT !.promoted = @ \cup {Head(txs).hash}]
                         ELSE [o.changes EXCEPT !.failed = @ \cup {Head(txs).hash}]))
              : o \in ImportToReady(p, Head(txs).hash, Head(txs).requires)}

\* prune_tags: the set under the index is cleared and filled anew.
PruneTags(p, tags) ==
  LET start == [p EXCEPT !.index = (@ + 1) % RecentlyPrunedTags, !.recent[p.index] = {}]
      acc   == FoldLeft(PruneStep, [pool |-> start, slot |-> p.index, pruned |-> {}, woken |-> <<>>], tags)
  IN {[pool |-> r.pool, changes |-> r.changes, pruned |-> acc.pruned]
      : r \in Promote(acc.pool, acc.woken, Nothing)}

=============================================================================
