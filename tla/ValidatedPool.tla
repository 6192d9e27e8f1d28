--------------------------- MODULE ValidatedPool ---------------------------
(* ValidatedPool, Listener and PoolRotator (transaction-pool/graph).  The   *)
(* pool and the listener have a lock each, and the pool's is released       *)
(* before the listener's is taken: an operation on the pool takes a state s *)
(* with the fields pool, banned, lost and events, and appends to events     *)
(* what its thread has to tell the listener afterwards.  lost is history:   *)
(* what left the pool without being named in a result.                      *)
(* The chain and the runtime are external: a transaction is invalid where   *)
(* its tags are on the chain already.                                       *)
EXTENDS BasePool, BlockTree

CONSTANTS Body,                \* the extrinsics of each block
          ReadyLimit,          \* Options.ready
          FutureLimit,         \* Options.future
          RejectFuture,        \* Options.reject_future_transactions
          ExpectedSize,        \* EXPECTED_SIZE of the rotator
          MaxFinalityWatchers, \* MAX_FINALITY_WATCHERS
          Watched              \* the transactions that are submitted to be watched

-----------------------------------------------------------------------------
\* The runtime, as the pool sees it through validate_transaction.
OnChain(b) == UNION {Provides[h] : h \in UNION {Range(Body[a]) : a \in Range(ancestry[b])}}
IsValid(h, b) == Provides[h] \cap OnChain(b) = {}
RequiresAt(h, b) == Requires[h] \ OnChain(b)

-----------------------------------------------------------------------------
\* Listener: a sender is open, or dead when all its receivers were dropped.
Terminal == {"invalid", "usurped", "dropped", "finalized", "finality_timeout"}

Fire(l, hashes, event) ==
  LET live(h) == h \notin hashes \/ (l.watchers[h] = "open" /\ event \notin Terminal)
  IN [l EXCEPT !.watchers = [h \in Tx |-> IF live(h) THEN @[h] ELSE "none"],
               !.told = [h \in Tx |-> IF h \notin hashes THEN @[h]
                                      ELSE IF live(h) THEN event ELSE "none"]]

CreateWatcher(l, h) == [l EXCEPT !.watchers[h] = "open",
                                 !.told[h] = IF l.watchers[h] = "open" THEN @ ELSE "none"]

\* The Watcher of a failed submit_and_watch is dropped with its receiver.
DropWatcher(l, h) ==
  IF l.watchers[h] = "none" THEN l
  ELSE [l EXCEPT !.watchers[h] = "dead", !.told[h] = "none"]

FinalityOf(l, b) == {i \in DOMAIN l.finality : l.finality[i].block = b}
RemoveEntry(l, b) == SelectSeq(l.finality, LAMBDA e : e.block # b)

\* pruned, for each hash of a block.
Pruned(l, b, hashes) ==
  LET fired == Fire(l, hashes, "in_block")
      added == IF FinalityOf(l, b) # {}
               THEN [i \in DOMAIN l.finality |->
                       IF l.finality[i].block = b
                       THEN [block |-> b, txs |-> l.finality[i].txs \cup hashes]
                       ELSE l.finality[i]]
               ELSE Append(l.finality, [block |-> b, txs |-> hashes])
  IN IF hashes = {} THEN l
     ELSE IF Len(added) > MaxFinalityWatchers
     THEN [Fire(fired, Head(added).txs, "finality_timeout") EXCEPT !.finality = Tail(added)]
     ELSE [fired EXCEPT !.finality = added]

RetractBlock(l, b) ==
  [Fire(l, UNION {l.finality[i].txs : i \in FinalityOf(l, b)}, "retracted")
     EXCEPT !.finality = RemoveEntry(l, b)]

FinalizeBlock(l, b) ==
  [Fire(l, Range(Body[b]), "finalized") EXCEPT !.finality = RemoveEntry(l, b)]

\* What a thread tells the listener, in this order.  Of a transaction that is
\* never watched the listener knows nothing.
Event(hashes, event) ==
  IF hashes \cap Watched = {} THEN <<>>
  ELSE <<[txs |-> hashes \cap Watched, event |-> event]>>
FireAll(l, events) == FoldLeft(LAMBDA acc, e : Fire(acc, e.txs, e.event), l, events)

ChangeEventsMutant(ready, c) ==
  Event(ready, "ready") \o Event(c.failed, "invalid") \o Event(c.promoted, "ready")

\* fire_events
ChangeEvents(ready, c) ==
  Event(ready, "ready") \o Event(c.failed, "invalid") \o Event(c.removed, "usurped")
    \o Event(c.promoted, "ready")

-----------------------------------------------------------------------------
\* PoolRotator::ban: beyond twice the expected size any entries are evicted.
Ban(b, hashes) ==
  IF Cardinality(b \cup hashes) > 2 * ExpectedSize
  THEN kSubset(ExpectedSize, b \cup hashes) ELSE {b \cup hashes}

-----------------------------------------------------------------------------
\* submit_one: the possible results, each with whether it is Ok.
SubmitOne(s, h, at) ==
  IF ~IsValid(h, at)
  THEN {[s |-> [s EXCEPT !.banned = b], ok |-> FALSE] : b \in Ban(s.banned, {h})}
  ELSE {LET e == CASE o.status = "Ready"  -> ChangeEvents({h}, o.changes)
                   [] o.status = "Future" -> Event({h}, "future")
                   [] OTHER               -> <<>>
        IN [s |-> [s EXCEPT !.pool = o.pool, !.events = @ \o e, !.lost = @ \cup o.changes.lost],
            ok |-> o.status \in {"Ready", "Future"}]
        : o \in Import(s.pool, h, RequiresAt(h, at), RejectFuture)}

LimitPoolMutant(s) ==
  LET left == EnforceLimits(s.pool, ReadyLimit, Cardinality(Tx))
      gone == InPool(s.pool) \ InPool(left)
  IN {[s EXCEPT !.pool = left, !.banned = b, !.events = @ \o Event(gone, "dropped")]
      : b \in Ban(s.banned, gone)}

\* ValidatedPool::enforce_limits
LimitPool(s) ==
  LET left == EnforceLimits(s.pool, ReadyLimit, FutureLimit)
      gone == InPool(s.pool) \ InPool(left)
  IN {[s EXCEPT !.pool = left, !.banned = b, !.events = @ \o Event(gone, "dropped")]
      : b \in IF gone = {} THEN {s.banned} ELSE Ban(s.banned, gone)}

\* ValidatedPool::remove_invalid
Discard(s, hashes) ==
  LET left == RemoveSubtree(s.pool, hashes)
      gone == InPool(s.pool) \ InPool(left)
  IN {[s EXCEPT !.pool = left, !.banned = b, !.events = @ \o Event(gone, "invalid")]
      : b \in Ban(s.banned, hashes)}

\* The loop of resubmit that imports again what was removed; final is
\* final_statuses.
Over(f, g) == [h \in DOMAIN f \cup DOMAIN g |-> IF h \in DOMAIN g THEN g[h] ELSE f[h]]
All(hashes, event) == [h \in hashes |-> event]

RECURSIVE ImportAgain(_, _, _, _)
ImportAgain(p, txs, final, gone) ==
  IF txs = <<>> THEN {[pool |-> p, final |-> final, lost |-> gone]}
  ELSE UNION {
    LET h == Head(txs).hash
        c == o.changes
        f == CASE o.status = "Future" -> All({h}, "future")
               [] o.status = "Ready"  -> Over(Over(All({h} \cup c.promoted, "ready"),
                                                   All(c.failed, "invalid")),
                                              All(c.removed, "dropped"))
               [] OTHER               -> All({h}, "invalid")
    IN ImportAgain(o.pool, Tail(txs), Over(final, f), gone \cup c.lost)
    : o \in Import(p, Head(txs).hash, Head(txs).requires, FALSE)}

\* resubmit: takes out the updated transactions and what depends on them, puts
\* them back in any order, and tells the watchers of those that are not where
\* they are taken to have been: in the ready queue.
Resubmit(s, updated) ==
  LET left == RemoveSubtree(s.pool, DOMAIN updated)
      gone == InPool(s.pool) \ InPool(left)
      old(h) == IF h \in InReady(s.pool) THEN s.pool.ready.ready[h].requires
                ELSE s.pool.future.waiting[h].requires
      txs  == {[hash |-> h, requires |-> IF h \in DOMAIN updated THEN updated[h] ELSE old(h)]
               : h \in gone}
      results == UNION {ImportAgain(left, order, <<>>, {}) : order \in SetToSeqs(txs)}
  IN {LET dropped == IF RejectFuture THEN InFuture(r.pool) ELSE {}
          final   == Over(r.final, All(dropped, "dropped"))
          these(event) == {h \in DOMAIN final : final[h] = event
                                               /\ (event = "ready" => h \notin gone)}
      IN [s EXCEPT !.pool = [r.pool EXCEPT !.future = FutureRemove(@, dropped)],
                   !.lost = @ \cup r.lost,
                   !.events = @ \o Event(these("future"), "future")
                                \o Event(these("ready"), "ready")
                                \o Event(these("dropped"), "dropped")
                                \o Event(these("invalid"), "invalid")]
      : r \in results}

\* prune_tags, for the extrinsics of block b that were found in either queue.
PruneKnown(s, b, found) ==
  LET known == SelectSeq(Body[b], LAMBDA h : h \in found)
      tags  == FlattenSeq([i \in DOMAIN known |-> SetToSeq(Provides[known[i]])])
  IN {[s |-> [s EXCEPT !.pool = r.pool, !.lost = @ \cup r.changes.lost,
                       !.events = @ \o ChangeEvents({}, r.changes)],
       pruned |-> r.pruned]
      : r \in PruneTags(s.pool, tags)}
=============================================================================
