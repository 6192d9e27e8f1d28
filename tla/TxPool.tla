------------------------------- MODULE TxPool -------------------------------
(* Pool, BasicPool and the background revalidation worker                   *)
(* (transaction-pool) around ValidatedPool.  Submissions, the futures of    *)
(* maintain and the worker run concurrently.  A task holds one lock at a    *)
(* time, the pool's or the listener's, and none while the runtime verifies: *)
(* what it has to tell the listener, or was told by the runtime, may be out *)
(* of date when it goes on.                                                 *)
EXTENDS ValidatedPool

CONSTANTS BatchSize,   \* BACKGROUND_REVALIDATION_BATCH_SIZE
          MaxPending,  \* bound: submissions at a time
          Budgets      \* bounds: what may happen, see budget

VARIABLES pool,       \* ValidatedPool.pool
          banned,     \* the keys of PoolRotator.banned_until
          listener,   \* the Listener
          chain,      \* the blocks imported, the best and the finalized one
          tasks,      \* the submissions, removals and futures of maintain that run
          queue,      \* messages to the revalidation worker
          worker,     \* RevalidationWorker: best_block, members, the batch, its events
          lost,       \* history: what left the pool without being named
          late,       \* history: what was last told Ready or Future after it had left
          budget      \* what may still happen

vars == <<pool, banned, listener, chain, tasks, queue, worker, lost, late, budget>>

S0 == [pool |-> pool, banned |-> banned, lost |-> lost, events |-> <<>>]
Becomes(s) == /\ pool' = s.pool
              /\ banned' = s.banned
              /\ lost' = s.lost

\* A task: the block it is for, the transactions that its phase is about, the
\* blocks still to be retracted, whether one of its imports was Ok, whether the
\* watcher it made is the only one, and what it has to tell the listener.
Task(kind, phase, b, hashes) ==
  [kind |-> kind, phase |-> phase, block |-> b, hashes |-> hashes, retracted |-> {},
   any |-> FALSE, alone |-> FALSE, events |-> <<>>]
Of(kind) == {t \in tasks : t.kind = kind}
Maintaining == Of("new_block") \cup Of("finalized")
Continue(t, u) == tasks' = (tasks \ {t}) \cup (IF u.phase = "end" /\ u.events = <<>> THEN {} ELSE {u})

Idle == [invalid |-> {}, valid |-> <<>>]

Init ==
  /\ pool = EmptyPool
  /\ banned = {}
  /\ listener = [watchers |-> [h \in Tx |-> "none"], told |-> [h \in Tx |-> "none"],
                 finality |-> <<>>]
  /\ chain = [imported |-> {Genesis}, best |-> Genesis, finalized |-> Genesis]
  /\ tasks = {}
  /\ queue = <<>>
  /\ worker = [best_block |-> 0, members |-> <<>>, batch |-> Idle, events |-> <<>>]
  /\ lost = {}
  /\ late = {}
  /\ budget \in Budgets

-----------------------------------------------------------------------------
\* The listener's lock.

\* The transactions the events are about that are told Ready or Future by them
\* although they are no longer in the pool.
Told(events) == UNION {events[i].txs : i \in DOMAIN events}
ToldLate(events) ==
  {h \in Told(events) \ InPool(pool) : listener'.told[h] \in {"ready", "future"}}
TellAll(events) ==
  /\ events # <<>>
  /\ listener' = FireAll(listener, events)
  /\ late' = (late \ Told(events)) \cup ToldLate(events)

Tell(t) ==
  /\ TellAll(t.events)
  /\ Continue(t, [t EXCEPT !.events = <<>>])
  /\ UNCHANGED <<pool, banned, chain, queue, worker, lost, budget>>

WorkerTell ==
  /\ TellAll(worker.events)
  /\ worker' = [worker EXCEPT !.events = <<>>]
  /\ UNCHANGED <<pool, banned, chain, tasks, queue, lost, budget>>

\* What a task does next, when it has told the listener what it had to.
At(t, phase) == t.phase = phase /\ t.events = <<>>

-----------------------------------------------------------------------------
\* Pool::submit_one and submit_and_watch, up to the call of the runtime.  A
\* banned transaction is refused here, which changes nothing.
Submit(h) ==
  /\ budget.submits > 0
  /\ budget' = [budget EXCEPT !.submits = @ - 1]
  /\ Cardinality(Of("submit")) < MaxPending
  /\ h \notin banned
  /\ tasks' = tasks \cup
       {Task("submit", IF h \in Watched THEN "watch" ELSE "import", chain.best, {h})}
  /\ UNCHANGED <<pool, banned, listener, chain, queue, worker, lost, late>>

\* The runtime answered submit_and_watch.
Watch(t) ==
  /\ At(t, "watch")
  /\ \E h \in t.hashes :
       IF IsValid(h, t.block)
       THEN /\ listener' = CreateWatcher(listener, h)
            /\ Continue(t, [t EXCEPT !.phase = "import",
                                     !.alone = listener.watchers[h] # "open"])
            /\ UNCHANGED banned
       ELSE /\ \E b \in Ban(banned, {h}) : banned' = b
            /\ Continue(t, [t EXCEPT !.phase = "end"])
            /\ UNCHANGED listener
  /\ UNCHANGED <<pool, chain, queue, worker, lost, late, budget>>

\* submit: one after the other, in any order, then the limits if any was
\* imported.  The watcher of a submission that failed is dropped.
AfterSubmit(t) == IF t.kind = "submit" THEN "end" ELSE "revalidate"

ImportOne(t) ==
  /\ At(t, "import")
  /\ \E h \in t.hashes : \E r \in SubmitOne(S0, h, t.block) :
       LET any  == t.any \/ r.ok
           left == t.hashes \ {h}
       IN /\ Becomes(r.s)
          /\ Continue(t, [t EXCEPT !.hashes = left, !.any = any, !.events = r.s.events,
                                   !.phase = IF left # {} THEN "import"
                                             ELSE IF any THEN "limit" ELSE AfterSubmit(t)])
          /\ listener' = IF t.alone /\ ~r.ok THEN DropWatcher(listener, h) ELSE listener
  /\ UNCHANGED <<chain, queue, worker, late, budget>>

Limit(t) ==
  /\ At(t, "limit")
  /\ \E s \in LimitPool(S0) :
       Becomes(s) /\ Continue(t, [t EXCEPT !.phase = AfterSubmit(t), !.events = s.events])
  /\ UNCHANGED <<listener, chain, queue, worker, late, budget>>

\* The block author found the ready transaction h invalid.
RemoveInvalid(h) ==
  /\ budget.removals > 0
  /\ budget' = [budget EXCEPT !.removals = @ - 1]
  /\ \E s \in Discard(S0, {h}) :
       LET t == Task("remove", "end", Genesis, {})
       IN Becomes(s) /\ Continue(t, [t EXCEPT !.events = s.events])
  /\ UNCHANGED <<listener, chain, queue, worker, late>>

-----------------------------------------------------------------------------
\* The client imports a block and the node spawns maintain for it.
NewBlock(b) ==
  /\ b \in budget.blocks \ chain.imported
  /\ Parent[b] \in chain.imported
  /\ IsAncestor(chain.finalized, b)
  /\ Cardinality(Maintaining) < budget.tasks
  /\ LET isBest == number[b] > number[chain.best]
     IN /\ chain' = [chain EXCEPT !.imported = @ \cup {b},
                                  !.best = IF isBest THEN b ELSE @]
        /\ tasks' = tasks \cup
             {[Task("new_block", "check", b, {}) EXCEPT
                 !.retracted = IF isBest THEN Range(Retracted(chain.best, b)) ELSE {}]}
  /\ UNCHANGED <<pool, banned, listener, queue, worker, lost, late, budget>>

Finalized(b) ==
  /\ b \in budget.finals
  /\ IsAncestor(b, chain.best)
  /\ Parent[b] = chain.finalized
  /\ Cardinality(Maintaining) < budget.tasks
  /\ chain' = [chain EXCEPT !.finalized = b]
  /\ tasks' = tasks \cup {Task("finalized", "finalize", b, {})}
  /\ UNCHANGED <<pool, banned, listener, queue, worker, lost, late, budget>>

AfterPrune(t) == IF t.retracted = {} THEN "revalidate" ELSE "retract"

\* An empty pool is not pruned.
CheckEmpty(t) ==
  /\ At(t, "check")
  /\ Continue(t, [t EXCEPT !.phase = IF InPool(pool) = {} THEN AfterPrune(t) ELSE "tags"])
  /\ UNCHANGED <<pool, banned, listener, chain, queue, worker, lost, late, budget>>

\* Pool::prune_known: finds the extrinsics of the block that are in the pool,
\* prunes their tags, and tells the watchers of the whole block.
ExtrinsicsTags(t) ==
  /\ At(t, "tags")
  /\ Continue(t, [t EXCEPT !.phase = "prune", !.hashes = Range(Body[t.block]) \cap InPool(pool)])
  /\ UNCHANGED <<pool, banned, listener, chain, queue, worker, lost, late, budget>>

Prune(t) ==
  /\ At(t, "prune")
  /\ \E r \in PruneKnown(S0, t.block, t.hashes) :
       /\ Becomes(r.s)
       /\ Continue(t, [t EXCEPT !.phase = "fire", !.hashes = Range(Body[t.block]) \cup r.pruned,
                                !.events = r.s.events])
  /\ UNCHANGED <<listener, chain, queue, worker, late, budget>>

FirePruned(t) ==
  /\ At(t, "fire")
  /\ listener' = Pruned(listener, t.block, t.hashes)
  /\ Continue(t, [t EXCEPT !.phase = AfterPrune(t), !.hashes = {}])
  /\ UNCHANGED <<pool, banned, chain, queue, worker, lost, late, budget>>

\* Tells the watchers of each retracted block, then submits its extrinsics.
Retract(t) ==
  /\ At(t, "retract")
  /\ \E b \in t.retracted :
       LET left == t.retracted \ {b}
           all  == t.hashes \cup Range(Body[b])
       IN /\ listener' = RetractBlock(listener, b)
          /\ Continue(t, [t EXCEPT !.retracted = left, !.hashes = all,
                                   !.phase = CASE left # {} -> "retract"
                                               [] left = {} /\ all # {} -> "import"
                                               [] OTHER -> "revalidate"])
  /\ UNCHANGED <<pool, banned, chain, queue, worker, lost, late, budget>>

Revalidate(t) ==
  /\ At(t, "revalidate")
  /\ Continue(t, [t EXCEPT !.phase = "end"])
  /\ queue' = Append(queue, [at |-> number[t.block], txs |-> Range(Get(pool.ready))])
  /\ UNCHANGED <<pool, banned, listener, chain, worker, lost, late, budget>>

NotifyFinalized(t) ==
  /\ At(t, "finalize")
  /\ Continue(t, [t EXCEPT !.phase = "end"])
  /\ listener' = FinalizeBlock(listener, t.block)
  /\ UNCHANGED <<pool, banned, chain, queue, worker, lost, late, budget>>

-----------------------------------------------------------------------------
\* RevalidationWorker::run, one branch of select! each.

WorkerIsFree == worker.batch = Idle /\ worker.events = <<>>

WorkerPush ==
  /\ WorkerIsFree
  /\ queue # <<>>
  /\ queue' = Tail(queue)
  /\ worker' = [worker EXCEPT !.best_block = Head(queue).at,
                              !.members = Over(All(Head(queue).txs, Head(queue).at), @)]
  /\ UNCHANGED <<pool, banned, listener, chain, tasks, lost, late, budget>>

\* prepare_batch: lower block numbers first, otherwise in any order.
Batches ==
  LET m == worker.members
      take == Min({BatchSize, Cardinality(DOMAIN m)})
  IN {B \in kSubset(take, DOMAIN m) : \A x \in B, y \in DOMAIN m \ B : m[x] <= m[y]}

\* The block BlockId::Number stands for is the one of the best chain.
AtNumber(n) == CHOOSE b \in Range(ancestry[chain.best]) : number[b] = n

\* The first half of batch_revalidate.
WorkerValidate ==
  /\ WorkerIsFree
  /\ DOMAIN worker.members # {}
  /\ \E B \in Batches :
       LET at    == AtNumber(worker.best_block)
           found == B \cap InReady(pool)
           valid == {h \in found : IsValid(h, at)}
       IN worker' = [worker EXCEPT
            !.members = Restrict(@, DOMAIN @ \ B),
            !.batch = [invalid |-> found \ valid,
                       valid |-> [h \in valid |-> RequiresAt(h, at)]]]
  /\ UNCHANGED <<pool, banned, listener, chain, tasks, queue, lost, late, budget>>

\* Its second half: the invalid are removed, then the valid resubmitted.
WorkerRemove ==
  /\ worker.batch.invalid # {}
  /\ \E s \in Discard(S0, worker.batch.invalid) :
       /\ Becomes(s)
       /\ worker' = [worker EXCEPT !.batch.invalid = {}, !.events = s.events]
  /\ UNCHANGED <<listener, chain, tasks, queue, late, budget>>

WorkerResubmit ==
  /\ worker.batch.invalid = {} /\ worker.events = <<>>
  /\ DOMAIN worker.batch.valid # {}
  /\ \E s \in Resubmit(S0, worker.batch.valid) :
       /\ Becomes(s)
       /\ worker' = [worker EXCEPT !.batch = Idle, !.events = s.events]
  /\ UNCHANGED <<listener, chain, tasks, queue, late, budget>>

Next ==
  \/ \E h \in Tx : Submit(h)
  \/ \E h \in InReady(pool) : RemoveInvalid(h)
  \/ \E b \in Block : NewBlock(b) \/ Finalized(b)
  \/ \E t \in tasks : \/ Tell(t) \/ Watch(t) \/ ImportOne(t) \/ Limit(t)
                       \/ CheckEmpty(t) \/ ExtrinsicsTags(t) \/ Prune(t) \/ FirePruned(t)
                       \/ Retract(t) \/ Revalidate(t) \/ NotifyFinalized(t)
  \/ WorkerPush \/ WorkerValidate \/ WorkerRemove \/ WorkerResubmit \/ WorkerTell

Spec == Init /\ [][Next]_vars

-----------------------------------------------------------------------------
\* Every variable has its type; the queues list each transaction once, and a
\* watcher that is still there was last told something that is not final.
TypeOK ==
  /\ InPool(pool) \subseteq Tx
  /\ Range(pool.ready.order) = InReady(pool)
  /\ Range(pool.future.order) = InFuture(pool)
  /\ Len(pool.ready.order) = Cardinality(InReady(pool))
  /\ Len(pool.future.order) = Cardinality(InFuture(pool))
  /\ \A h \in InReady(pool) : /\ pool.ready.ready[h].requires \subseteq Requires[h]
                               /\ pool.ready.ready[h].unlocks \in [Tx -> Nat]
                               /\ pool.ready.ready[h].offset \in Nat
  /\ pool.index \in DOMAIN pool.recent
  /\ banned \subseteq Tx
  /\ Cardinality(banned) <= 2 * ExpectedSize
  /\ listener.watchers \in [Tx -> {"none", "open", "dead"}]
  /\ listener.told \in [Tx -> {"none", "future", "ready", "in_block", "retracted"}]
  /\ DOMAIN worker.members \subseteq Tx

\* The proofs HASH_READY (ready.rs) and WAITING_PROOF (future.rs) behind the
\* calls of expect, and the assertion of prune_tags that the pool has exactly
\* one provider of each tag: however imports, replacements, pruning, removals
\* and revalidation interleave, the two indexes by tag describe the two queues.
TagsAreMapped ==
  /\ \A t \in DOMAIN pool.ready.provided :
       /\ pool.ready.provided[t] \in InReady(pool)
       /\ t \in Provides[pool.ready.provided[t]]
  /\ \A h \in InReady(pool) : \A t \in Provides[h] :
       t \in DOMAIN pool.ready.provided /\ pool.ready.provided[t] = h
  /\ \A t \in Tag :
       pool.future.wanted[t] = {h \in InFuture(pool) : t \in pool.future.waiting[h].missing}

\* No transaction is in both queues, and none stays in the future queue once
\* ready transactions provide all it waits for (import_to_ready promotes it).
FutureWaits ==
  /\ InFuture(pool) \cap InReady(pool) = {}
  /\ \A h \in InFuture(pool) :
       /\ pool.future.waiting[h].missing # {}
       /\ pool.future.waiting[h].missing \cap DOMAIN pool.ready.provided = {}

\* BestIterator returns every ready transaction: whatever was replaced, pruned
\* or imported again, its unlocks and requires_offset together always open it.
\* A transaction that is never returned is never put in a block.
IteratorIsComplete == Range(Get(pool.ready)) = InReady(pool)

\* A watcher whose last event was Ready or Future watches a transaction that is
\* in the pool, or some task is about to tell it otherwise: no replacement,
\* limit, pruning or revalidation takes it out without an event, whatever runs
\* between the pool's lock and the listener's.  Two exceptions: what
\* BasePool::import_to_ready itself drops when it returns an error after it
\* emptied the future queue (lost), and an event that was overtaken: it was
\* sent when the transaction had already left (late).
Owed(h) ==
  \/ \E t \in tasks : h \in Told(t.events) \/ (t.phase = "fire" /\ h \in t.hashes)
  \/ h \in Told(worker.events)
ToldIsTrue ==
  \A h \in Tx : listener.watchers[h] = "open" /\ listener.told[h] \in {"ready", "future"}
                 => h \in InPool(pool) \cup lost \cup late \/ Owed(h)

\* A submission that imported something goes on only when both queues are within
\* their limits, whatever it promoted and whatever other tasks imported between
\* its import and enforce_limits.
LimitsAreEnforced ==
  [][\A t \in tasks \ tasks' : t.phase = "limit" /\ t.events = <<>>
       => /\ Cardinality(InReady(pool')) <= ReadyLimit
          /\ Cardinality(InFuture(pool')) <= FutureLimit]_vars

-----------------------------------------------------------------------------
\* What the documentation says and the code does not do.

\* TransactionStatus::InBlock: "Transaction has been included in block with
\* given hash."
InBlockIsTrue ==
  \A h \in Tx : listener.watchers[h] = "open" /\ listener.told[h] = "in_block"
                 => \E b \in chain.imported : h \in Range(Body[b])

\* BasePool::import: the ready queue "contains transactions that have all the
\* requirements satisfied": by another ready transaction or by a block.
ReadyIsSatisfied ==
  \A h \in InReady(pool) :
    pool.ready.ready[h].requires \subseteq
      DOMAIN pool.ready.provided \cup UNION {OnChain(b) : b \in chain.imported}

\* The two queues and their indexes by tag describe the same transactions.
QueuesAgree == TypeOK /\ TagsAreMapped /\ FutureWaits
=============================================================================
