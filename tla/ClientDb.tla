------------------------------ MODULE ClientDb ------------------------------
(* The leaves of the block tree, and the database of the client.           *)
EXTENDS StateDb

-----------------------------------------------------------------------------
(* The heads of the chain (client/src/leaves.rs).  A leaf is the pair of    *)
(* its number and its hash; `storage` is the map from numbers to hashes as  *)
(* the set of its pairs, and the pending changes are what the next          *)
(* transaction writes.                                                      *)

Leaf(b) == <<number[b], b>>
NumbersOf(pairs) == {p[1] : p \in pairs}

\* BTreeMap::append: the entries of other replace those of the same number.
AppendLeaves(pairs, other) ==
  {p \in pairs : p[1] \notin NumbersOf(other)} \cup other

\* read_from_db
ReadLeaves(stored) == [storage |-> stored, pending_added |-> {}, pending_removed |-> {}]

\* Whether import displaces the parent of b, which was a leaf.
Displaces(ls, b) == b # Genesis /\ Leaf(Parent[b]) \in ls.storage

ImportLeaf(ls, b) ==
  LET parent == IF Displaces(ls, b) THEN {Leaf(Parent[b])} ELSE {}
  IN [storage |-> (ls.storage \ parent) \cup {Leaf(b)},
      pending_added |-> ls.pending_added \cup {Leaf(b)},
      pending_removed |-> ls.pending_removed \cup {p[2] : p \in parent}]

\* finalize_height displaces every leaf below the finalized number.
BelowFinalized(ls, n) == {p \in ls.storage : p[1] < n}

FinalizeHeight(ls, n) ==
  [ls EXCEPT !.storage = @ \ BelowFinalized(ls, n),
             !.pending_removed = @ \cup {p[2] : p \in BelowFinalized(ls, n)}]

\* prepare_transaction: the stored leaves after it, and the emptied lists.
WriteLeaves(ls, stored) ==
  {p \in stored \cup ls.pending_added : p[2] \notin ls.pending_removed}
Flushed(ls) == [ls EXCEPT !.pending_added = {}, !.pending_removed = {}]

\* undo_import puts the displaced parent back under the number of its child.
UndoImport(ls, b) ==
  [ls EXCEPT !.storage = (@ \ {Leaf(b)}) \cup {<<number[b], Parent[b]>>}]

UndoFinalization(ls, displaced) ==
  [ls EXCEPT !.storage = AppendLeaves(@, displaced)]

-----------------------------------------------------------------------------
(* The full client's database backend (client/db/src/lib.rs) under the      *)
(* client that imports and finalizes blocks (client/src/client.rs), with    *)
(* readers of the state, failing writes, and crashes.                       *)
(*                                                                           *)
(* An operation holds the import lock.  Its work is three steps, between    *)
(* which readers run: everything up to the write of the transaction, the    *)
(* write, and the apply_pending after it.  `disk` is what survives a crash; *)
(* the transaction of an operation is the disk as it will be.               *)

CONSTANTS CanonicalizationDelay, \* blocks this far below the head are canonicalized
          Setups,                \* the pruning mode, the threads that read, and a bound
                                 \* on failed writes and crashes: one triple per node
          FinalImports,          \* may a block be imported as already final?
          FailingWrites          \* the kinds of operations whose write may fail

ASSUME ClientDbAssumption ==
  /\ CanonicalizationDelay \in Nat
  /\ FinalImports \in BOOLEAN
  /\ FailingWrites \subseteq {"import", "finalize"}
  /\ \A s \in Setups : /\ s.mode.kind \in ModeKinds /\ s.mode.max_blocks \in Nat
                      /\ s.faults \in Nat

VARIABLES disk,     \* the columns of the database
          sdb,      \* StorageDb::state_db
          leaves,   \* BlockchainDb::leaves
          meta,     \* BlockchainDb::meta: the best and the finalized block
          cache,    \* BlockchainDb::header_metadata_cache
          op,       \* the operation that holds the import lock
          reader,   \* the RefTrackingState each reader holds
          faults,   \* how often a write may still fail or the process die
          errored   \* history: some operation has returned an error

vars == <<disk, sdb, leaves, meta, cache, op, reader, faults, errored>>
memory == <<sdb, leaves, meta, cache>>

Idle == [phase |-> "idle"]
NoState == [phase |-> "none"]

EmptyDisk == [headers |-> {}, lookup |-> <<>>, best |-> Default, finalized |-> Default,
              leaves |-> {}, children |-> <<>>, state |-> {}, meta |-> <<>>]

\* read_meta
MetaOf(d) == IF Genesis \notin d.headers THEN [best |-> Default, finalized |-> Default]
             ELSE [best |-> d.best, finalized |-> d.finalized]

Init ==
  /\ disk = EmptyDisk
  /\ \E setup \in Setups : /\ sdb = NewStateDb(setup.mode, <<>>)
                           /\ reader = [r \in setup.readers |-> NoState]
                           /\ faults = setup.faults
  /\ leaves = ReadLeaves({})
  /\ meta = MetaOf(EmptyDisk)
  /\ cache = {}
  /\ op = Idle
  /\ errored = FALSE

-----------------------------------------------------------------------------
\* What the client can see.

Reader == DOMAIN reader

Known(b) == b \in disk.headers \cup cache

have_state_at(b) ==
  IF is_archive(sdb.mode) THEN b \in disk.headers /\ {b} \in Readable(sdb, disk.state)
                          ELSE ~is_pruned(sdb, b)

StateAtFails(b) == b \notin disk.headers \/ ~have_state_at(b) \/ PinFails(sdb, b)

-----------------------------------------------------------------------------
\* try_commit_operation, as a chain of steps on a context c:
\*   err       how it ended early: an error is returned, or an expect panics
\*   s, ls     the state database and the leaf set as changed so far
\*   known     the header metadata cache
\*   tx        the disk once the transaction is written
\*   updates   the arguments of update_meta, in order
\*   displaced the leaves that finalization displaced
\*   undo      the blocks whose displaced parent undo_import must put back

Context == [err |-> "none", s |-> sdb, ls |-> leaves, known |-> cache, tx |-> disk,
            updates |-> <<>>, displaced |-> {}, undo |-> {}]

Ok(c) == c.err = "none"
Fail(c) == IF Ok(c) THEN [c EXCEPT !.err = "error"] ELSE c
Panic(c) == [c EXCEPT !.err = "panic"]

apply_state_commit(tx, commit) ==
  [tx EXCEPT !.state = (@ \cup commit.data.inserted) \ commit.data.deleted,
             !.meta = Without(Over(commit.meta.inserted, @), commit.meta.deleted)]

\* note_finalized
NoteFinalized(c, b) ==
  LET fresh == number[b] > best_canonical(c.s)
      r == CanonicalizeBlock(c.s, b)
      noted == IF fresh
               THEN [c EXCEPT !.s = r.s,
                              !.tx = apply_state_commit([@ EXCEPT !.finalized = b], r.commit)]
               ELSE c
  IN IF fresh /\ CanonicalizeBlockFails(c.s, b) THEN Fail(c)
     ELSE [noted EXCEPT !.displaced = AppendLeaves(@, BelowFinalized(c.ls, number[b])),
                        !.ls = FinalizeHeight(@, number[b])]

\* finalize_block_with_transaction for each block of finalized_blocks: each
\* must be the child of the one before it.
FinalizeStep(c, b) ==
  LET last == IF c.updates = <<>> THEN meta.finalized ELSE Last(c.updates).hash
  IN IF ~Ok(c) \/ Parent[b] # last THEN Fail(c)
     ELSE [NoteFinalized(c, b) EXCEPT
             !.updates = Append(@, [hash |-> b, best |-> FALSE, finalized |-> TRUE])]

\* set_head_with_transaction: the number index leaves the old best chain and
\* follows the new one.
SetHead(c, route_to, best_to) ==
  LET retracted == IF meta.best = Default THEN <<>> ELSE Retracted(meta.best, route_to)
      enacted == IF meta.best = Default THEN <<>> ELSE Enacted(meta.best, route_to)
      removed == Without(c.tx.lookup, {number[h] : h \in Range(retracted)})
      Insert(map, h) == Put(map, number[h], h)
  IN IF ~Ok(c) \/ meta.finalized \in Range(retracted) THEN Fail(c)
     ELSE [c EXCEPT !.tx.lookup = FoldLeft(Insert, removed, Append(enacted, best_to)),
                    !.tx.best = best_to]

\* The header of the pending block goes to the transaction, and at once to
\* the metadata cache.
InsertHeader(c, b) ==
  IF ~Ok(c) THEN c
  ELSE [c EXCEPT !.known = @ \cup {b},
                 !.tx.headers = @ \cup {b},
                 !.tx.finalized = IF b = Genesis THEN b ELSE @]

\* insert_block; then the state of the parent is released.
InsertState(c, b) ==
  LET r == InsertBlock(c.s, b)
      Release(s) == IF b = Genesis THEN s ELSE Unpin(s, Parent[b])
  IN IF ~Ok(c) \/ InsertBlockFails(c.s, b) THEN [Fail(c) EXCEPT !.s = Release(@)]
     ELSE [c EXCEPT !.s = Release(r.s), !.tx = apply_state_commit(@, r.commit)]

\* A final block is finalized now; below any other, the block that is
\* CanonicalizationDelay lower on the stored best chain is canonicalized.
FinalizePending(c, b) ==
  LET last == IF c.updates = <<>> THEN meta.finalized ELSE Last(c.updates).hash
  IN IF ~Ok(c) \/ Parent[b] # last THEN Fail(c) ELSE NoteFinalized(c, b)

ForceDelayedCanonicalize(c, b) ==
  LET new == number[b] - CanonicalizationDelay
      h == IF new = number[b] THEN b ELSE disk.lookup[new]
      r == CanonicalizeBlock(c.s, h)
  IN IF ~Ok(c) \/ new <= 0 \/ new <= best_canonical(c.s) THEN c
     ELSE IF new # number[b] /\ new \notin DOMAIN disk.lookup THEN Panic(c)
     ELSE IF CanonicalizeBlockFails(c.s, h) THEN Fail(c)
     ELSE [c EXCEPT !.s = r.s, !.tx = apply_state_commit(@, r.commit)]

ImportLeafStep(c, b) ==
  LET ls == ImportLeaf(c.ls, b)
      siblings == IF Parent[b] \in DOMAIN disk.children THEN disk.children[Parent[b]] ELSE {}
  IN IF ~Ok(c) THEN c
     ELSE [c EXCEPT !.undo = IF Displaces(c.ls, b) THEN {b} ELSE {},
                    !.ls = Flushed(ls),
                    !.tx.leaves = WriteLeaves(ls, @),
                    !.tx.children = Put(@, Parent[b], siblings \cup {b})]

\* The pending block, with the NewBlockState it was given.
ImportPending(c, b, leaf_state) ==
  LET is_best == leaf_state \in {"best", "final"}
      is_final == leaf_state = "final"
      c1 == IF is_best THEN SetHead(c, Parent[b], b) ELSE c
      c2 == InsertState(InsertHeader(c1, b), b)
      c3 == IF is_final THEN FinalizePending(c2, b) ELSE ForceDelayedCanonicalize(c2, b)
  IN [ImportLeafStep(c3, b) EXCEPT
        !.updates = Append(@, [hash |-> b, best |-> is_best, finalized |-> is_final])]

MarkHead(c, head) ==
  IF head = Default THEN c
  ELSE [SetHead(c, head, head) EXCEPT
          !.updates = Append(@, [hash |-> head, best |-> TRUE, finalized |-> FALSE])]

-----------------------------------------------------------------------------
\* The actions.

\* The process dies and is started again: all it has is the database.
Crash ==
  /\ faults > 0
  /\ faults' = faults - 1
  /\ sdb' = NewStateDb(sdb.mode, disk.meta)
  /\ leaves' = ReadLeaves(disk.leaves)
  /\ meta' = MetaOf(disk)
  /\ cache' = {}
  /\ op' = Idle
  /\ reader' = [r \in Reader |-> NoState]
  /\ UNCHANGED <<disk, errored>>

\* commit_operation up to the write: an error reverts what is pending.
Prepare(kind, c) ==
  IF c.err = "panic" THEN Crash
  ELSE /\ sdb' = IF Ok(c) THEN c.s ELSE RevertPending(c.s)
       /\ leaves' = c.ls
       /\ cache' = c.known
       /\ op' = IF Ok(c) THEN [phase |-> "write", kind |-> kind, tx |-> c.tx,
                               updates |-> c.updates, displaced |-> c.displaced,
                               undo |-> c.undo]
                         ELSE Idle
       /\ errored' = (errored \/ ~Ok(c))
       /\ UNCHANGED <<disk, meta, reader, faults>>

\* Client::new on an empty database.
CreateGenesis ==
  /\ op = Idle
  /\ Genesis \notin disk.headers
  /\ Prepare("import", ImportPending(Context, Genesis, "final"))

\* The blocks apply_finality_with_block_hash marks final, and the new head it
\* sets when the block is not on the best chain.
FinalityFails(b) == Retracted(meta.finalized, b) # <<>>
ToFinalize(b) == Enacted(meta.finalized, b)
\* Mutant: the head stays where it is.
NewHeadMutant(b) == Default

NewHead(b) == IF b = meta.finalized \/ Common(meta.best, b) = b THEN Default ELSE b

\* check_block: the block is new and its parent is known, with its state.
CheckBlock(b) ==
  /\ ~Known(b) /\ Known(Parent[b])
  /\ ~StateAtFails(Parent[b])

\* prepare_block_storage_changes executes the block on its parent's state,
\* begin_state_operation pins that state, and a final block has its parent
\* finalized first.
BeginImport(parent, final) ==
  LET pinned == [Context EXCEPT !.s = Pin(@, parent)]
  IN IF final THEN FoldLeft(FinalizeStep, pinned, ToFinalize(parent)) ELSE pinned

\* import_block for a block with its body; best is the verdict of the fork
\* choice.
Import(b, best, final) ==
  LET parent == Parent[b]
      leaf_state == IF final THEN "final" ELSE IF best THEN "best" ELSE "normal"
      imported == ImportPending(BeginImport(parent, final), b, leaf_state)
  IN /\ op = Idle
     /\ b # Genesis /\ Genesis \in disk.headers
     /\ CheckBlock(b)
     /\ number[b] > number[meta.finalized]
     /\ final => best /\ ~FinalityFails(parent)
     /\ Prepare("import", IF final THEN MarkHead(imported, NewHead(parent)) ELSE imported)

\* Client::finalize_block
Finalize(b) ==
  /\ op = Idle
  /\ b \in disk.headers /\ b # meta.finalized
  /\ ~FinalityFails(b)
  /\ Prepare("finalize", MarkHead(FoldLeft(FinalizeStep, Context, ToFinalize(b)), NewHead(b)))

\* update_meta for each of the updates.
UpdateMeta(m, u) ==
  [best |-> IF u.best THEN u.hash ELSE m.best,
   finalized |-> IF u.finalized \/ u.hash = Genesis THEN u.hash ELSE m.finalized]

WriteOk ==
  /\ op.phase = "write"
  /\ disk' = op.tx
  /\ meta' = FoldLeft(UpdateMeta, meta, op.updates)
  /\ op' = [phase |-> "apply"]
  /\ UNCHANGED <<sdb, leaves, cache, reader, faults, errored>>

\* The write fails.  An import undoes the leaf set, returns the error, and
\* commit_operation reverts.  The result of a write without a block is not
\* looked at: the operation goes on.
WriteFails ==
  /\ op.phase = "write" /\ op.kind \in FailingWrites
  /\ faults > 0
  /\ faults' = faults - 1
  /\ IF op.kind = "import"
     THEN LET undone == IF op.undo = {} THEN leaves
                        ELSE UndoImport(leaves, CHOOSE b \in op.undo : TRUE)
          IN /\ leaves' = Flushed(UndoFinalization(undone, op.displaced))
             /\ sdb' = RevertPending(sdb)
             /\ op' = Idle
             /\ errored' = TRUE
             /\ UNCHANGED meta
     ELSE /\ meta' = FoldLeft(UpdateMeta, meta, op.updates)
          /\ op' = [phase |-> "apply"]
          /\ UNCHANGED <<sdb, leaves, errored>>
  /\ UNCHANGED <<disk, cache, reader>>

Apply ==
  /\ op.phase = "apply"
  /\ sdb' = ApplyPending(sdb)
  /\ op' = Idle
  /\ UNCHANGED <<disk, leaves, meta, cache, reader, faults, errored>>

\* state_at takes the state database's lock twice: to look whether the state
\* is there, and to pin it.
LookUp(r, b) ==
  /\ reader[r].phase = "none"
  /\ b \in disk.headers
  /\ have_state_at(b)
  /\ reader' = [reader EXCEPT ![r] = [phase |-> "found", block |-> b]]
  /\ UNCHANGED <<disk, memory, op, faults, errored>>

PinState(r) ==
  /\ reader[r].phase = "found"
  /\ LET b == reader[r].block
     IN IF PinFails(sdb, b)
        THEN reader' = [reader EXCEPT ![r] = NoState] /\ UNCHANGED sdb
        ELSE /\ reader' = [reader EXCEPT ![r].phase = "pinned"]
             /\ sdb' = Pin(sdb, b)
  /\ UNCHANGED <<disk, leaves, meta, cache, op, faults, errored>>

\* RefTrackingState::drop
DropState(r) ==
  /\ reader[r].phase = "pinned"
  /\ sdb' = Unpin(sdb, reader[r].block)
  /\ reader' = [reader EXCEPT ![r] = NoState]
  /\ UNCHANGED <<disk, leaves, meta, cache, op, faults, errored>>

Next ==
  \/ CreateGenesis
  \/ \E b \in Block, best \in BOOLEAN, final \in {FALSE, FinalImports} : Import(b, best, final)
  \/ \E b \in Block : Finalize(b)
  \/ WriteOk \/ WriteFails \/ Apply
  \/ \E r \in Reader, b \in Block : LookUp(r, b)
  \/ \E r \in Reader : PinState(r) \/ DropState(r)
  \/ Crash

Spec == Init /\ [][Next]_vars

-----------------------------------------------------------------------------
\* Properties.

\* The type invariant.
TypeOK ==
  /\ disk.headers \subseteq Block /\ disk.state \subseteq Nodes
  /\ disk.best \in Block \cup {Default} /\ disk.finalized \in Block \cup {Default}
  /\ sdb.non_canonical.parents \subseteq Block
  /\ sdb.non_canonical.values \in [Nodes -> Nat]
  /\ sdb.pinned \in [Block -> Nat]
  /\ leaves.storage \subseteq Nat \X Block
  /\ meta.best \in Block \cup {Default} /\ meta.finalized \in Block \cup {Default}
  /\ cache \subseteq Block
  /\ op.phase \in {"idle", "write", "apply"}
  /\ \A r \in Reader : reader[r].phase \in {"none", "found", "pinned"}

\* b hangs on the last canonicalized block through the overlay's parents.
Linked(b) ==
  \/ number[b] <= best_canonical(sdb)
  \/ sdb.non_canonical.last_canonicalized.hash \in PinPath(sdb.non_canonical, b)

\* Whenever have_state_at says that the state of a stored block can be had,
\* every trie node of that state is found, in the overlay or on the disk, at
\* every point of an import, a finalization, a failed write or a restart.  Of a
\* pruning node this is said of the blocks whose ancestors the overlay knows.
ServedStateIsReadable ==
  \A b \in disk.headers :
    have_state_at(b) /\ Linked(b) => State(b) \subseteq Readable(sdb, disk.state)

\* The canonical chain, pending canonicalizations included, and the highest
\* block of b's ancestry on it.
CanonicalTip ==
  LET nc == sdb.non_canonical
  IN IF nc.pending_canonicalizations = <<>> THEN nc.last_canonicalized.hash
     ELSE Last(nc.pending_canonicalizations)
ForkPoint(b) == Common(CanonicalTip, b)

\* A reader that holds a RefTrackingState can read all of the state of its
\* block, whatever is canonicalized, discarded and pruned meanwhile, as long as
\* the pin took hold in the overlay and the canonical block that the block
\* forks from has not left the pruning window.
KeptPinIsReadable ==
  \A r \in Reader :
     /\ reader[r].phase = "pinned"
     /\ sdb.mode.kind = "constrained"
     /\ sdb.non_canonical.pinned[reader[r].block] > 0
     /\ number[ForkPoint(reader[r].block)] + 1 >= WindowPending(sdb.pruning)
     => State(reader[r].block) \subseteq Readable(sdb, disk.state)

\* The process may die after any write: the disk it leaves holds the whole
\* state of every block of the pruning journal, since the nodes that a
\* canonicalization inserts, the journal records and the nodes that a pruning
\* deletes are in one transaction.
CanonicalStateOnDisk ==
  LET w == NewWindow(disk.meta)
  IN sdb.mode.kind = "constrained" =>
       \A b \in HashesOf(w.death_rows) : State(b) \subseteq disk.state

\* Between operations the pruning window that RefWindow::new would read from
\* the disk is the one in memory: the same blocks at the same numbers, and no
\* node that memory means to delete is missing from the journal.
WindowSurvivesRestart ==
  LET w == NewWindow(disk.meta)
  IN op = Idle /\ sdb.mode.kind = "constrained" =>
       /\ w.pending_number = sdb.pruning.pending_number
       /\ Len(w.death_rows) = Len(sdb.pruning.death_rows)
       /\ \A i \in DOMAIN w.death_rows :
            /\ sdb.pruning.death_rows[i].hash = w.death_rows[i].hash
            /\ sdb.pruning.death_rows[i].deleted \subseteq w.death_rows[i].deleted

\* Pruning forgets nothing: a node on the disk is in the state of the highest
\* canonical block, or the pruning window will delete it.
NothingIsLeaked ==
  op = Idle /\ ~errored /\ sdb.mode.kind = "constrained" /\ Genesis \in disk.headers =>
    disk.state \subseteq State(CanonicalTip)
       \cup UNION {sdb.pruning.death_rows[i].deleted : i \in DOMAIN sdb.pruning.death_rows}

OverlayBlocks(nc) == {o.hash : o \in UNION {Range(nc.levels[i]) : i \in DOMAIN nc.levels}}

\* The overlay's reference count of a node is the number of the blocks that
\* inserted it and are still held, in a level or by a pin, after every order of
\* insertions, reverts, discards of forks and unpins.
RefCountsAreExact ==
  LET nc == sdb.non_canonical
      holders == OverlayBlocks(nc) \cup nc.pinned_insertions
  IN \A n \in Nodes : nc.values[n] = Cardinality({h \in holders : n \in Inserted(h)})

\* Once no reader holds a state and no operation is on its way, the overlay
\* keeps nothing on account of pins: each pin along a chain of ancestors was
\* undone by the unpin of the same block.
UnpinnedIsReleased ==
  LET nc == sdb.non_canonical
  IN op = Idle /\ (\A r \in Reader : reader[r].phase # "pinned") =>
       /\ \A h \in DOMAIN nc.pinned : nc.pinned[h] = 0
       /\ nc.pinned_insertions = {}
       /\ nc.parents = OverlayBlocks(nc)

\* Between operations the number index names, for every height up to the best
\* block's, the best block's ancestor, through reorganizations, failed writes
\* and restarts: set_head_with_transaction takes the retracted blocks out and
\* puts the enacted ones in.
BestChainIsIndexed ==
  op = Idle /\ meta.best # Default =>
    \A n \in 0 .. number[meta.best] :
      n \in DOMAIN disk.lookup /\ IsAncestor(disk.lookup[n], meta.best)

\* Between operations the finalized block is an ancestor of the best block: a
\* finalization on another fork moves the head with it.
FinalizedIsOnBestChain ==
  op = Idle /\ meta.best # Default => IsAncestor(meta.finalized, meta.best)

\* As long as no operation has failed, every stored block that has no stored
\* child and is not below the finalized block is a leaf.
HeadsAreLeaves ==
  op = Idle /\ ~errored =>
    \A b \in disk.headers :
      number[b] >= number[meta.finalized]
        /\ ~(\E c \in disk.headers : Parent[c] = b) => Leaf(b) \in leaves.storage

\* "The tree is journaled to the backing database and rebuilt on startup"
\* (client/state-db/src/lib.rs): between operations, the overlay that
\* NonCanonicalOverlay::new would read from the disk holds the blocks that the
\* overlay in memory holds.
OverlayIsRebuilt ==
  op = Idle /\ sdb.mode.kind = "constrained" =>
    OverlayBlocks(NewOverlay(disk.meta)) = OverlayBlocks(sdb.non_canonical)

\* What the backend promises to its readers: the state of a block that is
\* served, pinned or canonical can be read in full.
StateIsReadable == TypeOK /\ ServedStateIsReadable /\ KeptPinIsReadable /\ CanonicalStateOnDisk

\* What nobody can ask for any more is given back: by pruning, and by unpinning.
NothingIsKept == NothingIsLeaked /\ UnpinnedIsReleased

\* The index of the chain follows the tree of blocks: the best chain by number,
\* the finalized block on it, the leaves.
ChainIsIndexed == BestChainIsIndexed /\ FinalizedIsOnBestChain /\ HeadsAreLeaves

=============================================================================
