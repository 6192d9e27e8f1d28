------------------------------ MODULE StateDb -------------------------------
(* The window of the canonical states that are not yet pruned, and the     *)
(* database of states over it and the overlay (client/state-db).           *)
EXTENDS NonCanonicalOverlay

-----------------------------------------------------------------------------
(* The pruning window (client/state-db/src/pruning.rs): for each of the     *)
(* last canonical blocks, the nodes it deleted.  They stay in the database  *)
(* until the block leaves the window, and leave the death rows when a later *)
(* block inserts them again.                                                *)
(*                                                                           *)
(* A window is the record rw of the struct's fields.  Row i is journaled    *)
(* under pending_number + i - 1; a journal record is the hash in it.        *)

LAST_PRUNED == <<"last_pruned">>
to_pruning_key(n) == <<"pruning_journal", n>>

EmptyWindow(n) ==
  [death_rows |-> <<>>, death_index |-> <<>>, pending_number |-> n,
   pending_canonicalizations |-> 0, pending_prunings |-> 0]

\* import: b's insertions leave the rows the index names, its deletions
\* become a new row.
ImportRow(rw, b) ==
  LET again == Inserted(b) \cap DOMAIN rw.death_index
      RowNumber(i) == rw.pending_number + i - 1
      imported == rw.pending_number + Len(rw.death_rows)
      rows == [i \in DOMAIN rw.death_rows |->
                 [rw.death_rows[i] EXCEPT
                    !.deleted = @ \ {n \in again : rw.death_index[n] = RowNumber(i)}]]
      index == Without(rw.death_index, again)
  IN [rw EXCEPT
        !.death_rows = Append(rows, [hash |-> b, deleted |-> Deleted(b)]),
        !.death_index = [n \in DOMAIN index \cup Deleted(b) |->
                           IF n \in Deleted(b) THEN imported ELSE index[n]]]

window_size(rw) == Len(rw.death_rows) - rw.pending_prunings
WindowPending(rw) == rw.pending_number + rw.pending_prunings

\* The rows that are not pending to be pruned.
LiveRows(rw) == SubSeq(rw.death_rows, rw.pending_prunings + 1, Len(rw.death_rows))
WindowHasBlock(rw, b) == b \in HashesOf(LiveRows(rw))

\* Mutant: the row is journaled one number too high.
NoteCanonicalMutant(rw, b) ==
  [rw |-> [ImportRow(rw, b) EXCEPT !.pending_canonicalizations = @ + 1],
   meta |-> Put(<<>>, to_pruning_key(rw.pending_number + Len(rw.death_rows) + 1), b)]

\* note_canonical: the deletions of the commit move to the window.
NoteCanonical(rw, b) ==
  [rw |-> [ImportRow(rw, b) EXCEPT !.pending_canonicalizations = @ + 1],
   meta |-> Put(<<>>, to_pruning_key(rw.pending_number + Len(rw.death_rows)), b)]

\* k calls of prune_one.
PruneResult(rw, k) ==
  LET first == rw.pending_prunings + 1
      pruned == SubSeq(rw.death_rows, first, rw.pending_prunings + k)
      Key(i) == rw.pending_number + i - 1
  IN [rw |-> [rw EXCEPT !.pending_prunings = @ + k],
      deleted |-> UNION {pruned[i].deleted : i \in DOMAIN pruned},
      meta |-> IF k = 0 THEN <<>>
               ELSE Put(<<>>, LAST_PRUNED, Key(rw.pending_prunings + k)),
      meta_deleted |-> {to_pruning_key(Key(i)) : i \in first .. rw.pending_prunings + k}]

WindowApplyPending(rw) ==
  LET gone == UNION {rw.death_rows[i].deleted : i \in 1 .. rw.pending_prunings}
  IN [death_rows |-> LiveRows(rw),
      death_index |-> Without(rw.death_index, gone),
      pending_number |-> WindowPending(rw),
      pending_canonicalizations |-> 0,
      pending_prunings |-> 0]

\* revert_pending drops the pending rows; a node that a pending insertion took
\* out of an older row stays out of it.
WindowRevertPending(rw) ==
  LET kept == Len(rw.death_rows) - rw.pending_canonicalizations
      index == rw.death_index
  IN [death_rows |-> SubSeq(rw.death_rows, 1, kept),
      death_index |-> Without(index, {n \in DOMAIN index :
                                        index[n] >= kept + rw.pending_number}),
      pending_number |-> rw.pending_number,
      pending_canonicalizations |-> 0,
      pending_prunings |-> 0]

\* new: the rows of the journal from the first block that is not pruned.
NewWindow(meta) ==
  LET first == IF LAST_PRUNED \in DOMAIN meta THEN meta[LAST_PRUNED] + 1 ELSE 0
      Found(n) == to_pruning_key(n) \in DOMAIN meta
      size == CHOOSE k \in 0 .. Cardinality(Block) :
                /\ ~Found(first + k)
                /\ \A i \in 0 .. k - 1 : Found(first + i)
      journal == [i \in 1 .. size |-> meta[to_pruning_key(first + i - 1)]]
  IN FoldLeft(ImportRow, EmptyWindow(first), journal)

-----------------------------------------------------------------------------
(* The state database (client/state-db/src/lib.rs): the overlay and the     *)
(* pruning window together, and the blocks that readers have pinned.        *)
(*                                                                           *)
(* A state database is the record s of StateDbSync's fields; every public   *)
(* method takes the lock for the whole of its work, so an operator here is  *)
(* one step.  A CommitSet is [data |-> [inserted, deleted], meta |->        *)
(* [inserted, deleted]].                                                    *)

PRUNING_MODE == <<"mode">>
ModeKinds == {"archive", "archive_canonical", "constrained"}

is_archive(mode) == mode.kind # "constrained"

EmptyCommit == [data |-> [inserted |-> {}, deleted |-> {}],
                meta |-> [inserted |-> <<>>, deleted |-> {}]]

\* One map written over another.
Over(new, old) ==
  [k \in DOMAIN new \cup DOMAIN old |-> IF k \in DOMAIN new THEN new[k] ELSE old[k]]

\* new, with the pruning window only where there is one to keep.
NewStateDb(mode, meta) ==
  [mode |-> mode,
   non_canonical |-> NewOverlay(meta),
   pruning |-> IF is_archive(mode) THEN EmptyWindow(0) ELSE NewWindow(meta),
   pinned |-> [b \in Block |-> 0]]

best_canonical(s) == last_canonicalized_block_number(s.non_canonical)

-----------------------------------------------------------------------------
InsertBlockFails(s, b) == s.mode.kind # "archive" /\ InsertFails(s.non_canonical, b)

\* insert_block: an archive writes the change set at once, the other modes
\* keep it in the overlay.  The pruning mode is saved with the first block.
InsertBlock(s, b) ==
  LET mode == IF number[b] = 0 THEN Put(<<>>, PRUNING_MODE, s.mode.kind) ELSE <<>>
      r == InsertResult(s.non_canonical, b)
  IN IF s.mode.kind = "archive"
     THEN [s |-> s,
           commit |-> [EmptyCommit EXCEPT !.data.inserted = Inserted(b),
                                          !.meta.inserted = mode]]
     ELSE [s |-> [s EXCEPT !.non_canonical = r.nc],
           commit |-> [EmptyCommit EXCEPT !.meta.inserted = Over(mode, r.meta)]]

\* How many blocks prune() takes: it stops at the size of the window, and at
\* the first block that is pinned.
PruneCount(s, rw) ==
  LET over == window_size(rw) - s.mode.max_blocks
      row(j) == rw.death_rows[rw.pending_prunings + j].hash
  IN CHOOSE k \in 0 .. Len(rw.death_rows) :
       /\ over <= 0 => k = 0
       /\ over > 0 => k <= over
       /\ \A j \in 1 .. k : s.pinned[row(j)] = 0
       /\ k < over => s.pinned[row(k + 1)] > 0

CanonicalizeBlockFails(s, b) ==
  s.mode.kind # "archive" /\ CanonicalizeFails(s.non_canonical, b)

\* canonicalize_block: the overlay's commit; with a pruning window the
\* deletions wait there, and what leaves the window is deleted.
CanonicalizeBlock(s, b) ==
  LET r == CanonicalizeResult(s.non_canonical, b)
      noted == NoteCanonical(s.pruning, b)
      pruned == PruneResult(noted.rw, PruneCount(s, noted.rw))
  IN CASE s.mode.kind = "archive" -> [s |-> s, commit |-> EmptyCommit]
       [] s.mode.kind = "archive_canonical" ->
            [s |-> [s EXCEPT !.non_canonical = r.nc],
             commit |-> [data |-> [inserted |-> r.inserted, deleted |-> {}],
                         meta |-> [inserted |-> r.meta, deleted |-> r.meta_deleted]]]
       [] s.mode.kind = "constrained" ->
            [s |-> [s EXCEPT !.non_canonical = r.nc, !.pruning = pruned.rw],
             commit |-> [data |-> [inserted |-> r.inserted, deleted |-> pruned.deleted],
                         meta |-> [inserted |-> Over(pruned.meta, Over(noted.meta, r.meta)),
                                   deleted |-> r.meta_deleted \cup pruned.meta_deleted]]]

ApplyPending(s) ==
  [s EXCEPT !.non_canonical = OverlayApplyPending(@),
            !.pruning = IF is_archive(s.mode) THEN @ ELSE WindowApplyPending(@)]

RevertPending(s) ==
  [s EXCEPT !.non_canonical = OverlayRevertPending(@),
            !.pruning = IF is_archive(s.mode) THEN @ ELSE WindowRevertPending(@)]

-----------------------------------------------------------------------------
is_pruned(s, b) ==
  CASE s.mode.kind = "archive"            -> FALSE
    [] s.mode.kind # "archive" /\ number[b] > best_canonical(s) ->
                                             ~OverlayHasBlock(s.non_canonical, b)
    [] OTHER -> /\ s.mode.kind = "constrained"
                /\ \/ number[b] < WindowPending(s.pruning)
                   \/ ~WindowHasBlock(s.pruning, b)

PinFails(s, b) ==
  /\ s.mode.kind # "archive"
  /\ ~OverlayHasBlock(s.non_canonical, b)
  /\ s.mode.kind = "constrained" => ~WindowHasBlock(s.pruning, b)

\* pin counts readers; the first one also pins the overlay's values.
Pin(s, b) ==
  IF s.mode.kind = "archive" THEN s
  ELSE [s EXCEPT !.pinned[b] = @ + 1,
                 !.non_canonical = IF s.pinned[b] = 0 THEN OverlayPin(@, b) ELSE @]

Unpin(s, b) ==
  IF s.pinned[b] = 0 THEN s
  ELSE [s EXCEPT !.pinned[b] = @ - 1,
                 !.non_canonical = IF s.pinned[b] = 1 THEN OverlayUnpin(@, b) ELSE @]

\* The nodes `get` finds, in the overlay or in the database.
Readable(s, data) == data \cup {n \in Nodes : s.non_canonical.values[n] > 0}

=============================================================================
