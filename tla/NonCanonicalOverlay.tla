------------------------- MODULE NonCanonicalOverlay -------------------------
(* The canonicalization window (client/state-db/src/noncanonical.rs): the   *)
(* tree of blocks above the last canonicalized one, journaled in the         *)
(* metadata of the database.                                                 *)
(*                                                                           *)
(* An overlay is the record nc of the struct's fields.  What a block         *)
(* inserts, deletes and has as parent depends on its hash alone, so the maps *)
(* `parents` and `pinned_insertions` are the sets of their keys, a journal   *)
(* record is the hash in it, and a BlockOverlay is its hash and the index of *)
(* its journal key.  `values` and `pinned` count references; 0 is absence.   *)
EXTENDS BlockTree

\* last_canonicalized = None: there is no block number -1.
None == [hash |-> Default, number |-> -1]

LAST_CANONICAL == <<"last_canonical">>
to_journal_key(n, index) == <<"noncanonical_journal", n, index>>

\* A database key-value column: a function on the keys that are present.
Without(map, keys) == [k \in DOMAIN map \ keys |-> map[k]]
Put(map, k, v) == [x \in DOMAIN map \cup {k} |-> IF x = k THEN v ELSE map[x]]

EmptyOverlay ==
  [last_canonicalized |-> None, levels |-> <<>>, parents |-> {},
   pending_canonicalizations |-> <<>>, pending_insertions |-> <<>>,
   values |-> [n \in Nodes |-> 0],
   pinned |-> [h \in Block \cup {Default} |-> 0], pinned_insertions |-> {}]

insert_values(values, nodes) ==
  [n \in Nodes |-> IF n \in nodes THEN values[n] + 1 ELSE values[n]]
discard_values(values, nodes) ==
  [n \in Nodes |-> IF n \in nodes /\ values[n] > 0 THEN values[n] - 1 ELSE values[n]]

\* The journal key of overlay o.
JournalKey(o) == to_journal_key(number[o.hash], o.index)
HashesOf(level) == {level[i].hash : i \in DOMAIN level}

\* The overlays of levels[i ..] that descend from a block of roots, found
\* level by level through the parent links.
Descendants(levels, i, roots) ==
  LET below[j \in (i - 1) .. Len(levels)] ==
        IF j = i - 1 THEN roots
        ELSE {h \in HashesOf(levels[j]) : Parent[h] \in below[j - 1]}
  IN {o \in UNION {Range(levels[j]) : j \in i .. Len(levels)} :
        \E j \in i .. Len(levels) : o.hash \in below[j]}

-----------------------------------------------------------------------------
front_block_number(nc) == nc.last_canonicalized.number + 1

last_canonicalized_block_number(nc) ==
  LET pending == Len(nc.pending_canonicalizations)
  IN CASE nc.last_canonicalized # None -> nc.last_canonicalized.number + pending
       [] nc.last_canonicalized = None /\ pending > 0 -> pending
       [] OTHER -> -1

OverlayHasBlock(nc, b) ==
  /\ b \in nc.parents \cup Range(nc.pending_insertions)
  /\ b \notin Range(nc.pending_canonicalizations)

\* `insert` assumes the parent of the first block it sees was canonicalized.
AssumesParent(nc, b) == nc.levels = <<>> /\ nc.last_canonicalized = None /\ number[b] > 0

InsertFails(nc, b) ==
  LET front == front_block_number(nc)
  IN /\ ~AssumesParent(nc, b)
     /\ nc.last_canonicalized # None
     /\ \/ number[b] \notin front .. front + Len(nc.levels)
        \/ number[b] = front /\ nc.last_canonicalized.hash # Parent[b]
        \/ number[b] # front /\ Parent[b] \notin nc.parents

\* insert: the overlay after it, and the metadata of its commit.
InsertResult(nc, b) ==
  LET last == IF AssumesParent(nc, b)
              THEN [hash |-> Parent[b], number |-> number[b] - 1]
              ELSE nc.last_canonicalized
      at == number[b] - last.number
      index == IF at \in DOMAIN nc.levels THEN Len(nc.levels[at]) ELSE 0
      overlay == [hash |-> b, index |-> index]
      journal == Put(<<>>, to_journal_key(number[b], index), b)
  IN [nc |-> [nc EXCEPT
                !.last_canonicalized = last,
                !.levels = IF at \in DOMAIN @ THEN [@ EXCEPT ![at] = Append(@, overlay)]
                                              ELSE Append(@, <<overlay>>),
                !.parents = @ \cup {b},
                !.values = insert_values(@, Inserted(b)),
                !.pending_insertions = Append(@, b)],
      meta |-> IF AssumesParent(nc, b) THEN Put(journal, LAST_CANONICAL, last) ELSE journal]

-----------------------------------------------------------------------------
\* The level canonicalize looks at: the first one not canonicalized yet.
TopLevel(nc) ==
  LET i == Len(nc.pending_canonicalizations) + 1
  IN IF i \in DOMAIN nc.levels THEN nc.levels[i] ELSE <<>>

CanonicalizeFails(nc, b) == b \notin HashesOf(TopLevel(nc))

\* canonicalize: the overlay after it; its commit holds the nodes of b, the
\* new LAST_CANONICAL, and deletes the journals of the level and of every
\* descendant of the blocks beside b.
CanonicalizeResult(nc, b) ==
  LET i == Len(nc.pending_canonicalizations) + 1
      beside == HashesOf(TopLevel(nc)) \ {b}
      discarded == Range(TopLevel(nc)) \cup Descendants(nc.levels, i + 1, beside)
  IN [nc |-> [nc EXCEPT !.pending_canonicalizations = Append(@, b)],
      inserted |-> Inserted(b),
      deleted |-> Deleted(b),
      meta |-> Put(<<>>, LAST_CANONICAL,
                   [hash |-> b, number |-> front_block_number(nc) + i - 1]),
      meta_deleted |-> {JournalKey(o) : o \in discarded}]

\* Mutant: a pin does not keep the values of a block on a discarded fork.
ApplyOneMutant(nc, b) ==
  LET beside == HashesOf(nc.levels[1]) \ {b}
      gone == HashesOf(nc.levels[1])
                \cup {o.hash : o \in Descendants(nc.levels, 2, beside)}
      kept == {h \in {b} : nc.pinned[h] > 0}
      Lost(n) == Cardinality({h \in gone \ kept : n \in Inserted(h)})
  IN [nc EXCEPT
        !.levels = [i \in 1 .. Len(@) - 1 |->
                      SelectSeq(@[i + 1], LAMBDA o : o.hash \notin gone)],
        !.parents = @ \ (gone \ kept),
        !.values = [n \in Nodes |-> IF @[n] > Lost(n) THEN @[n] - Lost(n) ELSE 0],
        !.pinned_insertions = @ \cup kept]

\* One block of apply_canonicalizations: its level is popped, the subtrees of
\* the blocks beside it go, and what is pinned is kept to be discarded later.
ApplyOne(nc, b) ==
  LET beside == HashesOf(nc.levels[1]) \ {b}
      gone == HashesOf(nc.levels[1])
                \cup {o.hash : o \in Descendants(nc.levels, 2, beside)}
      kept == {h \in gone : nc.pinned[h] > 0}
      Lost(n) == Cardinality({h \in gone \ kept : n \in Inserted(h)})
  IN [nc EXCEPT
        !.levels = [i \in 1 .. Len(@) - 1 |->
                      SelectSeq(@[i + 1], LAMBDA o : o.hash \notin gone)],
        !.parents = @ \ (gone \ kept),
        !.values = [n \in Nodes |-> IF @[n] > Lost(n) THEN @[n] - Lost(n) ELSE 0],
        !.pinned_insertions = @ \cup kept]

OverlayApplyPending(nc) ==
  LET pending == nc.pending_canonicalizations
      applied == FoldLeft(ApplyOne, nc, pending)
      n == nc.last_canonicalized.number
  IN [applied EXCEPT
        !.last_canonicalized =
            IF pending = <<>> THEN @
            ELSE [hash |-> Last(pending), number |-> n + Len(pending)],
        !.pending_canonicalizations = <<>>,
        !.pending_insertions = <<>>]

\* Mutant: the values of the reverted block stay.
RevertInsertionMutant(b, nc) ==
  LET at == number[b] - nc.last_canonicalized.number
      popped == [nc.levels EXCEPT ![at] = Front(@)]
  IN [nc EXCEPT
        !.parents = @ \ {b},
        !.levels = IF popped[at] = <<>> THEN Front(popped) ELSE popped]

\* revert_insertions undoes the pending insertions, the last one first.
RevertInsertion(b, nc) ==
  LET at == number[b] - nc.last_canonicalized.number
      popped == [nc.levels EXCEPT ![at] = Front(@)]
  IN [nc EXCEPT
        !.parents = @ \ {b},
        !.levels = IF popped[at] = <<>> THEN Front(popped) ELSE popped,
        !.values = discard_values(@, Inserted(b))]

OverlayRevertPending(nc) ==
  [FoldRight(RevertInsertion, nc.pending_insertions, nc) EXCEPT
     !.pending_canonicalizations = <<>>,
     !.pending_insertions = <<>>]

-----------------------------------------------------------------------------
\* b and the ancestors that the parent links lead to, the first block without
\* a link included.
PinPath(nc, b) ==
  LET up[h \in Block \cup {Default}] ==
        {h} \cup (IF h \in nc.parents THEN up[Parent[h]] ELSE {})
  IN up[b]

\* A block that is still pending is not pinned at all.
OverlayPin(nc, b) ==
  IF b \in Range(nc.pending_insertions) THEN nc
  ELSE LET path == PinPath(nc, b)
       IN [nc EXCEPT !.pinned = [h \in DOMAIN @ |-> IF h \in path THEN @[h] + 1 ELSE @[h]]]

\* Mutant: the ancestors stay pinned.
OverlayUnpinMutant(nc, b) ==
  [nc EXCEPT !.pinned[b] = IF @ > 0 THEN @ - 1 ELSE @]

OverlayUnpin(nc, b) ==
  LET path == PinPath(nc, b)
      free == {h \in path : nc.pinned[h] = 1} \cap nc.pinned_insertions
      Lost(n) == Cardinality({h \in free : n \in Inserted(h)})
  IN [nc EXCEPT
        !.pinned = [h \in DOMAIN @ |-> IF h \in path /\ @[h] > 0 THEN @[h] - 1 ELSE @[h]],
        !.parents = @ \ free,
        !.pinned_insertions = @ \ free,
        !.values = [n \in Nodes |-> IF @[n] > Lost(n) THEN @[n] - Lost(n) ELSE 0]]

-----------------------------------------------------------------------------
\* new: the overlay the journal gives.  A level is read up to the first
\* missing index, the levels up to the first empty one.
NewOverlay(meta) ==
  IF LAST_CANONICAL \notin DOMAIN meta THEN EmptyOverlay ELSE
  LET last == meta[LAST_CANONICAL]
      Found(n, i) == to_journal_key(n, i) \in DOMAIN meta
      Width(n) == CHOOSE w \in 0 .. Cardinality(Block) :
                    /\ ~Found(n, w)
                    /\ \A i \in 0 .. w - 1 : Found(n, i)
      height == CHOOSE h \in 0 .. Cardinality(Block) :
                  /\ Width(last.number + h + 1) = 0
                  /\ \A k \in 1 .. h : Width(last.number + k) > 0
      levels == [k \in 1 .. height |->
                   [i \in 1 .. Width(last.number + k) |->
                      [hash |-> meta[to_journal_key(last.number + k, i - 1)],
                       index |-> i - 1]]]
      read == UNION {Range(levels[k]) : k \in 1 .. height}
  IN [EmptyOverlay EXCEPT
        !.last_canonicalized = last,
        !.levels = levels,
        !.parents = {o.hash : o \in read},
        !.values = [n \in Nodes |-> Cardinality({o \in read : n \in Inserted(o.hash)})]]
=============================================================================
