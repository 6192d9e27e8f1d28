----------------------------- MODULE ChainSync ------------------------------
(* The chain synchronisation of the network: the ranges of blocks being    *)
(* downloaded, the extra requests, and the state machine over both.        *)
EXTENDS ForkTree, FiniteSetsExt

-----------------------------------------------------------------------------
(* The blocks being downloaded (protocol/sync/blocks.rs).                    *)
(*                                                                           *)
(* A collection is [ranges, requests]: ranges maps the start of each range to *)
(* [len, downloading, blocks], with downloading = 0 for BlockRangeState::     *)
(* Complete and blocks = <<>> for Downloading; requests is peer_requests.     *)
(* A downloaded block is [hash, origin].                                      *)

EmptyCollection == [ranges |-> <<>>, requests |-> <<>>]

Starts(bc) == DOMAIN bc.ranges
End(bc, s) == s + bc.ranges[s].len
IsComplete(bc, s) == bc.ranges[s].downloading = 0
Before(bc, s) == {t \in Starts(bc) : t < s}
After(bc, s) == {t \in Starts(bc) : t > s}

WithRange(bc, s, r) ==
  [bc EXCEPT !.ranges = [t \in Starts(bc) \cup {s} |-> IF t = s THEN r ELSE bc.ranges[t]]]
WithoutRanges(bc, gone) ==
  [bc EXCEPT !.ranges = [t \in Starts(bc) \ gone |-> bc.ranges[t]]]

\* insert: blocks is a sequence of hashes from the peer who.
Insert(bc, start, blocks, who) ==
  IF \/ blocks = <<>>
     \/ /\ start \in Starts(bc)
        /\ IsComplete(bc, start)
        /\ bc.ranges[start].len >= Len(blocks)
  THEN bc
  ELSE WithRange(bc, start,
         [len |-> Len(blocks), downloading |-> 0,
          blocks |-> [i \in DOMAIN blocks |-> [hash |-> blocks[i], origin |-> who]]])

\* The loop of needed_blocks looks at the ranges in order, and stops at a
\* range that may be downloaded once more, before a gap, or at the last range.
StopsAt(bc, s, max_parallel) ==
  \/ bc.ranges[s].downloading \in 1..(max_parallel - 1)
  \/ \A t \in After(bc, s) : End(bc, s) < Min(After(bc, s))

\* The range it stops with: [start, end, downloading].
Candidate(bc, count, common, max_parallel) ==
  LET first == common + 1
      s == Min({t \in Starts(bc) : StopsAt(bc, t, max_parallel)})
      cut(from, above) == Min({from + count} \cup above)
  IN IF Starts(bc) = {} \/ Min(Starts(bc)) > first
     THEN [start |-> first, end |-> cut(first, Starts(bc)), downloading |-> 0]
     ELSE IF bc.ranges[s].downloading \in 1..(max_parallel - 1)
     THEN [start |-> s, end |-> End(bc, s), downloading |-> bc.ranges[s].downloading]
     ELSE [start |-> End(bc, s), end |-> cut(End(bc, s), After(bc, s)), downloading |-> 0]

\* What needed_blocks does not ask for: blocks the peer does not have, or too
\* far ahead of the first range.
Refused(bc, start, peer_best, common, max_ahead) ==
  \/ peer_best <= common
  \/ start > peer_best
  \/ Starts(bc) # {} /\ start > Min(Starts(bc)) + max_ahead

\* needed_blocks: [bc, start, end], with end = start when it returns None.
NeededBlocks(bc, who, count, peer_best, common, max_parallel, max_ahead) ==
  LET r == Candidate(bc, count, common, max_parallel)
      end == Min({peer_best + 1, r.end})
      asked == [bc EXCEPT !.requests = [p \in DOMAIN bc.requests \cup {who} |->
                                          IF p = who THEN r.start ELSE bc.requests[p]]]
  IN IF Refused(bc, r.start, peer_best, common, max_ahead)
     THEN [bc |-> bc, start |-> 0, end |-> 0]
     ELSE [bc |-> WithRange(asked, r.start,
                    [len |-> end - r.start, downloading |-> r.downloading + 1,
                     blocks |-> <<>>]),
           start |-> r.start, end |-> end]

\* drain: a complete range is taken while it starts at or below the end of the
\* one before it, or for the first one at or below from.
Drains(bc, from, s) ==
  \A t \in Before(bc, s) \cup {s} :
    /\ IsComplete(bc, t)
    /\ t <= (IF Before(bc, t) = {} THEN from ELSE End(bc, Max(Before(bc, t))))

Drain(bc, from) ==
  LET taken == {s \in Starts(bc) : Drains(bc, from, s)}
      order == SetToSortSeq(taken, <)
  IN [bc |-> WithoutRanges(bc, taken),
      blocks |-> FlattenSeq([i \in DOMAIN order |-> bc.ranges[order[i]].blocks])]

\* Mutant: the range of the peer stays marked as being downloaded.
ClearPeerDownloadMutant(bc, who) ==
  [bc EXCEPT !.requests = [p \in DOMAIN bc.requests \ {who} |-> bc.requests[p]]]

\* clear_peer_download
ClearPeerDownload(bc, who) ==
  LET s == bc.requests[who]
      freed == [bc EXCEPT !.requests = [p \in DOMAIN bc.requests \ {who} |-> bc.requests[p]]]
  IN IF who \notin DOMAIN bc.requests THEN bc
     ELSE IF s \notin Starts(bc) \/ IsComplete(bc, s) THEN freed
     ELSE IF bc.ranges[s].downloading > 1
     THEN [freed EXCEPT !.ranges[s].downloading = @ - 1]
     ELSE WithoutRanges(freed, {s})

-----------------------------------------------------------------------------
(* The requests for justifications (protocol/sync/extra_requests.rs).        *)
(*                                                                           *)
(* A value is [tree, best_seen, pending, active, failed, importing]: pending *)
(* is the queue of requested blocks, active maps a peer to the block it was  *)
(* asked for, failed is the set of <<block, peer>> that failed less than     *)
(* EXTRA_RETRY_WAIT ago, importing is a set of blocks.                       *)

NoExtras == [tree |-> EmptyTree, best_seen |-> 0, pending |-> <<>>, active |-> <<>>,
             failed |-> {}, importing |-> {}]

ExtraReset(x) ==
  [x EXCEPT !.tree = EmptyTree, !.pending = <<>>, !.active = <<>>, !.failed = {}]

Schedule(x, b) ==
  LET i == Import(x.tree, b)
  IN [x EXCEPT !.tree = i.tree,
               !.pending = IF i.err = "none" /\ b \in Roots(i.tree) THEN Append(@, b) ELSE @]

WithoutActive(x, who) ==
  [x EXCEPT !.active = [p \in DOMAIN x.active \ {who} |-> x.active[p]]]

ExtraPeerDisconnected(x, who) ==
  IF who \notin DOMAIN x.active THEN x
  ELSE [WithoutActive(x, who) EXCEPT !.pending = <<x.active[who]>> \o @]

\* on_response: the request goes on to the import queue when there is a
\* justification, and is asked for again when there is none.
OnResponse(x, who, found) ==
  LET b == x.active[who]
  IN IF who \notin DOMAIN x.active THEN x
     ELSE IF found THEN [WithoutActive(x, who) EXCEPT !.importing = @ \cup {b}]
     ELSE [WithoutActive(x, who) EXCEPT !.failed = @ \cup {<<b, who>>},
                                        !.pending = <<b>> \o @]

\* try_finalize_root: it returns whether b was importing.
TryFinalizeRoot(x, b, success, reschedule) ==
  LET y == [x EXCEPT !.importing = @ \ {b}]
      t == FinalizeRoot(x.tree, b)
  IN CASE b \notin x.importing -> x
       [] ~success             -> IF reschedule THEN [y EXCEPT !.pending = <<b>> \o @] ELSE y
       [] b \notin Roots(x.tree) -> y
       [] OTHER -> [y EXCEPT !.tree = t, !.pending = SetToSeq(Roots(t)),
                             !.active = <<>>, !.failed = {}, !.best_seen = number[b]]

\* on_block_finalized
ExtraFinalized(x, b) ==
  LET higher == number[b] > x.best_seen
      t == IF higher THEN FinalizeWithAncestors(x.tree, b).tree ELSE x.tree
      roots == Roots(t)
      isRoot(h) == h \in roots
  IN IF b \in x.importing THEN TryFinalizeRoot(x, b, TRUE, FALSE)
     ELSE [x EXCEPT !.tree = t,
                    !.best_seen = IF higher THEN number[b] ELSE @,
                    !.pending = SelectSeq(@, isRoot),
                    !.active = [p \in {q \in DOMAIN @ : @[q] \in roots} |-> @[p]],
                    !.failed = {f \in @ : f[1] \in roots}]

-----------------------------------------------------------------------------
\* Matcher::next finds a peer for a request: order is the order of the peers,
\* ready the available ones with their best number.
AskOf(x, b, order, ready) ==
  SelectSeq(order, LAMBDA p : /\ p \in DOMAIN ready
                              /\ ready[p] >= number[b]
                              /\ p \notin DOMAIN x.active
                              /\ <<b, p>> \notin x.failed)

\* One call of next: the requests before the first one that finds a peer go to
\* the back, and count against remaining; [x, peer, remaining], with peer =
\* Default for None.
MatchNext(x, order, ready, remaining) ==
  LET size == Len(x.pending)
      fits == {i \in 1..Min({remaining, size}) : AskOf(x, x.pending[i], order, ready) # <<>>}
      i == Min(fits)
      b == x.pending[i]
      p == AskOf(x, b, order, ready)[1]
      turned(k) == SubSeq(x.pending, k + 1, size) \o SubSeq(x.pending, 1, k)
  IN IF size = 0 THEN [x |-> x, peer |-> Default, remaining |-> 0]
     ELSE IF fits = {}
     THEN [x |-> [x EXCEPT !.pending = turned(remaining % size)],
           peer |-> Default, remaining |-> 0]
     ELSE [x |-> [x EXCEPT !.pending = Tail(turned(i - 1)),
                           !.active = [q \in DOMAIN @ \cup {p} |-> IF q = p THEN b ELSE @[q]]],
           peer |-> p, remaining |-> remaining - (i - 1)]

-----------------------------------------------------------------------------
(* The synchronisation of the chain (protocol/sync.rs), as operators on      *)
(*   s = [peers, blocks, best_queued_hash, best_queued, queue_blocks,        *)
(*        best_imported, fork_targets, idle, extra]                          *)
(* given the client c = [known, best, final].  peers maps a peer to its      *)
(* PeerSync [common, best, state, recent], fork_targets a hash to            *)
(* [parent, peers], with parent = Default for None.  A request is            *)
(* [what, from, max]; out maps peers to the requests to send, and bad is the *)
(* set of the peers to disconnect.                                           *)

CONSTANTS MaxRequest,     \* MAX_BLOCKS_TO_REQUEST
          MaxImporting,   \* MAX_IMPORTING_BLOCKS
          MaxAhead,       \* MAX_DOWNLOAD_AHEAD
          MajorSync,      \* MAJOR_SYNC_BLOCKS
          MaxParallel     \* max_parallel_downloads

ASSUME SyncAssumption ==
  /\ MaxRequest \in Nat \ {0}
  /\ MaxParallel \in Nat \ {0}
  /\ {MaxImporting, MaxAhead, MajorSync} \subseteq Nat

Available == [kind |-> "Available"]
AncestorSearch(num, step) == [kind |-> "AncestorSearch", num |-> num, step |-> step]
DownloadingNew(start) == [kind |-> "DownloadingNew", start |-> start]
DownloadingStale(h) == [kind |-> "DownloadingStale", hash |-> h]
DownloadingJustification(h) == [kind |-> "DownloadingJustification", hash |-> h]

Backoff(distance) == [distance |-> distance]
Binary(left, right) == [left |-> left, right |-> right]

Ancestry(n) == [what |-> "ancestry", from |-> n, max |-> 1]
Blocks(start, max) == [what |-> "blocks", from |-> start, max |-> max]
Fork(h, max) == [what |-> "fork", from |-> h, max |-> max]
Justification(h) == [what |-> "justification", from |-> h, max |-> 1]

SyncInit(c) ==
  [peers |-> <<>>, blocks |-> EmptyCollection, best_queued_hash |-> c.best,
   best_queued |-> number[c.best], queue_blocks |-> {}, best_imported |-> number[c.best],
   fork_targets |-> <<>>, idle |-> FALSE, extra |-> NoExtras]

Put(f, k, v) == [x \in DOMAIN f \cup {k} |-> IF x = k THEN v ELSE f[x]]
Nothing == <<>>

\* The best number of a peer.
BestNumber(s, p) == number[s.peers[p].best]
Searching(s, p) == s.peers[p].state.kind = "AncestorSearch"

\* is_known: queued, or imported by the client.
IsKnown(s, c, h) == h \in s.queue_blocks \/ h \in c.known

\* The canonical hash at height n (BlockchainInfo::block_hash), Default for None.
CanonHash(c, n) ==
  IF n > number[c.best] THEN Default
  ELSE CHOOSE b \in Ancestors[c.best] : number[b] = n

-----------------------------------------------------------------------------
\* new_peer: what the peer starts with, and the request it is sent.
Entry(common, best, state) ==
  [common |-> common, best |-> best, state |-> state, recent |-> {}]

NewPeer(s, c, p, best) ==
  LET with(e, idle) == [s EXCEPT !.peers = Put(@, p, e), !.idle = idle]
      at == Min({s.best_queued, number[best]})
      enter(e, idle, out) == [s |-> with(e, idle), out |-> out, bad |-> {}]
  IN IF IsKnown(s, c, best)
     THEN enter(Entry(number[best], best, Available), FALSE, Nothing)
     ELSE IF number[best] = 0
     THEN [s |-> s, out |-> Nothing, bad |-> {p}]
     ELSE IF Cardinality(s.queue_blocks) > MajorSync
     THEN enter(Entry(s.best_queued, best, Available), s.idle, Nothing)
     ELSE IF s.best_queued = 0
     THEN enter(Entry(0, best, Available), FALSE, Nothing)
     ELSE enter(Entry(0, best, AncestorSearch(at, Backoff(1))), FALSE, (p :> Ancestry(at)))

\* on_block_queued
OnBlockQueued(s, b) ==
  LET n == number[b]
      follow(p) == IF Searching(s, p) THEN s.peers[p]
                   ELSE [s.peers[p] EXCEPT !.common = Min({BestNumber(s, p), n})]
      done == [s EXCEPT !.fork_targets = [h \in DOMAIN @ \ {b} |-> @[h]], !.idle = FALSE]
  IN IF n <= s.best_queued THEN done
     ELSE [done EXCEPT !.best_queued = n, !.best_queued_hash = b,
                       !.peers = [p \in DOMAIN @ |-> follow(p)]]

\* Mutant: the peers are forgotten.
RestartForgets(s, c) ==
  [s |-> [s EXCEPT !.queue_blocks = {}, !.blocks = EmptyCollection, !.best_queued_hash = c.best,
                   !.best_queued = number[c.best], !.idle = FALSE, !.peers = <<>>],
   out |-> Nothing, bad |-> {}]

\* restart: every peer enters again.
Restart(s, c) ==
  LET fresh == [s EXCEPT !.queue_blocks = {}, !.blocks = EmptyCollection,
                         !.best_queued_hash = c.best,
                         !.best_queued = Max({number[c.best], s.best_imported}),
                         !.idle = FALSE, !.peers = <<>>]
      enter(p, r) == LET n == NewPeer(r.s, c, p, s.peers[p].best)
                     IN [s |-> n.s, out |-> n.out @@ r.out, bad |-> n.bad \cup r.bad]
  IN FoldSet(enter, [s |-> fresh, out |-> Nothing, bad |-> {}], DOMAIN s.peers)

\* Mutant: the sync is not woken up.
PeerDisconnectedMutant(s, p) ==
  [s EXCEPT !.blocks = ClearPeerDownload(@, p),
            !.peers = [q \in DOMAIN @ \ {p} |-> @[q]],
            !.extra = ExtraPeerDisconnected(@, p)]

\* peer_disconnected
PeerDisconnected(s, p) ==
  [s EXCEPT !.blocks = ClearPeerDownload(@, p),
            !.peers = [q \in DOMAIN @ \ {p} |-> @[q]],
            !.extra = ExtraPeerDisconnected(@, p),
            !.idle = FALSE]

\* fork_targets.entry(h).or_insert(..).peers.extend(ps)
AddTarget(s, h, parent, ps) ==
  LET t == IF h \in DOMAIN s.fork_targets THEN s.fork_targets[h]
           ELSE [parent |-> parent, peers |-> {}]
  IN [s EXCEPT !.fork_targets = Put(@, h, [t EXCEPT !.peers = @ \cup ps])]

-----------------------------------------------------------------------------
\* Mutant: the search ends with the first match of the backoff.
NextSearchMutant(search, matches) ==
  LET num == search.num
      step == search.step
  IN IF "distance" \notin DOMAIN step \/ matches THEN Available
     ELSE AncestorSearch(Max({num - step.distance, 0}), Backoff(2 * step.distance))

\* handle_ancestor_search_state: the next state of the search, or Available.
NextSearch(search, matches) ==
  LET num == search.num
      step == search.step
      left == IF matches THEN num ELSE step.left
      right == IF matches THEN step.right ELSE num
  IN IF "distance" \in DOMAIN step
     THEN IF matches /\ step.distance = 1 THEN Available
          ELSE IF matches
          THEN AncestorSearch(num + (step.distance \div 2) \div 2,
                              Binary(num, num + step.distance \div 2))
          ELSE AncestorSearch(Max({num - step.distance, 0}), Backoff(2 * step.distance))
     ELSE IF step.left >= num THEN Available
     ELSE AncestorSearch(left + (right - left) \div 2, Binary(left, right))

\* What on_block_data returns: blocks is the batch for the import queue, recent
\* whether it counts as a broadcast.
DataResult(s, out, bad, blocks, recent) ==
  [s |-> s, out |-> out, bad |-> bad, blocks |-> blocks, recent |-> recent]

\* The end of on_block_data: the blocks are queued.
Accept(s, blocks) ==
  LET hashes == {blocks[i].hash : i \in DOMAIN blocks}
      queued == OnBlockQueued(s, Last(blocks).hash)
      recent == \E p \in DOMAIN s.peers : blocks[1].hash \in s.peers[p].recent
  IN IF blocks = <<>> THEN DataResult(s, Nothing, {}, <<>>, FALSE)
     ELSE DataResult([queued EXCEPT !.queue_blocks = @ \cup hashes], Nothing, {}, blocks, recent)

\* on_block_data for an ancestry request: the answer is in hashes.
OnAncestryBlock(s, c, p, hashes) ==
  LET search == s.peers[p].state
      matches == CanonHash(c, search.num) = hashes[1]
      common == IF matches THEN Max({s.peers[p].common, search.num}) ELSE s.peers[p].common
      next == NextSearch(search, matches)
      moved == [s EXCEPT !.peers[p].common = common, !.peers[p].state = next]
      stale == common < BestNumber(s, p) /\ BestNumber(s, p) < s.best_queued
      fail(r) == DataResult(r, Nothing, {p}, <<>>, FALSE)
  IN IF hashes = <<>> THEN fail(s)
     ELSE IF ~matches /\ search.num = 0 THEN fail(s)
     ELSE IF next # Available
     THEN DataResult(moved, (p :> Ancestry(next.num)), {}, <<>>, FALSE)
     ELSE DataResult(IF stale THEN AddTarget(moved, s.peers[p].best, Default, {p}) ELSE moved,
                     Nothing, {}, <<>>, FALSE)

\* on_block_data: an answer of peer p, in ascending order.
OnBlockData(s, c, p, hashes) ==
  LET t == [s EXCEPT !.idle = FALSE]
      state == t.peers[p].state
      free == [t EXCEPT !.peers[p].state = Available]
      filled == Insert(ClearPeerDownload(s.blocks, p), state.start, hashes, p)
      drained == Drain(filled, s.best_queued + 1)
  IN IF p \notin DOMAIN s.peers THEN DataResult(s, Nothing, {}, <<>>, FALSE)
     ELSE CASE state.kind = "DownloadingNew" ->
                 Accept([free EXCEPT !.blocks = drained.bc], drained.blocks)
            [] state.kind = "DownloadingStale" ->
                 Accept(free, [i \in DOMAIN hashes |-> [hash |-> hashes[i], origin |-> p]])
            [] state.kind = "AncestorSearch" -> OnAncestryBlock(t, c, p, hashes)
            [] OTHER -> DataResult(t, Nothing, {}, <<>>, FALSE)

\* on_block_justification: found says whether the answer holds a justification;
\* import is the block whose justification goes to the import queue.
OnBlockJustification(s, p, found) ==
  LET t == [s EXCEPT !.idle = FALSE]
      h == s.extra.active[p]
  IN IF p \notin DOMAIN s.peers THEN [s |-> s, import |-> Default]
     ELSE IF t.peers[p].state.kind # "DownloadingJustification" THEN [s |-> t, import |-> Default]
     ELSE [s |-> [t EXCEPT !.peers[p].state = Available, !.extra = OnResponse(@, p, found)],
           import |-> IF p \in DOMAIN s.extra.active /\ found THEN h ELSE Default]

-----------------------------------------------------------------------------
\* status: far behind the best block seen.
MajorSyncing(s) ==
  \E p \in DOMAIN s.peers : BestNumber(s, p) - s.best_queued > MajorSync

\* fork_sync_request for one peer: the targets that stay, and the one asked
\* for (lead when it is among the eligible ones), Default for None.
ForkSyncRequest(s, c, p, lead) ==
  LET kept == {h \in DOMAIN s.fork_targets :
                 number[h] > number[c.final] /\ ~IsKnown(s, c, h)}
      fits == {h \in kept : p \in s.fork_targets[h].peers /\ number[h] <= s.best_queued}
      h == IF lead \in fits THEN lead ELSE CHOOSE t \in fits : TRUE
      parent == s.fork_targets[h].parent
      count == IF parent # Default /\ IsKnown(s, c, parent) THEN 1
               ELSE number[h] - number[c.final]
  IN [s |-> [s EXCEPT !.fork_targets = [t \in kept |-> s.fork_targets[t]]],
      hash |-> IF fits = {} THEN Default ELSE h,
      max |-> IF fits = {} THEN 0 ELSE count]

\* What block_requests gives to peer p, added to r = [s, out].
PeerRequest(r, c, p, lead, max_parallel) ==
  LET s == r.s
      peer == s.peers[p]
      need == NeededBlocks(s.blocks, p, MaxRequest, BestNumber(s, p), peer.common,
                           max_parallel, MaxAhead)
      new == /\ peer.common >= number[c.final]
             /\ s.best_queued < BestNumber(s, p)
             /\ need.end > need.start
      fork == ForkSyncRequest(s, c, p, lead)
  IN IF peer.state # Available THEN r
     ELSE IF new
     THEN [s |-> [s EXCEPT !.blocks = need.bc,
                           !.peers[p].state = DownloadingNew(need.start)],
           out |-> Put(r.out, p, Blocks(need.start, need.end - need.start))]
     ELSE IF fork.hash = Default THEN [s |-> fork.s, out |-> r.out]
     ELSE [s |-> [fork.s EXCEPT !.peers[p].state = DownloadingStale(fork.hash)],
           out |-> Put(r.out, p, Fork(fork.hash, fork.max))]

\* block_requests: order is the order in which the map of the peers is walked.
\* The closure counts its requests in a copy of have_requests, so the sync is
\* idle afterwards whether or not there were any.
BlockRequests(s, c, order, lead) ==
  LET par == IF MajorSyncing(s) THEN 1 ELSE MaxParallel
      ask(r, p) == PeerRequest(r, c, p, lead, par)
  IN IF s.idle \/ Cardinality(s.queue_blocks) > MaxImporting
     THEN [s |-> s, out |-> Nothing]
     ELSE FoldLeft(ask, [s |-> [s EXCEPT !.idle = TRUE], out |-> Nothing], order)

\* justification_requests: at most one request per peer.
JustificationRequests(s, order) ==
  LET ask(r, i) ==
        LET free == {q \in DOMAIN r.s.peers : r.s.peers[q].state = Available}
            m == MatchNext(r.s.extra, order, [q \in free |-> BestNumber(s, q)], r.remaining)
            h == m.x.active[m.peer]
        IN IF r.remaining = 0 THEN r
           ELSE IF m.peer = Default
           THEN [r EXCEPT !.s.extra = m.x, !.remaining = 0]
           ELSE [s |-> [r.s EXCEPT !.extra = m.x,
                                   !.peers[m.peer].state = DownloadingJustification(h)],
                 out |-> Put(r.out, m.peer, Justification(h)), remaining |-> m.remaining]
      r == FoldLeft(ask, [s |-> s, out |-> Nothing, remaining |-> Len(s.extra.pending)],
                    [i \in 1..(Len(order) + 1) |-> i])
  IN [s |-> r.s, out |-> r.out]

-----------------------------------------------------------------------------
\* One result of on_blocks_processed that is not an error: a block that was
\* known has new = FALSE; clears and needs come with a newly imported block.
OnImported(s, r) ==
  LET reset == IF r.clears THEN [s EXCEPT !.extra = ExtraReset(@)] ELSE s
      asked == IF r.needs THEN [reset EXCEPT !.extra = Schedule(@, r.hash)] ELSE reset
  IN IF r.new THEN [asked EXCEPT !.best_imported = Max({@, number[r.hash]})] ELSE s

\* on_blocks_processed: batch is a sequence of [hash, origin, err, new, clears,
\* needs]; what follows the first error is not looked at.
OnBlocksProcessed(s, c, batch) ==
  LET errors == {i \in DOMAIN batch : batch[i].err # "none"}
      first == IF errors = {} THEN Len(batch) + 1 ELSE Min(errors)
      good == FoldLeft(OnImported, s, SubSeq(batch, 1, first - 1))
      restarts == first <= Len(batch) /\ batch[first].err # "MissingState"
      blamed == IF first <= Len(batch) /\ batch[first].err \in {"VerificationFailed", "BadBlock"}
                THEN {batch[first].origin} ELSE {}
      r == IF restarts THEN Restart(good, c) ELSE [s |-> good, out |-> Nothing, bad |-> {}]
      hashes == {batch[i].hash : i \in DOMAIN batch}
  IN [s |-> [r.s EXCEPT !.queue_blocks = @ \ hashes, !.idle = FALSE],
      out |-> r.out, bad |-> r.bad \cup blamed]

\* on_justification_import
OnJustificationImport(s, b, success) ==
  [s EXCEPT !.extra = TryFinalizeRoot(@, b, success, TRUE), !.idle = FALSE]

\* on_block_announce of a full node: b is announced by p as its best block or
\* as another one.
OnBlockAnnounce(s, c, p, b, is_best) ==
  LET n == number[b]
      known == IsKnown(s, c, b)
      known_parent == IsKnown(s, c, Parent[b])
      heard == [s EXCEPT !.peers[p].recent = @ \cup {b},
                         !.peers[p].best = IF is_best THEN b ELSE @]
      common == IF ~is_best THEN s.peers[p].common
                ELSE IF known THEN n
                ELSE IF Parent[b] = s.best_queued_hash \/ known_parent THEN n - 1
                ELSE s.peers[p].common
      awake == [heard EXCEPT !.peers[p].common = common, !.idle = FALSE]
      downloading == \E q \in DOMAIN s.peers : s.peers[q].state = DownloadingStale(b)
  IN IF n = 0 \/ p \notin DOMAIN s.peers THEN s
     ELSE IF Searching(s, p) THEN heard
     ELSE IF known \/ downloading
     THEN IF b \in DOMAIN s.fork_targets THEN AddTarget(awake, b, Default, {p}) ELSE awake
     ELSE IF n <= s.best_queued THEN AddTarget(awake, b, Parent[b], {p})
     ELSE awake

\* set_sync_fork_request: no peers means all that are far enough.
SetSyncForkRequest(s, c, ps, h) ==
  LET from == IF ps = {} THEN {p \in DOMAIN s.peers : BestNumber(s, p) >= number[h]} ELSE ps
      ahead(p) == p \in from /\ ~Searching(s, p) /\ number[h] > BestNumber(s, p)
      t == [s EXCEPT !.idle = FALSE,
                     !.peers = [p \in DOMAIN @ |-> IF ahead(p) THEN [@[p] EXCEPT !.best = h]
                                                   ELSE @[p]]]
  IN IF IsKnown(s, c, h) THEN s ELSE AddTarget(t, h, Default, from)

=============================================================================
