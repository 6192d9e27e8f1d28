--------------------------------- MODULE Sync ---------------------------------
(* A full node that synchronises: ChainSync, the part of Protocol that drives *)
(* it, the import queue and its worker, the client, and the peers.            *)
(*                                                                           *)
(* The network worker handles one event of the network at a time, and asks   *)
(* the sync for requests before each (Protocol::poll): turn is "event" once  *)
(* it has asked and nothing happened since.  The import queue and the other  *)
(* users of the client run in threads of their own.                          *)
(*                                                                           *)
(* A setup is [peers, start, own, bad, needs, clears, commits, liars, forks, *)
(* drops, links]: peers maps a peer to the blocks it comes to hold, each     *)
(* [block, best] with best TRUE when it becomes its best block; start is our *)
(* best block at first.                                                      *)
EXTENDS ChainSync

CONSTANTS Peer,     \* the peers
          Setups,   \* the setups to check
          QueueBound \* bound: how many batches wait in the import queue

VARIABLES setup,    \* the setup
          client,   \* [known, best, final]
          sync,     \* the state of ChainSync
          conn,     \* per peer: "out", "open", or "closing" once disconnect_peer was called
          news,     \* per peer: how many of its blocks it holds
          outs,     \* per peer: the requests in flight; all but the last are obsolete
          queue,    \* what the worker of the import queue has to do
          results,  \* the calls on the link of the import queue
          notes,    \* the import notifications on their way to the network
          noted,    \* the last finalized block the network heard of
          turn,
          budget    \* how many more connections may be opened, and may be lost

vars == <<setup, client, sync, conn, news, outs, queue, results, notes, noted, turn, budget>>

\* The blocks a peer holds, and its best block.
Got(p) == {setup.peers[p][i] : i \in 1..news[p]}
Holds(p) == UNION {Ancestors[e.block] : e \in Got(p)}
PeerBest(p) ==
  LET at == {i \in 1..news[p] : setup.peers[p][i].best}
  IN setup.peers[p][Max(at)].block

Init ==
  /\ setup \in Setups
  /\ client = [known |-> Ancestors[setup.start], best |-> setup.start, final |-> Genesis]
  /\ sync = SyncInit(client)
  /\ conn = [p \in Peer |-> "out"]
  /\ news = [p \in Peer |-> Min({1, Len(setup.peers[p])})]
  /\ outs = [p \in Peer |-> <<>>]
  /\ queue = <<>>
  /\ results = <<>>
  /\ notes = <<>>
  /\ noted = Genesis
  /\ turn = "requests"
  /\ budget = [links |-> setup.links, drops |-> setup.drops]

-----------------------------------------------------------------------------
\* send_request: the request before it, if not yet answered, becomes obsolete.
\* One sent to a peer that is being disconnected is not answered.
Send(out) ==
  outs' = [p \in Peer |-> IF p \notin DOMAIN out THEN outs[p]
                          ELSE IF conn'[p] = "closing" THEN <<>>
                          ELSE Append(outs[p], out[p])]

\* behaviour.disconnect_peer
Closing(bad) == conn' = [p \in Peer |-> IF p \in bad THEN "closing" ELSE conn[p]]

Submit(item) == queue' = Append(queue, item)

\* Protocol::poll: block and justification requests.
Requests ==
  /\ turn = "requests"
  /\ \E order \in SetToSeqs(DOMAIN sync.peers),
        lead \in DOMAIN sync.fork_targets \cup {Default} :
       LET b == BlockRequests(sync, client, order, lead)
           j == JustificationRequests(b.s, order)
       IN sync' = j.s /\ UNCHANGED conn /\ Send(b.out @@ j.out)
  /\ turn' = "event"
  /\ UNCHANGED <<setup, client, news, queue, results, notes, noted, budget>>

\* on_status_message of a full node, after the handshake.
Connect(p) ==
  /\ turn = "event"
  /\ conn[p] = "out"
  /\ setup.peers[p] # <<>>
  /\ budget.links > 0
  /\ LET r == NewPeer(sync, client, p, PeerBest(p))
     IN /\ sync' = r.s
        /\ conn' = [conn EXCEPT ![p] = IF p \in r.bad THEN "closing" ELSE "open"]
        /\ Send(r.out)
  /\ turn' = "requests"
  /\ budget' = [budget EXCEPT !.links = @ - 1]
  /\ UNCHANGED <<setup, client, news, queue, results, notes, noted>>

Drop == budget.drops > 0 /\ budget' = [budget EXCEPT !.drops = @ - 1]

\* on_peer_disconnected
Disconnect(p) ==
  /\ turn = "event"
  /\ sync' = PeerDisconnected(sync, p)
  /\ conn' = [conn EXCEPT ![p] = "out"]
  /\ outs' = [outs EXCEPT ![p] = <<>>]
  /\ turn' = "requests"
  /\ UNCHANGED <<setup, client, news, queue, results, notes, noted>>

Closed(p) == conn[p] = "closing" /\ Disconnect(p) /\ UNCHANGED budget
Lost(p) == conn[p] = "open" /\ Drop /\ Disconnect(p)

\* maintain_peers: a request was not answered in time.
Timeout(p) ==
  /\ conn[p] = "open"
  /\ outs[p] # <<>>
  /\ Drop
  /\ Closing({p})
  /\ turn' = "requests"
  /\ UNCHANGED <<setup, client, sync, news, outs, queue, results, notes, noted>>

\* The answer of the peer to a request (on_block_request there): by number
\* along its best chain, by hash downwards.
Answer(p, req) ==
  LET best == PeerBest(p)
      up == Reverse(ancestry[best])
  IN CASE req.what \in {"ancestry", "blocks"} ->
            SubSeq(up, req.from + 1, Min({Len(up), req.from + req.max}))
       [] req.what = "fork" /\ req.from \in Holds(p) ->
            Reverse(SubSeq(ancestry[req.from], 1,
                           Min({Len(ancestry[req.from]), req.max})))
       [] OTHER -> <<>>

\* on_block_response, once handle_response has dropped an obsolete answer.
Respond(p) ==
  /\ turn = "event"
  /\ conn[p] # "out"
  /\ outs[p] # <<>>
  /\ Len(queue) + Len(results) < QueueBound
  /\ LET req == Head(outs[p])
         data == OnBlockData(sync, client, p, Answer(p, req))
         just == OnBlockJustification(sync, p, req.from \in Holds(p))
         rest == [outs EXCEPT ![p] = Tail(@)]
     IN \/ /\ Len(outs[p]) > 1
           /\ outs' = rest
           /\ UNCHANGED <<sync, conn, queue>>
        \/ /\ Len(outs[p]) = 1
           /\ req.what = "justification"
           /\ sync' = just.s
           /\ outs' = rest
           /\ IF just.import = Default THEN UNCHANGED queue
              ELSE Submit([kind |-> "justification", who |-> p, hash |-> just.import])
           /\ UNCHANGED conn
        \/ /\ Len(outs[p]) = 1
           /\ req.what # "justification"
           /\ sync' = data.s
           /\ outs' = [q \in Peer |-> rest[q] \o
                                       IF q \in DOMAIN data.out THEN <<data.out[q]>> ELSE <<>>]
           /\ Closing(data.bad)
           /\ IF data.blocks = <<>> THEN UNCHANGED queue
              ELSE Submit([kind |-> "blocks", todo |-> data.blocks, done |-> <<>>,
                           recent |-> data.recent])
  /\ turn' = "requests"
  /\ UNCHANGED <<setup, client, news, results, notes, noted, budget>>

\* The peer comes to hold another block; on_block_announce, if it is connected.
Announce(p) ==
  /\ turn = "event"
  /\ news[p] < Len(setup.peers[p])
  /\ news' = [news EXCEPT ![p] = @ + 1]
  /\ LET e == setup.peers[p][news[p] + 1]
     IN sync' = IF conn[p] = "out" THEN sync
                ELSE OnBlockAnnounce(sync, client, p, e.block, e.best)
  /\ turn' = "requests"
  /\ UNCHANGED <<setup, client, conn, outs, queue, results, notes, noted, budget>>

-----------------------------------------------------------------------------
\* The client as the import queue, the author and the voter use it.
ImportInto(c, b) ==
  [c EXCEPT !.known = @ \cup {b},
            !.best = IF number[b] > number[@] THEN b ELSE @]

FinalizeIn(c, b) ==
  IF number[b] <= number[c.final] THEN c
  ELSE [c EXCEPT !.final = b, !.best = IF IsAncestor(b, @) THEN @ ELSE b]

\* import_single_block, and Cancelled from import_many_blocks once one failed.
Outcome(b, done) ==
  CASE \E i \in DOMAIN done : done[i].err # "none" -> "Cancelled"
    [] b \in client.known -> "none"
    [] Parent[b] \notin client.known -> "UnknownParent"
    [] b \in setup.bad -> "VerificationFailed"
    [] ~IsAncestor(client.final, b) -> "Other"
    [] OTHER -> "none"

\* import_many_blocks: the next block of the batch.
ImportNext ==
  /\ queue # <<>>
  /\ queue[1].kind = "blocks"
  /\ LET item == queue[1]
         e == Head(item.todo)
         err == Outcome(e.hash, item.done)
         new == err = "none" /\ e.hash \notin client.known
         best == number[e.hash] > number[client.best]
         result == [hash |-> e.hash, origin |-> e.origin, err |-> err, new |-> new,
                    clears |-> new /\ e.hash \in setup.clears,
                    needs |-> new /\ e.hash \in setup.needs]
         done == Append(item.done, result)
     IN /\ client' = IF new THEN ImportInto(client, e.hash) ELSE client
        /\ notes' = IF new /\ item.recent THEN Append(notes, [hash |-> e.hash, best |-> best])
                    ELSE notes
        /\ \/ /\ Len(item.todo) > 1
              /\ queue' = [queue EXCEPT ![1].todo = Tail(@), ![1].done = done]
              /\ UNCHANGED results
           \/ /\ Len(item.todo) = 1
              /\ queue' = Tail(queue)
              /\ results' = Append(results, [kind |-> "blocks", batch |-> done])
  /\ UNCHANGED <<setup, sync, conn, news, outs, noted, turn, budget>>

\* import_justification of the worker: a valid one finalizes the block.
ImportJustification ==
  /\ queue # <<>>
  /\ queue[1].kind = "justification"
  /\ LET item == queue[1]
         success == item.who \notin setup.liars /\ item.hash \in client.known
     IN /\ client' = IF success THEN FinalizeIn(client, item.hash) ELSE client
        /\ results' = Append(results, [kind |-> "justification", hash |-> item.hash,
                                       who |-> item.who, success |-> success])
  /\ queue' = Tail(queue)
  /\ UNCHANGED <<setup, sync, conn, news, outs, notes, noted, turn, budget>>

\* NetworkLink: what the import queue reports, in order.
BlocksProcessed ==
  /\ results # <<>>
  /\ results[1].kind = "blocks"
  /\ LET r == OnBlocksProcessed(sync, client, results[1].batch)
     IN sync' = r.s /\ Closing({p \in r.bad : conn[p] # "out"}) /\ Send(r.out)
  /\ results' = Tail(results)
  /\ turn' = "requests"
  /\ UNCHANGED <<setup, client, news, queue, notes, noted, budget>>

JustificationImported ==
  /\ results # <<>>
  /\ results[1].kind = "justification"
  /\ sync' = OnJustificationImport(sync, results[1].hash, results[1].success)
  /\ Closing(IF results[1].success \/ conn[results[1].who] = "out" THEN {}
             ELSE {results[1].who})
  /\ results' = Tail(results)
  /\ turn' = "requests"
  /\ UNCHANGED <<setup, client, news, outs, queue, notes, noted, budget>>

\* The service hands the notifications of the client to the network: all those
\* of imported blocks, the last one of the finalized blocks.
BlockImported ==
  /\ notes # <<>>
  /\ sync' = IF notes[1].best THEN OnBlockQueued(sync, notes[1].hash) ELSE sync
  /\ notes' = Tail(notes)
  /\ turn' = "requests"
  /\ UNCHANGED <<setup, client, conn, news, outs, queue, results, noted, budget>>

BlockFinalized ==
  /\ noted # client.final
  /\ sync' = [sync EXCEPT !.extra = ExtraFinalized(@, client.final)]
  /\ noted' = client.final
  /\ turn' = "requests"
  /\ UNCHANGED <<setup, client, conn, news, outs, queue, results, notes, budget>>

-----------------------------------------------------------------------------
\* The block author imports a block on our best one.
Author(b) ==
  /\ Parent[b] = client.best
  /\ b \notin client.known
  /\ client' = ImportInto(client, b)
  /\ notes' = Append(notes, [hash |-> b, best |-> TRUE])
  /\ UNCHANGED <<setup, sync, conn, news, outs, queue, results, noted, turn, budget>>

\* The GRANDPA voter finalizes a block, and asks for one it saw votes for.
Commit(b) ==
  /\ b \in client.known
  /\ IsAncestor(client.final, b)
  /\ b # client.final
  /\ client' = FinalizeIn(client, b)
  /\ UNCHANGED <<setup, sync, conn, news, outs, queue, results, notes, noted, turn, budget>>

SyncFork(f) ==
  /\ ~IsKnown(sync, client, f.hash)
  /\ sync' = SetSyncForkRequest(sync, client, f.peers, f.hash)
  /\ turn' = "requests"
  /\ UNCHANGED <<setup, client, conn, news, outs, queue, results, notes, noted, budget>>

\* EXTRA_RETRY_WAIT has passed since a request failed.
RetryWait ==
  /\ \E f \in sync.extra.failed : sync' = [sync EXCEPT !.extra.failed = @ \ {f}]
  /\ turn' = "requests"
  /\ UNCHANGED <<setup, client, conn, news, outs, queue, results, notes, noted, budget>>

Network == \E p \in Peer : Connect(p) \/ Closed(p) \/ Lost(p) \/ Timeout(p) \/ Respond(p) \/ Announce(p)
Worker == ImportNext \/ ImportJustification
Service == BlocksProcessed \/ JustificationImported \/ BlockImported \/ BlockFinalized
Others ==
  \/ \E b \in setup.own : Author(b)
  \/ \E b \in setup.commits : Commit(b)
  \/ \E f \in setup.forks : SyncFork(f)

Next == Requests \/ Network \/ Worker \/ Service \/ Others \/ RetryWait

\* The executor keeps polling the network worker and the import queue, the
\* connections deliver, and time passes.  The network is only looked at between
\* two polls, but a message or a closed connection that waits is not lost.  The guards
\* are those of the actions.
CanRespond(p) ==
  turn = "event" /\ conn[p] # "out" /\ outs[p] # <<>> /\ Len(queue) + Len(results) < QueueBound
CanServe == results # <<>> \/ notes # <<>> \/ noted # client.final

Fairness ==
  /\ []<>(turn # "requests") \/ []<><<Requests>>_vars
  /\ []<>(queue = <<>>) \/ []<><<Worker>>_vars
  /\ []<>(~CanServe) \/ []<><<Service>>_vars
  /\ []<>(sync.extra.failed = {}) \/ []<><<RetryWait>>_vars
  /\ \A p \in Peer :
       /\ <>[](~CanRespond(p)) \/ []<><<Respond(p)>>_vars
       /\ <>[](turn # "event" \/ conn[p] # "closing") \/ []<><<Closed(p)>>_vars

Spec == Init /\ [][Next]_vars /\ Fairness

-----------------------------------------------------------------------------
\* The types of the state.
TypeOK ==
  /\ client.known \subseteq Block /\ client.best \in client.known
  /\ client.final \in Ancestors[client.best]
  /\ DOMAIN sync.peers \subseteq Peer
  /\ sync.queue_blocks \subseteq Block
  /\ DOMAIN sync.fork_targets \subseteq Block
  /\ conn \in [Peer -> {"out", "open", "closing"}]
  /\ turn \in {"requests", "event"}
  /\ budget.links \in 0..setup.links /\ budget.drops \in 0..setup.drops

\* The request that belongs to the state of a peer.
Expects(state, req) ==
  CASE state.kind = "AncestorSearch" -> req = Ancestry(state.num)
    [] state.kind = "DownloadingNew" -> req.what = "blocks" /\ req.from = state.start
    [] state.kind = "DownloadingStale" -> req.what = "fork" /\ req.from = state.hash
    [] state.kind = "DownloadingJustification" -> req = Justification(state.hash)

\* A peer that is busy is one whose answer is still to come: the last request
\* sent to it is the one its state waits for.  Otherwise the answer is dropped,
\* or there is none, and the peer is never asked again.  A peer that is about
\* to be disconnected does not matter.
BusyPeerOwesAnswer ==
  \A p \in DOMAIN sync.peers :
    sync.peers[p].state # Available /\ conn[p] = "open" =>
      outs[p] # <<>> /\ Expects(sync.peers[p].state, Last(outs[p]))

\* A range marked as being downloaded is being downloaded by a peer: nobody
\* else would ask for it, and the ranges behind it would wait for ever.
DownloadHasPeer ==
  \A r \in Starts(sync.blocks) :
    ~IsComplete(sync.blocks, r) =>
      \E p \in DOMAIN sync.peers : sync.peers[p].state = DownloadingNew(r)

\* A block in queue_blocks is in the import queue or among the results that
\* come back from it; otherwise it would count as known and never be asked for.
QueuedIsInQueue ==
  \A h \in sync.queue_blocks :
    \/ \E i \in DOMAIN queue :
         /\ queue[i].kind = "blocks"
         /\ \/ \E j \in DOMAIN queue[i].todo : queue[i].todo[j].hash = h
            \/ \E j \in DOMAIN queue[i].done : queue[i].done[j].hash = h
    \/ \E i \in DOMAIN results :
         /\ results[i].kind = "blocks"
         /\ \E j \in DOMAIN results[i].batch : results[i].batch[j].hash = h

\* Whoever has gone idle would not find anything to ask for: every event that
\* makes a request possible wakes the sync up.  While blocks are in the import
\* queue their results will do so.
IdleHasNothingToAsk ==
  sync.idle /\ sync.queue_blocks = {} =>
    \A order \in SetToSeqs(DOMAIN sync.peers) :
      BlockRequests([sync EXCEPT !.idle = FALSE], client, order, Default).out = Nothing

\* A justification that is needed next is waiting to be asked for, is asked for
\* at a peer that owes an answer, or is being imported.
RootIsRequested ==
  \A h \in Roots(sync.extra.tree) :
    \/ h \in Range(sync.extra.pending)
    \/ h \in sync.extra.importing
    \/ \E p \in DOMAIN sync.extra.active :
         sync.extra.active[p] = h /\ sync.peers[p].state = DownloadingJustification(h)

\* A search for the common ancestor, by exponential backoff and then by binary
\* search, ends at a block of the peer's best chain that we have, also when our
\* chain changes under it.  If ours has only grown, the block is on both best
\* chains, and none above it was when the node started: with no growth at all,
\* it is the highest common one.
SearchIsExact ==
  [][\A p \in DOMAIN sync.peers \cap DOMAIN sync'.peers :
       Searching(sync, p) /\ sync'.peers[p].state = Available =>
         LET found == sync'.peers[p].common
             best == PeerBest(p)
         IN /\ \E b \in Ancestors[best] \cap client.known : number[b] = found
            /\ IsAncestor(setup.start, client.best) =>
                 found \in number[Common(setup.start, best)]..number[Common(client.best, best)]]_vars

\* We end up as high as the peers are, once their chains stand still.  A peer
\* whose chain cannot be ours, for a block in it that does not import or for
\* a finalized block that is not in it, does not count.  There are two more
\* exceptions.  A complete range that could be imported stays in the collection
\* when the range below it goes with its peer: only the next answer drains it.
\* And a peer whose common number is below the finalized one, by a finalization
\* just after the search for it, is not asked until it announces a block.
Importable(b) == client.final \in Ancestors[b] /\ Ancestors[b] \cap setup.bad = {}
Undrained == Drain(sync.blocks, sync.best_queued + 1).blocks # <<>>
Overtaken(p) == p \in DOMAIN sync.peers /\ sync.peers[p].common < number[client.final]
CatchesUp ==
  <>[](\A p \in Peer :
         conn[p] = "open" /\ Importable(PeerBest(p)) =>
           \/ number[client.best] >= number[PeerBest(p)]
           \/ Undrained
           \/ Overtaken(p))

\* What sync believes to be under way is under way: the answers it waits for,
\* the ranges being downloaded, the blocks being imported.
UnderWay == TypeOK /\ BusyPeerOwesAnswer /\ DownloadHasPeer /\ QueuedIsInQueue
=============================================================================
