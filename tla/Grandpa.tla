------------------------------- MODULE Grandpa -------------------------------
(* The voter task of the finality gadget beside its block import: VoterWork  *)
(* (lib.rs), the environment the voter runs in (environment.rs), the         *)
(* outgoing messages (communication/mod.rs) and the restart of the node      *)
(* (aux_schema.rs load_persistent, import.rs on_start).                      *)
EXTENDS GrandpaImport

\* VoterWork::rebuild_voter: a new voter starts after the last completed round, and its
\* outgoing messages remember what was voted in it; has_voted is read once.
RebuildVoter(v, set_id, auth) ==
  [set_id |-> set_id, auth |-> auth, round |-> LastCompleted(v) + 1,
   has_voted |-> HasVotedIn(v, LastCompleted(v) + 1),
   stage |-> "start", out |-> NoVote, last |-> chain.final, command |-> NoCommand]

\* The voter future is polled: no internal command waits and it is not in the middle of
\* choosing its vote.
Polled ==
  /\ fault = "none"
  /\ voter.command = NoCommand
  /\ voter.stage # "checked"
  /\ vss.mode = "live"

\* It casts votes: it holds a key of its set and has handed over its last message.
Voting ==
  /\ Polled
  /\ voter.auth \in setup.mine
  /\ voter.round <= setup.rounds
  /\ voter.out = NoVote

\* proposed, prevoted, precommitted: the vote is written before the message is pushed.
\* Acting outside a current round is an error that ends the voter task and the node.
PersistVote(k, b) ==
  LET res == Cast(vss, voter.round, k, b)
  IN /\ vss' = res.state
     /\ disk' = IF res.state # vss THEN [disk EXCEPT !.vss = res.state] ELSE disk
     /\ fault' = IF res.err THEN "voter" ELSE fault
     /\ replaced' = IF res.forgets THEN replaced \cup {<<voter.set_id, voter.round>>} ELSE replaced

VoteUnchanged == UNCHANGED <<setup, budget, importVars, imp, commands, sent>>

Propose ==
  /\ Voting
  /\ setup.propose
  /\ voter.stage = "start"
  /\ PersistVote("propose", voter.last)
  /\ voter' = [voter EXCEPT !.stage = "proposed", !.out = Vote("propose", voter.last)]
  /\ VoteUnchanged

\* best_chain_containing checks the set id first.  A voter that finds no target casts
\* neither a prevote nor a precommit.
CheckSetId ==
  /\ Voting
  /\ voter.stage \in {"start", "proposed"}
  /\ voter' = [voter EXCEPT !.stage = IF voter.set_id = auths.set_id THEN "checked"
                                      ELSE "abstained"]
  /\ UNCHANGED <<fault, vss, disk, replaced>>
  /\ VoteUnchanged

\* The rest of best_chain_containing reads the limit under a lock of its own.
Prevote ==
  LET base == voter.last
      limit == CurrentLimit(auths, number[base])
      heads == BestContaining(chain, base, NoNumber)
  IN /\ fault = "none"
     /\ voter.stage = "checked"
     /\ IF heads = {}
        THEN /\ voter' = [voter EXCEPT !.stage = "abstained"]
             /\ UNCHANGED <<fault, vss, disk, replaced>>
        ELSE \E head \in heads :
               LET target == VoteTarget(setup.rules, base, head, limit)
               IN /\ PersistVote("prevote", target)
                  /\ voter' = [voter EXCEPT !.stage = "prevoted",
                                            !.out = Vote("prevote", target)]
     /\ VoteUnchanged

\* The precommit goes to the GHOST of the prevotes, a block over the voter's base.
Precommit ==
  /\ Voting
  /\ voter.stage = "prevoted"
  /\ \E b \in chain.known :
       /\ IsAncestor(voter.last, b)
       /\ PersistVote("precommit", b)
       /\ voter' = [voter EXCEPT !.stage = "precommitted", !.out = Vote("precommit", b)]
  /\ VoteUnchanged

\* Mutant: the message is sent as it is.
OutgoingMutant(has_voted, vote) == vote.block

\* OutgoingMessages::start_send: a vote of an earlier run is sent instead.
Outgoing(has_voted, vote) ==
  IF has_voted[vote.kind] # Default THEN has_voted[vote.kind] ELSE vote.block

SendVote ==
  /\ Polled
  /\ voter.out # NoVote
  /\ sent' = sent \cup {[set_id |-> voter.set_id, round |-> voter.round,
                         kind |-> voter.out.kind,
                         block |-> Outgoing(voter.has_voted, voter.out)]}
  /\ voter' = [voter EXCEPT !.out = NoVote]
  /\ UNCHANGED <<fixed, importVars, vss, disk, imp, commands, replaced>>

\* completed: the next round starts, with the votes recorded for it.
Complete ==
  LET v == CompleteRound(vss, voter.round)
  IN /\ Polled
     /\ voter.out = NoVote
     /\ voter.round < setup.rounds
     /\ vss' = v
     /\ disk' = [disk EXCEPT !.vss = v]
     /\ voter' = [voter EXCEPT !.round = @ + 1, !.stage = "start",
                               !.has_voted = HasVotedIn(v, voter.round + 1)]
     /\ UNCHANGED <<fixed, importVars, imp, commands, history>>

\* concluded writes the state again, with the later votes of a completed round.
Conclude ==
  /\ Polled
  /\ LastCompleted(vss) > 0
  /\ disk' = [disk EXCEPT !.vss = vss]
  /\ UNCHANGED <<fixed, importVars, vss, imp, commands, voter, history>>

\* Environment::finalize_block, for a commit of the voter's set on an imported block
\* (until_imported.rs holds the others back) above the last one the voter saw.
FinalizeCommit(j, written) ==
  /\ Polled
  /\ j \in setup.justs /\ Known(j.block)
  /\ j.set_id = voter.set_id /\ j.auth = voter.auth
  /\ number[j.block] > number[voter.last]
  /\ \E res \in {ApplyStandardChanges(auths, j.block)} :
       LET outcome == FinalizeOutcome(res, j.block, written)
       IN /\ FinalizeBlock(res, j.block, FALSE, written)
          /\ fault' = IF outcome = "error" THEN "voter" ELSE fault
          /\ voter' = [voter EXCEPT !.last = j.block,
               !.command = IF outcome = "enacted" THEN ChangeAuthorities(auths', j.block)
                           ELSE NoCommand]
  /\ UNCHANGED <<setup, vss, imp, commands, requested, history>>

-----------------------------------------------------------------------------
\* Mutant: the new environment keeps the set id of the old one.
ChangedVoterMutant(c, v) == RebuildVoter(v, voter.set_id, c.auth)

ChangedVoter(c, v) == RebuildVoter(v, c.set_id, c.auth)

\* handle_voter_command.  The state of a new set takes the authorities of the shared
\* authority set, whatever set the command is for.
HandleVoterCommand(c) ==
  LET v == IF c.kind = "pause" THEN PausedState(vss)
           ELSE LiveState(c.set_id, auths.auth, c.canon)
  IN /\ vss' = v
     /\ disk' = [disk EXCEPT !.vss = v]
     /\ voter' = IF c.kind = "pause" THEN RebuildVoter(v, voter.set_id, voter.auth)
                 ELSE ChangedVoter(c, v)

\* A command the voter itself returned comes before those of the channel.
HandleInternal ==
  /\ fault = "none"
  /\ voter.command # NoCommand
  /\ HandleVoterCommand(voter.command)
  /\ UNCHANGED <<fixed, importVars, imp, commands, history>>

HandleExternal ==
  /\ fault = "none"
  /\ voter.command = NoCommand /\ voter.stage # "checked"
  /\ commands # <<>>
  /\ HandleVoterCommand(Head(commands))
  /\ commands' = Tail(commands)
  /\ UNCHANGED <<fixed, importVars, imp, history>>

-----------------------------------------------------------------------------
\* on_start: the effective blocks of the pending changes that are already imported.
EffectiveBlock(c) ==
  IF Signal[c].delay = 0 THEN {c}
  ELSE {b \in BestContaining(chain, c, EffectiveNumber(c)) :
          number[b] = EffectiveNumber(c)}

OnStart(set) ==
  UNION {EffectiveBlock(c) : c \in {d \in InTree(set.standard) :
           /\ EffectiveNumber(d) > number[chain.final]
           /\ EffectiveNumber(d) <= number[chain.best]}}

\* The node stops at any moment and starts again from its database
\* (load_persistent, VoterWork::new).
Restart ==
  /\ budget.crash > 0
  /\ budget' = [budget EXCEPT !.crash = @ - 1]
  /\ fault' = "none"
  /\ auths' = disk.auths
  /\ consensus' = disk.consensus
  /\ vss' = disk.vss
  /\ imp' = [w \in setup.workers |-> Idle]
  /\ commands' = <<>>
  /\ voter' = RebuildVoter(disk.vss, disk.auths.set_id, disk.auths.auth)
  /\ requested' = OnStart(disk.auths)
  /\ UNCHANGED <<setup, chain, stored, disk, history>>

-----------------------------------------------------------------------------
Init ==
  /\ setup \in Setups
  /\ budget = setup.budget
  /\ fault = "none"
  /\ chain = [known |-> {Genesis}, best |-> Genesis, final |-> Genesis]
  /\ stored = {}
  /\ auths = GenesisSet
  /\ consensus = {}
  /\ vss = LiveState(0, Genesis, Genesis)
  /\ disk = [auths |-> auths, consensus |-> consensus, vss |-> vss]
  /\ imp = [w \in setup.workers |-> Idle]
  /\ commands = <<>>
  /\ voter = RebuildVoter(vss, 0, Genesis)
  /\ requested = {}
  /\ sent = {}
  /\ replaced = {}

ImportStep ==
  \/ \E w \in setup.workers, b \in setup.blocks, written \in BOOLEAN :
       \E j \in {NoJust} \cup {x \in setup.justs : x.block = b} :
         ImportBlock(w, b, j, written) \/ LookAtChanges(w, b, j)
  \/ \E w \in setup.workers : Tell(w) \/ ReadSetId(w) \/ Verify(w) \/ SendCommand(w)
  \/ \E w \in setup.workers, written \in BOOLEAN : InnerImport(w, written) \/ FinalizeJustified(w, written)
  \/ \E j \in setup.justs : ImportJustification(j)

VoterStep ==
  \/ Propose \/ CheckSetId \/ Prevote \/ Precommit \/ SendVote
  \/ Complete \/ Conclude
  \/ \E j \in setup.justs, written \in BOOLEAN : FinalizeCommit(j, written)
  \/ HandleInternal \/ HandleExternal

Next == ImportStep \/ VoterStep \/ Restart

Spec == Init /\ [][Next]_vars

-----------------------------------------------------------------------------
(* Properties *)

Sets(s) ==
  /\ s.auth \in Block /\ s.set_id \in Nat
  /\ InTree(s.standard) \subseteq Block /\ s.forced \subseteq Block
  /\ \A n \in InTree(s.standard) : s.standard.up[n] \in InTree(s.standard) \cup {Default}

\* The variables have their types: a fork tree links its nodes to one another, the
\* threads are where they can be, and the voter state is live or paused.
TypeOK ==
  /\ chain.best \in chain.known /\ chain.final \in chain.known
  /\ chain.known \subseteq setup.blocks \cup {Genesis} /\ stored \subseteq chain.known
  /\ Sets(auths) /\ Sets(disk.auths)
  /\ consensus \subseteq chain.known /\ requested \subseteq chain.known
  /\ \A v \in {vss, disk.vss} : /\ v.mode \in {"live", "paused"}
                                /\ v.auth \in Block /\ v.base \in chain.known
                                /\ Len(v.completed) \in 1..NUM_LAST_COMPLETED_ROUNDS
  /\ \A w \in setup.workers :
       imp[w].pc \in {"idle", "import", "tell", "set_id", "verify", "finalize", "send"}
  /\ voter.stage \in {"start", "proposed", "checked", "abstained", "prevoted",
                      "precommitted"}
  /\ fault \in {"none", "voter", "assert"}

\* No block of this network forces a change.
Unforced == \A b \in setup.blocks : Signal[b].kind # "forced"

\* The standard changes a finalized block has made effective.
EnactedBy(b) ==
  {c \in Range(ancestry[b]) : /\ Signal[c].kind = "standard"
                              /\ EffectiveNumber(c) <= number[b]}

\* Whatever the order in which blocks, justifications and commits arrive, and whatever is
\* lost in a failed write or a crash, the current authorities and the set id are the ones
\* that the finalized chain determines: AuthoritySet::apply_standard_changes hands over
\* once for every change the chain has made effective.
AuthoritiesFollowChain ==
  Unforced =>
    LET enacted == EnactedBy(chain.final)
    IN /\ auths.set_id = Cardinality(enacted)
       /\ auths.auth = IF enacted = {} THEN Genesis
                       ELSE CHOOSE c \in enacted : \A d \in enacted : number[d] <= number[c]

\* A change signalled in an imported block that can still be finalized is pending until
\* it is enacted: neither the pruning of the fork tree, nor a reverted finalization, nor
\* a restart loses it.
SignalsArePending ==
  Unforced =>
    \A c \in chain.known :
      /\ Signal[c].kind = "standard"
      /\ IsAncestor(c, chain.final) \/ IsAncestor(chain.final, c)
      /\ c \notin EnactedBy(chain.final)
      => c \in InTree(auths.standard)

\* The authority set in memory is the one a restart would load, up to the number of the
\* last finalization in the tree, which is not written on its own: every change is
\* written with the block that causes it (import.rs "we need to hold the lock until the
\* block is written") and undone when that write fails.
Persisted(s) == [s EXCEPT !.standard.best = NoNumber]
DiskAgrees == Persisted(disk.auths) = Persisted(auths)

\* The finalized block at which a set changed is stored with a justification, which
\* syncing nodes need to follow the handover (finalize_block: "justification is always
\* required when block that enacts new authorities set is finalized").
HandoverIsJustified ==
  Unforced =>
    \A b \in Range(ancestry[chain.final]) :
      (\E c \in EnactedBy(b) : EffectiveNumber(c) = number[b]) => b \in stored

\* A pending change has its effective block asked for: some such block is requested, or
\* in the hands of an importing thread.
BeingHandled ==
  {imp[w].block : w \in {x \in setup.workers : imp[x].pc = "tell"}}
  \cup {imp[w].just.block : w \in {x \in setup.workers :
                                     imp[x].pc \in {"set_id", "verify", "finalize"}}}
Asked(c) ==
  \E b \in requested \cup BeingHandled :
    number[b] = EffectiveNumber(c) /\ IsAncestor(c, b)

\* The pending changes whose effective block is imported and not finalized.
Reached(set) ==
  {c \in InTree(set.standard) :
     /\ EffectiveNumber(c) > number[chain.final]
     /\ \E b \in chain.known : number[b] = EffectiveNumber(c) /\ IsAncestor(c, b)}

\* While the node runs, every pending change whose effective block is imported and not
\* finalized has such a block asked for: a justification that came with the block is
\* imported, or is refused or dropped (import_block, "requesting justification from
\* peers") and then requested.
HandoverIsRequested ==
  fault = "none" /\ budget.crash = setup.budget.crash =>
    \A c \in Reached(auths) : Asked(c)

\* A voter whose set is no longer the current one has been told or is about to be: the
\* command for the current set is in the channel, with the voter, or with the thread
\* that changed the set, and no later command undoes it.
VoterIsTold ==
  fault = "none" /\ voter.set_id # auths.set_id =>
    LET channel == {commands[i] : i \in DOMAIN commands}
        threads == {imp[w].change : w \in {x \in setup.workers :
                                             imp[x].pc \in {"tell", "send"}}}
    IN \E c \in channel \cup threads \cup {voter.command} :
         c.kind = "change" /\ c.set_id = auths.set_id /\ c.auth = auths.auth

\* The node never sends two different votes of one kind in one round of one set, over any
\* number of restarts: HasVoted is written before a vote is sent, and what was sent before
\* is sent again.  The exception is a round in which `proposed` replaced the record of a
\* vote that an earlier run had cast without proposing: after one more restart nothing
\* tells the voter what it sent in the first run.
NoEquivocation ==
  \A v, w \in sent :
    /\ v.set_id = w.set_id /\ v.round = w.round /\ v.kind = w.kind
    /\ <<v.set_id, v.round>> \notin replaced
    => v.block = w.block

\* A vote lies over the block the voter has last seen finalized (best_chain_containing
\* ignores a voting rule that would go below the base).
PrevoteOverBase ==
  [][(voter'.out # voter.out /\ voter'.out.kind = "prevote")
       => IsAncestor(voter.last, voter'.out.block)]_vars

\* A set id names one authority set for ever: the id grows by one when the authorities
\* change and at no other time, finality is never reverted, and a block once finalized
\* stays canonical.
SetIdNamesOneSet ==
  [][/\ auths'.set_id \in {auths.set_id, auths.set_id + 1}
     /\ auths'.auth # auths.auth <=> auths'.set_id # auths.set_id
     /\ IsAncestor(chain.final, chain'.final)
     /\ IsAncestor(chain'.final, chain'.best)]_vars

\* A hand-over can be followed by others: the node asks for the justification
\* of the block that enacts a change, and keeps it once the block is final.
HandoverIsFollowed == HandoverIsJustified /\ HandoverIsRequested

\* The authority sets in memory are the ones of the finalized chain, and the
\* ones on the disk.
SetsAgree == TypeOK /\ AuthoritiesFollowChain /\ DiskAgrees
=============================================================================
