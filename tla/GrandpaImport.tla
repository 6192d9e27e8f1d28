---------------------------- MODULE GrandpaImport ----------------------------
(* The finality gadget of one node (client/finality-grandpa): the block      *)
(* import that tracks authority set changes, the finalization of blocks by   *)
(* justifications and by commits, the voter and what it persists, and the    *)
(* restart of the node from its database.                                    *)
(*                                                                           *)
(* The threads are the import queue ("queue"), the block author ("author"),  *)
(* which imports blocks without justifications, and the voter task.  A step  *)
(* is what a thread does under one acquisition of the authority set lock.    *)
(* The client is [known, best, final]; the voter of the finality-grandpa     *)
(* crate is external, and so are the commits and justifications of the other *)
(* authorities: those that exist are given by the setup.                     *)
EXTENDS VoterEnvironment

CONSTANT Setups   \* the networks the node may find itself in

VARIABLES setup,     \* what the rest of the network does
          budget,    \* the crashes and failed writes still to come
          fault,     \* why the node stopped: "none", "voter", "assert"
          chain,     \* the client: [known, best, final]
          stored,    \* the blocks the database keeps a justification of
          auths,     \* SharedAuthoritySet
          consensus, \* SharedConsensusChanges
          vss,       \* SharedVoterSetState
          disk,      \* the aux entries: [auths, consensus, vss]
          imp,       \* where each importing thread is
          commands,  \* voter_commands_rx
          voter,     \* VoterWork: its environment and the running voter
          requested, \* the blocks whose justification sync was asked for
          sent,      \* history: the votes gossiped so far
          replaced   \* history: the rounds in which a proposal replaced a recorded vote

vars == <<setup, budget, fault, chain, stored, auths, consensus, vss, disk, imp,
          commands, voter, requested, sent, replaced>>
history == <<sent, replaced>>
importVars == <<chain, stored, auths, consensus, requested>>
fixed == <<setup, budget, fault>>

NoJust == [block |-> Default, set_id |-> 0, auth |-> Default]
NoCommand == [kind |-> "none"]
Pause == [kind |-> "pause"]
ChangeAuthorities(set, canon) ==
  [kind |-> "change", set_id |-> set.set_id, auth |-> set.auth, canon |-> canon]

NoVote == [kind |-> "none"]
Vote(k, b) == [kind |-> k, block |-> b]

Idle == [pc |-> "idle"]

Known(b) == b \in chain.known

-----------------------------------------------------------------------------
(* Block import *)

\* make_authorities_changes: what the import of b does to the authority set.
AuthorityChanges(b) ==
  LET added == IF Signal[b].kind = "none" THEN Changed(auths, "none")
               ELSE AddPendingChange(auths, b)
      forced == ForcedAt(added.set, b)
      enacts == EnactsStandardChange(added.set, b)
  IN IF forced # {}
     THEN [set |-> ForcedSet(added.set, CHOOSE c \in forced : TRUE), err |-> added.err,
           applied |-> "forced", median |-> Signal[CHOOSE c \in forced : TRUE].median]
     ELSE [set |-> added.set,
           err |-> IF added.err # "none" THEN added.err
                   ELSE IF enacts \in {"root", "inner", "none"} THEN "none" ELSE enacts,
           applied |-> enacts, median |-> 0]

\* The block the new set of a forced change starts from.
ForcedBase(median) ==
  AncestorAt(chain.best, IF median < number[chain.final] THEN median
                         ELSE number[chain.final])

\* PendingSetChanges::drop puts the old set back unless the import succeeded.
Restored(old, new, ok) == IF ok THEN new ELSE old

\* Importing(b): import_block goes past its early exit.
Importing(w, b, j) ==
  /\ fault = "none"
  /\ imp[w] = Idle
  /\ b \in setup.blocks /\ ~Known(b) /\ Known(Parent[b])
  /\ w = "author" => j = NoJust

\* Whether the import of b writes the authority set, and holds its lock until then.
Touched(b, res) == Signal[b].kind # "none" \/ res.applied = "forced"

\* What the thread knows once make_authorities_changes has returned.
Pending(pc, b, j, res) ==
  [pc |-> pc, block |-> b,
   just |-> IF res.applied = "inner" THEN NoJust ELSE j,
   needs |-> res.applied \in {"root", "inner"},
   pause |-> Signal[b].kind = "forced",
   change |-> IF res.applied = "forced"
              THEN ChangeAuthorities(res.set, ForcedBase(res.median)) ELSE NoCommand]

\* The import of the client refuses a block that is there by now, one at or below the
\* finalized number and a new best block off the finalized chain; and it may fail.
Accepted(b, written) ==
  /\ ~Known(b)
  /\ number[b] > number[chain.final]
  /\ number[b] > number[chain.best] => IsAncestor(chain.final, b)
  /\ written
WriteMayFail(written) ==
  /\ written \/ budget.fail > 0
  /\ budget' = IF written THEN budget ELSE [budget EXCEPT !.fail = @ - 1]
WithBlock(b) ==
  [chain EXCEPT !.known = @ \cup {b}, !.best = IF number[b] > number[@] THEN b ELSE @]

\* import_block up to PendingSetChanges::defuse, for a block that changes the authority
\* set: the lock is held until the block is written.
ImportBlock(w, b, j, written) ==
  LET res == AuthorityChanges(b)
      ok == res.err = "none" /\ Accepted(b, written)
  IN /\ Importing(w, b, j)
     /\ Touched(b, res)
     /\ WriteMayFail(written)
     /\ auths' = Restored(auths, res.set, ok)
     /\ IF ok
        THEN /\ chain' = WithBlock(b)
             /\ disk' = [disk EXCEPT
                  !.auths = res.set,
                  !.vss = IF res.applied = "forced"
                          THEN LiveState(res.set.set_id, res.set.auth, ForcedBase(res.median)) ELSE @]
             /\ imp' = [imp EXCEPT ![w] = Pending("tell", b, j, res)]
        ELSE UNCHANGED <<chain, disk, imp>>
     /\ UNCHANGED <<setup, fault, stored, consensus, vss, commands, voter, requested, history>>

\* For another block make_authorities_changes only looks, and releases the lock.
LookAtChanges(w, b, j) ==
  LET res == AuthorityChanges(b)
  IN /\ Importing(w, b, j)
     /\ ~Touched(b, res) /\ res.err = "none"
     /\ imp' = [imp EXCEPT ![w] = Pending("import", b, j, res)]
     /\ UNCHANGED <<fixed, importVars, vss, disk, commands, voter, history>>

InnerImport(w, written) ==
  /\ fault = "none"
  /\ imp[w].pc = "import"
  /\ WriteMayFail(written)
  /\ IF Accepted(imp[w].block, written)
     THEN chain' = WithBlock(imp[w].block) /\ imp' = [imp EXCEPT ![w].pc = "tell"]
     ELSE UNCHANGED chain /\ imp' = [imp EXCEPT ![w] = Idle]
  /\ UNCHANGED <<setup, fault, stored, auths, consensus, vss, disk, commands, voter, requested,
                 history>>

\* The rest of import_block for a block without justification; with one it goes on to
\* import_justification.  A forced change makes sync forget its requests.
Tell(w) ==
  LET i == imp[w]
      asked == IF i.change # NoCommand THEN {} ELSE requested
      done == i.just = NoJust
  IN /\ fault = "none"
     /\ i.pc = "tell"
     /\ commands' = commands \o (IF i.pause THEN <<Pause>> ELSE <<>>)
                             \o (IF i.change # NoCommand THEN <<i.change>> ELSE <<>>)
     /\ requested' = IF done /\ i.needs THEN asked \cup {i.block} ELSE asked
     /\ consensus' = IF done /\ i.block \in setup.cache
                     THEN consensus \cup {i.block} ELSE consensus
     /\ imp' = [imp EXCEPT ![w] =
          IF done THEN Idle
          ELSE [pc |-> "set_id", just |-> i.just, enacts |-> i.needs,
                again |-> i.needs \/ i.block \in setup.cache]]
     /\ UNCHANGED <<fixed, chain, stored, auths, vss, disk, voter, history>>

\* JustificationImport::import_justification, for a justification sync received.
ImportJustification(j) ==
  /\ fault = "none"
  /\ imp["queue"] = Idle
  /\ j \in setup.justs /\ j.block \in requested
  /\ imp' = [imp EXCEPT !["queue"] =
       [pc |-> "set_id", just |-> j, enacts |-> FALSE, again |-> FALSE]]
  /\ UNCHANGED <<fixed, importVars, vss, disk, commands, voter, history>>

-----------------------------------------------------------------------------
(* Finalization *)

\* Mutant: the block is not asked for again.
RefuseMutant(w) == imp' = [imp EXCEPT ![w] = Idle] /\ UNCHANGED requested

\* A block whose authority set change came with a bad justification is asked for.
Refuse(w) ==
  /\ imp' = [imp EXCEPT ![w] = Idle]
  /\ requested' = IF imp[w].again THEN requested \cup {imp[w].just.block} ELSE requested

\* decode_and_verify_finalizes is given the set id and then, under another lock, the
\* authorities.
ReadSetId(w) ==
  /\ fault = "none"
  /\ imp[w].pc = "set_id"
  /\ imp' = [imp EXCEPT ![w] = [pc |-> "verify", just |-> @.just, enacts |-> @.enacts,
                                again |-> @.again, set_id |-> auths.set_id]]
  /\ UNCHANGED <<fixed, importVars, vss, disk, commands, voter, history>>

Verify(w) ==
  LET i == imp[w]
  IN /\ fault = "none"
     /\ i.pc = "verify"
     /\ IF i.just.set_id = i.set_id /\ i.just.auth = auths.auth
        THEN imp' = [imp EXCEPT ![w].pc = "finalize"] /\ UNCHANGED requested
        ELSE Refuse(w)
     /\ UNCHANGED <<fixed, chain, stored, auths, consensus, vss, disk, commands, voter,
                    history>>

\* justification_required of a commit that changes neither authorities nor consensus.
PeriodReached(b) ==
  LET last == number[chain.final]
  IN /\ last # 0 \/ number[b] - last = setup.period
     /\ last \div setup.period # number[b] \div setup.period

JustificationRequired(b, enacted) ==
  enacted \/ FinalizesChange(consensus, chain.best, b) \/ PeriodReached(b)

\* finalize_block: what becomes of it, where res is what apply_standard_changes
\* returns.  "again" is a finalized block of the canonical
\* chain; "error" a change in the wrong order, a block off the finalized chain, or a
\* failed write.
FinalizeOutcome(res, b, written) ==
  CASE number[b] <= number[chain.final] /\ Canonical(chain, b) -> "again"
    [] res.err # "none"                                        -> "error"
    [] ~IsAncestor(chain.final, b) \/ ~written                 -> "error"
    [] res.enacted                                             -> "enacted"
    [] OTHER                                                   -> "done"

\* The state finalize_block leaves.  On an error the authority set is restored; the
\* consensus changes are "restored" to a copy taken after the change.
FinalizeBlock(res, b, justified, written) ==
  LET outcome == FinalizeOutcome(res, b, written)
      left == consensus \ UpTo(consensus, b)
      success == outcome \in {"enacted", "done"}
      live == LiveState(res.set.set_id, res.set.auth, b)
  IN /\ WriteMayFail(written)
     /\ consensus' = IF outcome = "again" \/ res.err # "none" THEN consensus ELSE left
     /\ auths' = IF outcome = "again" THEN auths ELSE Restored(auths, res.set, success)
     /\ IF success
        THEN /\ chain' = [chain EXCEPT !.final = b,
                                       !.best = IF IsAncestor(b, @) THEN @ ELSE b]
             /\ stored' = IF justified \/ JustificationRequired(b, res.enacted)
                          THEN stored \cup {b} ELSE stored
             /\ disk' = [disk EXCEPT !.auths = IF res.changed THEN res.set ELSE @,
                                     !.vss = IF res.enacted THEN live ELSE @,
                                     !.consensus = IF left # consensus THEN left ELSE @]
        ELSE UNCHANGED <<chain, stored, disk>>

\* import_justification from finalize_block on.  Ok(()) from a block that must enact a
\* change fails the assertion and takes the node down.
FinalizeJustified(w, written) ==
  LET i == imp[w]
  IN /\ fault = "none"
     /\ i.pc = "finalize"
     /\ \E res \in {ApplyStandardChanges(auths, i.just.block)} :
        LET outcome == FinalizeOutcome(res, i.just.block, written)
        IN /\ FinalizeBlock(res, i.just.block, TRUE, written)
           /\ CASE outcome = "error" -> Refuse(w) /\ UNCHANGED fault
                [] outcome = "enacted" ->
                     /\ imp' = [imp EXCEPT ![w] =
                          [pc |-> "send", change |-> ChangeAuthorities(auths', i.just.block)]]
                     /\ UNCHANGED <<fault, requested>>
                [] OTHER ->
                     /\ imp' = [imp EXCEPT ![w] = Idle]
                     /\ fault' = IF i.enacts THEN "assert" ELSE fault
                     /\ UNCHANGED requested
     /\ UNCHANGED <<setup, vss, commands, voter, history>>

\* The command is sent to the voter once the lock is released.
SendCommand(w) ==
  /\ fault = "none"
  /\ imp[w].pc = "send"
  /\ commands' = Append(commands, imp[w].change)
  /\ imp' = [imp EXCEPT ![w] = Idle]
  /\ UNCHANGED <<fixed, importVars, vss, disk, voter, history>>
=============================================================================
