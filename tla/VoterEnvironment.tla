-------------------------- MODULE VoterEnvironment --------------------------
(* What the voter keeps, and what it votes for.                            *)
EXTENDS AuthoritySet

-----------------------------------------------------------------------------
(* What the voter keeps across restarts (environment.rs,                     *)
(* voter_set_state): the last completed rounds of its set and, while it is   *)
(* live, the votes it has cast in each current round.                        *)

NUM_LAST_COMPLETED_ROUNDS == 2

VoteKinds == {"propose", "prevote", "precommit"}

\* HasVoted: what was cast in a round; Default for nothing.
NotVoted == [k \in VoteKinds |-> Default]

\* VoterSetState::live
LiveState(set_id, auth, base) ==
  [mode |-> "live", set_id |-> set_id, auth |-> auth, base |-> base,
   completed |-> <<0>>, rounds |-> 1 :> NotVoted]

PausedState(v) == [v EXCEPT !.mode = "paused", !.rounds = <<>>]

\* CompletedRounds::last and push: newest first, the oldest evicted.
LastCompleted(v) == Head(v.completed)
PushRound(rounds, r) ==
  LET newer == SelectSeq(rounds, LAMBDA x : x > r)
      older == SelectSeq(rounds, LAMBDA x : x < r)
      all == newer \o <<r>> \o older
  IN SubSeq(all, 1, IF Len(all) > NUM_LAST_COMPLETED_ROUNDS
                    THEN NUM_LAST_COMPLETED_ROUNDS ELSE Len(all))

\* SharedVoterSetState::has_voted
HasVotedIn(v, r) ==
  IF v.mode = "live" /\ r \in DOMAIN v.rounds THEN v.rounds[r] ELSE NotVoted

\* with_current_round
TracksRound(v, r) == v.mode = "live" /\ r \in DOMAIN v.rounds

-----------------------------------------------------------------------------
\* proposed, prevoted and precommitted: the state after casting vote b of kind k
\* in round r, and the error that ends the voter.  A vote cast earlier is kept, but a
\* proposal replaces whatever else was recorded; forgets only observes that.

Cast(v, r, k, b) ==
  LET has == v.rounds[r]
      cast == IF k = "propose" THEN [NotVoted EXCEPT !.propose = b]
              ELSE [has EXCEPT ![k] = b]
      kept(err) == [state |-> v, err |-> err, forgets |-> FALSE]
  IN CASE ~TracksRound(v, r) -> kept(TRUE)
       [] has[k] # Default   -> kept(FALSE)
       [] k = "precommit" /\ has["prevote"] = Default -> kept(TRUE)
       [] OTHER -> [state |-> [v EXCEPT !.rounds[r] = cast], err |-> FALSE,
                    forgets |-> k = "propose" /\ has # NotVoted]

\* completed: the round leaves the current ones and the next one is tracked.
CompleteRound(v, r) ==
  [v EXCEPT !.completed = PushRound(@, r),
            !.rounds = [x \in (DOMAIN @ \ {r}) \cup {r + 1} |->
                          IF x = r + 1 THEN NotVoted ELSE @[x]]]

-----------------------------------------------------------------------------
(* The block a voter votes for: the head of the longest chain over the base, *)
(* held back by the authority set limit and by the voting rules              *)
(* (environment.rs best_chain_containing, voting_rule.rs, and the            *)
(* best_containing of primitives/blockchain).                                *)

AncestorAt(b, n) == ancestry[b][number[b] - n + 1]

\* The leaves the database keeps: heads at or above the finalized number.
Leaves(chain) ==
  {b \in chain.known : /\ \A c \in chain.known : Parent[c] # b
                       /\ number[b] >= number[chain.final]}

Canonical(chain, b) == IsAncestor(b, chain.best)

Capped(b, max) == IF max # NoNumber /\ number[b] > max THEN AncestorAt(b, max) ELSE b

\* best_containing: the blocks it may return, none of them for Ok(None).  Leaves of one
\* height are tried in the order of their import, which the model leaves open.
BestContaining(chain, target, max) ==
  LET over == {l \in Leaves(chain) : IsAncestor(target, l)}
      longest == {l \in over : \A m \in over : number[m] <= number[l]}
  IN CASE target \notin chain.known -> {}
       [] max # NoNumber /\ number[target] > max -> {}
       [] Canonical(chain, target) /\ max # NoNumber /\ max <= number[chain.best]
            -> {AncestorAt(chain.best, max)}
       [] ~Canonical(chain, target) /\ number[chain.final] >= number[target] -> {}
       [] OTHER -> {Capped(l, max) : l \in longest}

-----------------------------------------------------------------------------
\* VotingRule::restrict_vote of each rule: the lowered target, or the same one.
RuleNumber(rule, base, best) ==
  CASE rule = "before_best"    -> IF number[best] > 2 THEN number[best] - 2 ELSE 0
    [] rule = "three_quarters" -> number[base]
                                  + ((number[best] - number[base]) * 3 + 2) \div 4

RestrictBy(rule, base, best, target) ==
  IF RuleNumber(rule, base, best) >= number[target] THEN target
  ELSE AncestorAt(target, RuleNumber(rule, base, best))

\* VotingRules: every rule lowers what the one before it left.
RestrictVote(rules, base, best, target) ==
  FoldLeft(LAMBDA t, rule : RestrictBy(rule, base, best, t), target, rules)

\* Mutant: the lowered target is taken although it lies below the base.
VoteTargetMutant(rules, base, best, limit) ==
  LET target == IF limit # NoNumber /\ limit < number[best]
                THEN AncestorAt(best, limit) ELSE best
  IN RestrictVote(rules, base, best, target)

\* The rest of best_chain_containing, once the head of the chain is known: the
\* rules may only lower the vote within the interval from base to target.
VoteTarget(rules, base, best, limit) ==
  LET target == IF limit # NoNumber /\ limit < number[best]
                THEN AncestorAt(best, limit) ELSE best
      lowered == RestrictVote(rules, base, best, target)
  IN IF number[lowered] >= number[base] THEN lowered ELSE target

=============================================================================
