------------------------- MODULE ElectionsPhragmen --------------------------
(***************************************************************************)
(* The elections-phragmen pallet: voters with a bond and a lock,           *)
(* candidates, members and runners-up with a bond, and do_phragmen, which  *)
(* elects members and runners-up at the end of a term and hands the        *)
(* members to the council.  Accounts are numbers because the pallet keeps  *)
(* lists sorted by account.  s = [b |-> ledger, e |-> storage of the       *)
(* pallet, c |-> storage of the council].                                  *)
(***************************************************************************)
EXTENDS Collective, Phragmen

CONSTANTS
  CandidacyBond, VotingBond, DesiredMembers, DesiredRunnersUp, TermDuration,
  ELECTIONS_ID

VARIABLE els

\* The runners-up are kept in the order from which the last one is taken; burnt
\* records who lost a bond while staying in one of the two lists.
ElectionsInit ==
  [votes_of |-> <<>>, stake_of |-> <<>>, members |-> {}, runners_up |-> <<>>,
   candidates |-> {}, burnt |-> {}]

is_voter(e, who) == who \in DOMAIN e.stake_of

-----------------------------------------------------------------------------
\* do_phragmen.

\* ChangeMembers::compute_members_diff as far as the outgoing: a merge of two
\* lists that it takes to be sorted.
OutgoingOf(new, old) ==
  LET merge[i \in 1 .. Len(old) + 1, j \in 1 .. Len(new) + 1] ==
        IF i > Len(old) THEN <<>>
        ELSE IF j > Len(new) THEN SubSeq(old, i, Len(old))
        ELSE IF old[i] = new[j] THEN merge[i + 1, j + 1]
        ELSE IF old[i] < new[j] THEN <<old[i]>> \o merge[i + 1, j]
        ELSE merge[i, j + 1]
  IN merge[1, 1]

Sorted(S) == SetToSortSeq(S, <)

\* slash_reserved of a bond whose imbalance is dropped: LoserCandidate,
\* BadReport and KickedMember are ().
BurnReserved(b, who, v) == DropNegative(SlashReserved(b, who, v), SlashedReserve(b, who, v))

\* The winners with some approval, in the order of election.
NewSet(e, voters) ==
  LET all == Sorted(e.candidates) \o Sorted(e.members) \o e.runners_up
      winners == elect(DesiredMembers + DesiredRunnersUp, all,
                       [k \in DOMAIN voters |-> [votes |-> e.votes_of[voters[k]],
                                                 budget |-> e.stake_of[voters[k]]]]).winners
  IN FoldLeft(LAMBDA seats, w : IF w[2] > 0 THEN Append(seats, w[1]) ELSE seats, <<>>, winners)

\* Losing candidates and all who left one of the two lists have a bond burnt.
Installed(s, members, runners_up, prime, losers, leaving, outgoing) ==
  [b |-> FoldLeft(LAMBDA b, x : BurnReserved(b, x, CandidacyBond), s.b, losers \o outgoing),
   e |-> [s.e EXCEPT !.members = members, !.runners_up = runners_up, !.candidates = {},
                     !.burnt = @ \cup (ToSet(outgoing) \cap (members \cup ToSet(runners_up)))],
   c |-> set_prime(change_members_sorted(s.c, ToSet(leaving), members), prime)]

Leaving(s, members, runners_up, prime, leaving) ==
  Installed(s, members, runners_up, prime,
            Sorted(s.e.candidates \ (members \cup ToSet(runners_up))), leaving,
            leaving \o OutgoingOf(runners_up, s.e.runners_up))

\* The first winners become members, the others runners-up, the best one last.
Seated(s, new_set, split) ==
  LET members == {new_set[k] : k \in 1 .. split}
  IN Leaving(s, members, Reverse(SubSeq(new_set, split + 1, Len(new_set))),
             IF split = 0 THEN {} ELSE {new_set[1]},
             OutgoingOf(Sorted(members), Sorted(s.e.members)))

Winners(s, new_set) == Seated(s, new_set, Min2(DesiredMembers, Len(new_set)))

do_phragmen(s) == Winners(s, NewSet(s.e, Sorted(DOMAIN s.e.votes_of)))

\* on_initialize of block n.
elections_on_initialize(s, n) ==
  IF TermDuration # 0 /\ n % TermDuration = 0 THEN do_phragmen(s) ELSE s

-----------------------------------------------------------------------------
\* The dispatchables.

\* vote: a first vote reserves the bond; the lock is what the voter names, and
\* at most what it has.
els_vote(who, votes, value) ==
  LET bonded == IF is_voter(els, who) THEN bal ELSE Reserve(bal, who, VotingBond)
      locked == Min2(value, total_balance(bonded, who))
  IN /\ Len(votes) \in 1 .. Cardinality(els.candidates) + Cardinality(els.members)
     /\ value > ExistentialDeposit
     /\ is_voter(els, who) \/ can_reserve(bal, who, VotingBond)
     /\ bal' = set_lock(bonded, ELECTIONS_ID, who, locked)
     /\ els' = [els EXCEPT !.stake_of = Put(@, who, locked), !.votes_of = Put(@, who, votes)]
     /\ UNCHANGED col

\* do_remove_voter.
RemoveVoter(b, e, who, unreserve) ==
  LET removed == remove_lock(b, ELECTIONS_ID, who)
  IN [b |-> IF unreserve THEN Unreserve(removed, who, VotingBond) ELSE removed, c |-> col,
      e |-> [e EXCEPT !.votes_of = Drop(@, who), !.stake_of = Drop(@, who)]]

ElsBecomes(s) == bal' = s.b /\ els' = s.e /\ col' = s.c

els_remove_voter(who) ==
  /\ is_voter(els, who)
  /\ ElsBecomes(RemoveVoter(bal, els, who, TRUE))

is_defunct_voter(e, who) ==
  /\ is_voter(e, who)
  /\ ToSet(e.votes_of[who]) \cap (e.members \cup ToSet(e.runners_up) \cup e.candidates) = {}

\* report_defunct_voter: a wrong report costs the reporter its bond and vote.
els_report_defunct_voter(reporter, target) ==
  /\ reporter # target /\ is_voter(els, reporter)
  /\ IF is_defunct_voter(els, target)
     THEN /\ CanRepatriate(bal, target, reporter, VotingBond)
          /\ ElsBecomes(RemoveVoter(RepatriateReserved(bal, target, reporter, VotingBond),
                                    els, target, FALSE))
     ELSE ElsBecomes(RemoveVoter(BurnReserved(bal, reporter, VotingBond), els, reporter, FALSE))

els_submit_candidacy(who) ==
  /\ who \notin els.candidates \cup els.members \cup ToSet(els.runners_up)
  /\ can_reserve(bal, who, CandidacyBond)
  /\ bal' = Reserve(bal, who, CandidacyBond)
  /\ els' = [els EXCEPT !.candidates = @ \cup {who}]
  /\ UNCHANGED col

\* remove_and_replace_member: the last runner-up moves up, unless it is a member.
RemoveAndReplace(s, who) ==
  LET rest == s.e.members \ {who}
      runners_up == s.e.runners_up
      next == IF runners_up = <<>> THEN {} ELSE {Last(runners_up)}
  IN [b |-> s.b,
      e |-> [s.e EXCEPT !.members = rest \cup next,
                        !.runners_up = IF @ = <<>> THEN @ ELSE Front(@)],
      c |-> change_members_sorted(s.c, {who}, rest \cup next),
      replaced |-> next \ rest # {}]

\* renounce_candidacy tries the three lists in this order.
els_renounce_candidacy(who) ==
  LET returned == [b |-> Unreserve(bal, who, CandidacyBond), e |-> els, c |-> col]
      in_turn == CASE who \in els.members -> RemoveAndReplace(returned, who)
                   [] who \notin els.members /\ Contains(els.runners_up, who) ->
                        [returned EXCEPT !.e.runners_up = RemoveFirst(@, who)]
                   [] OTHER -> [returned EXCEPT !.e.candidates = @ \ {who}]
  IN /\ who \in els.members \cup ToSet(els.runners_up) \cup els.candidates
     /\ ElsBecomes(in_turn)

\* remove_member, for root: without a runner-up there is a new election.
els_remove_member(who) ==
  /\ who \in els.members
  /\ LET r == RemoveAndReplace([b |-> BurnReserved(bal, who, CandidacyBond), e |-> els, c |-> col], who)
     IN ElsBecomes(IF r.replaced THEN r ELSE do_phragmen(r))

\* What the pallet has reserved from an account.
ElectionsReserved(x) ==
  (IF is_voter(els, x) THEN VotingBond ELSE 0)
  + (IF x \in els.candidates \cup els.members \cup ToSet(els.runners_up) THEN CandidacyBond ELSE 0)
=============================================================================
