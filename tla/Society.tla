------------------------------ MODULE Society -------------------------------
(***************************************************************************)
(* The society pallet: people bid for membership or are vouched for, the   *)
(* lowest bids that the pot can pay become candidates, the members vote on *)
(* them, and at the end of a period one vote, picked at random, decides on *)
(* each.  Those who voted otherwise lose payouts and, after some strikes,  *)
(* their membership; members are challenged to defend theirs.              *)
(*                                                                         *)
(* s = [b |-> ledger, s |-> storage of the pallet].  Random picks are      *)
(* choices, so the hooks yield the set of their outcomes.                  *)
(***************************************************************************)
EXTENDS Balances

CONSTANTS
  SocietyAccount, PayoutsAccount,   \* account_id() and payouts()
  CandidateDeposit, WrongSideDeduction, MaxStrikes, PeriodSpend, RotationPeriod,
  ChallengePeriod, MaxLockDuration,
  MaxBidCount                       \* MAX_BID_COUNT

VARIABLE soc

\* Optional values are sets of at most one element; members is a sorted list,
\* a bid is [who, value, kind], a payout <<when, amount>>.  lost is what bidders
\* have reserved for a bid that the pallet forgot; founded is history: who had a
\* bid when the society was founded in their name.
SocietyInit(members, founder, max_members) ==
  [founder |-> founder, head |-> founder, max_members |-> max_members,
   members |-> SetToSortSeq(members, <), bids |-> <<>>, candidates |-> <<>>, suspended |-> <<>>,
   suspended_members |-> {}, payouts |-> <<>>, strikes |-> <<>>, vouching |-> <<>>,
   votes |-> <<>>, defender |-> {}, defender_votes |-> <<>>, pot |-> 0,
   lost |-> [x \in Account |-> 0], founded |-> {}]

ByDeposit(deposit) == [deposit |-> deposit, voucher |-> {}, tip |-> 0]
ByVoucher(voucher, tip) == [deposit |-> 0, voucher |-> {voucher}, tip |-> tip]

is_bid(bids, who) == \E k \in DOMAIN bids : bids[k].who = who
is_member(members, who) == Contains(members, who)

DepositsOf(bids, x) ==
  MapThenSumSet(LAMBDA k : IF bids[k].who = x THEN bids[k].kind.deposit ELSE 0, DOMAIN bids)
Forgotten(s, bids) == [s EXCEPT !.lost = [x \in Account |-> @[x] + DepositsOf(bids, x)]]

-----------------------------------------------------------------------------
\* Bids.

\* A bid that leaves the list returns its deposit or frees its voucher.
Released(s, bid) ==
  [b |-> Unreserve(s.b, bid.who, bid.kind.deposit),
   s |-> [s.s EXCEPT !.vouching = Restrict(@, DOMAIN @ \ bid.kind.voucher)]]

\* put_bid: after all bids that are not higher; the list is cut at the end.
put_bid(s, bid) ==
  LET at == Cardinality({k \in DOMAIN s.s.bids : s.s.bids[k].value <= bid.value}) + 1
      bids == InsertAt(s.s.bids, at, bid)
  IN IF Len(bids) > MaxBidCount
     THEN Released([s EXCEPT !.s.bids = Front(bids)], Last(bids))
     ELSE [s EXCEPT !.s.bids = bids]


CanBid(who) ==
  /\ who \notin DOMAIN soc.suspended /\ who \notin soc.suspended_members
  /\ ~is_bid(soc.bids, who) /\ ~is_bid(soc.candidates, who) /\ ~is_member(soc.members, who)

SocBecomes(s) == bal' = s.b /\ soc' = s.s
SocOnly(s) == soc' = s /\ UNCHANGED bal

soc_bid(who, value) ==
  /\ CanBid(who)
  /\ can_reserve(bal, who, CandidateDeposit)
  /\ SocBecomes(put_bid([b |-> Reserve(bal, who, CandidateDeposit), s |-> soc],
                        [who |-> who, value |-> value, kind |-> ByDeposit(CandidateDeposit)]))

soc_unbid(who, pos) ==
  /\ pos \in DOMAIN soc.bids /\ soc.bids[pos].who = who
  /\ SocBecomes(Released([b |-> bal, s |-> [soc EXCEPT !.bids = RemoveAt(@, pos)]], soc.bids[pos]))

soc_vouch(voucher, who, value, tip) ==
  /\ CanBid(who)
  /\ is_member(soc.members, voucher) /\ voucher \notin DOMAIN soc.vouching
  /\ SocBecomes(put_bid([b |-> bal, s |-> [soc EXCEPT !.vouching = Put(@, voucher, "Vouching")]],
                        [who |-> who, value |-> value, kind |-> ByVoucher(voucher, tip)]))

soc_unvouch(voucher, pos) ==
  /\ GetOr(soc.vouching, voucher, "None") = "Vouching"
  /\ pos \in DOMAIN soc.bids /\ soc.bids[pos].kind.voucher = {voucher}
  /\ SocOnly([soc EXCEPT !.vouching = Drop(@, voucher), !.bids = RemoveAt(@, pos)])

soc_vote(voter, candidate, approve) ==
  /\ is_bid(soc.candidates, candidate) /\ is_member(soc.members, voter)
  /\ SocOnly([soc EXCEPT !.votes = Put(@, <<candidate, voter>>, IF approve THEN "Approve" ELSE "Reject")])

soc_defender_vote(voter, approve) ==
  /\ is_member(soc.members, voter)
  /\ SocOnly([soc EXCEPT !.defender_votes = Put(@, voter, IF approve THEN "Approve" ELSE "Reject")])

-----------------------------------------------------------------------------
\* Members, strikes and payouts.

CanAddMember(s) == Len(s.members) < s.max_members
add_member(s, who) ==
  [s EXCEPT !.members = IF Contains(@, who) THEN @ ELSE SetToSortSeq(ToSet(@) \cup {who}, <)]

\* suspend_member, with remove_member, which refuses the head and the founder.
suspend_member(s, who) ==
  IF who \in s.head \cup s.founder \/ ~Contains(s.members, who) THEN s
  ELSE [s EXCEPT !.members = RemoveFirst(@, who), !.suspended_members = @ \cup {who},
                 !.strikes = Drop(@, who)]

PayoutsOf(s, who) == GetOr(s.payouts, who, <<>>)

\* slash_payout: the payouts are eaten up from the first; [s, amount].
slash_payout(s, who, value) ==
  LET eaten == FoldLeft(LAMBDA r, p : IF r.rest >= p[2] THEN [r EXCEPT !.rest = @ - p[2]]
                                      ELSE [rest |-> 0, left |-> Append(r.left, <<p[1], p[2] - r.rest>>)],
                        [rest |-> value, left |-> <<>>], PayoutsOf(s, who))
  IN IF PayoutsOf(s, who) = <<>> THEN [s |-> s, amount |-> 0]
     ELSE [s |-> [s EXCEPT !.payouts = Put(@, who, eaten.left)], amount |-> value - eaten.rest]

bump_payout(s, who, when, value) ==
  LET old == PayoutsOf(s, who)
      at == {k \in DOMAIN old : old[k][1] = when}
      before == Cardinality({k \in DOMAIN old : old[k][1] < when})
  IN IF value = 0 THEN s
     ELSE [s EXCEPT !.payouts = Put(@, who,
             IF at # {} THEN [k \in DOMAIN old |-> IF k \in at THEN <<when, old[k][2] + value>> ELSE old[k]]
             ELSE InsertAt(old, before + 1, <<when, value>>))]

\* pay_accepted_candidate: the tip of a voucher who still vouches is taken off.
pay_accepted_candidate(s, bid, maturity) ==
  LET tipped == {v \in bid.kind.voucher : GetOr(s.s.vouching, v, "None") = "Vouching"}
      freed == [s.s EXCEPT !.vouching = Restrict(@, DOMAIN @ \ bid.kind.voucher)]
      tips == FoldSet(LAMBDA v, t : bump_payout(t, v, maturity, Min2(bid.kind.tip, bid.value)), freed, tipped)
  IN [b |-> Unreserve(s.b, bid.who, bid.kind.deposit),
      s |-> bump_payout(tips, bid.who, maturity,
                        IF tipped = {} THEN bid.value ELSE MonusOf(bid.value, bid.kind.tip))]

lock_duration(x) == PartOf(100 - 50000 \div (x + 500), 100, MaxLockDuration)

soc_payout(who) ==
  /\ is_member(soc.members, who)
  /\ PayoutsOf(soc, who) # <<>> /\ PayoutsOf(soc, who)[1][1] <= now
  /\ CanTransfer(bal, PayoutsAccount, who, PayoutsOf(soc, who)[1][2], FALSE)
  /\ SocBecomes([b |-> Transfer(bal, PayoutsAccount, who, PayoutsOf(soc, who)[1][2]),
                 s |-> [soc EXCEPT !.payouts = IF Len(@[who]) = 1 THEN Drop(@, who)
                                               ELSE [@ EXCEPT ![who] = Tail(@)]]])

\* found, for the council, and unfound.
soc_found(founder, max_members) ==
  /\ soc.head = {} /\ max_members > 1
  /\ Len(soc.members) < max_members
  /\ SocOnly([add_member([soc EXCEPT !.max_members = max_members], founder)
                EXCEPT !.head = {founder}, !.founder = {founder},
                       !.founded = IF is_bid(soc.bids \o soc.candidates, founder)
                                   THEN @ \cup {founder} ELSE @])

soc_unfound(who) ==
  /\ soc.founder = {who} /\ soc.head = {who}
  /\ SocOnly([Forgotten(Forgotten(soc, soc.candidates), soc.suspended)
                EXCEPT !.members = <<>>, !.head = {}, !.founder = {}, !.candidates = <<>>,
                       !.suspended = <<>>])

soc_set_max_members(max) == max > 1 /\ SocOnly([soc EXCEPT !.max_members = max])

\* The founder judges suspended members and candidates.
Expelled(s, who) ==
  LET vouched == {k \in DOMAIN s.bids : s.bids[k].kind.voucher = {who}}
      rest == [s EXCEPT !.payouts = Drop(@, who), !.strikes = Drop(@, who), !.vouching = Drop(@, who)]
  IN IF GetOr(s.vouching, who, "None") = "Vouching" /\ vouched # {}
     THEN [rest EXCEPT !.bids = RemoveAt(@, Min(vouched))] ELSE rest

soc_judge_suspended_member(founder, who, forgive) ==
  /\ soc.founder = {founder} /\ who \in soc.suspended_members
  /\ forgive => CanAddMember(soc)
  /\ SocOnly([(IF forgive THEN add_member(soc, who) ELSE Expelled(soc, who))
                EXCEPT !.suspended_members = @ \ {who}])

\* A candidate that is approved is paid from the pot, but the money of the pot
\* is not moved to the payouts account.
ApproveCandidate(bid) ==
  LET added == add_member([soc EXCEPT !.pot = @ - bid.value], bid.who)
  IN pay_accepted_candidate([b |-> bal, s |-> added], bid, now + lock_duration(Len(added.members)))
RejectCandidate(bid) ==
  [b |-> IF CanRepatriate(bal, bid.who, SocietyAccount, bid.kind.deposit)
         THEN RepatriateReserved(bal, bid.who, SocietyAccount, bid.kind.deposit) ELSE bal,
   s |-> [soc EXCEPT !.vouching = [v \in DOMAIN @ \cup bid.kind.voucher |->
                                     IF v \in bid.kind.voucher THEN "Banned" ELSE @[v]]]]

soc_judge_suspended_candidate(founder, who, judgement) ==
  /\ soc.founder = {founder} /\ who \in DOMAIN soc.suspended
  /\ LET bid == soc.suspended[who]
     IN \E s \in CASE judgement = "Approve" -> IF soc.pot >= bid.value /\ CanAddMember(soc)
                                               THEN {ApproveCandidate(bid)} ELSE {}
                   [] judgement = "Reject" -> {RejectCandidate(bid)}
                   [] judgement = "Rebid" -> {put_bid([b |-> bal, s |-> soc], bid)} :
          SocBecomes([s EXCEPT !.s.suspended = Drop(@, who)])

-----------------------------------------------------------------------------
\* rotate_period.  r holds the ledger, the storage, the list of members that
\* the function has in hand, and what it adds up over the candidates.

VotersOn(r, candidate) == {m \in ToSet(r.members) : <<candidate, m>> \in DOMAIN r.s.votes}
VoteOn(r, candidate, m) == r.s.votes[<<candidate, m>>]

\* One of the votes, picked at random, decides; without votes there is no member.
Verdicts(r, candidate) ==
  {TRUE : m \in {v \in VotersOn(r, candidate) : VoteOn(r, candidate, v) = "Approve"}}
    \cup {FALSE : m \in {v \in VotersOn(r, candidate) : VoteOn(r, candidate, v) # "Approve"}}
    \cup (IF VotersOn(r, candidate) = {} THEN {FALSE} ELSE {})

\* A member that voted the wrong way pays and gets a strike.
Struck(t, m) == [t EXCEPT !.strikes = Put(@, m, GetOr(@, m, 0) + 1)]
Suspended(t, m) == IF t.strikes[m] >= MaxStrikes THEN suspend_member(t, m) ELSE t
BadVote(r, m) ==
  LET slashed == slash_payout(r.s, m, WrongSideDeduction)
  IN [r EXCEPT !.slash = @ + slashed.amount, !.s = Suspended(Struck(slashed.s, m), m)]

InductBid(r, bid, approvals, maturity) ==
  LET paid == pay_accepted_candidate([b |-> r.b, s |-> r.s], bid, maturity)
  IN [r EXCEPT !.b = paid.b, !.s = paid.s, !.approvals = @ + approvals, !.payouts = @ + bid.value,
               !.members = Append(@, bid.who),
               !.accepted = Append(@, [who |-> bid.who, upto |-> r.approvals + approvals,
                                       value |-> bid.value])]
Settled(r, bid, approvals, accepted, maturity) ==
  IF accepted THEN InductBid(r, bid, approvals, maturity)
  ELSE [r EXCEPT !.s.suspended = Put(@, bid.who, bid)]

JudgeWith(r, bid, right, wrong, approvals, accepted, maturity) ==
  Settled(FoldSet(LAMBDA m, t : BadVote(t, m), [r EXCEPT !.rewardees = @ \cup right], wrong),
          bid, approvals, accepted, maturity)

Judge(r, bid, accepted, maturity) ==
  LET matching == {m \in VotersOn(r, bid.who) :
                     VoteOn(r, bid.who, m) = (IF accepted THEN "Approve" ELSE "Reject")}
  IN JudgeWith(r, bid, matching, VotersOn(r, bid.who) \ matching, Cardinality(matching), accepted, maturity)

JudgeAll(r, candidates, maturity) ==
  FoldLeft(LAMBDA R, bid : UNION {{Judge(t, bid, a, maturity) : a \in Verdicts(t, bid.who)} : t \in R},
           {r}, candidates)

\* What was slashed goes to one who voted the right way, or back to the society;
\* then the payouts are funded.
Rewarded(r, maturity) ==
  IF r.slash = 0 THEN {r}
  ELSE IF r.rewardees # {}
  THEN {[r EXCEPT !.s = bump_payout(@, m, maturity, r.slash)] : m \in r.rewardees}
  ELSE {[r EXCEPT !.b = TryTransfer(@, PayoutsAccount, SocietyAccount, r.slash, FALSE)]}

Funded(r) ==
  IF r.payouts = 0 THEN r
  ELSE [r EXCEPT !.s.pot = MonusOf(@, r.payouts),
                 !.b = TryTransfer(@, SocietyAccount, PayoutsAccount, r.payouts, FALSE)]

\* The head is one of the accepted, picked by a random approval or a zero bid;
\* the list in hand is written back, with those who were suspended meanwhile.
PrimaryAt(accepted, point) ==
  accepted[Min({k \in DOMAIN accepted : accepted[k].value = 0 \/ accepted[k].upto > point})].who
Inducted(r) ==
  IF r.accepted = <<>> THEN {r}
  ELSE {[r EXCEPT !.members = SortSeq(@, <), !.s.members = SortSeq(r.members, <),
                  !.s.head = {PrimaryAt(r.accepted, p)}] : p \in 0 .. r.approvals - 1}

Refilled(r) ==
  [r EXCEPT !.s.pot = @ + Min2(PeriodSpend, MonusOf(free_balance(r.b, SocietyAccount), @) \div 2)]

\* take_selected: the cost of a bid that was too high stays in the total.
Select(t, bid, limit, pot) ==
  LET cost == t.cost + bid.value
      take == t.count < limit /\ (IF bid.value = 0 THEN ~t.zero ELSE cost <= pot)
  IN [cost |-> IF t.count < limit THEN cost ELSE t.cost,
      zero |-> t.zero \/ (take /\ bid.value = 0),
      count |-> IF take THEN t.count + 1 ELSE t.count,
      selected |-> IF take THEN Append(t.selected, bid) ELSE t.selected,
      kept |-> IF take THEN t.kept ELSE Append(t.kept, bid)]
SelectUpTo(bids, pot, limit) ==
  FoldLeft(LAMBDA t, bid : Select(t, bid, limit, pot),
           [cost |-> 0, zero |-> FALSE, count |-> 0, selected |-> <<>>, kept |-> <<>>], bids)

Selection(r, t) == [r EXCEPT !.s.candidates = t.selected, !.s.bids = t.kept]
take_selected(r) ==
  Selection(r, SelectUpTo(r.s.bids, r.s.pot, Min2(10, MonusOf(r.s.max_members, Len(r.members)))))

\* Some members, picked at random, begin as skeptics of every candidate.
Skeptical(r) ==
  LET members == ToSet(r.members)
      picks == {S \in SUBSET members : Cardinality(S) <= SqrtOf(Len(r.members)) /\ (S = {} => members = {})}
      cs == {r.s.candidates[k].who : k \in DOMAIN r.s.candidates}
  IN {[r EXCEPT !.s.votes = [v \in DOMAIN @ \cup (cs \X S) |->
                               IF v \in cs \X S THEN "Skeptic" ELSE @[v]]] : S \in picks}

\* The end of a period, for a society that has members.
EndPeriod(r, maturity) ==
  UNION {UNION {{Refilled(i) : i \in Inducted(Funded(w))} :
                  w \in Rewarded([t EXCEPT !.s.votes = <<>>], maturity)} :
           t \in JudgeAll([r EXCEPT !.s.candidates = <<>>], r.s.candidates, maturity)}

\* Without members the candidates are overwritten.
rotate_period(r, n) ==
  UNION {Skeptical(take_selected(t)) :
           t \in IF r.members = <<>> THEN {[r EXCEPT !.s = Forgotten(@, @.candidates)]}
                 ELSE EndPeriod(r, n + lock_duration(Len(r.members)))}

\* rotate_challenge: the members defend themselves in turn, the first and the
\* last of the list excepted.
Challenged(r) ==
  IF Len(r.members) > 2
  THEN {[r EXCEPT !.s.defender = {r.members[k]}] : k \in 2 .. Len(r.members) - 1}
  ELSE {[r EXCEPT !.s.defender = {}]}

VotesFor(r, approve) ==
  Cardinality({m \in ToSet(r.members) \cap DOMAIN r.s.defender_votes :
                 (r.s.defender_votes[m] = "Approve") = approve})
Lose(r, t) == [r EXCEPT !.s = t, !.members = t.members]
Defended(r) ==
  [(IF VotesFor(r, TRUE) > VotesFor(r, FALSE) THEN r
    ELSE Lose(r, suspend_member(r.s, CHOOSE d \in r.s.defender : TRUE)))
     EXCEPT !.s.defender_votes = <<>>]

rotate_challenge(r) ==
  IF r.members = <<>> THEN {r}
  ELSE Challenged(IF r.s.defender = {} THEN r ELSE Defended(r))

\* on_initialize of block n: the outcomes.
InHand(s, members) ==
  [b |-> s.b, s |-> s.s, members |-> members, rewardees |-> {}, approvals |-> 0, slash |-> 0,
   payouts |-> 0, accepted |-> <<>>]
Rotated(s, n) ==
  IF n % RotationPeriod = 0 THEN rotate_period(InHand(s, s.s.members), n) ELSE {InHand(s, <<>>)}
ReadMembers(r) == IF r.members = <<>> THEN [r EXCEPT !.members = r.s.members] ELSE r
society_on_initialize(s, n) ==
  UNION {IF n % ChallengePeriod = 0 THEN rotate_challenge(ReadMembers(r)) ELSE {r} : r \in Rotated(s, n)}

SocietyReserved(x) ==
  DepositsOf(soc.bids, x) + DepositsOf(soc.candidates, x) + DepositsOf(soc.suspended, x) + soc.lost[x]

-----------------------------------------------------------------------------
(* "Suspend a user, removing them from the member list." (lib.rs:1472): no member is suspended.       *)
SuspendedAreOut == soc.suspended_members \cap ToSet(soc.members) = {}
=============================================================================
