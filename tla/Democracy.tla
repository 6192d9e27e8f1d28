----------------------------- MODULE Democracy ------------------------------
(***************************************************************************)
(* The democracy pallet: public proposals and their deposits, external     *)
(* proposals, referenda, votes with conviction, delegations and proxies,   *)
(* preimages, and the dispatch queue that on_initialize works through.     *)
(*                                                                         *)
(* The dispatchables change s = [b |-> ledger, d |-> storage of the        *)
(* pallet]; a proposal is named by its hash, and Call says which call the  *)
(* preimage of a hash decodes to.                                          *)
(***************************************************************************)
EXTENDS Balances

CONSTANTS
  Call,              \* [hash -> call]: what the preimage of each proposal is
  LaunchPeriod, VotingPeriod, EmergencyVotingPeriod, EnactmentPeriod, CooloffPeriod,
  MinimumDeposit, PreimageDeposit,
  DEMOCRACY_ID

VARIABLE dem

Hash == DOMAIN Call

DemocracyInit ==
  [public_props |-> <<>>, prop_count |-> 0, deposit_of |-> <<>>, preimages |-> <<>>,
   referendum_count |-> 0, lowest_unbaked |-> 0, info |-> <<>>, queue |-> <<>>,
   voters_for |-> <<>>, vote_of |-> <<>>, proxy |-> <<>>, delegations |-> <<>>,
   locks |-> <<>>, last_external |-> FALSE, next_external |-> {}, blacklist |-> <<>>,
   cancellations |-> {}]

-----------------------------------------------------------------------------
\* Votes and thresholds.

\* Conviction::lock_periods and Conviction::votes; a conviction is 0 .. 6.
lock_periods(c) == IF c = 0 THEN 0 ELSE 2 ^ (c - 1)
VotesOf(c, balance) == IF c = 0 THEN balance \div 10 ELSE balance * c
TurnoutOf(c, balance) == IF c = 0 THEN balance \div 10 ELSE balance

\* n1 / d1 < n2 / d2 by continued fractions; a decreasing bound stands for the
\* loop, whose denominators fall in every round.
compare_rationals(n1, d1, n2, d2) ==
  LET round[i \in 0 .. d1 + d2, a \in Nat, b \in Nat, c \in Nat, d \in Nat] ==
        IF a \div b # c \div d THEN a \div b < c \div d
        ELSE IF c % d = 0 THEN FALSE
        ELSE IF a % b = 0 THEN TRUE
        ELSE round[i - 1, d, c % d, b, a % b]
  IN round[d1 + d2, n1, d1, n2, d2]

approved(threshold, approve, against, voters, electorate) ==
  /\ SqrtOf(voters) # 0
  /\ CASE threshold = "SuperMajorityApprove" ->
            compare_rationals(against, SqrtOf(voters), approve, SqrtOf(electorate))
       [] threshold = "SuperMajorityAgainst" ->
            compare_rationals(against, SqrtOf(electorate), approve, SqrtOf(voters))
       [] threshold = "SimpleMajority" -> approve > against

\* delegated_votes: who counts with a voter, with the conviction that counts.
\* Those who voted themselves do not; the depth limit is not reached, because
\* an account delegates to one other and the voter at the root has voted.
DelegatedTo(d, i, voter, conviction) ==
  LET reach[n \in 0 .. Cardinality(Account)] ==
        IF n = 0 THEN {<<voter, conviction>>}
        ELSE UNION {{<<x, Min2(r[2], d.delegations[x].conviction)>> :
                       x \in {y \in DOMAIN d.delegations :
                                 /\ d.delegations[y].to = r[1]
                                 /\ <<i, y>> \notin DOMAIN d.vote_of}} : r \in reach[n - 1]}
  IN UNION {reach[n] : n \in 1 .. Cardinality(Account)}

\* The accounts that count for one side of a referendum, with their conviction:
\* the voters of that side and those who delegate to them.
Backers(d, i, aye) ==
  LET voters == {v \in GetOr(d.voters_for, i, {}) : d.vote_of[<<i, v>>].aye = aye}
  IN {<<v, d.vote_of[<<i, v>>].conviction>> : v \in voters}
       \cup UNION {DelegatedTo(d, i, v, d.vote_of[<<i, v>>].conviction) : v \in voters}

\* tally and tally_delegation.
tally(s, i) ==
  LET votes(side) == MapThenSumSet(LAMBDA x : VotesOf(x[2], total_balance(s.b, x[1])), side)
      turnout(side) == MapThenSumSet(LAMBDA x : TurnoutOf(x[2], total_balance(s.b, x[1])), side)
  IN [approve |-> votes(Backers(s.d, i, TRUE)), against |-> votes(Backers(s.d, i, FALSE)),
      capital |-> turnout(Backers(s.d, i, TRUE)) + turnout(Backers(s.d, i, FALSE))]

-----------------------------------------------------------------------------
\* Referenda.

is_active_referendum(d, i) == i \in DOMAIN d.info

inject_referendum(d, end, hash, threshold, delay) ==
  [d EXCEPT !.referendum_count = @ + 1,
            !.info = Put(@, d.referendum_count, [end |-> end, hash |-> hash,
                                                 threshold |-> threshold, delay |-> delay])]

\* The voters are forgotten before their votes are looked up by them, so that
\* the votes stay in storage.
clear_referendum(d, i) ==
  LET info == Drop(d.info, i)
      next == IF d.lowest_unbaked # i THEN d.lowest_unbaked
              ELSE Min({j \in i + 1 .. Max2(i + 1, d.referendum_count) :
                          j \in DOMAIN info \/ j >= d.referendum_count})
  IN [d EXCEPT !.info = info, !.lowest_unbaked = next, !.voters_for = Drop(@, i)]

\* The calls of this pallet and of the balances pallet that a proposal makes as
\* root: what the call does, or nothing when it fails.
CancelQueued(d, which) == [d EXCEPT !.queue = SelectSeq(@, LAMBDA x : x.index # which)]
DispatchAsRoot(s, call) ==
  CASE call.kind = "cancel_queued" -> [s EXCEPT !.d = CancelQueued(@, call.index)]
    [] call.kind = "cancel_referendum" -> [s EXCEPT !.d = clear_referendum(@, call.index)]
    [] call.kind = "clear_public_proposals" -> [s EXCEPT !.d.public_props = <<>>]
    [] call.kind = "force_transfer" ->
         [s EXCEPT !.b = TryTransfer(@, call.source, call.dest, call.value, FALSE)]

\* A preimage that does not decode costs the deposit.
enact_proposal(s, hash) ==
  LET image == s.d.preimages[hash]
      taken == [s EXCEPT !.d.preimages = Drop(@, hash)]
  IN CASE hash \notin DOMAIN s.d.preimages -> s
       [] hash \in DOMAIN s.d.preimages /\ Call[hash].kind # "invalid" ->
            DispatchAsRoot([taken EXCEPT !.b = Unreserve(@, image.who, image.deposit)], Call[hash])
       [] OTHER ->
            [taken EXCEPT !.b = IntoPot(SlashReserved(@, image.who, image.deposit),
                                        SlashedReserve(@, image.who, image.deposit))]

-----------------------------------------------------------------------------
\* on_initialize.

\* launch_external, and launch_public: the proposal with most locked behind it,
\* the last of the equals, is taken out by a swap with the last one.
CanLaunchExternal(d) == d.next_external # {}
LaunchExternal(s, n) ==
  LET e == CHOOSE x \in s.d.next_external : TRUE
  IN [s EXCEPT !.d = inject_referendum([@ EXCEPT !.next_external = {}, !.last_external = TRUE],
                                       n + VotingPeriod, e.hash, e.threshold, EnactmentPeriod)]

locked_for(d, prop) ==
  IF prop \in DOMAIN d.deposit_of
  THEN d.deposit_of[prop].amount * Len(d.deposit_of[prop].who) ELSE 0

CanLaunchPublic(d) == d.public_props # <<>>
LaunchPublic(s, n) ==
  LET props == s.d.public_props
      locked == [k \in DOMAIN props |-> locked_for(s.d, props[k].index)]
      winner == Max({k \in DOMAIN props : \A j \in DOMAIN props : locked[j] <= locked[k]})
      p == props[winner]
      rest == Front([props EXCEPT ![winner] = Last(props)])
      deposit == s.d.deposit_of[p.index]
      taken == [s.d EXCEPT !.public_props = rest, !.deposit_of = Drop(@, p.index)]
  IN [b |-> FoldLeft(LAMBDA b, x : Unreserve(b, x, deposit.amount), s.b, deposit.who),
      d |-> inject_referendum(taken, n + VotingPeriod, p.hash, "SuperMajorityApprove",
                              EnactmentPeriod)]

launch_next(s, n) ==
  LET t == [s EXCEPT !.d.last_external = FALSE]
      external == CanLaunchExternal(s.d)
      public == CanLaunchPublic(s.d)
  IN CASE public /\ (s.d.last_external \/ ~external) -> LaunchPublic(t, n)
       [] external /\ (~s.d.last_external \/ ~public) -> LaunchExternal(t, n)
       [] OTHER -> t

\* Mutant: behind what is queued.
QueuePosition_end(queue, n) == Len(queue)

\* slice::binary_search_by_key over the block numbers of the queue: where an
\* item for block n is inserted.
QueuePosition(queue, n) ==
  LET search[size \in 1 .. Len(queue), base \in 0 .. Len(queue) - 1] ==
        IF size = 1 THEN base
        ELSE search[size - (size \div 2),
                    IF queue[base + size \div 2 + 1].at > n THEN base ELSE base + size \div 2]
      found == search[Len(queue), 0]
  IN IF queue = <<>> THEN 0
     ELSE IF queue[found + 1].at < n THEN found + 1 ELSE found

\* The winning voters are locked, the referendum is cleared, and the proposal
\* is enacted at once or queued.
Scheduled(s, passed, delay, item) ==
  CASE passed /\ delay = 0 -> enact_proposal(s, item.hash)
    [] passed /\ delay > 0 -> [s EXCEPT !.d.queue = InsertAt(@, QueuePosition(@, item.at) + 1, item)]
    [] OTHER -> s

LockWinners(s, n, i, winners) ==
  LET until(v) == n + EnactmentPeriod * lock_periods(s.d.vote_of[<<i, v>>].conviction)
  IN [b |-> FoldSet(LAMBDA v, b : extend_lock(b, DEMOCRACY_ID, v, MaxBalance), s.b, winners),
      d |-> [s.d EXCEPT !.locks = [v \in winners \cup DOMAIN @ |->
                                     IF v \in winners THEN until(v) ELSE @[v]]]]

Decided(s, n, i, info, passed) ==
  LET locked == LockWinners(s, n, i, {v \in GetOr(s.d.voters_for, i, {}) :
                                        s.d.vote_of[<<i, v>>].aye = passed})
  IN Scheduled([locked EXCEPT !.d = clear_referendum(@, i)], passed, info.delay,
               [at |-> n + info.delay, hash |-> info.hash, index |-> i])

Passes(t, threshold, electorate) == approved(threshold, t.approve, t.against, t.capital, electorate)

bake_referendum(s, n, i, info) ==
  Decided(s, n, i, info, Passes(tally(s, i), info.threshold, s.b.issuance))

maturing_referenda_at(d, n) ==
  {i \in d.lowest_unbaked .. d.referendum_count - 1 : i \in DOMAIN d.info /\ d.info[i].end = n}

\* begin_block: the referenda and the queue are read once, before what is
\* enacted changes them.
EnactQueue(s, queue, used) ==
  IF used = 0 THEN s
  ELSE [FoldLeft(LAMBDA t, x : enact_proposal(t, x.hash), s, SubSeq(queue, 1, used))
          EXCEPT !.d.queue = SubSeq(queue, used + 1, Len(queue))]

EnactDue(s, n) ==
  EnactQueue(s, s.d.queue,
             Max({k \in 0 .. Len(s.d.queue) : \A j \in 1 .. k : s.d.queue[j].at = n}))

BakeMaturing(s, n) ==
  FoldLeft(LAMBDA t, i : bake_referendum(t, n, i, s.d.info[i]), s,
           SetToSortSeq(maturing_referenda_at(s.d, n), <))

begin_block(s, n) ==
  EnactDue(BakeMaturing(IF n % LaunchPeriod = 0 THEN launch_next(s, n) ELSE s, n), n)

-----------------------------------------------------------------------------
\* The dispatchables.

Becomes(s) == bal' = s.b /\ dem' = s.d
DemOnly(d) == bal' = bal /\ dem' = d

dem_propose(who, hash, value) ==
  /\ value >= MinimumDeposit
  /\ can_reserve(bal, who, value)
  /\ Becomes([b |-> Reserve(bal, who, value),
              d |-> [dem EXCEPT !.prop_count = @ + 1,
                       !.deposit_of = Put(@, dem.prop_count, [amount |-> value, who |-> <<who>>]),
                       !.public_props = Append(@, [index |-> dem.prop_count, hash |-> hash])]])

dem_second(who, prop) ==
  /\ prop \in DOMAIN dem.deposit_of
  /\ can_reserve(bal, who, dem.deposit_of[prop].amount)
  /\ Becomes([b |-> Reserve(bal, who, dem.deposit_of[prop].amount),
              d |-> [dem EXCEPT !.deposit_of[prop].who = Append(@, who)]])

do_vote(who, i, vote) ==
  /\ is_active_referendum(dem, i)
  /\ DemOnly([dem EXCEPT !.voters_for = IF <<i, who>> \in DOMAIN dem.vote_of THEN @
                                        ELSE Put(@, i, GetOr(@, i, {}) \cup {who}),
                         !.vote_of = Put(@, <<i, who>>, vote)])

dem_vote(who, i, vote) == do_vote(who, i, vote)

dem_proxy_vote(who, i, vote) ==
  /\ who \in DOMAIN dem.proxy /\ dem.proxy[who].active
  /\ do_vote(dem.proxy[who].of, i, vote)

dem_emergency_cancel(i) ==
  /\ i \in DOMAIN dem.info /\ dem.info[i].hash \notin dem.cancellations
  /\ DemOnly(clear_referendum([dem EXCEPT !.cancellations = @ \cup {dem.info[i].hash}], i))

\* external_propose respects the blacklist and does not replace; the two other
\* origins do neither.
dem_external_propose(hash, threshold) ==
  /\ threshold = "SuperMajorityApprove" =>
       /\ dem.next_external = {}
       /\ hash \in DOMAIN dem.blacklist => now >= dem.blacklist[hash].until
  /\ DemOnly([dem EXCEPT !.next_external = {[hash |-> hash, threshold |-> threshold]}])

dem_fast_track(voting_period, delay) ==
  \E e \in dem.next_external :
    /\ e.threshold # "SuperMajorityApprove"
    /\ DemOnly(inject_referendum([dem EXCEPT !.next_external = {}],
                                 now + Max2(voting_period, EmergencyVotingPeriod),
                                 e.hash, e.threshold, delay))

dem_veto_external(who) ==
  \E e \in dem.next_external :
    LET vetoers == GetOr(dem.blacklist, e.hash, [vetoers |-> {}]).vetoers
    IN /\ who \notin vetoers
       /\ DemOnly([dem EXCEPT !.next_external = {},
            !.blacklist = Put(@, e.hash, [until |-> now + CooloffPeriod,
                                          vetoers |-> vetoers \cup {who}])])

dem_cancel_referendum(i) == DemOnly(clear_referendum(dem, i))

dem_cancel_queued(which) ==
  /\ \E k \in DOMAIN dem.queue : dem.queue[k].index = which
  /\ DemOnly(CancelQueued(dem, which))

dem_clear_public_proposals == DemOnly([dem EXCEPT !.public_props = <<>>])

dem_open_proxy(who, target) ==
  Becomes([b |-> IF who \in DOMAIN dem.proxy THEN bal ELSE inc_ref(bal, who),
           d |-> [dem EXCEPT !.proxy = Put(@, who, [active |-> FALSE, of |-> target])]])

dem_close_proxy(who) ==
  /\ who \in DOMAIN dem.proxy
  /\ Becomes([b |-> dec_ref(bal, who), d |-> [dem EXCEPT !.proxy = Drop(@, who)]])

dem_activate_proxy(who, proxy) ==
  /\ proxy \in DOMAIN dem.proxy /\ dem.proxy[proxy] = [active |-> FALSE, of |-> who]
  /\ DemOnly([dem EXCEPT !.proxy[proxy].active = TRUE])

dem_deactivate_proxy(who, proxy) ==
  /\ proxy \in DOMAIN dem.proxy /\ dem.proxy[proxy] = [active |-> TRUE, of |-> who]
  /\ DemOnly([dem EXCEPT !.proxy[proxy].active = FALSE])

dem_delegate(who, to, conviction) ==
  Becomes([b |-> extend_lock(bal, DEMOCRACY_ID, who, MaxBalance),
           d |-> [dem EXCEPT !.delegations = Put(@, who, [to |-> to, conviction |-> conviction]),
                             !.locks = Drop(@, who)]])

dem_undelegate(who) ==
  /\ who \in DOMAIN dem.delegations
  /\ LET until == now + EnactmentPeriod * lock_periods(dem.delegations[who].conviction)
     IN Becomes([b |-> set_lock(bal, DEMOCRACY_ID, who, MaxBalance),
                 d |-> [dem EXCEPT !.delegations = Drop(@, who), !.locks = Put(@, who, until)]])

dem_unlock(target) ==
  /\ target \in DOMAIN dem.locks /\ dem.locks[target] <= now
  /\ Becomes([b |-> remove_lock(bal, DEMOCRACY_ID, target),
              d |-> [dem EXCEPT !.locks = Drop(@, target)]])

dem_note_preimage(who, hash) ==
  /\ hash \notin DOMAIN dem.preimages
  /\ can_reserve(bal, who, PreimageDeposit)
  /\ Becomes([b |-> Reserve(bal, who, PreimageDeposit),
              d |-> [dem EXCEPT !.preimages =
                       Put(@, hash, [who |-> who, deposit |-> PreimageDeposit, at |-> now])]])

dem_note_imminent_preimage(who, hash) ==
  /\ hash \notin DOMAIN dem.preimages
  /\ \E k \in DOMAIN dem.queue : dem.queue[k].hash = hash
  /\ DemOnly([dem EXCEPT !.preimages = Put(@, hash, [who |-> who, deposit |-> 0, at |-> now])])

dem_reap_preimage(who, hash) ==
  /\ hash \in DOMAIN dem.preimages
  /\ LET p == dem.preimages[hash]
     IN /\ now >= p.at + VotingPeriod + (IF who = p.who THEN 0 ELSE EnactmentPeriod)
        /\ \A k \in DOMAIN dem.queue : dem.queue[k].hash # hash
        /\ Becomes([b |-> IF CanRepatriate(bal, p.who, who, p.deposit)
                          THEN RepatriateReserved(bal, p.who, who, p.deposit) ELSE bal,
                    d |-> [dem EXCEPT !.preimages = Drop(@, hash)]])

\* What the pallet has reserved from an account.
DemocracyReserved(x) ==
  MapThenSumSet(LAMBDA i : dem.deposit_of[i].amount * CountOf(dem.deposit_of[i].who, x),
                DOMAIN dem.deposit_of)
  + MapThenSumSet(LAMBDA h : IF dem.preimages[h].who = x THEN dem.preimages[h].deposit ELSE 0,
                  DOMAIN dem.preimages)
=============================================================================
