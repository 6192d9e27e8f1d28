------------------------------ MODULE Staking -------------------------------
(***************************************************************************)
(* The staking pallet (frame/staking): bonds and their ledgers, elections  *)
(* of validators, eras, rewards, and slashing with its spans.  The pallet  *)
(* keeps its storage in one record; w is a record of the ledger of the     *)
(* balances pallet, of this storage and of the storage of the session      *)
(* pallet, which the functions below take and return.                      *)
(***************************************************************************)
EXTENDS Session, Phragmen

CONSTANTS
  SessionsPerEra, BondingDuration, SlashDeferDuration,  \* of the runtime
  MAX_UNLOCKING_CHUNKS, MAX_NOMINATIONS, MaxNominatorRewarded,
  SlashRewardFraction,   \* in parts of ACCURACY
  Curve, Year,           \* the points of the reward curve and the length of a year
  STAKING_ID

VARIABLES
  sta   \* the storage of the pallet

None == -1   \* no era, no session, no moment

ASSUME StakingAssumption ==
  {SessionsPerEra, BondingDuration, SlashDeferDuration, MaxNominatorRewarded, Year} \subseteq Nat

NoExposure == [own |-> 0, total |-> 0, others |-> <<>>]

\* What is stored for an era; clear_era_information removes it all.
NoEra == [start |-> None, stakers |-> <<>>, clipped |-> <<>>, prefs |-> <<>>, total |-> 0,
          points |-> <<>>, reward |-> None]
EraOf(t, era) == GetOr(t.eras, era, NoEra)
PutEra(t, era, e) == [t EXCEPT !.eras = Put(@, era, e)]
clear_era_information(t, era) == [t EXCEPT !.eras = Drop(@, era)]

\* fallen, lost, forgotten and unelected only observe: the stashes whose account
\* a slash removed, what slashes and root took, the stashes whose slashes were forgotten
\* and the eras without an election.
StakingInit(count, minimum, depth) ==
  [bonded |-> <<>>, ledger |-> <<>>, payee |-> <<>>, validators |-> <<>>, nominators |-> <<>>,
   count |-> count, minimum |-> minimum, invulnerable |-> {}, force |-> "NotForcing",
   current |-> None, active |-> None, since |-> None, depth |-> depth, eras |-> <<>>,
   bonded_eras |-> <<>>, spans |-> <<>>, span_slash |-> <<>>, validator_slash |-> <<>>,
   nominator_slash |-> <<>>, unapplied |-> <<>>, earliest |-> None,
   fallen |-> {}, lost |-> <<>>, forgotten |-> {}, unelected |-> {}]

-----------------------------------------------------------------------------
\* Perbill, in parts of ACCURACY.

RatioOf(p, q) ==
  LET most == Max2(q, 1)
      factor == Max2(most \div ACCURACY, 1)
  IN ((Min2(p, most) \div factor) * ACCURACY) \div (most \div factor)
Times(p, q) == (p * q) \div ACCURACY
Of(p, n) == PartOf(p, ACCURACY, n)

AbsSub(x, y) == Max2(x, y) - Min2(x, y)

\* compute_total_payout: the curve at the staked part of the issuance, for the
\* part of the year that the era took.
CurveAt(n, d) ==
  LET x(k) == Of(Curve[k][1], d)
      y(k) == Of(Curve[k][2], d)
      after == {k \in DOMAIN Curve : n < x(k)}
      k == Min(after)
      dy == (AbsSub(n, x(k - 1)) * AbsSub(Curve[k][2], Curve[k - 1][2])) \div (Curve[k][1] - Curve[k - 1][1])
  IN CASE after = {} -> y(Len(Curve))
       [] after # {} /\ k = 1 -> y(1)
       [] OTHER -> IF (n > x(k - 1)) = (Curve[k][2] > Curve[k - 1][2]) THEN y(k - 1) + dy
                   ELSE MonusOf(y(k - 1), dy)
compute_total_payout(staked, issuance, duration) ==
  Of(RatioOf(duration, Year), CurveAt(Min2(staked, issuance), issuance))

-----------------------------------------------------------------------------
\* Linked maps enumerate the entry that was inserted last first; an entry that
\* is written again keeps its place.
KeyAt(list, who) == {k \in DOMAIN list : list[k].who = who}
LinkedPut(list, entry) ==
  IF KeyAt(list, entry.who) = {} THEN <<entry>> \o list
  ELSE [k \in DOMAIN list |-> IF list[k].who = entry.who THEN entry ELSE list[k]]
LinkedRemove(list, who) == SelectSeq(list, LAMBDA e : e.who # who)

chill_stash(t, stash) ==
  [t EXCEPT !.validators = LinkedRemove(@, stash), !.nominators = LinkedRemove(@, stash)]

-----------------------------------------------------------------------------
\* StakingLedger.

SumOfChunks(chunks) == FoldLeft(LAMBDA n, c : n + c.value, 0, chunks)

consolidate_unlocked(l, era) ==
  [l EXCEPT !.unlocking = SelectSeq(@, LAMBDA c : c.era > era),
            !.total = MonusOf(@, SumOfChunks(SelectSeq(l.unlocking, LAMBDA c : c.era <= era)))]

\* rebond takes chunks from the last one on, the one that it ends in in part.
rebond(l, value) ==
  LET after(k) == SumOfChunks(SubSeq(l.unlocking, k + 1, Len(l.unlocking)))
      left(k) == MonusOf(l.unlocking[k].value, MonusOf(value, after(k)))
      kept == SelectSeq([k \in DOMAIN l.unlocking |-> [l.unlocking[k] EXCEPT !.value = left(k)]],
                        LAMBDA c : c.value > 0)
  IN [l EXCEPT !.unlocking = kept, !.active = @ + SumOfChunks(l.unlocking) - SumOfChunks(kept)]

\* slash_out_of a target: what is left of the target and of the value, and what
\* was taken; a target that would be left with dust goes as a whole.
SlashOutOf(st, target) ==
  LET part == Min2(st.value, target)
      dust == part > 0 /\ target - part <= ExistentialDeposit
  IN [value |-> st.value - part, taken |-> st.taken + (IF dust THEN target ELSE part),
      left |-> Append(st.left, IF dust THEN 0 ELSE target - part)]

\* StakingLedger::slash: the active part first, then the chunks in their order.
SlashTargets(l, value) ==
  FoldLeft(SlashOutOf, [value |-> value, taken |-> 0, left |-> <<>>],
           <<l.active>> \o [k \in DOMAIN l.unlocking |-> l.unlocking[k].value])
SlashedLedger(l, st) ==
  LET chunks == [k \in DOMAIN l.unlocking |-> [l.unlocking[k] EXCEPT !.value = st.left[k + 1]]]
  IN [l EXCEPT !.active = st.left[1], !.total = MonusOf(@, st.taken),
               !.unlocking = SelectSeq(chunks, LAMBDA c : c.value > 0)]

update_ledger(w, controller, l) ==
  [w EXCEPT !.bal = set_lock(@, STAKING_ID, l.stash, l.total), !.sta.ledger = Put(@, controller, l)]

slashable_balance_of(t, stash) ==
  IF stash \in DOMAIN t.bonded /\ t.bonded[stash] \in DOMAIN t.ledger
  THEN t.ledger[t.bonded[stash]].active ELSE 0

-----------------------------------------------------------------------------
\* SlashingSpans: span 1 is the ongoing one, span k + 1 the one before span k.

NewSpans(window) == [index |-> 0, last_start |-> window, last_nonzero |-> 0, prior |-> <<>>]

SpanStart(sp, k) == sp.last_start - FoldLeft(+, 0, SubSeq(sp.prior, 1, k - 1))
SpansWith(sp, era) ==
  {k \in 1 .. Len(sp.prior) + 1 :
     SpanStart(sp, k) <= era /\ (k = 1 \/ era < SpanStart(sp, k) + sp.prior[k - 1])}
OldestIndex(sp) == sp.index - Len(sp.prior)

end_span(sp, at) ==
  IF at + 1 <= sp.last_start THEN sp
  ELSE [sp EXCEPT !.prior = <<at + 1 - sp.last_start>> \o @, !.last_start = at + 1, !.index = @ + 1]

Prune_forgetful(sp, window) ==
  [sp EXCEPT !.prior = <<>>, !.last_start = Max2(@, window)]
\* prune: a prior span that ended before the window goes, with all before it.
Prune(sp, window) ==
  LET old == {k \in DOMAIN sp.prior : SpanStart(sp, k) <= window}
  IN [sp EXCEPT !.prior = IF old = {} THEN @ ELSE SubSeq(@, 1, Min(old) - 1),
                !.last_start = Max2(@, window)]

\* compare_and_update_span_slash: the record of a span with the slash of an era,
\* how much more that is than before, and the reward for reporting it.
REWARD_F1 == ACCURACY \div 2
Compared(record, slash) ==
  LET reward == IF record.slashed > slash THEN 0
                ELSE Of(REWARD_F1, MonusOf(Of(SlashRewardFraction, slash), record.paid))
      more == MonusOf(slash, record.slashed)
  IN [record |-> [slashed |-> record.slashed + more, paid |-> record.paid + reward],
      more |-> more, reward |-> reward]

\* InspectingSpans: the spans of a stash are compared with a slash in an era; the
\* ongoing span ends when the era is in it.  What changed is pruned and stored.
StoreSpans(t, stash, sp) ==
  [t EXCEPT !.spans = Put(@, stash, sp),
            !.span_slash = Restrict(@, {x \in DOMAIN @ : x[1] = stash => x[2] >= OldestIndex(sp)})]
CompareSpan(t, stash, sp, k, p, slash) ==
  LET key == <<stash, sp.index - (k - 1)>>
      old == GetOr(t.span_slash, key, [slashed |-> 0, paid |-> 0])
      c == Compared(old, slash)
      hit == [sp EXCEPT !.last_nonzero = IF c.more > 0 THEN Max2(@, p.era) ELSE @]
      ended == IF k = 1 THEN end_span(hit, p.now) ELSE hit
      recorded == IF c.record = old THEN t ELSE [t EXCEPT !.span_slash = Put(@, key, c.record)]
  IN [t |-> IF c.record = old /\ ended = hit THEN t
            ELSE StoreSpans(recorded, stash, Prune(ended, p.window)),
      more |-> c.more, reward |-> c.reward, current |-> k = 1]
InspectSpans(t, stash, p, slash) ==
  LET sp == GetOr(t.spans, stash, NewSpans(p.window))
      fetched == [t EXCEPT !.spans = Put(@, stash, sp)]
      spans == SpansWith(sp, p.era)
  IN IF spans = {} THEN [t |-> fetched, more |-> 0, reward |-> 0, current |-> FALSE]
     ELSE CompareSpan(fetched, stash, sp, Min(spans), p, slash)

-----------------------------------------------------------------------------
\* compute_slash.  p has the stash, its exposure, the part that is slashed, the
\* era of the offence, the active era (now) and the start of the bonding window.

ensure_new_era(t) ==
  [t EXCEPT !.force = IF @ \in {"ForceAlways", "ForceNew"} THEN @ ELSE "ForceNew"]

\* The validator is chilled, and disabled for the rest of the session.
KickOut(w, stash, at) ==
  LET chilled == chill_stash(w.sta, stash)
  IN [w EXCEPT !.ses = DisableIndex(@, at),
               !.sta = IF DisableIsTooMuch(w.ses, at) THEN ensure_new_era(chilled) ELSE chilled]
Inspected(w, stash, i) ==
  LET seen == [w EXCEPT !.sta = i.t]
  IN IF i.current THEN KickOut(seen, stash, PositionOf(w.ses, stash)) ELSE seen

\* slash_nominators: the slash of each nominator in the era grows with the one of
\* the validator.
SlashNominator(st, n, p, prior) ==
  LET era == GetOr(st.t.nominator_slash, <<p.era, n.who>>, 0)
               + MonusOf(Of(p.slash, n.value), Of(prior, n.value))
      i == InspectSpans([st.t EXCEPT !.nominator_slash = Put(@, <<p.era, n.who>>, era)], n.who, p, era)
  IN [t |-> i.t, others |-> Append(st.others, [who |-> n.who, value |-> i.more]),
      reward |-> st.reward + i.reward]
slash_nominators(t, p, prior) ==
  FoldLeft(LAMBDA st, n : SlashNominator(st, n, p, prior),
           [t |-> t, others |-> <<>>, reward |-> 0], p.exposure.others)

\* The storages after it, and the slash to be applied, if any.
NoSlash(w) == [w |-> w, slash |-> {}]
SlashAll(w, p, own, reward, n) ==
  [w |-> [w EXCEPT !.sta = n.t],
   slash |-> {[validator |-> p.stash, own |-> own, others |-> n.others,
               payout |-> reward + n.reward, reporters |-> p.reporters]}]
SlashBoth(w, p, i, prior) ==
  LET kicked == Inspected(w, p.stash, i)
  IN SlashAll(kicked, p, i.more, i.reward, slash_nominators(kicked.sta, p, prior))
SlashInEra(w, p, own, prior) ==
  LET t == [w.sta EXCEPT !.validator_slash = Put(@, <<p.era, p.stash>>, [part |-> p.slash, own |-> own])]
  IN SlashBoth(w, p, InspectSpans(t, p.stash, p, own), prior)
compute_slash(w, p) ==
  LET prior == GetOr(w.sta.validator_slash, <<p.era, p.stash>>, [part |-> 0, own |-> 0]).part
  IN CASE Of(p.slash, p.exposure.total) = 0 ->
            NoSlash(Inspected(w, p.stash, InspectSpans(w.sta, p.stash, p, 0)))
       [] Of(p.slash, p.exposure.total) # 0 /\ p.slash <= prior -> NoSlash(w)
       [] OTHER -> SlashInEra(w, p, Of(p.slash, p.exposure.own), prior)

-----------------------------------------------------------------------------
\* apply_slash: st has the storages, what is left of the reward and what was
\* slashed so far.

TakeSlash(st, stash, controller, s) ==
  LET l == st.w.sta.ledger[controller]
      got == SlashedBy(st.w.bal, stash, s.taken)
      b == Slash(st.w.bal, stash, s.taken)
      t == [st.w.sta EXCEPT !.fallen = IF stash \in b.live THEN @ ELSE @ \cup {stash},
                            !.lost = Put(@, stash, GetOr(@, stash, 0) + s.taken)]
  IN [w |-> update_ledger([st.w EXCEPT !.bal = b, !.sta = t], controller, SlashedLedger(l, s)),
      payout |-> MonusOf(st.payout, s.taken - got), slashed |-> st.slashed + got]
TakeIfAny(st, stash, controller, s) == IF s.taken = 0 THEN st ELSE TakeSlash(st, stash, controller, s)
do_slash(st, stash, value) ==
  LET t == st.w.sta
  IN IF stash \notin DOMAIN t.bonded \/ t.bonded[stash] \notin DOMAIN t.ledger THEN st
     ELSE TakeIfAny(st, stash, t.bonded[stash], SlashTargets(t.ledger[t.bonded[stash]], value))

\* pay_reporters: equal parts for the reporters, and the rest into the pot.
pay_reporters(b, payout, slashed, reporters) ==
  LET paid == Min2(payout, slashed)
      each == paid \div Len(reporters)
  IN IF payout = 0 \/ reporters = <<>> THEN IntoPot(b, slashed)
     ELSE IntoPot(FoldLeft(LAMBDA x, r : ResolveCreating(x, r, each), b, reporters),
                  slashed - each * Len(reporters))
PayReporters(st, reporters) ==
  [st.w EXCEPT !.bal = pay_reporters(@, st.payout, st.slashed, reporters)]
apply_slash(w, u) ==
  PayReporters(FoldLeft(LAMBDA st, o : do_slash(st, o.who, o.value),
                        [w |-> w, payout |-> u.payout, slashed |-> 0],
                        <<[who |-> u.validator, value |-> u.own]>> \o u.others),
               u.reporters)

\* apply_unapplied_slashes: what was deferred long enough.
apply_unapplied_slashes(w, era) ==
  LET t == w.sta
      keep_from == MonusOf(era, SlashDeferDuration)
      due == [k \in 1 .. MonusOf(keep_from, t.earliest) |-> GetOr(t.unapplied, t.earliest + k - 1, <<>>)]
      taken == [w EXCEPT !.sta.unapplied = Restrict(@, {e \in DOMAIN @ : e \notin t.earliest .. keep_from - 1}),
                         !.sta.earliest = Max2(@, keep_from)]
  IN IF t.earliest = None THEN w ELSE FoldLeft(apply_slash, taken, FlattenSeq(due))

-----------------------------------------------------------------------------
\* on_offence: every offender (who, exposure, reporters) is slashed by the part.
EraOfOffence(t, session) ==
  IF session >= Max2(EraOf(t, t.active).start, 0) THEN {t.active}
  ELSE {t.bonded_eras[k][1] : k \in {j \in DOMAIN t.bonded_eras :
          /\ t.bonded_eras[j][2] <= session
          /\ \A i \in j + 1 .. Len(t.bonded_eras) : t.bonded_eras[i][2] > session}}

DeferSlash(r, era) ==
  FoldSet(LAMBDA u, w : IF SlashDeferDuration = 0 THEN apply_slash(w, u)
                        ELSE [w EXCEPT !.sta.unapplied = Put(@, era, Append(GetOr(@, era, <<>>), u))],
          r.w, r.slash)
PunishOffender(w, o, part, era) ==
  IF o.who \in w.sta.invulnerable THEN w
  ELSE DeferSlash(compute_slash(w, [stash |-> o.who, slash |-> part, exposure |-> o.exposure, era |-> era,
                                    window |-> MonusOf(w.sta.active, BondingDuration),
                                    now |-> w.sta.active, reporters |-> o.reporters]),
                  w.sta.active)
OnOffence(w, offenders, part, eras) ==
  IF eras = {} THEN w
  ELSE FoldLeft(LAMBDA v, o : PunishOffender(v, o, part, Max(eras)),
                [w EXCEPT !.sta.earliest = IF @ = None THEN w.sta.active ELSE @], offenders)
on_offence(w, offenders, part, session) ==
  IF w.sta.active = None THEN w ELSE OnOffence(w, offenders, part, EraOfOffence(w.sta, session))

-----------------------------------------------------------------------------
\* select_validators: an election by the stake in the ledgers.

LastNonzero(t, stash) == IF stash \in DOMAIN t.spans THEN t.spans[stash].last_nonzero ELSE 0

CandidatesOf(t) == [k \in DOMAIN t.validators |-> t.validators[k].who]
ElectorsOf(t) ==
  [k \in DOMAIN t.validators |->
     [who |-> t.validators[k].who, votes |-> <<t.validators[k].who>>,
      budget |-> slashable_balance_of(t, t.validators[k].who)]]
  \o [k \in DOMAIN t.nominators |->
        [who |-> t.nominators[k].who,
         votes |-> SelectSeq(t.nominators[k].targets,
                             LAMBDA s : t.nominators[k].since >= LastNonzero(t, s)),
         budget |-> slashable_balance_of(t, t.nominators[k].who)]]

\* The exposure of c under the assignments (build_support_map).
SupportOf(c, voters, assignments) ==
  LET edge(v, a) == [who |-> voters[v].who, value |-> Of(a[2], voters[v].budget)]
      edges(v) == LET mine == SelectSeq(assignments[v], LAMBDA a : a[1] = c)
                  IN [k \in DOMAIN mine |-> edge(v, mine[k])]
  IN FlattenSeq([v \in DOMAIN voters |-> edges(v)])
ExposureOf(c, support) ==
  LET own == SelectSeq(support, LAMBDA e : e.who = c)
  IN [own |-> SumOfChunks(own), total |-> SumOfChunks(support),
      others |-> SelectSeq(support, LAMBDA e : e.who # c)]
Clipped(e) ==
  IF Len(e.others) <= MaxNominatorRewarded THEN e
  ELSE [e EXCEPT !.others = SubSeq(SortSeq(@, LAMBDA x, y : x.value > y.value), 1, MaxNominatorRewarded)]

StoreElected(t, era, winners, stakers) ==
  LET prefs == [v \in winners |-> t.validators[Min(KeyAt(t.validators, v))].commission]
      total == MapThenSumSet(LAMBDA v : stakers[v].total, winners)
  IN PutEra(t, era, [EraOf(t, era) EXCEPT !.stakers = stakers, !.prefs = prefs, !.total = total,
                                          !.clipped = [v \in winners |-> Clipped(stakers[v])]])
SelectElected(t, era, voters, res) ==
  LET ids == [k \in DOMAIN res.winners |-> res.winners[k][1]]
      stakers == [v \in ToSet(ids) |-> ExposureOf(v, SupportOf(v, voters, res.assignments))]
  IN [t |-> StoreElected(t, era, ToSet(ids), stakers), next |-> {ids}]
ElectBy(t, era, voters) == SelectElected(t, era, voters, elect(t.count, CandidatesOf(t), voters))
select_validators(t, era) ==
  IF Len(t.validators) < Max2(t.minimum, 1)
  THEN [t |-> [t EXCEPT !.unelected = @ \cup {era}], next |-> {}]
  ELSE ElectBy(t, era, ElectorsOf(t))

-----------------------------------------------------------------------------
\* Sessions and eras.  new_session returns {} or the validators of a new era.

NewEra(t, era, session) ==
  LET started == PutEra(t, era, [EraOf(t, era) EXCEPT !.start = session])
      old == era - (t.depth + 1)
  IN IF old < 0 THEN started ELSE clear_era_information(started, old)
new_era(t, session) ==
  select_validators(NewEra([t EXCEPT !.current = @ + 1], t.current + 1, session), t.current + 1)
new_session(t, session) ==
  LET length == MonusOf(session, Max2(EraOf(t, t.current).start, 0))
  IN CASE t.current = None \/ t.force = "ForceAlways" -> new_era(t, session)
       [] t.current # None /\ t.force = "ForceNew" -> new_era([t EXCEPT !.force = "NotForcing"], session)
       [] t.current # None /\ t.force = "NotForcing" /\ length >= SessionsPerEra -> new_era(t, session)
       [] OTHER -> [t |-> t, next |-> {}]

\* start_era forgets the slashes of the eras that leave the bonding window.
StartEra(t, era, session) ==
  LET bonded == Append(t.bonded_eras, <<era, session>>)
      first == MonusOf(era, BondingDuration)
      forget(f) == Restrict(f, {x \in DOMAIN f : x[1] >= first})
      \* the eras before the first one that is kept
      kept == SelectSeq(bonded, LAMBDA e : e[1] >= first)
      pruned == [t EXCEPT !.bonded_eras = kept, !.validator_slash = forget(@), !.nominator_slash = forget(@)]
  IN [pruned EXCEPT !.active = era, !.since = None]
start_era(w, session) ==
  apply_unapplied_slashes([w EXCEPT !.sta = StartEra(@, @.active + 1, session)], w.sta.active + 1)
start_session(w, session) ==
  LET start == EraOf(w.sta, w.sta.active + 1).start
  IN IF start # None /\ start <= session THEN start_era(w, session) ELSE w

end_era(t, issuance, moment) ==
  IF t.since = None THEN t
  ELSE PutEra(t, t.active, [EraOf(t, t.active) EXCEPT !.reward =
                              compute_total_payout(EraOf(t, t.active).total, issuance, moment - t.since)])
end_session(t, session, issuance, moment) ==
  IF t.active # None /\ EraOf(t, t.active + 1).start = session + 1 THEN end_era(t, issuance, moment) ELSE t

\* reward_by_ids, for the author of a block.
note_author(t, author) ==
  IF t.active = None THEN t
  ELSE PutEra(t, t.active, [EraOf(t, t.active) EXCEPT !.points = Put(@, author, GetOr(@, author, 0) + 20)])

staking_on_finalize(t, moment) ==
  [t EXCEPT !.since = IF t.active # None /\ @ = None THEN moment ELSE @]

-----------------------------------------------------------------------------
\* The calls.  Here is what the storages become.

bond(w, stash, controller, value, payee) ==
  LET amount == Min2(value, free_balance(w.bal, stash))
      bonded == [w EXCEPT !.sta.bonded = Put(@, stash, controller), !.sta.payee = Put(@, stash, payee),
                          !.bal = inc_ref(@, stash)]
  IN update_ledger(bonded, controller, [stash |-> stash, total |-> amount, active |-> amount,
                                        unlocking |-> <<>>, last_reward |-> w.sta.current])
validate(t, stash, commission) ==
  [t EXCEPT !.nominators = LinkedRemove(@, stash),
            !.validators = LinkedPut(@, [who |-> stash, commission |-> commission])]
nominate(t, stash, targets) ==
  [t EXCEPT !.validators = LinkedRemove(@, stash),
            !.nominators = LinkedPut(@, [who |-> stash, targets |-> targets, since |-> Max2(t.current, 0)])]

clear_stash_metadata(t, stash) ==
  IF stash \notin DOMAIN t.spans THEN t
  ELSE [t EXCEPT !.spans = Drop(@, stash), !.forgotten = @ \cup {stash},
                 !.span_slash = Restrict(@, {x \in DOMAIN @ : x[1] # stash})]
kill_stash(w, stash) ==
  LET t == [w.sta EXCEPT !.bonded = Drop(@, stash), !.ledger = Drop(@, w.sta.bonded[stash]),
                         !.payee = Drop(@, stash)]
  IN [w EXCEPT !.sta = clear_stash_metadata(chill_stash(t, stash), stash), !.bal = dec_ref(@, stash)]
KillStash(w, stash) ==
  LET killed == kill_stash(w, stash)
  IN [killed EXCEPT !.bal = remove_lock(@, STAKING_ID, stash)]

Unbonded_early(l, value, era) ==
  LET amount == IF l.active - value < ExistentialDeposit THEN l.active ELSE value
  IN [l EXCEPT !.active = @ - amount, !.unlocking = Append(@, [value |-> amount, era |-> era - 1])]
Unbonded(l, value, era) ==
  LET dust == l.active - value < ExistentialDeposit
      amount == IF dust THEN l.active ELSE value
  IN [l EXCEPT !.active = @ - amount, !.unlocking = Append(@, [value |-> amount, era |-> era])]

\* make_payout, to the destination that the stash chose.
PayInto(w, who, amount) ==
  IF CanDepositIntoExisting(w.bal, who, amount)
  THEN [w EXCEPT !.bal = DropPositive(DepositIntoExisting(@, who, amount), amount)] ELSE w
make_payout(w, stash, amount) ==
  LET controller == w.sta.bonded[stash]
      l == w.sta.ledger[controller]
  IN CASE w.sta.payee[stash] = "Controller" -> PayInto(w, controller, amount)
       [] w.sta.payee[stash] = "Stash" -> PayInto(w, stash, amount)
       [] OTHER -> update_ledger(PayInto(w, stash, amount), controller,
                                 [l EXCEPT !.active = @ + amount, !.total = @ + amount])

PointPart(e, v) == RatioOf(GetOr(e.points, v, 0), SumFunction(e.points))
NominatorPart(e, stash, v, at) ==
  LET exposure == GetOr(e.clipped, v, NoExposure)
      part == RatioOf(exposure.others[at].value, exposure.total)
  IN IF at \notin DOMAIN exposure.others \/ exposure.others[at].who # stash THEN 0
     ELSE Times(Times(PointPart(e, v), ACCURACY - GetOr(e.prefs, v, 0)), part)
ValidatorPart(e, v) ==
  LET exposure == GetOr(e.stakers, v, NoExposure)
      commission == GetOr(e.prefs, v, 0)
      share == Times(ACCURACY - commission, RatioOf(exposure.own, exposure.total))
  IN Times(PointPart(e, v), Min2(ACCURACY, commission + share))

CanPayOut(t, who, era) ==
  /\ EraOf(t, era).reward # None
  /\ who \in DOMAIN t.ledger /\ t.ledger[who].last_reward < era
PayOut(w, who, era, part) ==
  make_payout([w EXCEPT !.sta.ledger[who].last_reward = era], w.sta.ledger[who].stash,
              Of(part, EraOf(w.sta, era).reward))
do_payout_nominator(w, who, era, validators) ==
  LET part(x) == NominatorPart(EraOf(w.sta, era), w.sta.ledger[who].stash, x[1], x[2])
  IN PayOut(w, who, era, FoldLeft(LAMBDA n, x : Min2(ACCURACY, n + part(x)), 0, validators))
do_payout_validator(w, who, era) ==
  PayOut(w, who, era, ValidatorPart(EraOf(w.sta, era), w.sta.ledger[who].stash))

-----------------------------------------------------------------------------
\* The calls as steps: w is the storages before it.

StoragesBecome(w) == bal' = w.bal /\ sta' = w.sta /\ ses' = w.ses
Storages == [bal |-> bal, sta |-> sta, ses |-> ses]
StaBecomes(t) == sta' = t /\ UNCHANGED <<bal, ses>>

sta_bond(stash, controller, value, payee) ==
  /\ stash \notin DOMAIN sta.bonded /\ controller \notin DOMAIN sta.ledger /\ value >= ExistentialDeposit
  /\ StoragesBecome(bond(Storages, stash, controller, value, payee))
sta_bond_extra(stash, most) ==
  /\ stash \in DOMAIN sta.bonded /\ sta.bonded[stash] \in DOMAIN sta.ledger
  /\ \E l \in {sta.ledger[sta.bonded[stash]]} :
       \E extra \in {Min2(free_balance(bal, stash) - l.total, most)} :
         /\ extra >= 0
         /\ StoragesBecome(update_ledger(Storages, sta.bonded[stash],
                                  [l EXCEPT !.total = @ + extra, !.active = @ + extra]))
sta_unbond(controller, value) ==
  /\ controller \in DOMAIN sta.ledger /\ Len(sta.ledger[controller].unlocking) < MAX_UNLOCKING_CHUNKS
  /\ \E amount \in {Min2(value, sta.ledger[controller].active)} :
       /\ amount # 0
       /\ StoragesBecome(update_ledger(Storages, controller,
                                Unbonded(sta.ledger[controller], amount, Max2(sta.current, 0) + BondingDuration)))
sta_rebond(controller, value) ==
  /\ controller \in DOMAIN sta.ledger /\ sta.ledger[controller].unlocking # <<>>
  /\ StoragesBecome(update_ledger(Storages, controller, rebond(sta.ledger[controller], value)))
sta_withdraw_unbonded(controller) ==
  /\ controller \in DOMAIN sta.ledger
  /\ \E l \in {consolidate_unlocked(sta.ledger[controller], sta.current)} :
       StoragesBecome(IF l.unlocking = <<>> /\ l.active = 0 THEN KillStash(Storages, l.stash)
               ELSE update_ledger(Storages, controller, l))
sta_validate(controller, commission) ==
  /\ controller \in DOMAIN sta.ledger
  /\ StaBecomes(validate(sta, sta.ledger[controller].stash, commission))
sta_nominate(controller, targets) ==
  /\ controller \in DOMAIN sta.ledger /\ targets # <<>>
  /\ StaBecomes(nominate(sta, sta.ledger[controller].stash,
                         SubSeq(targets, 1, Min2(Len(targets), MAX_NOMINATIONS))))
sta_chill(controller) ==
  controller \in DOMAIN sta.ledger /\ StaBecomes(chill_stash(sta, sta.ledger[controller].stash))
sta_set_payee(controller, payee) ==
  /\ controller \in DOMAIN sta.ledger
  /\ StaBecomes([sta EXCEPT !.payee = Put(@, sta.ledger[controller].stash, payee)])
sta_set_controller(stash, controller) ==
  /\ stash \in DOMAIN sta.bonded /\ controller \notin DOMAIN sta.ledger
  /\ StaBecomes([sta EXCEPT !.bonded[stash] = controller,
                            !.ledger = Put(Drop(@, sta.bonded[stash]), controller, @[sta.bonded[stash]])])
sta_payout_nominator(who, era, validators) ==
  /\ Len(validators) <= MAX_NOMINATIONS /\ CanPayOut(sta, who, era)
  /\ StoragesBecome(do_payout_nominator(Storages, who, era, validators))
sta_payout_validator(who, era) ==
  CanPayOut(sta, who, era) /\ StoragesBecome(do_payout_validator(Storages, who, era))
sta_reap_stash(stash) ==
  /\ total_balance(bal, stash) = 0 /\ stash \in DOMAIN sta.bonded
  /\ StoragesBecome(KillStash(Storages, stash))

\* The calls of root.
sta_set_validator_count(count) == StaBecomes([sta EXCEPT !.count = count])
sta_force(forcing) == StaBecomes([sta EXCEPT !.force = forcing])
sta_set_invulnerables(stashes) == StaBecomes([sta EXCEPT !.invulnerable = stashes])
sta_force_unstake(stash) ==
  /\ stash \in DOMAIN sta.bonded
  /\ \E w \in {KillStash(Storages, stash)} :
       StoragesBecome([w EXCEPT !.sta.lost = Put(@, stash, GetOr(@, stash, 0) + sta.ledger[sta.bonded[stash]].total)])
sta_set_history_depth(depth) ==
  /\ sta.current # None
  /\ StaBecomes([sta EXCEPT !.depth = depth,
                            !.eras = Restrict(@, {e \in DOMAIN @ : e \notin MonusOf(sta.current, sta.depth)
                                                                   .. MonusOf(sta.current, depth) - 1})])
\* cancel_deferred_slash takes the indices in order, each less by the number of
\* those before it.
CancelOne(st, index) ==
  LET at == index - st.removed + 1
  IN IF ~st.ok \/ at \notin DOMAIN st.left THEN [st EXCEPT !.ok = FALSE]
     ELSE [st EXCEPT !.removed = @ + 1, !.left = RemoveAt(@, at)]
sta_cancel_deferred_slash(era, indices) ==
  \E st \in {FoldLeft(CancelOne, [ok |-> TRUE, removed |-> 0, left |-> GetOr(sta.unapplied, era, <<>>)],
                      SortSeq(indices, <))} :
    st.ok /\ StaBecomes([sta EXCEPT !.unapplied = Put(@, era, st.left)])

-----------------------------------------------------------------------------
\* What x has at stake in an era, and the number of its shares.
SharesOf(e, x) ==
  LET stakes(v) == <<[who |-> v, value |-> e.stakers[v].own]>> \o e.stakers[v].others
  IN FoldSet(LAMBDA v, shares : shares \o SelectSeq(stakes(v), LAMBDA s : s.who = x), <<>>, DOMAIN e.stakers)
BackersOf(e) ==
  DOMAIN e.stakers \cup {n.who : n \in UNION {ToSet(e.stakers[v].others) : v \in DOMAIN e.stakers}}
BondedBy(x) == IF x \in DOMAIN sta.bonded THEN sta.ledger[sta.bonded[x]].total ELSE 0

(* What the ledgers promise is there: a stash and its controller name each other, the total of a      *)
(* ledger is its active part and its chunks, the stash has that much and cannot spend it (unless a    *)
(* slash removed the account), who validates or nominates has a bond; and what backed a validator in  *)
(* an era of the last BondingDuration eras is still bonded or was slashed. The shares of a stash are  *)
(* rounded, each by half a unit. BondedEras keeps one era more, for which an offence can still be     *)
(* reported: what was unbonded in that era is free by then, so the property does not hold for it.     *)
StakesAreBacked ==
  /\ \A s \in DOMAIN sta.bonded : sta.bonded[s] \in DOMAIN sta.ledger /\ sta.ledger[sta.bonded[s]].stash = s
  /\ DOMAIN sta.payee = DOMAIN sta.bonded
  /\ \A c \in DOMAIN sta.ledger :
       LET l == sta.ledger[c]
       IN /\ l.stash \in DOMAIN sta.bonded /\ sta.bonded[l.stash] = c
          /\ l.total = l.active + SumOfChunks(l.unlocking)
          /\ l.stash \notin sta.fallen =>
               /\ l.total <= free_balance(bal, l.stash)
               /\ l.total > 0 => GetOr(bal.locks[l.stash], STAKING_ID, 0) = l.total
          /\ Len(l.unlocking) <= MAX_UNLOCKING_CHUNKS
          /\ \A k \in DOMAIN l.unlocking :
               /\ l.unlocking[k].value > 0 /\ l.unlocking[k].era <= sta.current + BondingDuration
               /\ k > 1 => l.unlocking[k - 1].era <= l.unlocking[k].era
  /\ \A list \in {sta.validators, sta.nominators} : \A k \in DOMAIN list : list[k].who \in DOMAIN sta.bonded
  /\ \A k \in DOMAIN sta.validators : KeyAt(sta.nominators, sta.validators[k].who) = {}
  /\ \A e \in {e \in DOMAIN sta.eras : e + BondingDuration > sta.current} :
       \A x \in BackersOf(sta.eras[e]) \ sta.fallen :
         LET shares == SharesOf(sta.eras[e], x)
         IN SumOfChunks(shares) <= BondedBy(x) + GetOr(sta.lost, x, 0) + Len(shares) \div 2

(* The slashes of an era and the spans of a stash tell the same story: the spans reach back to the    *)
(* start of the bonding window and not past the next era, a span that is not over has no slash, the   *)
(* spans that are kept are the only ones with a record, and what a stash was slashed in an era is     *)
(* within the record of the span of that era, so that no offence of the span is paid for twice.       *)
SlashesFollowSpans ==
  \A s \in DOMAIN sta.spans \ sta.forgotten :
    LET sp == sta.spans[s]
        slashed(e) == Max2(GetOr(sta.validator_slash, <<e, s>>, [own |-> 0]).own,
                           GetOr(sta.nominator_slash, <<e, s>>, 0))
        record(k) == GetOr(sta.span_slash, <<s, sp.index - (k - 1)>>, [slashed |-> 0]).slashed
    IN /\ SpanStart(sp, Len(sp.prior) + 1) <= MonusOf(sta.active, BondingDuration)
       /\ sp.last_start <= sta.active + 1 /\ sp.last_nonzero <= sta.active
       /\ \A x \in DOMAIN sta.span_slash : x[1] = s => x[2] \in OldestIndex(sp) .. sp.index - 1
       /\ \A e \in MonusOf(sta.active, BondingDuration) .. sta.active :
            \E k \in SpansWith(sp, e) \cup {0} : IF k = 0 THEN slashed(e) = 0 ELSE slashed(e) <= record(k)
=============================================================================
