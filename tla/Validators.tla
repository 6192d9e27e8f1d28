----------------------------- MODULE Validators -----------------------------
(***************************************************************************)
(* What makes and follows the sessions of the runtime: babe, whose epochs  *)
(* are the sessions, the rotation of the session pallet with its manager   *)
(* (staking) and its handlers (grandpa, babe, im-online), the reports of   *)
(* offences, and the finality tracker.  A moment is the slot of a block.   *)
(***************************************************************************)
EXTENDS Staking

CONSTANTS
  WindowSize, ReportLatency,   \* of the finality tracker
  INCLUDE_THRESHOLD,           \* of im-online
  UnresponsivePart             \* 7 percent, in parts of ACCURACY

VARIABLES
  off,   \* offences: the reports of a kind and time slot
  imo,   \* im-online, with the local storage of the validators' nodes
  gra,   \* grandpa
  fin,   \* the finality tracker
  bab    \* babe

consensus == <<sta, ses, off, imo, gra, fin, bab>>

GRANDPA == 1   \* the key types, in the order of SessionKeys
BABE == 2

\* The storages at genesis, from the ledger: the stakers bond, who has no targets
\* validates, the keys are set, and the first session and era start.  Then block 1
\* is initialized.
AddStaker(w, s) ==
  LET bonded == bond(w, s.stash, s.controller, s.value, "Staked")
  IN [bonded EXCEPT !.sta = IF s.targets = <<>> THEN validate(@, s.stash, 0) ELSE nominate(@, s.stash, s.targets)]
GenesisStakers(b) ==
  FoldLeft(LAMBDA w, k : do_set_keys(w, k.who, k.who, k.keys),
           FoldLeft(AddStaker, [bal |-> b, sta |-> StakingInit(setup.count, setup.minimum, setup.depth),
                                ses |-> SessionInit], setup.stakers),
           setup.keys)
GenesisSession(w, ids, second) ==
  LET named(v) == [k \in DOMAIN v |-> [who |-> v[k], keys |-> load_keys(w.ses, v[k])]]
  IN start_session([w EXCEPT !.sta = second.t, !.ses.validators = ids, !.ses.keys = named(ids),
                             !.ses.queued = named(CHOOSE v \in second.next \cup {ids} :
                                                    second.next = {} \/ v \in second.next)], 0)
GenesisEra(w, first) ==
  GenesisSession(w, CHOOSE ids \in first.next : TRUE, new_session(first.t, 1))

\* fin: the recent hints; gra.dropped only observes that a change was refused.
WithConsensus(w, queued, slot) ==
  [bal |-> w.bal, sta |-> note_author(w.sta, w.ses.validators[1]), ses |-> w.ses,
   off |-> <<>>,
   imo |-> [after |-> 0, keys |-> KeysOf(queued, BABE), heartbeats |-> {},
            authored |-> {w.ses.validators[1]}, sent |-> <<>>, pool |-> {}],
   gra |-> [authorities |-> KeysOf(queued, GRANDPA), pending |-> {}, next_forced |-> 0,
            stalled |-> {}, set_id |-> 0, set_session |-> <<>>, dropped |-> FALSE],
   fin |-> <<0>>,
   bab |-> [genesis |-> slot, slot |-> slot, epoch |-> 0, authorities |-> KeysOf(queued, BABE),
            next |-> KeysOf(queued, BABE)]]

\* Each stage takes what the one before made; the sets hold one element.
GenesisOf(b) ==
  LET elected == {[w |-> w, first |-> new_session(w.sta, 0)] : w \in {GenesisStakers(b)}}
  IN {WithConsensus(w, w.ses.queued, 1) : w \in {GenesisEra(x.w, x.first) : x \in elected}}

ConsensusIs(w) ==
  sta = w.sta /\ ses = w.ses /\ off = w.off /\ imo = w.imo /\ gra = w.gra /\ fin = w.fin /\ bab = w.bab
ConsensusBecomes(w) ==
  /\ sta' = w.sta /\ ses' = w.ses /\ off' = w.off /\ imo' = w.imo /\ gra' = w.gra /\ fin' = w.fin
  /\ bab' = w.bab

-----------------------------------------------------------------------------
\* Offences: a report of something new punishes all that offended at that time.
\* The kinds are unresponsiveness, which im-online reports, and equivocations.

slash_fraction(kind, k, n) ==
  LET x == RatioOf(3 * k, n)
      over == k - (n \div 10 + 1)
  IN IF kind = "equivocation" THEN RatioOf(x * x, ACCURACY * ACCURACY)
     ELSE IF over < 0 THEN 0 ELSE Times(RatioOf(3 * over, n), UnresponsivePart)

SameReport(x, y) == x.who = y.who /\ x.exposure = y.exposure
ReportAll(w, o, all) ==
  on_offence([w EXCEPT !.off = Put(@, <<o.kind, o.slot>>, all)], all,
             slash_fraction(o.kind, Len(all), o.count), o.session)
report_offence(w, o) ==
  LET known == GetOr(w.off, <<o.kind, o.slot>>, <<>>)
      fresh == SelectSeq(o.offenders, LAMBDA x : \A k \in DOMAIN known : ~SameReport(known[k], x))
  IN IF fresh = <<>> THEN w ELSE ReportAll(w, o, known \o fresh)

\* FilterHistoricalOffences: what is older than the bonding window is discarded.
ReportHistorical(w, o) ==
  IF w.sta.bonded_eras # <<>> /\ o.session >= w.sta.bonded_eras[1][2] THEN report_offence(w, o) ELSE w

\* An equivocation in a session is reported with the exposure of the offender in
\* the era of the session.
EraWith(t, session) ==
  {e \in DOMAIN t.eras : /\ t.eras[e].start \in 0 .. session
                         /\ \A f \in DOMAIN t.eras : f > e => t.eras[f].start > session}
Equivocation(reporter, offender, slot, session, e) ==
  [kind |-> "equivocation", slot |-> slot, session |-> session, count |-> Cardinality(DOMAIN e.stakers),
   offenders |-> <<[who |-> offender, exposure |-> e.stakers[offender], reporters |-> <<reporter>>]>>]

-----------------------------------------------------------------------------
\* im-online.

is_online(w, k) == k \in w.imo.heartbeats \/ w.ses.validators[k] \in w.imo.authored

note_authorship(w, author) ==
  [w EXCEPT !.imo.authored = @ \cup {author}, !.sta = note_author(@, author)]

\* on_before_session_ending: who was not seen in the session is reported.
OfflineOf(w) == SelectSeq([k \in DOMAIN w.ses.validators |-> k], LAMBDA k : ~is_online(w, k))
Unresponsive(w, offline) ==
  [kind |-> "offline", slot |-> w.ses.index, session |-> w.ses.index, count |-> Len(w.imo.keys),
   offenders |-> [k \in DOMAIN offline |->
     [who |-> w.ses.validators[offline[k]], reporters |-> <<>>,
      exposure |-> GetOr(EraOf(w.sta, w.sta.active).stakers, w.ses.validators[offline[k]], NoExposure)]]]
on_before_session_ending(w) ==
  report_offence([w EXCEPT !.imo.heartbeats = {}, !.imo.authored = {}], Unresponsive(w, OfflineOf(w)))

\* send_single_heartbeat of the node of a validator, which may fail.
is_recent(status, session, at) == status.session = session /\ status.at + INCLUDE_THRESHOLD > at
CanSendHeartbeat(w, k, at) ==
  /\ at >= w.imo.after
  /\ k \in DOMAIN w.imo.keys /\ w.imo.keys[k] # 0 /\ ~is_online(w, k)
  /\ k \in DOMAIN w.imo.sent => ~is_recent(w.imo.sent[k], w.ses.index, at)
SendHeartbeat(i, k, session, at, ok) ==
  [i EXCEPT !.sent = Put(@, k, [session |-> session, at |-> IF ok THEN at ELSE 0]),
            !.pool = IF ok THEN @ \cup {[index |-> k, session |-> session, key |-> i.keys[k]]} ELSE @]

\* validate_unsigned and heartbeat.
CanHeartbeat(w, h) ==
  /\ h.index \in DOMAIN w.imo.keys /\ w.imo.keys[h.index] = h.key
  /\ ~is_online(w, h.index) /\ h.session = w.ses.index
Heartbeat(i, h) == [i EXCEPT !.heartbeats = @ \cup {h.index}]

-----------------------------------------------------------------------------
\* grandpa.

schedule_change(g, next, delay, forced, n) ==
  IF g.pending # {} \/ (forced # {} /\ g.next_forced > n) THEN [g EXCEPT !.dropped = TRUE]
  ELSE [g EXCEPT !.pending = {[at |-> n, delay |-> delay, next |-> next, forced |-> forced]},
                 !.next_forced = IF forced = {} THEN @ ELSE n + delay * 2,
                 !.dropped = FALSE]

\* on_finalize: a pending change is enacted at its block.
grandpa_on_finalize(g, n) ==
  LET due == {c \in g.pending : n = c.at + c.delay}
  IN [g EXCEPT !.pending = @ \ due,
               !.authorities = IF due = {} THEN @ ELSE (CHOOSE c \in due : TRUE).next]

GrandpaChange(g, next, n) ==
  LET s == CHOOSE x \in g.stalled : TRUE
  IN IF g.stalled = {} THEN schedule_change(g, next, 0, {}, n)
     ELSE schedule_change([g EXCEPT !.stalled = {}], next, s[1], {s[2]}, n)
grandpa_on_new_session(g, changed, next, n, session) ==
  LET id == IF changed THEN g.set_id + 1 ELSE g.set_id
      told == IF changed THEN GrandpaChange(g, next, n) ELSE g
  IN [told EXCEPT !.set_id = id, !.set_session = Put(@, id, session)]

-----------------------------------------------------------------------------
\* The finality tracker: the window of recent hints and their median.  The node's
\* runtime tells nobody of a stall (OnFinalizationStalled is ()); where setup.stalls
\* is TRUE it tells grandpa, which is there to be told.

MedianOf(hints) ==
  LET ordered == SortSeq(hints, <)
      n == Len(hints)
  IN IF n % 2 = 0 THEN (ordered[n \div 2 + 1] + ordered[n \div 2]) \div 2 ELSE ordered[n \div 2 + 1]
PushHint(hints, hint) == SubSeq(hints, Max2(1, Len(hints) + 2 - WindowSize), Len(hints)) \o <<hint>>
IsStalled(hints, n) ==
  Len(hints) = WindowSize /\ MedianOf(hints) + ReportLatency + WindowSize \div 2 <= n
update_hint(w, hints, n) ==
  [w EXCEPT !.fin = hints,
            !.gra.stalled = IF setup.stalls /\ IsStalled(hints, n)
                            THEN {<<WindowSize - 1, MedianOf(hints)>>} ELSE @]

-----------------------------------------------------------------------------
\* rotate_session at block n; moment is the one of the last block.

on_new_session(w, changed, keys, n) ==
  [w EXCEPT !.gra = grandpa_on_new_session(@, changed, KeysOf(keys, GRANDPA), n, w.ses.index),
            !.bab = [@ EXCEPT !.epoch = @ + 1, !.authorities = KeysOf(keys, BABE),
                              !.next = KeysOf(w.ses.queued, BABE)],
            !.imo = [@ EXCEPT !.after = n + setup.epoch \div 2, !.keys = KeysOf(keys, BABE)]]
QueueSession(w, changed, keys, plan, n) ==
  on_new_session([w EXCEPT !.sta = plan.t, !.ses = QueueNext(@, plan.next)], changed, keys, n)
PlanSession(w, changed, n) ==
  QueueSession(w, changed, w.ses.queued, new_session(w.sta, w.ses.index + 1), n)
StartSession(w, n) ==
  PlanSession(start_session([w EXCEPT !.ses = TakeQueued(@)], w.ses.index + 1), w.ses.changed, n)
EndSession(w, n, moment) ==
  StartSession([w EXCEPT !.sta = end_session(@, w.ses.index, w.bal.issuance, moment)], n)
rotate_session(w, n, moment) == EndSession(on_before_session_ending(w), n, moment)

\* should_epoch_change, after do_initialize of block n with its slot.
should_epoch_change(b, slot) == slot - (b.epoch * setup.epoch + b.genesis) >= setup.epoch
do_initialize(w, n, slot) ==
  LET begun == [w EXCEPT !.bab.slot = slot]
  IN IF should_epoch_change(w.bab, slot) THEN rotate_session(begun, n, w.bab.slot) ELSE begun

\* on_finalize of grandpa, the finality tracker and staking.
validators_on_finalize(w, n, hint) ==
  update_hint([w EXCEPT !.gra = grandpa_on_finalize(@, n), !.sta = staking_on_finalize(@, w.bab.slot)],
              PushHint(w.fin, hint), n)

-----------------------------------------------------------------------------
\* Steps.  The hint, the slot and the author of a block are the block's; those
\* that a behaviour may choose from are in its setup.

HintsAt(n) == {MonusOf(n, lag) : lag \in GetOr(setup.lags, n, {1})}
SlotsAt(n) == {bab.slot + gap : gap \in GetOr(setup.gaps, n, {1})}
\* Without validators nobody authors a block.
AuthorsAt(n, validators) ==
  {validators[(a % Len(validators)) + 1] : a \in {a \in GetOr(setup.authors, n, {n}) : validators # <<>>}}

AllStorages ==
  [bal |-> bal, sta |-> sta, ses |-> ses, off |-> off, imo |-> imo, gra |-> gra, fin |-> fin, bab |-> bab]

SessionCall(x) ==
  \/ /\ x.call = "set_keys" /\ x.who \in DOMAIN sta.ledger
     /\ StoragesBecome(do_set_keys(Storages, x.who, sta.ledger[x.who].stash, x.keys))
  \/ /\ x.call = "purge_keys" /\ x.who \in DOMAIN sta.ledger /\ CanPurgeKeys(ses, sta.ledger[x.who].stash)
     /\ StoragesBecome(do_purge_keys(Storages, x.who, sta.ledger[x.who].stash))

BondingCall(x) ==
  \/ x.call = "bond" /\ sta_bond(x.who, x.controller, x.value, x.payee)
  \/ x.call = "bond_extra" /\ sta_bond_extra(x.who, x.value)
  \/ x.call = "unbond" /\ sta_unbond(x.who, x.value)
  \/ x.call = "rebond" /\ sta_rebond(x.who, x.value)
  \/ x.call = "withdraw_unbonded" /\ sta_withdraw_unbonded(x.who)
  \/ x.call = "set_payee" /\ sta_set_payee(x.who, x.payee)
  \/ x.call = "set_controller" /\ sta_set_controller(x.who, x.controller)
  \/ x.call = "reap_stash" /\ sta_reap_stash(x.stash)
  \/ x.call = "force_unstake" /\ sta_force_unstake(x.stash)

EraCall(x) ==
  \/ x.call = "validate" /\ sta_validate(x.who, x.commission)
  \/ x.call = "nominate" /\ sta_nominate(x.who, x.targets)
  \/ x.call = "chill" /\ sta_chill(x.who)
  \/ x.call = "payout_nominator" /\ sta_payout_nominator(x.who, x.era, x.validators)
  \/ x.call = "payout_validator" /\ sta_payout_validator(x.who, x.era)
  \/ x.call = "set_validator_count" /\ sta_set_validator_count(x.count)
  \/ x.call = "force_era" /\ sta_force(x.forcing)
  \/ x.call = "set_invulnerables" /\ sta_set_invulnerables(x.stashes)
  \/ x.call = "set_history_depth" /\ sta_set_history_depth(x.depth)

\* What a handler of equivocations would report; only their offences are in the
\* repository.
ReportEquivocation(x) ==
  /\ x.call = "report_equivocation"
  /\ \E e \in EraWith(sta, x.session) :
       /\ x.session <= ses.index /\ x.offender \in DOMAIN sta.eras[e].stakers
       /\ \E w \in {ReportHistorical(AllStorages, Equivocation(x.who, x.offender, x.slot, x.session, sta.eras[e]))} :
            bal' = w.bal /\ ConsensusBecomes(w)

ValidatorCall(x) ==
  \/ (SessionCall(x) \/ BondingCall(x) \/ EraCall(x)) /\ UNCHANGED <<off, imo, gra, fin, bab>>
  \/ ReportEquivocation(x)

\* offchain_worker of the node of a validator, after a block; and the heartbeat.
imo_offchain_worker ==
  \E k \in DOMAIN imo.keys, ok \in BOOLEAN :
    /\ CanSendHeartbeat(AllStorages, k, now)
    /\ imo' = SendHeartbeat(imo, k, ses.index, now, ok)
imo_heartbeat == \E h \in imo.pool : CanHeartbeat(AllStorages, h) /\ imo' = Heartbeat(imo, h)

-----------------------------------------------------------------------------
(* Sessions, eras, epochs and authority sets advance together.  The active era is the planned one or  *)
(* the one before, and becomes it in the session that was announced; the eras of the bonding window   *)
(* are consecutive, with the sessions they started in; the validators of the session are the elected  *)
(* of the active era and the queued ones those of the planned era, unless an election failed; an era  *)
(* has its reward once it is over; no slash is deferred too long; the epoch is the session, with its  *)
(* keys, and the next epoch is announced with the queued keys; grandpa has the keys of the session or *)
(* is about to, unless it refused the change, and its set id names the session.  A registered key is  *)
(* in the name of its validator, unless set_keys failed half-way.                                     *)
ErasAreInStep ==
  LET starts == EraOf(sta, sta.current).start
      first == MonusOf(sta.active, BondingDuration)
      kept == {e \in DOMAIN sta.eras : sta.eras[e].start # None}
      elected(e, ids) == e \in kept \ sta.unelected => ToSet(ids) = DOMAIN sta.eras[e].stakers
  IN /\ sta.active \in {sta.current - 1, sta.current}
     /\ starts # None => IF sta.active = sta.current THEN starts <= ses.index ELSE starts = ses.index + 1
     /\ Len(sta.bonded_eras) = sta.active - first + 1
     /\ \A k \in DOMAIN sta.bonded_eras :
          /\ sta.bonded_eras[k][1] = first + k - 1 /\ sta.bonded_eras[k][2] <= ses.index
          /\ k > 1 => sta.bonded_eras[k - 1][2] < sta.bonded_eras[k][2]
     /\ elected(sta.active, ses.validators) /\ elected(sta.current, IdsOf(ses.queued))
     /\ \A e \in kept :
          /\ sta.eras[e].reward # None <=> e < sta.active
          /\ e \notin sta.unelected => DOMAIN sta.eras[e].points \subseteq DOMAIN sta.eras[e].stakers
     /\ \A e \in DOMAIN sta.unapplied :
          sta.unapplied[e] # <<>> => e \in MonusOf(sta.active, SlashDeferDuration) .. sta.active
     /\ ses.disabled \subseteq DOMAIN ses.validators /\ KeysAreOwned(ses)
     /\ bab.epoch = ses.index /\ bab.authorities = KeysOf(ses.keys, BABE) /\ bab.next = KeysOf(ses.queued, BABE)
     /\ ~gra.dropped =>
          KeysOf(ses.keys, GRANDPA) \in {c.next : c \in gra.pending} \cup {a \in {gra.authorities} : gra.pending = {}}
     /\ ses.index > 0 => gra.set_session[gra.set_id] = ses.index
=============================================================================
