------------------------------ MODULE Runtime -------------------------------
(***************************************************************************)
(* The node's runtime: governance (democracy, the council with its         *)
(* elections, the technical committee with its membership, the treasury),  *)
(* the pallets that hold something for accounts, the ones that choose, pay *)
(* and slash the validators, and sudo, over one ledger.  A step applies an *)
(* extrinsic, or finalizes a block and initializes the next one; the hooks *)
(* of the pallets run in the order of AllModules, which is the reverse of  *)
(* construct_runtime.                                                      *)
(*                                                                         *)
(* The extrinsics of a behaviour are drawn from setup.calls.  The calls    *)
(* check before they write, so one that fails changes nothing and is no    *)
(* step, unless it is the call of a motion; set_keys, which writes as it   *)
(* checks, is a step when it fails too.  Fees are left out; an account     *)
(* that does not exist could not pay them and signs nothing.               *)
(***************************************************************************)
EXTENDS Democracy, Treasury, Collective, ElectionsPhragmen, AccountCalls, Validators

CONSTANTS
  Setup,
  SubAccount   \* [<<account, index>> -> account]: sub_account_id

VARIABLES
  key,    \* the sudo key
  calls   \* how many extrinsics were applied

governance == <<dem, tre, mem, tec, col, els>>
accounts == <<idx, ves, rec, mul, idn, soc>>
vars == <<bal, now, setup, key, calls, governance, accounts, consensus>>

\* A behaviour starts from the genesis, which may give both collectives members
\* that the elections and the membership do not have (setup.council), or after an
\* election, which leaves the members of the council with a bond each; then the
\* membership pallet has been given the members of the committee, and the referenda
\* were tabled by fast_track.
Init ==
  /\ setup \in Setup
  /\ \E w \in GenesisOf(FoldSet(LAMBDA x, b : Reserve(b, x, CandidacyBond), Genesis(setup.free), setup.elected)) :
       bal = w.bal /\ ConsensusIs(w)
  /\ now = 1 /\ calls = 0
  /\ dem = FoldLeft(LAMBDA d, r : inject_referendum(d, r.end, r.hash, r.threshold, r.delay),
                    DemocracyInit, setup.referenda)
  /\ tre = TreasuryInit
  /\ mem = MembershipInit(setup.committee)
  /\ tec = CollectiveInit(setup.committee \cup setup.council, setup.council # {})
  /\ els = [ElectionsInit EXCEPT !.members = setup.elected]
  /\ col = CollectiveInit(setup.elected \cup setup.council, setup.council # {})
  /\ key = setup.sudo
  /\ idx = IndicesInit /\ ves = VestingInit /\ rec = RecoveryInit /\ mul = MultisigInit
  /\ idn = IdentityInit /\ soc = SocietyInit(setup.society, setup.founder, setup.max_members)

-----------------------------------------------------------------------------
\* The calls of the pallets, by name and arguments.

BalancesCall(x) ==
  \/ /\ x.call = "transfer" /\ CanTransfer(bal, x.who, x.dest, x.value, FALSE)
     /\ bal' = Transfer(bal, x.who, x.dest, x.value)
  \/ /\ x.call = "transfer_keep_alive" /\ CanTransfer(bal, x.who, x.dest, x.value, TRUE)
     /\ bal' = Transfer(bal, x.who, x.dest, x.value)
  \/ x.call = "set_balance" /\ bal' = SetBalance(bal, x.target, x.free, x.reserved)

PublicCall(x) ==
  \/ x.call = "propose" /\ dem_propose(x.who, x.hash, x.value)
  \/ x.call = "second" /\ dem_second(x.who, x.prop)
  \/ x.call = "vote" /\ dem_vote(x.who, x.index, x.vote)
  \/ x.call = "proxy_vote" /\ dem_proxy_vote(x.who, x.index, x.vote)
  \/ x.call = "open_proxy" /\ dem_open_proxy(x.who, x.target)
  \/ x.call = "close_proxy" /\ dem_close_proxy(x.who)
  \/ x.call = "activate_proxy" /\ dem_activate_proxy(x.who, x.proxy)
  \/ x.call = "deactivate_proxy" /\ dem_deactivate_proxy(x.who, x.proxy)
  \/ x.call = "delegate" /\ dem_delegate(x.who, x.to, x.conviction)
  \/ x.call = "undelegate" /\ dem_undelegate(x.who)
  \/ x.call = "unlock" /\ dem_unlock(x.target)
  \/ x.call = "note_preimage" /\ dem_note_preimage(x.who, x.hash)
  \/ x.call = "note_imminent_preimage" /\ dem_note_imminent_preimage(x.who, x.hash)
  \/ x.call = "reap_preimage" /\ dem_reap_preimage(x.who, x.hash)
  \/ x.call = "cancel_referendum" /\ dem_cancel_referendum(x.index)
  \/ x.call = "cancel_queued" /\ dem_cancel_queued(x.index)
  \/ x.call = "clear_public_proposals" /\ dem_clear_public_proposals

TreasuryCall(x) ==
  \/ x.call = "propose_spend" /\ tre_propose_spend(x.who, x.value, x.beneficiary)
  \/ x.call = "report_awesome" /\ tre_report_awesome(x.who, x.reason, x.target)
  \/ x.call = "retract_tip" /\ tre_retract_tip(x.who, x.key)
  \/ x.call = "tip_new" /\ tre_tip_new(els.members, x.who, x.reason, x.target, x.value)
  \/ x.call = "tip" /\ tre_tip(els.members, x.who, x.key, x.value)
  \/ x.call = "close_tip" /\ tre_close_tip(els.members, x.key)

ElectionsCall(x) ==
  \/ x.call = "elect_vote" /\ els_vote(x.who, x.votes, x.value)
  \/ x.call = "remove_voter" /\ els_remove_voter(x.who)
  \/ x.call = "report_defunct_voter" /\ els_report_defunct_voter(x.who, x.target)
  \/ x.call = "submit_candidacy" /\ els_submit_candidacy(x.who)
  \/ x.call = "renounce_candidacy" /\ els_renounce_candidacy(x.who)
  \/ x.call = "elect_remove_member" /\ els_remove_member(x.target)

-----------------------------------------------------------------------------
\* Motions: what a body of n of m members may do, EnsureProportionAtLeast and
\* EnsureProportionMoreThan (p of q), EnsureMembers and EnsureMember.

AtLeast(r, p, q) == r.n * q >= p * r.m
MoreThan(r, p, q) == r.n * q > p * r.m

TreasuryMotion(r) ==
  LET x == r.motion
  IN \/ x.call = "approve_proposal" /\ r.n >= setup.approve_members /\ tre_approve_proposal(x.id)
     \/ x.call = "reject_proposal" /\ r.n >= 2 /\ tre_reject_proposal(x.id)

DemocracyMotion(r) ==
  LET x == r.motion
  IN \/ /\ x.call = "external_propose" /\ AtLeast(r, 1, 2)
        /\ dem_external_propose(x.hash, "SuperMajorityApprove")
     \/ /\ x.call = "external_propose_majority" /\ AtLeast(r, 3, 4)
        /\ dem_external_propose(x.hash, "SimpleMajority")
     \/ /\ x.call = "external_propose_default" /\ AtLeast(r, 1, 1)
        /\ dem_external_propose(x.hash, "SuperMajorityAgainst")
     \/ x.call = "emergency_cancel" /\ AtLeast(r, 2, 3) /\ dem_emergency_cancel(x.index)

MembershipMotion(r) ==
  LET x == r.motion
  IN /\ MoreThan(r, 1, 2)
     /\ \/ x.call = "add_member" /\ mem_add_member(x.member)
        \/ x.call = "remove_member" /\ mem_remove_member(x.member)
        \/ x.call = "swap_member" /\ mem_swap_member(x.member, x.new)
        \/ x.call = "reset_members" /\ mem_reset_members(x.members)
        \/ x.call = "set_prime" /\ mem_set_prime(x.member)
        \/ x.call = "clear_prime" /\ mem_clear_prime

\* RegistrarOrigin and ForceOrigin of the identity pallet, FounderSetOrigin.
AccountMotion(r) ==
  LET x == r.motion
  IN /\ MoreThan(r, 1, 2)
     /\ \/ x.call = "add_registrar" /\ idn_add_registrar(x.account) /\ UNCHANGED soc
        \/ x.call = "kill_identity" /\ idn_kill_identity(x.target) /\ UNCHANGED soc
        \/ x.call = "found" /\ soc_found(x.founder, x.max_members) /\ UNCHANGED idn

\* SlashCancelOrigin.
SlashMotion(r) ==
  /\ r.motion.call = "cancel_deferred_slash" /\ AtLeast(r, 3, 4)
  /\ sta_cancel_deferred_slash(r.motion.era, r.motion.indices)

\* The dispatch of a motion of the council: a call that fails is only reported.
CouncilDispatch(r) ==
  \/ TreasuryMotion(r) /\ UNCHANGED <<dem, mem, tec, idn, soc, sta, ses>>
  \/ DemocracyMotion(r) /\ UNCHANGED <<tre, mem, tec, idn, soc, sta, ses>>
  \/ MembershipMotion(r) /\ UNCHANGED <<bal, dem, tre, idn, soc, sta, ses>>
  \/ AccountMotion(r) /\ UNCHANGED <<dem, tre, mem, tec, sta, ses>>
  \/ SlashMotion(r) /\ UNCHANGED <<dem, tre, mem, tec, idn, soc>>
RunCouncil(run) ==
  \/ \E r \in run : CouncilDispatch(r)
  \/ /\ \A r \in run : ~ENABLED CouncilDispatch(r)
     /\ UNCHANGED <<bal, dem, tre, mem, tec, idn, soc, sta, ses>>

CommitteeDispatch(r) ==
  r.motion.call = "fast_track" /\ AtLeast(r, 2, 3)
    /\ dem_fast_track(r.motion.voting_period, r.motion.delay)
RunCommittee(run) ==
  \/ \E r \in run : CommitteeDispatch(r)
  \/ (\A r \in run : ~ENABLED CommitteeDispatch(r)) /\ UNCHANGED <<bal, dem>>

\* set_members is for root, and runs nothing.
CouncilCall(x) ==
  \E c \in CASE x.call = "council_propose" /\ CanPropose(col, x.who, x.motion) ->
                  {Propose(col, x.who, x.threshold, x.motion, now)}
             [] x.call = "council_vote" /\ CanVote(col, x.who, x.motion, x.approve) ->
                  {Vote(col, x.who, x.motion, x.approve)}
             [] x.call = "council_close" /\ CanClose(col, x.motion, now) -> {Close(col, x.motion)}
             [] x.call = "council_set_members" -> {Nothing(SetMembers(col, x.members, x.prime))}
             [] OTHER -> {} :
    col' = c.c /\ RunCouncil(c.run)

\* execute runs a call in the name of one member: here the veto.
CommitteeCall(x) ==
  \/ \E c \in CASE x.call = "committee_propose" /\ CanPropose(tec, x.who, x.motion) ->
                     {Propose(tec, x.who, x.threshold, x.motion, now)}
                [] x.call = "committee_vote" /\ CanVote(tec, x.who, x.motion, x.approve) ->
                     {Vote(tec, x.who, x.motion, x.approve)}
                [] x.call = "committee_close" /\ CanClose(tec, x.motion, now) -> {Close(tec, x.motion)}
                [] x.call = "committee_set_members" -> {Nothing(SetMembers(tec, x.members, x.prime))}
                [] OTHER -> {} :
       tec' = c.c /\ RunCommittee(c.run) /\ UNCHANGED mem
  \/ /\ x.call = "veto_external" /\ x.who \in tec.members
     /\ dem_veto_external(x.who) /\ UNCHANGED <<mem, tec>>
  \/ x.call = "change_key" /\ mem_change_key(x.who, x.new) /\ UNCHANGED <<bal, dem>>

-----------------------------------------------------------------------------
\* sudo, sudo_as, as_recovered and as_sub dispatch another call, as root or for
\* another account; only root may make the calls of RootCalls.
RootCalls ==
  {"set_balance", "elect_remove_member", "cancel_referendum", "cancel_queued",
   "clear_public_proposals", "force_transfer_index", "set_recovered", "set_max_members",
   "force_unstake", "set_validator_count", "force_era", "set_invulnerables", "set_history_depth",
   "council_set_members", "committee_set_members"}
As(call, who) == [call EXCEPT !.who = who]
Dispatched(x) ==
  CASE x.call = "sudo" -> {c \in {x.inner} : x.who = key}
    [] x.call = "sudo_as" -> {As(c, x.account) : c \in {i \in {x.inner} : x.who = key}}
    [] x.call = "as_recovered" -> {As(c, x.account) : c \in {i \in {x.inner} : ActsFor(x.who, x.account)}}
    [] x.call = "as_sub" -> {As(x.inner, SubAccount[<<x.who, x.index>>])}
    [] OTHER -> {c \in {x} : x.call \notin RootCalls}

set_key(who, new) == who = key /\ key' = new

Dispatch(x) ==
  \/ BalancesCall(x) /\ UNCHANGED <<governance, accounts, consensus, key>>
  \/ PublicCall(x) /\ UNCHANGED <<tre, mem, tec, col, els, accounts, consensus, key>>
  \/ TreasuryCall(x) /\ UNCHANGED <<dem, mem, tec, col, els, accounts, consensus, key>>
  \/ ElectionsCall(x) /\ UNCHANGED <<dem, tre, mem, tec, accounts, consensus, key>>
  \/ CouncilCall(x) /\ UNCHANGED <<els, idx, ves, rec, mul, off, imo, gra, fin, bab, key>>
  \/ CommitteeCall(x) /\ UNCHANGED <<tre, col, els, accounts, consensus, key>>
  \/ AccountCall(x, <<now, calls>>) /\ UNCHANGED <<governance, consensus, key>>
  \/ x.call = "set_key" /\ set_key(x.who, x.new) /\ UNCHANGED <<bal, governance, accounts, consensus>>
  \/ ValidatorCall(x) /\ UNCHANGED <<governance, accounts, key>>

\* apply_extrinsic.
apply_extrinsic ==
  /\ calls < setup.max_calls /\ now \in setup.busy
  /\ calls' = calls + 1
  /\ \E x \in setup.calls :
       /\ "who" \in DOMAIN x => x.who \in bal.live
       /\ \E c \in Dispatched(x) : Dispatch(c)
  /\ UNCHANGED <<now, setup>>

\* finalize_block of this block and initialize_block of the next one.
NextBlock ==
  /\ now < setup.blocks
  /\ now' = now + 1
  /\ \E f \in {treasury_on_finalize(bal, tre, now)} :
     \E s \in society_on_initialize([b |-> f.b, s |-> soc], now + 1) :
     \E e \in {elections_on_initialize([b |-> s.b, e |-> els, c |-> col], now + 1)} :
     \E d \in {begin_block([b |-> e.b, d |-> dem], now + 1)} :
     \E hint \in HintsAt(now), slot \in SlotsAt(now + 1) :
     \E v \in {validators_on_finalize([AllStorages EXCEPT !.bal = d.b], now, hint)} :
     \E r \in {do_initialize(v, now + 1, slot)} :
     \E author \in AuthorsAt(now + 1, r.ses.validators) :
       /\ bal' = r.bal /\ ConsensusBecomes(note_authorship(r, author))
       /\ tre' = f.t /\ els' = e.e /\ col' = e.c /\ dem' = d.d /\ soc' = s.s
  /\ UNCHANGED <<setup, key, mem, tec, idx, ves, rec, mul, idn, calls>>

\* The offchain workers of the validators, and the heartbeats they submit.
OffchainWorker ==
  /\ setup.worker /\ imo_offchain_worker
  /\ UNCHANGED <<bal, now, setup, key, calls, governance, accounts, sta, ses, off, gra, fin, bab>>
UnsignedHeartbeat ==
  imo_heartbeat /\ UNCHANGED <<bal, now, setup, key, calls, governance, accounts, sta, ses, off, gra, fin, bab>>

Next == apply_extrinsic \/ NextBlock \/ OffchainWorker \/ UnsignedHeartbeat

Spec == Init /\ [][Next]_vars

-----------------------------------------------------------------------------
(* No call and no hook of any pallet makes or loses money: the issuance is what the accounts hold,    *)
(* and what is reserved of an account is what the pallets record as its deposits and bonds, so that   *)
(* what one pallet returns, slashes or moves is never the deposit that another one holds. Two pallets *)
(* forget a deposit that stays reserved or count one that is gone: an account that went from member   *)
(* to runner-up or back has lost a bond that the elections still count, and the society drops its     *)
(* candidates without returning their deposits when it ends or has no members, which soc.lost counts  *)
(* here. What spend_funds issues and burns is covered by the pot: settle never fails.                 *)
MoneyIsAccounted ==
  /\ IssuanceIsSum(bal) /\ ~tre.inconsistent
  /\ \A x \in Account :
       LET held == DemocracyReserved(x) + TreasuryReserved(x) + ElectionsReserved(x) + AccountsReserved(x)
       IN IF x \in els.burnt THEN reserved_balance(bal, x) <= held
          ELSE reserved_balance(bal, x) = held

(* Every lock can come off again: an account locked by democracy delegates or has an entry that       *)
(* unlock removes, one locked by the elections is a voter, one locked by vesting has a schedule that  *)
(* vest follows, and one locked by staking has a ledger; and a lock, a proxy, a recovered account, a  *)
(* bond or session keys keep the account from being reaped by a transfer: its reference count is      *)
(* exact, unless cancel_recovered returned a reference that set_recovered had not taken, keys were    *)
(* purged by another account than the one that set them, or a slash removed the account. Who          *)
(* delegates need not be locked: unlock takes the lock of a delegator who had also voted.             *)
LocksCanBeReleased ==
  \A x \in Account :
    /\ DEMOCRACY_ID \in DOMAIN bal.locks[x] => x \in DOMAIN dem.locks \cup DOMAIN dem.delegations
    /\ x \in DOMAIN dem.locks => DEMOCRACY_ID \in DOMAIN bal.locks[x]
    /\ ELECTIONS_ID \in DOMAIN bal.locks[x] <=> is_voter(els, x)
    /\ VESTING_ID \in DOMAIN bal.locks[x] <=> x \in DOMAIN ves
    /\ STAKING_ID \in DOMAIN bal.locks[x] => x \in DOMAIN sta.bonded
    /\ LET held == (IF DOMAIN bal.locks[x] = {} THEN 0 ELSE 1)
                     + (IF x \in DOMAIN dem.proxy THEN 1 ELSE 0)
                     + (IF x \in DOMAIN rec.proxy \ rec.unreferenced THEN 1 ELSE 0)
                     + (IF x \in DOMAIN sta.bonded THEN 1 ELSE 0)
                     + Cardinality({v \in DOMAIN ses.holder : ses.holder[v] = x})
       IN CASE x \in sta.fallen \cup ses.unpaired -> TRUE
            [] x \in rec.unpaired -> bal.refs[x] <= held
            [] OTHER -> bal.refs[x] = held

(* Every referendum is decided at its end and what it decided is enacted at its time: no referendum   *)
(* is past its end or below lowest_unbaked, and the queue is in order and in the future.              *)
DecisionsAreInTime ==
  /\ \A i \in DOMAIN dem.info : dem.info[i].end > now /\ i \in dem.lowest_unbaked .. dem.referendum_count - 1
  /\ \A k \in DOMAIN dem.queue : dem.queue[k].at > now
  /\ \A k \in DOMAIN dem.queue : \A j \in 1 .. k : dem.queue[j].at <= dem.queue[k].at

(* The council is the elected members and the committee the membership, no account is in two lists of *)
(* the elections, and open motions hold the votes of members only, each on one side, however          *)
(* elections, removals and motions change the bodies. The genesis and set_members give a collective   *)
(* members that the other pallet does not know: the two lists are then apart until that pallet        *)
(* replaces the list, and as it cannot name those members as outgoing, their votes stay.              *)
BodiesAgree ==
  /\ Follows(col, els.members) /\ Follows(tec, mem.members)
  /\ els.members \cap ToSet(els.runners_up) = {}
  /\ els.candidates \cap (els.members \cup ToSet(els.runners_up)) = {}
  /\ tec.apart \/ tec.prime \subseteq mem.prime
  /\ VotesAreOfMembers(col) /\ VotesAreOfMembers(tec)

=============================================================================
