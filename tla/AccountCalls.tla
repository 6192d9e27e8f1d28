---------------------------- MODULE AccountCalls ----------------------------
(* The pallets an account uses for itself: indices, vesting, recovery and  *)
(* the multisignatures of utility; and the calls of an account on them.    *)
EXTENDS Identity, Society

-----------------------------------------------------------------------------
(***************************************************************************)
(* The indices pallet: short indices are claimed for a deposit, handed on  *)
(* with the deposit, freed, and forced by root.                            *)
(***************************************************************************)

CONSTANT IndexDeposit

VARIABLE idx   \* Accounts: [index -> [owner, deposit]]

IndicesInit == <<>>

idx_claim(who, index) ==
  /\ index \notin DOMAIN idx
  /\ can_reserve(bal, who, IndexDeposit)
  /\ bal' = Reserve(bal, who, IndexDeposit)
  /\ idx' = Put(idx, index, [owner |-> who, deposit |-> IndexDeposit])

\* Mutant: the deposit arrives as free balance.
idx_transfer_free(who, new, index) ==
  /\ who # new
  /\ index \in DOMAIN idx /\ idx[index].owner = who
  /\ CanRepatriate(bal, who, new, idx[index].deposit)
  /\ bal' = RepatriateReserved(bal, who, new, idx[index].deposit)
  /\ idx' = [idx EXCEPT ![index].owner = new]

\* transfer: what could not be moved is taken off the deposit.
idx_transfer(who, new, index) ==
  /\ who # new
  /\ index \in DOMAIN idx /\ idx[index].owner = who
  /\ CanRepatriate(bal, who, new, idx[index].deposit)
  /\ bal' = RepatriateToReserved(bal, who, new, idx[index].deposit)
  /\ idx' = [idx EXCEPT ![index] = [owner |-> new,
                                    deposit |-> Min2(@.deposit, reserved_balance(bal, who))]]

idx_free(who, index) ==
  /\ index \in DOMAIN idx /\ idx[index].owner = who
  /\ bal' = Unreserve(bal, who, idx[index].deposit)
  /\ idx' = Drop(idx, index)

\* force_transfer, for root.
idx_force_transfer(new, index) ==
  /\ bal' = IF index \in DOMAIN idx THEN Unreserve(bal, idx[index].owner, idx[index].deposit) ELSE bal
  /\ idx' = Put(idx, index, [owner |-> new, deposit |-> 0])

IndicesReserved(x) ==
  MapThenSumSet(LAMBDA i : IF idx[i].owner = x THEN idx[i].deposit ELSE 0, DOMAIN idx)

-----------------------------------------------------------------------------
(***************************************************************************)
(* The vesting pallet: an account with a schedule is locked for what is    *)
(* not vested yet; the lock only follows the schedule when somebody asks.  *)
(***************************************************************************)

CONSTANTS MinVestedTransfer, VESTING_ID

VARIABLE ves   \* Vesting: [account -> [locked, per_block, starting_block]]

VestingInit == <<>>

locked_at(v, n) == MonusOf(v.locked, MonusOf(n, v.starting_block) * v.per_block)

\* update_lock of an account with the schedules v; completed ones are removed.
UpdateLock(b, v, who) ==
  IF locked_at(v[who], now) = 0
  THEN [b |-> remove_lock(b, VESTING_ID, who), v |-> Drop(v, who)]
  ELSE [b |-> set_lock(b, VESTING_ID, who, locked_at(v[who], now)), v |-> v]

VesBecomes(s) == bal' = s.b /\ ves' = s.v

\* vest and vest_other.
ves_vest(target) ==
  /\ target \in DOMAIN ves
  /\ VesBecomes(UpdateLock(bal, ves, target))

\* vested_transfer, with add_vesting_schedule.
ves_vested_transfer(who, target, schedule) ==
  /\ schedule.locked >= MinVestedTransfer
  /\ target \notin DOMAIN ves
  /\ CanTransfer(bal, who, target, schedule.locked, FALSE)
  /\ LET sent == Transfer(bal, who, target, schedule.locked)
     IN VesBecomes(IF schedule.locked = 0 THEN [b |-> sent, v |-> ves]
                   ELSE UpdateLock(sent, Put(ves, target, schedule), target))

-----------------------------------------------------------------------------
(***************************************************************************)
(* The recovery pallet: an account names friends who can vouch for a       *)
(* rescuer; a rescuer with enough of them may, after a delay, act for the  *)
(* lost account.                                                           *)
(***************************************************************************)

CONSTANTS ConfigDepositBase, FriendDepositFactor, RecoveryDeposit, MaxFriends

VARIABLE rec

\* recoverable: [account -> config]; active: [<<lost, rescuer>> -> attempt];
\* proxy: [rescuer -> lost]; unreferenced: the rescuers whose entry root made;
\* unpaired: those of them that returned a reference all the same.
RecoveryInit == [recoverable |-> <<>>, active |-> <<>>, proxy |-> <<>>, unreferenced |-> {},
                 unpaired |-> {}]

RecOnly(r) == rec' = r /\ UNCHANGED bal

rec_create_recovery(who, friends, threshold, delay_period) ==
  LET deposit == ConfigDepositBase + FriendDepositFactor * Cardinality(friends)
  IN /\ who \notin DOMAIN rec.recoverable
     /\ threshold \in 1 .. Cardinality(friends)
     /\ Cardinality(friends) <= MaxFriends
     /\ can_reserve(bal, who, deposit)
     /\ bal' = Reserve(bal, who, deposit)
     /\ rec' = [rec EXCEPT !.recoverable =
                  Put(@, who, [friends |-> friends, threshold |-> threshold,
                               delay_period |-> delay_period, deposit |-> deposit])]

rec_initiate_recovery(who, account) ==
  /\ account \in DOMAIN rec.recoverable
  /\ <<account, who>> \notin DOMAIN rec.active
  /\ can_reserve(bal, who, RecoveryDeposit)
  /\ bal' = Reserve(bal, who, RecoveryDeposit)
  /\ rec' = [rec EXCEPT !.active = Put(@, <<account, who>>,
               [created |-> now, deposit |-> RecoveryDeposit, friends |-> {}])]

rec_vouch_recovery(who, lost, rescuer) ==
  /\ lost \in DOMAIN rec.recoverable
  /\ <<lost, rescuer>> \in DOMAIN rec.active
  /\ who \in rec.recoverable[lost].friends \ rec.active[<<lost, rescuer>>].friends
  /\ RecOnly([rec EXCEPT !.active[<<lost, rescuer>>].friends = @ \cup {who}])

rec_claim_recovery(who, account) ==
  /\ account \in DOMAIN rec.recoverable
  /\ <<account, who>> \in DOMAIN rec.active
  /\ who \notin DOMAIN rec.proxy
  /\ rec.active[<<account, who>>].created + rec.recoverable[account].delay_period <= now
  /\ rec.recoverable[account].threshold <= Cardinality(rec.active[<<account, who>>].friends)
  /\ bal' = inc_ref(bal, who)
  /\ rec' = [rec EXCEPT !.proxy = Put(@, who, account)]

\* close_recovery: the deposit of the rescuer goes to the account.
rec_close_recovery(who, rescuer) ==
  /\ <<who, rescuer>> \in DOMAIN rec.active
  /\ LET deposit == rec.active[<<who, rescuer>>].deposit
     IN bal' = IF CanRepatriate(bal, rescuer, who, deposit)
               THEN RepatriateReserved(bal, rescuer, who, deposit) ELSE bal
  /\ rec' = [rec EXCEPT !.active = Drop(@, <<who, rescuer>>)]

rec_remove_recovery(who) ==
  /\ \A a \in DOMAIN rec.active : a[1] # who
  /\ who \in DOMAIN rec.recoverable
  /\ bal' = Unreserve(bal, who, rec.recoverable[who].deposit)
  /\ rec' = [rec EXCEPT !.recoverable = Drop(@, who)]

\* as_recovered: who may act for the account.
ActsFor(who, account) == who \in DOMAIN rec.proxy /\ rec.proxy[who] = account

\* set_recovered, for root, takes no reference to the rescuer; cancel_recovered
\* returns one all the same.
rec_set_recovered(lost, rescuer) ==
  RecOnly([rec EXCEPT !.proxy = Put(@, rescuer, lost),
                      !.unreferenced = IF rescuer \in DOMAIN rec.proxy THEN @ ELSE @ \cup {rescuer}])

\* Mutant: the reference is kept.
rec_cancel_recovered_kept(who, account) ==
  ActsFor(who, account) /\ RecOnly([rec EXCEPT !.proxy = Drop(@, who)])

rec_cancel_recovered(who, account) ==
  /\ ActsFor(who, account)
  /\ bal' = dec_ref(bal, who)
  /\ rec' = [rec EXCEPT !.proxy = Drop(@, who), !.unreferenced = @ \ {who},
                      !.unpaired = @ \cup ({who} \cap rec.unreferenced)]

RecoveryReserved(x) ==
  (IF x \in DOMAIN rec.recoverable THEN rec.recoverable[x].deposit ELSE 0)
  + MapThenSumSet(LAMBDA a : IF a[2] = x THEN rec.active[a].deposit ELSE 0, DOMAIN rec.active)

-----------------------------------------------------------------------------
(***************************************************************************)
(* The multisig operations of the utility pallet: the signatories of a     *)
(* composite account approve a call until enough of them did.  The calls   *)
(* are transfers of the composite account, named by the hash that          *)
(* approve_as_multi takes.  `when` is {} or {the timepoint of the first    *)
(* approval}; at is the current timepoint.                                 *)
(***************************************************************************)

CONSTANTS
  MultisigDepositBase, MultisigDepositFactor, MaxSignatories,
  Transfers,          \* [hash -> [dest, value]]: the calls
  MultiAccount        \* [<<signatories, threshold>> -> account]: multi_account_id

VARIABLE mul   \* Multisigs: [<<id, hash>> -> [when, deposit, depositor, approvals]]

MultisigInit == <<>>

\* The checks that as_multi, approve_as_multi and cancel_as_multi begin with.
SignatoriesOk(who, threshold, others) ==
  /\ threshold >= 1
  /\ Cardinality(others) \in 1 .. MaxSignatories - 1
  /\ who \notin others

OpOf(who, threshold, others, hash) == <<<<others \cup {who}, threshold>>, hash>>

\* The first approval, with its deposit.
Open(op, who, threshold, when, at) ==
  LET deposit == MultisigDepositBase + MultisigDepositFactor * threshold
  IN /\ op \notin DOMAIN mul /\ when = {} /\ threshold > 1
     /\ can_reserve(bal, who, deposit)
     /\ bal' = Reserve(bal, who, deposit)
     /\ mul' = Put(mul, op, [when |-> at, deposit |-> deposit, depositor |-> who, approvals |-> {who}])

Approved(op, who) == mul' = [mul EXCEPT ![op].approvals = @ \cup {who}] /\ UNCHANGED bal

\* The call of the composite account; a transfer that fails is only reported.
RunTransfer(b, id, hash) ==
  TryTransfer(b, MultiAccount[id], Transfers[hash].dest, Transfers[hash].value, FALSE)

\* as_multi dispatches when the caller is the last that was needed, or when
\* enough others have approved; the deposit is returned after the call.
mul_as_multi(who, threshold, others, when, hash, at) ==
  LET op == OpOf(who, threshold, others, hash)
      known == op \in DOMAIN mul /\ when = {mul[op].when}
      approvals == mul[op].approvals
  IN /\ SignatoriesOk(who, threshold, others)
     /\ \/ /\ known /\ who \notin approvals /\ Cardinality(approvals) < threshold - 1
           /\ Approved(op, who)
        \/ /\ known
           /\ IF who \in approvals THEN Cardinality(approvals) >= threshold
              ELSE Cardinality(approvals) >= threshold - 1
           /\ bal' = Unreserve(RunTransfer(bal, op[1], hash), mul[op].depositor, mul[op].deposit)
           /\ mul' = Drop(mul, op)
        \/ Open(op, who, threshold, when, at)
        \/ /\ op \notin DOMAIN mul /\ when = {} /\ threshold = 1
           /\ bal' = RunTransfer(bal, op[1], hash) /\ UNCHANGED mul

mul_approve_as_multi(who, threshold, others, when, hash, at) ==
  LET op == OpOf(who, threshold, others, hash)
  IN /\ SignatoriesOk(who, threshold, others)
     /\ \/ /\ op \in DOMAIN mul /\ when = {mul[op].when}
           /\ Cardinality(mul[op].approvals) < threshold /\ who \notin mul[op].approvals
           /\ Approved(op, who)
        \/ Open(op, who, threshold, when, at)

mul_cancel_as_multi(who, threshold, others, when, hash) ==
  LET op == OpOf(who, threshold, others, hash)
  IN /\ SignatoriesOk(who, threshold, others)
     /\ op \in DOMAIN mul /\ when = {mul[op].when} /\ mul[op].depositor = who
     /\ bal' = Unreserve(bal, who, mul[op].deposit)
     /\ mul' = Drop(mul, op)

MultisigReserved(x) ==
  MapThenSumSet(LAMBDA o : IF mul[o].depositor = x THEN mul[o].deposit ELSE 0, DOMAIN mul)

-----------------------------------------------------------------------------
(***************************************************************************)
(* The calls of the pallets that hold something for single accounts:       *)
(* indices, vesting, recovery, multisig, identity and the society.         *)
(***************************************************************************)

IndicesCall(x) ==
  \/ x.call = "claim_index" /\ idx_claim(x.who, x.index)
  \/ x.call = "transfer_index" /\ idx_transfer(x.who, x.new, x.index)
  \/ x.call = "free_index" /\ idx_free(x.who, x.index)
  \/ x.call = "force_transfer_index" /\ idx_force_transfer(x.new, x.index)

VestingCall(x) ==
  \/ x.call = "vest" /\ ves_vest(x.target)
  \/ x.call = "vested_transfer" /\ ves_vested_transfer(x.who, x.target, x.schedule)

RecoveryCall(x) ==
  \/ x.call = "create_recovery" /\ rec_create_recovery(x.who, x.friends, x.threshold, x.delay)
  \/ x.call = "initiate_recovery" /\ rec_initiate_recovery(x.who, x.account)
  \/ x.call = "vouch_recovery" /\ rec_vouch_recovery(x.who, x.account, x.rescuer)
  \/ x.call = "claim_recovery" /\ rec_claim_recovery(x.who, x.account)
  \/ x.call = "close_recovery" /\ rec_close_recovery(x.who, x.rescuer)
  \/ x.call = "remove_recovery" /\ rec_remove_recovery(x.who)
  \/ x.call = "cancel_recovered" /\ rec_cancel_recovered(x.who, x.account)
  \/ x.call = "set_recovered" /\ rec_set_recovered(x.account, x.rescuer)

\* The caller knows the timepoint of the operation when there is one.
MultisigCall(x, at) ==
  LET op == OpOf(x.who, x.threshold, x.others, x.hash)
      when == IF op \in DOMAIN mul THEN {mul[op].when} ELSE {}
  IN \/ x.call = "as_multi" /\ mul_as_multi(x.who, x.threshold, x.others, when, x.hash, at)
     \/ x.call = "approve_as_multi" /\ mul_approve_as_multi(x.who, x.threshold, x.others, when, x.hash, at)
     \/ x.call = "cancel_as_multi" /\ mul_cancel_as_multi(x.who, x.threshold, x.others, when, x.hash)

IdentityCall(x) ==
  \/ x.call = "set_identity" /\ idn_set_identity(x.who, x.fields)
  \/ x.call = "set_subs" /\ idn_set_subs(x.who, x.ids)
  \/ x.call = "clear_identity" /\ idn_clear_identity(x.who)
  \/ x.call = "request_judgement" /\ idn_request_judgement(x.who, x.registrar, x.value)
  \/ x.call = "cancel_request" /\ idn_cancel_request(x.who, x.registrar)
  \/ x.call = "set_fee" /\ idn_set_fee(x.who, x.registrar, x.value)
  \/ x.call = "set_account_id" /\ idn_set_account_id(x.who, x.registrar, x.new)
  \/ x.call = "set_fields" /\ idn_set_fields(x.who, x.registrar, x.fields)
  \/ x.call = "provide_judgement" /\ idn_provide_judgement(x.who, x.registrar, x.target, x.judgement)

SocietyCall(x) ==
  \/ x.call = "bid" /\ soc_bid(x.who, x.value)
  \/ x.call = "unbid" /\ soc_unbid(x.who, x.pos)
  \/ x.call = "vouch" /\ soc_vouch(x.who, x.target, x.value, x.tip)
  \/ x.call = "unvouch" /\ soc_unvouch(x.who, x.pos)
  \/ x.call = "society_vote" /\ soc_vote(x.who, x.target, x.approve)
  \/ x.call = "defender_vote" /\ soc_defender_vote(x.who, x.approve)
  \/ x.call = "payout" /\ soc_payout(x.who)
  \/ x.call = "unfound" /\ soc_unfound(x.who)
  \/ x.call = "judge_member" /\ soc_judge_suspended_member(x.who, x.target, x.forgive)
  \/ x.call = "judge_candidate" /\ soc_judge_suspended_candidate(x.who, x.target, x.judgement)
  \/ x.call = "set_max_members" /\ soc_set_max_members(x.value)

AccountCall(x, at) ==
  \/ IndicesCall(x) /\ UNCHANGED <<ves, rec, mul, idn, soc>>
  \/ VestingCall(x) /\ UNCHANGED <<idx, rec, mul, idn, soc>>
  \/ RecoveryCall(x) /\ UNCHANGED <<idx, ves, mul, idn, soc>>
  \/ /\ x.call \in {"as_multi", "approve_as_multi", "cancel_as_multi"}
     /\ MultisigCall(x, at) /\ UNCHANGED <<idx, ves, rec, idn, soc>>
  \/ IdentityCall(x) /\ UNCHANGED <<idx, ves, rec, mul, soc>>
  \/ SocietyCall(x) /\ UNCHANGED <<idx, ves, rec, mul, idn>>

\* What the pallets have reserved of an account.
AccountsReserved(x) ==
  IndicesReserved(x) + RecoveryReserved(x) + MultisigReserved(x) + IdentityReserved(x)
    + SocietyReserved(x)

=============================================================================
