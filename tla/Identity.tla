------------------------------ MODULE Identity ------------------------------
(***************************************************************************)
(* The identity pallet: accounts register information for a deposit, name  *)
(* sub-accounts, and pay registrars for judgements; the judgements that    *)
(* are not positive stay when the information changes.  Of the information *)
(* only the number of additional fields, which costs a deposit, is kept.   *)
(***************************************************************************)
EXTENDS Balances

CONSTANTS BasicDeposit, FieldDeposit, SubAccountDeposit, MaxSubAccounts, MaxAdditionalFields

VARIABLE idn

\* registrars: a sequence of [account, fee, fields]; of: [account -> [judgements,
\* deposit]], judgements being [registrar -> Judgement]; subs: [account ->
\* [deposit, ids]]; super: [account -> account].
IdentityInit == [registrars |-> <<>>, of |-> <<>>, subs |-> <<>>, super |-> <<>>]

FeePaid(fee) == [kind |-> "FeePaid", fee |-> fee]
Judged(kind) == [kind |-> kind, fee |-> 0]
is_sticky(j) == j.kind \in {"FeePaid", "Erroneous"}

\* Registration::total_deposit.
total_deposit(id) ==
  id.deposit + MapThenSumSet(LAMBDA r : id.judgements[r].fee, DOMAIN id.judgements)

SubsOf(who) == GetOr(idn.subs, who, [deposit |-> 0, ids |-> {}])

IdnOnly(i) == idn' = i /\ UNCHANGED bal

\* A deposit goes from old to new: the difference is reserved or returned.
CanChange(who, old, new) == new > old => can_reserve(bal, who, new - old)
Changed(who, old, new) ==
  IF new > old THEN Reserve(bal, who, new - old) ELSE Unreserve(bal, who, old - new)

idn_add_registrar(account) ==
  IdnOnly([idn EXCEPT !.registrars = Append(@, [account |-> account, fee |-> 0, fields |-> {}])])

idn_set_identity(who, fields) ==
  LET old == GetOr(idn.of, who, [judgements |-> <<>>, deposit |-> 0])
      deposit == BasicDeposit + fields * FieldDeposit
      sticky == {r \in DOMAIN old.judgements : is_sticky(old.judgements[r])}
  IN /\ fields <= MaxAdditionalFields
     /\ CanChange(who, old.deposit, deposit)
     /\ bal' = Changed(who, old.deposit, deposit)
     /\ idn' = [idn EXCEPT !.of = Put(@, who, [judgements |-> Restrict(old.judgements, sticky),
                                               deposit |-> deposit])]

\* The super of every old sub is removed, whoever it is.
idn_set_subs(who, ids) ==
  LET old == SubsOf(who)
      deposit == SubAccountDeposit * Cardinality(ids)
      kept == Restrict(idn.super, DOMAIN idn.super \ old.ids)
  IN /\ who \in DOMAIN idn.of
     /\ Cardinality(ids) <= MaxSubAccounts
     /\ CanChange(who, old.deposit, deposit)
     /\ bal' = Changed(who, old.deposit, deposit)
     /\ idn' = [idn EXCEPT
          !.super = [x \in DOMAIN kept \cup ids |-> IF x \in ids THEN who ELSE kept[x]],
          !.subs = IF ids = {} THEN Drop(@, who) ELSE Put(@, who, [deposit |-> deposit, ids |-> ids])]

Cleared(who) ==
  [idn EXCEPT !.of = Drop(@, who), !.subs = Drop(@, who),
              !.super = Restrict(@, DOMAIN @ \ SubsOf(who).ids)]

idn_clear_identity(who) ==
  /\ who \in DOMAIN idn.of
  /\ bal' = Unreserve(bal, who, total_deposit(idn.of[who]) + SubsOf(who).deposit)
  /\ idn' = Cleared(who)

\* kill_identity slashes the deposits, which go to the treasury.
idn_kill_identity(target) ==
  /\ target \in DOMAIN idn.of
  /\ LET deposit == total_deposit(idn.of[target]) + SubsOf(target).deposit
     IN bal' = IntoPot(SlashReserved(bal, target, deposit), SlashedReserve(bal, target, deposit))
  /\ idn' = Cleared(target)

JudgementOf(who, r) == GetOr(idn.of[who].judgements, r, Judged("Unknown"))

idn_request_judgement(who, r, max_fee) ==
  /\ r \in DOMAIN idn.registrars /\ max_fee >= idn.registrars[r].fee
  /\ who \in DOMAIN idn.of /\ ~is_sticky(JudgementOf(who, r))
  /\ can_reserve(bal, who, idn.registrars[r].fee)
  /\ bal' = Reserve(bal, who, idn.registrars[r].fee)
  /\ idn' = [idn EXCEPT !.of[who].judgements = Put(@, r, FeePaid(idn.registrars[r].fee))]

idn_cancel_request(who, r) ==
  /\ who \in DOMAIN idn.of /\ JudgementOf(who, r).kind = "FeePaid"
  /\ bal' = Unreserve(bal, who, JudgementOf(who, r).fee)
  /\ idn' = [idn EXCEPT !.of[who].judgements = Drop(@, r)]

idn_set_fee(who, r, fee) ==
  /\ r \in DOMAIN idn.registrars /\ idn.registrars[r].account = who
  /\ IdnOnly([idn EXCEPT !.registrars[r].fee = fee])

idn_set_account_id(who, r, new) ==
  /\ r \in DOMAIN idn.registrars /\ idn.registrars[r].account = who
  /\ IdnOnly([idn EXCEPT !.registrars[r].account = new])

idn_set_fields(who, r, fields) ==
  /\ r \in DOMAIN idn.registrars /\ idn.registrars[r].account = who
  /\ IdnOnly([idn EXCEPT !.registrars[r].fields = fields])

\* provide_judgement: the fee that was paid goes to the registrar.
idn_provide_judgement(who, r, target, kind) ==
  /\ r \in DOMAIN idn.registrars /\ idn.registrars[r].account = who
  /\ target \in DOMAIN idn.of
  /\ LET fee == JudgementOf(target, r).fee
     IN bal' = IF CanRepatriate(bal, target, who, fee) THEN RepatriateReserved(bal, target, who, fee)
               ELSE bal
  /\ idn' = [idn EXCEPT !.of[target].judgements = Put(@, r, Judged(kind))]

IdentityReserved(x) ==
  (IF x \in DOMAIN idn.of THEN total_deposit(idn.of[x]) ELSE 0) + SubsOf(x).deposit
=============================================================================
