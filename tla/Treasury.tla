------------------------------ MODULE Treasury ------------------------------
(***************************************************************************)
(* The treasury pallet: spending proposals with their bonds, tips by the   *)
(* elected members, and spend_funds, which at the end of a spend period    *)
(* pays the approved proposals out of the pot and burns a part of the rest.*)
(***************************************************************************)
EXTENDS Balances

CONSTANTS
  SpendPeriod, TipCountdown, TipReportDeposit, ProposalBondMinimum,
  ProposalBondPercent, BurnPercent, FindersFeePercent

VARIABLE tre

TreasuryInit ==
  [count |-> 0, proposals |-> <<>>, approvals |-> <<>>, tips |-> <<>>, reasons |-> {},
   inconsistent |-> FALSE]

calculate_bond(value) == Max2(ProposalBondMinimum, PartOf(ProposalBondPercent, 100, value))

pot(b) == MonusOf(free_balance(b, TreasuryAccount), ExistentialDeposit)

-----------------------------------------------------------------------------
\* Spending.

\* One round of the retain in spend_funds; f holds the ledger, the budget, what
\* was issued to beneficiaries, and the approvals that are kept.
Award(f, id) ==
  LET p == f.proposals[id]
      returned == Unreserve(f.b, p.proposer, p.bond)
  IN CASE id \notin DOMAIN f.proposals -> f
       [] id \in DOMAIN f.proposals /\ p.value <= f.budget ->
            [f EXCEPT !.budget = @ - p.value, !.proposals = Drop(@, id),
                      !.issued = @ + DepositedBy(returned, p.beneficiary, p.value),
                      !.b = DepositCreating(returned, p.beneficiary, p.value)]
       [] OTHER -> [f EXCEPT !.missed = Append(@, id)]

\* Currency::settle: the positive imbalance is withdrawn from the pot, or, when
\* that fails, dropped.
Settle(b, t, imbalance) ==
  LET settles == CanWithdraw(b, TreasuryAccount, imbalance, TRUE)
  IN [b |-> IF settles THEN Withdraw(b, TreasuryAccount, imbalance) ELSE DropPositive(b, imbalance),
      t |-> [t EXCEPT !.inconsistent = @ \/ ~settles]]

\* What is left of the budget is burnt in part, unless an approval was missed.
BurnAndSettle(t, f, burn) ==
  Settle(DropNegative(f.b, burn), [t EXCEPT !.proposals = f.proposals, !.approvals = f.missed],
         f.issued + burn)

Spent(t, f) ==
  BurnAndSettle(t, f, IF f.missed = <<>> THEN Min2(PartOf(BurnPercent, 100, f.budget), f.budget) ELSE 0)

spend_funds(b, t) ==
  Spent(t, FoldLeft(Award, [b |-> b, budget |-> pot(b), issued |-> 0, missed |-> <<>>,
                            proposals |-> t.proposals], t.approvals))

\* on_finalize of block n.
treasury_on_finalize(b, t, n) ==
  IF n % SpendPeriod = 0 THEN spend_funds(b, t) ELSE [b |-> b, t |-> t]

tre_propose_spend(who, value, beneficiary) ==
  /\ can_reserve(bal, who, calculate_bond(value))
  /\ bal' = Reserve(bal, who, calculate_bond(value))
  /\ tre' = [tre EXCEPT !.count = @ + 1,
               !.proposals = Put(@, tre.count, [proposer |-> who, value |-> value,
                                 beneficiary |-> beneficiary, bond |-> calculate_bond(value)])]

\* The bond is slashed, and dropped: ProposalRejection is ().
tre_reject_proposal(id) ==
  /\ id \in DOMAIN tre.proposals
  /\ LET p == tre.proposals[id]
     IN bal' = DropNegative(SlashReserved(bal, p.proposer, p.bond),
                            SlashedReserve(bal, p.proposer, p.bond))
  /\ tre' = [tre EXCEPT !.proposals = Drop(@, id)]

tre_approve_proposal(id) ==
  /\ id \in DOMAIN tre.proposals
  /\ tre' = [tre EXCEPT !.approvals = Append(@, id)]
  /\ UNCHANGED bal

-----------------------------------------------------------------------------
\* Tips: keyed by the hash of the reason and the one who is tipped.

tre_report_awesome(finder, reason, who) ==
  /\ reason \notin tre.reasons /\ <<reason, who>> \notin DOMAIN tre.tips
  /\ can_reserve(bal, finder, TipReportDeposit)
  /\ bal' = Reserve(bal, finder, TipReportDeposit)
  /\ tre' = [tre EXCEPT !.reasons = @ \cup {reason},
               !.tips = Put(@, <<reason, who>>, [finder |-> {finder}, closes |-> {}, tips |-> <<>>])]

tre_retract_tip(who, key) ==
  /\ key \in DOMAIN tre.tips /\ who \in tre.tips[key].finder
  /\ bal' = Unreserve(bal, who, TipReportDeposit)
  /\ tre' = [tre EXCEPT !.reasons = @ \ {key[1]}, !.tips = Drop(@, key)]

tre_tip_new(tippers, tipper, reason, who, value) ==
  /\ tipper \in tippers
  /\ reason \notin tre.reasons
  /\ tre' = [tre EXCEPT !.reasons = @ \cup {reason},
               !.tips = Put(@, <<reason, who>>,
                            [finder |-> {}, closes |-> {}, tips |-> Put(<<>>, tipper, value)])]
  /\ UNCHANGED bal

retain_active_tips(tips, tippers) == Restrict(tips, DOMAIN tips \cap tippers)

\* insert_tip_and_check_closing.
tre_tip(tippers, tipper, key, value) ==
  /\ tipper \in tippers
  /\ key \in DOMAIN tre.tips
  /\ LET tips == retain_active_tips(Put(tre.tips[key].tips, tipper, value), tippers)
         closing == Cardinality(DOMAIN tips) >= (Cardinality(tippers) + 1) \div 2
                      /\ tre.tips[key].closes = {}
     IN tre' = [tre EXCEPT !.tips[key].tips = tips,
                           !.tips[key].closes = IF closing THEN {now + TipCountdown} ELSE @]
  /\ UNCHANGED bal

\* The tip at position len / 2 in the order of the values.
MedianTip(tips) ==
  LET half == Cardinality(DOMAIN tips) \div 2
  IN CHOOSE v \in Range(tips) : /\ Cardinality({m \in DOMAIN tips : tips[m] < v}) <= half
                                /\ Cardinality({m \in DOMAIN tips : tips[m] <= v}) > half

\* payout_tip: both transfers are best effort.
PayoutTip(b, tip, who, tips) ==
  LET payout == Min2(MedianTip(tips), free_balance(b, TreasuryAccount))
      pay(c, x, v) == TryTransfer(c, TreasuryAccount, x, v, FALSE)
      fee == PartOf(FindersFeePercent, 100, payout)
  IN IF tip.finder = {} THEN pay(b, who, payout)
     ELSE LET finder == CHOOSE x \in tip.finder : TRUE
              returned == Unreserve(b, finder, TipReportDeposit)
          IN IF finder = who THEN pay(returned, who, payout)
             ELSE pay(pay(returned, finder, fee), who, payout - fee)

\* The payout indexes the active tips, so that a tip none of whose tippers is
\* still a member cannot be closed: the call panics.
tre_close_tip(tippers, key) ==
  /\ key \in DOMAIN tre.tips
  /\ \E n \in tre.tips[key].closes : now >= n
  /\ LET tips == retain_active_tips(tre.tips[key].tips, tippers)
     IN /\ DOMAIN tips # {}
        /\ bal' = PayoutTip(bal, tre.tips[key], key[2], tips)
  /\ tre' = [tre EXCEPT !.reasons = @ \ {key[1]}, !.tips = Drop(@, key)]

\* What the pallet has reserved from an account.
TreasuryReserved(x) ==
  MapThenSumSet(LAMBDA i : IF tre.proposals[i].proposer = x THEN tre.proposals[i].bond ELSE 0,
                DOMAIN tre.proposals)
  + TipReportDeposit * Cardinality({k \in DOMAIN tre.tips : x \in tre.tips[k].finder})
=============================================================================
