------------------------------ MODULE Balances ------------------------------
(* The ledger of the runtime, and what its pallets share.                  *)
EXTENDS Integers, FiniteSets, FiniteSetsExt, Functions, Sequences, SequencesExt

-----------------------------------------------------------------------------
(***************************************************************************)
(* The balances pallet (frame/balances) and the account references of the  *)
(* system pallet: a ledger b holds the account data, the locks and the     *)
(* reference counts of every account and the total issuance.  Functions of *)
(* the pallet that can fail come in two parts: CanX says that the call     *)
(* succeeds, X is the ledger after a call that does.  All locks of the     *)
(* runtime restrict transfers and reservations, so one frozen amount       *)
(* stands for misc_frozen.                                                 *)
(***************************************************************************)

CONSTANTS
  Account,             \* all accounts, the ones of pallets included
  ExistentialDeposit,  \* T::ExistentialDeposit
  MaxBalance           \* Balance::max_value(), the amount of an indefinite lock

ASSUME BalancesAssumption ==
  ExistentialDeposit \in Nat \ {0} /\ MaxBalance \in Nat

Min2(x, y) == IF x <= y THEN x ELSE y
Max2(x, y) == IF x >= y THEN x ELSE y
MonusOf(x, y) == IF x >= y THEN x - y ELSE 0

\* AccountData::default().
NoData == [free |-> 0, reserved |-> 0, frozen |-> 0]

TotalOf(a) == a.free + a.reserved

\* A ledger with the given free balances (the genesis of the pallet).
Genesis(free) ==
  [acc |-> [x \in Account |-> [NoData EXCEPT !.free = free[x]]],
   live |-> {x \in Account : free[x] > 0},
   issuance |-> SumFunction(free),
   locks |-> [x \in Account |-> <<>>],
   refs |-> [x \in Account |-> 0]]

free_balance(b, who) == b.acc[who].free
reserved_balance(b, who) == b.acc[who].reserved
total_balance(b, who) == TotalOf(b.acc[who])

-----------------------------------------------------------------------------
\* frame_system: references and existence of accounts.

inc_ref(b, who) == [b EXCEPT !.refs[who] = @ + 1, !.live = @ \cup {who}]
dec_ref(b, who) == [b EXCEPT !.refs[who] = MonusOf(@, 1), !.live = @ \cup {who}]
allow_death(b, who) == b.refs[who] = 0

\* T::AccountStore::is_explicit.
IsExplicit(b, who) == who \in b.live

-----------------------------------------------------------------------------
\* Imbalances: dropping one settles the issuance (imbalances::Drop).

DropPositive(b, v) == [b EXCEPT !.issuance = @ + v]
DropNegative(b, v) == [b EXCEPT !.issuance = MonusOf(@, v)]

\* try_mutate_account with post_mutation: the account gets its new data, or is
\* removed with its references when it falls below the existential deposit, the
\* dust being dropped (DustRemoval is ()).
MutateAccount(b, who, data) ==
  IF TotalOf(data) >= ExistentialDeposit
  THEN [b EXCEPT !.acc[who] = data, !.live = @ \cup {who}]
  ELSE DropNegative([b EXCEPT !.acc[who] = NoData, !.live = @ \ {who}, !.refs[who] = 0],
                    TotalOf(data))

-----------------------------------------------------------------------------
\* Currency.

ensure_can_withdraw(b, who, amount, new_balance) ==
  amount = 0 \/ new_balance >= b.acc[who].frozen

CanTransfer(b, from, to, v, keep_alive) ==
  \/ v = 0 \/ from = to
  \/ /\ b.acc[from].free >= v
     /\ TotalOf(b.acc[to]) + v >= ExistentialDeposit
     /\ ensure_can_withdraw(b, from, v, b.acc[from].free - v)
     /\ \/ ~keep_alive /\ allow_death(b, from)
        \/ b.acc[from].free - v >= ExistentialDeposit

\* The account of the sender is written first, the one of the receiver last.
Transfer(b, from, to, v) ==
  IF v = 0 \/ from = to THEN b
  ELSE LET sent == MutateAccount(b, from, [b.acc[from] EXCEPT !.free = @ - v])
       IN MutateAccount(sent, to, [b.acc[to] EXCEPT !.free = @ + v])

\* `let _ = transfer(..)`: a transfer that fails is ignored.
TryTransfer(b, from, to, v, keep_alive) ==
  IF CanTransfer(b, from, to, v, keep_alive) THEN Transfer(b, from, to, v) ELSE b

\* What slash takes, and the ledger after it: free balance first.
SlashedBy(b, who, v) == Min2(v, TotalOf(b.acc[who]))
Slash(b, who, v) ==
  LET a == b.acc[who]
      from_free == Min2(a.free, v)
  IN IF v = 0 THEN b
     ELSE MutateAccount(b, who, [a EXCEPT !.free = @ - from_free,
                                          !.reserved = @ - Min2(@, v - from_free)])

CanDepositIntoExisting(b, who, v) == v = 0 \/ TotalOf(b.acc[who]) > 0
DepositIntoExisting(b, who, v) ==
  IF v = 0 THEN b ELSE MutateAccount(b, who, [b.acc[who] EXCEPT !.free = @ + v])

\* The positive imbalance that deposit_creating returns, and the ledger.
DepositedBy(b, who, v) ==
  IF v < ExistentialDeposit /\ TotalOf(b.acc[who]) = 0 THEN 0 ELSE v
DepositCreating(b, who, v) ==
  IF DepositedBy(b, who, v) = 0 THEN b
  ELSE MutateAccount(b, who, [b.acc[who] EXCEPT !.free = @ + v])

CanWithdraw(b, who, v, keep_alive) ==
  LET a == b.acc[who]
  IN \/ v = 0
     \/ /\ a.free >= v
        /\ ~keep_alive \/ TotalOf(a) - v >= ExistentialDeposit
                       \/ TotalOf(a) < ExistentialDeposit
        /\ ensure_can_withdraw(b, who, v, a.free - v)
Withdraw(b, who, v) ==
  IF v = 0 THEN b ELSE MutateAccount(b, who, [b.acc[who] EXCEPT !.free = @ - v])

\* make_free_balance_be, whose imbalance is dropped by every caller.
MakeFreeBalanceBe(b, who, v) ==
  LET a == b.acc[who]
      set == MutateAccount(b, who, [a EXCEPT !.free = v])
  IN IF v + a.reserved < ExistentialDeposit /\ TotalOf(a) = 0 THEN b
     ELSE IF a.free <= v THEN DropPositive(set, v - a.free) ELSE DropNegative(set, a.free - v)

\* A negative imbalance of v is put into an account; what the account does not
\* take is dropped.
ResolveCreating(b, who, v) ==
  DropNegative(DepositCreating(b, who, v), v - DepositedBy(b, who, v))

-----------------------------------------------------------------------------
\* ReservableCurrency.

can_reserve(b, who, v) ==
  v = 0 \/ (b.acc[who].free >= v /\ ensure_can_withdraw(b, who, v, b.acc[who].free - v))
Reserve(b, who, v) ==
  IF v = 0 THEN b
  ELSE MutateAccount(b, who, [b.acc[who] EXCEPT !.free = @ - v, !.reserved = @ + v])

Unreserve(b, who, v) ==
  LET actual == Min2(b.acc[who].reserved, v)
  IN IF v = 0 THEN b
     ELSE MutateAccount(b, who, [b.acc[who] EXCEPT !.free = @ + actual, !.reserved = @ - actual])

SlashedReserve(b, who, v) == Min2(b.acc[who].reserved, v)
SlashReserved(b, who, v) ==
  IF v = 0 THEN b
  ELSE MutateAccount(b, who, [b.acc[who] EXCEPT !.reserved = @ - Min2(@, v)])

\* repatriate_reserved with BalanceStatus::Free and with BalanceStatus::Reserved
\* (between two accounts).
CanRepatriate(b, from, to, v) == v = 0 \/ from = to \/ TotalOf(b.acc[to]) > 0
TakeReserved(b, from, v) == MutateAccount(b, from, [b.acc[from] EXCEPT !.reserved = @ - v])
RepatriateReserved(b, from, to, v) ==
  LET actual == SlashedReserve(b, from, v)
  IN IF v = 0 THEN b
     ELSE IF from = to THEN Unreserve(b, from, v)
     ELSE MutateAccount(TakeReserved(b, from, actual), to, [b.acc[to] EXCEPT !.free = @ + actual])
RepatriateToReserved(b, from, to, v) ==
  LET actual == SlashedReserve(b, from, v)
  IN IF v = 0 THEN b
     ELSE MutateAccount(TakeReserved(b, from, actual), to, [b.acc[to] EXCEPT !.reserved = @ + actual])

-----------------------------------------------------------------------------
\* LockableCurrency: the locks of an account are a function from the
\* identifiers in force to the amounts.

\* update_locks: the frozen amount is the largest lock; the first lock takes a
\* reference to the account and the last one returns it.
UpdateLocks(b, who, locks) ==
  LET frozen == Max({0} \cup Range(locks))
      mutated == MutateAccount(b, who, [b.acc[who] EXCEPT !.frozen = frozen])
      stored == [mutated EXCEPT !.locks[who] = locks]
      existed == DOMAIN b.locks[who] # {}
  IN CASE existed /\ DOMAIN locks = {} -> dec_ref(stored, who)
       [] ~existed /\ DOMAIN locks # {} -> inc_ref(stored, who)
       [] OTHER -> stored

LockOf(b, who, id) == IF id \in DOMAIN b.locks[who] THEN b.locks[who][id] ELSE 0

set_lock(b, id, who, amount) ==
  IF amount = 0 THEN b
  ELSE UpdateLocks(b, who, [i \in DOMAIN b.locks[who] \cup {id} |->
                              IF i = id THEN amount ELSE b.locks[who][i]])

extend_lock(b, id, who, amount) ==
  IF amount = 0 THEN b ELSE set_lock(b, id, who, Max2(amount, LockOf(b, who, id)))

remove_lock(b, id, who) == UpdateLocks(b, who, Restrict(b.locks[who], DOMAIN b.locks[who] \ {id}))

-----------------------------------------------------------------------------
\* set_balance, for root: a total below the existential deposit wipes the
\* account out, and the differences are issued or burnt.
SetBalance(b, who, new_free, new_reserved) ==
  LET wipeout == new_free + new_reserved < ExistentialDeposit
      data == [b.acc[who] EXCEPT !.free = IF wipeout THEN 0 ELSE new_free,
                                 !.reserved = IF wipeout THEN 0 ELSE new_reserved]
      old == TotalOf(b.acc[who])
      settled == IF TotalOf(data) >= old THEN DropPositive(b, TotalOf(data) - old)
                 ELSE DropNegative(b, old - TotalOf(data))
  IN MutateAccount(settled, who, data)

-----------------------------------------------------------------------------
\* The issuance is the sum of what the accounts hold.
IssuanceIsSum(b) == b.issuance = SumFunction([x \in Account |-> TotalOf(b.acc[x])])

-----------------------------------------------------------------------------
(***************************************************************************)
(* What the pallets of the runtime share: the ledger of the balances       *)
(* pallet, the block number of the system pallet, and the accounts that    *)
(* belong to pallets.                                                      *)
(***************************************************************************)

CONSTANTS
  TreasuryAccount   \* the account of the treasury pallet

VARIABLES
  bal,   \* the ledger
  now,   \* frame_system::Module::block_number()
  setup  \* the configuration of this behaviour: balances, pallets, bounds

\* OnUnbalanced of the treasury: what is slashed goes into the pot.
IntoPot(b, v) == ResolveCreating(b, TreasuryAccount, v)

\* PerThing::mul (Permill, Percent, Perbill): parts out of max of n, rounded.
PartOf(parts, max, n) ==
  LET rem == (n % max) * parts
  IN (n \div max) * parts + rem \div max + (IF rem % max > max \div 2 THEN 1 ELSE 0)

\* The value of a map at a key, or the default of the map's type.
GetOr(f, k, default) == IF k \in DOMAIN f THEN f[k] ELSE default

\* A map with the entry of k written, and with it removed.
Put(f, k, v) == [x \in DOMAIN f \cup {k} |-> IF x = k THEN v ELSE f[x]]
Drop(f, k) == Restrict(f, DOMAIN f \ {k})

\* IntegerSquareRoot::integer_sqrt.
SqrtOf(n) == Max({r \in 0 .. n : r * r <= n})

\* How often x occurs in the sequence s.
CountOf(s, x) == Len(SelectSeq(s, LAMBDA y : y = x))

=============================================================================
