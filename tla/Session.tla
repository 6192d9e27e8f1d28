------------------------------ MODULE Session -------------------------------
(***************************************************************************)
(* The session pallet (frame/session): the validators of the session, the  *)
(* keys that are queued for the next one, the keys that validators have    *)
(* registered, and the disabled validators.  A bundle of session keys is a *)
(* sequence with one key for each key type.  What the pallet asks of the   *)
(* staking pallet and what it tells its handlers is in Validators.         *)
(***************************************************************************)
EXTENDS Balances

CONSTANTS
  DisabledValidatorsThreshold  \* in percent

VARIABLES
  ses   \* the storage of the pallet

KeyTypes == 1 .. 2
DefaultKeys == [id \in KeyTypes |-> 0]

\* keys, torn, holder and unpaired only observe: the keys of the session, the
\* validators whose set_keys failed half-way, the accounts that hold the reference
\* for the keys of a validator, and those whose references went wrong.
SessionInit ==
  [validators |-> <<>>, index |-> 0, changed |-> FALSE, queued |-> <<>>, disabled |-> {}, keys |-> <<>>,
   next_keys |-> <<>>, owner |-> <<>>, torn |-> {}, holder |-> <<>>, unpaired |-> {}]

load_keys(s, v) == GetOr(s.next_keys, v, DefaultKeys)

\* The keys of type id, in the order of the validators.
KeysOf(queued, id) == [k \in DOMAIN queued |-> queued[k].keys[id]]
IdsOf(queued) == [k \in DOMAIN queued |-> queued[k].who]

-----------------------------------------------------------------------------
\* inner_set_keys goes through the key types and writes as it goes; it stops at
\* the first key that somebody else owns, and what it wrote stays.
SetKeyOwner(st, s, who, id, key) ==
  IF ~st.ok \/ GetOr(st.owner, <<id, key>>, who) # who THEN [st EXCEPT !.ok = FALSE]
  ELSE IF who \notin DOMAIN s.next_keys THEN [st EXCEPT !.owner = Put(@, <<id, key>>, who)]
  ELSE IF s.next_keys[who][id] = key THEN st
  ELSE [st EXCEPT !.owner = Put(Drop(@, <<id, s.next_keys[who][id]>>), <<id, key>>, who)]

OwnersWith(s, who, keys) ==
  FoldLeft(LAMBDA st, id : SetKeyOwner(st, s, who, id, keys[id]),
           [owner |-> s.owner, ok |-> TRUE], [id \in KeyTypes |-> id])

inner_set_keys(s, who, keys, st) ==
  IF st.ok THEN [s EXCEPT !.owner = st.owner, !.next_keys = Put(@, who, keys)]
  ELSE [s EXCEPT !.owner = st.owner, !.torn = IF st.owner = s.owner THEN @ ELSE @ \cup {who}]

\* do_set_keys, for the validator who of account; w holds the ledger and the
\* session storage.
do_set_keys(w, account, who, keys) ==
  LET st == OwnersWith(w.ses, who, keys)
      set == [w EXCEPT !.ses = inner_set_keys(@, who, keys, st)]
  IN IF ~st.ok \/ who \in DOMAIN w.ses.next_keys THEN set
     ELSE [set EXCEPT !.bal = inc_ref(@, account), !.ses.holder = Put(@, who, account)]

CanPurgeKeys(s, who) == who \in DOMAIN s.next_keys
do_purge_keys(w, account, who) ==
  LET keys == w.ses.next_keys[who]
      holder == w.ses.holder[who]
  IN [w EXCEPT !.bal = dec_ref(@, account),
               !.ses.next_keys = Drop(@, who),
               !.ses.owner = Restrict(@, DOMAIN @ \ {<<id, keys[id]>> : id \in KeyTypes}),
               !.ses.holder = Drop(@, who),
               !.ses.unpaired = IF holder = account THEN @ ELSE @ \cup {holder, account}]

-----------------------------------------------------------------------------
\* disable: the validator is disabled, and whether that makes too many of them.
PositionOf(s, who) == {k \in DOMAIN s.validators : s.validators[k] = who}

Threshold(s) == PartOf(DisabledValidatorsThreshold, 100, Len(s.validators))

DisableIndex(s, at) == [s EXCEPT !.disabled = @ \cup at]
DisableIsTooMuch(s, at) ==
  at \ s.disabled # {} /\ Cardinality(s.disabled) + 1 > Threshold(s)

\* The storage after a rotation took the queued validators in, and after it
\* queued the next ones: next is the new set, which may be empty, if the manager
\* named one.
TakeQueued(s) ==
  [s EXCEPT !.validators = IdsOf(s.queued), !.keys = s.queued, !.index = @ + 1,
            !.disabled = IF s.changed THEN {} ELSE @]

QueueNext_identities(s, next) ==
  LET ids == IF next = {} THEN s.validators ELSE CHOOSE n \in next : TRUE
  IN [s EXCEPT !.queued = [k \in DOMAIN ids |-> [who |-> ids[k], keys |-> load_keys(s, ids[k])]],
               !.changed = next # {}]
QueueNext(s, next) ==
  LET ids == IF next = {} THEN s.validators ELSE CHOOSE n \in next : TRUE
      queued == [k \in DOMAIN ids |-> [who |-> ids[k], keys |-> load_keys(s, ids[k])]]
  IN [s EXCEPT !.queued = queued,
               !.changed = next # {} \/ \E k \in DOMAIN queued : queued[k].keys # s.queued[k].keys]

-----------------------------------------------------------------------------
\* A key that a validator registered is in its name, unless a failed set_keys
\* of that validator got in the way.
KeysAreOwned(s) ==
  \A v \in DOMAIN s.next_keys \ s.torn : \A id \in KeyTypes :
    GetOr(s.owner, <<id, s.next_keys[v][id]>>, v) = v
=============================================================================
