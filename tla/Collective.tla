----------------------------- MODULE Collective -----------------------------
(* The collectives and the membership of one of them.                      *)
EXTENDS Balances

-----------------------------------------------------------------------------
(***************************************************************************)
(* The collective pallet, as the council: members propose motions and vote *)
(* on them, a motion with enough ayes is executed, one that cannot get     *)
(* them any more is dropped, and after its end anybody may close it, with  *)
(* the vote of the prime member as the default of those who did not vote.  *)
(* An operator that may execute a motion yields the new storage c and the  *)
(* motions to run, each with the n of m members it speaks for.             *)
(***************************************************************************)

CONSTANT MotionDuration

VARIABLE col

\* Three fields are history.  apart: the members were given by the genesis or by
\* root, and the pallet that keeps the list has not replaced them since.  former:
\* who was a member by such a list only and was not named as outgoing when it was
\* replaced.  underflow: close counted more votes than seats without any of them.
CollectiveInit(members, apart) ==
  [members |-> members, prime |-> {}, count |-> 0, voting |-> <<>>,
   apart |-> apart, former |-> {}, underflow |-> FALSE]

Nothing(c) == [c |-> c, run |-> {}]

\* finalize_proposal; the proposal, its votes and its hash are removed.
finalize_proposal(c, motion, approved_) ==
  [c |-> [c EXCEPT !.voting = Drop(@, motion)],
   run |-> IF approved_
           THEN {[motion |-> motion, n |-> c.voting[motion].threshold, m |-> Cardinality(c.members)]}
           ELSE {}]

\* propose: one vote is enough for a threshold below two.
CanPropose(c, who, motion) == who \in c.members /\ motion \notin DOMAIN c.voting
Propose(c, who, threshold, motion, n) ==
  IF threshold < 2
  THEN [c |-> c, run |-> {[motion |-> motion, n |-> 1, m |-> Cardinality(c.members)]}]
  ELSE Nothing([c EXCEPT !.count = @ + 1,
                  !.voting = Put(@, motion, [index |-> c.count, threshold |-> threshold,
                                             ayes |-> {who}, nays |-> {}, end |-> n + MotionDuration])])

CanVote(c, who, motion, approve) ==
  /\ who \in c.members /\ motion \in DOMAIN c.voting
  /\ who \notin (IF approve THEN c.voting[motion].ayes ELSE c.voting[motion].nays)
Vote(c, who, motion, approve) ==
  LET v == c.voting[motion]
      ayes == IF approve THEN v.ayes \cup {who} ELSE v.ayes \ {who}
      nays == IF approve THEN v.nays \ {who} ELSE v.nays \cup {who}
      voted == [c EXCEPT !.voting[motion].ayes = ayes, !.voting[motion].nays = nays]
      passes == Cardinality(ayes) >= v.threshold
      fails == MonusOf(Cardinality(c.members), Cardinality(nays)) < v.threshold
  IN IF passes \/ fails THEN finalize_proposal(voted, motion, passes) ELSE Nothing(voted)

\* close: the number of abstentions is a difference of unsigned numbers, and a
\* sum that is below zero wraps to one above every threshold.
CanClose(c, motion, n) == motion \in DOMAIN c.voting /\ n >= c.voting[motion].end
Close(c, motion) ==
  LET v == c.voting[motion]
      abstentions == Cardinality(c.members) - (Cardinality(v.ayes) + Cardinality(v.nays))
      yes == Cardinality(v.ayes) + (IF c.prime \cap v.ayes # {} THEN abstentions ELSE 0)
  IN finalize_proposal([c EXCEPT !.underflow = @ \/ (abstentions < 0 /\ c.former = {})],
                       motion, yes < 0 \/ yes >= v.threshold)

\* The members are replaced; who was one by a list that is not the one replaced,
\* and is not named as outgoing, keeps the votes.
WithMembers(c, outgoing, new) ==
  [c EXCEPT !.members = new, !.prime = {}, !.apart = FALSE,
            !.former = (@ \cup (IF c.apart THEN c.members ELSE {})) \ (outgoing \cup new)]

\* Mutant: the votes of those who leave stay.
change_members_sorted_votes(c, outgoing, new) == WithMembers(c, outgoing, new)

\* ChangeMembers::change_members_sorted and set_prime.
change_members_sorted(c, outgoing, new) ==
  [WithMembers(c, outgoing, new) EXCEPT
     !.voting = [h \in DOMAIN @ |-> [@[h] EXCEPT !.ayes = @ \ outgoing, !.nays = @ \ outgoing]]]
set_prime(c, prime) == [c EXCEPT !.prime = prime]

\* set_members, for root; the prime need not be a member.
SetMembers(c, new, prime) ==
  [set_prime(change_members_sorted(c, c.members \ new, new), prime) EXCEPT !.apart = TRUE]

-----------------------------------------------------------------------------
(* Only members vote, nobody votes both ways, and closing a motion never counts more votes than there *)
(* are seats, however the membership changes while motions are open. The exception are the votes of   *)
(* those whom the genesis or root had made members.                                                   *)
VotesAreOfMembers(c) ==
  /\ ~c.underflow
  /\ \A h \in DOMAIN c.voting :
       /\ c.voting[h].ayes \cup c.voting[h].nays \subseteq c.members \cup c.former
       /\ c.voting[h].ayes \cap c.voting[h].nays = {}

(* The collective has the members of the pallet that keeps the list, and a prime among them, once     *)
(* that pallet has handed over a list.                                                                *)
Follows(c, list) == c.apart \/ (c.members = list /\ c.prime \subseteq list)

-----------------------------------------------------------------------------
(***************************************************************************)
(* The membership pallet, which keeps the members of the technical         *)
(* committee: s = [m |-> storage of the pallet, c |-> storage of the       *)
(* collective].  Every change hands the new list to the collective, which  *)
(* forgets its prime member; some of them set the prime again.             *)
(***************************************************************************)

VARIABLES mem, tec

MembershipInit(members) == [members |-> members, prime |-> {}]

Replaced(s, outgoing, new) ==
  [m |-> [s.m EXCEPT !.members = new], c |-> change_members_sorted(s.c, outgoing, new)]

rejig_prime(s) ==
  IF s.m.prime \subseteq s.m.members
  THEN [s EXCEPT !.c = IF s.m.prime = {} THEN @ ELSE set_prime(@, s.m.prime)]
  ELSE [s EXCEPT !.m.prime = {}]

MemBecomes(s) == mem' = s.m /\ tec' = s.c
Committee == [m |-> mem, c |-> tec]

mem_add_member(who) ==
  /\ who \notin mem.members
  /\ MemBecomes(Replaced(Committee, {}, mem.members \cup {who}))

mem_remove_member(who) ==
  /\ who \in mem.members
  /\ MemBecomes(rejig_prime(Replaced(Committee, {who}, mem.members \ {who})))

mem_swap_member(remove, add) ==
  /\ remove # add => remove \in mem.members /\ add \notin mem.members
  /\ MemBecomes(IF remove = add THEN Committee
                ELSE rejig_prime(Replaced(Committee, {remove}, (mem.members \ {remove}) \cup {add})))

mem_reset_members(members) ==
  MemBecomes(rejig_prime(Replaced(Committee, mem.members \ members, members)))

\* The prime moves with the key.
mem_change_key(who, new) ==
  /\ who # new => who \in mem.members /\ new \notin mem.members
  /\ LET s == Replaced(Committee, {who}, (mem.members \ {who}) \cup {new})
     IN MemBecomes(IF who = new THEN Committee
                   ELSE IF mem.prime # {who} THEN s
                   ELSE [s EXCEPT !.m.prime = {new}, !.c = set_prime(@, {new})])

mem_set_prime(who) ==
  /\ who \in mem.members
  /\ MemBecomes([m |-> [mem EXCEPT !.prime = {who}], c |-> set_prime(tec, {who})])

mem_clear_prime == MemBecomes([m |-> [mem EXCEPT !.prime = {}], c |-> set_prime(tec, {})])

=============================================================================
