------------------------------ MODULE MCGrandpa ------------------------------
(* One node of a small network.  a1 signals a standard change that becomes   *)
(* effective one block later, on either fork, a3 and b3 further ones; on the *)
(* other branch finality has stalled under the change of f1, and f2 forces   *)
(* one.                                                                       *)
EXTENDS Grandpa

CONSTANTS g, a1, a2, a3, a4, b2, b3, f1, f2, f3, f4, h2, none

MCBlock == {g, a1, a2, a3, a4, b2, b3, f1, f2, f3, f4, h2}
MCParent ==
  [b \in MCBlock |-> CASE b = g -> none
                       [] b \in {a1, f1} -> g
                       [] b \in {a2, b2} -> a1
                       [] b = a3 -> a2
                       [] b = a4 -> a3
                       [] b = b3 -> b2
                       [] b \in {f2, h2} -> f1
                       [] b = f3 -> f2
                       [] b = f4 -> f3]
MCNodes == {{b} : b \in MCBlock}

Change(kind, delay) == [kind |-> kind, delay |-> delay, median |-> 0]
MCSignal ==
  [b \in MCBlock |-> CASE b = a1 -> Change("standard", 1)
                       [] b \in {a3, b3} -> Change("standard", 0)
                       [] b = f1 -> Change("standard", 3)
                       [] b = f2 -> Change("forced", 1)
                       [] OTHER -> Change("none", 0)]

\* What the authorities finalize: block b, by the set with this id and these authorities.
By(b, id, auth) == [block |-> b, set_id |-> id, auth |-> auth]
OnA == {By(a1, 0, g), By(a2, 0, g), By(a3, 1, a1), By(a4, 2, a3)}
OnB == {By(a1, 0, g), By(b2, 0, g), By(b3, 1, a1)}
OnF == {By(f1, 0, g), By(f2, 1, f2), By(f3, 1, f2), By(f4, 1, f2)}

Network(blocks, justs, crash, fail) ==
  [blocks |-> blocks, justs |-> justs, workers |-> {"queue"}, mine |-> {},
   rounds |-> 0, rules |-> <<>>, period |-> 2, cache |-> {}, propose |-> FALSE,
   budget |-> [crash |-> crash, fail |-> fail]]

Forks == Network({a1, a2, a3, a4, b2, b3}, OnA, 1, 1)
Authoring == [Network({a1, a2, b2, b3}, OnB, 1, 1) EXCEPT
                !.cache = {a2, b2}, !.workers = {"queue", "author"}]
Ruled == [Network({a1, a2, a3}, {By(a2, 0, g), By(a3, 1, a1)}, 2, 0) EXCEPT
            !.mine = {g, a1}, !.rounds = 1, !.rules = <<"before_best", "three_quarters">>]
Proposing == [Network({a1, b2}, {By(a1, 0, g)}, 2, 0) EXCEPT
                !.mine = {g, a1}, !.rounds = 1, !.propose = TRUE]
Rounds == [Network({a1, b2}, {By(a1, 0, g)}, 2, 0) EXCEPT !.mine = {g}, !.rounds = 2]
Forcing == [Network({f1, f2, f3, h2}, OnF, 1, 0) EXCEPT !.mine = {f2}, !.rounds = 1]
MCSetups == {Forks, Authoring, Ruled, Proposing, Rounds, Forcing}
=============================================================================
