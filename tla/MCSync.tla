-------------------------------- MODULE MCSync --------------------------------
(* A node with one or two peers.                                             *)
EXTENDS Sync

CONSTANTS g, a1, a2, a3, a4, a5, b2, b3, b4, b5, none, p1, p2

MCBlock == {g, a1, a2, a3, a4, a5, b2, b3, b4, b5}
MCParent ==
  [b \in MCBlock |-> CASE b = g -> none
                       [] b = a1 -> g
                       [] b \in {a2, b2} -> a1
                       [] b = a3 -> a2
                       [] b = a4 -> a3
                       [] b = a5 -> a4
                       [] b = b3 -> b2
                       [] b = b4 -> b3
                       [] b = b5 -> b4]
MCNodes == {{b} : b \in MCBlock}
MCPeer == {p1, p2}

\* The peer comes to hold b, as its best block or beside it.
Top(b) == [block |-> b, best |-> TRUE]
Side(b) == [block |-> b, best |-> FALSE]

From(start, news1, news2) ==
  [peers |-> (p1 :> news1) @@ (p2 :> news2), start |-> start, own |-> {}, bad |-> {},
   needs |-> {}, clears |-> {}, commits |-> {}, liars |-> {}, forks |-> {},
   drops |-> 0, links |-> 2]

\* What the peers come to hold, where we start, and what happens beside it.
OneChain == [From(g, <<Top(a5)>>, <<Top(a3), Top(a4)>>) EXCEPT !.drops = 1, !.links = 3]
TwoForks == [From(a2, <<Top(a4)>>, <<Top(b3), Top(b4)>>) EXCEPT !.drops = 1]
Behind == From(a4, <<Top(b3), Side(b4)>>, <<Top(a1), Top(b2)>>)
ForkTargets ==
  [From(a2, <<Top(b2), Top(b3)>>, <<Top(b3)>>) EXCEPT
     !.forks = {[peers |-> {p1}, hash |-> b2], [peers |-> {}, hash |-> b3]}]
BadBlock ==
  [From(g, <<Top(a2), Top(a3)>>, <<Top(b2), Top(b3)>>) EXCEPT !.bad = {a2}, !.links = 3]
Announced ==
  [From(a1, <<Top(a1), Top(a2), Top(a3), Side(b2)>>, <<Top(a2)>>) EXCEPT !.drops = 1]
LyingPeer ==
  [From(g, <<Top(a3)>>, <<Top(a2)>>) EXCEPT
     !.needs = {a1, a2}, !.bad = {a3}, !.liars = {p2}, !.links = 3, !.drops = 1]
OwnBlocks == [From(g, <<Top(b3)>>, <<Top(a3)>>) EXCEPT !.own = {a1, a2, b2}, !.links = 3]
Commits == [From(g, <<Top(a3)>>, <<Top(a3)>>) EXCEPT !.needs = {a1, a2}, !.commits = {a1, a2}]
Cleared ==
  [From(g, <<Top(a2)>>, <<Top(b2), Top(b3)>>) EXCEPT
     !.needs = {a1, b2}, !.clears = {b2}, !.links = 3]
Reorganized == [From(a2, <<Top(b3)>>, <<Top(a1)>>) EXCEPT !.commits = {b2}]
FinalizedFork ==
  [From(a2, <<Top(b3)>>, <<Top(b2)>>) EXCEPT !.forks = {[peers |-> {p2}, hash |-> b2]}, !.commits = {b2}]

MCSetups ==
  {OneChain, TwoForks, Behind, ForkTargets, BadBlock, Announced, LyingPeer, OwnBlocks, Commits,
   Cleared, Reorganized, FinalizedFork}
=============================================================================
