----------------------------- MODULE MCPeerset ------------------------------
(* Instances of Peerset for TLC: the values of the constants that are      *)
(* negative or sets of negative numbers.  Four reputations stand for the   *)
(* banned range, the threshold itself, the neutral value and a good one.   *)
EXTENDS Peerset, TLC

MCMinRep == -2
MCBannedThreshold == -1
MCDisconnectChange == -1
MCRepChanges == {-2, 1}

Symmetry == Permutations(Peers)
=============================================================================
