------------------------------ MODULE Phragmen ------------------------------
(***************************************************************************)
(* Sequential Phragmen (primitives/phragmen): elect goes through its       *)
(* rounds, each of which elects the candidate with the lowest score and    *)
(* raises the loads of its voters, and splits the stake of each voter over *)
(* its elected candidates.  Scores and loads are numerators over DEN, as   *)
(* in the code, where DEN is the largest u128.                             *)
(***************************************************************************)
EXTENDS Integers, Sequences, SequencesExt, FiniteSetsExt

CONSTANTS
  DEN,       \* the denominator of scores and loads
  ACCURACY   \* R::ACCURACY, the parts of a whole assignment

ASSUME PhragmenAssumption == DEN \in Nat \ {0} /\ ACCURACY \in Nat \ {0}

Infinity == 2 * DEN + 1

\* The voters (numbered) that have an edge to c.  A voter is a record of who,
\* votes (a sequence) and budget.
VotersOf(voters, c) == {v \in DOMAIN voters : Contains(voters[v].votes, c)}

ApprovalStake(voters, c) == MapThenSumSet(LAMBDA v : voters[v].budget, VotersOf(voters, c))

\* Loops 1 and 2: the score of candidate c under the loads.
Score(voters, load, c) ==
  LET approval == ApprovalStake(voters, c)
      raise(v) == (load[v] * voters[v].budget) \div approval
  IN IF approval = 0 THEN Infinity
     ELSE Min({DEN, DEN \div approval + MapThenSumSet(raise, VotersOf(voters, c))})

\* One round: the first candidate of those with the lowest score is elected,
\* and the loads of its edges and voters follow.
Elected(st, winner, score, backed) ==
  [elected |-> Append(st.elected, winner),
   load |-> [v \in DOMAIN st.load |-> IF v \in backed THEN score ELSE st.load[v]],
   edge |-> [v \in DOMAIN st.edge |->
               IF v \notin backed THEN st.edge[v]
               ELSE [st.edge[v] EXCEPT ![winner] = IF score > st.load[v] THEN score - st.load[v] ELSE 0]]]

Lowest(score) ==
  CHOOSE k \in DOMAIN score :
    \A j \in DOMAIN score : score[k] < score[j] \/ (score[k] = score[j] /\ k <= j)

ElectAt(candidates, voters, st, score, best) ==
  Elected(st, candidates[best], score[best], VotersOf(voters, candidates[best]))

ElectBest(candidates, voters, st, score) == ElectAt(candidates, voters, st, score, Lowest(score))

ElectOne(candidates, voters, st) ==
  ElectBest(candidates, voters, st,
            [k \in {j \in DOMAIN candidates : ~Contains(st.elected, candidates[j])} |->
               Score(voters, st.load, candidates[k])])

\* The rounds of the main election loop.
Rounds(count, candidates, voters) ==
  FoldLeft(LAMBDA st, i : ElectOne(candidates, voters, st),
           [elected |-> <<>>,
            load |-> [v \in DOMAIN voters |-> 0],
            edge |-> [v \in DOMAIN voters |-> [c \in ToSet(candidates) |-> 0]]],
           [i \in 1 .. Min({count, Len(candidates)}) |-> i])

\* The parts of its stake that voter v gives to each elected candidate of its
\* votes: in proportion to the loads, the rest spread from the first one on.
AssignmentOf(st, voters, v) ==
  LET chosen == SelectSeq(voters[v].votes, LAMBDA c : Contains(st.elected, c))
      parts(c) == IF st.edge[v][c] = st.load[v] THEN ACCURACY
                  ELSE (ACCURACY * st.edge[v][c]) \div st.load[v]
      sum == FoldLeft(LAMBDA n, c : Min({ACCURACY, n + parts(c)}), 0, chosen)
      diff == ACCURACY - sum
      each == diff \div Len(chosen)
      extra == diff % Len(chosen)
  IN [k \in DOMAIN chosen |->
        <<chosen[k], Min({ACCURACY, parts(chosen[k]) + each + (IF k <= extra THEN 1 ELSE 0)})>>]

\* elect: the winners with their approval stake, in the order of election, and
\* the assignments of the voters.
Outcome(st, voters) ==
  [winners |-> [k \in DOMAIN st.elected |-> <<st.elected[k], ApprovalStake(voters, st.elected[k])>>],
   assignments |-> [v \in DOMAIN voters |-> AssignmentOf(st, voters, v)]]

elect(count, candidates, voters) == Outcome(Rounds(count, candidates, voters), voters)

-----------------------------------------------------------------------------
(* No stake goes to waste: the parts of a voter with an elected candidate add up to the whole, as   *)
(* the post-processing of elect is there to ensure, and a round of elect elects somebody new.       *)
ElectIsSound(count, candidates, voters) ==
  LET r == elect(count, candidates, voters)
      sumOf(a) == FoldLeft(LAMBDA n, x : n + x[2], 0, a)
  IN /\ Len(r.winners) = Min({count, Len(candidates)})
     /\ \A j, k \in DOMAIN r.winners : j # k => r.winners[j][1] # r.winners[k][1]
     /\ \A v \in DOMAIN r.assignments :
          r.assignments[v] = <<>> \/ sumOf(r.assignments[v]) = ACCURACY
=============================================================================
