---------------------------- MODULE MCDpllSolver -----------------------------
(* The engine on small instances.  With the round of the code: sums that   *)
(* have solutions, sums that only the search refutes and sums that the     *)
(* first round refutes.  With a round that only looks at full assignments, *)
(* the least the engine asks of one: the search opens every level and has  *)
(* to come back from it.                                                   *)
EXTENDS DpllSolver, DpllRound

CONSTANTS MCSums, MCLazySums

MCVars == Variables
MCValues == 1 .. DW
MCBudgets == [sum : MCSums, lazy : {FALSE}] \cup [sum : MCLazySums, lazy : {TRUE}]
MCSolutions == [b \in MCBudgets |-> {s \in [Variables -> 1 .. DW] : Legal(b.sum, s)}]

FullAssignmentsOnly(b, d) ==
  IF AllOne(d) /\ ReadOff(d) \notin MCSolutions[b] THEN [i \in Variables |-> {}] ELSE d
MCNarrow(b, d) == IF b.lazy THEN FullAssignmentsOnly(b, d) ELSE Round(b.sum, d)
=============================================================================
