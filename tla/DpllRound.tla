----------------------------- MODULE DpllRound -------------------------------
(***************************************************************************)
(* The propagation round of the search engine                              *)
(* 04_sat_engine/dpll_solver.sv (first always_comb block): from the        *)
(* domains of the variables, the domains one clock later.  A bitset over   *)
(* the values 1 .. DW is a set of values; the sum the variables must have  *)
(* is a parameter of the operators.                                        *)
(***************************************************************************)
EXTENDS Integers, FiniteSets, Functions

CONSTANTS
  NV,         (* number of variables v0, v1, ...                           *)
  DW          (* the values are 1 .. DW                                    *)

ASSUME RoundAssumption == NV \in Nat /\ NV >= 2 /\ DW \in Nat \ {0}

Variables == 0 .. NV - 1

(* vmin() and vmax(): 0 for an empty domain.                               *)
Least(S) == IF S = {} THEN 0 ELSE CHOOSE v \in S : \A w \in S : v <= w
Greatest(S) == IF S = {} THEN 0 ELSE CHOOSE v \in S : \A w \in S : v >= w

Total(f) == SumFunctionOnSet(f, Variables)

(* One round: all-different, bounds of the sum, v0 < v1, every variable    *)
(* against the domains before the round.  The least and greatest sums of   *)
(* the others (omin, omax) are the totals without the variable's own.      *)
Round(sum, dom) ==
  LET least == [i \in Variables |-> Least(dom[i])]
      greatest == [i \in Variables |-> Greatest(dom[i])]
      below == sum - Total(greatest)
      above == sum - Total(least)
      settled(i) == UNION {dom[j] : j \in {k \in Variables \ {i} : Cardinality(dom[k]) = 1}}
  IN  [i \in Variables |->
         {v \in dom[i] \ settled(i) :
            /\ below + greatest[i] <= v /\ v <= above + least[i]
            /\ i = 0 => v < greatest[1]
            /\ i = 1 => v > least[0]}]

(* The constraints of the header comment.                                  *)
Legal(sum, s) ==
  /\ \A i, j \in Variables : i # j => s[i] # s[j]
  /\ Total(s) = sum
  /\ s[0] < s[1]
=============================================================================
