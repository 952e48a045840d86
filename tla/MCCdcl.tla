------------------------------- MODULE MCCdcl --------------------------------
(* Callers of the solver on four variables: formulas are added and solved  *)
(* under assumptions, then clauses are added and they are solved again.    *)
EXTENDS Cdcl

add(lits) == [op |-> "add", lits |-> lits]
solve(lits) == [op |-> "solve", lits |-> lits]

MCVars == 1 .. 4

(* A chain of implications; clauses met at several levels; clauses with    *)
(* repeated and with complementary literals, and a unit; a formula refuted *)
(* by propagation from its last clauses; every clause over three           *)
(* variables, refuted only by learning.                                    *)
Chain == <<add(<<-1, 2>>), add(<<-2, 3>>), add(<<-3, 4>>)>>
Crossed == <<add(<<1, 2, 3>>), add(<<-1, 2, 4>>), add(<<-2, -3, 1>>), add(<<-2, 3, -4>>)>>
Odd == <<add(<<3, 3, -1>>), add(<<2, -2>>), add(<<1>>), add(<<-3, 4, 2, 4>>)>>
Narrow == <<add(<<1, 2, 3>>), add(<<-3, -2, 4>>), add(<<-3, -4, 1>>)>>
Split == <<add(<<1, 2>>), add(<<1, -2>>), add(<<-1, 3, 4>>), add(<<-1, -3>>)>>
AllOfThree == [i \in 1 .. 8 |->
  add(<<IF i % 2 = 0 THEN 1 ELSE -1, IF (i \div 2) % 2 = 0 THEN 2 ELSE -2, IF i > 4 THEN 3 ELSE -3>>)]

MCSessions ==
  { Chain \o <<solve(<<1, -4>>), add(<<-3, 1>>), solve(<<4, 3>>)>>,
    Chain \o <<solve(<<>>), add(<<-4>>), add(<<1>>), solve(<<2>>)>>,
    Crossed \o <<solve(<<>>)>>,
    Crossed \o <<solve(<<4>>), add(<<-4, -1>>), solve(<<1, 2>>)>>,
    Crossed \o <<solve(<<2, -1>>), add(<<-3>>), solve(<<4>>)>>,
    Odd \o <<solve(<<-4>>), add(<<-2>>), solve(<<-4, 3>>)>>,
    Odd \o <<add(<<-1>>), solve(<<4>>), add(<<>>)>>,
    Narrow \o <<solve(<<>>), add(<<-1>>), solve(<<3>>)>>,
    Split \o <<solve(<<-4>>), add(<<-4, 3>>), solve(<<>>)>>,
    SubSeq(AllOfThree, 1, 6) \o <<solve(<<4>>)>>,
    AllOfThree \o <<solve(<<4, 1>>)>> }
=============================================================================
