---------------------------- MODULE Interpolation -----------------------------
(***************************************************************************)
(* Interpolation-based model checking, 01_proof_engines/interp.py: a small *)
(* DPLL that records a resolution proof, McMillan's labels on that proof,  *)
(* and the loop of itp_mc() that widens a set of states by interpolants.   *)
(*                                                                         *)
(* A design here is a transition system ts with a circuit c that computes  *)
(* it: gates, the signals next[b] of its bits and bad.                     *)
(***************************************************************************)
EXTENDS Circuits, TransitionSystems

InputBits(ts) == {b \in UNION ts.inputs : b > 0}
InOrder(S) == SetToSortSeq(S, <)

(* The circuit computes the next states and bad of the system.             *)
Computes(c, ts) ==
  \A x \in ts.states \X ts.inputs :
    /\ ts.bad[x] = Value(c.gates, c.bad, x[1] \cup x[2])
    /\ \A b \in ts.bits : (b \in ts.step[x]) = Value(c.gates, c.next[b], x[1] \cup x[2])

(* The states in which a signal over the bits of the state holds.          *)
Holding(gates, sig, ts) == {s \in ts.states : Value(gates, sig, s)}

(* apply_assumptions(): the circuit with the latch and the guarded bad.    *)
AssumedCircuit(ts) ==
  LET c == ts.circuit
      ok == Max(ts.bits) + 1
      latch == Len(c.gates) + 1
      assm == And(Append(c.gates, VarGate(ok)), c.assume)
      next == And(assm.gates, <<latch, assm.sig>>)
      bad == And(next.gates, <<c.bad, latch, assm.sig>>)
  IN  IF ~Assumes(ts) THEN c ELSE
      [gates |-> bad.gates,
       next |-> [b \in ts.bits \cup {ok} |-> IF b = ok THEN next.sig ELSE c.next[b]],
       bad |-> bad.sig]

-----------------------------------------------------------------------------
(* _build_query(): the clauses of side A, R(s) and s' = next(s), and of    *)
(* side B, bad(s').  Variables are numbered as they are made: the bits of  *)
(* s, the inputs, the bits of s', the gates of A, the inputs of s', the    *)
(* gates of B.                                                             *)

Query(ts, c, R) ==
  LET bits == InOrder(ts.bits)
      ins == InOrder(InputBits(ts))
      n == Len(bits)
      m == Len(ins)
      next(k) == c.next[bits[k]]
      nextVar(k) == n + m + k
      roots == [k \in 1 .. n |-> next(k)] \o <<R>>
      Before[k \in 0 .. n + 1] ==
        IF k = 0 THEN <<>> ELSE FirstOnly(Before[k - 1] \o Cone(c.gates, roots[k]))
      fresh(k) == SubSeq(Before[k], Len(Before[k - 1]) + 1, Len(Before[k]))
      gatesA == Before[n + 1]
      gatesB == SelectSeq(Cone(c.gates, c.bad), LAMBDA i : i # One \/ ~Contains(gatesA, i))
      lastA == 2 * n + m + Len(gatesA)
      place(s, x) == CHOOSE k \in DOMAIN s : s[k] = x
      varA == [i \in DOMAIN c.gates |->
                 CASE Contains(gatesA, i) -> 2 * n + m + place(gatesA, i)
                   [] c.gates[i].kind = "var" /\ Contains(bits, c.gates[i].args[1]) ->
                        place(bits, c.gates[i].args[1])
                   [] c.gates[i].kind = "var" /\ Contains(ins, c.gates[i].args[1]) ->
                        n + place(ins, c.gates[i].args[1])
                   [] OTHER -> 0]
      varB == [i \in DOMAIN c.gates |->
                 CASE Contains(gatesB, i) -> lastA + m + place(gatesB, i)
                   [] c.gates[i].kind = "const" -> varA[i]
                   [] c.gates[i].kind = "var" /\ Contains(bits, c.gates[i].args[1]) ->
                        nextVar(place(bits, c.gates[i].args[1]))
                   [] c.gates[i].kind = "var" /\ Contains(ins, c.gates[i].args[1]) ->
                        lastA + place(ins, c.gates[i].args[1])
                   [] OTHER -> 0]
      lit(var, x) == IF x > 0 THEN var[x] ELSE -var[-x]
      defs(order, var) == FoldLeft(LAMBDA t, i : t \o GateClauses(c.gates, i, var), <<>>, order)
      tie(k) == LET f == lit(varA, next(k)) IN << {-f, nextVar(k)}, {f, -nextVar(k)} >>
      sideA == FoldLeft(LAMBDA t, k : t \o defs(fresh(k), varA) \o tie(k), <<>>,
                        [k \in 1 .. n |-> k])
               \o defs(fresh(n + 1), varA) \o << {lit(varA, R)} >>
      sideB == defs(gatesB, varB) \o << {lit(varB, c.bad)} >>
      logged(s, side) ==
        LET real == SelectSeq(s, LAMBDA cl : ~Tautology(cl))
        IN  [k \in DOMAIN real |-> [lits |-> real[k], side |-> side]]
  IN  [clauses |-> logged(sideA, "A") \o logged(sideB, "B"),
       bitOf |-> [v \in {nextVar(k) : k \in 1 .. n} |-> bits[v - n - m]]]

-----------------------------------------------------------------------------
(* dpll_prove().                                                           *)

varOf(l) == IF l > 0 THEN l ELSE -l

Resolvent(c1, c2, x) == (c1 \ {x}) \cup (c2 \ {-x})

Step(left, right, pivot) ==
  [clause |-> Resolvent(left, right, pivot), left |-> left, right |-> right, pivot |-> pivot]

(* Under the literals a, the first clause that is false, or else unit.     *)
FalseIn(clauses, a) == {k \in DOMAIN clauses : \A l \in clauses[k].lits : -l \in a}
UnitIn(clauses, a) ==
  {k \in DOMAIN clauses :
     /\ clauses[k].lits \cap a = {}
     /\ \E l \in clauses[k].lits : {-x : x \in clauses[k].lits \ {l}} \subseteq a /\ -l \notin a}

(* The literals forced under a, each with the clause that forces it.       *)
Forced(clauses, a) ==
  LET Order[o \in Seq([lit : Int, reason : SUBSET Int])] ==
        LET now == a \cup {o[k].lit : k \in DOMAIN o}
            units == UnitIn(clauses, now)
        IN  IF FalseIn(clauses, now) # {} \/ units = {} THEN o
            ELSE LET c == clauses[Min(units)].lits
                     l == CHOOSE x \in c : -x \notin now
                 IN  Order[Append(o, [lit |-> l, reason |-> c])]
  IN  Order[<<>>]

(* A false clause resolved with the reasons of this level, latest first.   *)
ResolvedBack(c, order) ==
  FoldLeft(LAMBDA r, e :
             IF -e.lit \notin r.clause THEN r
             ELSE LET s == Step(r.clause, e.reason, -e.lit)
                  IN  [clause |-> s.clause, steps |-> Append(r.steps, s)],
           [clause |-> c, steps |-> <<>>], Reverse(order))

(* The refutation of the clauses: a clause and the steps that derive it.   *)
(* A branch whose clause does not mention the variable split on is         *)
(* returned as it is: literals forced at this level stay in it.            *)
Sat == [sat |-> TRUE]

Refutation(clauses) ==
  LET all == UNION {{varOf(l) : l \in clauses[k].lits} : k \in DOMAIN clauses}
      Rec[a \in SUBSET Int] ==
        LET order == Forced(clauses, a)
            now == a \cup {order[k].lit : k \in DOMAIN order}
            false == FalseIn(clauses, now)
            open == {v \in all : {v, -v} \cap now = {}}
        IN  IF false # {}
            THEN LET r == ResolvedBack(clauses[Min(false)].lits, order)
                 IN  [sat |-> FALSE, clause |-> r.clause, steps |-> r.steps]
            ELSE IF open = {} THEN Sat
            ELSE
              LET x == Min(open)
                  c0 == Rec[now \cup {-x}]
                  c1 == Rec[now \cup {x}]
              IN  IF c0.sat THEN Sat
                  ELSE IF {x, -x} \cap c0.clause = {} THEN c0
                  ELSE IF c1.sat THEN Sat
                  ELSE IF {x, -x} \cap c1.clause = {} THEN [c1 EXCEPT !.steps = c0.steps \o @]
                  ELSE LET s == Step(c0.clause, c1.clause, IF x \in c0.clause THEN x ELSE -x)
                       IN  [sat |-> FALSE, clause |-> s.clause,
                            steps |-> Append(c0.steps \o c1.steps, s)]
  IN  Rec[{}]

-----------------------------------------------------------------------------
(* mcmillan(): a clause of A contributes its literals over s', one of B    *)
(* TRUE; a resolution is OR on a variable that is not shared and AND on a  *)
(* shared one.  What entered the proof first counts.                       *)

Interpolant(gates, query, proof) ==
  LET shared(l) == varOf(l) \in DOMAIN query.bitOf
      bitSig(l) == LET v == VarOf(gates, query.bitOf[varOf(l)]) IN IF l > 0 THEN v ELSE -v
      leaf(acc, cl) ==
        IF cl.lits \in DOMAIN acc.label THEN acc
        ELSE LET sigs == SetToSeq({bitSig(l) : l \in {x \in cl.lits : shared(x)}})
                 r == IF cl.side = "B" THEN [gates |-> acc.gates, sig |-> One]
                      ELSE Or(acc.gates, sigs)
             IN  [gates |-> r.gates, label |-> acc.label @@ (cl.lits :> r.sig)]
      inner(acc, s) ==
        IF s.clause \in DOMAIN acc.label THEN acc
        ELSE LET sigs == << acc.label[s.left], acc.label[s.right] >>
                 r == IF shared(s.pivot) THEN And(acc.gates, sigs) ELSE Or(acc.gates, sigs)
             IN  [gates |-> r.gates, label |-> acc.label @@ (s.clause :> r.sig)]
      leaves == FoldLeft(leaf, [gates |-> gates, label |-> [x \in {} |-> One]], query.clauses)
      all == FoldLeft(inner, leaves, proof.steps)
  IN  [gates |-> all.gates, sig |-> all.label[proof.clause]]

-----------------------------------------------------------------------------
(* itp_mc().                                                               *)

MaxIter == 80

(* R is the reset state at first.                                          *)
InitialFence(ts, c) ==
  LET bits == InOrder(ts.bits)
      sig(k) == IF bits[k] \in ts.init THEN VarOf(c.gates, bits[k]) ELSE -VarOf(c.gates, bits[k])
      r == And(c.gates, [k \in DOMAIN bits |-> sig(k)])
  IN  [gates |-> r.gates, R |-> r.sig, answer |-> "NONE"]

(* Whether R reaches bad in one step, and the interpolant if it does not.  *)
Labelled(f, query, proof) ==
  IF proof.sat THEN proof ELSE Interpolant(f.gates, query, proof) @@ [sat |-> FALSE]
Refuted(f, query) == Labelled(f, query, Refutation(query.clauses))
Attempt(ts, c, f) == Refuted(f, Query(ts, [c EXCEPT !.gates = f.gates], f.R))

Covered(ts, f, itp) == Holding(itp.gates, itp.sig, ts) \subseteq Holding(f.gates, f.R, ts)

Widened(f, itp) ==
  LET wider == Or(itp.gates, <<f.R, itp.sig>>)
  IN  [f EXCEPT !.gates = wider.gates, !.R = wider.sig]

(* The interpolant widens R until it adds nothing to it.                   *)
Concluded(ts, f, attempt) ==
  IF attempt.sat
  THEN [f EXCEPT !.answer = IF Holding(f.gates, f.R, ts) = {ts.init} THEN "UNSAFE" ELSE "UNKNOWN"]
  ELSE IF Covered(ts, f, attempt) THEN [f EXCEPT !.answer = "SAFE"]
  ELSE Widened(f, attempt)

Round(ts, c, f) == Concluded(ts, f, Attempt(ts, c, f))

Widening(ts, c) ==
  LET Fences == [gates : Seq([kind : STRING, args : Seq(Int)]), R : Int, answer : STRING]
      Fence[f \in Fences, it \in 0 .. MaxIter] ==
        CASE f.answer # "NONE" -> f.answer
          [] f.answer = "NONE" /\ it = MaxIter -> "UNKNOWN"
          [] f.answer = "NONE" /\ it < MaxIter -> Fence[<<Round(ts, c, f), it + 1>>]
  IN  Fence[<<InitialFence(ts, c), 0>>]
=============================================================================
