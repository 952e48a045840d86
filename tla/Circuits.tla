------------------------------- MODULE Circuits -------------------------------
(***************************************************************************)
(* The signals of 01_proof_engines/circuit.py and their Tseitin encoding.  *)
(*                                                                         *)
(* A circuit is a sequence of gates; a signal is the number of its gate,   *)
(* negated for NOT (which has no variable of its own in the encoding).     *)
(* Gate 1 is the constant TRUE; the arguments of a gate come before it.    *)
(***************************************************************************)
EXTENDS Integers, SequencesExt

One == 1
Zero == -1

Gate(kind, args) == [kind |-> kind, args |-> args]
ConstGate == Gate("const", <<>>)
VarGate(bit) == Gate("var", <<bit>>)

gateOf(sig) == IF sig > 0 THEN sig ELSE -sig

(* OR() and AND() of some signals, added to a circuit: constants decide or *)
(* disappear, and nothing is built around a single signal.                 *)
Joined(gates, kind, sigs, unit) ==
  LET out == SelectSeq(sigs, LAMBDA x : x # unit)
  IN  IF Contains(sigs, -unit) THEN [gates |-> gates, sig |-> -unit]
      ELSE IF out = <<>> THEN [gates |-> gates, sig |-> unit]
      ELSE IF Len(out) = 1 THEN [gates |-> gates, sig |-> out[1]]
      ELSE [gates |-> Append(gates, Gate(kind, out)), sig |-> Len(gates) + 1]

Or(gates, sigs) == Joined(gates, "or", sigs, Zero)
And(gates, sigs) == Joined(gates, "and", sigs, One)

(* The gate of the variable for a bit.                                     *)
VarOf(gates, bit) == CHOOSE i \in DOMAIN gates : gates[i] = VarGate(bit)

(* The value of a signal when the literals on hold.                        *)
Value(gates, sig, on) ==
  LET of(v, x) == IF x > 0 THEN v[x] ELSE ~v[-x]
      Gates[i \in DOMAIN gates] ==
        LET args == gates[i].args
            arg(k) == IF args[k] > 0 THEN Gates[args[k]] ELSE ~Gates[-args[k]]
        IN  CASE gates[i].kind = "const" -> TRUE
              [] gates[i].kind = "var" -> args[1] \in on
              [] gates[i].kind = "and" -> \A k \in DOMAIN args : arg(k)
              [] gates[i].kind = "or" -> \E k \in DOMAIN args : arg(k)
              [] gates[i].kind = "xor" -> arg(1) # arg(2)
              [] gates[i].kind = "ite" -> IF arg(1) THEN arg(2) ELSE arg(3)
  IN  of(Gates, sig)

-----------------------------------------------------------------------------
(* tseitin(): one variable for every gate, in the order in which they are  *)
(* met depth first, and the clauses that define it.                        *)

(* A sequence without its repetitions.                                     *)
FirstOnly(s) == FoldLeft(LAMBDA t, x : IF Contains(t, x) THEN t ELSE Append(t, x), <<>>, s)

(* The gates a signal is made of that get a variable, each after its       *)
(* arguments.                                                              *)
Cone(gates, sig) ==
  LET Below[i \in DOMAIN gates] ==
        IF gates[i].kind = "var" THEN <<>>
        ELSE FirstOnly(
               FoldLeft(LAMBDA t, x : t \o Below[gateOf(x)], <<>>, gates[i].args) \o <<i>>)
  IN  Below[gateOf(sig)]

(* The clauses of gate i under an assignment of variables to gates.        *)
GateClauses(gates, i, var) ==
  LET y == var[i]
      lit(x) == IF x > 0 THEN var[x] ELSE -var[-x]
      args == [k \in DOMAIN gates[i].args |-> lit(gates[i].args[k])]
  IN  CASE gates[i].kind = "const" -> << {y} >>
        [] gates[i].kind = "and" ->
             [k \in DOMAIN args |-> {-y, args[k]}] \o << {y} \cup {-args[k] : k \in DOMAIN args} >>
        [] gates[i].kind = "or" ->
             << {-y} \cup ToSet(args) >> \o [k \in DOMAIN args |-> {y, -args[k]}]
        [] gates[i].kind = "xor" ->
             LET a == args[1]
                 b == args[2]
             IN  << {-y, -a, -b}, {-y, a, b}, {y, -a, b}, {y, a, -b} >>
        [] gates[i].kind = "ite" ->
             LET c == args[1]
                 t == args[2]
                 e == args[3]
             IN  << {-c, -t, y}, {-c, t, -y}, {c, -e, y}, {c, e, -y} >>

Tautology(clause) == \E l \in clause : -l \in clause
=============================================================================
