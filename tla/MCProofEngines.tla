--------------------------- MODULE MCProofEngines ----------------------------
(* Small designs for the proof engines.                                    *)
EXTENDS ProofEngines

C == INSTANCE Circuits

(* A function is given as a set of cubes of literals, one of which must    *)
(* hold; a design by the function of every bit and of its properties.      *)
On(cubes, x) == \E cube \in cubes : cube \subseteq x[1] \cup x[2]

Listed(S) == FoldSet(LAMBDA x, s : Append(s, x), <<>>, S)

CircuitOf(next, bad, assume, bits, ins) ==
  LET functions == {next[k] : k \in bits} \cup {bad, assume}
      leaves == Listed(bits \cup ins)
      cubes == Listed({c \in UNION functions : Cardinality(c) > 1})
      sums == Listed({f \in functions : Cardinality(f) > 1 /\ {} \notin f})
      place(s, x) == CHOOSE k \in DOMAIN s : s[k] = x
      lit(l) == IF l > 0 THEN 1 + place(leaves, l) ELSE -(1 + place(leaves, -l))
      the(S) == CHOOSE x \in S : TRUE
      product(c) == CASE c = {} -> C!One
                      [] Cardinality(c) = 1 -> lit(the(c))
                      [] OTHER -> 1 + Len(leaves) + place(cubes, c)
      sum(f) == CASE f = {} -> C!Zero
                  [] {} \in f -> C!One
                  [] f # {} /\ {} \notin f /\ Cardinality(f) = 1 -> product(the(f))
                  [] OTHER -> 1 + Len(leaves) + Len(cubes) + place(sums, f)
  IN  [gates |-> << C!ConstGate >>
                 \o [k \in DOMAIN leaves |-> C!VarGate(leaves[k])]
                 \o [k \in DOMAIN cubes |-> C!Gate("and", Listed({lit(l) : l \in cubes[k]}))]
                 \o [k \in DOMAIN sums |-> C!Gate("or", Listed({product(c) : c \in sums[k]}))],
       next |-> [k \in bits |-> sum(next[k])],
       bad |-> sum(bad),
       assume |-> << sum(assume) >>]

Design(next, ins, bad, assume, a, b) ==
  LET bits == DOMAIN next
      states == StatesOver(bits)
      inputs == StatesOver(ins)
      Function(cubes) == [x \in states \X inputs |-> On(cubes, x)]
  IN  [bits |-> bits, states |-> states, inputs |-> inputs, init |-> {-k : k \in bits},
       step |-> [x \in states \X inputs |-> {IF On(next[k], x) THEN k ELSE -k : k \in bits}],
       bad |-> Function(bad), assume |-> Function(assume), a |-> Function(a), b |-> Function(b),
       cover |-> Function({{1, -2}}),
       circuit |-> CircuitOf(next, bad, assume, bits, ins)]

Always == {{}}

(* A design of n bits without inputs, its states numbered from 0: succ[k]  *)
(* follows k - 1.                                                          *)
State(n, k) == {IF (k \div (2 ^ (b - 1))) % 2 = 1 THEN b ELSE -b : b \in 1 .. n}
Counter(n, succ, badNumbers) ==
  LET into(b) == {k \in 0 .. 2 ^ n - 1 : b \in State(n, succ[k + 1])}
  IN  Design([b \in 1 .. n |-> {State(n, k) : k \in into(b)}], {},
             {State(n, k) : k \in badNumbers}, Always, {{1}}, {{2}})

Walks == {Counter(2, succ, {3}) : succ \in [1 .. 4 -> 0 .. 3]}

Flawless == {Counter(2, <<1, 2, 3, 0>>, {})}

Affine ==
  {Counter(3, [k \in 1 .. 8 |-> (c * (k - 1) + d) % 8], bad) :
     c \in {3, 5, 6}, d \in {1, 3, 4, 6}, bad \in {{5}, {6, 7}, {2, 3, 6, 7}, {4, 5, 6, 7}}}

(* Long ways from reset to bad.                                            *)
Deep ==
  {Counter(3, <<6, 7, 0, 1, 5, 3, 4, 2>>, {2}), Counter(3, <<6, 4, 5, 7, 1, 3, 2, 1>>, {4})}

(* Bit 11 is an input.                                                     *)
OneOf == {{{11}}, {{1, -11}, {-1, 11}}, {{2}, {1, 11}}, {{1}, {-2, 11}}}
Driven ==
  {Design(<<f, g>>, {11}, bad, assume, {{11}}, {{2}}) :
     f \in OneOf, g \in {{{1}}, {{2}, {1}}, {{1, -2}, {2, -11}}},
     bad \in {{{1, 2}}, {{2, -11}}, {{-1, -2, 11}}, {{11}}},
     assume \in {Always, {{-11}, {-1}}, {{11}, {2}}}}

(* A register behind a register behind the input, and a wider one.         *)
Pipelines ==
  {Design(<<{{11}}, {{1, -3}}, third>>, {11}, bad, Always, {{1}}, {{3}}) :
     third \in {{{2}}, {{3}, {2, 11}}}, bad \in {{{3, 2}}, {{3}}}}

MCDesigns == Flawless \cup Deep \cup Walks \cup Affine \cup Driven \cup Pipelines

-----------------------------------------------------------------------------
(* Four registers with exclusive-or between them and a state that is bad   *)
(* 14 steps from reset.                                                    *)
WindingCircuit ==
  [gates |-> << C!ConstGate, C!VarGate(1), C!VarGate(2), C!VarGate(3), C!VarGate(4),
                C!Gate("xor", <<-2, 3>>), C!Gate("and", <<-5, 3>>), C!Gate("or", <<7, 2>>),
                C!Gate("or", <<4, 2>>), C!Gate("xor", <<-5, 9>>),
                C!Gate("and", <<-5, -3, 2, 4>>) >>,
   next |-> <<-4, 6, 8, 10>>, bad |-> 11, assume |-> << >>]

Winding ==
  LET xor(l, m) == {{l, -m}, {-l, m}}
  IN  {[Design(<<{{-3}}, xor(-1, 2), {{-4, 2}, {1}}, {{-4, -3, -1}, {4, 3}, {4, 1}}>>, {},
               {{-4, -2, 1, 3}}, Always, {{1}}, {{2}})
        EXCEPT !.circuit = WindingCircuit]}
=============================================================================
