-------------------------- MODULE TransitionSystems --------------------------
(***************************************************************************)
(* What the engines of 01_proof_engines work on: a deterministic design    *)
(* with inputs (circuit.py, TransitionSystem) and the systems they derive  *)
(* from it.  A state is a set of literals, b or -b for every bit b, and an *)
(* input is one over other bits; the next-state functions, the property    *)
(* violation, the assumptions and the response property                    *)
(* a |-> s_eventually b are functions of a state and an input.             *)
(***************************************************************************)
EXTENDS Integers, FiniteSets, FiniteSetsExt

(* All states over a set of bits.                                          *)
StatesOver(bits) == {on \cup {-b : b \in bits \ on} : on \in SUBSET bits}

(* The part of a state on some of its bits.                                *)
Part(s, bits) == {l \in s : l \in bits \/ -l \in bits}

(* The literals over a set of bits.                                        *)
LiteralsOf(bits) == bits \cup {-b : b \in bits}

(* A system has one reset state, and its steps stay among its states.      *)
IsSystem(ts) ==
  /\ ts.bits \subseteq Nat \ {0}
  /\ ts.states = StatesOver(ts.bits)
  /\ ts.init \in ts.states
  /\ ts.step \in [ts.states \X ts.inputs -> ts.states]

(* A design is a record with these fields among others; it has at least    *)
(* one bit, and inputs over others.                                        *)
IsDesign(ts) ==
  /\ IsSystem(ts)
  /\ {"bits", "states", "inputs", "init", "step", "bad", "assume"} \subseteq DOMAIN ts
  /\ \E last \in ts.bits : \A b \in ts.bits : b <= last
  /\ \A in \in ts.inputs :
       in \subseteq Int \ LiteralsOf(ts.bits \cup {Max(ts.bits) + 1})

(* The bits a function f of the states of ts reads.                        *)
Flip(s, b) == {IF l \in {b, -b} THEN -l ELSE l : l \in s}
Support(ts, f) ==
  {b \in ts.bits : \E s \in ts.states, in \in ts.inputs : f[<<s, in>>] # f[<<Flip(s, b), in>>]}
SupportOfBit(ts, b) ==
  Support(ts, [x \in ts.states \X ts.inputs |-> b \in ts.step[x]])

Assumes(ts) == \E s \in ts.states, in \in ts.inputs : ~ts.assume[<<s, in>>]

(* apply_assumptions(): a latch, the last bit, that falls when an input    *)
(* breaks the assumptions; bad counts only while they hold.                *)
ApplyAssumptions(ts) ==
  LET ok == Max(ts.bits) + 1
      states == StatesOver(ts.bits \cup {ok})
      design(x) == <<x[1] \ {ok, -ok}, x[2]>>
      obeyed(x) == ok \in x[1] /\ ts.assume[design(x)]
  IN  IF ~Assumes(ts) THEN ts ELSE
      [bits |-> ts.bits \cup {ok},
       states |-> states,
       inputs |-> ts.inputs,
       init |-> ts.init \cup {ok},
       step |-> [x \in states \X ts.inputs |->
                   ts.step[design(x)] \cup {IF obeyed(x) THEN ok ELSE -ok}],
       bad |-> [x \in states \X ts.inputs |-> ts.bad[design(x)] /\ obeyed(x)]]

(* localize(): every bit outside keep becomes an input.                    *)
Localize(ts, keep) ==
  LET cut == ts.bits \ keep
      states == StatesOver(keep)
      inputs == {y[1] \cup y[2] : y \in StatesOver(cut) \X ts.inputs}
      concrete(x) == <<x[1] \cup Part(x[2], cut), x[2] \ Part(x[2], cut)>>
  IN  [bits |-> keep,
       states |-> states,
       inputs |-> inputs,
       init |-> Part(ts.init, keep),
       step |-> [x \in states \X inputs |-> Part(ts.step[concrete(x)], keep)],
       bad |-> [x \in states \X inputs |-> ts.bad[concrete(x)]]]

(* liveness_to_safety(): the design with the monitor of its obligation and *)
(* a copy of both taken when the input save is first raised; bad is a loop *)
(* closed without the obligation ever met.                                 *)
LassoSystem(ts) ==
  LET states == [design : ts.states, pending : BOOLEAN, saved : BOOLEAN, shadow : ts.states,
                 shadowPending : BOOLEAN, triggered : BOOLEAN, ok : BOOLEAN]
      inputs == ts.inputs \X BOOLEAN
      obeyed(s, in) == s.ok /\ ts.assume[<<s.design, in[1]>>]
      next(s, in) ==
        [design |-> ts.step[<<s.design, in[1]>>],
         pending |-> (s.pending \/ ts.a[<<s.design, in[1]>>]) /\ ~ts.b[<<s.design, in[1]>>],
         saved |-> s.saved \/ in[2],
         shadow |-> IF s.saved THEN s.shadow ELSE s.design,
         shadowPending |-> IF s.saved THEN s.shadowPending ELSE s.pending,
         triggered |-> (s.saved \/ in[2]) /\ (s.triggered \/ ~s.pending),
         ok |-> obeyed(s, in)]
      closed(s) == s.design = s.shadow /\ s.pending = s.shadowPending
  IN  [states |-> states,
       inputs |-> inputs,
       init |-> [design |-> ts.init, pending |-> FALSE, saved |-> FALSE,
                 shadow |-> {-b : b \in ts.bits}, shadowPending |-> FALSE,
                 triggered |-> FALSE, ok |-> TRUE],
       step |-> [x \in states \X inputs |-> next(x[1], x[2])],
       bad |-> [x \in states \X inputs |->
                  x[1].saved /\ closed(x[1]) /\ ~x[1].triggered /\ obeyed(x[1], x[2])]]

-----------------------------------------------------------------------------
(* Sets of states.                                                         *)

Image(ts, S) == {ts.step[x] : x \in S \X ts.inputs}

BadStates(ts) == {s \in ts.states : \E in \in ts.inputs : ts.bad[<<s, in>>]}

HasBad(ts, S) == \E s \in S, in \in ts.inputs : ts.bad[<<s, in>>]

(* Everything reachable from the initial state.                            *)
Reachable(ts) ==
  LET Reach[S \in SUBSET ts.states] ==
        LET more == S \cup Image(ts, S) IN IF more = S THEN S ELSE Reach[more]
  IN  Reach[{ts.init}]

(* The states after exactly k steps from S.                                *)
After(ts, S, k) ==
  LET Steps[n \in 0 .. k] == IF n = 0 THEN S ELSE Image(ts, Steps[n - 1])
  IN  Steps[k]

-----------------------------------------------------------------------------
(* What the verdicts are about, told without latches, monitors or copies:  *)
(* the runs of the design in which every input obeys the assumptions.      *)

Obedient(ts, S) ==
  {ts.step[x] : x \in {y \in S \X ts.inputs : ts.assume[y]}}

ObedientlyReachable(ts) ==
  LET Reach[S \in SUBSET ts.states] ==
        LET more == S \cup Obedient(ts, S) IN IF more = S THEN S ELSE Reach[more]
  IN  Reach[{ts.init}]

(* No such run meets bad.                                                  *)
Safe(ts) ==
  \A s \in ObedientlyReachable(ts), in \in ts.inputs : ~(ts.assume[<<s, in>>] /\ ts.bad[<<s, in>>])

(* The states from which such a run can go on for ever without b.          *)
Starving(ts) ==
  LET avoids(s, in) == ts.assume[<<s, in>>] /\ ~ts.b[<<s, in>>]
      Kept[S \in SUBSET ts.states] ==
        LET less == {s \in S : \E in \in ts.inputs : avoids(s, in) /\ ts.step[<<s, in>>] \in S}
        IN  IF less = S THEN S ELSE Kept[less]
  IN  Kept[ts.states]

(* Every a is followed by a b, in the same step or later.                  *)
Responds(ts) ==
  \A s \in ObedientlyReachable(ts), in \in ts.inputs :
    ts.assume[<<s, in>>] /\ ts.a[<<s, in>>] /\ ~ts.b[<<s, in>>]
      => ts.step[<<s, in>>] \notin Starving(ts)
=============================================================================
