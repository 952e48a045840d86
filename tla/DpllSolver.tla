----------------------------- MODULE DpllSolver ------------------------------
(***************************************************************************)
(* The finite-domain search engine of 04_sat_engine/dpll_solver.sv: decide *)
(* a value, propagate to a fixpoint, undo on a conflict, emit solutions.   *)
(* An action is a clock edge in the state of the machine it is named for.  *)
(*                                                                         *)
(* The propagation round is a parameter, of which only what every round    *)
(* must do is assumed; DpllRound is the one of the code.  The shift        *)
(* register that picks variables and values may pick any of them.  The     *)
(* arrays sv, vat and tried up to lvl are a sequence of open levels.       *)
(***************************************************************************)
EXTENDS Naturals, Sequences, FiniteSets

CONSTANTS
  Vars,       (* the variables                                             *)
  Values,     (* the values of a domain                                    *)
  Budgets,    (* the instances of the constraint (values of SUM)           *)
  Solutions,  (* Solutions[b]: the legal assignments of instance b         *)
  Narrow(_, _) (* Narrow(b, d): the domains newD after a round on d        *)

Domains == [Vars -> SUBSET Values]
Assignments == [Vars -> Values]

Within(s, d) == \A i \in Vars : s[i] \in d[i]

(* is_one()                                                                *)
IsOne(S) == \E v \in S : S = {v}
AllOne(d) == \A i \in Vars : IsOne(d[i])

(* The assignment read from domains of one value each, vmin() of the code. *)
ReadOff(d) == [i \in Vars |-> CHOOSE v \in d[i] : TRUE]

ASSUME VarsAssumption == IsFiniteSet(Vars)

ASSUME SolutionsAssumption == Solutions \in [Budgets -> SUBSET Assignments]

(* A round adds no value, removes none of a solution, and is at rest on    *)
(* domains of one value only when they are a solution.                     *)
ASSUME NarrowAssumption ==
  \A b \in Budgets :
    /\ \A d \in Domains :
         /\ Narrow(b, d) \in Domains
         /\ \A i \in Vars : Narrow(b, d)[i] \subseteq d[i]
         /\ AllOne(d) /\ Narrow(b, d) = d => ReadOff(d) \in Solutions[b]
    /\ \A s \in Solutions[b] : \A d \in Domains :
         Within(s, d) => Within(s, Narrow(b, d))

VARIABLES
  budget,     (* the instance                                              *)
  state,      (* state of the machine                                      *)
  dom,        (* D: the current domains                                    *)
  trail,      (* the open levels: domains when opened (sv), variable (vat) *)
              (* and values attempted (tried) of each                      *)
  sol,        (* the assignment on the output, none or one                 *)
  valid,      (* the output valid                                          *)
  unsat       (* the output unsat                                          *)

vars == <<budget, state, dom, trail, sol, valid, unsat>>

(* After the first reset; the domains hold nothing meaningful yet.         *)
Init ==
  /\ budget \in Budgets
  /\ state = "INIT"
  /\ dom = [i \in Vars |-> {}]
  /\ trail = <<>>
  /\ sol = {}
  /\ valid = FALSE
  /\ unsat = FALSE

lvl == Len(trail)
top == trail[lvl]

-----------------------------------------------------------------------------
(* The round on the current domains.                                       *)
newD == Narrow(budget, dom)

p_conf == \E i \in Vars : newD[i] = {}
p_chg == newD # dom

(* What follows a round without conflict: another one while something      *)
(* changes, then emission or the next decision.                            *)
AfterRound_TooEarly(again) ==
  IF AllOne(newD) THEN "EMIT" ELSE IF p_chg THEN again ELSE "DECIDE"
AfterRound(again) ==
  IF p_chg THEN again ELSE IF AllOne(newD) THEN "EMIT" ELSE "DECIDE"

GiveUp ==
  /\ unsat' = TRUE
  /\ state' = "DONE"

-----------------------------------------------------------------------------
(* Every edge outside EMIT clears valid; only INIT can find it set.         *)
Restart ==
  /\ state = "INIT"
  /\ dom' = [i \in Vars |-> Values]
  /\ trail' = <<>>
  /\ state' = "IPROP"
  /\ valid' = FALSE
  /\ UNCHANGED <<budget, sol, unsat>>

FirstRound ==
  /\ state = "IPROP"
  /\ \/ /\ p_conf
        /\ GiveUp
        /\ UNCHANGED dom
     \/ /\ ~p_conf
        /\ dom' = newD
        /\ state' = AfterRound("IPROP")
        /\ UNCHANGED unsat
  /\ UNCHANGED <<budget, trail, sol, valid>>

(* A level is opened for a variable that is not settled.                   *)
Decide_Anything ==
  /\ state = "DECIDE"
  /\ \E i \in Vars : trail' = Append(trail, [dom |-> dom, var |-> i, tried |-> {}])
  /\ state' = "VALUE"
  /\ UNCHANGED <<budget, dom, sol, valid, unsat>>
Decide ==
  /\ state = "DECIDE"
  /\ \E i \in Vars :
       /\ ~IsOne(dom[i])
       /\ trail' = Append(trail, [dom |-> dom, var |-> i, tried |-> {}])
  /\ state' = "VALUE"
  /\ UNCHANGED <<budget, dom, sol, valid, unsat>>

Avail == dom[top.var] \ top.tried

TryValue_Forgets ==
  /\ state = "VALUE"
  /\ \E v \in Avail : dom' = [dom EXCEPT ![top.var] = {v}]
  /\ state' = "PROP"
  /\ UNCHANGED <<budget, trail, sol, valid, unsat>>
TryValue ==
  /\ state = "VALUE"
  /\ \E v \in Avail :
       /\ dom' = [dom EXCEPT ![top.var] = {v}]
       /\ trail' = [trail EXCEPT ![lvl].tried = @ \cup {v}]
  /\ state' = "PROP"
  /\ UNCHANGED <<budget, sol, valid, unsat>>

Exhausted ==
  /\ state = "VALUE"
  /\ Avail = {}
  /\ state' = "BT"
  /\ UNCHANGED <<budget, dom, trail, sol, valid, unsat>>

(* A conflict undoes the decision; another value is tried.                 *)
NextRound_NoUndo ==
  /\ state = "PROP"
  /\ \/ /\ p_conf
        /\ state' = "VALUE"
        /\ UNCHANGED dom
     \/ /\ ~p_conf
        /\ dom' = newD
        /\ state' = AfterRound("PROP")
  /\ UNCHANGED <<budget, trail, sol, valid, unsat>>
NextRound_ConflictIsFinal ==
  /\ state = "PROP"
  /\ \/ /\ p_conf
        /\ GiveUp
        /\ UNCHANGED dom
     \/ /\ ~p_conf
        /\ dom' = newD
        /\ state' = AfterRound("PROP")
        /\ UNCHANGED unsat
  /\ UNCHANGED <<budget, trail, sol, valid>>
NextRound ==
  /\ state = "PROP"
  /\ \/ /\ p_conf
        /\ dom' = top.dom
        /\ state' = "VALUE"
     \/ /\ ~p_conf
        /\ dom' = newD
        /\ state' = AfterRound("PROP")
  /\ UNCHANGED <<budget, trail, sol, valid, unsat>>

Popped_All == <<>>
Popped == SubSeq(trail, 1, lvl - 1)

(* Back to the previous level; from the first one there is none.           *)
Backtrack ==
  /\ state = "BT"
  /\ \/ /\ lvl = 1
        /\ GiveUp
        /\ UNCHANGED <<dom, trail>>
     \/ /\ lvl > 1
        /\ dom' = trail[lvl - 1].dom
        /\ trail' = Popped
        /\ state' = "VALUE"
        /\ UNCHANGED unsat
  /\ UNCHANGED <<budget, sol, valid>>

Emit ==
  /\ state = "EMIT"
  /\ sol' = {ReadOff(dom)}
  /\ valid' = TRUE
  /\ state' = "INIT"
  /\ UNCHANGED <<budget, dom, trail, unsat>>

Halted == state = "DONE" /\ UNCHANGED vars

Clock ==
  \/ Restart \/ FirstRound \/ Decide \/ TryValue \/ Exhausted
  \/ NextRound \/ Backtrack \/ Emit \/ Halted

(* rst may be raised at any time; domains and output are not reset.        *)
Reset ==
  /\ state' = "INIT"
  /\ trail' = <<>>
  /\ valid' = FALSE
  /\ unsat' = FALSE
  /\ UNCHANGED <<budget, dom, sol>>

Next == Clock \/ Reset

Spec == Init /\ [][Next]_vars

(* The clock does not stop; nobody has to raise rst.                       *)
FairSpec == Spec /\ WF_vars(Clock)

-----------------------------------------------------------------------------
(* Properties.                                                             *)

Levels == [dom : Domains, var : Vars, tried : SUBSET Values]

(* Type invariant of the variables; lvl names an open level whenever the   *)
(* machine reads the arrays at lvl.                                        *)
TypeOK ==
  /\ budget \in Budgets
  /\ state \in {"INIT", "IPROP", "DECIDE", "VALUE", "PROP", "BT", "EMIT", "DONE"}
  /\ dom \in Domains
  /\ trail \in Seq(Levels)
  /\ state \in {"VALUE", "PROP", "BT"} => trail # <<>>
  /\ sol \in SUBSET Assignments /\ valid \in BOOLEAN /\ unsat \in BOOLEAN

(* The README's key property, "a satisfiable instance always yields a      *)
(* legal assignment": what is emitted satisfies every constraint.          *)
EmittedLegal == valid => \E s \in Solutions[budget] : sol = {s}

(* unsat is raised only for an instance without a solution.                *)
UnsatJustified == unsat => Solutions[budget] = {}

(* s may still be found by going back to the open level e.                 *)
Pending(s, e) == Within(s, e.dom) /\ s[e.var] \notin e.tried

(* Propagation, undoing and backtracking lose no solution: until one is    *)
(* emitted, each lies in the current domains or behind an untried value of *)
(* an open level.                                                          *)
NothingLost ==
  state \notin {"INIT", "EMIT"} =>
    \A s \in Solutions[budget] :
      \/ Within(s, dom) /\ state \notin {"VALUE", "BT", "DONE"}
      \/ \E l \in 1 .. lvl : Pending(s, trail[l])

(* There are never more open levels than variables, the length of the      *)
(* arrays sv, tried and vat: no index is out of range.                     *)
TrailFits == lvl <= Cardinality(Vars)

(* Every search ends in an emission or in unsat, whatever is picked: the   *)
(* machine leaves it for INIT, or is stopped with unsat.                   *)
SearchEnds == []<>(state = "INIT" \/ unsat)
=============================================================================
