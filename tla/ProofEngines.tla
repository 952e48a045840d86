----------------------------- MODULE ProofEngines -----------------------------
(***************************************************************************)
(* The escalation of 01_proof_engines/prove.py on one design: one-step     *)
(* induction, bounded model checking, k-induction, IC3 and interpolation   *)
(* on the design under its assumptions, then its cover and its response    *)
(* property turned into a safety one; or, with --cegar, IC3 on             *)
(* abstractions of the design that cut registers free, refined by          *)
(* counterexamples that do not replay.                                     *)
(***************************************************************************)
EXTENDS Ic3

CONSTANTS
  Designs,    (* the designs given to the program                          *)
  KMaxBmc,    (* depth of bounded model checking                           *)
  KMaxInd     (* largest k of k-induction                                  *)

Fences == INSTANCE Interpolation

ASSUME DesignsAssumption == \A ts \in Designs : IsDesign(ts)
ASSUME CircuitsAssumption == \A ts \in Designs : Fences!Computes(ts.circuit, ts)
ASSUME DepthAssumption == KMaxBmc \in Nat /\ KMaxInd \in Nat

VARIABLES
  design,     (* the design                                                *)
  stage,      (* the engine whose turn it is                               *)
  keep,       (* cegar(): the bits kept                                    *)
  verdict     (* the verdicts so far, by engine                            *)

vars == <<ic3Vars, design, stage, keep, verdict>>

target == ApplyAssumptions(design)

(* "lasso" is what the search for a lasso says before "live" is settled.   *)
Engines == {"cdcl", "bmc", "kind", "ic3", "interp", "cover", "lasso", "live", "cegar"}

Start(ts) ==
  LET b == Begin(ts)
  IN  /\ limit' = limit
      /\ sys' = b.sys /\ pc' = b.pc /\ frames' = b.frames /\ queue' = b.queue
      /\ blocking' = b.blocking
      /\ at' = b.at /\ todo' = b.todo /\ found' = b.found

Init ==
  /\ design \in Designs
  /\ stage \in {"induction", "interpolation", "abstract"}
  /\ limit \in FrameLimits
  /\ keep = Support(target, target.bad)
  /\ verdict = [e \in Engines |-> "NONE"]
  /\ LET b == Begin(target)
     IN  /\ sys = b.sys /\ pc = b.pc /\ frames = b.frames /\ queue = b.queue
         /\ blocking = b.blocking
         /\ at = b.at /\ todo = b.todo /\ found = b.found

-----------------------------------------------------------------------------
(* The engines that unroll the design.                                     *)

(* bmc(): the first depth up to k at which a run from reset meets bad, or  *)
(* -1.                                                                     *)
BadDepths(ts, k) == {d \in 0 .. k : HasBad(ts, After(ts, {ts.init}, d))}
Bmc(ts, k) == IF BadDepths(ts, k) = {} THEN -1 ELSE Min(BadDepths(ts, k))

(* The step of k-induction is closed: no k steps from anywhere on which    *)
(* nothing bad happens lead to a bad state.                                *)
StepClosed(ts, k) ==
  LET good(S) == {ts.step[x] : x \in {y \in S \X ts.inputs : ~ts.bad[y]}}
      Chain[n \in 0 .. k] == IF n = 0 THEN ts.states ELSE good(Chain[n - 1])
  IN  ~HasBad(ts, Chain[k])

(* k_induction(): base case and step for every k up to the limit.          *)
BaseDepth_Short(k) == k - 2
BaseDepth(k) == k - 1

KInduction(ts, kmax) ==
  LET refuted(k) == Bmc(ts, BaseDepth(k)) >= 0
      settled == {k \in 1 .. kmax : refuted(k) \/ StepClosed(ts, k)}
  IN  IF settled = {} THEN "STALLED"
      ELSE IF refuted(Min(settled)) THEN "CEX" ELSE "PROVED"

(* A cover is looked for as if it were bad.                                *)
Covering(ts) == [ts EXCEPT !.bad = ts.cover]

(* one_step_inductive(), bmc(), k_induction() and the cover; no verdict    *)
(* depends on another.                                                     *)
Unroll ==
  /\ stage = "induction"
  /\ verdict' = [verdict EXCEPT
       !["cdcl"] = IF StepClosed(target, 1) THEN "UNSAT" ELSE "SAT",
       !["bmc"] = IF Bmc(target, KMaxBmc) >= 0 THEN "CEX" ELSE "SAFE-UP-TO",
       !["kind"] = KInduction(target, KMaxInd),
       !["cover"] = IF Bmc(ApplyAssumptions(Covering(design)), KMaxBmc) >= 0
                    THEN "COVERED" ELSE "NOT reached"]
  /\ stage' = "ic3"
  /\ UNCHANGED <<ic3Vars, design, keep>>

(* itp_mc(): bmc() to its own depth, then the widening by interpolants.    *)
(* It shares nothing with the other engines and is looked at on its own.   *)
ItpDepth == 12

ItpMc == IF Bmc(target, ItpDepth) >= 0 THEN "UNSAFE"
         ELSE Fences!Widening(target, Fences!AssumedCircuit(design))

Interpolate ==
  /\ stage = "interpolation" /\ verdict["interp"] = "NONE"
  /\ verdict' = [verdict EXCEPT !["interp"] = ItpMc]
  /\ UNCHANGED <<ic3Vars, design, stage, keep>>

-----------------------------------------------------------------------------
(* IC3 on the system at hand.                                              *)

RunIc3 ==
  /\ stage \in {"ic3", "check"}
  /\ Ic3Step
  /\ UNCHANGED <<design, stage, keep, verdict>>

Ic3Verdict ==
  /\ stage = "ic3" /\ pc = "done"
  /\ verdict' = [verdict EXCEPT !["ic3"] = found.result]
  /\ stage' = "liveness"
  /\ UNCHANGED <<ic3Vars, design, keep>>

(* What solve() may answer of a system: SAFE only of one that cannot reach *)
(* bad, UNSAFE only of one that can, UNKNOWN of any at its limit on frames.*)
Ic3Answers(ts) == {"UNKNOWN", IF HasBad(ts, Reachable(ts)) THEN "UNSAFE" ELSE "SAFE"}

(* The response property: a search for a lasso by bmc(), then IC3 on the   *)
(* same system.  Whatever IC3 answers but SAFE is recorded as FAILS.       *)
ProveResponse ==
  /\ stage = "liveness"
  /\ LET lasso == LassoSystem(design)
         lassoMet == Bmc(lasso, KMaxBmc) >= 0
     IN  \E result \in Ic3Answers(lasso) :
           verdict' = [verdict EXCEPT
             !["lasso"] = IF lassoMet THEN "CEX" ELSE "SAFE-UP-TO",
             !["live"] = IF ~lassoMet /\ result = "SAFE" THEN "HOLDS" ELSE "FAILS"]
  /\ stage' = "done"
  /\ UNCHANGED <<ic3Vars, design, keep>>

-----------------------------------------------------------------------------
(* cegar().                                                                *)

Abstract ==
  /\ stage = "abstract"
  /\ Start(Localize(target, keep))
  /\ stage' = "check"
  /\ UNCHANGED <<design, keep, verdict>>

Conclude(result) ==
  /\ verdict' = [verdict EXCEPT !["cegar"] = result]
  /\ stage' = "done"

(* _abs_cex(): the shortest counterexamples of the abstraction up to two   *)
(* steps beyond the frames IC3 opened, as states and inputs.               *)
AbstractRun(ins) ==
  LET Run[t \in DOMAIN ins] == IF t = 0 THEN sys.init ELSE sys.step[<<Run[t - 1], ins[t - 1]>>]
  IN  Run

AbstractCexs ==
  LET depth == Bmc(sys, found.frames + 2)
  IN  IF depth < 0 THEN {}
      ELSE {ins \in [0 .. depth -> sys.inputs] : sys.bad[<<AbstractRun(ins)[depth], ins[depth]>>]}

(* _simulate(): the run of the concrete design on the inputs of a          *)
(* counterexample, and whether it meets bad.                               *)
Freed(in) == Part(in, target.bits)
Given(in) == in \ Freed(in)

ConcreteRun(ins) ==
  LET Run[t \in DOMAIN ins] ==
        IF t = 0 THEN target.init ELSE target.step[<<Run[t - 1], Given(ins[t - 1])>>]
  IN  Run

Replays(ins) == \E t \in DOMAIN ins : target.bad[<<ConcreteRun(ins)[t], Given(ins[t])>>]

(* The freed bits the abstraction reads.                                   *)
Frontier == (Support(target, target.bad) \cup UNION {SupportOfBit(target, b) : b \in keep}) \ keep

(* Those that first differ from the concrete run; all of them if none do.  *)
Differ(ins, t) == {b \in Frontier : (b \in ins[t]) # (b \in ConcreteRun(ins)[t])}

Diverging_AtTheEnd(ins) == Differ(ins, Max(DOMAIN ins))
Diverging(ins) ==
  LET times == {t \in DOMAIN ins : Differ(ins, t) # {}}
  IN  IF times = {} THEN Frontier ELSE Differ(ins, Min(times))

Proved ==
  /\ stage = "check" /\ pc = "done"
  /\ found.result = "SAFE"
  /\ Conclude("SAFE")
  /\ UNCHANGED <<ic3Vars, design, keep>>

GiveUp ==
  /\ stage = "check" /\ pc = "done"
  /\ \/ found.result = "UNKNOWN"
     \/ found.result = "UNSAFE" /\ AbstractCexs = {}
  /\ Conclude("UNKNOWN")
  /\ UNCHANGED <<ic3Vars, design, keep>>

ReplayOrRefine ==
  /\ stage = "check" /\ pc = "done"
  /\ found.result = "UNSAFE"
  /\ \E ins \in AbstractCexs :
       \/ /\ Replays(ins)
          /\ Conclude("UNSAFE")
          /\ UNCHANGED keep
       \/ /\ ~Replays(ins)
          /\ keep' = keep \cup Diverging(ins)
          /\ stage' = "abstract"
          /\ UNCHANGED verdict
  /\ UNCHANGED <<ic3Vars, design>>

Settled ==
  /\ stage = "done" \/ verdict["interp"] # "NONE"
  /\ UNCHANGED vars

Work ==
  \/ Unroll \/ RunIc3 \/ Ic3Verdict \/ ProveResponse
  \/ Abstract \/ Proved \/ GiveUp \/ ReplayOrRefine

Next == Work \/ Interpolate \/ Settled

Spec == Init /\ [][Next]_vars

(* The program runs on; the loop of itp_mc() is one step and bounded.      *)
FairSpec == Spec /\ WF_vars(Work)

-----------------------------------------------------------------------------
(* Properties.                                                             *)

(* A verdict printed is true of the design, told without assumption        *)
(* latches, monitors, copies, frames or abstractions: those of the engines *)
(* that decide by the states of the design.  FAILS claims nothing (IC3 may *)
(* have given up), the lasso bmc() prints before it does; ...              *)
EnginesTrue ==
  /\ verdict["cdcl"] = "UNSAT" /\ verdict["bmc"] = "SAFE-UP-TO" => Safe(design)
  /\ verdict["bmc"] = "CEX" => ~Safe(design)
  /\ verdict["kind"] = "PROVED" => Safe(design)
  /\ verdict["kind"] = "CEX" => ~Safe(design)
  /\ verdict["ic3"] = "SAFE" => Safe(design)
  /\ verdict["ic3"] = "UNSAFE" => ~Safe(design)
  /\ verdict["cover"] = "COVERED" => ~Safe(Covering(design))
  /\ verdict["cegar"] = "SAFE" => Safe(design)
  /\ verdict["cegar"] = "UNSAFE" => ~Safe(design)
  /\ verdict["live"] = "HOLDS" => Responds(design)
  /\ verdict["lasso"] = "CEX" => ~Responds(design)

(* ... and, with them, the counterexamples of interpolation, found in the  *)
(* clauses of its own encoding.                                            *)
VerdictsTrue ==
  /\ EnginesTrue
  /\ verdict["interp"] = "UNSAFE" => ~Safe(design)

(* The program comes to an end, whatever the witnesses, the order of       *)
(* obligations and the refinements, and IC3 with an answer, within the     *)
(* default limit on frames.                                                *)
Settles ==
  stage # "interpolation" ~>
    (stage = "done" /\ (limit = 40 => found.result \in {"SAFE", "UNSAFE"}))

(* The widening "converges to an inductive invariant": itp_mc() answers    *)
(* SAFE only of a design that is safe.                                     *)
InterpolationSound == verdict["interp"] = "SAFE" => Safe(design)
=============================================================================
