--------------------------------- MODULE Ic3 ----------------------------------
(***************************************************************************)
(* Property-directed reachability, 01_proof_engines/ic3.py (class IC3).    *)
(* Frames of clauses over-approximate the states reachable in so many      *)
(* steps; a bad cube of the last frame becomes an obligation to block, and *)
(* so do its predecessors, level by level; clauses are then pushed to      *)
(* later frames until two frames agree.                                    *)
(*                                                                         *)
(* A SAT query is told by its answer over all states (Cdcl is the solver): *)
(* the engine goes on with any witness.  A cube is a set of literals.      *)
(* Ternary lifting may keep any literals of a witness that still force the *)
(* target under its input; which ones depends on the gates.                *)
(***************************************************************************)
EXTENDS TransitionSystems, Bags, SequencesExt

CONSTANT FrameLimits    (* values of the parameter max_frames, 40 by default *)

ASSUME FrameLimitsAssumption == FrameLimits \subseteq Nat \ {0}

VARIABLES
  limit,      (* max_frames                                                *)
  sys,        (* the transition system                                     *)
  pc,         (* where solve() is                                          *)
  frames,     (* frames[i], i >= 1: the clauses that hold up to step i     *)
  queue,      (* the heap of proof obligations: a bag of <<level, cube>>   *)
  blocking,   (* the obligation that is generalized: its level and cube,   *)
              (* the literals kept, and those of them not yet tried        *)
  at,         (* _propagate(): the frame whose clauses are pushed          *)
  todo,       (* its clauses not yet looked at                             *)
  found       (* what solve() returned                                     *)

ic3Vars == <<limit, sys, pc, frames, queue, blocking, at, todo, found>>

Nothing == [level |-> 0, cube |-> {}, kept |-> {}, untried |-> {}]
NotFound == [result |-> "NONE", frames |-> 0, invariant |-> {}]

(* IC3(ts).solve() is called.                                              *)
Begin(ts) ==
  [sys |-> ts, pc |-> "start", frames |-> <<{}>>, queue |-> EmptyBag,
   blocking |-> Nothing, at |-> 0, todo |-> {}, found |-> NotFound]

-----------------------------------------------------------------------------
(* Frames and cubes.                                                       *)

In(s, cube) == cube \subseteq s
Holds(clause, s) == clause \cap s # {}
Negated(c) == {-l : l \in c}

frontier == Len(frames)

(* The states of F_i: those of F_0 are the initial one; a clause of a      *)
(* frame counts in every earlier one.                                      *)
Frame(i) ==
  IF i = 0 THEN {sys.init}
  ELSE {s \in sys.states : \A j \in i .. frontier : \A c \in frames[j] : Holds(c, s)}

(* _lift(): cubes around s of states that all hit the target.              *)
Lifts(s, targets) ==
  {c \in (SUBSET s) \ {{}} : \A t \in sys.states : In(t, c) => t \in targets}

(* _bad_cube().                                                            *)
BadCubes(i) ==
  UNION {Lifts(x[1], {t \in sys.states : sys.bad[<<t, x[2]>>]}) :
           x \in {y \in Frame(i) \X sys.inputs : sys.bad[y]}}

(* _predecessor(): cubes that step into cube, around a state of F_i        *)
(* outside it.                                                             *)
Predecessors(cube, i) ==
  UNION {Lifts(x[1], {t \in sys.states : In(sys.step[<<t, x[2]>>], cube)}) :
           x \in {y \in Frame(i) \X sys.inputs : ~In(y[1], cube) /\ In(sys.step[y], cube)}}

(* _init_intersects().                                                     *)
MeetsInit(cube) == In(sys.init, cube)

(* _inductive_rel().                                                       *)
Inductive(clause, i) ==
  \A s \in Frame(i), in \in sys.inputs : Holds(clause, s) => Holds(clause, sys.step[<<s, in>>])

(* _generalize(): a literal may go if the rest can still be blocked at the *)
(* same level.                                                             *)
MayDrop(l, cube, i) ==
  /\ cube # {l}
  /\ ~MeetsInit(cube \ {l})
  /\ Inductive(Negated(cube \ {l}), i - 1)

(* A clause enters a frame and ousts those it subsumes.                    *)
Entered(clause, F) == {c \in F : ~(clause \subseteq c)} \cup {clause}

(* _add_blocked().                                                         *)
Blocked(clause, upto) ==
  [j \in DOMAIN frames |-> IF j <= upto THEN Entered(clause, frames[j]) ELSE frames[j]]

-----------------------------------------------------------------------------
(* solve().                                                                *)

Return(result, n, invariant) ==
  /\ found' = [result |-> result, frames |-> n, invariant |-> invariant]
  /\ pc' = "done"

(* _init_intersects_bad().                                                 *)
BadAtReset_Later == HasBad(sys, Image(sys, {sys.init}))
BadAtReset == HasBad(sys, {sys.init})

CheckInit ==
  /\ pc = "start"
  /\ \/ BadAtReset /\ Return("UNSAFE", 0, {})
     \/ ~BadAtReset /\ pc' = "frontier" /\ UNCHANGED found
  /\ UNCHANGED <<limit, sys, frames, queue, blocking, at, todo>>

(* The loop over frontiers ends at the limit.                              *)
OutOfFrames ==
  /\ pc = "frontier" /\ frontier >= limit
  /\ Return("UNKNOWN", limit, {})
  /\ UNCHANGED <<limit, sys, frames, queue, blocking, at, todo>>

BadFound ==
  /\ pc = "frontier" /\ frontier < limit
  /\ \E cube \in BadCubes(frontier) : queue' = SetToBag({<<frontier, cube>>})
  /\ pc' = "block"
  /\ UNCHANGED <<limit, sys, frames, blocking, at, todo, found>>

(* Nothing bad in the last frame, and no clause needed for it: any state   *)
(* is good.  Otherwise a new frame, and clauses are pushed.                *)
FrontierClean ==
  /\ pc = "frontier" /\ frontier < limit
  /\ BadCubes(frontier) = {}
  /\ \/ /\ \A i \in DOMAIN frames : frames[i] = {}
        /\ Return("SAFE", frontier, {})
        /\ UNCHANGED <<frames, at, todo>>
     \/ /\ \E i \in DOMAIN frames : frames[i] # {}
        /\ frames' = Append(frames, {})
        /\ at' = 1 /\ todo' = frames[1]
        /\ pc' = "push"
        /\ UNCHANGED found
  /\ UNCHANGED <<limit, sys, queue, blocking>>

(* _block(): an obligation of the lowest level is taken.  At level 0 it is *)
(* the end of a counterexample; with a predecessor left, that one comes    *)
(* first; without, it is generalized.                                      *)
Lowest == {ob \in BagToSet(queue) : \A other \in BagToSet(queue) : ob[1] <= other[1]}

TakeObligation ==
  /\ pc = "block"
  /\ \E ob \in Lowest :
       LET i == ob[1]
           cube == ob[2]
           rest == queue (-) SetToBag({ob})
       IN  \/ /\ i = 0
              /\ IF MeetsInit(cube)
                 THEN queue' = EmptyBag /\ Return("UNSAFE", frontier, {})
                 ELSE queue' = rest /\ UNCHANGED <<pc, found>>
              /\ UNCHANGED blocking
           \/ /\ i > 0
              /\ \E pred \in Predecessors(cube, i - 1) :
                   queue' = queue (+) SetToBag({<<i - 1, pred>>})
              /\ UNCHANGED <<pc, blocking, found>>
           \/ /\ i > 0 /\ Predecessors(cube, i - 1) = {}
              /\ queue' = rest
              /\ blocking' = [level |-> i, cube |-> cube, kept |-> cube, untried |-> cube]
              /\ pc' = "generalize"
              /\ UNCHANGED found
  /\ UNCHANGED <<limit, sys, frames, at, todo>>

(* The literals are tried in the order of a set: any.                      *)
TryLiteral ==
  /\ pc = "generalize"
  /\ \E l \in blocking.untried :
       blocking' = [blocking EXCEPT
         !.untried = @ \ {l},
         !.kept = IF MayDrop(l, @, blocking.level) THEN @ \ {l} ELSE @]
  /\ UNCHANGED <<limit, sys, pc, frames, queue, at, todo, found>>

(* What is left is blocked, and the obligation is due again a level up.    *)
BlockCube ==
  /\ pc = "generalize" /\ blocking.untried = {}
  /\ frames' = Blocked(Negated(blocking.kept), blocking.level)
  /\ queue' = IF blocking.level < frontier
              THEN queue (+) SetToBag({<<blocking.level + 1, blocking.cube>>})
              ELSE queue
  /\ blocking' = Nothing
  /\ pc' = "block"
  /\ UNCHANGED <<limit, sys, at, todo, found>>

AllBlocked ==
  /\ pc = "block" /\ queue = EmptyBag
  /\ pc' = "frontier"
  /\ UNCHANGED <<limit, sys, frames, queue, blocking, at, todo, found>>

(* _propagate(): the clauses of a frame that also hold one step later.     *)
MayPush_Any(clause) == clause \notin frames[at + 1]
MayPush(clause) == clause \notin frames[at + 1] /\ Inductive(clause, at)

PushClause ==
  /\ pc = "push"
  /\ \E clause \in todo :
       /\ todo' = todo \ {clause}
       /\ \/ MayPush(clause) /\ frames' = [frames EXCEPT ![at + 1] = Entered(clause, @)]
          \/ ~MayPush(clause) /\ UNCHANGED frames
  /\ UNCHANGED <<limit, sys, pc, queue, blocking, at, found>>

Converged == frames[at] # {} /\ frames[at] \subseteq frames[at + 1]

FramePushed ==
  /\ pc = "push" /\ todo = {}
  /\ \/ /\ Converged
        /\ Return("SAFE", frontier - 1, UNION {frames[j] : j \in at + 1 .. frontier})
        /\ UNCHANGED <<at, todo>>
     \/ /\ ~Converged /\ at + 1 < frontier
        /\ at' = at + 1 /\ todo' = frames[at + 1]
        /\ UNCHANGED <<pc, found>>
     \/ /\ ~Converged /\ at + 1 = frontier
        /\ pc' = "frontier"
        /\ UNCHANGED <<at, todo, found>>
  /\ UNCHANGED <<limit, sys, frames, queue, blocking>>

Ic3Step ==
  \/ CheckInit \/ OutOfFrames \/ BadFound \/ FrontierClean
  \/ TakeObligation \/ TryLiteral \/ BlockCube \/ AllBlocked \/ PushClause \/ FramePushed

-----------------------------------------------------------------------------
(* Properties.                                                             *)

(* The frames are what every verdict rests on: the reset state is in all   *)
(* of them, a step from one leads into the next, and none before the last  *)
(* has a bad state, whichever literals were lifted away or generalized,    *)
(* whatever was ousted by subsumption or pushed, at every moment.          *)
FramesHold ==
  \A i \in 0 .. frontier - 1 :
    /\ sys.init \in Frame(i + 1)
    /\ Image(sys, Frame(i)) \subseteq Frame(i + 1)
    /\ pc # "start" /\ found.result # "UNSAFE" => ~HasBad(sys, Frame(i))

(* No obligation above level 0 contains the reset state.  _block() never   *)
(* looks: its query for predecessors would leave the reset state out, and  *)
(* blocking the cube would cut it off.  That it cannot happen rests on the *)
(* earlier frontiers having been clean, also for an obligation that comes  *)
(* back at a later level.                                                  *)
ObligationsMissInit ==
  \A ob \in BagToSet(queue) : ob[1] > 0 => ~MeetsInit(ob[2])
=============================================================================
