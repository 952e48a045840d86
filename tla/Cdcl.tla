-------------------------------- MODULE Cdcl ---------------------------------
(***************************************************************************)
(* The SAT solver of 01_proof_engines/cdcl.py (class Solver), the oracle   *)
(* of every other proof engine: propagation with two watched literals per  *)
(* clause, learning from conflicts, backjumping, restarts, and solving     *)
(* under assumptions, used incrementally by a caller that adds clauses     *)
(* between its queries.                                                    *)
(*                                                                         *)
(* Variables are positive integers, a literal is a variable or its         *)
(* negation.  Activities and saved phases only choose the next decision:   *)
(* any open variable may be decided, either way.  The count of conflicts   *)
(* only times the restarts: any conflict may be followed by one.  All      *)
(* variables are created before the first call.                            *)
(***************************************************************************)
EXTENDS Integers, FiniteSets, SequencesExt

CONSTANTS
  Vars,       (* the variables of the solver                               *)
  Sessions    (* what a caller does: sequences of calls                    *)

Literals == Vars \cup {-v : v \in Vars}

(* The calls of the interface: add_clause(lits) and solve(assumptions).    *)
Calls == [op : {"add", "solve"}, lits : Seq(Literals)]

ASSUME VarsAssumption == Vars \subseteq Nat \ {0} /\ IsFiniteSet(Vars)
ASSUME SessionsAssumption == Sessions \subseteq Seq(Calls)

VARIABLES
  calls,      (* the calls the caller has still to make                    *)
  pc,         (* "idle" between calls, else where solve() is               *)
  clauses,    (* clauses and learnts: literals, the first two watched      *)
  watches,    (* watches[p]: clauses to visit when p becomes true          *)
  trail,      (* assigned literals in order, each with its reason clause,  *)
              (* 0 for none                                                *)
  limits,     (* trail_lim: length of the trail when a level was opened    *)
  qhead,      (* literals of the trail already taken for propagation       *)
  toVisit,    (* clauses still to visit for the last literal taken         *)
  learnt,     (* literals of the clause being learned from a conflict      *)
  empty,      (* _empty: the clauses were refuted when one was added       *)
  assumed,    (* assumptions of the running call                           *)
  ui,         (* how many of them have been honored                        *)
  answer,     (* what the last call to solve() returned                    *)
  core,       (* conflict_core, as a set                                   *)
  given       (* history: the clauses added so far, as sets                *)

database == <<clauses, watches>>
query == <<assumed, ui, answer, core>>
vars == <<calls, pc, clauses, watches, trail, limits, qhead, toVisit, learnt, empty,
          assumed, ui, answer, core, given>>

Init ==
  /\ calls \in Sessions
  /\ pc = "idle"
  /\ clauses = <<>>
  /\ watches = [l \in Literals |-> <<>>]
  /\ trail = <<>> /\ limits = <<>> /\ qhead = 0
  /\ toVisit = <<>> /\ learnt = {}
  /\ empty = FALSE
  /\ assumed = <<>> /\ ui = 0
  /\ answer = "NONE" /\ core = {}
  /\ given = {}

-----------------------------------------------------------------------------
(* The assignment.                                                         *)
var(l) == IF l > 0 THEN l ELSE -l

True(l) == \E i \in DOMAIN trail : trail[i].lit = l
False(l) == True(-l)
Open(l) == ~True(l) /\ ~False(l)

level == Len(limits)
Place(v) == CHOOSE i \in DOMAIN trail : var(trail[i].lit) = v
Reason(v) == trail[Place(v)].reason
LevelOf(v) == Cardinality({j \in DOMAIN limits : limits[j] < Place(v)})

Entry(l, c) == [lit |-> l, reason |-> c]

(* _cancel_until(n): the trail, the levels and the queue it leaves.        *)
Cancelled(n) ==
  IF level <= n
  THEN [trail |-> trail, limits |-> limits, qhead |-> qhead]
  ELSE [trail |-> SubSeq(trail, 1, limits[n + 1]),
        limits |-> SubSeq(limits, 1, n),
        qhead |-> Min({qhead, limits[n + 1]})]

(* _attach(): the watch lists with clause number c watching its first two  *)
(* literals.                                                               *)
Attached(c, lits) ==
  [p \in Literals |-> IF p \in {-lits[1], -lits[2]} THEN Append(watches[p], c) ELSE watches[p]]

-----------------------------------------------------------------------------
(* add_clause().                                                           *)

BeforeAdd_AsIs == [trail |-> trail, limits |-> limits, qhead |-> qhead]
BeforeAdd == Cancelled(0)

(* The literals without repetitions.                                       *)
Distinct(lits) ==
  LET out[n \in 0 .. Len(lits)] ==
        IF n = 0 THEN <<>>
        ELSE IF Contains(out[n - 1], lits[n]) THEN out[n - 1] ELSE Append(out[n - 1], lits[n])
  IN  out[Len(lits)]
Tautology(lits) == \E l \in ToSet(lits) : -l \in ToSet(lits)

Learn(c, lits) ==
  /\ clauses' = Append(clauses, lits)
  /\ watches' = Attached(c, lits)

AddClause(lits) ==
  LET root == BeforeAdd
      out == Distinct(lits)
      holds(l) == \E i \in DOMAIN root.trail : root.trail[i].lit = l
  IN  /\ given' = given \cup {ToSet(lits)}
      /\ limits' = root.limits
      /\ qhead' = root.qhead
      /\ \/ /\ Tautology(lits)
            /\ trail' = root.trail
            /\ UNCHANGED <<database, empty>>
         \/ /\ ~Tautology(lits)
            /\ Len(out) = 0 \/ (Len(out) = 1 /\ holds(-out[1]))
            /\ empty' = TRUE
            /\ trail' = root.trail
            /\ UNCHANGED database
         \/ /\ ~Tautology(lits)
            /\ Len(out) = 1 /\ ~holds(-out[1])
            /\ trail' = IF holds(out[1]) THEN root.trail ELSE Append(root.trail, Entry(out[1], 0))
            /\ UNCHANGED <<database, empty>>
         \/ /\ ~Tautology(lits)
            /\ Len(out) >= 2
            /\ Learn(Len(clauses) + 1, out)
            /\ trail' = root.trail
            /\ UNCHANGED empty
      /\ answer' = "NONE"
      /\ UNCHANGED <<pc, toVisit, learnt, assumed, ui, core>>

-----------------------------------------------------------------------------
(* solve().                                                                *)

Answer(result, why) ==
  /\ answer' = result
  /\ core' = why
  /\ pc' = "idle"

FirstToPropagate_AsLeft == Cancelled(0).qhead
FirstToPropagate == 0

(* A call on refuted clauses returns at once and leaves conflict_core.     *)
CallSolve(lits) ==
  /\ assumed' = lits
  /\ ui' = 0
  /\ \/ /\ empty
        /\ Answer("UNSAT", core)
        /\ UNCHANGED <<trail, limits, qhead>>
     \/ /\ ~empty
        /\ trail' = Cancelled(0).trail
        /\ limits' = <<>>
        /\ qhead' = FirstToPropagate
        /\ answer' = "NONE" /\ core' = {}
        /\ pc' = "propagate"
  /\ UNCHANGED <<database, toVisit, learnt, empty, given>>

Call ==
  /\ pc = "idle"
  /\ calls # <<>>
  /\ calls' = Tail(calls)
  /\ LET c == Head(calls) IN
       \/ c.op = "add" /\ AddClause(c.lits)
       \/ c.op = "solve" /\ CallSolve(c.lits)

(* _propagate(): the next literal of the trail, whose watchers are to be   *)
(* visited; with none left, the search goes on.                            *)
TakeLiteral ==
  /\ pc = "propagate" /\ toVisit = <<>>
  /\ qhead < Len(trail)
  /\ LET p == trail[qhead + 1].lit IN
       /\ toVisit' = watches[p]
       /\ watches' = [watches EXCEPT ![p] = <<>>]
  /\ qhead' = qhead + 1
  /\ UNCHANGED <<calls, pc, clauses, trail, limits, learnt, empty, query, given>>

Quiet ==
  /\ pc = "propagate" /\ toVisit = <<>>
  /\ qhead = Len(trail)
  /\ pc' = "decide"
  /\ UNCHANGED <<calls, database, trail, limits, qhead, toVisit, learnt, empty, query, given>>

(* The literals of a clause that _analyze() looks at.                      *)
AboveRoot(lits) == {l \in ToSet(lits) : LevelOf(var(l)) > 0}

(* The literals of clause c with the one p falsifies in second place.      *)
Arranged(c, p) ==
  IF clauses[c][1] = -p THEN [clauses[c] EXCEPT ![1] = clauses[c][2], ![2] = -p] ELSE clauses[c]

(* The clause visited holds already, moves its watch to a literal that is  *)
(* not false, forces its first literal, or is falsified.                   *)
VisitClause ==
  /\ pc = "propagate" /\ toVisit # <<>>
  /\ LET p == trail[qhead].lit
         c == Head(toVisit)
         lits == Arranged(c, p)
         others == {k \in 3 .. Len(lits) : ~False(lits[k])}
         k == Min(others)
         stays == [watches EXCEPT ![p] = Append(@, c)]
     IN  \/ /\ True(lits[1])
            /\ clauses' = [clauses EXCEPT ![c] = lits]
            /\ watches' = stays
            /\ toVisit' = Tail(toVisit)
            /\ UNCHANGED <<pc, trail, qhead, learnt>>
         \/ /\ ~True(lits[1]) /\ others # {}
            /\ clauses' = [clauses EXCEPT ![c] = [lits EXCEPT ![2] = lits[k], ![k] = -p]]
            /\ watches' = [watches EXCEPT ![-lits[k]] = Append(@, c)]
            /\ toVisit' = Tail(toVisit)
            /\ UNCHANGED <<pc, trail, qhead, learnt>>
         \/ /\ Open(lits[1]) /\ others = {}
            /\ clauses' = [clauses EXCEPT ![c] = lits]
            /\ watches' = stays
            /\ trail' = Append(trail, Entry(lits[1], c))
            /\ toVisit' = Tail(toVisit)
            /\ UNCHANGED <<pc, qhead, learnt>>
         \/ /\ False(lits[1]) /\ others = {}
            /\ clauses' = [clauses EXCEPT ![c] = lits]
            /\ watches' = [stays EXCEPT ![p] = @ \o Tail(toVisit)]
            /\ toVisit' = <<>>
            /\ qhead' = Len(trail)
            /\ learnt' = AboveRoot(lits)
            /\ pc' = "conflict"
            /\ UNCHANGED trail
  /\ UNCHANGED <<calls, limits, empty, query, given>>

ConflictAtRoot ==
  /\ pc = "conflict"
  /\ level = 0
  /\ Answer("UNSAT", core)
  /\ UNCHANGED <<calls, database, trail, limits, qhead, toVisit, learnt, empty, assumed, ui, given>>

-----------------------------------------------------------------------------
(* _analyze(): among the literals of the falsified clause above the root,  *)
(* the latest of the current level is replaced by those of its reason,     *)
(* until one literal of that level is left.                                *)
Current == {l \in learnt : LevelOf(var(l)) = level}
Latest == CHOOSE l \in Current : \A m \in Current : Place(var(m)) <= Place(var(l))

ResolveLatest ==
  /\ pc = "conflict"
  /\ \E l, m \in Current : l # m
  /\ learnt' = (learnt \cup AboveRoot(clauses[Reason(var(Latest))])) \ {Latest, -Latest}
  /\ UNCHANGED <<calls, pc, database, trail, limits, qhead, toVisit, empty, query, given>>

(* The literal of the current level comes first, then one of the level to  *)
(* jump back to; the order of the rest is any.                             *)
LearntSequences(uip) ==
  {<<uip>> \o rest : rest \in
     {r \in SetToSeqs(learnt \ {uip}) :
        \A i \in DOMAIN r : LevelOf(var(r[i])) <= LevelOf(var(r[1]))}}

BackjumpLevel(lits) == IF Len(lits) = 1 THEN 0 ELSE LevelOf(var(lits[2]))

(* After a backjump the assumptions are scanned again from the first.      *)
Rescan_Not == ui
Rescan == 0

(* _cancel_until() and _record(); a restart may follow, which keeps a      *)
(* learnt unit: it is a fact of the root.                                  *)
LearnAndJump ==
  /\ pc = "conflict"
  /\ \E uip \in Current : Current = {uip} /\ \E lits \in LearntSequences(uip), restart \in BOOLEAN :
       LET back == Cancelled(BackjumpLevel(lits))
           unit == Len(lits) = 1
           jumped == Append(back.trail, Entry(lits[1], IF unit THEN 0 ELSE Len(clauses) + 1))
           root == IF back.limits = <<>> THEN Len(jumped) ELSE back.limits[1]
       IN  /\ \/ unit /\ UNCHANGED database
              \/ ~unit /\ Learn(Len(clauses) + 1, lits)
           /\ trail' = IF restart THEN SubSeq(jumped, 1, root) ELSE jumped
           /\ limits' = IF restart THEN <<>> ELSE back.limits
           /\ qhead' = IF restart THEN Min({back.qhead, root}) ELSE back.qhead
  /\ learnt' = {}
  /\ ui' = Rescan
  /\ pc' = "propagate"
  /\ UNCHANGED <<calls, toVisit, empty, assumed, answer, core, given>>

-----------------------------------------------------------------------------
(* A new level with literal l.                                             *)
Enter(l) ==
  /\ limits' = Append(limits, Len(trail))
  /\ trail' = Append(trail, Entry(l, 0))

(* An assumption looked at is done with, also one that holds already.      *)
Honored_WhenEntered == IF True(assumed[ui + 1]) THEN ui ELSE ui + 1
Honored == ui + 1

HonorAssumption ==
  /\ pc = "decide"
  /\ ui < Len(assumed)
  /\ ui' = Honored
  /\ LET a == assumed[ui + 1] IN
       \/ True(a) /\ UNCHANGED <<trail, limits>>
       \/ Open(a) /\ Enter(a)
  /\ pc' = "propagate"
  /\ UNCHANGED <<calls, database, qhead, toVisit, learnt, empty, assumed, answer, core, given>>

(* _assumption_core(): the failed assumption and those reached from it     *)
(* through the reasons.                                                    *)
Behind(v) == IF Reason(v) = 0 THEN {} ELSE {var(l) : l \in AboveRoot(clauses[Reason(v)])}

ReachedFrom(u) ==
  LET closed == {R \in SUBSET {v \in Vars : ~Open(v)} : u \in R /\ \A v \in R : Behind(v) \subseteq R}
  IN  {v \in Vars : \A R \in closed : v \in R}

AssumptionCore(failed, sofar) ==
  LET reached == ReachedFrom(var(failed))
  IN  {a \in ToSet(sofar) : a = failed \/ (var(a) \in reached /\ Reason(var(a)) = 0)}

AssumptionFails ==
  /\ pc = "decide"
  /\ ui < Len(assumed)
  /\ False(assumed[ui + 1])
  /\ ui' = Honored
  /\ Answer("UNSAT", AssumptionCore(assumed[ui + 1], SubSeq(assumed, 1, ui + 1)))
  /\ UNCHANGED <<calls, database, trail, limits, qhead, toVisit, learnt, empty, assumed, given>>

Decide ==
  /\ pc = "decide"
  /\ ui = Len(assumed)
  /\ \E l \in Literals : Open(l) /\ Enter(l)
  /\ pc' = "propagate"
  /\ UNCHANGED <<calls, database, qhead, toVisit, learnt, empty, query, given>>

AllAssigned ==
  /\ pc = "decide"
  /\ ui = Len(assumed)
  /\ \A v \in Vars : ~Open(v)
  /\ Answer("SAT", core)
  /\ UNCHANGED <<calls, database, trail, limits, qhead, toVisit, learnt, empty, assumed, ui, given>>

Solve ==
  \/ TakeLiteral \/ Quiet \/ VisitClause
  \/ ConflictAtRoot \/ ResolveLatest \/ LearnAndJump
  \/ HonorAssumption \/ AssumptionFails \/ Decide \/ AllAssigned

(* The caller has nothing more to ask.                                     *)
SessionOver == pc = "idle" /\ calls = <<>> /\ UNCHANGED vars

Next == Call \/ Solve \/ SessionOver

Spec == Init /\ [][Next]_vars

(* A call runs to its end; the caller need not call.                       *)
FairSpec == Spec /\ WF_vars(Solve)

-----------------------------------------------------------------------------
(* Properties.                                                             *)

Satisfies(a, lits) == \E l \in lits : IF l > 0 THEN a[l] ELSE ~a[-l]
SatisfiesAll(a, units) == \A l \in units : Satisfies(a, {l})

(* solve() returns True only with a model of every clause the caller has   *)
(* added and of every assumption of the call, whatever was learnt, undone  *)
(* or restarted on the way: model() reads the assignment left behind.      *)
SatRight ==
  answer = "SAT" =>
    /\ \A c \in given : \E l \in c : True(l)
    /\ \A i \in DOMAIN assumed : True(assumed[i])

(* solve() returns False only if no assignment satisfies the clauses and   *)
(* the assumptions, and conflict_core is a genuine core: a part of the     *)
(* assumptions that cannot hold with the clauses.  (On clauses refuted     *)
(* when they were added, conflict_core is that of an earlier call.)        *)
UnsatRight ==
  answer = "UNSAT" =>
    /\ ~empty => core \subseteq ToSet(assumed)
    /\ \A a \in [Vars -> BOOLEAN] :
         (\A c \in given : Satisfies(a, c)) => ~SatisfiesAll(a, core)

(* When propagation comes to rest, no clause has lost all its literals but *)
(* one that is open: the two watches of a clause missed nothing, also for  *)
(* clauses attached after the literals that falsify them were assigned.    *)
PropagationComplete ==
  pc = "decide" =>
    \A i \in DOMAIN clauses :
      LET c == ToSet(clauses[i])
      IN  (\E l \in c : True(l)) \/ Cardinality({l \in c : Open(l)}) >= 2

(* Every call to solve() returns, whatever is decided and however often it *)
(* restarts: no conflict is met twice.                                     *)
SolveEnds == pc # "idle" ~> pc = "idle"
=============================================================================
