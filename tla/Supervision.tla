---------------------------- MODULE Supervision -----------------------------
(***************************************************************************)
(* Class Supervisor of actor_pkg/actor_supervision_pkg.sv: supervisors,    *)
(* the children they restart, and the failure reports children put in      *)
(* their supervisor's mailbox (ch6_actor_examples/02_supervision_demo).    *)
(*                                                                         *)
(* A supervisor's act() calls functions only, so taking a report and       *)
(* acting on it is one step of the simulator.  $fatal ends the simulation. *)
(***************************************************************************)
EXTENDS ActorProcess, FiniteSets

CONSTANTS
  Supers,        (* the supervisors                                        *)
  Workers,       (* the actors that are not supervisors                    *)
  Children,      (* Children[s]: the actors s supervises, in order         *)
  Strategy,      (* Strategy[s]: "one", "all" or "rest"                    *)
  Parents,       (* Parents[s]: supervisors wired to the reports s escalates *)
  Directives,    (* Directives[s]: what on_child_failure() may return      *)
  MaxRestarts,   (* max_restarts                                           *)
  Window,        (* restart_window_ns                                      *)
  Capacity,      (* Capacity[a]: mailbox capacity, 0 for unbounded         *)
  MaxTime,       (* bound on simulation time                               *)
  MaxJobs,       (* bound: MaxJobs[w] jobs sent to w                       *)
  MaxFails,      (* bound: MaxFails[w] failures w reports                  *)
  MaxLife        (* bound on the generations FailedComesBack looks at      *)

Actors == Supers \cup Workers

(* Index of the children list; a child has one supervisor.                 *)
ChildrenOf(s) == {Children[s][i] : i \in DOMAIN Children[s]}
IndexOf(s, c) == CHOOSE i \in DOMAIN Children[s] : Children[s][i] = c
Supervised == UNION {ChildrenOf(s) : s \in Supers}

ASSUME SupervisionAssumption ==
  /\ Supers \cap Workers = {}
  /\ Children \in [Supers -> Seq(Actors)]
  /\ \A s, r \in Supers : s # r => ChildrenOf(s) \cap ChildrenOf(r) = {}
  /\ Strategy \in [Supers -> {"one", "all", "rest"}]
  /\ Parents \in [Supers -> SUBSET Supers]
  /\ Directives \in [Supers -> [Actors -> SUBSET {"RESTART", "STOP", "RESUME", "ESCALATE"}]]
  /\ MaxRestarts \in Nat /\ Window \in Nat
  /\ Capacity \in [Actors -> Nat]

VARIABLES
  actor,         (* actor[a]: the record of ActorProcess                   *)
  now,           (* $time                                                  *)
  count,         (* count[c]: restart_count of child c; 0 while no window  *)
                 (* has been opened for it                                 *)
  windowStart,   (* windowStart[c]: window_start of child c                *)
  fatal,         (* the child whose restart $fatal refused, if any         *)
  charged,       (* history: when a restart was charged to child c         *)
  stopped,       (* history: children given the STOP directive             *)
  jobs, fails    (* jobs sent to, failures reported by each worker         *)

vars == <<actor, now, count, windowStart, fatal, charged, stopped, jobs, fails>>

(* A message: a job, or a failure report about a child.  epoch is the      *)
(* receiver's generation when it entered the mailbox, life the generation  *)
(* of the child that failed.                                               *)
Message(kind, about, life, epoch) ==
  [kind |-> kind, about |-> about, life |-> life, epoch |-> epoch]

(* mbox.try_put() of a message on actor a's record s.                      *)
Put(a, s, kind, about, life) == Offered(s, Capacity[a], Message(kind, about, life, s.gen))

Init ==
  /\ actor = [a \in Actors |-> NewActor]
  /\ now = 0
  /\ count = [c \in Actors |-> 0]
  /\ windowStart = [c \in Actors |-> 0]
  /\ fatal = {}
  /\ charged = [c \in Actors |-> <<>>]
  /\ stopped = {}
  /\ jobs = [w \in Workers |-> 0]
  /\ fails = [w \in Workers |-> 0]

Booted == \A s \in Supers : actor[s].gen > 0

-----------------------------------------------------------------------------
(* start_all() of every supervisor, from one initial block: the children   *)
(* first, then the supervisor; one that is a child itself is started twice *)
(* before its fork can run.                                                *)
StartAll ==
  /\ ~Booted
  /\ actor' = [a \in Actors |->
                 IF a \in Supers \cap Supervised THEN Started(Started(actor[a]))
                                                 ELSE Started(actor[a])]
  /\ UNCHANGED <<now, count, windowStart, fatal, charged, stopped, jobs, fails>>

RunFork(a) ==
  /\ fatal = {}
  /\ \E g \in actor[a].pend : actor' = [actor EXCEPT ![a] = ForkRun(@, g)]
  /\ UNCHANGED <<now, count, windowStart, fatal, charged, stopped, jobs, fails>>

-----------------------------------------------------------------------------
(* Workers.                                                                *)

(* Another actor or the testbench sends w a job, alive or not.             *)
Deliver(w) ==
  /\ fatal = {} /\ Booted
  /\ jobs[w] < MaxJobs[w]
  /\ jobs' = [jobs EXCEPT ![w] = @ + 1]
  /\ actor' = [actor EXCEPT ![w] = Put(w, @, "job", w, 0)]
  /\ UNCHANGED <<now, count, windowStart, fatal, charged, stopped, fails>>

Take(w) ==
  /\ fatal = {}
  /\ actor[w].mbox # <<>>
  /\ \E g \in actor[w].loops : actor' = [actor EXCEPT ![w] = Took(@, g)]
  /\ UNCHANGED <<now, count, windowStart, fatal, charged, stopped, jobs, fails>>

(* Inside act(), w reports a failure to its supervisor and goes on.        *)
Fail(w, s) ==
  /\ fatal = {}
  /\ w \in ChildrenOf(s)
  /\ actor[w].hand # {}
  /\ fails[w] < MaxFails[w]
  /\ fails' = [fails EXCEPT ![w] = @ + 1]
  /\ actor' = [actor EXCEPT ![s] = Put(s, @, "fail", w, actor[w].gen)]
  /\ UNCHANGED <<now, count, windowStart, fatal, charged, stopped, jobs>>

ActReturns(w) ==
  /\ fatal = {}
  /\ \E h \in actor[w].hand : actor' = [actor EXCEPT ![w] = ActDone(@, h)]
  /\ UNCHANGED <<now, count, windowStart, fatal, charged, stopped, jobs, fails>>

-----------------------------------------------------------------------------
(* Supervisors.                                                            *)

(* enforce_budget(): a new window opens for the child's first failure and  *)
(* for one more than restart_window_ns after the window opened.            *)
NewWindow_OnlyOnce(c) == count[c] = 0
NewWindow_Early(c) == count[c] = 0 \/ now - windowStart[c] >= Window
NewWindow(c) == count[c] = 0 \/ now - windowStart[c] > Window
CountAfter(c) == (IF NewWindow(c) THEN 0 ELSE count[c]) + 1
WithinBudget(c) == CountAfter(c) <= MaxRestarts

(* The children stopped, drained and started again when c fails.           *)
Affected(s, c) ==
  CASE Strategy[s] = "one"  -> {c}
    [] Strategy[s] = "all"  -> ChildrenOf(s)
    [] Strategy[s] = "rest" -> {d \in ChildrenOf(s) : IndexOf(s, d) >= IndexOf(s, c)}

Restarted_NoDrain(r) == Started(Stopped(r))
Restarted_StopsLast(r) == Drained(Stopped(Started(r)))
Restarted(r) == Started(Drained(Stopped(r)))

(* The supervisor's record once it has taken the report at the head of its *)
(* mailbox: the loop ends where it began, in mbox.get().                   *)
Handled(s) == [actor[s] EXCEPT !.mbox = Tail(@)]

(* do_restart(); a child it does not find is left alone.                   *)
DoRestart(s, c) ==
  IF c \notin ChildrenOf(s)
  THEN /\ actor' = [actor EXCEPT ![s] = Handled(s)]
       /\ UNCHANGED <<count, windowStart, fatal, charged>>
  ELSE /\ count' = [count EXCEPT ![c] = CountAfter(c)]
       /\ windowStart' = [windowStart EXCEPT ![c] = IF NewWindow(c) THEN now ELSE @]
       /\ IF WithinBudget(c)
          THEN /\ actor' = [a \in Actors |->
                              IF a \in Affected(s, c) THEN Restarted(actor[a])
                              ELSE IF a = s THEN Handled(s) ELSE actor[a]]
               /\ charged' = [charged EXCEPT ![c] = Append(@, now)]
               /\ UNCHANGED fatal
          ELSE /\ fatal' = {c}
               /\ UNCHANGED <<actor, charged>>

(* do_stop().                                                              *)
DoStop(s, c) ==
  /\ actor' = [a \in Actors |->
                 IF a = c /\ c \in ChildrenOf(s) THEN Stopped(actor[a])
                 ELSE IF a = s THEN Handled(s) ELSE actor[a]]
  /\ stopped' = IF c \in ChildrenOf(s) THEN stopped \cup {c} ELSE stopped

(* ESCALATE publishes a copy of the report to the wired supervisors that   *)
(* are alive.                                                              *)
Escalate(s, m) ==
  actor' = [a \in Actors |->
              IF a = s THEN Handled(s)
              ELSE IF a \in Parents[s] /\ actor[a].alive
                   THEN Put(a, actor[a], "fail", m.about, m.life)
                   ELSE actor[a]]

(* mbox.get() and act() of supervisor s.                                   *)
Handle(s) ==
  /\ fatal = {}
  /\ actor[s].loops # {}
  /\ actor[s].mbox # <<>>
  /\ LET m == Head(actor[s].mbox) IN
       \E d \in Directives[s][m.about] :
         \/ /\ d = "RESTART"
            /\ DoRestart(s, m.about)
            /\ UNCHANGED stopped
         \/ /\ d = "STOP"
            /\ DoStop(s, m.about)
            /\ UNCHANGED <<count, windowStart, fatal, charged>>
         \/ /\ d = "RESUME"
            /\ actor' = [actor EXCEPT ![s] = Handled(s)]
            /\ UNCHANGED <<count, windowStart, fatal, charged, stopped>>
         \/ /\ d = "ESCALATE"
            /\ Escalate(s, m)
            /\ UNCHANGED <<count, windowStart, fatal, charged, stopped>>
  /\ UNCHANGED <<now, jobs, fails>>

-----------------------------------------------------------------------------
(* Time advances when no process can run at the current instant; an act()  *)
(* may be waiting for it.                                                  *)
Runnable(a) ==
  actor[a].pend # {} \/ (actor[a].loops # {} /\ actor[a].mbox # <<>>)

Tick ==
  /\ fatal = {}
  /\ now < MaxTime
  /\ \A a \in Actors : ~Runnable(a)
  /\ now' = now + 1
  /\ UNCHANGED <<actor, count, windowStart, fatal, charged, stopped, jobs, fails>>

Next ==
  \/ StartAll
  \/ \E a \in Actors : RunFork(a)
  \/ \E w \in Workers : Deliver(w) \/ Take(w) \/ ActReturns(w)
  \/ \E w \in Workers, s \in Supers : Fail(w, s)
  \/ \E s \in Supers : Handle(s)
  \/ Tick

Spec == Init /\ [][Next]_vars

(* The simulator runs every process that can run, and act() returns.       *)
Fairness ==
  /\ \A a \in Actors : WF_vars(RunFork(a))
  /\ \A w \in Workers : WF_vars(Take(w)) /\ WF_vars(ActReturns(w))
  /\ \A s \in Supers : WF_vars(Handle(s))

FairSpec == Spec /\ Fairness

-----------------------------------------------------------------------------
(* Properties.                                                             *)

Messages == [kind : {"job", "fail"}, about : Actors, life : Nat, epoch : Nat]

(* Type invariant of the variables; mailboxes respect their capacity.      *)
TypeOK ==
  /\ actor \in [Actors -> [alive : BOOLEAN, gen : Nat, prun : Nat, mbox : Seq(Messages),
                           pend : SUBSET Nat, loops : SUBSET Nat,
                           hand : SUBSET [gen : Nat, msg : Messages]]]
  /\ \A a \in Actors : Capacity[a] > 0 => Len(actor[a].mbox) <= Capacity[a]
  /\ now \in Nat
  /\ count \in [Actors -> Nat] /\ windowStart \in [Actors -> Nat]
  /\ fatal \in SUBSET Supervised
  /\ charged \in [Actors -> Seq(Nat)]
  /\ stopped \in SUBSET Supervised
  /\ jobs \in [Workers -> Nat] /\ fails \in [Workers -> Nat]

(* The comment on drain_mbox(): a restarted child replays nothing of the   *)
(* queue that led to the failure.  What a running actor has in its mailbox *)
(* and in its hands arrived in its present life, and one loop handles it.  *)
FreshMailbox ==
  \A a \in Actors : actor[a].alive /\ actor[a].gen > 0 =>
    /\ \A i \in DOMAIN actor[a].mbox : actor[a].mbox[i].epoch = actor[a].gen
    /\ \A h \in actor[a].hand : h.msg.epoch = actor[a].gen
    /\ Cardinality(LiveLoops(actor[a])) <= 1

(* enforce_budget() counts in windows that open at a failure, not in a     *)
(* sliding window: two consecutive windows overlap an interval of length   *)
(* restart_window_ns, and the earlier one opened outside it.  So at most   *)
(* 2 * max_restarts - 1 restarts are charged to a child in any interval.   *)
RestartRateBounded ==
  \A c \in Actors : \A i, j \in DOMAIN charged[c] :
    (j - i >= 2 * MaxRestarts - 1 /\ i < j) => charged[c][j] - charged[c][i] > Window

(* $fatal ends the simulation only when max_restarts restarts of that      *)
(* child really happened within restart_window_ns of the one refused.      *)
FatalJustified ==
  \A c \in fatal : LET n == Len(charged[c]) IN
    /\ n >= MaxRestarts
    /\ MaxRestarts > 0 => now - charged[c][n - MaxRestarts + 1] <= Window

(* The comment on directive STOP: "child crashed and should stay dead".    *)
StoppedStaysDead == \A c \in stopped : ~actor[c].alive

(* A reported failure of a child that its supervisor restarts brings the   *)
(* child back in a new life with a run loop, unless the budget is spent.   *)
ReportPending(s, w, k) ==
  /\ actor[s].alive /\ actor[s].gen > 0
  /\ actor[w].gen = k
  /\ \E i \in DOMAIN actor[s].mbox :
       actor[s].mbox[i].kind = "fail" /\ actor[s].mbox[i].about = w

FailedComesBack ==
  \A s \in Supers :
  \A w \in {c \in ChildrenOf(s) : Directives[s][c] = {"RESTART"}}, k \in 1 .. MaxLife :
    ReportPending(s, w, k)
      ~> (fatal # {} \/ (actor[w].gen > k /\ actor[w].alive /\ LiveLoops(actor[w]) # {}))
=============================================================================
