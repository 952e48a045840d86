----------------------------- MODULE CoroActor ------------------------------
(***************************************************************************)
(* The coroutine framework, actor_pkg_cpp/include/coro_actor.h: an actor   *)
(* is a coroutine that waits for its mailbox, resumed by the worker        *)
(* threads of a scheduler from a shared queue of ready handles.            *)
(*                                                                         *)
(* What one thread does under a mutex, and a coroutine between two         *)
(* accesses to shared data, is one step.  The scheduler's mutex is held    *)
(* across two steps only by a worker that has tested the predicate of its  *)
(* wait and not blocked yet ("sleepy").                                    *)
(***************************************************************************)
EXTENDS Naturals, Sequences

CONSTANTS
  Actors,     (* the actors                                                *)
  Workers,    (* the scheduler's threads                                   *)
  Main,       (* the main thread                                           *)
  Subs,       (* Subs[p]: consumers of what p publishes, in order          *)
  MaxSent,    (* bound: MaxSent[p] messages published by p                 *)
  StopsAll    (* whether main calls Scheduler::stop() at the end           *)

Publishers == Actors \cup {Main}

ASSUME CoroAssumption ==
  /\ Main \notin Actors /\ Actors \cap Workers = {}
  /\ Subs \in [Publishers -> Seq(Actors)]
  /\ \A p \in Publishers : \A i, j \in DOMAIN Subs[p] : Subs[p][i] = Subs[p][j] => i = j

VARIABLES
  alive,      (* alive[a]: alive_                                          *)
  box,        (* box[a]: q_ of the mailbox                                 *)
  waiter,     (* waiter[a]: waiter_ of the mailbox holds a's handle        *)
  co,         (* co[a]: where the coroutine of a is                        *)
  hand,       (* hand[a]: the message recv() returned, none or one         *)
  ready,      (* ready_ of the scheduler: actors whose handle is queued    *)
  on,         (* running_ of the scheduler                                 *)
  wk,         (* wk[w]: where worker w is                                  *)
  cur,        (* cur[w]: the actors whose handle w took, none or one       *)
  emit,       (* emit[p]: the publish() or start() p is in the middle of   *)
  main,       (* main's progress through Scheduler::stop()                 *)
  sent,       (* sent[p]: messages published by p                          *)
  missed,     (* history: workers the notify_all() of stop() missed        *)
  called      (* history: called[a], main published to a after stopping it *)

vars == <<alive, box, waiter, co, hand, ready, on, wk, cur, emit, main, sent, missed, called>>

(* An emission: the message, the consumers left, and the next step for the *)
(* first of them: "test" alive(), "put" the message, "schedule" its        *)
(* handle, "notify" a worker.                                              *)
NoMessage == [src |-> Main, seq |-> 0]
NoEmission == [msg |-> NoMessage, rest |-> <<>>, at |-> "test"]
NextSub(e) == [e EXCEPT !.rest = Tail(@), !.at = "test"]

Init ==
  /\ alive = [a \in Actors |-> TRUE]
  /\ box = [a \in Actors |-> <<>>]
  /\ waiter = [a \in Actors |-> FALSE]
  /\ co = [a \in Actors |-> "new"]
  /\ hand = [a \in Actors |-> {}]
  /\ ready = <<>>
  /\ on = TRUE
  /\ wk = [w \in Workers |-> "test"]
  /\ cur = [w \in Workers |-> {}]
  /\ emit = [p \in Publishers |-> NoEmission]
  /\ main = "run"
  /\ sent = [p \in Publishers |-> 0]
  /\ missed = {}
  /\ called = [a \in Actors |-> FALSE]

(* Nobody is between the test and the block of a worker's wait.            *)
MutexFree == \A w \in Workers : wk[w] # "sleepy"

-----------------------------------------------------------------------------
(* Scheduler::worker_loop().                                               *)

WorkerTests(w) ==
  /\ wk[w] = "test"
  /\ wk' = [wk EXCEPT ![w] = IF on THEN "enter" ELSE "exit"]
  /\ UNCHANGED <<alive, box, waiter, co, hand, ready, on, cur, emit, main, sent, missed, called>>

WorkerPops(w) ==
  /\ wk[w] = "enter" /\ MutexFree
  /\ ready # <<>>
  /\ cur' = [cur EXCEPT ![w] = {Head(ready)}]
  /\ ready' = Tail(ready)
  /\ wk' = [wk EXCEPT ![w] = "resume"]
  /\ UNCHANGED <<alive, box, waiter, co, hand, on, emit, main, sent, missed, called>>

WorkerLeaves(w) ==
  /\ wk[w] = "enter" /\ MutexFree
  /\ ready = <<>> /\ ~on
  /\ wk' = [wk EXCEPT ![w] = "exit"]
  /\ UNCHANGED <<alive, box, waiter, co, hand, ready, on, cur, emit, main, sent, missed, called>>

WorkerWaits(w) ==
  /\ wk[w] = "enter" /\ MutexFree
  /\ ready = <<>> /\ on
  /\ wk' = [wk EXCEPT ![w] = "sleepy"]
  /\ UNCHANGED <<alive, box, waiter, co, hand, ready, on, cur, emit, main, sent, missed, called>>

WorkerBlocks(w) ==
  /\ wk[w] = "sleepy"
  /\ wk' = [wk EXCEPT ![w] = "blocked"]
  /\ UNCHANGED <<alive, box, waiter, co, hand, ready, on, cur, emit, main, sent, missed, called>>

SpuriousWakeup(w) ==
  /\ wk[w] = "blocked"
  /\ wk' = [wk EXCEPT ![w] = "enter"]
  /\ UNCHANGED <<alive, box, waiter, co, hand, ready, on, cur, emit, main, sent, missed, called>>

(* h.resume(), unless the coroutine has returned.                          *)
WorkerResumes(w, a) ==
  /\ wk[w] = "resume" /\ cur[w] = {a}
  /\ IF co[a] = "done"
     THEN /\ wk' = [wk EXCEPT ![w] = "test"]
          /\ cur' = [cur EXCEPT ![w] = {}]
          /\ UNCHANGED co
     ELSE /\ wk' = [wk EXCEPT ![w] = "run"]
          /\ co' = [co EXCEPT ![a] = IF @ = "new" THEN "loop" ELSE "wake"]
          /\ UNCHANGED cur
  /\ UNCHANGED <<alive, box, waiter, hand, ready, on, emit, main, sent, missed, called>>

-----------------------------------------------------------------------------
(* The coroutine of a, on worker w: while (alive()) { co_await recv(); ... } *)

On(w, a) == wk[w] = "run" /\ cur[w] = {a}

(* resume() returns and the worker is done with the handle.                *)
Yield_KeepsHandle(w) == wk' = [wk EXCEPT ![w] = "test"] /\ UNCHANGED cur
Yield(w) ==
  /\ wk' = [wk EXCEPT ![w] = "test"]
  /\ cur' = [cur EXCEPT ![w] = {}]

LoopTest(w, a) ==
  /\ On(w, a) /\ co[a] = "loop"
  /\ \/ /\ alive[a]
        /\ co' = [co EXCEPT ![a] = "ready"]
        /\ UNCHANGED <<wk, cur>>
     \/ /\ ~alive[a]
        /\ co' = [co EXCEPT ![a] = "done"]
        /\ Yield(w)
  /\ UNCHANGED <<alive, box, waiter, hand, ready, on, emit, main, sent, missed, called>>

Receive_Newest(a) ==
  LET n == Len(box[a]) IN
    /\ hand' = [hand EXCEPT ![a] = {box[a][n]}]
    /\ box' = [box EXCEPT ![a] = SubSeq(@, 1, n - 1)]
    /\ co' = [co EXCEPT ![a] = "body"]
Receive(a) ==
  /\ hand' = [hand EXCEPT ![a] = {Head(box[a])}]
  /\ box' = [box EXCEPT ![a] = Tail(@)]
  /\ co' = [co EXCEPT ![a] = "body"]

AwaitReady(w, a) ==
  /\ On(w, a) /\ co[a] = "ready"
  /\ \/ box[a] # <<>> /\ Receive(a)
     \/ /\ box[a] = <<>>
        /\ co' = [co EXCEPT ![a] = "suspend"]
        /\ UNCHANGED <<box, hand>>
  /\ UNCHANGED <<alive, waiter, ready, on, wk, cur, emit, main, sent, missed, called>>

(* await_suspend() looks again before it leaves the handle in waiter_.     *)
AwaitSuspend_NoRecheck(w, a) ==
  /\ On(w, a) /\ co[a] = "suspend"
  /\ waiter' = [waiter EXCEPT ![a] = TRUE]
  /\ co' = [co EXCEPT ![a] = "waiting"]
  /\ Yield(w)
  /\ UNCHANGED <<box, hand, alive, ready, on, emit, main, sent, missed, called>>
AwaitSuspend(w, a) ==
  /\ On(w, a) /\ co[a] = "suspend"
  /\ \/ /\ box[a] # <<>>
        /\ Receive(a)
        /\ UNCHANGED <<waiter, wk, cur>>
     \/ /\ box[a] = <<>>
        /\ waiter' = [waiter EXCEPT ![a] = TRUE]
        /\ co' = [co EXCEPT ![a] = "waiting"]
        /\ Yield(w)
        /\ UNCHANGED <<box, hand>>
  /\ UNCHANGED <<alive, ready, on, emit, main, sent, missed, called>>

(* await_resume() after a suspension takes the front without looking.      *)
AwaitResume(w, a) ==
  /\ On(w, a) /\ co[a] = "wake"
  /\ box[a] # <<>>
  /\ Receive(a)
  /\ UNCHANGED <<alive, waiter, ready, on, wk, cur, emit, main, sent, missed, called>>

BodyEnds(w, a) ==
  /\ On(w, a) /\ co[a] = "body" /\ emit[a].rest = <<>>
  /\ hand' = [hand EXCEPT ![a] = {}]
  /\ co' = [co EXCEPT ![a] = "loop"]
  /\ UNCHANGED <<alive, box, waiter, ready, on, wk, cur, emit, main, sent, missed, called>>

-----------------------------------------------------------------------------
(* publish_msg(), Mailbox::put() and Scheduler::schedule().                *)

MayPublish(p) == IF p = Main THEN main = "run" ELSE co[p] = "body"

Publish(p) ==
  /\ MayPublish(p) /\ emit[p].rest = <<>>
  /\ sent[p] < MaxSent[p]
  /\ sent' = [sent EXCEPT ![p] = @ + 1]
  /\ emit' = [emit EXCEPT ![p] =
                [msg |-> [src |-> p, seq |-> sent[p] + 1], rest |-> Subs[p], at |-> "test"]]
  /\ called' = [a \in Actors |->
                  called[a] \/ (p = Main /\ ~alive[a] /\ \E i \in DOMAIN Subs[p] : Subs[p][i] = a)]
  /\ UNCHANGED <<alive, box, waiter, co, hand, ready, on, wk, cur, main, missed>>

TestSubscriber(p) ==
  /\ emit[p].rest # <<>> /\ emit[p].at = "test"
  /\ emit' = [emit EXCEPT ![p] = IF alive[Head(emit[p].rest)]
                                 THEN [emit[p] EXCEPT !.at = "put"]
                                 ELSE NextSub(emit[p])]
  /\ UNCHANGED <<alive, box, waiter, co, hand, ready, on, wk, cur, main, sent, missed, called>>

(* The message is queued and the waiting handle, if any, taken.            *)
Put_KeepsWaiter(p) ==
  /\ emit[p].at = "put"
  /\ LET c == Head(emit[p].rest) IN
       /\ box' = [box EXCEPT ![c] = Append(@, emit[p].msg)]
       /\ emit' = [emit EXCEPT ![p] = IF waiter[c] THEN [emit[p] EXCEPT !.at = "schedule"]
                                                  ELSE NextSub(emit[p])]
  /\ UNCHANGED <<waiter, alive, co, hand, ready, on, wk, cur, main, sent, missed, called>>
Put(p) ==
  /\ emit[p].at = "put"
  /\ LET c == Head(emit[p].rest) IN
       /\ box' = [box EXCEPT ![c] = Append(@, emit[p].msg)]
       /\ waiter' = [waiter EXCEPT ![c] = FALSE]
       /\ emit' = [emit EXCEPT ![p] = IF waiter[c] THEN [emit[p] EXCEPT !.at = "schedule"]
                                                  ELSE NextSub(emit[p])]
  /\ UNCHANGED <<alive, co, hand, ready, on, wk, cur, main, sent, missed, called>>

Schedule(p) ==
  /\ emit[p].at = "schedule" /\ MutexFree
  /\ ready' = Append(ready, Head(emit[p].rest))
  /\ emit' = [emit EXCEPT ![p].at = "notify"]
  /\ UNCHANGED <<alive, box, waiter, co, hand, on, wk, cur, main, sent, missed, called>>

(* notify_one(), after the mutex is released.                              *)
WakeOne_Nobody == UNCHANGED wk
WakeOne ==
  IF \E w \in Workers : wk[w] = "blocked"
  THEN \E w \in Workers : wk[w] = "blocked" /\ wk' = [wk EXCEPT ![w] = "enter"]
  ELSE UNCHANGED wk

Notify(p) ==
  /\ emit[p].at = "notify"
  /\ WakeOne
  /\ emit' = [emit EXCEPT ![p] = NextSub(@)]
  /\ UNCHANGED <<alive, box, waiter, co, hand, ready, on, cur, main, sent, missed, called>>

-----------------------------------------------------------------------------
(* The main thread.                                                        *)

MainFree == main = "run" /\ emit[Main].rest = <<>>

(* start(): the coroutine is created suspended and its handle scheduled.   *)
Start(a) ==
  /\ MainFree
  /\ co[a] = "new"
  /\ \A i \in DOMAIN ready : ready[i] # a
  /\ \A w \in Workers : a \notin cur[w]
  /\ emit' = [emit EXCEPT ![Main] = [msg |-> NoMessage, rest |-> <<a>>, at |-> "schedule"]]
  /\ UNCHANGED <<alive, box, waiter, co, hand, ready, on, wk, cur, main, sent, missed, called>>

Stop(a) ==
  /\ MainFree
  /\ alive[a]
  /\ alive' = [alive EXCEPT ![a] = FALSE]
  /\ UNCHANGED <<box, waiter, co, hand, ready, on, wk, cur, emit, main, sent, missed, called>>

(* Scheduler::stop(): running_, then notify_all() without the mutex, then  *)
(* join() of every worker.                                                 *)
StopBegins ==
  /\ MainFree /\ StopsAll
  /\ on' = FALSE
  /\ main' = "notify"
  /\ UNCHANGED <<alive, box, waiter, co, hand, ready, wk, cur, emit, sent, missed, called>>

StopNotifies_One ==
  /\ main = "notify"
  /\ WakeOne
  /\ missed' = {w \in Workers : wk[w] = "sleepy"}
  /\ main' = "join"
  /\ UNCHANGED <<alive, box, waiter, co, hand, ready, on, cur, emit, sent, called>>
StopNotifies ==
  /\ main = "notify"
  /\ wk' = [w \in Workers |-> IF wk[w] = "blocked" THEN "enter" ELSE wk[w]]
  /\ missed' = {w \in Workers : wk[w] = "sleepy"}
  /\ main' = "join"
  /\ UNCHANGED <<alive, box, waiter, co, hand, ready, on, cur, emit, sent, called>>

Joined ==
  /\ main = "join"
  /\ \A w \in Workers : wk[w] = "exit"
  /\ main' = "off"
  /\ UNCHANGED <<alive, box, waiter, co, hand, ready, on, wk, cur, emit, sent, missed, called>>

-----------------------------------------------------------------------------
InMutex(w) == WorkerPops(w) \/ WorkerLeaves(w) \/ WorkerWaits(w)

Coroutine(w, a) ==
  \/ WorkerResumes(w, a) \/ LoopTest(w, a) \/ AwaitReady(w, a) \/ AwaitSuspend(w, a)
  \/ AwaitResume(w, a) \/ BodyEnds(w, a)

(* What w does outside the mutex, and p once it has begun to publish.      *)
Works(w) == WorkerTests(w) \/ WorkerBlocks(w) \/ \E a \in Actors : Coroutine(w, a)
Emits(p) == TestSubscriber(p) \/ Put(p) \/ Notify(p)

Next ==
  \/ \E w \in Workers : Works(w) \/ InMutex(w) \/ SpuriousWakeup(w)
  \/ \E p \in Publishers : Publish(p) \/ Emits(p) \/ Schedule(p)
  \/ \E a \in Actors : Start(a) \/ Stop(a)
  \/ StopBegins \/ StopNotifies \/ Joined

Spec == Init /\ [][Next]_vars

(* Every thread that can run does, and a mutex that keeps being released   *)
(* is obtained in the end.                                                 *)
Fairness ==
  /\ \A w \in Workers : WF_vars(Works(w)) /\ SF_vars(InMutex(w))
  /\ \A p \in Publishers : WF_vars(Emits(p)) /\ SF_vars(Schedule(p))

FairSpec == Spec /\ Fairness

-----------------------------------------------------------------------------
(* Properties.                                                             *)

Msg == [src : Publishers, seq : Nat]

(* Type invariant of the variables.                                        *)
TypeOK ==
  /\ alive \in [Actors -> BOOLEAN] /\ waiter \in [Actors -> BOOLEAN]
  /\ box \in [Actors -> Seq(Msg)]
  /\ co \in [Actors -> {"new", "loop", "ready", "suspend", "waiting", "wake", "body", "done"}]
  /\ hand \in [Actors -> SUBSET Msg]
  /\ ready \in Seq(Actors) /\ on \in BOOLEAN
  /\ wk \in [Workers -> {"test", "enter", "sleepy", "blocked", "resume", "run", "exit"}]
  /\ cur \in [Workers -> SUBSET Actors]
  /\ \A w \in Workers : wk[w] \in {"resume", "run"} <=> cur[w] # {}
  /\ emit \in [Publishers -> [msg : Msg, rest : Seq(Actors),
                              at : {"test", "put", "schedule", "notify"}]]
  /\ main \in {"run", "notify", "join", "off"}
  /\ sent \in [Publishers -> Nat]
  /\ missed \in SUBSET Workers /\ called \in [Actors -> BOOLEAN]

(* The places that hold a's handle: its mailbox, calls about to schedule   *)
(* it, the ready queue, a worker.                                          *)
Holders(a) ==
  (IF waiter[a] THEN {<<"waiter", a>>} ELSE {})
    \cup {<<"call", p>> : p \in {q \in Publishers : emit[q].rest # <<>> /\ emit[q].at = "schedule"
                                                    /\ Head(emit[q].rest) = a}}
    \cup {<<"ready", i>> : i \in {j \in DOMAIN ready : ready[j] = a}}
    \cup {<<"worker", w>> : w \in {v \in Workers : a \in cur[v]}}

(* A suspended coroutine's handle is in one place, never in two: nobody    *)
(* resumes a coroutine that is running, and none is forgotten.             *)
HandleInOnePlace ==
  \A a \in Actors :
    /\ \A x, y \in Holders(a) : x = y
    /\ co[a] \notin {"new", "done"} => Holders(a) # {}

(* A coroutine waits in its mailbox only while the mailbox is empty, and   *)
(* await_resume() finds the message it takes unseen.                       *)
WakesToMessage ==
  \A a \in Actors :
    /\ waiter[a] => box[a] = <<>>
    /\ co[a] = "wake" \/ (co[a] = "waiting" /\ ~waiter[a]) => box[a] # <<>>

(* The contract of ActorContract; the mailbox is unbounded.                *)
Contract == INSTANCE ActorContract WITH
  Capacity <- [a \in Actors |-> 0], open <- alive, box <- box, hand <- hand

KeepsContract == Contract!Spec

(* A message in the mailbox of a started actor is received, unless the     *)
(* actor or the scheduler is stopped.                                      *)
MailHandled ==
  \A a \in Actors :
    (box[a] # <<>> /\ co[a] # "new") ~> (box[a] = <<>> \/ ~alive[a] \/ ~on)

(* The worker threads that Scheduler::stop() does not catch between the    *)
(* test and the block of their wait end.                                   *)
StopEndsWorkers ==
  \A w \in Workers : (main = "join" /\ w \notin missed) ~> wk[w] = "exit"

(* The examples' "Wake the actors so they can co_return on the alive flag  *)
(* flip": an actor that main stopped and then published to returns.        *)
StoppedActorReturns ==
  \A a \in Actors : (called[a] /\ co[a] # "new") ~> co[a] = "done"
=============================================================================
