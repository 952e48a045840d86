---------------------------- MODULE ThreadActor -----------------------------
(***************************************************************************)
(* The C++ framework, actor_pkg_cpp/include/actor.h: every actor is a      *)
(* thread that takes messages from a mailbox (mutex, condition variable,   *)
(* running_ flag), handlers publish to the wired actors, and the main      *)
(* thread starts, stops and destroys them.                                 *)
(*                                                                         *)
(* The mutex of a mailbox is held across two steps only by its own thread, *)
(* from the test of the wait's predicate to the moment it blocks (pc is    *)
(* "sleepy"); try_put() is one step that needs it free.  stop() takes no   *)
(* mutex at all.                                                           *)
(*                                                                         *)
(* Main destroys the actors in the reverse of the order in which it        *)
(* declared them, consumers first, while handlers may still be under way:  *)
(* a publish to an actor that is gone is undefined behaviour.  It may read *)
(* either value of is_alive_ and put or not; a crash ends the behaviour.   *)
(***************************************************************************)
EXTENDS Naturals, Sequences

CONSTANTS
  Actors,     (* the actors                                                *)
  Main,       (* the main thread                                           *)
  Subs,       (* Subs[t]: consumers of what thread t publishes, in order   *)
  Capacity,   (* Capacity[a]: mbox_capacity                                *)
  Declared,   (* the actors in the order in which main declares them       *)
  MaxSent,    (* bound: MaxSent[t] messages published by thread t          *)
  MaxStops    (* bound: stop() calls on one actor besides the destructor's *)

Threads == Actors \cup {Main}

ASSUME ThreadAssumption ==
  /\ Main \notin Actors
  /\ Subs \in [Threads -> Seq(Actors)]
  /\ \A t \in Threads : \A i, j \in DOMAIN Subs[t] : Subs[t][i] = Subs[t][j] => i = j
  /\ Capacity \in [Actors -> Nat \ {0}]
  /\ Declared \in Seq(Actors)
  /\ MaxStops \in Nat

VARIABLES
  alive,      (* alive[a]: is_alive_                                       *)
  running,    (* running[a]: running_ of the mailbox                       *)
  queue,      (* queue[a]: queue_ of the mailbox                           *)
  pc,         (* pc[a]: where the thread of a is                           *)
  hand,       (* hand[a]: the message get() returned, none or one          *)
  object,     (* object[a]: "whole", "base" once the destructor of the     *)
              (* derived class has run, "gone" once the base's has         *)
  emit,       (* emit[t]: the publish t is in the middle of                *)
  main,       (* main: the stop() or destructor main is in the middle of   *)
  sent,       (* sent[t]: messages published by t                          *)
  stops,      (* stops[a]: stop() calls on a                               *)
  woken,      (* history: a notify_all() of stop() missed no wait          *)
  taken       (* history: taken[c][t], the last of t's messages c took     *)

vars == <<alive, running, queue, pc, hand, object, emit, main, sent, stops, woken, taken>>

Idle == [at |-> "idle", who |-> Main]

(* A publish under way: the message, the consumers still to serve, and     *)
(* whether the first of them has been found alive.                         *)
NoEmission == [msg |-> [src |-> Main, seq |-> 0], rest |-> <<>>, found |-> FALSE]

Init ==
  /\ alive = [a \in Actors |-> TRUE]
  /\ running = [a \in Actors |-> TRUE]
  /\ queue = [a \in Actors |-> <<>>]
  /\ pc = [a \in Actors |-> "new"]
  /\ hand = [a \in Actors |-> {}]
  /\ object = [a \in Actors |-> "whole"]
  /\ emit = [t \in Threads |-> NoEmission]
  /\ main = Idle
  /\ sent = [t \in Threads |-> 0]
  /\ stops = [a \in Actors |-> 0]
  /\ woken = [a \in Actors |-> FALSE]
  /\ taken = [a \in Actors |-> [t \in Threads |-> 0]]

Locked_Never(a) == FALSE
Locked(a) == pc[a] = "sleepy"

Goto(a, l) == pc' = [pc EXCEPT ![a] = l]

-----------------------------------------------------------------------------
(* run_loop() and Mailbox::get().                                          *)

TestAlive(a) ==
  /\ pc[a] = "test"
  /\ Goto(a, IF alive[a] THEN "enter" ELSE "done")
  /\ UNCHANGED <<alive, running, queue, hand, object, emit, main, sent, stops, woken, taken>>

(* The mutex is taken and the predicate of the wait holds.                 *)
GetMessage_TakesNewest(a) ==
  /\ pc[a] = "enter"
  /\ queue[a] # <<>>
  /\ LET n == Len(queue[a]) IN
       /\ hand' = [hand EXCEPT ![a] = {queue[a][n]}]
       /\ taken' = [taken EXCEPT ![a][queue[a][n].src] = queue[a][n].seq]
       /\ queue' = [queue EXCEPT ![a] = SubSeq(@, 1, n - 1)]
  /\ Goto(a, "got")
  /\ UNCHANGED <<alive, running, object, emit, main, sent, stops, woken>>
GetMessage_NoPop(a) ==
  /\ pc[a] = "enter"
  /\ queue[a] # <<>>
  /\ hand' = [hand EXCEPT ![a] = {Head(queue[a])}]
  /\ taken' = [taken EXCEPT ![a][Head(queue[a]).src] = Head(queue[a]).seq]
  /\ Goto(a, "got")
  /\ UNCHANGED <<queue, alive, running, object, emit, main, sent, stops, woken>>
GetMessage(a) ==
  /\ pc[a] = "enter"
  /\ queue[a] # <<>>
  /\ LET m == Head(queue[a]) IN
       /\ hand' = [hand EXCEPT ![a] = {m}]
       /\ taken' = [taken EXCEPT ![a][m.src] = m.seq]
  /\ queue' = [queue EXCEPT ![a] = Tail(@)]
  /\ Goto(a, "got")
  /\ UNCHANGED <<alive, running, object, emit, main, sent, stops, woken>>

GetReturnsFalse_OnAnyWakeup(a) ==
  /\ pc[a] = "enter"
  /\ queue[a] = <<>>
  /\ Goto(a, "done")
  /\ UNCHANGED <<alive, running, queue, hand, object, emit, main, sent, stops, woken, taken>>
GetReturnsFalse(a) ==
  /\ pc[a] = "enter"
  /\ queue[a] = <<>> /\ ~running[a]
  /\ Goto(a, "done")
  /\ UNCHANGED <<alive, running, queue, hand, object, emit, main, sent, stops, woken, taken>>

(* The predicate fails; the thread is about to block, holding the mutex.   *)
WaitTested(a) ==
  /\ pc[a] = "enter"
  /\ queue[a] = <<>> /\ running[a]
  /\ Goto(a, "sleepy")
  /\ UNCHANGED <<alive, running, queue, hand, object, emit, main, sent, stops, woken, taken>>

(* The mutex is released and the thread blocks, in one step.               *)
WaitBlocks(a) ==
  /\ pc[a] = "sleepy"
  /\ Goto(a, "blocked")
  /\ UNCHANGED <<alive, running, queue, hand, object, emit, main, sent, stops, woken, taken>>

(* A condition variable may wake a thread for no reason.                   *)
SpuriousWakeup(a) ==
  /\ pc[a] = "blocked"
  /\ Goto(a, "enter")
  /\ UNCHANGED <<alive, running, queue, hand, object, emit, main, sent, stops, woken, taken>>

(* The second test of is_alive_, before act(): the message is dropped when *)
(* the actor was stopped meanwhile.                                        *)
TestAgain_NoTest(a) ==
  /\ pc[a] = "got"
  /\ Goto(a, "act")
  /\ UNCHANGED <<alive, running, queue, hand, object, emit, main, sent, stops, woken, taken>>
TestAgain(a) ==
  /\ pc[a] = "got"
  /\ Goto(a, IF alive[a] THEN "act" ELSE "done")
  /\ hand' = [hand EXCEPT ![a] = IF alive[a] THEN @ ELSE {}]
  /\ UNCHANGED <<alive, running, queue, object, emit, main, sent, stops, woken, taken>>

ActReturns(a) ==
  /\ pc[a] = "act" /\ emit[a].rest = <<>>
  /\ hand' = [hand EXCEPT ![a] = {}]
  /\ Goto(a, "test")
  /\ UNCHANGED <<alive, running, queue, object, emit, main, sent, stops, woken, taken>>

-----------------------------------------------------------------------------
(* publish(), from act() or from the main thread.                          *)

MayPublish(t) ==
  IF t = Main
  THEN main = Idle /\ \A a \in Actors : object[a] = "whole"
  ELSE pc[t] = "act"

Publish(t) ==
  /\ MayPublish(t)
  /\ emit[t].rest = <<>>
  /\ sent[t] < MaxSent[t]
  /\ sent' = [sent EXCEPT ![t] = @ + 1]
  /\ emit' = [emit EXCEPT ![t] =
                [msg |-> [src |-> t, seq |-> sent[t] + 1], rest |-> Subs[t], found |-> FALSE]]
  /\ UNCHANGED <<alive, running, queue, pc, hand, object, main, stops, woken, taken>>

(* The loop over the subscribers: is_alive_ is read (that of an actor that *)
(* is gone has any value),                                                 *)
Readings(c) == IF object[c] = "gone" THEN BOOLEAN ELSE {alive[c]}

TestSubscriber(t) ==
  /\ emit[t].rest # <<>> /\ ~emit[t].found
  /\ \E found \in Readings(Head(emit[t].rest)) :
       emit' = [emit EXCEPT ![t] = IF found
                                   THEN [emit[t] EXCEPT !.found = TRUE]
                                   ELSE [emit[t] EXCEPT !.rest = Tail(emit[t].rest)]]
  /\ UNCHANGED <<alive, running, queue, pc, hand, object, main, sent, stops, woken, taken>>

(* and then, later, the message is put: one of the waiting threads (there  *)
(* is one at most) is notified.                                            *)
Room_OffByOne(c) == Len(queue[c]) <= Capacity[c]
Room(c) == Len(queue[c]) < Capacity[c]

PutAt_NoNotify(t, c) ==
  \/ /\ Room(c)
     /\ queue' = [queue EXCEPT ![c] = Append(@, emit[t].msg)]
     /\ UNCHANGED pc
  \/ /\ ~Room(c) \/ object[c] = "gone"
     /\ UNCHANGED <<queue, pc>>
PutAt(t, c) ==
  \/ /\ Room(c)
     /\ queue' = [queue EXCEPT ![c] = Append(@, emit[t].msg)]
     /\ pc' = [pc EXCEPT ![c] = IF @ = "blocked" THEN "enter" ELSE @]
  \/ /\ ~Room(c) \/ object[c] = "gone"
     /\ UNCHANGED <<queue, pc>>

TryPut(t) ==
  /\ emit[t].found
  /\ LET c == Head(emit[t].rest) IN ~Locked(c) /\ PutAt(t, c)
  /\ emit' = [emit EXCEPT ![t] =
                [emit[t] EXCEPT !.rest = Tail(emit[t].rest), !.found = FALSE]]
  /\ UNCHANGED <<alive, running, hand, object, main, sent, stops, woken, taken>>

-----------------------------------------------------------------------------
(* The main thread.                                                        *)

MainFree == main = Idle /\ emit[Main].rest = <<>>

(* start() of a joinable thread does nothing; the programs here start an   *)
(* actor before they stop it, and all of them before main() returns.       *)
Start(a) ==
  /\ MainFree
  /\ pc[a] = "new" /\ stops[a] = 0
  /\ \A b \in Actors : object[b] = "whole"
  /\ alive' = [alive EXCEPT ![a] = TRUE]
  /\ Goto(a, "test")
  /\ UNCHANGED <<running, queue, hand, object, emit, main, sent, stops, woken, taken>>

(* stop(): is_alive_, then running_, then notify_all(), then               *)
(* on_terminate().                                                         *)
StopBegins(a) ==
  /\ MainFree
  /\ object[a] = "whole"
  /\ stops[a] < MaxStops
  /\ stops' = [stops EXCEPT ![a] = @ + 1]
  /\ alive' = [alive EXCEPT ![a] = FALSE]
  /\ main' = [at |-> "flag", who |-> a]
  /\ UNCHANGED <<running, queue, pc, hand, object, emit, sent, woken, taken>>

StopClears ==
  /\ main.at = "flag"
  /\ running' = [running EXCEPT ![main.who] = FALSE]
  /\ main' = [main EXCEPT !.at = "notify"]
  /\ UNCHANGED <<alive, queue, pc, hand, object, emit, sent, stops, woken, taken>>

(* No mutex is held: a thread between the test and the block is missed.    *)
WakeAll_NoOne(a) == UNCHANGED pc
WakeAll(a) == pc' = [pc EXCEPT ![a] = IF @ = "blocked" THEN "enter" ELSE @]

StopNotifies ==
  /\ main.at = "notify"
  /\ WakeAll(main.who)
  /\ woken' = [woken EXCEPT ![main.who] = @ \/ pc[main.who] # "sleepy"]
  /\ main' = [main EXCEPT !.at = IF object[main.who] = "whole" THEN "terminate" ELSE "join"]
  /\ UNCHANGED <<alive, running, queue, hand, object, emit, sent, stops, taken>>

OnTerminateReturns ==
  /\ main.at = "terminate"
  /\ main' = Idle
  /\ UNCHANGED <<alive, running, queue, pc, hand, object, emit, sent, stops, woken, taken>>

(* main() returns: it has stopped every actor it started, and its locals   *)
(* go in the reverse of the order of their declarations.                   *)
Leaving(a) ==
  /\ \A b \in Actors : pc[b] = "new" \/ ~alive[b]
  /\ \A i, j \in DOMAIN Declared :
       (Declared[i] = a /\ i < j) => object[Declared[j]] = "gone"

(* The destructor of the derived class, then ~Actor(): stop() (whose       *)
(* on_terminate() is now the base's, which does nothing), then join().     *)
Destroy(a) ==
  /\ MainFree
  /\ object[a] = "whole"
  /\ Leaving(a)
  /\ object' = [object EXCEPT ![a] = "base"]
  /\ main' = [at |-> "alive", who |-> a]
  /\ UNCHANGED <<alive, running, queue, pc, hand, emit, sent, stops, woken, taken>>

DestructorStops ==
  /\ main.at = "alive"
  /\ alive' = [alive EXCEPT ![main.who] = FALSE]
  /\ main' = [main EXCEPT !.at = "flag"]
  /\ UNCHANGED <<running, queue, pc, hand, object, emit, sent, stops, woken, taken>>

Join ==
  /\ main.at = "join"
  /\ pc[main.who] \in {"new", "done"}
  /\ object' = [object EXCEPT ![main.who] = "gone"]
  /\ main' = Idle
  /\ UNCHANGED <<alive, running, queue, pc, hand, emit, sent, stops, woken, taken>>

-----------------------------------------------------------------------------
Loop(a) ==
  \/ TestAlive(a) \/ GetMessage(a) \/ GetReturnsFalse(a) \/ WaitTested(a)
  \/ WaitBlocks(a) \/ TestAgain(a) \/ ActReturns(a)

Next ==
  \/ \E a \in Actors : Loop(a) \/ SpuriousWakeup(a)
  \/ \E t \in Threads : Publish(t) \/ TestSubscriber(t) \/ TryPut(t)
  \/ \E a \in Actors : Start(a) \/ StopBegins(a) \/ Destroy(a)
  \/ DestructorStops \/ StopClears \/ StopNotifies \/ OnTerminateReturns \/ Join

Spec == Init /\ [][Next]_vars

(* The operating system runs every thread that can run, a mutex that keeps *)
(* being released is obtained in the end (a spuriously woken thread takes  *)
(* and releases it again and again), handlers return, and main finishes    *)
(* the calls it makes.  No wakeup has to be spurious.                      *)
Fairness ==
  /\ \A a \in Actors : WF_vars(Loop(a))
  /\ \A t \in Threads : WF_vars(TestSubscriber(t)) /\ SF_vars(TryPut(t))
  /\ WF_vars(DestructorStops \/ StopClears \/ StopNotifies \/ OnTerminateReturns \/ Join)

FairSpec == Spec /\ Fairness

-----------------------------------------------------------------------------
(* Properties.                                                             *)

Msg == [src : Threads, seq : Nat]

(* Type invariant of the variables; mailboxes respect their capacity.      *)
TypeOK ==
  /\ alive \in [Actors -> BOOLEAN] /\ running \in [Actors -> BOOLEAN]
  /\ queue \in [Actors -> Seq(Msg)]
  /\ \A a \in Actors : Len(queue[a]) <= Capacity[a]
  /\ pc \in [Actors -> {"new", "test", "enter", "sleepy", "blocked", "got", "act", "done"}]
  /\ hand \in [Actors -> SUBSET Msg]
  /\ object \in [Actors -> {"whole", "base", "gone"}]
  /\ emit \in [Threads -> [msg : Msg, rest : Seq(Actors), found : BOOLEAN]]
  /\ main \in [at : {"idle", "alive", "flag", "notify", "terminate", "join"}, who : Threads]
  /\ sent \in [Threads -> Nat] /\ stops \in [Actors -> Nat]
  /\ woken \in [Actors -> BOOLEAN]
  /\ taken \in [Actors -> [Threads -> Nat]]

(* No message is lost to the wait of get(): while the thread is about to   *)
(* block, or blocked with nobody having notified it, the mailbox is empty. *)
WaiterSeesNothing ==
  \A a \in Actors : pc[a] \in {"sleepy", "blocked"} => queue[a] = <<>>

(* The thread ends only for a stop(): an actor that is alive keeps its     *)
(* thread, and the message get() returned is dropped only by a stopped one.*)
EndsOnlyWhenStopped == \A a \in Actors : pc[a] = "done" => ~alive[a]

(* Once main destroys actors no thread passes the second test of is_alive_ *)
(* (run_loop(), before act()), although stop() waits for nobody: only a    *)
(* handler that passed it before its actor was stopped can still run       *)
(* beside a destructor, or publish to a consumer that is gone.             *)
NoLateHandler ==
  [][\A a \in Actors :
       (\E c \in Actors : object[c] # "whole") => ~(pc[a] # "act" /\ pc'[a] = "act")]_vars

(* The contract of ActorContract.                                          *)
Contract == INSTANCE ActorContract WITH open <- alive, box <- queue, hand <- hand

KeepsContract == Contract!Spec

(* One thread's messages are taken in the order it published them.         *)
InOrder ==
  \A c \in Actors :
    /\ \A i \in DOMAIN queue[c] : taken[c][queue[c][i].src] < queue[c][i].seq
    /\ \A i, j \in DOMAIN queue[c] :
         (i < j /\ queue[c][i].src = queue[c][j].src) => queue[c][i].seq < queue[c][j].seq

(* A message in the mailbox of a started actor is taken unless the actor   *)
(* is stopped.                                                             *)
MailHandled ==
  \A a \in Actors : (queue[a] # <<>> /\ pc[a] # "new") ~> (queue[a] = <<>> \/ ~alive[a])

(* A stop() whose notify_all() does not fall between the test and the      *)
(* block ends the thread.                                                  *)
StopEndsThread == \A a \in Actors : woken[a] ~> pc[a] \in {"new", "done"}

(* The example's "Stop the actors cleanly": the destructor of an actor     *)
(* that was stopped returns.                                               *)
DestructorReturns ==
  \A a \in Actors : (object[a] = "base" /\ stops[a] > 0) ~> object[a] = "gone"
=============================================================================
