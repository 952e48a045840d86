------------------------- MODULE ThreadActorProofs --------------------------
(***************************************************************************)
(* Proofs about ThreadActor, for any actors, wiring and capacities.        *)
(*                                                                         *)
(* WaiterSeesNothing is inductive because the mutex is held from the test  *)
(* to the block (try_put needs it free) and because a put into the mailbox *)
(* of a blocked thread notifies it.  EndsOnlyWhenStopped needs to know     *)
(* that running_ is cleared only after is_alive_ (FlagInv), NoLateHandler  *)
(* that the first destructor finds every started actor stopped and that    *)
(* nothing makes one alive again (ObjectInv).                              *)
(***************************************************************************)
EXTENDS ThreadActor, TLAPS

FlagInv ==
  /\ main.at # "idle" => main.who \in Actors /\ object[main.who] # "gone"
  /\ main.at \in {"alive", "join"} => object[main.who] = "base"
  /\ main.at \in {"flag", "notify", "terminate", "join"} => ~alive[main.who]
  /\ \A a \in Actors :
       /\ ~running[a] => ~alive[a]
       /\ stops[a] = 0 /\ object[a] = "whole" => alive[a]
       /\ object[a] = "base" /\ alive[a] => main.at = "alive" /\ main.who = a

HandInv ==
  \A a \in Actors :
    /\ pc[a] \notin {"got", "act"} => hand[a] = {}
    /\ emit[a].rest # <<>> => pc[a] = "act"

ObjectInv ==
  /\ (\E c \in Actors : object[c] # "whole") => \A a \in Actors : pc[a] = "new" \/ ~alive[a]
  /\ \A t \in Threads : emit[t].found => emit[t].rest # <<>>

-----------------------------------------------------------------------------
(* Types.                                                                  *)

LEMMA SeqFacts ==
  ASSUME NEW S, NEW s \in Seq(S), s # <<>>
  PROVE  /\ Head(s) \in S /\ Tail(s) \in Seq(S)
         /\ Len(s) \in Nat /\ Len(s) > 0 /\ Len(Tail(s)) = Len(s) - 1
         /\ \A i \in DOMAIN Tail(s) : i + 1 \in DOMAIN s /\ Tail(s)[i] = s[i + 1]
OBVIOUS

LEMMA TypeInit == Init => TypeOK
BY ThreadAssumption DEF Init, TypeOK, Idle, NoEmission, Msg, Threads

LEMMA TypeNext == TypeOK /\ FlagInv /\ ObjectInv /\ [Next]_vars => TypeOK'
<1> SUFFICES ASSUME TypeOK, FlagInv, ObjectInv, [Next]_vars PROVE TypeOK'
  OBVIOUS
<1> USE ThreadAssumption
<1>1. ASSUME NEW a \in Actors, TestAlive(a) PROVE TypeOK'
  BY <1>1 DEF TestAlive, Goto, TypeOK
<1>2. ASSUME NEW a \in Actors, GetMessage(a) PROVE TypeOK'
  <2>1. /\ Head(queue[a]) \in Msg /\ Tail(queue[a]) \in Seq(Msg)
        /\ Len(queue[a]) \in Nat /\ Len(Tail(queue[a])) = Len(queue[a]) - 1
    BY <1>2, SeqFacts DEF GetMessage, TypeOK
  <2>2. Head(queue[a]).src \in Threads /\ Head(queue[a]).seq \in Nat
    BY <2>1 DEF Msg
  <2>3. queue' \in [Actors -> Seq(Msg)] /\ \A b \in Actors : Len(queue'[b]) <= Capacity[b]
    BY <1>2, <2>1 DEF GetMessage, TypeOK
  <2>4. taken' \in [Actors -> [Threads -> Nat]]
    BY <1>2, <2>2 DEF GetMessage, TypeOK
  <2>5. hand' \in [Actors -> SUBSET Msg]
    BY <1>2, <2>1 DEF GetMessage, TypeOK
  <2> QED
    BY <1>2, <2>3, <2>4, <2>5 DEF GetMessage, Goto, TypeOK
<1>3. ASSUME NEW a \in Actors, GetReturnsFalse(a) PROVE TypeOK'
  BY <1>3 DEF GetReturnsFalse, Goto, TypeOK
<1>4. ASSUME NEW a \in Actors, WaitTested(a) PROVE TypeOK'
  BY <1>4 DEF WaitTested, Goto, TypeOK
<1>5. ASSUME NEW a \in Actors, WaitBlocks(a) PROVE TypeOK'
  BY <1>5 DEF WaitBlocks, Goto, TypeOK
<1>6. ASSUME NEW a \in Actors, SpuriousWakeup(a) PROVE TypeOK'
  BY <1>6 DEF SpuriousWakeup, Goto, TypeOK
<1>7. ASSUME NEW a \in Actors, TestAgain(a) PROVE TypeOK'
  <2>1. hand' \in [Actors -> SUBSET Msg]
    BY <1>7 DEF TestAgain, TypeOK
  <2> QED
    BY <1>7, <2>1 DEF TestAgain, Goto, TypeOK
<1>8. ASSUME NEW a \in Actors, ActReturns(a) PROVE TypeOK'
  <2>1. hand' \in [Actors -> SUBSET Msg]
    BY <1>8 DEF ActReturns, TypeOK
  <2> QED
    BY <1>8, <2>1 DEF ActReturns, Goto, TypeOK
<1>9. ASSUME NEW t \in Threads, Publish(t) PROVE TypeOK'
  <2>1. [msg |-> [src |-> t, seq |-> sent[t] + 1], rest |-> Subs[t], found |-> FALSE]
          \in [msg : Msg, rest : Seq(Actors), found : BOOLEAN]
    BY DEF TypeOK, Msg
  <2>2. emit' \in [Threads -> [msg : Msg, rest : Seq(Actors), found : BOOLEAN]]
    BY <1>9, <2>1 DEF Publish, TypeOK
  <2>3. sent' \in [Threads -> Nat]
    BY <1>9 DEF Publish, TypeOK
  <2> QED
    BY <1>9, <2>2, <2>3 DEF Publish, TypeOK
<1>10. ASSUME NEW t \in Threads, TestSubscriber(t) PROVE TypeOK'
  <2>1. Tail(emit[t].rest) \in Seq(Actors)
    BY <1>10, SeqFacts DEF TestSubscriber, TypeOK
  <2> DEFINE R == [msg : Msg, rest : Seq(Actors), found : BOOLEAN]
  <2>3. emit \in [Threads -> R] /\ emit[t] \in R
    BY DEF TypeOK
  <2>4. [emit[t] EXCEPT !.found = TRUE] \in R /\ [emit[t] EXCEPT !.rest = Tail(emit[t].rest)] \in R
    BY <2>1, <2>3
  <2> HIDE DEF R
  <2>6. \E r \in R : emit' = [emit EXCEPT ![t] = r]
    BY <1>10, <2>4 DEF TestSubscriber
  <2>5. emit' \in [Threads -> R]
    BY <2>3, <2>6
  <2>2. emit' \in [Threads -> [msg : Msg, rest : Seq(Actors), found : BOOLEAN]]
    BY <2>5 DEF R
  <2> QED
    BY <1>10, <2>2 DEF TestSubscriber, TypeOK
<1>11. ASSUME NEW t \in Threads, TryPut(t) PROVE TypeOK'
  <2> DEFINE c == Head(emit[t].rest)
  <2>1. c \in Actors /\ Tail(emit[t].rest) \in Seq(Actors) /\ emit[t].msg \in Msg
    BY <1>11, SeqFacts DEF TryPut, TypeOK, ObjectInv
  <2> DEFINE R == [msg : Msg, rest : Seq(Actors), found : BOOLEAN]
  <2>7. emit \in [Threads -> R] /\ emit[t] \in R
    BY DEF TypeOK
  <2>8. [emit[t] EXCEPT !.rest = Tail(emit[t].rest), !.found = FALSE] \in R
    BY <2>1, <2>7
  <2> HIDE DEF R
  <2>10. \E r \in R : emit' = [emit EXCEPT ![t] = r]
    BY <1>11, <2>8 DEF TryPut
  <2>9. emit' \in [Threads -> R]
    BY <2>7, <2>10
  <2>2. emit' \in [Threads -> [msg : Msg, rest : Seq(Actors), found : BOOLEAN]]
    BY <2>9 DEF R
  <2>3. PutAt(t, c)
    BY <1>11 DEF TryPut
  <2> DEFINE q == Append(queue[c], emit[t].msg)
  <2>11. queue[c] \in Seq(Msg) /\ Capacity[c] \in Nat
    BY <2>1 DEF TypeOK
  <2>12. q \in Seq(Msg) /\ Len(q) = Len(queue[c]) + 1 /\ Len(queue[c]) \in Nat
    BY <2>1, <2>11
  <2>13. UNCHANGED queue \/ (queue' = [queue EXCEPT ![c] = q] /\ Len(queue[c]) < Capacity[c])
    BY <2>3 DEF PutAt, Room
  <2>14. Len(queue[c]) < Capacity[c] => Len(q) <= Capacity[c]
    BY <2>11, <2>12
  <2>15. UNCHANGED pc \/ pc' = [pc EXCEPT ![c] = "enter"] \/ pc' = [pc EXCEPT ![c] = pc[c]]
    BY <2>3 DEF PutAt
  <2> HIDE DEF c, q
  <2>4. queue' \in [Actors -> Seq(Msg)]
    BY <2>1, <2>12, <2>13 DEF TypeOK
  <2>5. \A b \in Actors : Len(queue'[b]) <= Capacity[b]
    BY <2>1, <2>13, <2>14 DEF TypeOK
  <2>6. pc' \in [Actors -> {"new", "test", "enter", "sleepy", "blocked", "got", "act", "done"}]
    BY <2>1, <2>15 DEF TypeOK
  <2> QED
    BY <1>11, <2>2, <2>4, <2>5, <2>6 DEF TryPut, TypeOK
<1>12. ASSUME NEW a \in Actors, Start(a) PROVE TypeOK'
  BY <1>12 DEF Start, Goto, TypeOK
<1>13. ASSUME NEW a \in Actors, StopBegins(a) PROVE TypeOK'
  <2>1. alive' \in [Actors -> BOOLEAN] /\ stops' \in [Actors -> Nat]
    BY <1>13 DEF StopBegins, TypeOK
  <2>2. main' \in [at : {"idle", "alive", "flag", "notify", "terminate", "join"}, who : Threads]
    BY <1>13 DEF StopBegins, Threads
  <2> QED
    BY <1>13, <2>1, <2>2 DEF StopBegins, TypeOK
<1>14. ASSUME NEW a \in Actors, Destroy(a) PROVE TypeOK'
  BY <1>14 DEF Destroy, TypeOK, Threads
<1>15. CASE DestructorStops
  BY <1>15 DEF DestructorStops, TypeOK
<1>16. CASE StopClears
  BY <1>16 DEF StopClears, TypeOK
<1>17. CASE StopNotifies
  BY <1>17 DEF StopNotifies, WakeAll, TypeOK
<1>18. CASE OnTerminateReturns
  BY <1>18 DEF OnTerminateReturns, Idle, TypeOK, Threads
<1>19. CASE Join
  BY <1>19 DEF Join, Idle, TypeOK, Threads
<1>20. CASE UNCHANGED vars
  BY <1>20 DEF vars, TypeOK
<1> QED
  BY <1>1, <1>2, <1>3, <1>4, <1>5, <1>6, <1>7, <1>8, <1>9, <1>10, <1>11, <1>12, <1>13,
     <1>14, <1>15, <1>16, <1>17, <1>18, <1>19, <1>20 DEF Next, Loop

-----------------------------------------------------------------------------
(* The other parts of the invariant.                                       *)

LEMMA FlagNext == TypeOK /\ FlagInv /\ [Next]_vars => FlagInv'
<1> SUFFICES ASSUME TypeOK, FlagInv, [Next]_vars PROVE FlagInv'
  OBVIOUS
<1>1. ASSUME UNCHANGED <<alive, running, object, main, stops>> PROVE FlagInv'
  BY <1>1 DEF FlagInv
<1>2. ASSUME NEW a \in Actors, Start(a) PROVE FlagInv'
  BY <1>2 DEF Start, MainFree, Idle, FlagInv, TypeOK
<1>3. ASSUME NEW a \in Actors, StopBegins(a) PROVE FlagInv'
  BY <1>3 DEF StopBegins, MainFree, Idle, FlagInv, TypeOK
<1>4. ASSUME NEW a \in Actors, Destroy(a) PROVE FlagInv'
  BY <1>4 DEF Destroy, MainFree, Idle, FlagInv, TypeOK
<1>5. CASE DestructorStops
  BY <1>5 DEF DestructorStops, FlagInv, TypeOK
<1>6. CASE StopClears
  BY <1>6 DEF StopClears, FlagInv, TypeOK
<1>7. CASE StopNotifies
  <2>1. main.who \in Actors /\ object[main.who] \in {"whole", "base"} /\ ~alive[main.who]
    BY <1>7 DEF StopNotifies, FlagInv, TypeOK
  <2>2. /\ main'.who = main.who
        /\ main'.at = IF object[main.who] = "whole" THEN "terminate" ELSE "join"
    BY <1>7 DEF StopNotifies, TypeOK
  <2>3. UNCHANGED <<alive, running, object, stops>>
    BY <1>7 DEF StopNotifies
  <2>4. \A a \in Actors : object[a] = "base" /\ alive[a] => FALSE
    BY <1>7 DEF StopNotifies, FlagInv
  <2> QED
    BY <2>1, <2>2, <2>3, <2>4 DEF FlagInv
<1>8. CASE OnTerminateReturns
  BY <1>8 DEF OnTerminateReturns, Idle, FlagInv, TypeOK
<1>9. CASE Join
  BY <1>9 DEF Join, Idle, FlagInv, TypeOK
<1>10. ASSUME NEW a \in Actors, Loop(a) \/ SpuriousWakeup(a) PROVE FlagInv'
  BY <1>1, <1>10 DEF Loop, TestAlive, GetMessage, GetReturnsFalse, WaitTested, WaitBlocks,
                     TestAgain, ActReturns, SpuriousWakeup
<1>11. ASSUME NEW t \in Threads, Publish(t) \/ TestSubscriber(t) \/ TryPut(t) PROVE FlagInv'
  BY <1>1, <1>11 DEF Publish, TestSubscriber, TryPut
<1>12. CASE UNCHANGED vars
  BY <1>1, <1>12 DEF vars
<1> QED
  BY <1>2, <1>3, <1>4, <1>5, <1>6, <1>7, <1>8, <1>9, <1>10, <1>11, <1>12 DEF Next

(* No message is lost to the wait of get().                                *)
LEMMA WaiterNext ==
  TypeOK /\ FlagInv /\ ObjectInv /\ WaiterSeesNothing /\ [Next]_vars => WaiterSeesNothing'
<1> SUFFICES ASSUME TypeOK, FlagInv, ObjectInv, WaiterSeesNothing, [Next]_vars
             PROVE  WaiterSeesNothing'
  OBVIOUS
<1>1. ASSUME UNCHANGED <<pc, queue>> PROVE WaiterSeesNothing'
  BY <1>1 DEF WaiterSeesNothing
<1>2. ASSUME NEW a \in Actors, Loop(a) \/ SpuriousWakeup(a) PROVE WaiterSeesNothing'
  BY <1>2 DEF Loop, TestAlive, GetMessage, GetReturnsFalse, WaitTested, WaitBlocks,
              TestAgain, ActReturns, SpuriousWakeup, Goto, WaiterSeesNothing, TypeOK
<1>3. ASSUME NEW t \in Threads, TryPut(t) PROVE WaiterSeesNothing'
  <2> DEFINE c == Head(emit[t].rest)
  <2>1. c \in Actors
    BY <1>3, SeqFacts DEF TryPut, TypeOK, ObjectInv
  <2>2. pc[c] # "sleepy" /\ PutAt(t, c)
    BY <1>3 DEF TryPut, Locked
  <2> HIDE DEF c
  <2> QED
    BY <2>1, <2>2 DEF PutAt, WaiterSeesNothing, TypeOK
<1>4. ASSUME NEW t \in Threads, Publish(t) \/ TestSubscriber(t) PROVE WaiterSeesNothing'
  BY <1>1, <1>4 DEF Publish, TestSubscriber
<1>5. ASSUME NEW a \in Actors, Start(a) \/ StopBegins(a) \/ Destroy(a)
      PROVE  WaiterSeesNothing'
  BY <1>5 DEF Start, StopBegins, Destroy, Goto, WaiterSeesNothing, TypeOK
<1>6. CASE StopNotifies
  BY <1>6 DEF StopNotifies, WakeAll, WaiterSeesNothing, TypeOK, FlagInv
<1>7. CASE DestructorStops \/ StopClears \/ OnTerminateReturns \/ Join
  BY <1>1, <1>7 DEF DestructorStops, StopClears, OnTerminateReturns, Join
<1>8. CASE UNCHANGED vars
  BY <1>1, <1>8 DEF vars
<1> QED
  BY <1>2, <1>3, <1>4, <1>5, <1>6, <1>7, <1>8 DEF Next

LEMMA EndsNext ==
  TypeOK /\ FlagInv /\ ObjectInv /\ EndsOnlyWhenStopped /\ [Next]_vars => EndsOnlyWhenStopped'
<1> SUFFICES ASSUME TypeOK, FlagInv, ObjectInv, EndsOnlyWhenStopped, [Next]_vars
             PROVE  EndsOnlyWhenStopped'
  OBVIOUS
<1>1. ASSUME UNCHANGED <<pc, alive>> PROVE EndsOnlyWhenStopped'
  BY <1>1 DEF EndsOnlyWhenStopped
<1>2. ASSUME NEW a \in Actors, Loop(a) \/ SpuriousWakeup(a) PROVE EndsOnlyWhenStopped'
  BY <1>2 DEF Loop, TestAlive, GetMessage, GetReturnsFalse, WaitTested, WaitBlocks,
              TestAgain, ActReturns, SpuriousWakeup, Goto, EndsOnlyWhenStopped, TypeOK, FlagInv
<1>3. ASSUME NEW t \in Threads, TryPut(t) PROVE EndsOnlyWhenStopped'
  <2> DEFINE c == Head(emit[t].rest)
  <2>1. c \in Actors
    BY <1>3, SeqFacts DEF TryPut, TypeOK, ObjectInv
  <2>2. PutAt(t, c) /\ alive' = alive
    BY <1>3 DEF TryPut
  <2> HIDE DEF c
  <2> QED
    BY <2>1, <2>2 DEF PutAt, EndsOnlyWhenStopped, TypeOK
<1>4. ASSUME NEW t \in Threads, Publish(t) \/ TestSubscriber(t) PROVE EndsOnlyWhenStopped'
  BY <1>1, <1>4 DEF Publish, TestSubscriber
<1>5. ASSUME NEW a \in Actors, Start(a) \/ StopBegins(a) \/ Destroy(a)
      PROVE  EndsOnlyWhenStopped'
  BY <1>5 DEF Start, StopBegins, Destroy, Goto, EndsOnlyWhenStopped, TypeOK
<1>6. CASE StopNotifies
  BY <1>6 DEF StopNotifies, WakeAll, EndsOnlyWhenStopped, TypeOK, FlagInv
<1>7. CASE DestructorStops
  BY <1>7 DEF DestructorStops, EndsOnlyWhenStopped, TypeOK, FlagInv
<1>8. CASE StopClears \/ OnTerminateReturns \/ Join
  BY <1>1, <1>8 DEF StopClears, OnTerminateReturns, Join
<1>9. CASE UNCHANGED vars
  BY <1>1, <1>9 DEF vars
<1> QED
  BY <1>2, <1>3, <1>4, <1>5, <1>6, <1>7, <1>8, <1>9 DEF Next

LEMMA HandNext == TypeOK /\ FlagInv /\ ObjectInv /\ HandInv /\ [Next]_vars => HandInv'
<1> SUFFICES ASSUME TypeOK, FlagInv, ObjectInv, HandInv, [Next]_vars PROVE HandInv'
  OBVIOUS
<1> USE ThreadAssumption
<1>1. ASSUME UNCHANGED <<pc, hand, emit>> PROVE HandInv'
  BY <1>1 DEF HandInv
<1>2. ASSUME NEW a \in Actors, Loop(a) \/ SpuriousWakeup(a) PROVE HandInv'
  <2>1. CASE TestAlive(a) \/ GetReturnsFalse(a) \/ WaitTested(a) \/ WaitBlocks(a)
             \/ SpuriousWakeup(a)
    BY <2>1 DEF TestAlive, GetReturnsFalse, WaitTested, WaitBlocks, SpuriousWakeup, Goto,
                HandInv, TypeOK
  <2>2. CASE GetMessage(a)
    BY <2>2 DEF GetMessage, Goto, HandInv, TypeOK
  <2>3. CASE TestAgain(a)
    BY <2>3 DEF TestAgain, Goto, HandInv, TypeOK
  <2>4. CASE ActReturns(a)
    BY <2>4 DEF ActReturns, Goto, HandInv, TypeOK
  <2> QED
    BY <1>2, <2>1, <2>2, <2>3, <2>4 DEF Loop
<1>3. ASSUME NEW t \in Threads, TryPut(t) PROVE HandInv'
  <2> DEFINE c == Head(emit[t].rest)
  <2>1. c \in Actors /\ emit[t].rest # <<>>
    BY <1>3, SeqFacts DEF TryPut, TypeOK, ObjectInv
  <2>2. PutAt(t, c) /\ hand' = hand
    BY <1>3 DEF TryPut
  <2> HIDE DEF c
  <2>3. \A a \in Actors : /\ pc[a] \in {"got", "act"} <=> pc'[a] \in {"got", "act"}
                          /\ pc[a] = "act" <=> pc'[a] = "act"
    BY <2>1, <2>2 DEF PutAt, TypeOK
  <2>4. \A a \in Actors : emit'[a].rest # <<>> => emit[a].rest # <<>>
    BY <1>3, <2>1 DEF TryPut, TypeOK, Threads
  <2> QED
    BY <2>2, <2>3, <2>4 DEF HandInv
<1>4. ASSUME NEW t \in Threads, Publish(t) PROVE HandInv'
  <2>1. UNCHANGED <<pc, hand>> /\ (t # Main => pc[t] = "act")
    BY <1>4 DEF Publish, MayPublish
  <2>2. \A a \in Actors : a # t => emit'[a] = emit[a]
    BY <1>4 DEF Publish, TypeOK, Threads
  <2>3. \A a \in Actors : a # Main
    BY DEF Threads
  <2> QED
    BY <2>1, <2>2, <2>3 DEF HandInv
<1>5. ASSUME NEW t \in Threads, TestSubscriber(t) PROVE HandInv'
  <2>1. \A a \in Actors : emit'[a].rest # <<>> => emit[a].rest # <<>>
    BY <1>5 DEF TestSubscriber, TypeOK, Threads
  <2> QED
    BY <1>5, <2>1 DEF TestSubscriber, HandInv
<1>6. ASSUME NEW a \in Actors, Start(a) PROVE HandInv'
  BY <1>6 DEF Start, Goto, HandInv, TypeOK
<1>7. ASSUME NEW a \in Actors, StopBegins(a) \/ Destroy(a) PROVE HandInv'
  BY <1>1, <1>7 DEF StopBegins, Destroy
<1>8. CASE StopNotifies
  BY <1>8 DEF StopNotifies, WakeAll, HandInv, TypeOK, FlagInv
<1>9. CASE DestructorStops \/ StopClears \/ OnTerminateReturns \/ Join
  BY <1>1, <1>9 DEF DestructorStops, StopClears, OnTerminateReturns, Join
<1>10. CASE UNCHANGED vars
  BY <1>1, <1>10 DEF vars
<1> QED
  BY <1>2, <1>3, <1>4, <1>5, <1>6, <1>7, <1>8, <1>9, <1>10 DEF Next

(* Once an object is destroyed every started actor is stopped.             *)
LEMMA ObjectNext == TypeOK /\ FlagInv /\ ObjectInv /\ [Next]_vars => ObjectInv'
<1> SUFFICES ASSUME TypeOK, FlagInv, ObjectInv, [Next]_vars PROVE ObjectInv'
  OBVIOUS
<1>1. ASSUME UNCHANGED object,
             \A a \in Actors : /\ pc[a] = "new" => pc'[a] = "new"
                              /\ alive'[a] \in {alive[a], FALSE},
             \A t \in Threads : emit'[t].found => emit'[t].rest # <<>>
      PROVE  ObjectInv'
  <2>1. ASSUME NEW c \in Actors, object'[c] # "whole", NEW a \in Actors
        PROVE  pc'[a] = "new" \/ ~alive'[a]
    <3>1. object[c] # "whole"
      BY <1>1, <2>1
    <3>2. pc[a] = "new" \/ ~alive[a]
      BY <3>1 DEF ObjectInv
    <3> QED
      BY <1>1, <3>2
  <2> QED
    BY <1>1, <2>1 DEF ObjectInv
<1>2. \A t \in Threads : emit[t].found => emit[t].rest # <<>>
  BY DEF ObjectInv
<1>3. ASSUME NEW a \in Actors, Loop(a) \/ SpuriousWakeup(a) PROVE ObjectInv'
  <2>1. UNCHANGED <<object, emit, alive>> /\ pc[a] # "new"
    BY <1>3 DEF Loop, TestAlive, GetMessage, GetReturnsFalse, WaitTested, WaitBlocks,
                TestAgain, ActReturns, SpuriousWakeup
  <2>2. \A b \in Actors : b # a => pc'[b] = pc[b]
    BY <1>3 DEF Loop, TestAlive, GetMessage, GetReturnsFalse, WaitTested, WaitBlocks,
                TestAgain, ActReturns, SpuriousWakeup, Goto, TypeOK
  <2> QED
    BY <1>1, <1>2, <2>1, <2>2
<1>4. ASSUME NEW t \in Threads, Publish(t) \/ TestSubscriber(t) PROVE ObjectInv'
  <2>1. UNCHANGED <<alive, pc, object>>
    BY <1>4 DEF Publish, TestSubscriber
  <2>2. emit'[t].found => emit'[t].rest # <<>>
    <3>1. CASE Publish(t)
      BY <3>1 DEF Publish, TypeOK
    <3>2. CASE TestSubscriber(t)
      <4>1. PICK found \in BOOLEAN :
              emit' = [emit EXCEPT ![t] = IF found
                                          THEN [emit[t] EXCEPT !.found = TRUE]
                                          ELSE [emit[t] EXCEPT !.rest = Tail(emit[t].rest)]]
        BY <3>2 DEF TestSubscriber, Readings, TypeOK
      <4>2. emit[t].rest # <<>> /\ ~emit[t].found
        BY <3>2 DEF TestSubscriber
      <4>3. emit'[t].rest = emit[t].rest \/ emit'[t].found = emit[t].found
        BY <4>1 DEF TypeOK
      <4> QED
        BY <4>2, <4>3
    <3> QED
      BY <1>4, <3>1, <3>2
  <2>3. \A u \in Threads : u # t => emit'[u] = emit[u]
    BY <1>4 DEF Publish, TestSubscriber, TypeOK
  <2> QED
    BY <1>1, <1>2, <2>1, <2>2, <2>3
<1>5. ASSUME NEW t \in Threads, TryPut(t) PROVE ObjectInv'
  <2> DEFINE c == Head(emit[t].rest)
  <2>1. c \in Actors
    BY <1>2, <1>5, SeqFacts DEF TryPut, TypeOK
  <2>2. PutAt(t, c) /\ UNCHANGED <<object, alive>>
    BY <1>5 DEF TryPut
  <2>3. ~emit'[t].found
    BY <1>5 DEF TryPut, TypeOK
  <2>4. \A u \in Threads : u # t => emit'[u] = emit[u]
    BY <1>5 DEF TryPut, TypeOK
  <2> HIDE DEF c
  <2>5. \A a \in Actors : pc[a] = "new" => pc'[a] = "new"
    BY <2>1, <2>2 DEF PutAt, TypeOK
  <2> QED
    BY <1>1, <1>2, <2>2, <2>3, <2>4, <2>5
<1>6. ASSUME NEW a \in Actors, Start(a) PROVE ObjectInv'
  BY <1>6 DEF Start, ObjectInv
<1>7. ASSUME NEW a \in Actors, StopBegins(a) PROVE ObjectInv'
  BY <1>1, <1>2, <1>7 DEF StopBegins, TypeOK
<1>8. ASSUME NEW a \in Actors, Destroy(a) PROVE ObjectInv'
  BY <1>2, <1>8 DEF Destroy, Leaving, ObjectInv
<1>9. CASE StopNotifies
  <2>1. \A a \in Actors : pc[a] = "new" => pc'[a] = "new"
    BY <1>9 DEF StopNotifies, WakeAll, TypeOK, FlagInv
  <2> QED
    BY <1>1, <1>2, <1>9, <2>1 DEF StopNotifies
<1>10. CASE Join
  <2>1. main.who \in Actors /\ object[main.who] = "base" /\ UNCHANGED <<alive, pc, emit>>
    BY <1>10 DEF Join, FlagInv
  <2> QED
    BY <2>1 DEF ObjectInv
<1>11. CASE DestructorStops \/ StopClears \/ OnTerminateReturns \/ UNCHANGED vars
  BY <1>1, <1>2, <1>11
     DEF DestructorStops, StopClears, OnTerminateReturns, vars, TypeOK, FlagInv
<1> QED
  BY <1>3, <1>4, <1>5, <1>6, <1>7, <1>8, <1>9, <1>10, <1>11 DEF Next

-----------------------------------------------------------------------------
(* The inductive invariant and what follows from it.                       *)

IInv ==
  TypeOK /\ FlagInv /\ HandInv /\ ObjectInv /\ WaiterSeesNothing /\ EndsOnlyWhenStopped

LEMMA IInvInit == Init => IInv
<1> SUFFICES ASSUME Init PROVE IInv
  OBVIOUS
<1>1. TypeOK
  BY TypeInit
<1>2. FlagInv /\ HandInv /\ WaiterSeesNothing /\ EndsOnlyWhenStopped
  BY ThreadAssumption
     DEF Init, Idle, NoEmission, FlagInv, HandInv, WaiterSeesNothing, EndsOnlyWhenStopped, Threads
<1>3. ObjectInv
  BY ThreadAssumption DEF Init, Idle, NoEmission, ObjectInv, Threads
<1> QED
  BY <1>1, <1>2, <1>3 DEF IInv

LEMMA IInvNext == IInv /\ [Next]_vars => IInv'
BY TypeNext, FlagNext, HandNext, ObjectNext, WaiterNext, EndsNext DEF IInv

LEMMA IInvAlways == Spec => []IInv
BY IInvInit, IInvNext, PTL DEF Spec

(* Every variable keeps its type, no mailbox outgrows its capacity         *)
(* (Mailbox::try_put()).                                                   *)
THEOREM ThreadType == Spec => []TypeOK
BY IInvAlways, PTL DEF IInv

(* No thread waits in get() while its mailbox holds a message, whatever    *)
(* the spurious wakeups and however many producers race with it.           *)
THEOREM ThreadWaiterSeesNothing == Spec => []WaiterSeesNothing
BY IInvAlways, PTL DEF IInv

(* run_loop() returns only in an actor that was stopped.                   *)
THEOREM ThreadEndsOnlyWhenStopped == Spec => []EndsOnlyWhenStopped
BY IInvAlways, PTL DEF IInv

(* Only TestAgain begins a handler, of an actor that is alive; while main  *)
(* destroys objects no started actor is.                                   *)
LEMMA BeginsAlive ==
  ASSUME IInv, [Next]_vars, NEW a \in Actors, pc[a] # "act", pc'[a] = "act"
  PROVE  alive[a] /\ pc[a] # "new"
<1> USE ThreadAssumption
<1>0. TypeOK /\ FlagInv /\ ObjectInv
  BY DEF IInv
<1>1. ASSUME NEW b \in Actors, Loop(b) \/ SpuriousWakeup(b) PROVE alive[a] /\ pc[a] # "new"
  BY <1>0, <1>1 DEF Loop, TestAlive, GetMessage, GetReturnsFalse, WaitTested, WaitBlocks,
                    TestAgain, ActReturns, SpuriousWakeup, Goto, TypeOK
<1>2. ASSUME NEW t \in Threads, TryPut(t) PROVE FALSE
  <2> DEFINE c == Head(emit[t].rest)
  <2>1. c \in Actors
    BY <1>0, <1>2, SeqFacts DEF TryPut, TypeOK, ObjectInv
  <2>2. PutAt(t, c)
    BY <1>2 DEF TryPut
  <2> HIDE DEF c
  <2> QED
    BY <1>0, <2>1, <2>2 DEF PutAt, TypeOK
<1>3. ASSUME NEW b \in Actors, Start(b) PROVE FALSE
  BY <1>0, <1>3 DEF Start, Goto, TypeOK
<1>4. CASE StopNotifies
  BY <1>0, <1>4 DEF StopNotifies, WakeAll, TypeOK, FlagInv
<1>5. UNCHANGED pc => FALSE
  OBVIOUS
<1> QED
  BY <1>1, <1>2, <1>3, <1>4, <1>5
     DEF Next, Publish, TestSubscriber, StopBegins, Destroy, DestructorStops, StopClears,
         OnTerminateReturns, Join, vars

(* While main destroys the actors no thread passes the test before act(),  *)
(* in whatever order they go (run_loop(), the end of main()).              *)
THEOREM ThreadNoLateHandler == Spec => NoLateHandler
<1> DEFINE Begins(a) == pc[a] # "act" /\ pc'[a] = "act"
<1>1. IInv /\ [Next]_vars =>
        [\A a \in Actors : (\E c \in Actors : object[c] # "whole") => ~Begins(a)]_vars
  BY BeginsAlive DEF IInv, ObjectInv
<1> QED
  BY <1>1, IInvAlways, PTL DEF Spec, NoLateHandler

-----------------------------------------------------------------------------
(* The order of one thread's messages.                                     *)

From(t, c) == {i \in DOMAIN queue[c] : queue[c][i].src = t}

(* Numbers are those given so far; one that is still to be put somewhere   *)
(* is larger than all that came there before it.                           *)
CountInv ==
  \A t \in Threads : \A c \in Actors :
    taken[c][t] <= sent[t] /\ \A i \in From(t, c) : queue[c][i].seq <= sent[t]

Distinct(s) == \A i, j \in DOMAIN s : s[i] = s[j] => i = j
Elements(s) == {s[i] : i \in DOMAIN s}

Below(t, c) == taken[c][t] < sent[t] /\ \A i \in From(t, c) : queue[c][i].seq < sent[t]

PendingInv ==
  \A t \in Threads :
    /\ emit[t].rest # <<>> => emit[t].msg = [src |-> t, seq |-> sent[t]]
    /\ Distinct(emit[t].rest)
    /\ \A c \in Actors : c \in Elements(emit[t].rest) => Below(t, c)

Ordered ==
  \A t \in Threads : \A c \in Actors :
    /\ \A i \in From(t, c) : taken[c][t] < queue[c][i].seq
    /\ \A i, j \in From(t, c) : i < j => queue[c][i].seq < queue[c][j].seq

OrderInv == CountInv /\ PendingInv /\ Ordered

LEMMA OrderedInOrder == TypeOK /\ Ordered => InOrder
<1> SUFFICES ASSUME TypeOK, Ordered PROVE InOrder
  OBVIOUS
<1>1. \A c \in Actors : \A i \in DOMAIN queue[c] : queue[c][i] \in Msg
  BY DEF TypeOK
<1>2. \A c \in Actors : \A i \in DOMAIN queue[c] : queue[c][i].src \in Threads
  BY <1>1 DEF Msg
<1> QED BY <1>2 DEF Ordered, InOrder, From

LEMMA TailDistinct ==
  ASSUME NEW S, NEW s \in Seq(S), s # <<>>, Distinct(s)
  PROVE  /\ Distinct(Tail(s)) /\ Head(s) \in Elements(s)
         /\ \A c \in Elements(Tail(s)) : c \in Elements(s) /\ c # Head(s)
<1>1. /\ Head(s) = s[1] /\ 1 \in DOMAIN s
      /\ \A i \in DOMAIN Tail(s) :
           i \in Nat /\ i + 1 # 1 /\ i + 1 \in DOMAIN s /\ Tail(s)[i] = s[i + 1]
  OBVIOUS
<1>2. Distinct(Tail(s))
  <2> SUFFICES ASSUME NEW i \in DOMAIN Tail(s), NEW j \in DOMAIN Tail(s), Tail(s)[i] = Tail(s)[j]
               PROVE  i = j
    BY DEF Distinct
  <2>1. i + 1 = j + 1 /\ i \in Nat /\ j \in Nat
    BY <1>1 DEF Distinct
  <2> QED BY <2>1
<1>3. ASSUME NEW c \in Elements(Tail(s)) PROVE c \in Elements(s) /\ c # Head(s)
  <2>1. PICK i \in DOMAIN Tail(s) : c = Tail(s)[i]
    BY DEF Elements
  <2>2. i + 1 \in DOMAIN s /\ c = s[i + 1] /\ i + 1 # 1
    BY <1>1, <2>1
  <2> QED BY <1>1, <2>2 DEF Elements, Distinct
<1> QED BY <1>1, <1>2, <1>3 DEF Elements

LEMMA OrderInit == Init => OrderInv
BY DEF Init, NoEmission, OrderInv, CountInv, PendingInv, Ordered, From, Distinct, Elements

LEMMA OrderKept ==
  ASSUME OrderInv, UNCHANGED <<queue, emit, sent, taken>>
  PROVE  OrderInv'
<1>1. \A t, c : From(t, c)' = From(t, c)
  BY DEF From
<1>2. \A t, c : Below(t, c)' = Below(t, c)
  BY <1>1 DEF Below
<1> QED BY <1>1, <1>2 DEF OrderInv, CountInv, PendingInv, Ordered

LEMMA OrderNext == TypeOK /\ ObjectInv /\ OrderInv /\ [Next]_vars => OrderInv'
<1> SUFFICES ASSUME TypeOK, ObjectInv, OrderInv, [Next]_vars PROVE OrderInv'
  OBVIOUS
<1>d. \A u \in Threads : Distinct(Subs[u])
  BY ThreadAssumption DEF Distinct
<1>0. /\ \A t \in Threads : sent[t] \in Nat /\ emit[t].rest \in Seq(Actors)
      /\ \A c \in Actors : \A t \in Threads : taken[c][t] \in Nat
      /\ \A c \in Actors : \A i \in DOMAIN queue[c] :
           queue[c][i].src \in Threads /\ queue[c][i].seq \in Nat
  <2>1. \A t \in Threads : sent[t] \in Nat
    BY DEF TypeOK
  <2>2. \A t \in Threads : emit[t].rest \in Seq(Actors)
    BY DEF TypeOK
  <2>3. \A c \in Actors : \A t \in Threads : taken[c][t] \in Nat
    BY DEF TypeOK
  <2>4. \A c \in Actors : \A i \in DOMAIN queue[c] : queue[c][i] \in Msg
    BY DEF TypeOK
  <2> QED BY <2>1, <2>2, <2>3, <2>4 DEF Msg
<1>1. ASSUME NEW a \in Actors, GetMessage(a) PROVE OrderInv'
  <2> DEFINE m == queue[a][1]
  <2>1. /\ queue[a] \in Seq(Msg) /\ queue[a] # <<>> /\ m = Head(queue[a]) /\ 1 \in DOMAIN queue[a]
        /\ queue' = [queue EXCEPT ![a] = Tail(queue[a])]
        /\ taken' = [taken EXCEPT ![a][m.src] = m.seq] /\ UNCHANGED <<sent, emit>>
    BY <1>1, SeqFacts DEF GetMessage, TypeOK
  <2>2. \A i \in DOMAIN Tail(queue[a]) :
          i + 1 \in DOMAIN queue[a] /\ i + 1 > 1 /\ Tail(queue[a])[i] = queue[a][i + 1] /\ i \in Nat
    BY <2>1
  <2>3. /\ \A c \in Actors \ {a} : queue'[c] = queue[c] /\ taken'[c] = taken[c]
        /\ queue'[a] = Tail(queue[a])
        /\ \A t \in Threads : taken'[a][t] = IF t = m.src THEN m.seq ELSE taken[a][t]
    BY <2>1 DEF TypeOK
  <2>4. m.src \in Threads /\ m.seq \in Nat /\ 1 \in From(m.src, a)
    BY <1>0, <2>1 DEF From
  <2>5. \A t \in Threads : \A i \in From(t, a)' :
          i + 1 \in From(t, a) /\ queue'[a][i].seq = queue[a][i + 1].seq /\ i \in Nat /\ i + 1 > 1
    BY <2>2, <2>3 DEF From
  <2>6. \A t \in Threads : \A c \in Actors \ {a} : From(t, c)' = From(t, c)
    BY <2>3 DEF From
  <2> HIDE DEF m
  <2>7. CountInv'
    <3> SUFFICES ASSUME NEW t \in Threads, NEW c \in Actors
                 PROVE  taken'[c][t] <= sent[t] /\ \A i \in From(t, c)' : queue'[c][i].seq <= sent[t]
      BY <2>1 DEF CountInv
    <3>1. CASE c = a
      BY <2>3, <2>4, <2>5, <3>1 DEF OrderInv, CountInv, m
    <3>2. CASE c # a
      BY <2>3, <2>6, <3>2 DEF OrderInv, CountInv
    <3> QED BY <3>1, <3>2
  <2>8. Ordered'
    <3> SUFFICES ASSUME NEW t \in Threads, NEW c \in Actors
                 PROVE  /\ \A i \in From(t, c)' : taken'[c][t] < queue'[c][i].seq
                        /\ \A i, j \in From(t, c)' : i < j => queue'[c][i].seq < queue'[c][j].seq
      BY DEF Ordered
    <3>1. CASE c = a
      <4>1. ASSUME NEW i \in From(t, a)' PROVE taken'[a][t] < queue'[a][i].seq
        <5>1. /\ i + 1 \in From(t, a) /\ queue'[a][i].seq = queue[a][i + 1].seq
              /\ i \in Nat /\ 1 < i + 1
          BY <2>5
        <5>2. CASE t = m.src
          <6>1. taken'[a][t] = queue[a][1].seq /\ 1 \in From(t, a)
            BY <2>3, <2>4, <5>2 DEF m
          <6> QED BY <5>1, <6>1 DEF OrderInv, Ordered
        <5>3. CASE t # m.src
          BY <2>3, <5>1, <5>3 DEF OrderInv, Ordered
        <5> QED BY <5>2, <5>3
      <4>2. ASSUME NEW i \in From(t, a)', NEW j \in From(t, a)', i < j
            PROVE  queue'[a][i].seq < queue'[a][j].seq
        <5>1. /\ i + 1 \in From(t, a) /\ queue'[a][i].seq = queue[a][i + 1].seq
              /\ j + 1 \in From(t, a) /\ queue'[a][j].seq = queue[a][j + 1].seq
              /\ i + 1 < j + 1
          BY <2>5, <4>2
        <5> QED BY <5>1 DEF OrderInv, Ordered
      <4> QED BY <3>1, <4>1, <4>2
    <3>2. CASE c # a
      BY <2>3, <2>6, <3>2 DEF OrderInv, Ordered
    <3> QED BY <3>1, <3>2
  <2>9. PendingInv'
    <3>1. ASSUME NEW t \in Threads, NEW c \in Actors, Below(t, c) PROVE Below(t, c)'
      <4>1. CASE c = a
        <5>1. \A i \in From(t, a)' : queue'[a][i].seq < sent[t]
          BY <2>5, <3>1, <4>1 DEF Below
        <5>2. taken'[a][t] < sent[t]
          <6>1. CASE t = m.src
            <7>1. taken'[a][t] = queue[a][1].seq /\ 1 \in From(t, a)
              BY <2>3, <2>4, <6>1 DEF m
            <7> QED BY <3>1, <4>1, <7>1 DEF Below
          <6>2. CASE t # m.src
            BY <2>3, <3>1, <4>1, <6>2 DEF Below
          <6> QED BY <6>1, <6>2
        <5> QED BY <2>1, <4>1, <5>1, <5>2 DEF Below
      <4>2. CASE c # a
        BY <2>1, <2>3, <2>6, <3>1, <4>2 DEF Below
      <4> QED BY <4>1, <4>2
    <3> QED BY <2>1, <3>1 DEF OrderInv, PendingInv
  <2> QED BY <2>7, <2>8, <2>9 DEF OrderInv
<1>2. ASSUME NEW t \in Threads, Publish(t) PROVE OrderInv'
  <2> DEFINE e == [msg |-> [src |-> t, seq |-> sent[t] + 1], rest |-> Subs[t], found |-> FALSE]
  <2>1. /\ emit' = [emit EXCEPT ![t] = e] /\ sent' = [sent EXCEPT ![t] = @ + 1]
        /\ UNCHANGED <<queue, taken>>
    BY <1>2 DEF Publish
  <2>2. /\ e.msg = [src |-> t, seq |-> sent[t] + 1] /\ e.rest = Subs[t]
    OBVIOUS
  <2> HIDE DEF e
  <2>3. /\ sent'[t] = sent[t] + 1 /\ emit'[t] = e
        /\ \A u \in Threads \ {t} : sent'[u] = sent[u] /\ emit'[u] = emit[u]
        /\ \A u, c : From(u, c)' = From(u, c)
    BY <2>1 DEF TypeOK, From
  <2>4. CountInv'
    <3> SUFFICES ASSUME NEW u \in Threads, NEW c \in Actors
                 PROVE  taken[c][u] <= sent'[u] /\ \A i \in From(u, c) : queue[c][i].seq <= sent'[u]
      BY <2>1, <2>3 DEF CountInv
    <3>1. sent[u] <= sent'[u] /\ sent'[u] \in Nat
      <4>1. sent[u] \in Nat
        BY <1>0
      <4>2. sent'[u] = sent[u] \/ sent'[u] = sent[u] + 1
        BY <2>3
      <4> QED BY <4>1, <4>2
    <3> QED BY <1>0, <3>1 DEF OrderInv, CountInv, From
  <2>5. Ordered'
    BY <2>1, <2>3 DEF OrderInv, Ordered
  <2>6. PendingInv'
    <3> SUFFICES ASSUME NEW u \in Threads
                 PROVE  /\ emit'[u].rest # <<>> => emit'[u].msg = [src |-> u, seq |-> sent'[u]]
                        /\ Distinct(emit'[u].rest)
                        /\ \A c \in Actors : c \in Elements(emit'[u].rest) => Below(u, c)'
      BY DEF PendingInv
    <3>1. CASE u = t
      <4>1. Distinct(Subs[t])
        BY <1>d
      <4>2. ASSUME NEW c \in Actors PROVE Below(t, c)'
        <5>1. taken[c][t] <= sent[t] /\ taken[c][t] \in Nat /\ sent[t] \in Nat
          BY <1>0 DEF OrderInv, CountInv
        <5>2. \A i \in From(t, c) : queue[c][i].seq <= sent[t] /\ queue[c][i].seq \in Nat
          BY <1>0 DEF OrderInv, CountInv, From
        <5> QED BY <2>1, <2>3, <5>1, <5>2 DEF Below
      <4> QED BY <2>2, <2>3, <3>1, <4>1, <4>2
    <3>2. CASE u # t
      <4>1. \A c : Below(u, c)' = Below(u, c)
        BY <2>1, <2>3, <3>2 DEF Below
      <4> QED BY <2>3, <3>2, <4>1 DEF OrderInv, PendingInv
    <3> QED BY <3>1, <3>2
  <2> QED BY <2>4, <2>5, <2>6 DEF OrderInv
<1>3. ASSUME NEW t \in Threads, UNCHANGED sent, emit[t].rest # <<>>,
             emit'[t].msg = emit[t].msg, emit'[t].rest = Tail(emit[t].rest),
             \A u \in Threads \ {t} : emit'[u] = emit[u],
             \A u \in Threads : \A c \in Actors :
               (u = t => c # Head(emit[t].rest)) => (Below(u, c) => Below(u, c)')
      PROVE  PendingInv'
  <2> SUFFICES ASSUME NEW u \in Threads
               PROVE  /\ emit'[u].rest # <<>> => emit'[u].msg = [src |-> u, seq |-> sent'[u]]
                      /\ Distinct(emit'[u].rest)
                      /\ \A c \in Actors : c \in Elements(emit'[u].rest) => Below(u, c)'
    BY DEF PendingInv
  <2>1. CASE u # t
    BY <1>3, <2>1 DEF OrderInv, PendingInv
  <2>2. CASE u = t
    <3>1. emit[t].rest \in Seq(Actors) /\ Distinct(emit[t].rest)
      BY <1>0 DEF OrderInv, PendingInv
    <3>2. /\ Distinct(Tail(emit[t].rest))
          /\ \A c \in Elements(Tail(emit[t].rest)) :
               c \in Elements(emit[t].rest) /\ c # Head(emit[t].rest)
      BY <1>3, <3>1, TailDistinct
    <3>3. emit'[t].msg = [src |-> t, seq |-> sent'[t]]
      BY <1>3 DEF OrderInv, PendingInv
    <3>4. \A c \in Actors : c \in Elements(emit[t].rest) => Below(t, c)
      BY DEF OrderInv, PendingInv
    <3>5. \A c \in Actors : c \in Elements(Tail(emit[t].rest)) => Below(t, c)'
      BY <1>3, <3>2, <3>4
    <3> QED BY <1>3, <2>2, <3>2, <3>3, <3>5
  <2> QED BY <2>1, <2>2
<1>4. ASSUME NEW t \in Threads, TestSubscriber(t) PROVE OrderInv'
  <2>1. /\ UNCHANGED <<queue, sent, taken>>
        /\ \A u, c : From(u, c)' = From(u, c)
        /\ \A u, c : Below(u, c)' = Below(u, c)
    BY <1>4 DEF TestSubscriber, From, Below
  <2>2. CountInv' /\ Ordered'
    BY <2>1 DEF OrderInv, CountInv, Ordered
  <2>3. CASE emit' = [emit EXCEPT ![t] = [emit[t] EXCEPT !.found = TRUE]]
    <3>1. \A u \in Threads : emit'[u].msg = emit[u].msg /\ emit'[u].rest = emit[u].rest
      <4>2. /\ emit'[t] = [emit[t] EXCEPT !.found = TRUE]
            /\ \A u \in Threads \ {t} : emit'[u] = emit[u]
        BY <2>3 DEF TypeOK
      <4>3. emit'[t].msg = emit[t].msg /\ emit'[t].rest = emit[t].rest
        BY <4>2 DEF TypeOK
      <4> QED BY <4>2, <4>3
    <3>2. PendingInv'
      BY <2>1, <3>1 DEF OrderInv, PendingInv
    <3> QED BY <2>2, <3>2 DEF OrderInv
  <2>4. CASE emit' = [emit EXCEPT ![t] = [emit[t] EXCEPT !.rest = Tail(emit[t].rest)]]
    <3>1. /\ emit'[t].msg = emit[t].msg /\ emit'[t].rest = Tail(emit[t].rest)
          /\ \A u \in Threads \ {t} : emit'[u] = emit[u]
      BY <2>4 DEF TypeOK
    <3>3. emit[t].rest # <<>>
      BY <1>4 DEF TestSubscriber
    <3>2. PendingInv'
      BY <1>3, <2>1, <3>1, <3>3
    <3> QED BY <2>2, <3>2 DEF OrderInv
  <2> QED BY <1>4, <2>3, <2>4 DEF TestSubscriber
<1>5. ASSUME NEW t \in Threads, TryPut(t) PROVE OrderInv'
  <2>1. /\ emit[t].rest # <<>> /\ emit'[t].msg = emit[t].msg
        /\ emit'[t].rest = Tail(emit[t].rest) /\ UNCHANGED <<sent, taken>>
        /\ \A u \in Threads \ {t} : emit'[u] = emit[u]
    BY <1>5 DEF TryPut, TypeOK, ObjectInv
  <2>2. PICK c \in Actors : c = emit[t].rest[1] /\ 1 \in DOMAIN emit[t].rest /\ PutAt(t, c)
    <3>1. Head(emit[t].rest) = emit[t].rest[1] /\ emit[t].rest[1] \in Actors
          /\ 1 \in DOMAIN emit[t].rest
      BY <1>0, <2>1
    <3> QED BY <1>5, <3>1 DEF TryPut
  <2>3. /\ emit[t].msg = [src |-> t, seq |-> sent[t]]
        /\ taken[c][t] < sent[t] /\ \A i \in From(t, c) : queue[c][i].seq < sent[t]
    BY <2>1, <2>2 DEF OrderInv, PendingInv, Elements, Below
  <2>4. CASE UNCHANGED queue
    <3>2. \A u, b : From(u, b)' = From(u, b) /\ Below(u, b)' = Below(u, b)
      BY <2>1, <2>4 DEF From, Below
    <3>3. PendingInv'
      BY <1>3, <2>1, <3>2
    <3> QED BY <2>1, <2>4, <3>2, <3>3 DEF OrderInv, CountInv, Ordered
  <2>5. CASE queue' = [queue EXCEPT ![c] = Append(queue[c], emit[t].msg)]
    <3> DEFINE n == Len(queue[c]) + 1
    <3>1. queue' = [queue EXCEPT ![c] = Append(queue[c], emit[t].msg)] /\ queue[c] \in Seq(Msg)
      BY <2>5 DEF TypeOK
    <3>2. /\ queue'[c] = Append(queue[c], emit[t].msg)
          /\ \A b \in Actors \ {c} : queue'[b] = queue[b]
      BY <3>1 DEF TypeOK
    <3>3. /\ DOMAIN queue'[c] = DOMAIN queue[c] \cup {n} /\ n \in Nat
          /\ \A i \in DOMAIN queue[c] : queue'[c][i] = queue[c][i] /\ i < n /\ i \in Nat
          /\ queue'[c][n].src = t /\ queue'[c][n].seq = sent[t]
      BY <2>3, <3>1, <3>2
    <3> HIDE DEF n
    <3>4. /\ From(t, c)' = From(t, c) \cup {n}
          /\ \A u \in Threads \ {t} : From(u, c)' = From(u, c)
          /\ \A u \in Threads : \A b \in Actors \ {c} : From(u, b)' = From(u, b)
      <4>1. From(t, c)' = From(t, c) \cup {n}
        BY <3>3 DEF From
      <4>2. \A u \in Threads \ {t} : From(u, c)' = From(u, c)
        BY <3>3 DEF From
      <4>3. \A u \in Threads : \A b \in Actors \ {c} : From(u, b)' = From(u, b)
        BY <3>2 DEF From
      <4> QED BY <4>1, <4>2, <4>3
    <3>5. \A u \in Threads : \A i \in From(u, c) :
            queue'[c][i].seq = queue[c][i].seq /\ i < n /\ i \in Nat
      BY <3>3 DEF From
    <3>6. CountInv'
      <4> SUFFICES ASSUME NEW u \in Threads, NEW b \in Actors
                   PROVE  taken[b][u] <= sent[u] /\ \A i \in From(u, b)' : queue'[b][i].seq <= sent[u]
        BY <2>1 DEF CountInv
      <4>1. CASE b # c
        BY <3>2, <3>4, <4>1 DEF OrderInv, CountInv
      <4>2. CASE b = c
        <5>1. /\ taken[c][u] <= sent[u] /\ sent[u] \in Nat
              /\ \A i \in From(u, c) : queue'[c][i].seq <= sent[u]
          BY <1>0, <3>5 DEF OrderInv, CountInv
        <5>2. CASE u = t
          BY <3>3, <3>4, <4>2, <5>1, <5>2
        <5>3. CASE u # t
          BY <3>4, <4>2, <5>1, <5>3
        <5> QED BY <5>2, <5>3
      <4> QED BY <4>1, <4>2
    <3>7. Ordered'
      <4> SUFFICES ASSUME NEW u \in Threads, NEW b \in Actors
                   PROVE  /\ \A i \in From(u, b)' : taken[b][u] < queue'[b][i].seq
                          /\ \A i, j \in From(u, b)' : i < j => queue'[b][i].seq < queue'[b][j].seq
        BY <2>1 DEF Ordered
      <4>1. CASE b # c
        BY <3>2, <3>4, <4>1 DEF OrderInv, Ordered
      <4>2. CASE b = c /\ u # t
        BY <3>4, <3>5, <4>2 DEF OrderInv, Ordered
      <4>3. CASE b = c /\ u = t
        <5>1. \A i \in From(t, c)' : i = n \/ (i \in From(t, c) /\ i < n)
          BY <3>4, <3>5
        <5>2. \A i \in From(t, c)' : taken[c][t] < queue'[c][i].seq
          <6>1. ASSUME NEW i \in From(t, c) PROVE taken[c][t] < queue'[c][i].seq
            BY <3>5 DEF OrderInv, Ordered
          <6>2. taken[c][t] < queue'[c][n].seq
            BY <2>3, <3>3
          <6> QED BY <5>1, <6>1, <6>2
        <5>3. ASSUME NEW i \in From(t, c)', NEW j \in From(t, c)', i < j
              PROVE  queue'[c][i].seq < queue'[c][j].seq
          <6>1. i \in From(t, c) /\ queue'[c][i].seq = queue[c][i].seq
            <7>1. j = n \/ (j \in From(t, c) /\ j < n)
              BY <5>1
            <7>2. i = n => i \in Nat /\ j \in Nat /\ ~(i < j)
              BY <3>3, <3>5, <7>1
            <7> QED BY <3>5, <5>1, <5>3, <7>2
          <6>2. CASE j = n
            BY <2>3, <3>3, <6>1, <6>2
          <6>3. CASE j \in From(t, c)
            BY <3>5, <5>3, <6>1, <6>3 DEF OrderInv, Ordered
          <6> QED BY <5>1, <6>2, <6>3
        <5> QED BY <4>3, <5>2, <5>3
      <4> QED BY <4>1, <4>2, <4>3
    <3>8. PendingInv'
      <4>1. ASSUME NEW u \in Threads, NEW b \in Actors, u = t => b # c, Below(u, b)
            PROVE  Below(u, b)'
        <5>1. CASE b # c
          BY <2>1, <3>2, <3>4, <4>1, <5>1 DEF Below
        <5>2. CASE b = c
          BY <2>1, <3>4, <3>5, <4>1, <5>2 DEF Below
        <5> QED BY <5>1, <5>2
      <4>2. c = Head(emit[t].rest)
        BY <1>0, <2>1, <2>2
      <4> QED BY <1>3, <2>1, <4>1, <4>2
    <3> QED BY <3>6, <3>7, <3>8 DEF OrderInv
  <2> QED BY <2>2, <2>4, <2>5 DEF PutAt
<1>6. ASSUME NEW a \in Actors,
             \/ TestAlive(a) \/ GetReturnsFalse(a) \/ WaitTested(a) \/ WaitBlocks(a)
             \/ TestAgain(a) \/ ActReturns(a) \/ SpuriousWakeup(a)
      PROVE  OrderInv'
  BY <1>6, OrderKept
     DEF TestAlive, GetReturnsFalse, WaitTested, WaitBlocks, TestAgain, ActReturns, SpuriousWakeup
<1>7. ASSUME NEW a \in Actors, Start(a) \/ StopBegins(a) \/ Destroy(a) PROVE OrderInv'
  BY <1>7, OrderKept DEF Start, StopBegins, Destroy
<1>8. CASE DestructorStops \/ StopClears \/ StopNotifies \/ OnTerminateReturns \/ Join
           \/ UNCHANGED vars
  BY <1>8, OrderKept DEF DestructorStops, StopClears, StopNotifies, OnTerminateReturns, Join, vars
<1> QED
  BY <1>1, <1>2, <1>4, <1>5, <1>6, <1>7, <1>8 DEF Next, Loop

(* An actor takes the messages of one thread in the order the thread       *)
(* published them (publish(), Mailbox::get()).                             *)
THEOREM ThreadInOrder == Spec => []InOrder
<1>1. Init => IInv /\ OrderInv
  BY IInvInit, OrderInit
<1>2. (IInv /\ OrderInv) /\ [Next]_vars => (IInv /\ OrderInv)'
  BY IInvNext, OrderNext DEF IInv
<1>3. IInv /\ OrderInv => InOrder
  BY OrderedInOrder DEF IInv, OrderInv
<1> QED BY <1>1, <1>2, <1>3, PTL DEF Spec

-----------------------------------------------------------------------------
(* Refinement: the steps ActorContract sees are the put, the get, the end  *)
(* of act() (or the message dropped by the second test of is_alive_) and   *)
(* the first step of stop().                                               *)

LEMMA PutAccepted ==
  ASSUME TypeOK, ObjectInv, NEW t \in Threads, TryPut(t)
  PROVE  Contract!Accept
<1> DEFINE c == Head(emit[t].rest)
<1>1. c \in Actors /\ emit[t].msg \in Msg
  BY SeqFacts DEF TryPut, TypeOK, ObjectInv
<1>2. PutAt(t, c) /\ UNCHANGED <<alive, hand>>
  BY DEF TryPut
<1> HIDE DEF c
<1>3. queue[c] \in Seq(Msg)
  BY <1>1 DEF TypeOK
<1>4. CASE UNCHANGED queue
  BY <1>2, <1>4 DEF Contract!Accept, TypeOK
<1>5. CASE Room(c) /\ queue' = [queue EXCEPT ![c] = Append(queue[c], emit[t].msg)]
  <2>1. /\ DOMAIN queue' = Actors
        /\ queue'[c] = Append(queue[c], emit[t].msg)
        /\ \A a \in Actors : a # c => queue'[a] = queue[a]
    BY <1>1, <1>5 DEF TypeOK
  <2>2. /\ Len(queue'[c]) = Len(queue[c]) + 1
        /\ queue'[c][Len(queue[c]) + 1] = emit[t].msg
    BY <1>1, <1>3, <2>1
  <2>3. Len(queue[c]) < Capacity[c]
    BY <1>5 DEF Room
  <2> QED
    BY <1>2, <2>1, <2>2, <2>3 DEF Contract!Accept, Contract!Room
<1> QED
  BY <1>2, <1>4, <1>5 DEF PutAt

LEMMA NextContract == IInv /\ [Next]_vars => [Contract!Next]_(Contract!vars)
<1> SUFFICES ASSUME IInv, [Next]_vars
             PROVE  Contract!Next \/ UNCHANGED <<alive, queue, hand>>
  BY DEF Contract!vars
<1> USE ThreadAssumption
<1>0. TypeOK /\ FlagInv /\ HandInv /\ ObjectInv
  BY DEF IInv
<1>1. ASSUME NEW a \in Actors, GetMessage(a) PROVE Contract!Next
  <2>1. hand[a] = {}
    BY <1>0, <1>1 DEF GetMessage, HandInv
  <2>2. Contract!Take(a)
    BY <1>1, <2>1 DEF GetMessage, Contract!Take
  <2> QED
    BY <2>2 DEF Contract!Next
<1>2. ASSUME NEW a \in Actors, TestAgain(a)
      PROVE  Contract!Next \/ UNCHANGED <<alive, queue, hand>>
  <2>1. CASE alive[a]
    BY <1>0, <1>2, <2>1 DEF TestAgain, TypeOK
  <2>2. CASE ~alive[a]
    <3>1. Contract!Finish(a)
      BY <1>2, <2>2 DEF TestAgain, Contract!Finish
    <3> QED
      BY <3>1 DEF Contract!Next
  <2> QED
    BY <2>1, <2>2
<1>3. ASSUME NEW a \in Actors, ActReturns(a) PROVE Contract!Next
  BY <1>3 DEF ActReturns, Contract!Finish, Contract!Next
<1>4. ASSUME NEW a \in Actors,
             TestAlive(a) \/ GetReturnsFalse(a) \/ WaitTested(a) \/ WaitBlocks(a) \/ SpuriousWakeup(a)
      PROVE  UNCHANGED <<alive, queue, hand>>
  BY <1>4 DEF TestAlive, GetReturnsFalse, WaitTested, WaitBlocks, SpuriousWakeup
<1>5. ASSUME NEW t \in Threads, TryPut(t) PROVE Contract!Next
  BY <1>0, <1>5, PutAccepted DEF Contract!Next
<1>6. ASSUME NEW t \in Threads, Publish(t) \/ TestSubscriber(t)
      PROVE  UNCHANGED <<alive, queue, hand>>
  BY <1>6 DEF Publish, TestSubscriber
<1>7. ASSUME NEW a \in Actors, Start(a) PROVE UNCHANGED <<alive, queue, hand>>
  <2>1. alive[a] = TRUE
    BY <1>0, <1>7 DEF Start, FlagInv, TypeOK
  <2> QED
    BY <1>0, <1>7, <2>1 DEF Start, TypeOK
<1>8. ASSUME NEW a \in Actors, StopBegins(a) PROVE Contract!Next
  BY <1>8 DEF StopBegins, Contract!Close, Contract!Next
<1>9. CASE DestructorStops
  BY <1>0, <1>9 DEF DestructorStops, FlagInv, Contract!Close, Contract!Next
<1>10. CASE StopClears \/ StopNotifies \/ OnTerminateReturns \/ Join \/ UNCHANGED vars
            \/ \E a \in Actors : Destroy(a)
  BY <1>10 DEF StopClears, StopNotifies, OnTerminateReturns, Join, Destroy, vars
<1> QED
  BY <1>1, <1>2, <1>3, <1>4, <1>5, <1>6, <1>7, <1>8, <1>9, <1>10 DEF Next, Loop

(* Every actor thread keeps the contract of ActorContract, the same one    *)
(* the SystemVerilog kernel keeps (run_loop(), publish(), stop()).         *)
THEOREM ThreadKeepsContract == Spec => KeepsContract
<1>1. Init => Contract!Init
  BY DEF Init, Contract!Init
<1> QED
  BY <1>1, NextContract, IInvAlways, PTL DEF Spec, KeepsContract, Contract!Spec
=============================================================================
