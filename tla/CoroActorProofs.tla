-------------------------- MODULE CoroActorProofs ---------------------------
(***************************************************************************)
(* Proofs about CoroActor, for any actors, workers and wiring.             *)
(*                                                                         *)
(* The handle of a coroutine is in its mailbox, in the hands of a call to  *)
(* schedule(), in the ready queue or with a worker.  Every step moves it   *)
(* from one of these to another (PlaceInv); that it is never in two is why *)
(* a coroutine found suspended by a worker is not running elsewhere.       *)
(***************************************************************************)
EXTENDS CoroActor, TLAPS

Emission == [msg : Msg, rest : Seq(Actors), at : {"test", "put", "schedule", "notify"}]

(* A step of a publish beyond the test has a consumer it is about.         *)
EmitInv == \A p \in Publishers : emit[p].at # "test" => emit[p].rest # <<>>

Calls(p, a) ==
  p \in Publishers /\ emit[p].at = "schedule" /\ emit[p].rest # <<>> /\ Head(emit[p].rest) = a
Queued(i, a) == i \in DOMAIN ready /\ ready[i] = a
With(w, a) == w \in Workers /\ a \in cur[w]

Held(a) ==
  waiter[a] \/ (\E p : Calls(p, a)) \/ (\E i : Queued(i, a)) \/ (\E w : With(w, a))

Alone(a) ==
  /\ waiter[a] => ~(\E p : Calls(p, a)) /\ ~(\E i : Queued(i, a)) /\ ~(\E w : With(w, a))
  /\ (\E p : Calls(p, a)) => ~(\E i : Queued(i, a)) /\ ~(\E w : With(w, a))
  /\ (\E i : Queued(i, a)) => ~(\E w : With(w, a))
  /\ \A p, q : Calls(p, a) /\ Calls(q, a) => p = q
  /\ \A i, j : Queued(i, a) /\ Queued(j, a) => i = j
  /\ \A v, w : With(v, a) /\ With(w, a) => v = w

PlaceInv ==
  \A a \in Actors : Alone(a) /\ (co[a] \notin {"new", "done"} => Held(a))

(* A coroutine runs on the worker that resumed it and waits only in its    *)
(* mailbox; nobody but main schedules one that has not begun.              *)
Running == {"loop", "ready", "suspend", "wake", "body"}
RunInv ==
  \A a \in Actors :
    /\ co[a] \in Running => \E w \in Workers : wk[w] = "run" /\ a \in cur[w]
    /\ waiter[a] => co[a] = "waiting"
    /\ co[a] = "new" => \A p \in Actors : ~Calls(p, a)

(* A message is at hand only in the body of the loop.                      *)
HandInv == \A a \in Actors : co[a] # "body" => hand[a] = {}

-----------------------------------------------------------------------------
(* Types.                                                                  *)

LEMMA SeqFacts ==
  ASSUME NEW S, NEW s \in Seq(S), s # <<>>
  PROVE  /\ Head(s) \in S /\ Tail(s) \in Seq(S)
         /\ Len(s) \in Nat /\ Len(s) > 0 /\ Len(Tail(s)) = Len(s) - 1
         /\ Head(s) = s[1]
         /\ \A i \in DOMAIN Tail(s) : i + 1 \in DOMAIN s /\ Tail(s)[i] = s[i + 1]
OBVIOUS

LEMMA TypeInit == Init => TypeOK
BY CoroAssumption DEF Init, TypeOK, NoEmission, NoMessage, Msg, Publishers

LEMMA EmitType == TypeOK => emit \in [Publishers -> Emission]
BY DEF TypeOK, Emission

(* A publish moves on: what it is about may change, its message does not.  *)
LEMMA EmissionMoves ==
  ASSUME NEW e \in Emission
  PROVE  /\ \A l \in {"test", "put", "schedule", "notify"} : [e EXCEPT !.at = l] \in Emission
         /\ e.rest # <<>> => NextSub(e) \in Emission
BY SeqFacts DEF Emission, NextSub

LEMMA ReceiveType ==
  ASSUME TypeOK, NEW a \in Actors, box[a] # <<>>, Receive(a)
  PROVE  /\ box' \in [Actors -> Seq(Msg)] /\ hand' \in [Actors -> SUBSET Msg]
         /\ co' \in [Actors -> {"new", "loop", "ready", "suspend", "waiting", "wake", "body", "done"}]
<1>1. box[a] \in Seq(Msg)
  BY DEF TypeOK
<1>2. Head(box[a]) \in Msg /\ Tail(box[a]) \in Seq(Msg)
  BY <1>1, SeqFacts
<1> QED BY <1>2 DEF Receive, TypeOK

LEMMA TypeNext == TypeOK /\ EmitInv /\ [Next]_vars => TypeOK'
<1> SUFFICES ASSUME TypeOK, EmitInv, [Next]_vars PROVE TypeOK'
  OBVIOUS
<1> USE CoroAssumption
<1>1. ASSUME NEW w \in Workers,
             WorkerTests(w) \/ WorkerLeaves(w) \/ WorkerWaits(w) \/ WorkerBlocks(w)
               \/ SpuriousWakeup(w)
      PROVE  TypeOK'
  BY <1>1 DEF WorkerTests, WorkerLeaves, WorkerWaits, WorkerBlocks, SpuriousWakeup, TypeOK
<1>2. ASSUME NEW w \in Workers, WorkerPops(w) PROVE TypeOK'
  <2>1. Head(ready) \in Actors /\ Tail(ready) \in Seq(Actors)
    BY <1>2, SeqFacts DEF WorkerPops, TypeOK
  <2> QED BY <1>2, <2>1 DEF WorkerPops, TypeOK
<1>3. ASSUME NEW w \in Workers, NEW a \in Actors, WorkerResumes(w, a) PROVE TypeOK'
  <2>1. CASE wk' = [wk EXCEPT ![w] = "test"] /\ cur' = [cur EXCEPT ![w] = {}] /\ UNCHANGED co
    BY <1>3, <2>1 DEF WorkerResumes, TypeOK
  <2>2. CASE /\ wk' = [wk EXCEPT ![w] = "run"] /\ UNCHANGED cur
             /\ co' = [co EXCEPT ![a] = IF @ = "new" THEN "loop" ELSE "wake"]
    BY <1>3, <2>2 DEF WorkerResumes, TypeOK
  <2> QED BY <1>3, <2>1, <2>2 DEF WorkerResumes
<1>4. ASSUME NEW w \in Workers, NEW a \in Actors, LoopTest(w, a) PROVE TypeOK'
  <2>1. CASE co' = [co EXCEPT ![a] = "ready"] /\ UNCHANGED <<wk, cur>>
    BY <1>4, <2>1 DEF LoopTest, TypeOK
  <2>2. CASE co' = [co EXCEPT ![a] = "done"] /\ Yield(w)
    BY <1>4, <2>2 DEF LoopTest, Yield, TypeOK
  <2> QED BY <1>4, <2>1, <2>2 DEF LoopTest
<1>5. ASSUME NEW w \in Workers, NEW a \in Actors, AwaitReady(w, a) PROVE TypeOK'
  <2>1. CASE box[a] # <<>> /\ Receive(a)
    BY <1>5, <2>1, ReceiveType DEF AwaitReady, TypeOK
  <2>2. CASE UNCHANGED <<box, hand>> /\ co' = [co EXCEPT ![a] = "suspend"]
    BY <1>5, <2>2 DEF AwaitReady, TypeOK
  <2> QED BY <1>5, <2>1, <2>2 DEF AwaitReady
<1>6. ASSUME NEW w \in Workers, NEW a \in Actors, AwaitSuspend(w, a) PROVE TypeOK'
  <2>1. CASE box[a] # <<>> /\ Receive(a) /\ UNCHANGED <<waiter, wk, cur>>
    BY <1>6, <2>1, ReceiveType DEF AwaitSuspend, TypeOK
  <2>2. CASE /\ waiter' = [waiter EXCEPT ![a] = TRUE]
             /\ co' = [co EXCEPT ![a] = "waiting"]
             /\ Yield(w) /\ UNCHANGED <<box, hand>>
    BY <1>6, <2>2 DEF AwaitSuspend, Yield, TypeOK
  <2> QED BY <1>6, <2>1, <2>2 DEF AwaitSuspend
<1>7. ASSUME NEW w \in Workers, NEW a \in Actors, AwaitResume(w, a) PROVE TypeOK'
  BY <1>7, ReceiveType DEF AwaitResume, TypeOK
<1>8. ASSUME NEW w \in Workers, NEW a \in Actors, BodyEnds(w, a) PROVE TypeOK'
  BY <1>8 DEF BodyEnds, TypeOK
<1>9. ASSUME NEW p \in Publishers, NEW e \in Emission, emit' = [emit EXCEPT ![p] = e]
      PROVE  emit' \in [Publishers -> [msg : Msg, rest : Seq(Actors),
                                       at : {"test", "put", "schedule", "notify"}]]
  BY <1>9, EmitType DEF Emission
<1>10. ASSUME NEW p \in Publishers
       PROVE  /\ emit[p] \in Emission /\ emit[p].msg \in Msg
              /\ emit[p].at # "test" => Head(emit[p].rest) \in Actors
              /\ emit[p].rest # <<>> => NextSub(emit[p]) \in Emission
              /\ \A l \in {"test", "put", "schedule", "notify"} :
                   [emit[p] EXCEPT !.at = l] \in Emission
  BY EmitType, EmissionMoves, SeqFacts DEF EmitInv, Emission
<1>11. ASSUME NEW p \in Publishers, Publish(p) PROVE TypeOK'
  <2>1. [msg |-> [src |-> p, seq |-> sent[p] + 1], rest |-> Subs[p], at |-> "test"] \in Emission
    BY DEF TypeOK, Emission, Msg
  <2>2. sent' \in [Publishers -> Nat] /\ called' \in [Actors -> BOOLEAN]
    BY <1>11 DEF Publish, TypeOK
  <2> QED BY <1>9, <1>11, <2>1, <2>2 DEF Publish, TypeOK
<1>12. ASSUME NEW p \in Publishers, TestSubscriber(p) PROVE TypeOK'
  <2>1. \E e \in Emission : emit' = [emit EXCEPT ![p] = e]
    BY <1>10, <1>12 DEF TestSubscriber
  <2> QED BY <1>9, <1>12, <2>1 DEF TestSubscriber, TypeOK
<1>13. ASSUME NEW p \in Publishers, Put(p) PROVE TypeOK'
  <2> DEFINE c == Head(emit[p].rest)
  <2>1. c \in Actors /\ emit[p].msg \in Msg /\ emit[p].rest # <<>>
    BY <1>10, <1>13 DEF Put, EmitInv
  <2>2. \E e \in Emission : emit' = [emit EXCEPT ![p] = e]
    BY <1>10, <1>13, <2>1 DEF Put
  <2>3. box' \in [Actors -> Seq(Msg)] /\ waiter' \in [Actors -> BOOLEAN]
    BY <1>13, <2>1 DEF Put, TypeOK
  <2> QED BY <1>9, <1>13, <2>2, <2>3 DEF Put, TypeOK
<1>14. ASSUME NEW p \in Publishers, Schedule(p) PROVE TypeOK'
  <2>1. \E e \in Emission : emit' = [emit EXCEPT ![p] = e]
    <3>1. emit' = [emit EXCEPT ![p] = [emit[p] EXCEPT !.at = "notify"]]
      BY <1>14, EmitType DEF Schedule
    <3> QED BY <1>10, <3>1
  <2>2. Head(emit[p].rest) \in Actors /\ ready \in Seq(Actors)
    BY <1>10, <1>14 DEF Schedule, TypeOK
  <2>3. ready' \in Seq(Actors)
    BY <1>14, <2>2 DEF Schedule
  <2> QED BY <1>9, <1>14, <2>1, <2>3 DEF Schedule, TypeOK
<1>15. ASSUME NEW p \in Publishers, Notify(p) PROVE TypeOK'
  <2>1. \E e \in Emission : emit' = [emit EXCEPT ![p] = e]
    BY <1>10, <1>15 DEF Notify, EmitInv
  <2>2. /\ wk' \in [Workers -> {"test", "enter", "sleepy", "blocked", "resume", "run", "exit"}]
        /\ \A w \in Workers : wk'[w] \in {"resume", "run"} <=> wk[w] \in {"resume", "run"}
    BY <1>15 DEF Notify, WakeOne, TypeOK
  <2> QED BY <1>9, <1>15, <2>1, <2>2 DEF Notify, TypeOK
<1>16. ASSUME NEW a \in Actors, Start(a) PROVE TypeOK'
  <2>1. [msg |-> NoMessage, rest |-> <<a>>, at |-> "schedule"] \in Emission /\ Main \in Publishers
    BY DEF Emission, Msg, NoMessage, Publishers
  <2> QED BY <1>9, <1>16, <2>1 DEF Start, TypeOK
<1>17. ASSUME NEW a \in Actors, Stop(a) PROVE TypeOK'
  BY <1>17 DEF Stop, TypeOK
<1>18. CASE StopNotifies
  BY <1>18 DEF StopNotifies, TypeOK
<1>19. CASE StopBegins \/ Joined \/ UNCHANGED vars
  BY <1>19 DEF StopBegins, Joined, vars, TypeOK
<1> QED
  BY <1>1, <1>2, <1>3, <1>4, <1>5, <1>6, <1>7, <1>8, <1>11, <1>12, <1>13, <1>14, <1>15, <1>16,
     <1>17, <1>18, <1>19 DEF Next, Works, InMutex, Coroutine, Emits

-----------------------------------------------------------------------------
(* Publishes, and what is at hand.                                         *)

LEMMA EmitInvNext == TypeOK /\ EmitInv /\ [Next]_vars => EmitInv'
<1> SUFFICES ASSUME TypeOK, EmitInv, [Next]_vars PROVE EmitInv'
  OBVIOUS
<1> USE CoroAssumption
<1>1. ASSUME UNCHANGED emit PROVE EmitInv'
  BY <1>1 DEF EmitInv
<1>2. ASSUME NEW p \in Publishers, NEW e, emit' = [emit EXCEPT ![p] = e],
             e.at # "test" => e.rest # <<>>
      PROVE  EmitInv'
  BY <1>2 DEF EmitInv, TypeOK
<1>3. \A p \in Publishers : NextSub(emit[p]).at = "test"
  BY EmitType DEF NextSub, Emission
<1>4. ASSUME NEW p \in Publishers, NEW l
      PROVE  [emit[p] EXCEPT !.at = l].rest = emit[p].rest
  BY EmitType DEF Emission
<1>5. ASSUME NEW p \in Publishers, Publish(p) PROVE EmitInv'
  BY <1>2, <1>5 DEF Publish
<1>6. ASSUME NEW p \in Publishers, TestSubscriber(p) PROVE EmitInv'
  BY <1>2, <1>3, <1>4, <1>6 DEF TestSubscriber
<1>7. ASSUME NEW p \in Publishers, Put(p) PROVE EmitInv'
  BY <1>2, <1>3, <1>4, <1>7 DEF Put, EmitInv
<1>8. ASSUME NEW p \in Publishers, Schedule(p) PROVE EmitInv'
  <2>1. emit' = [emit EXCEPT ![p] = [emit[p] EXCEPT !.at = "notify"]]
    BY <1>8, EmitType DEF Schedule
  <2>2. emit[p].rest # <<>>
    BY <1>8 DEF Schedule, EmitInv
  <2> QED BY <1>2, <1>4, <2>1, <2>2
<1>9. ASSUME NEW p \in Publishers, Notify(p) PROVE EmitInv'
  BY <1>2, <1>3, <1>9 DEF Notify
<1>10. ASSUME NEW a \in Actors, Start(a) PROVE EmitInv'
  <2>1. Main \in Publishers /\ <<a>> # <<>>
    BY DEF Publishers
  <2> QED BY <1>2, <1>10, <2>1 DEF Start
<1>11. ASSUME NEW w \in Workers, Works(w) \/ InMutex(w) \/ SpuriousWakeup(w) PROVE EmitInv'
  BY <1>1, <1>11
     DEF Works, WorkerTests, WorkerBlocks, Coroutine, WorkerResumes, LoopTest, AwaitReady,
         AwaitSuspend, AwaitResume, BodyEnds, InMutex, WorkerPops, WorkerLeaves, WorkerWaits,
         SpuriousWakeup
<1>12. ASSUME NEW a \in Actors, Stop(a) PROVE EmitInv'
  BY <1>1, <1>12 DEF Stop
<1>13. CASE StopBegins \/ StopNotifies \/ Joined \/ UNCHANGED vars
  BY <1>1, <1>13 DEF StopBegins, StopNotifies, Joined, vars
<1> QED
  BY <1>5, <1>6, <1>7, <1>8, <1>9, <1>10, <1>11, <1>12, <1>13 DEF Next, Emits

-----------------------------------------------------------------------------
(* Handles.                                                                *)

(* A worker that has taken a handle finds the coroutine suspended.         *)
LEMMA Suspended ==
  ASSUME TypeOK, PlaceInv, RunInv, NEW w \in Workers, NEW a \in Actors,
         wk[w] = "resume", cur[w] = {a}
  PROVE  co[a] \notin Running
<1> SUFFICES ASSUME co[a] \in Running PROVE FALSE
  OBVIOUS
<1>1. PICK v \in Workers : wk[v] = "run" /\ a \in cur[v]
  BY DEF RunInv
<1>2. With(v, a) /\ With(w, a)
  BY <1>1 DEF With
<1>3. v = w
  BY <1>2 DEF PlaceInv, Alone
<1> QED BY <1>1, <1>3

(* What a running coroutine does with its worker: go on, return, or wait.  *)
GoesOn(w, a) ==
  (\E l \in Running \ {"wake"} : co' = [co EXCEPT ![a] = l]) /\ UNCHANGED <<wk, cur, waiter>>
Returns(w, a) == co' = [co EXCEPT ![a] = "done"] /\ Yield(w) /\ UNCHANGED waiter
Waits(w, a) ==
  /\ box[a] = <<>> /\ co[a] = "suspend"
  /\ co' = [co EXCEPT ![a] = "waiting"] /\ Yield(w)
  /\ waiter' = [waiter EXCEPT ![a] = TRUE] /\ UNCHANGED <<box, hand>>

Runs(w, a) ==
  \/ LoopTest(w, a) \/ AwaitReady(w, a) \/ AwaitSuspend(w, a) \/ AwaitResume(w, a)
  \/ BodyEnds(w, a)

LEMMA CoroutineMoves ==
  ASSUME TypeOK, NEW w \in Workers, NEW a \in Actors, Runs(w, a)
  PROVE  /\ On(w, a) /\ co[a] \in Running /\ UNCHANGED <<emit, ready>>
         /\ \A b \in Actors \ {a} : box'[b] = box[b]
         /\ GoesOn(w, a) \/ Returns(w, a) \/ Waits(w, a)
<1>1. CASE LoopTest(w, a)
  BY <1>1 DEF LoopTest, GoesOn, Returns, Running, TypeOK
<1>2. CASE AwaitReady(w, a)
  BY <1>2 DEF AwaitReady, Receive, GoesOn, Running, TypeOK
<1>3. CASE AwaitSuspend(w, a)
  BY <1>3 DEF AwaitSuspend, Receive, GoesOn, Waits, Running, TypeOK
<1>4. CASE AwaitResume(w, a)
  BY <1>4 DEF AwaitResume, Receive, GoesOn, Running, TypeOK
<1>5. CASE BodyEnds(w, a)
  BY <1>5 DEF BodyEnds, GoesOn, Running, TypeOK
<1> QED BY <1>1, <1>2, <1>3, <1>4, <1>5 DEF Runs

(* Steps that move no handle.                                              *)
LEMMA PlaceKept ==
  ASSUME PlaceInv, UNCHANGED <<waiter, ready, cur>>,
         \A p : \A a \in Actors : Calls(p, a)' <=> Calls(p, a),
         \A a \in Actors : co'[a] \notin {"new", "done"} => co[a] \notin {"new", "done"} \/ Held(a)
  PROVE  PlaceInv'
<1>1. \A a \in Actors : Alone(a)'
  BY DEF PlaceInv, Alone, Queued, With
<1>2. \A a \in Actors : Held(a)' <=> Held(a)
  BY DEF Held, Queued, With
<1> QED BY <1>1, <1>2 DEF PlaceInv

LEMMA PlaceNext == TypeOK /\ EmitInv /\ PlaceInv /\ RunInv /\ [Next]_vars => PlaceInv'
<1> SUFFICES ASSUME TypeOK, EmitInv, PlaceInv, RunInv, [Next]_vars PROVE PlaceInv'
  OBVIOUS
<1> USE CoroAssumption
<1>0. ASSUME UNCHANGED <<emit, waiter, ready, cur, co>> PROVE PlaceInv'
  BY <1>0, PlaceKept DEF Calls
<1>1. ASSUME NEW w \in Workers,
             WorkerTests(w) \/ WorkerLeaves(w) \/ WorkerWaits(w) \/ WorkerBlocks(w)
               \/ SpuriousWakeup(w)
      PROVE  PlaceInv'
  BY <1>0, <1>1 DEF WorkerTests, WorkerLeaves, WorkerWaits, WorkerBlocks, SpuriousWakeup
<1>2. ASSUME NEW w \in Workers, WorkerPops(w) PROVE PlaceInv'
  <2> DEFINE h == Head(ready)
  <2>1. /\ ready' = Tail(ready) /\ cur' = [cur EXCEPT ![w] = {h}] /\ cur[w] = {}
        /\ UNCHANGED <<waiter, emit, co>>
    BY <1>2 DEF WorkerPops, TypeOK
  <2>2. ready \in Seq(Actors) /\ ready # <<>> /\ h \in Actors /\ 1 \in DOMAIN ready /\ h = ready[1]
    BY <1>2, SeqFacts DEF WorkerPops, TypeOK
  <2> HIDE DEF h
  <2>3. /\ DOMAIN ready = 1 .. Len(ready) /\ Len(ready) \in Nat
        /\ DOMAIN ready' = 1 .. Len(ready) - 1
        /\ \A i \in DOMAIN ready' : i + 1 \in DOMAIN ready /\ ready'[i] = ready[i + 1]
    BY <2>1, <2>2
  <2>4. ASSUME NEW a \in Actors PROVE Alone(a)' /\ (Held(a) => Held(a)')
    <3>1. \A p : Calls(p, a)' <=> Calls(p, a)
      BY <2>1 DEF Calls
    <3>2. ASSUME NEW i, Queued(i, a)' PROVE i + 1 \in Nat /\ Queued(i + 1, a) /\ i \in Nat
      BY <2>3, <3>2 DEF Queued
    <3>3. CASE a = h
      <4>1. Queued(1, a)
        BY <2>2, <3>3 DEF Queued
      <4>2. ~waiter[a] /\ (\A p : ~Calls(p, a)) /\ (\A v : ~With(v, a))
        BY <4>1 DEF PlaceInv, Alone
      <4>3. \A v : With(v, a)' <=> v = w
        BY <2>1, <3>3, <4>2 DEF With, TypeOK
      <4>4. \A i : ~Queued(i, a)'
        <5> SUFFICES ASSUME NEW i, Queued(i, a)' PROVE FALSE
          OBVIOUS
        <5>1. i \in Nat /\ i >= 1 /\ Queued(i + 1, a)
          BY <2>3 DEF Queued
        <5>2. i + 1 = 1
          BY <4>1, <5>1 DEF PlaceInv, Alone
        <5> QED BY <5>1, <5>2
      <4>5. Alone(a)'
        BY <2>1, <3>1, <4>2, <4>3, <4>4 DEF Alone
      <4>6. Held(a)'
        BY <4>3 DEF Held
      <4> QED BY <4>5, <4>6
    <3>4. CASE a # h
      <4>1. \A v : With(v, a)' <=> With(v, a)
        BY <2>1, <3>4 DEF With, TypeOK
      <4>2. \A i, j : Queued(i, a)' /\ Queued(j, a)' => i = j
        <5> SUFFICES ASSUME NEW i, NEW j, Queued(i, a)', Queued(j, a)' PROVE i = j
          OBVIOUS
        <5>1. i \in Nat /\ j \in Nat /\ Queued(i + 1, a) /\ Queued(j + 1, a)
          BY <3>2
        <5>2. i + 1 = j + 1
          BY <5>1 DEF PlaceInv, Alone
        <5> QED BY <5>1, <5>2
      <4>3. ASSUME NEW i, Queued(i, a) PROVE \E j : Queued(j, a)'
        <5>1. i \in DOMAIN ready /\ ready[i] = a /\ i # 1
          BY <2>2, <3>4, <4>3 DEF Queued
        <5>2. i - 1 \in DOMAIN ready' /\ (i - 1) + 1 = i
          BY <2>3, <5>1
        <5>3. ready'[i - 1] = ready[i]
          BY <2>3, <5>2
        <5> QED BY <5>1, <5>2, <5>3 DEF Queued
      <4>4. (\E i : Queued(i, a)') <=> (\E i : Queued(i, a))
        BY <3>2, <4>3
      <4> QED BY <2>1, <3>1, <4>1, <4>2, <4>4 DEF PlaceInv, Alone, Held
    <3> QED BY <3>3, <3>4
  <2> QED BY <2>1, <2>4 DEF PlaceInv
<1>3. ASSUME NEW w \in Workers, NEW a \in Actors, cur[w] = {a}, cur' = [cur EXCEPT ![w] = {}],
             UNCHANGED <<emit, ready>>,
             \/ UNCHANGED waiter /\ co'[a] = "done"
             \/ waiter' = [waiter EXCEPT ![a] = TRUE] /\ co'[a] = "waiting",
             \A b \in Actors \ {a} : co'[b] = co[b]
      PROVE  PlaceInv'
  <2>1. With(w, a)
    BY <1>3 DEF With
  <2>2. /\ ~waiter[a] /\ (\A p : ~Calls(p, a)) /\ (\A i : ~Queued(i, a))
        /\ \A v : With(v, a) => v = w
    BY <2>1 DEF PlaceInv, Alone
  <2>3. \A b \in Actors : \A p : Calls(p, b)' <=> Calls(p, b)
    BY <1>3 DEF Calls
  <2>4. \A b \in Actors : \A i : Queued(i, b)' <=> Queued(i, b)
    BY <1>3 DEF Queued
  <2>5. \A v : ~With(v, a)'
    BY <1>3, <2>2 DEF With, TypeOK
  <2>6. Alone(a)' /\ (co'[a] \notin {"new", "done"} => Held(a)')
    BY <1>3, <2>2, <2>3, <2>4, <2>5 DEF Alone, Held, TypeOK
  <2>7. ASSUME NEW b \in Actors \ {a}
        PROVE  Alone(b)' /\ (co'[b] \notin {"new", "done"} => Held(b)')
    <3>1. waiter'[b] = waiter[b] /\ \A v : With(v, b)' <=> With(v, b)
      BY <1>3 DEF With, TypeOK
    <3> QED BY <1>3, <2>3, <2>4, <3>1 DEF PlaceInv, Alone, Held
  <2> QED BY <2>6, <2>7 DEF PlaceInv
<1>4. ASSUME NEW w \in Workers, NEW a \in Actors, WorkerResumes(w, a) PROVE PlaceInv'
  <2>1. CASE co[a] = "done"
    BY <1>3, <1>4, <2>1 DEF WorkerResumes
  <2>2. CASE co[a] # "done"
    <3>1. Held(a)
      BY <1>4 DEF WorkerResumes, Held, With
    <3>2. UNCHANGED <<waiter, ready, cur, emit>> /\ \A b \in Actors \ {a} : co'[b] = co[b]
      BY <1>4, <2>2 DEF WorkerResumes, TypeOK
    <3> QED BY <3>1, <3>2, PlaceKept DEF Calls
  <2> QED BY <2>1, <2>2
<1>5. ASSUME NEW w \in Workers, NEW a \in Actors, Runs(w, a) PROVE PlaceInv'
  <2>1. /\ cur[w] = {a} /\ co[a] \in Running /\ UNCHANGED <<emit, ready>>
        /\ GoesOn(w, a) \/ Returns(w, a) \/ Waits(w, a)
    BY <1>5, CoroutineMoves DEF On
  <2>2. CASE GoesOn(w, a)
    <3>1. \A b \in Actors : co'[b] = co[b] \/ b = a
      BY <2>2 DEF GoesOn, TypeOK
    <3> QED BY <2>1, <2>2, <3>1, PlaceKept DEF GoesOn, Calls, Running
  <2>3. CASE Returns(w, a)
    <3>1. co'[a] = "done" /\ \A b \in Actors \ {a} : co'[b] = co[b]
      BY <2>3 DEF Returns, TypeOK
    <3> QED BY <1>3, <2>1, <2>3, <3>1 DEF Returns, Yield
  <2>4. CASE Waits(w, a)
    <3>1. co'[a] = "waiting" /\ \A b \in Actors \ {a} : co'[b] = co[b]
      BY <2>4 DEF Waits, TypeOK
    <3> QED BY <1>3, <2>1, <2>4, <3>1 DEF Waits, Yield
  <2> QED BY <2>1, <2>2, <2>3, <2>4
<1>6. ASSUME NEW p \in Publishers, NEW e, emit' = [emit EXCEPT ![p] = e],
             emit[p].at # "schedule" \/ emit[p].rest = <<>>, e.at # "schedule"
      PROVE  \A q, a : Calls(q, a)' <=> Calls(q, a)
  BY <1>6 DEF Calls, TypeOK
<1>7. \A p \in Publishers : NextSub(emit[p]).at = "test"
  BY EmitType DEF NextSub, Emission
<1>8. ASSUME NEW p \in Publishers, NEW l
      PROVE  [emit[p] EXCEPT !.at = l].rest = emit[p].rest /\ [emit[p] EXCEPT !.at = l].at = l
  BY EmitType DEF Emission
<1>9. ASSUME NEW p \in Publishers,
             Publish(p) \/ TestSubscriber(p) \/ Notify(p) \/ (Put(p) /\ ~waiter[Head(emit[p].rest)])
      PROVE  PlaceInv'
  <2>1. UNCHANGED <<waiter, ready, cur, co>>
    <3>1. CASE Put(p) /\ ~waiter[Head(emit[p].rest)]
      <4>1. waiter' = waiter
        BY <3>1 DEF Put, TypeOK
      <4> QED BY <3>1, <4>1 DEF Put
    <3> QED BY <1>9, <3>1 DEF Publish, TestSubscriber, Notify
  <2>2. /\ emit[p].at # "schedule" \/ emit[p].rest = <<>>
        /\ \E e : emit' = [emit EXCEPT ![p] = e] /\ e.at # "schedule"
    <3>1. CASE Publish(p)
      <4> DEFINE e == [msg |-> [src |-> p, seq |-> sent[p] + 1], rest |-> Subs[p], at |-> "test"]
      <4>1. e.at # "schedule"
        OBVIOUS
      <4> HIDE DEF e
      <4>2. emit' = [emit EXCEPT ![p] = e] /\ emit[p].rest = <<>>
        BY <3>1 DEF Publish, e
      <4> QED BY <4>1, <4>2
    <3>2. CASE TestSubscriber(p)
      <4>1. /\ emit[p].at = "test"
            /\ \/ emit' = [emit EXCEPT ![p] = [emit[p] EXCEPT !.at = "put"]]
               \/ emit' = [emit EXCEPT ![p] = NextSub(emit[p])]
        BY <3>2 DEF TestSubscriber
      <4>2. [emit[p] EXCEPT !.at = "put"].at # "schedule" /\ NextSub(emit[p]).at # "schedule"
        BY <1>7, <1>8
      <4> QED BY <4>1, <4>2
    <3>3. CASE Notify(p)
      BY <1>7, <3>3 DEF Notify
    <3>4. CASE Put(p) /\ ~waiter[Head(emit[p].rest)]
      BY <1>7, <3>4 DEF Put
    <3> QED BY <1>9, <3>1, <3>2, <3>3, <3>4
  <2>3. \A q, a : Calls(q, a)' <=> Calls(q, a)
    BY <1>6, <2>2
  <2> QED BY <2>1, <2>3, PlaceKept
<1>10. ASSUME NEW p \in Publishers, NEW a \in Actors,
              \A q, b : Calls(q, b)' <=> Calls(q, b) \/ (q = p /\ b = a),
              ~\E q : Calls(q, a), ~\E i : Queued(i, a), ~\E v : With(v, a),
              ~waiter'[a], \A b \in Actors \ {a} : waiter'[b] = waiter[b],
              UNCHANGED <<ready, cur, co>>
       PROVE  PlaceInv'
  <2>1. /\ \A b : \A i : Queued(i, b)' <=> Queued(i, b)
        /\ \A b : \A v : With(v, b)' <=> With(v, b)
    BY <1>10 DEF Queued, With
  <2>2. Alone(a)' /\ Held(a)'
    <3>1. /\ ~waiter'[a] /\ (~\E i : Queued(i, a)') /\ (~\E v : With(v, a)')
          /\ \A q : Calls(q, a)' <=> q = p
      BY <1>10, <2>1
    <3>2. Alone(a)'
      BY <3>1 DEF Alone
    <3>3. Held(a)'
      BY <3>1 DEF Held
    <3> QED BY <3>2, <3>3
  <2>3. ASSUME NEW b \in Actors \ {a} PROVE Alone(b)' /\ (Held(b)' <=> Held(b))
    <3>1. \A q : Calls(q, b)' <=> Calls(q, b)
      BY <1>10
    <3> QED BY <1>10, <2>1, <3>1 DEF PlaceInv, Alone, Held
  <2> QED BY <1>10, <2>2, <2>3 DEF PlaceInv
<1>11. ASSUME NEW p \in Publishers, Put(p), waiter[Head(emit[p].rest)] PROVE PlaceInv'
  <2> DEFINE c == Head(emit[p].rest)
  <2>1. emit[p].rest # <<>> /\ c \in Actors
    BY <1>11, SeqFacts DEF Put, EmitInv, TypeOK
  <2>2. emit' = [emit EXCEPT ![p] = [emit[p] EXCEPT !.at = "schedule"]]
    BY <1>11 DEF Put
  <2>3. \A q, b : Calls(q, b)' <=> Calls(q, b) \/ (q = p /\ b = c)
    <3>1. emit[p].at = "put" /\ DOMAIN emit = Publishers
      BY <1>11 DEF Put, TypeOK
    <3> QED BY <1>8, <2>1, <2>2, <3>1 DEF Calls
  <2> HIDE DEF c
  <2>4. waiter[c] /\ waiter' = [waiter EXCEPT ![c] = FALSE] /\ UNCHANGED <<ready, cur, co>>
    BY <1>11 DEF Put, c
  <2>5. (~\E q : Calls(q, c)) /\ (~\E i : Queued(i, c)) /\ ~\E v : With(v, c)
    BY <2>1, <2>4 DEF PlaceInv, Alone
  <2>6. ~waiter'[c] /\ \A b \in Actors \ {c} : waiter'[b] = waiter[b]
    BY <2>1, <2>4 DEF TypeOK
  <2> QED BY <1>10, <2>1, <2>3, <2>4, <2>5, <2>6
<1>12. ASSUME NEW a \in Actors, Start(a) PROVE PlaceInv'
  <2> DEFINE e == [msg |-> NoMessage, rest |-> <<a>>, at |-> "schedule"]
  <2>1. /\ emit' = [emit EXCEPT ![Main] = e] /\ emit[Main].rest = <<>> /\ co[a] = "new"
        /\ UNCHANGED <<waiter, ready, cur, co>>
    BY <1>12 DEF Start, MainFree
  <2>2. Main \in Publishers /\ DOMAIN emit = Publishers
    BY DEF Publishers, TypeOK
  <2>3. e.rest # <<>> /\ Head(e.rest) = a /\ e.at = "schedule"
    OBVIOUS
  <2> HIDE DEF e
  <2>4. \A q, b : Calls(q, b)' <=> Calls(q, b) \/ (q = Main /\ b = a)
    BY <2>1, <2>2, <2>3 DEF Calls
  <2>5. ~\E q : Calls(q, a)
    BY <2>1 DEF RunInv, Calls, Publishers
  <2>6. (~\E i : Queued(i, a)) /\ (~\E v : With(v, a)) /\ ~waiter[a]
    BY <1>12, <2>1 DEF Start, Queued, With, RunInv
  <2> QED BY <1>10, <2>1, <2>2, <2>4, <2>5, <2>6
<1>13. ASSUME NEW p \in Publishers, Schedule(p) PROVE PlaceInv'
  <2>0. PICK c \in Actors : c = Head(emit[p].rest)
    BY <1>13, SeqFacts DEF Schedule, EmitInv, TypeOK
  <2>1. /\ emit[p].at = "schedule" /\ emit[p].rest # <<>> /\ ready \in Seq(Actors)
        /\ ready' = Append(ready, c) /\ UNCHANGED <<waiter, cur, co>>
    BY <1>13, <2>0 DEF Schedule, EmitInv, TypeOK
  <2>2. emit' = [emit EXCEPT ![p] = [emit[p] EXCEPT !.at = "notify"]] /\ DOMAIN emit = Publishers
    BY <1>13, EmitType DEF Schedule
  <2>3. Calls(p, c)
    BY <2>0, <2>1 DEF Calls
  <2>4. \A q, b : Calls(q, b)' <=> Calls(q, b) /\ q # p
    BY <1>8, <2>2 DEF Calls
  <2>5. \A b \in Actors \ {c} : ~Calls(p, b)
    BY <2>0 DEF Calls
  <2> DEFINE n == Len(ready) + 1
  <2>6. /\ DOMAIN ready = 1 .. Len(ready) /\ Len(ready) \in Nat /\ DOMAIN ready' = 1 .. n
        /\ ready'[n] = c /\ \A i \in DOMAIN ready : ready'[i] = ready[i]
    BY <2>1
  <2>7. n \notin DOMAIN ready /\ DOMAIN ready' = DOMAIN ready \cup {n}
    BY <2>6
  <2> HIDE DEF n
  <2>8. \A b, i : Queued(i, b)' <=> Queued(i, b) \/ (i = n /\ b = c)
    BY <2>6, <2>7 DEF Queued
  <2>9. \A b, v : With(v, b)' <=> With(v, b)
    BY <2>1 DEF With
  <2>10. /\ ~waiter[c] /\ (~\E i : Queued(i, c)) /\ (~\E v : With(v, c))
         /\ \A q : Calls(q, c) => q = p
    BY <2>1, <2>3 DEF PlaceInv, Alone
  <2>11. /\ ~\E q : Calls(q, c)'
         /\ \A i : Queued(i, c)' <=> i = n
    <3>1. ~\E q : Calls(q, c)'
      BY <2>4, <2>10
    <3>2. \A i : Queued(i, c)' <=> i = n
      BY <2>8, <2>10
    <3> QED BY <3>1, <3>2
  <2>12. Alone(c)' /\ Held(c)'
    <3>1. ~waiter'[c] /\ ~\E v : With(v, c)'
      BY <2>1, <2>9, <2>10
    <3>2. Alone(c)'
      BY <2>11, <3>1 DEF Alone
    <3>3. Held(c)'
      BY <2>11 DEF Held
    <3> QED BY <3>2, <3>3
  <2>13. ASSUME NEW b \in Actors \ {c} PROVE Alone(b)' /\ (Held(b)' <=> Held(b))
    <3>1. /\ \A q : Calls(q, b)' <=> Calls(q, b)
          /\ \A i : Queued(i, b)' <=> Queued(i, b)
      BY <2>4, <2>5, <2>8
    <3>2. waiter'[b] = waiter[b] /\ \A v : With(v, b)' <=> With(v, b)
      BY <2>1, <2>9
    <3>3. Alone(b)
      BY DEF PlaceInv
    <3>4. Alone(b)'
      BY <3>1, <3>2, <3>3 DEF Alone
    <3>5. Held(b)' <=> Held(b)
      BY <3>1, <3>2 DEF Held
    <3> QED BY <3>4, <3>5
  <2> QED BY <2>1, <2>12, <2>13 DEF PlaceInv
<1>14. CASE \/ StopBegins \/ StopNotifies \/ Joined \/ UNCHANGED vars
            \/ \E a \in Actors : Stop(a)
  BY <1>0, <1>14 DEF StopBegins, StopNotifies, Joined, Stop, vars
<1> QED
  BY <1>1, <1>2, <1>4, <1>5, <1>9, <1>11, <1>12, <1>13, <1>14
     DEF Next, Works, InMutex, Coroutine, Emits, Runs

(* Steps that start or end no coroutine and no wait.                       *)
LEMMA RunKept ==
  ASSUME RunInv, UNCHANGED <<co, waiter>>,
         \A w \in Workers : wk[w] = "run" => wk'[w] = "run" /\ cur'[w] = cur[w],
         \A p, a \in Actors : Calls(p, a)' => Calls(p, a)
  PROVE  RunInv'
BY DEF RunInv

LEMMA RunNext == TypeOK /\ EmitInv /\ PlaceInv /\ RunInv /\ [Next]_vars => RunInv'
<1> SUFFICES ASSUME TypeOK, EmitInv, PlaceInv, RunInv, [Next]_vars PROVE RunInv'
  OBVIOUS
<1> USE CoroAssumption
<1>1. ASSUME NEW w \in Workers,
             WorkerTests(w) \/ WorkerLeaves(w) \/ WorkerWaits(w) \/ WorkerBlocks(w)
               \/ SpuriousWakeup(w) \/ WorkerPops(w)
      PROVE  RunInv'
  <2>1. /\ UNCHANGED <<co, waiter, emit>>
        /\ \A v \in Workers : wk[v] = "run" => wk'[v] = "run" /\ cur'[v] = cur[v]
    BY <1>1 DEF WorkerTests, WorkerLeaves, WorkerWaits, WorkerBlocks, SpuriousWakeup, WorkerPops,
                TypeOK
  <2> QED BY <2>1, RunKept DEF Calls
<1>2. ASSUME NEW w \in Workers, NEW a \in Actors, WorkerResumes(w, a) PROVE RunInv'
  <2>1. wk[w] = "resume" /\ cur[w] = {a} /\ UNCHANGED <<waiter, emit>>
    BY <1>2 DEF WorkerResumes
  <2>2. \A b \in Actors : \A p : Calls(p, b)' <=> Calls(p, b)
    BY <2>1 DEF Calls
  <2>3. CASE co[a] = "done"
    <3>1. /\ UNCHANGED co
          /\ \A v \in Workers : wk[v] = "run" => wk'[v] = "run" /\ cur'[v] = cur[v]
      BY <1>2, <2>1, <2>3 DEF WorkerResumes, TypeOK
    <3> QED BY <2>1, <2>2, <3>1, RunKept
  <2>4. CASE co[a] # "done"
    <3>1. /\ co'[a] \in Running /\ wk'[w] = "run" /\ UNCHANGED cur
          /\ \A b \in Actors \ {a} : co'[b] = co[b]
          /\ \A v \in Workers : wk[v] = "run" => wk'[v] = "run"
      BY <1>2, <2>4 DEF WorkerResumes, Running, TypeOK
    <3>2. ~waiter[a]
      BY <2>1 DEF PlaceInv, Alone, With
    <3>3. "new" \notin Running
      BY DEF Running
    <3> QED BY <2>1, <2>2, <3>1, <3>2, <3>3 DEF RunInv
  <2> QED BY <2>3, <2>4
<1>3. ASSUME NEW w \in Workers, NEW a \in Actors, Runs(w, a) PROVE RunInv'
  <2>1. /\ wk[w] = "run" /\ cur[w] = {a} /\ co[a] \in Running /\ UNCHANGED <<emit, ready>>
        /\ GoesOn(w, a) \/ Returns(w, a) \/ Waits(w, a)
    BY <1>3, CoroutineMoves DEF On
  <2>2. /\ \A b \in Actors : \A p : Calls(p, b)' <=> Calls(p, b)
        /\ ~waiter[a] /\ "new" \notin Running /\ "waiting" \notin Running /\ "done" \notin Running
    BY <2>1 DEF Calls, RunInv, Running
  <2>3. CASE GoesOn(w, a)
    <3>1. /\ co'[a] \in Running /\ \A b \in Actors \ {a} : co'[b] = co[b]
          /\ UNCHANGED <<wk, cur, waiter>>
      BY <2>3 DEF GoesOn, TypeOK
    <3> QED BY <2>1, <2>2, <3>1 DEF RunInv
  <2>4. CASE Returns(w, a) \/ Waits(w, a)
    <3>1. /\ co'[a] \in {"done", "waiting"} /\ \A b \in Actors \ {a} : co'[b] = co[b]
          /\ \A v \in Workers \ {w} : wk'[v] = wk[v] /\ cur'[v] = cur[v]
          /\ waiter'[a] => co'[a] = "waiting"
          /\ \A b \in Actors \ {a} : waiter'[b] = waiter[b]
      BY <2>2, <2>4 DEF Returns, Waits, Yield, TypeOK
    <3>2. \A b \in Actors \ {a} :
            co[b] \in Running => \E v \in Workers \ {w} : wk[v] = "run" /\ b \in cur[v]
      BY <2>1 DEF RunInv
    <3>3. \A b \in Actors \ {a} :
            co'[b] \in Running => \E v \in Workers : wk'[v] = "run" /\ b \in cur'[v]
      BY <3>1, <3>2
    <3> QED BY <2>2, <3>1, <3>3 DEF RunInv
  <2> QED BY <2>1, <2>3, <2>4
<1>4. ASSUME NEW p \in Publishers, NEW e, emit' = [emit EXCEPT ![p] = e], e.at # "schedule"
      PROVE  \A q, a : Calls(q, a)' => Calls(q, a)
  BY <1>4 DEF Calls, TypeOK
<1>5. \A p \in Publishers : NextSub(emit[p]).at = "test"
  BY EmitType DEF NextSub, Emission
<1>6. ASSUME NEW p \in Publishers, NEW l PROVE [emit[p] EXCEPT !.at = l].at = l
  BY EmitType DEF Emission
<1>7. ASSUME NEW p \in Publishers, Publish(p) \/ TestSubscriber(p) \/ Notify(p) \/ Schedule(p)
      PROVE  RunInv'
  <2>1. \E e : emit' = [emit EXCEPT ![p] = e] /\ e.at # "schedule"
    <3>1. CASE Publish(p)
      <4> DEFINE e == [msg |-> [src |-> p, seq |-> sent[p] + 1], rest |-> Subs[p], at |-> "test"]
      <4>1. e.at # "schedule"
        OBVIOUS
      <4> HIDE DEF e
      <4>2. emit' = [emit EXCEPT ![p] = e]
        BY <3>1 DEF Publish, e
      <4> QED BY <4>1, <4>2
    <3>2. CASE TestSubscriber(p)
      <4>1. \/ emit' = [emit EXCEPT ![p] = [emit[p] EXCEPT !.at = "put"]]
            \/ emit' = [emit EXCEPT ![p] = NextSub(emit[p])]
        BY <3>2 DEF TestSubscriber
      <4>2. [emit[p] EXCEPT !.at = "put"].at # "schedule" /\ NextSub(emit[p]).at # "schedule"
        BY <1>5, <1>6
      <4> QED BY <4>1, <4>2
    <3>3. CASE Notify(p)
      BY <1>5, <3>3 DEF Notify
    <3>4. CASE Schedule(p)
      <4>1. emit' = [emit EXCEPT ![p] = [emit[p] EXCEPT !.at = "notify"]]
        BY <3>4, EmitType DEF Schedule
      <4> QED BY <1>6, <4>1
    <3> QED BY <1>7, <3>1, <3>2, <3>3, <3>4
  <2>2. /\ UNCHANGED <<co, waiter, cur>>
        /\ \A v \in Workers : wk[v] = "run" => wk'[v] = "run"
    BY <1>7 DEF Publish, TestSubscriber, Notify, Schedule, WakeOne, TypeOK
  <2> QED BY <1>4, <2>1, <2>2, RunKept
<1>8. ASSUME NEW p \in Publishers, Put(p) PROVE RunInv'
  <2>1. PICK c \in Actors : c = Head(emit[p].rest)
    BY <1>8, SeqFacts DEF Put, EmitInv, TypeOK
  <2>2. /\ UNCHANGED <<co, wk, cur>>
        /\ waiter' = [waiter EXCEPT ![c] = FALSE]
    BY <1>8, <2>1 DEF Put
  <2>3. \A b \in Actors : waiter'[b] => waiter[b]
    BY <2>2 DEF TypeOK
  <2>4. CASE waiter[c]
    <3>1. emit' = [emit EXCEPT ![p] = [emit[p] EXCEPT !.at = "schedule"]]
      BY <1>8, <2>1, <2>4 DEF Put
    <3>2. \A q, b : Calls(q, b)' => Calls(q, b) \/ b = c
      BY <1>6, <2>1, <3>1, EmitType DEF Calls, Emission
    <3>3. co[c] # "new"
      BY <2>4 DEF RunInv
    <3> QED BY <2>2, <2>3, <3>2, <3>3 DEF RunInv
  <2>5. CASE ~waiter[c]
    <3>1. emit' = [emit EXCEPT ![p] = NextSub(emit[p])]
      BY <1>8, <2>1, <2>5 DEF Put
    <3>2. \A q, b : Calls(q, b)' => Calls(q, b)
      BY <1>4, <1>5, <3>1
    <3> QED BY <2>2, <2>3, <3>2 DEF RunInv
  <2> QED BY <2>4, <2>5
<1>9. ASSUME NEW a \in Actors, Start(a) PROVE RunInv'
  <2>1. /\ UNCHANGED <<co, waiter, wk, cur>>
        /\ \A q \in Actors : emit'[q] = emit[q]
    BY <1>9 DEF Start, TypeOK, Publishers
  <2>2. \A q, b \in Actors : Calls(q, b)' => Calls(q, b)
    BY <2>1 DEF Calls
  <2> QED BY <2>1, <2>2, RunKept
<1>10. CASE StopNotifies
  <2>1. /\ UNCHANGED <<co, waiter, cur, emit>>
        /\ \A v \in Workers : wk[v] = "run" => wk'[v] = "run"
    BY <1>10 DEF StopNotifies, TypeOK
  <2> QED BY <2>1, RunKept DEF Calls
<1>11. CASE StopBegins \/ Joined \/ UNCHANGED vars \/ \E a \in Actors : Stop(a)
  <2>1. UNCHANGED <<co, waiter, wk, cur, emit>>
    BY <1>11 DEF StopBegins, Joined, Stop, vars
  <2> QED BY <2>1, RunKept DEF Calls
<1> QED
  BY <1>1, <1>2, <1>3, <1>7, <1>8, <1>9, <1>10, <1>11
     DEF Next, Works, InMutex, Coroutine, Emits, Runs

-----------------------------------------------------------------------------
(* Messages.                                                               *)

LEMMA WakesKept ==
  ASSUME WakesToMessage, UNCHANGED <<waiter, co, box>>
  PROVE  WakesToMessage'
BY DEF WakesToMessage

LEMMA WakesNext ==
  TypeOK /\ EmitInv /\ PlaceInv /\ RunInv /\ WakesToMessage /\ [Next]_vars => WakesToMessage'
<1> SUFFICES ASSUME TypeOK, EmitInv, PlaceInv, RunInv, WakesToMessage, [Next]_vars
             PROVE  WakesToMessage'
  OBVIOUS
<1>1. ASSUME NEW w \in Workers, NEW a \in Actors, WorkerResumes(w, a) PROVE WakesToMessage'
  <2>1. /\ wk[w] = "resume" /\ cur[w] = {a} /\ UNCHANGED <<waiter, box>>
        /\ \A b \in Actors \ {a} : co'[b] = co[b]
    BY <1>1 DEF WorkerResumes, TypeOK
  <2>2. co[a] \notin Running /\ ~waiter[a]
    BY <2>1, Suspended DEF PlaceInv, Alone, With
  <2>3. co'[a] \in {"wake", "waiting"} => co[a] = "waiting"
    BY <1>1, <2>2 DEF WorkerResumes, Running, TypeOK
  <2> QED BY <2>1, <2>2, <2>3 DEF WakesToMessage
<1>2. ASSUME NEW w \in Workers, NEW a \in Actors, Runs(w, a) PROVE WakesToMessage'
  <2>1. /\ co[a] \in Running /\ \A b \in Actors \ {a} : box'[b] = box[b]
        /\ GoesOn(w, a) \/ Returns(w, a) \/ Waits(w, a)
    BY <1>2, CoroutineMoves
  <2>2. \A b \in Actors \ {a} : co'[b] = co[b] /\ waiter'[b] = waiter[b]
    BY <2>1 DEF GoesOn, Returns, Waits, TypeOK
  <2>3. ~waiter[a]
    BY <2>1 DEF RunInv, Running
  <2>4. /\ waiter'[a] => box'[a] = <<>>
        /\ co'[a] = "wake" \/ (co'[a] = "waiting" /\ ~waiter'[a]) => box'[a] # <<>>
    BY <2>1, <2>3 DEF GoesOn, Returns, Waits, Running, TypeOK
  <2> QED BY <2>1, <2>2, <2>4 DEF WakesToMessage
<1>3. ASSUME NEW p \in Publishers, Put(p) PROVE WakesToMessage'
  <2>1. PICK c \in Actors : c = Head(emit[p].rest)
    BY <1>3, SeqFacts DEF Put, EmitInv, TypeOK
  <2>2. /\ box' = [box EXCEPT ![c] = Append(box[c], emit[p].msg)]
        /\ waiter' = [waiter EXCEPT ![c] = FALSE] /\ UNCHANGED co
    BY <1>3, <2>1 DEF Put
  <2>3. box'[c] # <<>> /\ ~waiter'[c]
    <3>1. box[c] \in Seq(Msg) /\ emit[p].msg \in Msg
      BY DEF TypeOK
    <3>2. Append(box[c], emit[p].msg) # <<>>
      BY <3>1
    <3> QED BY <2>2, <3>2 DEF TypeOK
  <2>4. \A b \in Actors \ {c} : box'[b] = box[b] /\ waiter'[b] = waiter[b]
    BY <2>2 DEF TypeOK
  <2> QED BY <2>2, <2>3, <2>4 DEF WakesToMessage
<1>4. ASSUME NEW p \in Publishers, Publish(p) \/ TestSubscriber(p) \/ Notify(p) \/ Schedule(p)
      PROVE  WakesToMessage'
  BY <1>4, WakesKept DEF Publish, TestSubscriber, Notify, Schedule
<1>5. ASSUME NEW w \in Workers,
             WorkerTests(w) \/ WorkerBlocks(w) \/ InMutex(w) \/ SpuriousWakeup(w)
      PROVE  WakesToMessage'
  BY <1>5, WakesKept
     DEF WorkerTests, WorkerBlocks, InMutex, WorkerPops, WorkerLeaves, WorkerWaits, SpuriousWakeup
<1>6. CASE \/ StopBegins \/ StopNotifies \/ Joined \/ UNCHANGED vars
           \/ \E a \in Actors : Start(a) \/ Stop(a)
  BY <1>6, WakesKept DEF StopBegins, StopNotifies, Joined, Start, Stop, vars
<1> QED
  BY <1>1, <1>2, <1>3, <1>4, <1>5, <1>6 DEF Next, Works, Coroutine, Emits, Runs

LEMMA HandNext == TypeOK /\ PlaceInv /\ RunInv /\ HandInv /\ [Next]_vars => HandInv'
<1> SUFFICES ASSUME TypeOK, PlaceInv, RunInv, HandInv, [Next]_vars PROVE HandInv'
  OBVIOUS
<1>1. ASSUME UNCHANGED <<co, hand>> PROVE HandInv'
  BY <1>1 DEF HandInv
<1>2. ASSUME NEW a \in Actors, co[a] # "body", NEW l, co' = [co EXCEPT ![a] = l], UNCHANGED hand
      PROVE  HandInv'
  BY <1>2 DEF HandInv, TypeOK
<1>3. ASSUME NEW a \in Actors, Receive(a) PROVE HandInv'
  BY <1>3 DEF Receive, HandInv, TypeOK
<1>4. ASSUME NEW w \in Workers, NEW a \in Actors, WorkerResumes(w, a) PROVE HandInv'
  <2>1. co[a] # "body"
    BY <1>4, Suspended DEF WorkerResumes, Running
  <2> QED BY <1>1, <1>2, <1>4, <2>1 DEF WorkerResumes
<1>5. ASSUME NEW w \in Workers, NEW a \in Actors, Runs(w, a) PROVE HandInv'
  <2>1. CASE LoopTest(w, a)
    BY <1>2, <2>1 DEF LoopTest
  <2>2. CASE AwaitReady(w, a)
    BY <1>2, <1>3, <2>2 DEF AwaitReady
  <2>3. CASE AwaitSuspend(w, a)
    BY <1>2, <1>3, <2>3 DEF AwaitSuspend
  <2>4. CASE AwaitResume(w, a)
    BY <1>3, <2>4 DEF AwaitResume
  <2>5. CASE BodyEnds(w, a)
    BY <2>5 DEF BodyEnds, HandInv, TypeOK
  <2> QED BY <1>5, <2>1, <2>2, <2>3, <2>4, <2>5 DEF Runs
<1>6. ASSUME NEW p \in Publishers, Publish(p) \/ Emits(p) \/ Schedule(p) PROVE HandInv'
  BY <1>1, <1>6 DEF Publish, Emits, TestSubscriber, Put, Notify, Schedule
<1>7. ASSUME NEW w \in Workers,
             WorkerTests(w) \/ WorkerBlocks(w) \/ InMutex(w) \/ SpuriousWakeup(w)
      PROVE  HandInv'
  BY <1>1, <1>7
     DEF WorkerTests, WorkerBlocks, InMutex, WorkerPops, WorkerLeaves, WorkerWaits, SpuriousWakeup
<1>8. CASE \/ StopBegins \/ StopNotifies \/ Joined \/ UNCHANGED vars
           \/ \E a \in Actors : Start(a) \/ Stop(a)
  BY <1>1, <1>8 DEF StopBegins, StopNotifies, Joined, Start, Stop, vars
<1> QED
  BY <1>4, <1>5, <1>6, <1>7, <1>8 DEF Next, Works, Coroutine, Runs

-----------------------------------------------------------------------------
(* The inductive invariant and what follows from it.                       *)

IInv == TypeOK /\ EmitInv /\ PlaceInv /\ RunInv /\ WakesToMessage /\ HandInv

LEMMA IInvInit == Init => IInv
<1> SUFFICES ASSUME Init PROVE IInv
  OBVIOUS
<1>1. TypeOK
  BY TypeInit
<1>2. EmitInv /\ HandInv /\ WakesToMessage /\ RunInv
  BY DEF Init, NoEmission, EmitInv, HandInv, WakesToMessage, RunInv, Running, Calls, Publishers
<1>3. \A a \in Actors : ~waiter[a] /\ (\A p : ~Calls(p, a)) /\ (\A i : ~Queued(i, a))
                        /\ (\A w : ~With(w, a)) /\ co[a] = "new"
  <2>1. \A p \in Publishers : emit[p].at = "test"
    BY DEF Init, NoEmission
  <2>2. DOMAIN ready = {}
    BY DEF Init
  <2>3. \A a \in Actors : ~waiter[a] /\ co[a] = "new"
    BY DEF Init
  <2>4. \A w \in Workers : cur[w] = {}
    BY DEF Init
  <2> QED BY <2>1, <2>2, <2>3, <2>4 DEF Calls, Queued, With
<1>4. PlaceInv
  BY <1>3 DEF PlaceInv, Alone
<1> QED BY <1>1, <1>2, <1>4 DEF IInv

LEMMA IInvNext == IInv /\ [Next]_vars => IInv'
BY TypeNext, EmitInvNext, PlaceNext, RunNext, WakesNext, HandNext DEF IInv

LEMMA IInvAlways == Spec => []IInv
BY IInvInit, IInvNext, PTL DEF Spec

(* Every variable keeps its type; a worker has a handle exactly from the   *)
(* pop to the return of resume().                                          *)
THEOREM CoroType == Spec => []TypeOK
BY IInvAlways, PTL DEF IInv

LEMMA OnePlace == PlaceInv => HandleInOnePlace
<1> SUFFICES ASSUME PlaceInv, NEW a \in Actors
             PROVE  /\ \A x, y \in Holders(a) : x = y
                    /\ co[a] \notin {"new", "done"} => Holders(a) # {}
  BY DEF HandleInOnePlace
<1>1. Alone(a) /\ (co[a] \notin {"new", "done"} => Held(a))
  BY DEF PlaceInv
<1>2. \A x : x \in Holders(a) <=>
               \/ waiter[a] /\ x = <<"waiter", a>>
               \/ \E p : Calls(p, a) /\ x = <<"call", p>>
               \/ \E i : Queued(i, a) /\ x = <<"ready", i>>
               \/ \E w : With(w, a) /\ x = <<"worker", w>>
  BY DEF Holders, Calls, Queued, With
<1>3. ASSUME NEW x \in Holders(a), NEW y \in Holders(a) PROVE x = y
  BY <1>1, <1>2 DEF Alone
<1>4. Held(a) => Holders(a) # {}
  BY <1>2 DEF Held
<1> QED BY <1>1, <1>3, <1>4

(* A coroutine's handle is in its mailbox, with a call to schedule(), in   *)
(* the ready queue or with a worker, never in two of them, and is not      *)
(* forgotten: resume() is never called on a coroutine that is running.     *)
THEOREM CoroHandleInOnePlace == Spec => []HandleInOnePlace
<1>1. IInv => HandleInOnePlace
  BY OnePlace DEF IInv
<1> QED BY <1>1, IInvAlways, PTL

(* await_resume() always finds a message, and no coroutine stays suspended *)
(* on a mailbox that holds one.                                            *)
THEOREM CoroWakesToMessage == Spec => []WakesToMessage
BY IInvAlways, PTL DEF IInv

-----------------------------------------------------------------------------
(* Refinement: the steps ActorContract sees are the put, recv() and the    *)
(* end of the loop's body, and stop().                                     *)

LEMMA PutAccepted ==
  ASSUME TypeOK, EmitInv, NEW p \in Publishers, Put(p)
  PROVE  Contract!Accept
<1>1. PICK c \in Actors : c = Head(emit[p].rest)
  BY SeqFacts DEF Put, EmitInv, TypeOK
<1>2. box[c] \in Seq(Msg) /\ emit[p].msg \in Msg /\ DOMAIN box = Actors
  BY DEF TypeOK
<1>3. box' = [box EXCEPT ![c] = Append(box[c], emit[p].msg)] /\ UNCHANGED <<alive, hand>>
  BY <1>1 DEF Put
<1>4. /\ DOMAIN box' = Actors
      /\ box'[c] = Append(box[c], emit[p].msg)
      /\ \A a \in Actors : a # c => box'[a] = box[a]
  BY <1>1, <1>2, <1>3
<1>5. /\ Len(box'[c]) = Len(box[c]) + 1
      /\ box'[c][Len(box[c]) + 1] = emit[p].msg
  BY <1>2, <1>4
<1> QED BY <1>3, <1>4, <1>5 DEF Contract!Accept, Contract!Room

LEMMA NextContract == IInv /\ [Next]_vars => [Contract!Next]_(Contract!vars)
<1> SUFFICES ASSUME IInv, [Next]_vars
             PROVE  Contract!Next \/ UNCHANGED <<alive, box, hand>>
  BY DEF Contract!vars
<1>0. TypeOK /\ EmitInv /\ HandInv
  BY DEF IInv
<1>1. ASSUME NEW a \in Actors, box[a] # <<>>, co[a] # "body", Receive(a), UNCHANGED alive
      PROVE  Contract!Next
  <2>1. hand[a] = {}
    BY <1>0, <1>1 DEF HandInv
  <2>2. Contract!Take(a)
    BY <1>1, <2>1 DEF Receive, Contract!Take
  <2> QED BY <2>2 DEF Contract!Next
<1>2. ASSUME NEW w \in Workers, NEW a \in Actors, Runs(w, a)
      PROVE  Contract!Next \/ UNCHANGED <<alive, box, hand>>
  <2>1. CASE LoopTest(w, a)
    BY <2>1 DEF LoopTest
  <2>2. CASE AwaitReady(w, a)
    BY <1>1, <2>2 DEF AwaitReady
  <2>3. CASE AwaitSuspend(w, a)
    BY <1>1, <2>3 DEF AwaitSuspend
  <2>4. CASE AwaitResume(w, a)
    BY <1>1, <2>4 DEF AwaitResume
  <2>5. CASE BodyEnds(w, a)
    BY <2>5 DEF BodyEnds, Contract!Finish, Contract!Next
  <2> QED BY <1>2, <2>1, <2>2, <2>3, <2>4, <2>5 DEF Runs
<1>3. ASSUME NEW w \in Workers,
             \/ WorkerTests(w) \/ WorkerBlocks(w) \/ InMutex(w) \/ SpuriousWakeup(w)
             \/ \E a \in Actors : WorkerResumes(w, a)
      PROVE  UNCHANGED <<alive, box, hand>>
  BY <1>3
     DEF WorkerTests, WorkerBlocks, InMutex, WorkerPops, WorkerLeaves, WorkerWaits,
         SpuriousWakeup, WorkerResumes
<1>4. ASSUME NEW p \in Publishers, Put(p) PROVE Contract!Next
  BY <1>0, <1>4, PutAccepted DEF Contract!Next
<1>5. ASSUME NEW p \in Publishers, Publish(p) \/ TestSubscriber(p) \/ Notify(p) \/ Schedule(p)
      PROVE  UNCHANGED <<alive, box, hand>>
  BY <1>5 DEF Publish, TestSubscriber, Notify, Schedule
<1>6. ASSUME NEW a \in Actors, Stop(a) PROVE Contract!Next
  BY <1>6 DEF Stop, Contract!Close, Contract!Next
<1>7. CASE StopBegins \/ StopNotifies \/ Joined \/ UNCHANGED vars \/ \E a \in Actors : Start(a)
  BY <1>7 DEF StopBegins, StopNotifies, Joined, Start, vars
<1> QED
  BY <1>2, <1>3, <1>4, <1>5, <1>6, <1>7 DEF Next, Works, Coroutine, Emits, Runs

(* Coroutine actors keep the contract the kernel and the thread actors     *)
(* keep (Mailbox::put(), recv(), stop()).                                  *)
THEOREM CoroKeepsContract == Spec => KeepsContract
<1>1. Init => Contract!Init
  BY DEF Init, Contract!Init
<1> QED
  BY <1>1, NextContract, IInvAlways, PTL DEF Spec, KeepsContract, Contract!Spec
=============================================================================
