------------------------- MODULE ActorKernelProofs --------------------------
(***************************************************************************)
(* Proofs about ActorKernel, for any actors, wiring and capacities.        *)
(*                                                                         *)
(* SingleLoop and StopIsFinal are not inductive: that no second loop can   *)
(* appear depends on which forks are still waiting.  Life of               *)
(* ActorProcessProofs adds what is needed, operator by operator; the       *)
(* actions of ActorKernel only say to which actor an operator is applied.  *)
(***************************************************************************)
EXTENDS ActorKernel, ActorProcessProofs, TLAPS

LEMMA RecordType == ActorType = Records(Msg)
BY DEF ActorType, Records

LifeInv == \A a \in Actors : Life(actor[a])

-----------------------------------------------------------------------------
(* The actions.                                                            *)

TypeInv ==
  /\ actor \in [Actors -> ActorType]
  /\ sent \in [Actors -> Nat]
  /\ taken \in [Actors -> [Actors -> Nat]]
  /\ lastTry \in [ok : BOOLEAN, missed : SUBSET Actors]

Bounded == \A a \in Actors : Capacity[a] > 0 => Len(actor[a].mbox) <= Capacity[a]

IInv == TypeInv /\ LifeInv /\ Bounded

LEMMA InitIInv == Init => IInv
<1> SUFFICES ASSUME Init PROVE IInv
  OBVIOUS
<1>1. TypeInv
  BY NewActorLife, RecordType DEF Init, TypeInv
<1>2. LifeInv
  BY NewActorLife, RecordType DEF Init, LifeInv
<1>3. Bounded
  BY KernelAssumption DEF Init, Bounded, NewActor
<1> QED
  BY <1>1, <1>2, <1>3 DEF IInv

(* Changing one actor keeps the invariant if its record stays legal.       *)
LEMMA OneActor ==
  ASSUME IInv, NEW a \in Actors, NEW s \in ActorType, Life(s),
         Capacity[a] > 0 => Len(s.mbox) <= Capacity[a],
         actor' = [actor EXCEPT ![a] = s]
  PROVE  actor' \in [Actors -> ActorType] /\ LifeInv' /\ Bounded'
<1>1. actor \in [Actors -> ActorType]
  BY DEF IInv, TypeInv
<1>2. \A b \in Actors : actor'[b] = IF b = a THEN s ELSE actor[b]
  BY <1>1
<1>3. actor' \in [Actors -> ActorType]
  BY <1>1
<1>4. LifeInv'
  BY <1>2 DEF IInv, LifeInv
<1>5. Bounded'
  BY <1>2 DEF IInv, Bounded
<1> QED
  BY <1>3, <1>4, <1>5

LEMMA EmissionType ==
  ASSUME IInv, NEW p \in Actors, NEW t \in Types
  PROVE  Emission(p, t) \in Msg
BY DEF IInv, TypeInv, Emission, Msg

LEMMA FanOutInv ==
  ASSUME IInv, NEW p \in Actors, NEW t \in Types, FanOut(p, t)
  PROVE  actor' \in [Actors -> ActorType] /\ LifeInv' /\ Bounded'
<1>1. \A c \in Actors : actor[c] \in ActorType /\ Life(actor[c]) /\ Capacity[c] \in Nat
  BY KernelAssumption DEF IInv, TypeInv, LifeInv
<1> DEFINE after(c) == IF c \in Reached(p, t)
                       THEN Offered(actor[c], Capacity[c], Emission(p, t))
                       ELSE actor[c]
<1>2. \A c \in Actors : after(c) \in ActorType /\ Life(after(c))
  BY <1>1, EmissionType, OfferedLife, RecordType
<1>3. \A c \in Actors : Capacity[c] > 0 => Len(after(c).mbox) <= Capacity[c]
  BY <1>1, EmissionType, OfferedBounded, RecordType DEF IInv, Bounded
<1>4. actor' = [c \in Actors |-> after(c)]
  BY DEF FanOut
<1> HIDE DEF after
<1>5. actor' \in [Actors -> ActorType]
  BY <1>2, <1>4
<1>6. LifeInv'
  BY <1>2, <1>4 DEF LifeInv
<1>7. Bounded'
  BY <1>3, <1>4 DEF Bounded
<1> QED
  BY <1>5, <1>6, <1>7

LEMMA NextIInv == IInv /\ [Next]_vars => IInv'
<1> SUFFICES ASSUME IInv, [Next]_vars PROVE IInv'
  OBVIOUS
<1> USE KernelAssumption
<1>0. ASSUME NEW a \in Actors
      PROVE  /\ actor[a] \in ActorType /\ Life(actor[a]) /\ Capacity[a] \in Nat
             /\ Capacity[a] > 0 => Len(actor[a].mbox) <= Capacity[a]
  BY DEF IInv, TypeInv, LifeInv, Bounded
<1>1. ASSUME NEW a \in Actors, Start(a) PROVE IInv'
  <2>1. Started(actor[a]) \in ActorType /\ Life(Started(actor[a]))
    <3>1. LiveLoops(actor[a]) = {}
      BY <1>0, <1>1, NothingRuns, RecordType DEF Start, MayStart
    <3> QED BY <1>0, <3>1, StartedLife, RecordType
  <2>2. Started(actor[a]).mbox = actor[a].mbox
    BY <1>0 DEF Started, ActorType
  <2> QED
    BY <1>0, <1>1, <2>1, <2>2, OneActor DEF Start, IInv, TypeInv
<1>2. ASSUME NEW a \in Actors, Stop(a) PROVE IInv'
  <2>1. Stopped(actor[a]) \in ActorType /\ Life(Stopped(actor[a]))
    BY <1>0, StoppedLife, RecordType
  <2>2. Stopped(actor[a]).mbox = actor[a].mbox
    BY <1>0 DEF Stopped, ActorType
  <2> QED
    BY <1>0, <1>2, <2>1, <2>2, OneActor DEF Stop, IInv, TypeInv
<1>3. ASSUME NEW a \in Actors, RunFork(a) PROVE IInv'
  <2>1. PICK g \in actor[a].pend : actor' = [actor EXCEPT ![a] = ForkRun(actor[a], g)]
    BY <1>0, <1>3 DEF RunFork
  <2>2. ForkRun(actor[a], g) \in ActorType /\ Life(ForkRun(actor[a], g))
    BY <1>0, ForkRunLife, RecordType
  <2>3. ForkRun(actor[a], g).mbox = actor[a].mbox
    BY <1>0 DEF ForkRun, ActorType
  <2> QED
    BY <1>0, <1>3, <2>1, <2>2, <2>3, OneActor DEF RunFork, IInv, TypeInv
<1>4. ASSUME NEW a \in Actors, Get(a) PROVE IInv'
  <2>1. PICK g \in actor[a].loops : actor' = [actor EXCEPT ![a] = Took(actor[a], g)]
    BY <1>0, <1>4 DEF Get
  <2>2. actor[a].mbox # <<>> /\ actor[a].mbox \in Seq(Msg)
    BY <1>0, <1>4 DEF Get, ActorType
  <2>3. Took(actor[a], g) \in ActorType /\ Life(Took(actor[a], g))
    BY <1>0, <2>2, TookLife, RecordType
  <2>4. Took(actor[a], g).mbox = Tail(actor[a].mbox)
    BY <1>0 DEF Took, ActorType
  <2>5. Len(Tail(actor[a].mbox)) = Len(actor[a].mbox) - 1 /\ Len(actor[a].mbox) \in Nat
    BY <2>2
  <2>6. Capacity[a] > 0 => Len(Took(actor[a], g).mbox) <= Capacity[a]
    BY <1>0, <2>4, <2>5
  <2>7. actor' \in [Actors -> ActorType] /\ LifeInv' /\ Bounded'
    BY <2>1, <2>3, <2>6, OneActor
  <2>8. Head(actor[a].mbox) \in Msg
    BY <2>2
  <2>9. taken' \in [Actors -> [Actors -> Nat]]
    BY <1>4, <2>8 DEF Get, IInv, TypeInv, Msg
  <2> QED
    BY <1>4, <2>7, <2>9 DEF Get, IInv, TypeInv
<1>5. ASSUME NEW a \in Actors, ActReturns(a) PROVE IInv'
  <2>1. PICK h \in actor[a].hand : actor' = [actor EXCEPT ![a] = ActDone(actor[a], h)]
    BY <1>0, <1>5 DEF ActReturns
  <2>2. ActDone(actor[a], h) \in ActorType /\ Life(ActDone(actor[a], h))
    BY <1>0, ActDoneLife, RecordType
  <2>3. ActDone(actor[a], h).mbox = actor[a].mbox
    BY <1>0 DEF ActDone, ActorType
  <2> QED
    BY <1>0, <1>5, <2>1, <2>2, <2>3, OneActor DEF ActReturns, IInv, TypeInv
<1>6. ASSUME NEW a \in Actors, NEW t \in Types, Publish(a, t) PROVE IInv'
  <2>1. sent' \in [Actors -> Nat]
    BY <1>6 DEF Publish, Emit, IInv, TypeInv
  <2> QED
    BY <1>6, <2>1, FanOutInv DEF Publish, IInv, TypeInv
<1>7. ASSUME NEW a \in Actors, NEW t \in Types, TryPublish(a, t) PROVE IInv'
  <2>1. sent' \in [Actors -> Nat]
    BY <1>7 DEF TryPublish, Emit, IInv, TypeInv
  <2>2. \A c \in Subs[a][t] : c \in Actors
    OBVIOUS
  <2>3. lastTry' \in [ok : BOOLEAN, missed : SUBSET Actors]
    BY <1>7, <2>2 DEF TryPublish
  <2> QED
    BY <1>7, <2>1, <2>3, FanOutInv DEF TryPublish, IInv, TypeInv
<1>8. ASSUME NEW a \in Actors, NEW t \in Types, NEW c \in Actors, SendTo(a, t, c)
      PROVE  IInv'
  <2>1. sent' \in [Actors -> Nat]
    BY <1>8 DEF SendTo, Emit, IInv, TypeInv
  <2> DEFINE s == Offered(actor[c], Capacity[c], Emission(a, t))
  <2>2. s \in ActorType /\ Life(s)
    BY <1>0, EmissionType, OfferedLife, RecordType
  <2>3. Capacity[c] > 0 => Len(s.mbox) <= Capacity[c]
    BY <1>0, EmissionType, OfferedBounded, RecordType
  <2>4. actor' = [actor EXCEPT ![c] = s]
    BY <1>8 DEF SendTo
  <2> HIDE DEF s
  <2> QED
    BY <1>8, <2>1, <2>2, <2>3, <2>4, OneActor DEF SendTo, IInv, TypeInv
<1>9. CASE UNCHANGED vars
  BY <1>9 DEF vars, IInv, TypeInv, LifeInv, Bounded
<1> QED
  BY <1>1, <1>2, <1>3, <1>4, <1>5, <1>6, <1>7, <1>8, <1>9 DEF Next

-----------------------------------------------------------------------------
(* The theorems.                                                           *)

LEMMA SpecIInv == Spec => []IInv
BY InitIInv, NextIInv, PTL DEF Spec

(* Every variable keeps its type and no mailbox outgrows its capacity,     *)
(* whatever the wiring (the fields of class Actor).                        *)
THEOREM KernelType == Spec => []TypeOK
<1>1. IInv => TypeOK
  BY DEF IInv, TypeInv, Bounded, TypeOK
<1> QED
  BY <1>1, SpecIInv, PTL

(* However many start() and stop() calls race with forks that have not     *)
(* executed, an actor has one run loop at most and stop() can kill it.     *)
THEOREM KernelSingleLoop == Spec => []SingleLoop
<1>1. IInv => SingleLoop
  BY DEF IInv, LifeInv, Life, SingleLoop
<1> QED
  BY <1>1, SpecIInv, PTL

(* A stopped actor runs nothing, and no waiting fork can revive it.        *)
THEOREM KernelStopIsFinal == Spec => []StopIsFinal
<1>1. IInv => StopIsFinal
  BY DEF IInv, LifeInv, Life, StopIsFinal
<1> QED
  BY <1>1, SpecIInv, PTL

-----------------------------------------------------------------------------
(* Order.  A mailbox holds what was emitted after the last message handled *)
(* (last) and no later than now (upto).                                    *)

Ordered(box, last, upto) ==
  /\ \A i \in DOMAIN box : last[box[i].src] < box[i].seq
  /\ \A i, j \in DOMAIN box : (i < j /\ box[i].src = box[j].src) => box[i].seq < box[j].seq
  /\ \A i \in DOMAIN box : box[i].seq <= upto[box[i].src]
  /\ \A p \in Actors : last[p] <= upto[p]

OrderInv == \A c \in Actors : Ordered(actor[c].mbox, taken[c], sent)

LEMMA AppendOrdered ==
  ASSUME NEW box \in Seq(Msg), NEW last \in [Actors -> Nat], NEW upto \in [Actors -> Nat],
         NEW m \in Msg, m.seq = upto[m.src] + 1, Ordered(box, last, upto)
  PROVE  /\ Ordered(box, last, [upto EXCEPT ![m.src] = @ + 1])
         /\ Ordered(Append(box, m), last, [upto EXCEPT ![m.src] = @ + 1])
<1> DEFINE now == [upto EXCEPT ![m.src] = @ + 1]
<1>1. m.src \in Actors /\ m.seq \in Nat
  BY DEF Msg
<1>2. \A p \in Actors : now[p] \in Nat /\ upto[p] \in Nat /\ upto[p] <= now[p]
  BY <1>1
<1>3. now[m.src] = m.seq
  BY <1>1
<1>4. \A i \in DOMAIN box : box[i] \in Msg
  OBVIOUS
<1>5. \A i \in DOMAIN box : box[i].src \in Actors /\ box[i].seq \in Nat
  BY <1>4 DEF Msg
<1> HIDE DEF now
<1>6. Ordered(box, last, now)
  BY <1>2, <1>5 DEF Ordered
<1> DEFINE new == Append(box, m)
<1>7. DOMAIN new = 1 .. Len(box) + 1 /\ DOMAIN box = 1 .. Len(box) /\ Len(box) \in Nat
  OBVIOUS
<1>8. new[Len(box) + 1] = m /\ \A i \in DOMAIN box : new[i] = box[i]
  OBVIOUS
<1> HIDE DEF new
<1>9. \A i \in DOMAIN new : i \in DOMAIN box \/ i = Len(box) + 1
  BY <1>7
<1>10. \A i \in DOMAIN new : last[new[i].src] < new[i].seq
  <2>1. last[m.src] < m.seq
    BY <1>1 DEF Ordered
  <2> QED
    BY <1>8, <1>9, <2>1 DEF Ordered
<1>11. \A i \in DOMAIN new : new[i].seq <= now[new[i].src]
  BY <1>1, <1>3, <1>6, <1>8, <1>9 DEF Ordered
<1>12. \A i, j \in DOMAIN new :
         (i < j /\ new[i].src = new[j].src) => new[i].seq < new[j].seq
  <2> SUFFICES ASSUME NEW i \in DOMAIN new, NEW j \in DOMAIN new,
                      i < j, new[i].src = new[j].src
               PROVE  new[i].seq < new[j].seq
    OBVIOUS
  <2>1. i \in DOMAIN box
    BY <1>7
  <2>2. CASE j \in DOMAIN box
    BY <1>8, <2>1, <2>2 DEF Ordered
  <2>3. CASE j = Len(box) + 1
    <3>1. box[i].seq <= upto[m.src] /\ box[i].seq \in Nat /\ upto[m.src] \in Nat
      BY <1>1, <1>2, <1>5, <1>8, <2>1, <2>3 DEF Ordered
    <3> QED
      BY <1>8, <2>1, <2>3, <3>1
  <2> QED
    BY <1>9, <2>2, <2>3
<1>13. \A p \in Actors : last[p] <= now[p]
  BY <1>6 DEF Ordered
<1>14. Ordered(new, last, now)
  BY <1>10, <1>11, <1>12, <1>13 DEF Ordered
<1> QED
  BY <1>6, <1>14 DEF now, new

LEMMA TailOrdered ==
  ASSUME NEW box \in Seq(Msg), NEW last \in [Actors -> Nat], NEW upto \in [Actors -> Nat],
         box # <<>>, Ordered(box, last, upto)
  PROVE  Ordered(Tail(box), [last EXCEPT ![Head(box).src] = Head(box).seq], upto)
<1> DEFINE rest == Tail(box)
           then == [last EXCEPT ![Head(box).src] = Head(box).seq]
<1>1. Len(box) \in Nat /\ Len(box) > 0 /\ DOMAIN box = 1 .. Len(box) /\ Head(box) = box[1]
  OBVIOUS
<1>2. DOMAIN rest = 1 .. Len(box) - 1 /\ \A i \in DOMAIN rest : rest[i] = box[i + 1]
  OBVIOUS
<1>3. \A i \in DOMAIN box : box[i].src \in Actors /\ box[i].seq \in Nat
  <2>1. \A i \in DOMAIN box : box[i] \in Msg
    OBVIOUS
  <2> QED
    BY <2>1 DEF Msg
<1>4. \A p \in Actors : then[p] = IF p = box[1].src THEN box[1].seq ELSE last[p]
  BY <1>1, <1>3
<1> HIDE DEF rest, then
<1>5. \A i \in DOMAIN rest : /\ i \in Nat /\ i + 1 \in DOMAIN box /\ 1 \in DOMAIN box
                             /\ 1 < i + 1
  BY <1>1, <1>2
<1>6. \A i \in DOMAIN rest : then[rest[i].src] < rest[i].seq
  BY <1>2, <1>3, <1>4, <1>5 DEF Ordered
<1>7. \A i, j \in DOMAIN rest :
        (i < j /\ rest[i].src = rest[j].src) => rest[i].seq < rest[j].seq
  <2> SUFFICES ASSUME NEW i \in DOMAIN rest, NEW j \in DOMAIN rest,
                      i < j, rest[i].src = rest[j].src
               PROVE  rest[i].seq < rest[j].seq
    OBVIOUS
  <2>1. /\ i + 1 < j + 1 /\ i + 1 \in DOMAIN box /\ j + 1 \in DOMAIN box
        /\ rest[i] = box[i + 1] /\ rest[j] = box[j + 1]
    BY <1>2, <1>5
  <2> QED
    BY <2>1 DEF Ordered
<1>8. \A i \in DOMAIN rest : rest[i].seq <= upto[rest[i].src]
  BY <1>2, <1>5 DEF Ordered
<1>9. \A p \in Actors : then[p] <= upto[p]
  BY <1>1, <1>4 DEF Ordered
<1> QED
  BY <1>6, <1>7, <1>8, <1>9 DEF Ordered, rest, then

(* A step that keeps every mailbox, or drops the copy of the new message,  *)
(* or appends it, keeps the order.                                         *)
LEMMA EmissionOrdered ==
  ASSUME IInv, OrderInv, NEW p \in Actors, NEW t \in Types, Emit(p), taken' = taken,
         \A c \in Actors : \/ actor'[c].mbox = actor[c].mbox
                           \/ actor'[c].mbox = Append(actor[c].mbox, Emission(p, t))
  PROVE  OrderInv'
<1> DEFINE m == Emission(p, t)
<1>1. m \in Msg
  BY EmissionType
<1>2. m.src = p /\ m.seq = sent[p] + 1
  BY DEF Emission
<1>3. sent \in [Actors -> Nat] /\ taken \in [Actors -> [Actors -> Nat]]
  BY DEF IInv, TypeInv
<1>4. sent' = [sent EXCEPT ![m.src] = @ + 1]
  BY <1>2 DEF Emit
<1>5. \A c \in Actors : actor[c].mbox \in Seq(Msg)
  BY DEF IInv, TypeInv, ActorType
<1> HIDE DEF m
<1>6. ASSUME NEW c \in Actors
      PROVE  /\ Ordered(actor[c].mbox, taken[c], sent')
             /\ Ordered(Append(actor[c].mbox, m), taken[c], sent')
  <2>1. taken[c] \in [Actors -> Nat] /\ Ordered(actor[c].mbox, taken[c], sent)
    BY <1>3 DEF OrderInv
  <2> QED
    BY <1>1, <1>2, <1>3, <1>4, <1>5, <2>1, AppendOrdered
<1> QED
  BY <1>6 DEF OrderInv, m

LEMMA OfferedMbox ==
  ASSUME NEW s \in ActorType, NEW cap, NEW m
  PROVE  Offered(s, cap, m).mbox = s.mbox \/ Offered(s, cap, m).mbox = Append(s.mbox, m)
BY DEF Offered, ActorType

LEMMA NextOrderInv == IInv /\ OrderInv /\ [Next]_vars => OrderInv'
<1> SUFFICES ASSUME IInv, OrderInv, [Next]_vars PROVE OrderInv'
  OBVIOUS
<1>0. actor \in [Actors -> ActorType] /\ \A a \in Actors : actor[a] \in ActorType
  BY DEF IInv, TypeInv
<1>2. ASSUME NEW a \in Actors, Start(a) PROVE OrderInv'
  BY <1>0, <1>2 DEF Start, Started, ActorType, OrderInv
<1>3. ASSUME NEW a \in Actors, Stop(a) PROVE OrderInv'
  BY <1>0, <1>3 DEF Stop, Stopped, ActorType, OrderInv
<1>4. ASSUME NEW a \in Actors, RunFork(a) PROVE OrderInv'
  BY <1>0, <1>4 DEF RunFork, ForkRun, ActorType, OrderInv
<1>5. ASSUME NEW a \in Actors, ActReturns(a) PROVE OrderInv'
  BY <1>0, <1>5 DEF ActReturns, ActDone, ActorType, OrderInv
<1>6. ASSUME NEW a \in Actors, Get(a) PROVE OrderInv'
  <2> DEFINE box == actor[a].mbox
  <2>1. box \in Seq(Msg) /\ box # <<>>
    BY <1>0, <1>6 DEF Get, ActorType
  <2>2. actor'[a].mbox = Tail(box) /\ \A c \in Actors \ {a} : actor'[c] = actor[c]
    BY <1>0, <1>6 DEF Get, Took, ActorType
  <2>3. taken \in [Actors -> [Actors -> Nat]] /\ sent \in [Actors -> Nat]
    BY DEF IInv, TypeInv
  <2>4. /\ taken'[a] = [taken[a] EXCEPT ![Head(box).src] = Head(box).seq]
        /\ \A c \in Actors \ {a} : taken'[c] = taken[c]
    BY <1>6, <2>3 DEF Get
  <2>5. sent' = sent
    BY <1>6 DEF Get
  <2> HIDE DEF box
  <2>6. Ordered(actor'[a].mbox, taken'[a], sent)
    <3>1. taken[a] \in [Actors -> Nat] /\ Ordered(box, taken[a], sent)
      BY <2>3 DEF OrderInv, box
    <3>2. Ordered(Tail(box), [taken[a] EXCEPT ![Head(box).src] = Head(box).seq], sent)
      BY <2>1, <2>3, <3>1, TailOrdered
    <3> QED
      BY <2>2, <2>4, <3>2
  <2> QED
    BY <2>2, <2>4, <2>5, <2>6 DEF OrderInv
<1>7. ASSUME NEW p \in Actors, NEW t \in Types, Emit(p), FanOut(p, t), taken' = taken
      PROVE  OrderInv'
  <2>1. \A c \in Actors : \/ actor'[c].mbox = actor[c].mbox
                          \/ actor'[c].mbox = Append(actor[c].mbox, Emission(p, t))
    BY <1>0, <1>7, OfferedMbox DEF FanOut
  <2> QED
    BY <1>7, <2>1, EmissionOrdered
<1>8. ASSUME NEW p \in Actors, NEW t \in Types, Publish(p, t) PROVE OrderInv'
  BY <1>7, <1>8 DEF Publish
<1>9. ASSUME NEW p \in Actors, NEW t \in Types, TryPublish(p, t) PROVE OrderInv'
  BY <1>7, <1>9 DEF TryPublish
<1>10. ASSUME NEW p \in Actors, NEW t \in Types, NEW c \in Actors, SendTo(p, t, c)
       PROVE  OrderInv'
  <2>1. \A d \in Actors : \/ actor'[d].mbox = actor[d].mbox
                          \/ actor'[d].mbox = Append(actor[d].mbox, Emission(p, t))
    BY <1>0, <1>10, OfferedMbox DEF SendTo
  <2> QED
    BY <1>10, <2>1, EmissionOrdered DEF SendTo
<1>11. CASE UNCHANGED vars
  BY <1>11 DEF vars, OrderInv
<1> QED
  BY <1>2, <1>3, <1>4, <1>5, <1>6, <1>8, <1>9, <1>10, <1>11 DEF Next

(* One producer's messages reach a consumer in emission order, none twice, *)
(* through restarts, full mailboxes and `PUBLISH_TO.                       *)
THEOREM KernelInOrder == Spec => []InOrder
<1>1. Init => OrderInv
  BY DEF Init, OrderInv, Ordered, NewActor
<1>2. OrderInv => InOrder
  BY DEF OrderInv, Ordered, InOrder
<1> QED
  BY <1>1, <1>2, NextOrderInv, SpecIInv, PTL DEF Spec

-----------------------------------------------------------------------------
(* The kernel implements ActorContract.  Open, Box and Hand are the        *)
(* substituted variables.                                                  *)

Open == [a \in Actors |-> actor[a].alive]
Box  == [a \in Actors |-> actor[a].mbox]
Handled(s) == {h.msg : h \in s.hand}
Hand == [a \in Actors |-> Handled(actor[a])]

LEMMA PointUpdate ==
  ASSUME NEW S, NEW a \in S, NEW v, NEW f, NEW g,
         f = [b \in S |-> f[b]], g = [b \in S |-> g[b]],
         g[a] = v, \A b \in S : b # a => g[b] = f[b]
  PROVE  g = [f EXCEPT ![a] = v]
OBVIOUS

LEMMA SameFunction ==
  ASSUME NEW S, NEW f, NEW g,
         f = [b \in S |-> f[b]], g = [b \in S |-> g[b]], \A b \in S : g[b] = f[b]
  PROVE  g = f
OBVIOUS

LEMMA OneActorMapped ==
  ASSUME IInv, NEW a \in Actors, NEW s \in ActorType, actor' = [actor EXCEPT ![a] = s]
  PROVE  /\ Open' = [Open EXCEPT ![a] = s.alive]
         /\ Box' = [Box EXCEPT ![a] = s.mbox]
         /\ Hand' = [Hand EXCEPT ![a] = Handled(s)]
         /\ s.alive = actor[a].alive => Open' = Open
         /\ s.mbox = actor[a].mbox => Box' = Box
         /\ s.hand = actor[a].hand => Hand' = Hand
<1>1. actor'[a] = s /\ \A b \in Actors : b # a => actor'[b] = actor[b]
  BY DEF IInv, TypeInv
<1>2. \A b \in Actors : /\ Open[b] = actor[b].alive /\ Open'[b] = actor'[b].alive
                        /\ Box[b] = actor[b].mbox /\ Box'[b] = actor'[b].mbox
                        /\ Hand[b] = Handled(actor[b]) /\ Hand'[b] = Handled(actor'[b])
  BY DEF Open, Box, Hand, Handled
<1>3. /\ Open = [b \in Actors |-> Open[b]] /\ Open' = [b \in Actors |-> Open'[b]]
      /\ Box = [b \in Actors |-> Box[b]] /\ Box' = [b \in Actors |-> Box'[b]]
      /\ Hand = [b \in Actors |-> Hand[b]] /\ Hand' = [b \in Actors |-> Hand'[b]]
  BY DEF Open, Box, Hand
<1>4. s.hand = actor[a].hand => Handled(s) = Handled(actor[a])
  BY DEF Handled
<1>5. /\ Open'[a] = s.alive /\ \A b \in Actors : b # a => Open'[b] = Open[b]
      /\ Box'[a] = s.mbox /\ \A b \in Actors : b # a => Box'[b] = Box[b]
      /\ Hand'[a] = Handled(s) /\ \A b \in Actors : b # a => Hand'[b] = Hand[b]
  BY <1>1, <1>2
<1>6. /\ Open' = [Open EXCEPT ![a] = s.alive]
      /\ Box' = [Box EXCEPT ![a] = s.mbox]
      /\ Hand' = [Hand EXCEPT ![a] = Handled(s)]
  BY <1>3, <1>5, PointUpdate
<1>7. s.alive = actor[a].alive => Open' = Open
  BY <1>2, <1>3, <1>5, SameFunction
<1>8. s.mbox = actor[a].mbox => Box' = Box
  BY <1>2, <1>3, <1>5, SameFunction
<1>9. s.hand = actor[a].hand => Hand' = Hand
  BY <1>2, <1>3, <1>4, <1>5, SameFunction
<1> QED
  BY <1>6, <1>7, <1>8, <1>9

(* The fan-out appends to the mailboxes that have room.                    *)
LEMMA OfferedAccepted ==
  ASSUME IInv, NEW m \in Msg,
         \A c \in Actors : \/ actor'[c] = actor[c]
                           \/ actor'[c] = Offered(actor[c], Capacity[c], m)
  PROVE  Contract!Accept
<1>2. ASSUME NEW c \in Actors
      PROVE  /\ actor[c] \in ActorType
             /\ actor'[c] = actor[c] \/ actor'[c] = Offered(actor[c], Capacity[c], m)
  BY DEF IInv, TypeInv
<1>3. ASSUME NEW c \in Actors
      PROVE  /\ actor'[c].alive = actor[c].alive /\ actor'[c].hand = actor[c].hand
             /\ actor'[c].mbox # actor[c].mbox =>
                  HasRoom(actor[c], Capacity[c]) /\ actor'[c].mbox = Append(actor[c].mbox, m)
  BY <1>2 DEF Offered, ActorType
<1>4. ASSUME NEW c \in Actors, actor'[c].mbox # actor[c].mbox
      PROVE  /\ Capacity[c] = 0 \/ Len(actor[c].mbox) < Capacity[c]
             /\ Len(actor'[c].mbox) = Len(actor[c].mbox) + 1
             /\ actor'[c].mbox = Append(actor[c].mbox, actor'[c].mbox[Len(actor[c].mbox) + 1])
  <2>1. actor[c].mbox \in Seq(Msg)
    BY <1>2 DEF ActorType
  <2>2. HasRoom(actor[c], Capacity[c]) /\ actor'[c].mbox = Append(actor[c].mbox, m)
    BY <1>3, <1>4
  <2> QED
    BY <2>1, <2>2 DEF HasRoom
<1>5. UNCHANGED <<Open, Hand>>
  BY <1>3 DEF Open, Hand, Handled
<1>6. DOMAIN Box' = Actors
  BY DEF Box
<1>7. \A c \in Actors : Box[c] = actor[c].mbox /\ Box'[c] = actor'[c].mbox
  BY DEF Box
<1>8. \A c \in Actors : Box'[c] # Box[c] =>
        /\ Capacity[c] = 0 \/ Len(Box[c]) < Capacity[c]
        /\ Len(Box'[c]) = Len(Box[c]) + 1
        /\ Box'[c] = Append(Box[c], Box'[c][Len(Box[c]) + 1])
  BY <1>4, <1>7
<1> QED
  BY <1>5, <1>6, <1>8 DEF Contract!Accept, Contract!Room, Open, Box, Hand, Handled

LEMMA InitContract == Init => Contract!Init
BY DEF Init, NewActor, Contract!Init

LEMMA NextContract == IInv /\ [Next]_vars => [Contract!Next]_(Contract!vars)
<1> SUFFICES ASSUME IInv, [Next]_vars
             PROVE  Contract!Next \/ UNCHANGED <<Open, Box, Hand>>
  BY DEF Contract!vars, Open, Box, Hand, Handled
<1> USE KernelAssumption
<1>0. ASSUME NEW a \in Actors
      PROVE  /\ actor[a] \in ActorType /\ Life(actor[a])
             /\ Open[a] = actor[a].alive /\ Box[a] = actor[a].mbox
             /\ Hand[a] = Handled(actor[a])
  BY DEF IInv, TypeInv, LifeInv, Open, Box, Hand
<1>1. ASSUME NEW a \in Actors, Start(a) PROVE Contract!Next \/ UNCHANGED <<Open, Box, Hand>>
  <2> DEFINE s == Started(actor[a])
  <2>1. s \in ActorType
    <3>1. LiveLoops(actor[a]) = {}
      BY <1>0, <1>1, NothingRuns, RecordType DEF Start, MayStart
    <3> QED BY <1>0, <3>1, StartedLife, RecordType
  <2>2. s.alive /\ s.mbox = actor[a].mbox /\ s.hand = actor[a].hand
    BY <1>0 DEF Started, ActorType
  <2>3. actor' = [actor EXCEPT ![a] = s]
    BY <1>1 DEF Start
  <2> HIDE DEF s
  <2>4. CASE actor[a].alive
    BY <1>0, <2>1, <2>2, <2>3, <2>4, OneActorMapped DEF ActorType
  <2>5. CASE ~actor[a].alive
    <3>6. LiveLoops(actor[a]) = {}
      BY <1>0, <2>5 DEF Life
    <3>4. actor[a].hand = {}
      BY <3>6 DEF LiveLoops
    <3>1. Hand[a] = {}
      BY <1>0, <3>4 DEF Handled
    <3>5. s.alive = TRUE
      BY <2>2, <1>0 DEF ActorType, s, Started
    <3>2. /\ Open' = [Open EXCEPT ![a] = TRUE]
          /\ UNCHANGED <<Box, Hand>>
      BY <2>1, <2>2, <2>3, <3>5, OneActorMapped
    <3>3. Contract!Reopen(a)
      BY <1>0, <2>5, <3>1, <3>2 DEF Contract!Reopen, Open, Box, Hand, Handled
    <3> QED
      BY <3>3 DEF Contract!Next
  <2> QED
    BY <2>4, <2>5
<1>2. ASSUME NEW a \in Actors, Stop(a) PROVE Contract!Next
  <2> DEFINE s == Stopped(actor[a])
  <2>1. s \in ActorType
    BY <1>0, StoppedLife, RecordType
  <2>7. \A g \in LiveLoops(actor[a]) : g = actor[a].prun
    BY <1>0 DEF Life
  <2>6. \A h \in actor[a].hand : h.gen = actor[a].prun
    BY <2>7 DEF LiveLoops
  <2>2. s.alive = FALSE /\ s.mbox = actor[a].mbox /\ s.hand = {}
    BY <1>0, <2>6 DEF Stopped, ActorType
  <2>3. actor' = [actor EXCEPT ![a] = s]
    BY <1>2 DEF Stop
  <2> HIDE DEF s
  <2>4. /\ Open' = [Open EXCEPT ![a] = FALSE] /\ Box' = Box
        /\ Hand' = [Hand EXCEPT ![a] = {}]
    <3>1. Handled(s) = {}
      BY <2>2 DEF Handled
    <3>2. Hand' = [Hand EXCEPT ![a] = Handled(s)]
      BY <2>1, <2>3, OneActorMapped
    <3>3. Open' = [Open EXCEPT ![a] = s.alive] /\ Box' = Box
      BY <2>1, <2>2, <2>3, OneActorMapped
    <3> QED
      BY <2>2, <3>1, <3>2, <3>3
  <2>5. Contract!Close(a)
    BY <2>4 DEF Contract!Close, Open, Box, Hand, Handled
  <2> QED
    BY <2>5 DEF Contract!Next
<1>3. ASSUME NEW a \in Actors, RunFork(a) PROVE UNCHANGED <<Open, Box, Hand>>
  <2>1. PICK g \in actor[a].pend : actor' = [actor EXCEPT ![a] = ForkRun(actor[a], g)]
    BY <1>0, <1>3 DEF RunFork
  <2>2. ForkRun(actor[a], g) \in ActorType
    BY <1>0, ForkRunLife, RecordType
  <2>3. /\ ForkRun(actor[a], g).mbox = actor[a].mbox
        /\ ForkRun(actor[a], g).alive = actor[a].alive
        /\ ForkRun(actor[a], g).hand = actor[a].hand
    BY <1>0 DEF ForkRun, ActorType
  <2> QED
    BY <2>1, <2>2, <2>3, OneActorMapped
<1>4. ASSUME NEW a \in Actors, Get(a) PROVE Contract!Next
  <2>1. PICK g \in actor[a].loops : actor' = [actor EXCEPT ![a] = Took(actor[a], g)]
    BY <1>0, <1>4 DEF Get
  <2>2. actor[a].mbox # <<>> /\ actor[a].hand = {}
    BY <1>0, <1>4, <2>1 DEF Get, Life
  <2> DEFINE s == Took(actor[a], g)
  <2>3. s \in ActorType
    BY <1>0, <2>2, TookLife, RecordType
  <2>4. /\ s.alive = actor[a].alive /\ s.mbox = Tail(actor[a].mbox)
        /\ s.hand = {[gen |-> g, msg |-> Head(actor[a].mbox)]}
    BY <1>0, <2>2 DEF Took, ActorType
  <2>5. actor' = [actor EXCEPT ![a] = s]
    BY <2>1
  <2> HIDE DEF s
  <2>6. Handled(s) = {Head(actor[a].mbox)}
    BY <2>4 DEF Handled
  <2>7. /\ Open' = Open
        /\ Box' = [Box EXCEPT ![a] = Tail(Box[a])]
        /\ Hand' = [Hand EXCEPT ![a] = {Head(Box[a])}]
    <3>1. /\ Hand' = [Hand EXCEPT ![a] = Handled(s)]
          /\ Box' = [Box EXCEPT ![a] = s.mbox]
      BY <2>3, <2>5, OneActorMapped
    <3>2. Open' = Open
      BY <2>3, <2>4, <2>5, OneActorMapped
    <3> QED
      BY <1>0, <2>4, <2>6, <3>1, <3>2
  <2>8. Hand[a] = {} /\ Box[a] # <<>>
    BY <1>0, <2>2 DEF Handled
  <2>9. Contract!Take(a)
    BY <2>7, <2>8 DEF Contract!Take, Open, Box, Hand, Handled
  <2> QED
    BY <2>9 DEF Contract!Next
<1>5. ASSUME NEW a \in Actors, ActReturns(a) PROVE Contract!Next
  <2>1. PICK h \in actor[a].hand : actor' = [actor EXCEPT ![a] = ActDone(actor[a], h)]
    BY <1>0, <1>5 DEF ActReturns
  <2> DEFINE s == ActDone(actor[a], h)
  <2>2. s \in ActorType
    BY <1>0, ActDoneLife, RecordType
  <2>3. s.alive = actor[a].alive /\ s.mbox = actor[a].mbox /\ s.hand = {}
    BY <1>0 DEF ActDone, Life, ActorType
  <2>4. actor' = [actor EXCEPT ![a] = s]
    BY <2>1
  <2> HIDE DEF s
  <2>5. UNCHANGED <<Open, Box>> /\ Hand' = [Hand EXCEPT ![a] = {}]
    <3>1. Handled(s) = {}
      BY <2>3 DEF Handled
    <3>2. Hand' = [Hand EXCEPT ![a] = Handled(s)]
      BY <2>2, <2>4, OneActorMapped
    <3>3. UNCHANGED <<Open, Box>>
      BY <2>2, <2>3, <2>4, OneActorMapped
    <3> QED
      BY <3>1, <3>2, <3>3
  <2>6. Contract!Finish(a)
    BY <2>5 DEF Contract!Finish, Open, Box, Hand, Handled
  <2> QED
    BY <2>6 DEF Contract!Next
<1>6. ASSUME NEW a \in Actors, NEW t \in Types, FanOut(a, t) PROVE Contract!Next
  <2>1. \A c \in Actors : \/ actor'[c] = actor[c]
                          \/ actor'[c] = Offered(actor[c], Capacity[c], Emission(a, t))
    BY <1>6 DEF FanOut
  <2>2. Contract!Accept
    BY <2>1, EmissionType, OfferedAccepted
  <2> QED
    BY <2>2 DEF Contract!Next
<1>7. ASSUME NEW a \in Actors, NEW t \in Types, NEW c \in Actors, SendTo(a, t, c)
      PROVE  Contract!Next
  <2>1. \A b \in Actors : \/ actor'[b] = actor[b]
                          \/ actor'[b] = Offered(actor[b], Capacity[b], Emission(a, t))
    BY <1>7 DEF SendTo, IInv, TypeInv
  <2>2. Contract!Accept
    BY <2>1, EmissionType, OfferedAccepted
  <2> QED
    BY <2>2 DEF Contract!Next
<1>8. CASE UNCHANGED vars
  BY <1>8 DEF vars, Open, Box, Hand, Handled
<1> QED
  BY <1>1, <1>2, <1>3, <1>4, <1>5, <1>6, <1>7, <1>8 DEF Next, Publish, TryPublish

(* Every actor of every kernel keeps the contract of ActorContract: it     *)
(* handles what was accepted, in order, one message at a time, and a       *)
(* restart (start() after stop()) begins with nothing at hand.             *)
THEOREM KernelKeepsContract == Spec => KeepsContract
BY InitContract, NextContract, SpecIInv, PTL DEF Spec, KeepsContract, Contract!Spec
=============================================================================
