---------------------------- MODULE ActorKernel -----------------------------
(***************************************************************************)
(* The core of the SystemVerilog framework, actor_pkg/actor_pkg.sv: a set  *)
(* of actors wired by message type, whoever owns them calling start() and  *)
(* stop() at any moment, and any of them publishing at any moment.         *)
(*                                                                         *)
(* The simulator runs one process at a time up to its next suspension; the *)
(* suspension points are mbox.get() and whatever act() waits for, and the  *)
(* body of a fork...join_none waits for its first turn.  Each action is    *)
(* one such uninterrupted piece.                                           *)
(***************************************************************************)
EXTENDS ActorProcess, FiniteSets

CONSTANTS
  Actors,     (* the actors                                                *)
  Types,      (* the payload types                                         *)
  Subs,       (* Subs[p][t]: the consumers `WIRE registered with p for t   *)
  Capacity,   (* Capacity[a]: mailbox capacity, 0 for an unbounded one     *)
  MaxGen,     (* bound: MaxGen[a] start() and stop() calls on a            *)
  MaxSent     (* bound: MaxSent[a] messages sent by a                      *)

ASSUME KernelAssumption ==
  /\ Subs \in [Actors -> [Types -> SUBSET Actors]]
  /\ Capacity \in [Actors -> Nat]
  /\ MaxGen \in [Actors -> Nat]
  /\ MaxSent \in [Actors -> Nat]

VARIABLES
  actor,      (* actor[a]: the record of ActorProcess                      *)
  sent,       (* sent[p]: number of messages p has emitted                 *)
  taken,      (* history: taken[c][p], the last of p's messages c handled  *)
  lastTry     (* history: what the last try_publish() returned, and which  *)
              (* wired consumers did not get its message                   *)

vars == <<actor, sent, taken, lastTry>>

(* Messages of one producer are numbered in the order it emits them.       *)
Msg == [type : Types, src : Actors, seq : Nat]

Init ==
  /\ actor = [a \in Actors |-> NewActor]
  /\ sent = [a \in Actors |-> 0]
  /\ taken = [c \in Actors |-> [p \in Actors |-> 0]]
  /\ lastTry = [ok |-> TRUE, missed |-> {}]

-----------------------------------------------------------------------------
(* Life cycle.                                                             *)

(* The owners of an actor in this repository call start() on an actor they *)
(* have just built or have stopped, never on one that is running.          *)
MayStart(a) == ~actor[a].alive \/ actor[a].gen = 0

Start(a) ==
  /\ MayStart(a)
  /\ actor[a].gen < MaxGen[a]
  /\ actor' = [actor EXCEPT ![a] = Started(@)]
  /\ UNCHANGED <<sent, taken, lastTry>>

(* stop() from outside, or from inside the actor's own act().              *)
Stop(a) ==
  /\ actor[a].gen < MaxGen[a]
  /\ actor' = [actor EXCEPT ![a] = Stopped(@)]
  /\ UNCHANGED <<sent, taken, lastTry>>

RunFork(a) ==
  /\ \E g \in actor[a].pend : actor' = [actor EXCEPT ![a] = ForkRun(@, g)]
  /\ UNCHANGED <<sent, taken, lastTry>>

Get(a) ==
  /\ actor[a].mbox # <<>>
  /\ \E g \in actor[a].loops : actor' = [actor EXCEPT ![a] = Took(@, g)]
  /\ LET m == Head(actor[a].mbox) IN taken' = [taken EXCEPT ![a][m.src] = m.seq]
  /\ UNCHANGED <<sent, lastTry>>

ActReturns(a) ==
  /\ \E h \in actor[a].hand : actor' = [actor EXCEPT ![a] = ActDone(@, h)]
  /\ UNCHANGED <<sent, taken, lastTry>>

-----------------------------------------------------------------------------
(* Sending.                                                                *)

Emission(p, t) == [type |-> t, src |-> p, seq |-> sent[p] + 1]

Emit(p) == sent[p] < MaxSent[p] /\ sent' = [sent EXCEPT ![p] = @ + 1]

(* The consumers the fan-out reaches: the wired ones that are alive.       *)
Reached(p, t) == {c \in Subs[p][t] : actor[c].alive}

(* The loop over the subscribers: a full mailbox drops its copy.           *)
FanOut(p, t) ==
  actor' = [c \in Actors |->
              IF c \in Reached(p, t)
              THEN Offered(actor[c], Capacity[c], Emission(p, t))
              ELSE actor[c]]

Publish(p, t) ==
  /\ Emit(p)
  /\ FanOut(p, t)
  /\ UNCHANGED <<taken, lastTry>>

(* try_publish() ands the results of the try_puts it makes.                *)
TryPublish(p, t) ==
  /\ Emit(p)
  /\ FanOut(p, t)
  /\ lastTry' =
       [ok     |-> \A c \in Reached(p, t) : HasRoom(actor[c], Capacity[c]),
        missed |-> {c \in Subs[p][t] :
                      c \in Reached(p, t) => ~HasRoom(actor[c], Capacity[c])}]
  /\ UNCHANGED taken

(* `PUBLISH_TO: straight into a mailbox, alive or not.                     *)
SendTo(p, t, c) ==
  /\ Emit(p)
  /\ actor' = [actor EXCEPT ![c] = Offered(@, Capacity[c], Emission(p, t))]
  /\ UNCHANGED <<taken, lastTry>>

-----------------------------------------------------------------------------
Next ==
  \E a \in Actors :
    \/ Start(a)
    \/ Stop(a)
    \/ RunFork(a)
    \/ Get(a)
    \/ ActReturns(a)
    \/ \E t \in Types : Publish(a, t)
    \/ \E t \in Types : TryPublish(a, t)
    \/ \E t \in Types, c \in Actors : SendTo(a, t, c)

Spec == Init /\ [][Next]_vars

(* The simulator gives every process that can run its turn, and act()      *)
(* returns; nobody is obliged to start, stop or send.                      *)
Fairness ==
  \A a \in Actors : WF_vars(RunFork(a)) /\ WF_vars(Get(a)) /\ WF_vars(ActReturns(a))

FairSpec == Spec /\ Fairness

-----------------------------------------------------------------------------
(* Properties.                                                             *)

ActorType ==
  [alive : BOOLEAN, gen : Nat, prun : Nat, mbox : Seq(Msg),
   pend : SUBSET Nat, loops : SUBSET Nat, hand : SUBSET [gen : Nat, msg : Msg]]

(* Type invariant of the variables; mailboxes respect their capacity.      *)
TypeOK ==
  /\ actor \in [Actors -> ActorType]
  /\ \A a \in Actors : Capacity[a] > 0 => Len(actor[a].mbox) <= Capacity[a]
  /\ sent \in [Actors -> Nat]
  /\ taken \in [Actors -> [Actors -> Nat]]
  /\ lastTry \in [ok : BOOLEAN, missed : SUBSET Actors]

(* However start() and stop() race with the forks that have not executed,  *)
(* an actor has at most one run loop, which is the process p_run names, so *)
(* that stop() can kill it, and which handles one message at a time (the   *)
(* generation test of start()).                                            *)
SingleLoop ==
  \A a \in Actors : LET s == actor[a] IN
    /\ \A g \in LiveLoops(s) : g = s.prun
    /\ \A x, y \in s.hand : x = y
    /\ s.loops = {} \/ s.hand = {}

(* After stop() the actor runs nothing, and no fork still waiting for its  *)
(* turn can bring it back.                                                 *)
StopIsFinal ==
  \A a \in Actors : ~actor[a].alive =>
    /\ LiveLoops(actor[a]) = {}
    /\ actor[a].gen \notin actor[a].pend

(* A consumer receives one producer's messages in the order they were      *)
(* emitted and none twice, through restarts, drops and direct sends.       *)
InOrder ==
  \A c \in Actors : LET box == actor[c].mbox IN
    /\ \A i \in DOMAIN box : taken[c][box[i].src] < box[i].seq
    /\ \A i, j \in DOMAIN box :
         (i < j /\ box[i].src = box[j].src) => box[i].seq < box[j].seq

(* Each actor keeps the contract of ActorContract: what it handles is what *)
(* was accepted, in order and one at a time, and a restart begins with     *)
(* nothing at hand.                                                        *)
Contract == INSTANCE ActorContract WITH
  open <- [a \in Actors |-> actor[a].alive],
  box  <- [a \in Actors |-> actor[a].mbox],
  hand <- [a \in Actors |-> {h.msg : h \in actor[a].hand}]

KeepsContract == Contract!Spec

(* The comment on try_publish(), "Returns 1 only when every wired consumer *)
(* accepted the message".                                                  *)
TryPublishHonest == lastTry.ok => lastTry.missed = {}

(* An actor that was started and is not stopped gets its run loop.         *)
StartedRuns ==
  \A a \in Actors :
    (actor[a].alive /\ actor[a].gen > 0)
      ~> (LiveLoops(actor[a]) # {} \/ ~actor[a].alive)

(* A message in the mailbox of a started actor is handled, unless the      *)
(* actor is stopped first.                                                 *)
MailHandled ==
  \A a \in Actors :
    (actor[a].mbox # <<>> /\ actor[a].alive /\ actor[a].gen > 0)
      ~> (actor[a].mbox = <<>> \/ ~actor[a].alive)
=============================================================================
