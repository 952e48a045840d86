--------------------------- MODULE ActorContract ----------------------------
(***************************************************************************)
(* What every implementation of the framework promises of an actor,        *)
(* whichever language it is written in: a mailbox of limited size that is  *)
(* served one message at a time in the order of arrival.  ActorKernel,     *)
(* ThreadActor and CoroActor are shown to implement this specification.    *)
(***************************************************************************)
EXTENDS Naturals, Sequences

CONSTANTS
  Actors,     (* the actors                                                *)
  Capacity    (* Capacity[a]: size of the mailbox, 0 for unbounded         *)

VARIABLES
  open,       (* open[a]: a is started or startable, not stopped           *)
  box,        (* box[a]: messages accepted and not taken                   *)
  hand        (* hand[a]: the message being handled, none or one           *)

vars == <<open, box, hand>>

Init ==
  /\ open = [a \in Actors |-> TRUE]
  /\ box = [a \in Actors |-> <<>>]
  /\ hand = [a \in Actors |-> {}]

Room(a) == Capacity[a] = 0 \/ Len(box[a]) < Capacity[a]

(* A message enters the mailboxes of some of the actors that have room.    *)
Accept ==
  /\ DOMAIN box' = Actors
  /\ \A a \in Actors : box'[a] # box[a] =>
       /\ Room(a)
       /\ Len(box'[a]) = Len(box[a]) + 1
       /\ box'[a] = Append(box[a], box'[a][Len(box[a]) + 1])
  /\ UNCHANGED <<open, hand>>

(* The oldest message is taken, when the one before is done with.          *)
Take(a) ==
  /\ hand[a] = {} /\ box[a] # <<>>
  /\ hand' = [hand EXCEPT ![a] = {Head(box[a])}]
  /\ box' = [box EXCEPT ![a] = Tail(@)]
  /\ UNCHANGED open

Finish(a) ==
  /\ hand' = [hand EXCEPT ![a] = {}]
  /\ UNCHANGED <<open, box>>

(* Stopping: the message at hand is finished later or abandoned.           *)
Close(a) ==
  /\ open' = [open EXCEPT ![a] = FALSE]
  /\ hand' \in {hand, [hand EXCEPT ![a] = {}]}
  /\ UNCHANGED box

(* Restarting a closed actor that has nothing at hand.                     *)
Reopen(a) ==
  /\ ~open[a] /\ hand[a] = {}
  /\ open' = [open EXCEPT ![a] = TRUE]
  /\ UNCHANGED <<box, hand>>

Next ==
  \/ Accept
  \/ \E a \in Actors : Take(a) \/ Finish(a) \/ Close(a) \/ Reopen(a)

Spec == Init /\ [][Next]_vars
=============================================================================
