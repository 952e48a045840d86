--------------------------- MODULE MCActorKernel ----------------------------
(* A producer wired to a bounded consumer, which is wired to an unbounded  *)
(* one: restarts of both consumers, a full mailbox, a chain.               *)
EXTENDS ActorKernel

CONSTANTS prod, mid, tail, item

MCSubs == [a \in {prod, mid, tail} |->
             [t \in {item} |-> CASE a = prod -> {mid, tail}
                                 [] a = mid  -> {tail}
                                 [] OTHER    -> {}]]
MCCapacity == [a \in {prod, mid, tail} |-> IF a = mid THEN 1 ELSE 0]
MCMaxGen == [a \in {prod, mid, tail} |->
               CASE a = prod -> 0 [] a = mid -> 5 [] OTHER -> 1]
MCMaxSent == [a \in {prod, mid, tail} |->
               CASE a = prod -> 2 [] a = mid -> 1 [] OTHER -> 0]

(* One consumer, restarted more often.                                     *)
LiveSubs == [a \in {prod, mid} |-> [t \in {item} |-> IF a = prod THEN {mid} ELSE {}]]
LiveCapacity == [a \in {prod, mid} |-> IF a = mid THEN 2 ELSE 0]
LiveMaxGen == [a \in {prod, mid} |-> IF a = prod THEN 0 ELSE 6]
LiveMaxSent == [a \in {prod, mid} |-> IF a = prod THEN 3 ELSE 0]
=============================================================================
