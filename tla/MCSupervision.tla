--------------------------- MODULE MCSupervision ----------------------------
(* A supervisor sub of two workers, under a root supervisor that it        *)
(* escalates to, and sub alone under ONE_FOR_ALL.                          *)
EXTENDS Supervision

CONSTANTS root, sub, w1, w2

(* The tree: w1 is always restarted, w2 is not.                            *)
Tree == {root, sub}
Team == {w1, w2}
TreeChildren == [s \in Tree |-> IF s = root THEN <<sub>> ELSE <<w1, w2>>]
TreeStrategy == [s \in Tree |-> IF s = root THEN "one" ELSE "rest"]
TreeParents == [s \in Tree |-> IF s = sub THEN {root} ELSE {}]
TreeDirectives ==
  [s \in Tree |-> [a \in Tree \cup Team |->
     IF s = sub /\ a = w2 THEN {"STOP", "RESUME", "ESCALATE"} ELSE {"RESTART"}]]
TreeCapacity == [a \in Tree \cup Team |-> IF a = sub THEN 2 ELSE 0]
TreeJobs == [w \in Team |-> IF w = w1 THEN 2 ELSE 1]
TreeFails == [w \in Team |-> IF w = w1 THEN 4 ELSE 1]

(* sub stops w1 for good and restarts the others.                          *)
TeamChildren == [s \in {sub} |-> <<w1, w2>>]
AllStrategy == [s \in {sub} |-> "all"]
NoParents == [s \in {sub} |-> {}]
StopFirst == [s \in {sub} |-> [a \in {sub, w1, w2} |-> IF a = w1 THEN {"STOP"} ELSE {"RESTART"}]]
TeamCapacity == [a \in {sub, w1, w2} |-> IF a = sub THEN 2 ELSE 0]
OneJob == [w \in Team |-> 1]
=============================================================================
