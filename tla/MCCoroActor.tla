---------------------------- MODULE MCCoroActor -----------------------------
(* examples/coro_pingpong.cpp: two actors wired to each other, and main,   *)
(* on two worker threads.                                                  *)
EXTENDS CoroActor

CONSTANTS ping, pong, prog, w1, w2

PairSubs == [p \in {ping, pong, prog} |->
               CASE p = prog -> <<ping>> [] p = ping -> <<pong>> [] p = pong -> <<ping>>]
PairSent == [p \in {ping, pong, prog} |-> CASE p = prog -> 1 [] p = ping -> 2 [] p = pong -> 0]
OneSubs == [p \in {ping, prog} |-> IF p = prog THEN <<ping>> ELSE <<>>]
OneSent == [p \in {ping, prog} |-> IF p = prog THEN 2 ELSE 0]
=============================================================================
