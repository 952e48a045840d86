--------------------------- MODULE MCThreadActor ----------------------------
(* The shape of examples/log_pipeline.cpp: main publishes to a parser,     *)
(* which publishes to a sink.                                              *)
EXTENDS ThreadActor

CONSTANTS parser, sink, prog

PipeSubs == [t \in {parser, sink, prog} |->
               CASE t = prog -> <<parser, sink>> [] t = parser -> <<sink>> [] t = sink -> <<>>]
PipeCapacity == [a \in {parser, sink} |-> IF a = sink THEN 1 ELSE 2]
PipeDeclared == <<parser, sink>>
PipeSent == [t \in {parser, sink, prog} |-> CASE t = prog -> 2 [] t = parser -> 1 [] t = sink -> 0]

OneSubs == [t \in {sink, prog} |-> IF t = prog THEN <<sink>> ELSE <<>>]
OneCapacity == [a \in {sink} |-> 2]
OneDeclared == <<sink>>
OneSent == [t \in {sink, prog} |-> IF t = prog THEN 3 ELSE 0]
=============================================================================
