---------------------------- MODULE ActorProcess ----------------------------
(***************************************************************************)
(* The life of one SystemVerilog actor (class Actor of                     *)
(* actor_pkg/actor_pkg.sv) as operators on a record, one operator per      *)
(* atomic piece of code.  A function of the class never suspends, so each  *)
(* is one step of the simulator; the modules that compose actors apply     *)
(* these operators in the order the code makes the calls.                  *)
(*                                                                         *)
(* A run process is named by the generation its fork captured (my_gen):    *)
(* run_gen grows at every start() and stop(), so the name is unique.       *)
(***************************************************************************)
EXTENDS Naturals, Sequences

(* 0 stands for the null handle of p_run: no fork ever captures 0.         *)
NullProc == 0

(* The fields of an actor object, and its processes:                       *)
(*   alive, gen, prun, mbox -- is_alive, run_gen, p_run, mbox;             *)
(*   pend  -- forks of start() the simulator has not executed yet;         *)
(*   loops -- run() loops blocked in mbox.get();                           *)
(*   hand  -- run() loops inside act(), each with the message it handles.  *)
NewActor == [alive |-> TRUE, gen |-> 0, prun |-> NullProc, mbox |-> <<>>,
             pend |-> {}, loops |-> {}, hand |-> {}]

(* The generations of the run loops that exist.                            *)
LiveLoops(s) == s.loops \cup {h.gen : h \in s.hand}

(* Faulty variants of the operators below, each a slip the code could have *)
(* had; no specification uses them.                                        *)
Started_CapturesTooEarly(s) ==
  [s EXCEPT !.alive = TRUE, !.gen = @ + 1, !.pend = @ \cup {s.gen}]
Stopped_KeepsGeneration(s) ==
  [s EXCEPT !.alive = FALSE,
            !.loops = @ \ {s.prun},
            !.hand  = {h \in @ : h.gen # s.prun}]
Stopped_KillsOnlyWaiting(s) ==
  [s EXCEPT !.alive = FALSE, !.gen = @ + 1, !.loops = @ \ {s.prun}]
ForkRun_NoGenerationTest(s, g) ==
  [s EXCEPT !.pend = @ \ {g}, !.prun = g, !.loops = @ \cup {g}]
Took_Peeks(s, g) ==
  [s EXCEPT !.loops = @ \ {g},
            !.hand  = @ \cup {[gen |-> g, msg |-> Head(s.mbox)]}]
ActDone_LoopEnds(s, h) == [s EXCEPT !.hand = @ \ {h}]
HasRoom_OffByOne(s, cap) == cap = 0 \/ Len(s.mbox) <= cap
Drained_LeavesOldest(s) ==
  [s EXCEPT !.mbox = IF Len(@) > 1 THEN <<Head(@)>> ELSE @]

(* start(): the fork captures the generation and is left to the simulator. *)
Started(s) ==
  [s EXCEPT !.alive = TRUE, !.gen = @ + 1, !.pend = @ \cup {s.gen + 1}]

(* stop(): only the process p_run names is killed, wherever it is; a fork  *)
(* not executed yet is out of kill()'s reach.                              *)
Stopped(s) ==
  [s EXCEPT !.alive = FALSE, !.gen = @ + 1,
            !.loops = @ \ {s.prun},
            !.hand  = {h \in @ : h.gen # s.prun}]

(* The simulator executes fork g: it becomes the run loop if no start() or *)
(* stop() came in between, and ends at once otherwise.                     *)
ForkRun(s, g) ==
  IF g = s.gen
  THEN [s EXCEPT !.pend = @ \ {g}, !.prun = g, !.loops = @ \cup {g}]
  ELSE [s EXCEPT !.pend = @ \ {g}]

(* mbox.get() returns the oldest message and loop g enters act().          *)
Took(s, g) ==
  [s EXCEPT !.loops = @ \ {g}, !.mbox = Tail(@),
            !.hand  = @ \cup {[gen |-> g, msg |-> Head(s.mbox)]}]

(* act() returns and the loop is back in mbox.get().                       *)
ActDone(s, h) ==
  [s EXCEPT !.hand = @ \ {h}, !.loops = @ \cup {h.gen}]

(* A mailbox built with new(capacity) refuses when full; capacity 0 is the *)
(* unbounded mailbox.                                                      *)
HasRoom(s, cap) == cap = 0 \/ Len(s.mbox) < cap

(* mbox.try_put(m).                                                        *)
Offered(s, cap, m) ==
  IF HasRoom(s, cap) THEN [s EXCEPT !.mbox = Append(@, m)] ELSE s

(* Supervisor.drain_mbox().                                                *)
Drained(s) == [s EXCEPT !.mbox = <<>>]
=============================================================================
