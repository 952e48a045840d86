------------------------ MODULE ActorProcessProofs -------------------------
(***************************************************************************)
(* What every operator of ActorProcess keeps of one actor's record,        *)
(* whatever its messages M are.                                            *)
(*                                                                         *)
(* Life(s) says why no second run loop can appear: a waiting fork can pass *)
(* the generation test only if it is the newest, and then nothing runs.    *)
(***************************************************************************)
EXTENDS ActorProcess, TLAPS

Records(M) ==
  [alive : BOOLEAN, gen : Nat, prun : Nat, mbox : Seq(M), pend : SUBSET Nat,
   loops : SUBSET Nat, hand : SUBSET [gen : Nat, msg : M]]

(* What holds of one actor's record between two steps.                     *)
Life(s) ==
  /\ s.pend \subseteq 1 .. s.gen
  /\ \A g \in LiveLoops(s) : g = s.gen /\ g = s.prun /\ g > 0
  /\ s.gen \in s.pend => LiveLoops(s) = {} /\ s.alive
  /\ ~s.alive => LiveLoops(s) = {}
  /\ \A x, y \in s.hand : x = y
  /\ s.loops = {} \/ s.hand = {}

-----------------------------------------------------------------------------
(* Every operator keeps the type of the record and Life.                   *)

LEMMA NewActorLife == \A M : NewActor \in Records(M) /\ Life(NewActor)
BY DEF NewActor, Records, Life, LiveLoops, NullProc

LEMMA NothingRuns ==
  ASSUME NEW M, NEW s \in Records(M), Life(s), ~s.alive \/ s.gen = 0
  PROVE  LiveLoops(s) = {}
<1>1. s.gen \in Nat /\ \A g \in LiveLoops(s) : g = s.gen /\ g > 0
  BY DEF Life, Records
<1> QED BY <1>1 DEF Life

LEMMA StartedLife ==
  ASSUME NEW M, NEW s \in Records(M), Life(s), LiveLoops(s) = {}
  PROVE  Started(s) \in Records(M) /\ Life(Started(s))
<1> DEFINE t == Started(s)
<1>1. LiveLoops(s) = {} /\ s.pend \subseteq 1 .. s.gen /\ s.gen \in Nat
  BY DEF Life, Records
<1>2. s.hand = {} /\ s.loops = {}
  BY <1>1 DEF LiveLoops
<1>3. /\ t.alive = TRUE /\ t.gen = s.gen + 1 /\ t.prun = s.prun
      /\ t.mbox = s.mbox /\ t.pend = s.pend \cup {s.gen + 1}
      /\ t.loops = {} /\ t.hand = {}
  BY <1>2 DEF Started, Records
<1>4. t.pend \in SUBSET Nat
  BY <1>1, <1>3
<1>5. t \in Records(M)
  BY <1>1, <1>4 DEF Started, Records
<1>6. LiveLoops(t) = {} /\ t.pend \subseteq 1 .. t.gen
  BY <1>1, <1>3 DEF LiveLoops
<1> HIDE DEF t
<1>7. Life(t)
  BY <1>3, <1>6 DEF Life
<1> QED
  BY <1>5, <1>7 DEF t

LEMMA StoppedLife ==
  ASSUME NEW M, NEW s \in Records(M), Life(s)
  PROVE  Stopped(s) \in Records(M) /\ Life(Stopped(s))
<1> DEFINE t == Stopped(s)
<1>1. s.loops \subseteq {s.prun} /\ \A h \in s.hand : h.gen = s.prun
  BY DEF Life, LiveLoops
<1>2. /\ t.alive = FALSE /\ t.gen = s.gen + 1 /\ t.prun = s.prun
      /\ t.mbox = s.mbox /\ t.pend = s.pend
      /\ t.loops = {} /\ t.hand = {}
  BY <1>1 DEF Stopped, Records
<1>3. s.gen \in Nat /\ s.pend \subseteq 1 .. s.gen
  BY DEF Life, Records
<1>4. t = [s EXCEPT !.alive = FALSE, !.gen = s.gen + 1, !.loops = {}, !.hand = {}]
  BY <1>1 DEF Stopped, Records
<1>5. t \in Records(M)
  <2>1. {} \in SUBSET Nat /\ {} \in SUBSET [gen : Nat, msg : M]
    OBVIOUS
  <2>2. s.gen + 1 \in Nat
    BY <1>3
  <2>3. [s EXCEPT !.alive = FALSE, !.gen = s.gen + 1] \in Records(M)
    BY <2>2 DEF Records
  <2>4. \A r \in Records(M) : [r EXCEPT !.loops = {}, !.hand = {}] \in Records(M)
    BY <2>1 DEF Records
  <2>5. t = [[s EXCEPT !.alive = FALSE, !.gen = s.gen + 1]
               EXCEPT !.loops = {}, !.hand = {}]
    BY <1>4 DEF Records
  <2> HIDE DEF t
  <2> QED
    BY <2>3, <2>4, <2>5
<1>6. LiveLoops(t) = {} /\ t.pend \subseteq 1 .. t.gen /\ t.gen \notin t.pend
  BY <1>2, <1>3 DEF LiveLoops
<1> HIDE DEF t
<1>7. Life(t)
  BY <1>2, <1>6 DEF Life
<1> QED
  BY <1>5, <1>7 DEF t

LEMMA ForkRunLife ==
  ASSUME NEW M, NEW s \in Records(M), Life(s), NEW g \in s.pend
  PROVE  ForkRun(s, g) \in Records(M) /\ Life(ForkRun(s, g))
<1> DEFINE t == ForkRun(s, g)
<1>1. s.gen \in Nat /\ s.pend \subseteq 1 .. s.gen /\ g \in Nat /\ g > 0
  BY DEF Life, Records
<1>2. t \in Records(M)
  BY <1>1 DEF ForkRun, Records
<1>3. CASE g = s.gen
  <2>1. s.hand = {} /\ s.loops = {} /\ s.alive
    BY <1>3 DEF Life, LiveLoops
  <2>2. /\ t.alive = s.alive /\ t.gen = s.gen /\ t.prun = g
        /\ t.pend = s.pend \ {g} /\ t.loops = {g} /\ t.hand = {}
    BY <1>3, <2>1 DEF ForkRun, Records
  <2>3. LiveLoops(t) = {g}
    BY <2>2 DEF LiveLoops
  <2> HIDE DEF t
  <2> QED
    BY <1>1, <1>2, <1>3, <2>1, <2>2, <2>3 DEF Life, t
<1>4. CASE g # s.gen
  <2>1. /\ t.alive = s.alive /\ t.gen = s.gen /\ t.prun = s.prun
        /\ t.pend = s.pend \ {g} /\ t.loops = s.loops /\ t.hand = s.hand
    BY <1>4 DEF ForkRun, Records
  <2>2. LiveLoops(t) = LiveLoops(s)
    BY <2>1 DEF LiveLoops
  <2> HIDE DEF t
  <2> QED
    BY <1>1, <1>2, <2>1, <2>2 DEF Life, t
<1> QED
  BY <1>3, <1>4

LEMMA TookLife ==
  ASSUME NEW M, NEW s \in Records(M), Life(s), NEW g \in s.loops, s.mbox # <<>>
  PROVE  Took(s, g) \in Records(M) /\ Life(Took(s, g))
<1>1. Tail(s.mbox) \in Seq(M) /\ Head(s.mbox) \in M
  BY DEF Records
<1>2. s.hand = {} /\ g \in Nat /\ s.loops = {g} /\ g = s.gen /\ g = s.prun /\ g > 0
  BY DEF Life, LiveLoops, Records
<1> DEFINE h == [gen |-> g, msg |-> Head(s.mbox)]
<1>3. Took(s, g) = [s EXCEPT !.loops = {}, !.mbox = Tail(s.mbox), !.hand = {h}]
  BY <1>2 DEF Took, Records
<1>4. h \in [gen : Nat, msg : M] /\ h.gen = g
  BY <1>1, <1>2
<1>5. Took(s, g) \in Records(M)
  <2>1. {} \in SUBSET Nat /\ {h} \in SUBSET [gen : Nat, msg : M]
    BY <1>4
  <2> HIDE DEF h
  <2> QED
    BY <1>1, <1>3, <2>1 DEF Records
<1>6. LiveLoops(Took(s, g)) = {g}
  BY <1>3, <1>4 DEF LiveLoops, Records
<1>7. s.alive /\ s.gen \notin s.pend
  BY <1>2 DEF Life, LiveLoops
<1> QED
  BY <1>2, <1>3, <1>5, <1>6, <1>7 DEF Life, Records

LEMMA ActDoneLife ==
  ASSUME NEW M, NEW s \in Records(M), Life(s), NEW h \in s.hand
  PROVE  ActDone(s, h) \in Records(M) /\ Life(ActDone(s, h))
<1>1. s.hand = {h} /\ s.loops = {} /\ h.gen \in Nat
  BY DEF Life, Records
<1>2. ActDone(s, h) = [s EXCEPT !.hand = {}, !.loops = {h.gen}]
  BY <1>1 DEF ActDone, Records
<1>3. ActDone(s, h) \in Records(M)
  BY <1>1, <1>2 DEF Records
<1>4. LiveLoops(s) = {h.gen} /\ LiveLoops(ActDone(s, h)) = {h.gen}
  BY <1>1, <1>2 DEF LiveLoops, Records
<1> QED
  BY <1>1, <1>2, <1>3, <1>4 DEF Life, Records

LEMMA OfferedLife ==
  ASSUME NEW M, NEW s \in Records(M), Life(s), NEW m \in M, NEW cap \in Nat
  PROVE  Offered(s, cap, m) \in Records(M) /\ Life(Offered(s, cap, m))
<1>1. Append(s.mbox, m) \in Seq(M)
  BY DEF Records
<1> QED
  BY <1>1 DEF Offered, Life, LiveLoops, Records

LEMMA OfferedBounded ==
  ASSUME NEW M, NEW s \in Records(M), NEW m \in M, NEW cap \in Nat,
         cap > 0 => Len(s.mbox) <= cap
  PROVE  cap > 0 => Len(Offered(s, cap, m).mbox) <= cap
<1>1. s.mbox \in Seq(M)
  BY DEF Records
<1>2. Len(Append(s.mbox, m)) = Len(s.mbox) + 1 /\ Len(s.mbox) \in Nat
  BY <1>1
<1>3. Offered(s, cap, m).mbox = IF HasRoom(s, cap) THEN Append(s.mbox, m) ELSE s.mbox
  BY DEF Offered, Records
<1> QED
  BY <1>2, <1>3 DEF HasRoom

LEMMA DrainedLife ==
  ASSUME NEW M, NEW s \in Records(M), Life(s)
  PROVE  Drained(s) \in Records(M) /\ Life(Drained(s))
<1>1. <<>> \in Seq(M)
  OBVIOUS
<1>2. Drained(s) = [s EXCEPT !.mbox = <<>>]
  BY DEF Drained
<1>3. Drained(s) \in Records(M)
  BY <1>1, <1>2 DEF Records
<1>4. /\ Drained(s).alive = s.alive /\ Drained(s).gen = s.gen /\ Drained(s).prun = s.prun
      /\ Drained(s).pend = s.pend /\ Drained(s).loops = s.loops /\ Drained(s).hand = s.hand
  BY <1>2 DEF Records
<1> QED BY <1>3, <1>4 DEF Life, LiveLoops
=============================================================================
