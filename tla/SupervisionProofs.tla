------------------------- MODULE SupervisionProofs -------------------------
(***************************************************************************)
(* Proofs about Supervision, for any tree of supervisors, strategies,      *)
(* directives, budgets and capacities.                                     *)
(*                                                                         *)
(* enforce_budget() keeps a counter and the time its window opened; what   *)
(* they say about the restarts charged so far is WindowOf.  FreshMailbox   *)
(* holds because a child is drained before it is started again, and rests  *)
(* on Life (ActorProcessProofs) and on nobody sending before start_all().  *)
(***************************************************************************)
EXTENDS Supervision, ActorProcessProofs, FiniteSetTheorems, TLAPS

-----------------------------------------------------------------------------
(* The budget of one child: the charges h so far, restart_count k,         *)
(* window_start w, the time t.                                             *)

(* The last k charges lie in the window that opened at w, those before do  *)
(* not come after w, and those more than MaxRestarts back lie more than    *)
(* Window before w.                                                        *)
InWindow(h, n, k, w, t) ==
  /\ k <= MaxRestarts /\ k <= n /\ (k = 0 => n = 0)
  /\ w <= t
  /\ \A i \in 1 .. n : h[i] <= t
  /\ \A i, j \in 1 .. n : i <= j => h[i] <= h[j]
  /\ \A i \in 1 .. n : i <= n - k + 1 => h[i] <= w
  /\ \A i \in 1 .. n : i > n - k => w <= h[i] /\ h[i] <= w + Window
  /\ \A i \in 1 .. n : i + MaxRestarts <= n - k + 1 => h[i] + Window < w

WindowOf(h, k, w, t) ==
  h \in Seq(Nat) /\ k \in Nat /\ w \in Nat /\ t \in Nat /\ InWindow(h, Len(h), k, w, t)

(* RestartRateBounded of one child.                                        *)
Rate(h) ==
  \A i, j \in 1 .. Len(h) : (j - i >= 2 * MaxRestarts - 1 /\ i < j) => h[j] - h[i] > Window

LEMMA ChargedFacts ==
  ASSUME NEW h \in Seq(Nat), NEW t \in Nat
  PROVE  /\ Append(h, t) \in Seq(Nat) /\ Len(h) \in Nat /\ Len(Append(h, t)) = Len(h) + 1
         /\ Append(h, t)[Len(h) + 1] = t
         /\ \A i \in 1 .. Len(h) : Append(h, t)[i] = h[i] /\ h[i] \in Nat
         /\ \A i \in 1 .. Len(h) + 1 : i \in Nat /\ (i \in 1 .. Len(h) \/ i = Len(h) + 1)
OBVIOUS

LEMMA SameWindow ==
  ASSUME NEW h, NEW k, NEW w, NEW t, WindowOf(h, k, w, t),
         k > 0, t - w <= Window, k + 1 <= MaxRestarts
  PROVE  WindowOf(Append(h, t), k + 1, w, t)
<1> USE SupervisionAssumption
<1>1. h \in Seq(Nat) /\ k \in Nat /\ w \in Nat /\ t \in Nat
  BY DEF WindowOf
<1> DEFINE n == Len(h)
<1> DEFINE g == Append(h, t)
<1>2. /\ g \in Seq(Nat) /\ n \in Nat /\ Len(g) = n + 1 /\ g[n + 1] = t
      /\ \A i \in 1 .. n : g[i] = h[i] /\ h[i] \in Nat
      /\ \A i \in 1 .. n + 1 : i \in Nat /\ (i \in 1 .. n \/ i = n + 1)
  BY <1>1, ChargedFacts
<1>3. InWindow(h, n, k, w, t)
  BY DEF WindowOf
<1> HIDE DEF n, g
<1>4. k <= n /\ w <= t
  BY <1>3 DEF InWindow
<1>5. ASSUME NEW i \in 1 .. n + 1
      PROVE  /\ g[i] <= t
             /\ i <= (n + 1) - (k + 1) + 1 => g[i] <= w
             /\ i > (n + 1) - (k + 1) => w <= g[i] /\ g[i] <= w + Window
             /\ i + MaxRestarts <= (n + 1) - (k + 1) + 1 => g[i] + Window < w
  <2>1. CASE i \in 1 .. n
    <3>1. /\ h[i] <= t
          /\ i <= n - k + 1 => h[i] <= w
          /\ i > n - k => w <= h[i] /\ h[i] <= w + Window
          /\ i + MaxRestarts <= n - k + 1 => h[i] + Window < w
      BY <1>3, <2>1 DEF InWindow
    <3> QED BY <1>1, <1>2, <2>1, <3>1
  <2>2. CASE i = n + 1
    BY <1>1, <1>2, <1>4, <2>2
  <2> QED BY <1>2, <2>1, <2>2
<1>6. ASSUME NEW i \in 1 .. n + 1, NEW j \in 1 .. n + 1, i <= j PROVE g[i] <= g[j]
  <2>1. CASE j \in 1 .. n
    <3>1. i \in 1 .. n
      BY <1>2, <1>6, <2>1
    <3>2. h[i] <= h[j]
      BY <1>3, <1>6, <2>1, <3>1 DEF InWindow
    <3> QED BY <1>2, <2>1, <3>1, <3>2
  <2>2. CASE j = n + 1
    BY <1>2, <1>5, <2>2
  <2> QED BY <1>2, <2>1, <2>2
<1> QED
  BY <1>1, <1>2, <1>4, <1>5, <1>6 DEF WindowOf, InWindow, g

LEMMA OpensWindow ==
  ASSUME NEW h, NEW k, NEW w, NEW t, WindowOf(h, k, w, t),
         k = 0 \/ t - w > Window, 1 <= MaxRestarts
  PROVE  WindowOf(Append(h, t), 1, t, t)
<1> USE SupervisionAssumption
<1>1. h \in Seq(Nat) /\ k \in Nat /\ w \in Nat /\ t \in Nat
  BY DEF WindowOf
<1> DEFINE n == Len(h)
<1> DEFINE g == Append(h, t)
<1>2. /\ g \in Seq(Nat) /\ n \in Nat /\ Len(g) = n + 1 /\ g[n + 1] = t
      /\ \A i \in 1 .. n : g[i] = h[i] /\ h[i] \in Nat
      /\ \A i \in 1 .. n + 1 : i \in Nat /\ (i \in 1 .. n \/ i = n + 1)
  BY <1>1, ChargedFacts
<1>3. InWindow(h, n, k, w, t)
  BY DEF WindowOf
<1> HIDE DEF n, g
<1>4. \A i \in 1 .. n + 1 : g[i] <= t
  BY <1>1, <1>2, <1>3 DEF InWindow
<1>5. ASSUME NEW i \in 1 .. n + 1, NEW j \in 1 .. n + 1, i <= j PROVE g[i] <= g[j]
  <2>1. CASE j \in 1 .. n
    <3>1. i \in 1 .. n
      BY <1>2, <1>5, <2>1
    <3>2. h[i] <= h[j]
      BY <1>3, <1>5, <2>1, <3>1 DEF InWindow
    <3> QED BY <1>2, <2>1, <3>1, <3>2
  <2>2. CASE j = n + 1
    BY <1>2, <1>4, <2>2
  <2> QED BY <1>2, <2>1, <2>2
<1>6. \A i \in 1 .. n + 1 : i > n => g[i] = t
  BY <1>2
<1>7. \A i \in 1 .. n + 1 : i + MaxRestarts <= n + 1 => g[i] + Window < t
  <2> SUFFICES ASSUME NEW i \in 1 .. n + 1, i + MaxRestarts <= n + 1 PROVE g[i] + Window < t
    OBVIOUS
  <2>1. i \in 1 .. n /\ g[i] = h[i] /\ h[i] \in Nat
    BY <1>2
  <2>2. k # 0 /\ t - w > Window
    BY <1>2, <1>3, <2>1 DEF InWindow
  <2>3. k <= MaxRestarts
    BY <1>3 DEF InWindow
  <2>4. i <= n - k + 1
    BY <1>1, <1>2, <2>1, <2>3
  <2>5. h[i] <= w
    BY <1>3, <2>1, <2>4 DEF InWindow
  <2> QED BY <1>1, <2>1, <2>2, <2>5
<1> QED
  <2>1. \A i \in 1 .. n + 1 : i <= (n + 1) - 1 + 1 => g[i] <= t
    BY <1>4
  <2>2. \A i \in 1 .. n + 1 : i > (n + 1) - 1 => t <= g[i] /\ g[i] <= t + Window
    BY <1>1, <1>2
  <2>3. \A i \in 1 .. n + 1 : i + MaxRestarts <= (n + 1) - 1 + 1 => g[i] + Window < t
    BY <1>2, <1>7
  <2>4. InWindow(g, n + 1, 1, t, t)
    BY <1>1, <1>2, <1>4, <1>5, <2>1, <2>2, <2>3 DEF InWindow
  <2> QED BY <1>1, <1>2, <2>4 DEF WindowOf, g

LEMMA RateKept ==
  ASSUME NEW h \in Seq(Nat), NEW k, NEW w, NEW t \in Nat, Rate(h), k > 0,
         WindowOf(Append(h, t), k, w, t)
  PROVE  Rate(Append(h, t))
<1> USE SupervisionAssumption
<1> DEFINE n == Len(h)
<1> DEFINE g == Append(h, t)
<1>1. k \in Nat /\ w \in Nat
  BY DEF WindowOf
<1>2. /\ g \in Seq(Nat) /\ n \in Nat /\ Len(g) = n + 1 /\ g[n + 1] = t
      /\ \A i \in 1 .. n : g[i] = h[i] /\ h[i] \in Nat
      /\ \A i \in 1 .. n + 1 : i \in Nat /\ (i \in 1 .. n \/ i = n + 1)
  BY ChargedFacts
<1>3. /\ InWindow(g, n + 1, k, w, t)
      /\ \A i, j \in 1 .. n : (j - i >= 2 * MaxRestarts - 1 /\ i < j) => h[j] - h[i] > Window
  BY <1>2 DEF WindowOf, Rate
<1> HIDE DEF n, g
<1>4. SUFFICES ASSUME NEW i \in 1 .. n + 1, NEW j \in 1 .. n + 1,
                      j - i >= 2 * MaxRestarts - 1, i < j
               PROVE  g[j] - g[i] > Window
  BY <1>2 DEF Rate, g
<1>5. CASE j \in 1 .. n
  <2>1. i \in 1 .. n
    BY <1>2, <1>4, <1>5
  <2> QED BY <1>2, <1>3, <1>4, <1>5, <2>1
<1>6. CASE j = n + 1
  <2>1. k <= MaxRestarts /\ k <= n + 1 /\ w <= t
    BY <1>2, <1>3 DEF InWindow
  <2>2. i + MaxRestarts <= (n + 1) - k + 1
    BY <1>1, <1>2, <1>4, <1>6, <2>1
  <2>3. g[i] + Window < w
    BY <1>2, <1>3, <2>2 DEF InWindow
  <2>4. g[i] \in Nat /\ g[j] = t
    BY <1>2, <1>6
  <2> QED BY <1>1, <2>1, <2>3, <2>4
<1> QED BY <1>2, <1>5, <1>6

(* A refused restart would have been one too many in its window.           *)
LEMMA Refused ==
  ASSUME NEW h, NEW k, NEW w, NEW t, WindowOf(h, k, w, t),
         k > 0, t - w <= Window, k + 1 > MaxRestarts
  PROVE  /\ Len(h) >= MaxRestarts
         /\ MaxRestarts > 0 => t - h[Len(h) - MaxRestarts + 1] <= Window
<1> USE SupervisionAssumption
<1>1. h \in Seq(Nat) /\ k \in Nat /\ w \in Nat /\ t \in Nat /\ k = MaxRestarts /\ k <= Len(h)
  BY DEF WindowOf, InWindow
<1>2. Len(h) \in Nat
  BY <1>1
<1>3. ASSUME MaxRestarts > 0 PROVE t - h[Len(h) - MaxRestarts + 1] <= Window
  <2> DEFINE i == Len(h) - MaxRestarts + 1
  <2>1. i \in 1 .. Len(h) /\ i > Len(h) - k
    BY <1>1, <1>2, <1>3
  <2>2. h[i] \in Nat
    BY <1>1, <2>1
  <2> HIDE DEF i
  <2>3. w <= h[i]
    BY <2>1 DEF WindowOf, InWindow
  <2> QED BY <1>1, <2>2, <2>3 DEF i
<1> QED BY <1>1, <1>2, <1>3

-----------------------------------------------------------------------------
(* The record of one actor.                                                *)

(* What a running actor has arrived in its present life.                   *)
Fresh(s) ==
  s.alive /\ s.gen > 0 =>
    /\ \A i \in DOMAIN s.mbox : s.mbox[i].epoch = s.gen
    /\ \A h \in s.hand : h.msg.epoch = s.gen

Legal(s, cap) ==
  /\ s \in Records(Messages) /\ Life(s) /\ Fresh(s)
  /\ cap > 0 => Len(s.mbox) <= cap

Moves(s, t, cap) == Legal(t, cap) /\ t.gen >= s.gen

LEMMA NewActorLegal == \A cap \in Nat : Legal(NewActor, cap)
<1>1. NewActor.mbox = <<>> /\ NewActor.hand = {} /\ NewActor.gen = 0
  BY DEF NewActor
<1>2. Len(NewActor.mbox) = 0
  BY <1>1
<1> QED BY <1>1, <1>2, NewActorLife DEF Legal, Fresh

LEMMA NoMove ==
  ASSUME NEW s, NEW cap \in Nat, Legal(s, cap)
  PROVE  Moves(s, s, cap)
BY DEF Legal, Moves, Records

(* start() of an actor that has nothing.                                   *)
LEMMA StartedMoves ==
  ASSUME NEW s, NEW cap \in Nat, Legal(s, cap), LiveLoops(s) = {}, s.mbox = <<>>
  PROVE  /\ Moves(s, Started(s), cap)
         /\ LiveLoops(Started(s)) = {} /\ Started(s).mbox = <<>> /\ Started(s).gen > 0
<1>1. s \in Records(Messages) /\ Life(s)
  BY DEF Legal
<1>2. Started(s) \in Records(Messages) /\ Life(Started(s))
  BY <1>1, StartedLife
<1>3. s.hand = {} /\ s.loops = {} /\ s.gen \in Nat
  BY <1>1 DEF LiveLoops, Records
<1>4. /\ Started(s).gen = s.gen + 1 /\ Started(s).mbox = <<>>
      /\ Started(s).hand = {} /\ Started(s).loops = {}
  BY <1>1, <1>3 DEF Started, Records
<1>5. Fresh(Started(s)) /\ LiveLoops(Started(s)) = {}
  BY <1>4 DEF Fresh, LiveLoops
<1>6. cap > 0 => Len(Started(s).mbox) <= cap
  BY <1>4 DEF Legal
<1> QED BY <1>2, <1>3, <1>4, <1>5, <1>6 DEF Moves, Legal

LEMMA StoppedMoves ==
  ASSUME NEW s, NEW cap \in Nat, Legal(s, cap)
  PROVE  Moves(s, Stopped(s), cap) /\ LiveLoops(Stopped(s)) = {}
<1>1. s \in Records(Messages) /\ Life(s) /\ s.gen \in Nat
  BY DEF Legal, Records
<1>2. Stopped(s) \in Records(Messages) /\ Life(Stopped(s))
  BY <1>1, StoppedLife
<1>3. Stopped(s).gen = s.gen + 1 /\ Stopped(s).mbox = s.mbox /\ Stopped(s).alive = FALSE
  BY <1>1 DEF Stopped, Records
<1>4. LiveLoops(Stopped(s)) = {}
  BY <1>2, <1>3, NothingRuns
<1> QED BY <1>1, <1>2, <1>3, <1>4 DEF Moves, Legal, Fresh

(* stop(), drain and start().                                              *)
LEMMA RestartedMoves ==
  ASSUME NEW s, NEW cap \in Nat, Legal(s, cap)
  PROVE  Moves(s, Restarted(s), cap)
<1> DEFINE t == Stopped(s)
<1> DEFINE u == Drained(t)
<1>1. Moves(s, t, cap) /\ LiveLoops(t) = {}
  BY StoppedMoves
<1>2. t \in Records(Messages) /\ Life(t) /\ s.gen \in Nat /\ t.gen \in Nat
  BY <1>1 DEF Moves, Legal, Records
<1>3. s.gen <= t.gen /\ ~t.alive
  BY <1>1 DEF Moves, Legal, Stopped, Records
<1> HIDE DEF t
<1>4. u \in Records(Messages) /\ Life(u)
  BY <1>2, DrainedLife
<1>5. /\ u.mbox = <<>> /\ u.gen = t.gen /\ ~u.alive
      /\ u.loops = t.loops /\ u.hand = t.hand
  BY <1>2, <1>3 DEF Drained, Records
<1> HIDE DEF u
<1>6. Legal(u, cap) /\ LiveLoops(u) = {}
  BY <1>1, <1>4, <1>5 DEF Legal, Fresh, LiveLoops
<1>7. Moves(u, Started(u), cap)
  BY <1>5, <1>6, StartedMoves
<1>8. Started(u).gen \in Nat
  BY <1>7 DEF Moves, Legal, Records
<1> QED BY <1>2, <1>3, <1>5, <1>7, <1>8 DEF Moves, Restarted, u, t

LEMMA ForkRunMoves ==
  ASSUME NEW s, NEW cap \in Nat, Legal(s, cap), NEW g \in s.pend
  PROVE  Moves(s, ForkRun(s, g), cap)
<1>1. s \in Records(Messages) /\ Life(s) /\ s.gen \in Nat
  BY DEF Legal, Records
<1>2. ForkRun(s, g) \in Records(Messages) /\ Life(ForkRun(s, g))
  BY <1>1, ForkRunLife
<1>3. /\ ForkRun(s, g).gen = s.gen /\ ForkRun(s, g).mbox = s.mbox
      /\ ForkRun(s, g).alive = s.alive /\ ForkRun(s, g).hand = s.hand
  BY <1>1 DEF ForkRun, Records
<1> QED BY <1>1, <1>2, <1>3 DEF Moves, Legal, Fresh

LEMMA MailboxFacts ==
  ASSUME NEW s \in Records(Messages), s.mbox # <<>>
  PROVE  /\ Head(s.mbox) \in Messages /\ Tail(s.mbox) \in Seq(Messages)
         /\ Head(s.mbox) = s.mbox[1] /\ 1 \in DOMAIN s.mbox
         /\ Len(s.mbox) \in Nat /\ Len(Tail(s.mbox)) = Len(s.mbox) - 1
         /\ \A i \in DOMAIN Tail(s.mbox) : i + 1 \in DOMAIN s.mbox /\ Tail(s.mbox)[i] = s.mbox[i + 1]
<1>1. s.mbox \in Seq(Messages)
  BY DEF Records
<1> QED BY <1>1

LEMMA TookMoves ==
  ASSUME NEW s, NEW cap \in Nat, Legal(s, cap), NEW g \in s.loops, s.mbox # <<>>
  PROVE  Moves(s, Took(s, g), cap)
<1>1. s \in Records(Messages) /\ Life(s) /\ s.gen \in Nat
  BY DEF Legal, Records
<1>2. Took(s, g) \in Records(Messages) /\ Life(Took(s, g))
  BY <1>1, TookLife
<1>3. /\ Took(s, g).gen = s.gen /\ Took(s, g).mbox = Tail(s.mbox)
      /\ Took(s, g).alive = s.alive
      /\ Took(s, g).hand = s.hand \cup {[gen |-> g, msg |-> Head(s.mbox)]}
  BY <1>1 DEF Took, Records
<1>4. Fresh(Took(s, g))
  BY <1>1, <1>3, MailboxFacts DEF Legal, Fresh
<1>5. cap > 0 => Len(Took(s, g).mbox) <= cap
  BY <1>1, <1>3, MailboxFacts DEF Legal
<1> QED BY <1>1, <1>2, <1>3, <1>4, <1>5 DEF Moves, Legal

(* A supervisor takes a report; its loop ends where it began.              *)
Popped(s) == [s EXCEPT !.mbox = Tail(@)]

LEMMA PoppedMoves ==
  ASSUME NEW s, NEW cap \in Nat, Legal(s, cap), s.mbox # <<>>
  PROVE  Moves(s, Popped(s), cap)
<1>1. s \in Records(Messages) /\ Life(s) /\ s.gen \in Nat
  BY DEF Legal, Records
<1>2. Popped(s) \in Records(Messages)
  BY <1>1, MailboxFacts DEF Popped, Records
<1>3. /\ Popped(s).gen = s.gen /\ Popped(s).mbox = Tail(s.mbox)
      /\ Popped(s).alive = s.alive /\ Popped(s).hand = s.hand /\ Popped(s).prun = s.prun
      /\ Popped(s).pend = s.pend /\ Popped(s).loops = s.loops
  BY <1>1 DEF Popped, Records
<1>4. Life(Popped(s))
  BY <1>1, <1>3 DEF Life, LiveLoops
<1>5. Fresh(Popped(s))
  BY <1>1, <1>3, MailboxFacts DEF Legal, Fresh
<1>6. cap > 0 => Len(Popped(s).mbox) <= cap
  BY <1>1, <1>3, MailboxFacts DEF Legal
<1> QED BY <1>1, <1>2, <1>3, <1>4, <1>5, <1>6 DEF Moves, Legal

LEMMA ActDoneMoves ==
  ASSUME NEW s, NEW cap \in Nat, Legal(s, cap), NEW h \in s.hand
  PROVE  Moves(s, ActDone(s, h), cap)
<1>1. s \in Records(Messages) /\ Life(s) /\ s.gen \in Nat
  BY DEF Legal, Records
<1>2. ActDone(s, h) \in Records(Messages) /\ Life(ActDone(s, h))
  BY <1>1, ActDoneLife
<1>3. /\ ActDone(s, h).gen = s.gen /\ ActDone(s, h).mbox = s.mbox
      /\ ActDone(s, h).alive = s.alive /\ ActDone(s, h).hand = s.hand \ {h}
  BY <1>1 DEF ActDone, Records
<1> QED BY <1>1, <1>2, <1>3 DEF Moves, Legal, Fresh

(* try_put() of a message stamped with the receiver's generation.          *)
LEMMA OfferedMoves ==
  ASSUME NEW s, NEW cap \in Nat, Legal(s, cap), NEW m \in Messages, m.epoch = s.gen
  PROVE  Moves(s, Offered(s, cap, m), cap)
<1> DEFINE t == Offered(s, cap, m)
<1>1. /\ s \in Records(Messages) /\ Life(s) /\ s.gen \in Nat /\ s.mbox \in Seq(Messages)
      /\ cap > 0 => Len(s.mbox) <= cap
  BY DEF Legal, Records
<1>2. t \in Records(Messages) /\ Life(t)
  BY <1>1, OfferedLife
<1>3. cap > 0 => Len(t.mbox) <= cap
  BY <1>1, OfferedBounded
<1>4. /\ t.gen = s.gen /\ t.alive = s.alive /\ t.hand = s.hand
      /\ t.mbox = s.mbox \/ t.mbox = Append(s.mbox, m)
  BY <1>1 DEF Offered, Records
<1>5. \A i \in DOMAIN Append(s.mbox, m) :
        Append(s.mbox, m)[i] = m \/ (i \in DOMAIN s.mbox /\ Append(s.mbox, m)[i] = s.mbox[i])
  BY <1>1
<1> HIDE DEF t
<1>6. Fresh(t)
  BY <1>4, <1>5 DEF Legal, Fresh
<1> QED BY <1>1, <1>2, <1>3, <1>4, <1>6 DEF Moves, Legal, t

-----------------------------------------------------------------------------
(* The invariant.                                                          *)

ActorInv ==
  /\ actor \in [Actors -> Records(Messages)]
  /\ \A a \in Actors : Legal(actor[a], Capacity[a])
  /\ ~Booted => \A a \in Actors : actor[a] = NewActor

RestType ==
  /\ now \in Nat
  /\ count \in [Actors -> Nat] /\ windowStart \in [Actors -> Nat]
  /\ fatal \in SUBSET Supervised
  /\ charged \in [Actors -> Seq(Nat)]
  /\ stopped \in SUBSET Supervised
  /\ jobs \in [Workers -> Nat] /\ fails \in [Workers -> Nat]

(* Until $fatal, each child's counter and window say what was charged.     *)
BudgetInv ==
  fatal = {} => \A c \in Actors : WindowOf(charged[c], count[c], windowStart[c], now)

RateInv == \A c \in Actors : Rate(charged[c])

IInv == ActorInv /\ RestType /\ BudgetInv /\ RateInv /\ FatalJustified

LEMMA ActorsMove ==
  ASSUME ActorInv, Booted, DOMAIN actor' = Actors, actor' = [a \in Actors |-> actor'[a]],
         \A a \in Actors : Moves(actor[a], actor'[a], Capacity[a])
  PROVE  ActorInv'
<1>1. \A a \in Actors : actor'[a] \in Records(Messages) /\ Legal(actor'[a], Capacity[a])
  BY DEF Moves, Legal
<1>2. \A s \in Supers : s \in Actors /\ actor[s].gen > 0 /\ actor[s].gen \in Nat
                        /\ actor'[s].gen \in Nat /\ actor'[s].gen >= actor[s].gen
  BY DEF Booted, Actors, ActorInv, Records, Moves, Legal
<1>3. Booted'
  BY <1>2 DEF Booted
<1> QED BY <1>1, <1>3 DEF ActorInv

LEMMA OneMoves ==
  ASSUME ActorInv, Booted, NEW a \in Actors, NEW t, Moves(actor[a], t, Capacity[a]),
         actor' = [actor EXCEPT ![a] = t]
  PROVE  ActorInv'
<1> USE SupervisionAssumption
<1>1. /\ DOMAIN actor' = Actors /\ actor' = [b \in Actors |-> actor'[b]]
      /\ \A b \in Actors : actor'[b] = IF b = a THEN t ELSE actor[b]
  BY DEF ActorInv
<1>2. \A b \in Actors : Moves(actor[b], actor[b], Capacity[b])
  BY NoMove DEF ActorInv
<1>3. \A b \in Actors : Moves(actor[b], actor'[b], Capacity[b])
  BY <1>1, <1>2
<1> QED BY <1>1, <1>3, ActorsMove

(* Before start_all() nothing exists that could move.                      *)
LEMMA SomethingRuns ==
  ASSUME ActorInv, NEW a \in Actors,
         \/ actor[a].pend # {} \/ actor[a].loops # {} \/ actor[a].hand # {}
         \/ actor[a].mbox # <<>>
  PROVE  Booted
BY DEF ActorInv, NewActor

LEMMA ChildIsActor ==
  \A s \in Supers : \A c \in ChildrenOf(s) : c \in Actors /\ c \in Supervised
<1> SUFFICES ASSUME NEW s \in Supers, NEW c \in ChildrenOf(s)
             PROVE  c \in Actors /\ c \in Supervised
  OBVIOUS
<1>1. Children[s] \in Seq(Actors)
  BY SupervisionAssumption
<1> QED BY <1>1 DEF ChildrenOf, Supervised

-----------------------------------------------------------------------------
LEMMA InitIInv == Init => IInv
<1> SUFFICES ASSUME Init PROVE IInv
  OBVIOUS
<1> USE SupervisionAssumption
<1>1. ActorInv
  BY NewActorLegal, NewActorLife DEF Init, ActorInv
<1>2. RestType
  BY DEF Init, RestType
<1>3. \A c \in Actors : charged[c] = <<>> /\ count[c] = 0 /\ windowStart[c] = 0
  BY DEF Init
<1>4. BudgetInv
  BY <1>3 DEF Init, BudgetInv, WindowOf, InWindow
<1>5. RateInv
  BY <1>3 DEF RateInv, Rate
<1> QED BY <1>1, <1>2, <1>4, <1>5 DEF IInv, Init, FatalJustified

(* Most steps touch the actors and what was sent only.                     *)
LEMMA Untouched ==
  ASSUME IInv, ActorInv', RestType', UNCHANGED <<now, count, windowStart, fatal, charged>>
  PROVE  IInv'
BY DEF IInv, BudgetInv, RateInv, FatalJustified

(* do_restart() with enforce_budget().                                     *)
LEMMA ChargeKeeps ==
  ASSUME IInv, NEW s \in Supers, NEW c \in ChildrenOf(s), fatal = {},
         count' = [count EXCEPT ![c] = CountAfter(c)],
         windowStart' = [windowStart EXCEPT ![c] = IF NewWindow(c) THEN now ELSE @],
         IF WithinBudget(c)
         THEN charged' = [charged EXCEPT ![c] = Append(@, now)] /\ UNCHANGED fatal
         ELSE fatal' = {c} /\ UNCHANGED charged,
         UNCHANGED <<now, stopped, jobs, fails>>
  PROVE  RestType' /\ BudgetInv' /\ RateInv' /\ FatalJustified'
<1> USE SupervisionAssumption
<1> DEFINE h == charged[c]
<1> DEFINE k == count[c]
<1> DEFINE w == windowStart[c]
<1>1. c \in Actors /\ c \in Supervised
  BY ChildIsActor
<1>2. WindowOf(h, k, w, now) /\ Rate(h)
  BY <1>1 DEF IInv, BudgetInv, RateInv
<1>3. /\ h \in Seq(Nat) /\ k \in Nat /\ w \in Nat /\ now \in Nat /\ CountAfter(c) \in Nat
      /\ k <= MaxRestarts
  BY <1>1, <1>2 DEF WindowOf, InWindow, CountAfter
<1>4. /\ count' \in [Actors -> Nat] /\ windowStart' \in [Actors -> Nat]
      /\ fatal' \in SUBSET Supervised /\ charged' \in [Actors -> Seq(Nat)]
  <2>1. Append(h, now) \in Seq(Nat)
    BY <1>3
  <2>2. count' \in [Actors -> Nat]
    BY <1>3 DEF IInv, RestType
  <2>3. windowStart' \in [Actors -> Nat]
    BY <1>3 DEF IInv, RestType
  <2>4. charged' \in [Actors -> Seq(Nat)]
    BY <2>1 DEF IInv, RestType
  <2>5. fatal' \in SUBSET Supervised
    BY <1>1 DEF IInv, RestType
  <2> QED BY <2>2, <2>3, <2>4, <2>5
<1>5. RestType'
  BY <1>4 DEF IInv, RestType
<1>6. /\ count'[c] = CountAfter(c) /\ windowStart'[c] = (IF NewWindow(c) THEN now ELSE w)
      /\ \A d \in Actors \ {c} : count'[d] = count[d] /\ windowStart'[d] = windowStart[d]
  BY <1>1 DEF IInv, RestType
<1>7. CASE WithinBudget(c)
  <2>1. /\ charged'[c] = Append(h, now) /\ fatal' = {}
        /\ \A d \in Actors \ {c} : charged'[d] = charged[d]
    BY <1>1, <1>7 DEF IInv, RestType
  <2>2. WindowOf(Append(h, now), count'[c], windowStart'[c], now) /\ count'[c] > 0
    <3>1. CASE NewWindow(c)
      <4>1. k = 0 \/ now - w > Window
        BY <3>1 DEF NewWindow
      <4>2. CountAfter(c) = 1 /\ 1 <= MaxRestarts
        BY <1>7, <3>1 DEF CountAfter, WithinBudget
      <4> HIDE DEF h, k, w
      <4>3. WindowOf(Append(h, now), 1, now, now)
        BY <1>2, <4>1, <4>2, OpensWindow
      <4> QED BY <1>6, <3>1, <4>2, <4>3
    <3>2. CASE ~NewWindow(c)
      <4>1. k > 0 /\ now - w <= Window
        BY <1>3, <3>2 DEF NewWindow
      <4>2. CountAfter(c) = k + 1 /\ k + 1 <= MaxRestarts
        BY <1>7, <3>2 DEF CountAfter, WithinBudget
      <4> HIDE DEF h, k, w
      <4>3. WindowOf(Append(h, now), k + 1, w, now)
        BY <1>2, <4>1, <4>2, SameWindow
      <4> QED BY <1>3, <1>6, <3>2, <4>2, <4>3
    <3> QED BY <3>1, <3>2
  <2>3. BudgetInv'
    BY <2>1, <2>2, <1>6 DEF IInv, BudgetInv
  <2>4. Rate(Append(h, now))
    <3> HIDE DEF h, k, w
    <3> QED BY <1>2, <1>3, <2>2, RateKept
  <2>5. RateInv'
    BY <2>1, <2>4 DEF IInv, RateInv
  <2> QED BY <1>5, <2>1, <2>3, <2>5 DEF FatalJustified
<1>8. CASE ~WithinBudget(c)
  <2>1. fatal' = {c} /\ charged' = charged /\ now' = now
    BY <1>8
  <2>2. Len(h) >= MaxRestarts /\ (MaxRestarts > 0 => now - h[Len(h) - MaxRestarts + 1] <= Window)
    <3>1. CASE NewWindow(c)
      <4>1. MaxRestarts = 0
        BY <1>8, <3>1 DEF CountAfter, WithinBudget
      <4> QED BY <1>3, <4>1
    <3>2. CASE ~NewWindow(c)
      <4>1. k > 0 /\ now - w <= Window /\ k + 1 > MaxRestarts
        BY <1>3, <1>8, <3>2 DEF NewWindow, CountAfter, WithinBudget
      <4> HIDE DEF h, k, w
      <4> QED BY <1>2, <4>1, Refused
    <3> QED BY <3>1, <3>2
  <2>3. FatalJustified'
    BY <2>1, <2>2 DEF FatalJustified
  <2>4. BudgetInv' /\ RateInv'
    BY <2>1 DEF IInv, BudgetInv, RateInv
  <2> QED BY <1>5, <2>3, <2>4
<1> QED BY <1>7, <1>8

LEMMA NextIInv == IInv /\ [Next]_vars => IInv'
<1> SUFFICES ASSUME IInv, [Next]_vars PROVE IInv'
  OBVIOUS
<1> USE SupervisionAssumption
<1>0. /\ ActorInv /\ RestType
      /\ \A a \in Actors : /\ actor[a] \in Records(Messages) /\ Legal(actor[a], Capacity[a])
                           /\ Capacity[a] \in Nat /\ actor[a].gen \in Nat
      /\ \A w \in Workers : w \in Actors
      /\ \A s \in Supers : s \in Actors
  BY DEF IInv, ActorInv, Records, Actors
<1>1. CASE StartAll
  <2>1. actor = [a \in Actors |-> NewActor]
    BY <1>0, <1>1 DEF StartAll, ActorInv
  <2> DEFINE t(a) == IF a \in Supers \cap Supervised THEN Started(Started(NewActor))
                                                     ELSE Started(NewActor)
  <2>2. actor' = [a \in Actors |-> t(a)]
    BY <1>1, <2>1 DEF StartAll
  <2>3. \A a \in Actors : t(a) \in Records(Messages) /\ Legal(t(a), Capacity[a]) /\ t(a).gen > 0
    <3> SUFFICES ASSUME NEW a \in Actors
                 PROVE  t(a) \in Records(Messages) /\ Legal(t(a), Capacity[a]) /\ t(a).gen > 0
      OBVIOUS
    <3>1. Legal(NewActor, Capacity[a]) /\ LiveLoops(NewActor) = {} /\ NewActor.mbox = <<>>
      BY <1>0, NewActorLegal DEF NewActor, LiveLoops
    <3> DEFINE u == Started(NewActor)
    <3>2. /\ Legal(u, Capacity[a]) /\ LiveLoops(u) = {} /\ u.mbox = <<>> /\ u.gen > 0
      BY <1>0, <3>1, StartedMoves DEF Moves
    <3> HIDE DEF u
    <3>3. Legal(Started(u), Capacity[a]) /\ Started(u).gen > 0
      BY <1>0, <3>2, StartedMoves DEF Moves
    <3> QED BY <3>2, <3>3 DEF Legal, u
  <2> HIDE DEF t
  <2>4. Booted'
    BY <1>0, <2>2, <2>3 DEF Booted
  <2>5. ActorInv'
    BY <2>2, <2>3, <2>4 DEF ActorInv
  <2> QED BY <1>0, <1>1, <2>5, Untouched DEF StartAll, RestType
<1>2. ASSUME NEW a \in Actors, RunFork(a) PROVE IInv'
  <2>1. PICK g \in actor[a].pend : actor' = [actor EXCEPT ![a] = ForkRun(actor[a], g)]
    BY <1>0, <1>2 DEF RunFork, ActorInv
  <2>2. Moves(actor[a], ForkRun(actor[a], g), Capacity[a]) /\ Booted
    BY <1>0, <2>1, ForkRunMoves, SomethingRuns
  <2>3. ActorInv'
    BY <1>0, <2>1, <2>2, OneMoves
  <2> QED BY <1>0, <1>2, <2>3, Untouched DEF RunFork, RestType
<1>3. ASSUME NEW w \in Workers, Deliver(w) PROVE IInv'
  <2> DEFINE m == Message("job", w, 0, actor[w].gen)
  <2>1. /\ Booted /\ actor' = [actor EXCEPT ![w] = Offered(actor[w], Capacity[w], m)]
        /\ jobs' = [jobs EXCEPT ![w] = @ + 1]
        /\ UNCHANGED <<now, count, windowStart, fatal, charged, stopped, fails>>
    BY <1>0, <1>3 DEF Deliver, Put, ActorInv
  <2>2. m \in Messages /\ m.epoch = actor[w].gen
    BY <1>0 DEF Message, Messages
  <2> HIDE DEF m
  <2>3. Moves(actor[w], Offered(actor[w], Capacity[w], m), Capacity[w])
    BY <1>0, <2>2, OfferedMoves
  <2>4. ActorInv'
    BY <1>0, <2>1, <2>3, OneMoves
  <2> QED BY <1>0, <2>1, <2>4, Untouched DEF RestType
<1>4. ASSUME NEW w \in Workers, Take(w) PROVE IInv'
  <2>1. PICK g \in actor[w].loops : actor' = [actor EXCEPT ![w] = Took(actor[w], g)]
    BY <1>0, <1>4 DEF Take, ActorInv
  <2>2. Moves(actor[w], Took(actor[w], g), Capacity[w]) /\ Booted
    BY <1>0, <1>4, <2>1, TookMoves, SomethingRuns DEF Take
  <2>3. ActorInv'
    BY <1>0, <2>1, <2>2, OneMoves
  <2> QED BY <1>0, <1>4, <2>3, Untouched DEF Take, RestType
<1>5. ASSUME NEW w \in Workers, NEW s \in Supers, Fail(w, s) PROVE IInv'
  <2> DEFINE m == Message("fail", w, actor[w].gen, actor[s].gen)
  <2>1. /\ actor' = [actor EXCEPT ![s] = Offered(actor[s], Capacity[s], m)]
        /\ fails' = [fails EXCEPT ![w] = @ + 1] /\ actor[w].hand # {}
        /\ UNCHANGED <<now, count, windowStart, fatal, charged, stopped, jobs>>
    BY <1>0, <1>5 DEF Fail, Put, ActorInv
  <2>2. m \in Messages /\ m.epoch = actor[s].gen
    BY <1>0 DEF Message, Messages
  <2> HIDE DEF m
  <2>3. Moves(actor[s], Offered(actor[s], Capacity[s], m), Capacity[s]) /\ Booted
    BY <1>0, <2>1, <2>2, OfferedMoves, SomethingRuns
  <2>4. ActorInv'
    BY <1>0, <2>1, <2>3, OneMoves
  <2> QED BY <1>0, <2>1, <2>4, Untouched DEF RestType
<1>6. ASSUME NEW w \in Workers, ActReturns(w) PROVE IInv'
  <2>1. PICK h \in actor[w].hand : actor' = [actor EXCEPT ![w] = ActDone(actor[w], h)]
    BY <1>0, <1>6 DEF ActReturns, ActorInv
  <2>2. Moves(actor[w], ActDone(actor[w], h), Capacity[w]) /\ Booted
    BY <1>0, <2>1, ActDoneMoves, SomethingRuns
  <2>3. ActorInv'
    BY <1>0, <2>1, <2>2, OneMoves
  <2> QED BY <1>0, <1>6, <2>3, Untouched DEF ActReturns, RestType
<1>7. ASSUME NEW s \in Supers, Handle(s) PROVE IInv'
  <2> DEFINE m == Head(actor[s].mbox)
  <2>1. /\ s \in Actors /\ actor[s].mbox # <<>> /\ fatal = {} /\ Booted
        /\ UNCHANGED <<now, jobs, fails>>
    BY <1>0, <1>7, SomethingRuns DEF Handle
  <2>2. m \in Messages
    BY <1>0, <2>1, MailboxFacts
  <2>3. m.about \in Actors /\ m.life \in Nat
    BY <2>2 DEF Messages
  <2>4. Handled(s) = Popped(actor[s])
    BY DEF Handled, Popped
  <2>5. Moves(actor[s], Handled(s), Capacity[s])
    BY <1>0, <2>1, <2>4, PoppedMoves
  <2>6. \A a \in Actors : /\ Moves(actor[a], actor[a], Capacity[a])
                          /\ Moves(actor[a], Restarted(actor[a]), Capacity[a])
                          /\ Moves(actor[a], Stopped(actor[a]), Capacity[a])
    BY <1>0, NoMove, RestartedMoves, StoppedMoves
  <2>7. PICK d \in Directives[s][m.about] :
         \/ d = "RESTART" /\ DoRestart(s, m.about) /\ UNCHANGED stopped
         \/ /\ d = "STOP" /\ DoStop(s, m.about)
            /\ UNCHANGED <<count, windowStart, fatal, charged>>
         \/ /\ d = "RESUME" /\ actor' = [actor EXCEPT ![s] = Handled(s)]
            /\ UNCHANGED <<count, windowStart, fatal, charged, stopped>>
         \/ /\ d = "ESCALATE" /\ Escalate(s, m)
            /\ UNCHANGED <<count, windowStart, fatal, charged, stopped>>
    BY <1>7 DEF Handle
  <2> HIDE DEF m
  <2>8. ASSUME UNCHANGED <<count, windowStart, fatal, charged>>,
               stopped' \in SUBSET Supervised, ActorInv'
        PROVE  IInv'
    BY <1>0, <2>1, <2>8, Untouched DEF RestType
  <2>9. ASSUME actor' = [actor EXCEPT ![s] = Handled(s)] PROVE ActorInv'
    BY <1>0, <2>1, <2>5, <2>9, OneMoves
  <2>10. stopped \in SUBSET Supervised
    BY <1>0 DEF RestType
  <2>11. CASE DoRestart(s, m.about) /\ UNCHANGED stopped
    <3> DEFINE c == m.about
    <3>1. CASE c \notin ChildrenOf(s)
      BY <2>8, <2>9, <2>10, <2>11, <3>1 DEF DoRestart
    <3>2. CASE c \in ChildrenOf(s)
      <4>1. /\ count' = [count EXCEPT ![c] = CountAfter(c)]
            /\ windowStart' = [windowStart EXCEPT ![c] = IF NewWindow(c) THEN now ELSE @]
            /\ IF WithinBudget(c)
               THEN /\ actor' = [a \in Actors |->
                                   IF a \in Affected(s, c) THEN Restarted(actor[a])
                                   ELSE IF a = s THEN Handled(s) ELSE actor[a]]
                    /\ charged' = [charged EXCEPT ![c] = Append(@, now)]
                    /\ UNCHANGED fatal
               ELSE /\ fatal' = {c}
                    /\ UNCHANGED <<actor, charged>>
        BY <2>11, <3>2 DEF DoRestart
      <4> HIDE DEF c
      <4>2. RestType' /\ BudgetInv' /\ RateInv' /\ FatalJustified'
        BY <2>1, <2>11, <3>2, <4>1, ChargeKeeps
      <4>3. ActorInv'
        <5>1. CASE WithinBudget(c)
          <6>1. actor' = [a \in Actors |->
                            IF a \in Affected(s, c) THEN Restarted(actor[a])
                            ELSE IF a = s THEN Handled(s) ELSE actor[a]]
            BY <4>1, <5>1
          <6>2. /\ DOMAIN actor' = Actors /\ actor' = [a \in Actors |-> actor'[a]]
                /\ \A a \in Actors : Moves(actor[a], actor'[a], Capacity[a])
            BY <2>5, <2>6, <6>1
          <6> QED BY <1>0, <2>1, <6>2, ActorsMove
        <5>2. CASE ~WithinBudget(c)
          BY <1>0, <4>1, <5>2 DEF ActorInv, Booted
        <5> QED BY <5>1, <5>2
      <4> QED BY <4>2, <4>3 DEF IInv
    <3> QED BY <3>1, <3>2
  <2>12. CASE DoStop(s, m.about) /\ UNCHANGED <<count, windowStart, fatal, charged>>
    <3> DEFINE c == m.about
    <3>1. /\ actor' = [a \in Actors |->
                         IF a = c /\ c \in ChildrenOf(s) THEN Stopped(actor[a])
                         ELSE IF a = s THEN Handled(s) ELSE actor[a]]
          /\ stopped' = IF c \in ChildrenOf(s) THEN stopped \cup {c} ELSE stopped
      BY <2>12 DEF DoStop
    <3> HIDE DEF c
    <3>2. /\ DOMAIN actor' = Actors /\ actor' = [a \in Actors |-> actor'[a]]
          /\ \A a \in Actors : Moves(actor[a], actor'[a], Capacity[a])
      BY <2>5, <2>6, <3>1
    <3>3. ActorInv'
      BY <1>0, <2>1, <3>2, ActorsMove
    <3>4. stopped' \in SUBSET Supervised
      BY <2>10, <3>1, ChildIsActor
    <3> QED BY <2>8, <2>12, <3>3, <3>4
  <2>13. CASE /\ actor' = [actor EXCEPT ![s] = Handled(s)]
              /\ UNCHANGED <<count, windowStart, fatal, charged, stopped>>
    BY <2>8, <2>9, <2>10, <2>13
  <2>14. CASE Escalate(s, m) /\ UNCHANGED <<count, windowStart, fatal, charged, stopped>>
    <3> DEFINE r(a) == Message("fail", m.about, m.life, actor[a].gen)
    <3>1. actor' = [a \in Actors |->
                      IF a = s THEN Handled(s)
                      ELSE IF a \in Parents[s] /\ actor[a].alive
                           THEN Offered(actor[a], Capacity[a], r(a))
                           ELSE actor[a]]
      BY <2>14 DEF Escalate, Put
    <3>2. \A a \in Actors : r(a) \in Messages /\ r(a).epoch = actor[a].gen
      BY <1>0, <2>3 DEF Message, Messages
    <3> HIDE DEF r
    <3>3. \A a \in Actors : Moves(actor[a], Offered(actor[a], Capacity[a], r(a)), Capacity[a])
      BY <1>0, <3>2, OfferedMoves
    <3>4. /\ DOMAIN actor' = Actors /\ actor' = [a \in Actors |-> actor'[a]]
          /\ \A a \in Actors : Moves(actor[a], actor'[a], Capacity[a])
      BY <2>5, <2>6, <3>1, <3>3
    <3>5. ActorInv'
      BY <1>0, <2>1, <3>4, ActorsMove
    <3> QED BY <2>8, <2>10, <2>14, <3>5
  <2> QED BY <2>7, <2>11, <2>12, <2>13, <2>14
<1>8. CASE Tick
  <2>1. /\ fatal = {} /\ now' = now + 1
        /\ UNCHANGED <<actor, count, windowStart, fatal, charged, stopped, jobs, fails>>
    BY <1>8 DEF Tick
  <2>2. ActorInv' /\ RestType'
    BY <1>0, <2>1 DEF ActorInv, Booted, RestType
  <2>3. BudgetInv'
    <3>1. \A c \in Actors : WindowOf(charged[c], count[c], windowStart[c], now + 1)
      <4> SUFFICES ASSUME NEW c \in Actors
                   PROVE  WindowOf(charged[c], count[c], windowStart[c], now + 1)
        OBVIOUS
      <4>1. WindowOf(charged[c], count[c], windowStart[c], now)
        BY <2>1 DEF IInv, BudgetInv
      <4>2. \A h, k, w, t : WindowOf(h, k, w, t) => WindowOf(h, k, w, t + 1)
        <5> SUFFICES ASSUME NEW h, NEW k, NEW w, NEW t, WindowOf(h, k, w, t)
                     PROVE  WindowOf(h, k, w, t + 1)
          OBVIOUS
        <5>1. \A i \in 1 .. Len(h) : h[i] \in Nat /\ h[i] <= t
          BY DEF WindowOf, InWindow
        <5>2. \A i \in 1 .. Len(h) : h[i] <= t + 1
          BY <5>1 DEF WindowOf
        <5> QED BY <5>2 DEF WindowOf, InWindow
      <4> QED BY <4>1, <4>2
    <3> QED BY <2>1, <3>1 DEF BudgetInv
  <2> QED BY <2>1, <2>2, <2>3 DEF IInv, RateInv, FatalJustified
<1>9. CASE UNCHANGED vars
  BY <1>0, <1>9, Untouched DEF vars, ActorInv, Booted, RestType
<1> QED
  BY <1>1, <1>2, <1>3, <1>4, <1>5, <1>6, <1>7, <1>8, <1>9 DEF Next

LEMMA SpecIInv == Spec => []IInv
BY InitIInv, NextIInv, PTL DEF Spec

-----------------------------------------------------------------------------
(* Every variable keeps its type and no mailbox outgrows its capacity,     *)
(* through restarts, escalations and refused reports.                      *)
THEOREM SupervisionType == Spec => []TypeOK
<1>1. IInv => TypeOK
  BY DEF IInv, ActorInv, RestType, Legal, Records, TypeOK
<1> QED BY <1>1, SpecIInv, PTL

(* A restarted child replays nothing of the queue that led to the failure  *)
(* (drain_mbox()): what a running actor has arrived in its present life,   *)
(* and one loop handles it.                                                *)
THEOREM SupervisionFreshMailbox == Spec => []FreshMailbox
<1>1. IInv => FreshMailbox
  <2> SUFFICES ASSUME IInv, NEW a \in Actors, actor[a].alive /\ actor[a].gen > 0
               PROVE  /\ \A i \in DOMAIN actor[a].mbox : actor[a].mbox[i].epoch = actor[a].gen
                      /\ \A h \in actor[a].hand : h.msg.epoch = actor[a].gen
                      /\ Cardinality(LiveLoops(actor[a])) <= 1
    BY DEF FreshMailbox
  <2>1. Life(actor[a]) /\ Fresh(actor[a])
    BY DEF IInv, ActorInv, Legal
  <2>2. LiveLoops(actor[a]) \subseteq {actor[a].gen}
    BY <2>1 DEF Life
  <2>3. LiveLoops(actor[a]) = {} \/ LiveLoops(actor[a]) = {actor[a].gen}
    BY <2>2
  <2>4. Cardinality(LiveLoops(actor[a])) <= 1
    <3>1. CASE LiveLoops(actor[a]) = {}
      <4>1. Cardinality({}) = 0
        BY FS_EmptySet
      <4> QED BY <3>1, <4>1
    <3>2. CASE LiveLoops(actor[a]) = {actor[a].gen}
      <4>1. Cardinality({actor[a].gen}) = 1
        BY FS_Singleton
      <4> QED BY <3>2, <4>1
    <3> QED BY <2>3, <3>1, <3>2
  <2> QED BY <2>1, <2>4 DEF Fresh
<1> QED BY <1>1, SpecIInv, PTL

(* enforce_budget() lets at most 2 * max_restarts - 1 restarts of a child  *)
(* through in any interval of restart_window_ns.                           *)
THEOREM SupervisionRateBounded == Spec => []RestartRateBounded
<1>1. IInv => RestartRateBounded
  <2> SUFFICES ASSUME IInv, NEW c \in Actors
               PROVE  \A i, j \in DOMAIN charged[c] :
                        (j - i >= 2 * MaxRestarts - 1 /\ i < j)
                          => charged[c][j] - charged[c][i] > Window
    BY DEF RestartRateBounded
  <2>1. DOMAIN charged[c] = 1 .. Len(charged[c])
    BY DEF IInv, RestType
  <2> QED BY <2>1 DEF IInv, RateInv, Rate
<1> QED BY <1>1, SpecIInv, PTL

(* $fatal of enforce_budget() ends the simulation only when max_restarts   *)
(* restarts of the child happened within restart_window_ns of the refused. *)
THEOREM SupervisionFatalJustified == Spec => []FatalJustified
BY SpecIInv, PTL DEF IInv
=============================================================================
