------------------------------ MODULE CdclProofs -------------------------------
(***************************************************************************)
(* The solver of Cdcl never answers wrongly: for every finite set of       *)
(* variables and all sessions of its callers, SAT comes with a model       *)
(* (SatRight), UNSAT with a true refutation and a genuine core             *)
(* (UnsatRight), and propagation misses no unit (PropagationComplete).     *)
(*                                                                         *)
(* The invariant behind the three says how the data of the search hang     *)
(* together: the trail and its levels, the two watches of every clause,    *)
(* what a false watch promises of the other one, why each literal was      *)
(* assigned, and that every clause and every fact of the root follows from *)
(* the clauses the caller gave.                                            *)
(***************************************************************************)
EXTENDS Cdcl, FiniteSetTheorems, TLAPS

-----------------------------------------------------------------------------
(* Induction.  A set of natural numbers that is not empty has a least      *)
(* element: an argument by induction shows that the set of counterexamples *)
(* has none.                                                               *)

(* The least element.                                                      *)
LEMMA LeastNatural == ASSUME NEW T \in SUBSET Nat, T # {}
  PROVE \E x \in T : \A y \in T : x <= y
  <1> DEFINE R == StrictSubsetOrdering(Nat)
             W == FiniteSubsetsOf(Nat)
             below(x) == {k \in Nat : k < x}
             B == {below(x) : x \in T}
  <1>1. \A x \in T : below(x) \in W
    <2> SUFFICES ASSUME NEW x \in T PROVE below(x) \in W
      OBVIOUS
    <2>1. below(x) = 0 .. (x-1)
      OBVIOUS
    <2>2. IsFiniteSet(0 .. (x-1))
      BY FS_Interval
    <2>3. below(x) \subseteq Nat
      OBVIOUS
    <2>4. IsFiniteSet(below(x))
      BY <2>1, <2>2
    <2> HIDE DEF below
    <2> QED BY <2>3, <2>4, Zenon DEF FiniteSubsetsOf
  <1>2. B \subseteq W
    <2> HIDE DEF below
    <2> QED BY <1>1, Zenon
  <1>3. \E b \in B : \A c \in B : ~(<<c, b>> \in R)
    <2>1. B # {}
      BY Zenon
    <2> HIDE DEF R, W, B
    <2>2. IsWellFoundedOn(R, W)
      BY FS_StrictSubsetOrderingWellFounded, Zenon DEF R, W
    <2> QED BY <2>1, <2>2, <1>2, WFMin, Zenon
  <1>4. PICK x \in T : \A c \in B : ~(<<c, below(x)>> \in R)
    BY <1>3, Zenon
  <1>5. ASSUME NEW y \in T, ~(x <= y) PROVE FALSE
    <2>1. ~(<<below(y), below(x)>> \in R)
      BY <1>4, Zenon
    <2>2. below(y) \in SUBSET Nat /\ below(x) \in SUBSET Nat
      OBVIOUS
    <2>3. y \in below(x) /\ y \notin below(y)
      BY <1>5
    <2>4. below(y) \subseteq below(x)
      BY <1>5
    <2> HIDE DEF below
    <2>5. below(y) # below(x)
      BY <2>3
    <2> QED BY <2>1, <2>2, <2>4, <2>5 DEF StrictSubsetOrdering
  <1> QED BY <1>5

-----------------------------------------------------------------------------
(* Literals.                                                               *)

(* A literal, its negation and its variable.                               *)
LEMMA LiteralFacts ==
  ASSUME NEW l \in Literals
  PROVE  /\ l \in Int /\ l # 0
         /\ -l \in Literals
         /\ -(-l) = l /\ -l # l
         /\ var(l) \in Vars /\ var(-l) = var(l)
         /\ var(l) \in Literals /\ var(var(l)) = var(l)
         /\ l = var(l) \/ l = -var(l)
  BY VarsAssumption DEF Literals, var

(* Two literals of one variable are equal or opposite.                     *)
LEMMA SameVariable ==
  ASSUME NEW l \in Literals, NEW m \in Literals
  PROVE  var(l) = var(m) <=> l = m \/ l = -m
  BY VarsAssumption DEF Literals, var

(* There are finitely many literals.                                       *)
LEMMA LiteralsFinite == IsFiniteSet(Literals)
  <1> DEFINE N == {-v : v \in Vars}
             f == [v \in Vars |-> -v]
  <1>1. IsFiniteSet(Vars)
    BY VarsAssumption
  <1>2. f \in Surjection(Vars, N)
    BY DEF Surjection
  <1>3. IsFiniteSet(N)
    <2> HIDE DEF f, N
    <2> QED BY <1>1, <1>2, FS_Surjection, Zenon
  <1>4. IsFiniteSet(Vars \cup N)
    BY <1>1, <1>3, FS_Union
  <1> QED BY <1>4 DEF Literals

-----------------------------------------------------------------------------
(* Sequences.                                                              *)

(* No element comes twice.                                                 *)
NoRepetition(s) == \A i, j \in DOMAIN s : s[i] = s[j] => i = j
Grown(s, l) == IF Contains(s, l) THEN s ELSE Append(s, l)
IsOut(f, lits, n) ==
  /\ f = [k \in 0 .. n |-> IF k = 0 THEN <<>> ELSE Grown(f[k - 1], lits[k])]

(* The function by which add_clause() drops repetitions exists: there is   *)
(* no least length without one.                                            *)
LEMMA OutExists ==
  ASSUME NEW lits
  PROVE  \A n \in Nat : \E f : IsOut(f, lits, n)
  <1> DEFINE T == {n \in Nat : ~\E f : IsOut(f, lits, n)}
  <1>1. ASSUME T # {} PROVE FALSE
    <2>1. PICK n \in T : \A m \in T : n <= m
      BY <1>1, LeastNatural
    <2>2. n # 0
      <3>1. IsOut([k \in 0 .. 0 |-> <<>>], lits, 0)
        BY DEF IsOut
      <3> QED BY <3>1
    <2>3. PICK f : IsOut(f, lits, n - 1)
      <3>1. n - 1 \in Nat /\ n - 1 \notin T
        BY <2>1, <2>2
      <3> QED BY <3>1
    <2> DEFINE g == [k \in 0 .. n |-> IF k = n THEN Grown(f[n - 1], lits[n]) ELSE f[k]]
    <2>4. \A k \in 0 .. n : g[k] = IF k = 0 THEN <<>> ELSE Grown(g[k - 1], lits[k])
      <3> SUFFICES ASSUME NEW k \in 0 .. n PROVE g[k] = IF k = 0 THEN <<>> ELSE Grown(g[k - 1], lits[k])
        OBVIOUS
      <3>1. CASE k = n
        <4>1. g[k] = Grown(f[n - 1], lits[n])
          BY <3>1
        <4>2. g[n - 1] = f[n - 1]
          BY <2>2
        <4> QED BY <4>1, <4>2, <3>1, <2>2
      <3>2. CASE k # n
        <4>1. g[k] = f[k]
          BY <3>2
        <4>2. k \in 0 .. n - 1
          BY <3>2
        <4>3. f[k] = IF k = 0 THEN <<>> ELSE Grown(f[k - 1], lits[k])
          BY <2>3, <4>2 DEF IsOut
        <4>4. k # 0 => k - 1 \in 0 .. n /\ k - 1 # n
          BY <4>2
        <4>5. k # 0 => g[k - 1] = f[k - 1]
          BY <4>4
        <4> QED BY <4>1, <4>3, <4>5
      <3> QED BY <3>1, <3>2
    <2>5. IsOut(g, lits, n)
      <3> HIDE DEF g
      <3>1. g = [k \in 0 .. n |-> g[k]]
        BY DEF g
      <3> QED BY <3>1, <2>4 DEF IsOut
    <2> HIDE DEF g
    <2> QED BY <2>1, <2>5
  <1> QED BY <1>1

(* Distinct is the last value of that function.                            *)
LEMMA DistinctIs ==
  ASSUME NEW lits \in Seq(Literals)
  PROVE  \E f : IsOut(f, lits, Len(lits)) /\ Distinct(lits) = f[Len(lits)]
  <1>1. \E f : IsOut(f, lits, Len(lits))
    BY OutExists
  <1> DEFINE out == CHOOSE f : IsOut(f, lits, Len(lits))
  <1>2. Distinct(lits) = out[Len(lits)]
    BY Zenon DEF Distinct, IsOut, Grown
  <1> QED BY <1>1, <1>2, Zenon

(* One more element.                                                       *)
LEMMA AppendFacts ==
  ASSUME NEW S, NEW s \in Seq(S), NEW e \in S
  PROVE  /\ Append(s, e) \in Seq(S)
         /\ Len(Append(s, e)) = Len(s) + 1
         /\ DOMAIN Append(s, e) = 1 .. Len(s) + 1
         /\ Append(s, e)[Len(s) + 1] = e
         /\ \A i \in 1 .. Len(s) : Append(s, e)[i] = s[i]
         /\ ToSet(Append(s, e)) = ToSet(s) \cup {e}
  <1>1. /\ Append(s, e) \in Seq(S)
        /\ Len(Append(s, e)) = Len(s) + 1
        /\ DOMAIN Append(s, e) = 1 .. Len(s) + 1
        /\ Append(s, e)[Len(s) + 1] = e
        /\ \A i \in 1 .. Len(s) : Append(s, e)[i] = s[i]
    OBVIOUS
  <1> DEFINE t == Append(s, e)
  <1> HIDE DEF t
  <1>2. DOMAIN t = 1 .. Len(s) + 1 /\ t[Len(s) + 1] = e /\ \A i \in 1 .. Len(s) : t[i] = s[i]
    BY <1>1 DEF t
  <1>3. DOMAIN s = 1 .. Len(s) /\ Len(s) \in Nat
    OBVIOUS
  <1>4. ASSUME NEW x PROVE x \in ToSet(t) <=> x \in ToSet(s) \cup {e}
    BY <1>2, <1>3 DEF ToSet
  <1>5. ToSet(t) = ToSet(s) \cup {e}
    BY <1>4
  <1> QED BY <1>1, <1>5 DEF t

(* One more element, if it is new.                                         *)
LEMMA GrownFacts ==
  ASSUME NEW S, NEW s \in Seq(S), NEW e \in S, NoRepetition(s)
  PROVE  /\ Grown(s, e) \in Seq(S)
         /\ NoRepetition(Grown(s, e))
         /\ ToSet(Grown(s, e)) = ToSet(s) \cup {e}
  <1>1. CASE Contains(s, e)
    <2>1. e \in ToSet(s)
      BY <1>1 DEF Contains, ToSet
    <2> QED BY <1>1, <2>1 DEF Grown
  <1>2. CASE ~Contains(s, e)
    <2>1. \A i \in 1 .. Len(s) : s[i] # e
      BY <1>2 DEF Contains
    <2>2. NoRepetition(Append(s, e))
      <3> SUFFICES ASSUME NEW i \in DOMAIN Append(s, e), NEW j \in DOMAIN Append(s, e),
                          Append(s, e)[i] = Append(s, e)[j]
                   PROVE  i = j
        BY DEF NoRepetition
      <3>1. i \in 1 .. Len(s) + 1 /\ j \in 1 .. Len(s) + 1
        BY AppendFacts
      <3>2. CASE i = Len(s) + 1
        BY <3>1, <3>2, <2>1, AppendFacts
      <3>3. CASE j = Len(s) + 1
        BY <3>1, <3>3, <2>1, AppendFacts
      <3>4. CASE i # Len(s) + 1 /\ j # Len(s) + 1
        <4>1. i \in 1 .. Len(s) /\ j \in 1 .. Len(s)
          BY <3>1, <3>4
        <4>2. s[i] = s[j]
          BY <4>1, AppendFacts
        <4> QED BY <4>1, <4>2 DEF NoRepetition
      <3> QED BY <3>2, <3>3, <3>4
    <2> QED BY <1>2, <2>2, AppendFacts DEF Grown
  <1> QED BY <1>1, <1>2

(* add_clause() keeps every literal once.                                  *)
LEMMA DistinctFacts ==
  ASSUME NEW lits \in Seq(Literals)
  PROVE  /\ Distinct(lits) \in Seq(Literals)
         /\ NoRepetition(Distinct(lits))
         /\ ToSet(Distinct(lits)) = ToSet(lits)
  <1>1. PICK f : IsOut(f, lits, Len(lits)) /\ Distinct(lits) = f[Len(lits)]
    BY DistinctIs
  <1>2. Len(lits) \in Nat /\ DOMAIN lits = 1 .. Len(lits)
    OBVIOUS
  <1> DEFINE upto(n) == {lits[i] : i \in 1 .. n}
             Good(n) == f[n] \in Seq(Literals) /\ NoRepetition(f[n]) /\ ToSet(f[n]) = upto(n)
             T == {n \in 0 .. Len(lits) : ~Good(n)}
  <1>3. \A n \in 0 .. Len(lits) : f[n] = IF n = 0 THEN <<>> ELSE Grown(f[n - 1], lits[n])
    BY <1>1, <1>2 DEF IsOut
  <1>4. Good(0)
    <2>1. f[0] = <<>>
      BY <1>3, <1>2
    <2>2. NoRepetition(<<>>) /\ ToSet(<<>>) = {}
      BY DEF NoRepetition, ToSet
    <2>3. upto(0) = {}
      OBVIOUS
    <2> QED BY <2>1, <2>2, <2>3
  <1>5. ASSUME NEW n \in 1 .. Len(lits), Good(n - 1) PROVE Good(n)
    <2>1. f[n] = Grown(f[n - 1], lits[n])
      BY <1>3, <1>2
    <2>2. lits[n] \in Literals
      BY <1>2
    <2>3. f[n - 1] \in Seq(Literals) /\ NoRepetition(f[n - 1])
      BY <1>5
    <2> DEFINE s == f[n - 1]
    <2>5. /\ Grown(s, lits[n]) \in Seq(Literals)
          /\ NoRepetition(Grown(s, lits[n]))
          /\ ToSet(Grown(s, lits[n])) = ToSet(s) \cup {lits[n]}
      <3> HIDE DEF s
      <3>1. s \in Seq(Literals) /\ NoRepetition(s)
        BY <2>3 DEF s
      <3>2. \A ss \in Seq(Literals), e \in Literals : NoRepetition(ss) =>
               /\ Grown(ss, e) \in Seq(Literals)
               /\ NoRepetition(Grown(ss, e))
               /\ ToSet(Grown(ss, e)) = ToSet(ss) \cup {e}
        BY GrownFacts
      <3> QED BY <2>2, <3>1, <3>2, Zenon
    <2>4. upto(n) = upto(n - 1) \cup {lits[n]}
      <3>1. 1 .. n = (1 .. n - 1) \cup {n}
        BY <1>2
      <3> QED BY <3>1
    <2> QED BY <2>1, <2>5, <2>4, <1>5
  <1> HIDE DEF Good
  <1>6. T = {}
    <2>1. T \in SUBSET Nat
      BY <1>2
    <2>2. ASSUME T # {} PROVE FALSE
      <3>1. PICK n \in T : \A m \in T : n <= m
        BY <2>1, <2>2, LeastNatural
      <3>2. n \in 1 .. Len(lits)
        BY <3>1, <1>4, <1>2
      <3>3. n - 1 \in 0 .. Len(lits) /\ ~(n <= n - 1)
        BY <3>2, <1>2
      <3>4. Good(n - 1)
        BY <3>1, <3>3
      <3> QED BY <3>1, <3>2, <3>4, <1>5
    <2> QED BY <2>2
  <1>7. Good(Len(lits))
    BY <1>6, <1>2
  <1>8. upto(Len(lits)) = ToSet(lits)
    BY <1>2 DEF ToSet
  <1> QED BY <1>1, <1>7, <1>8 DEF Good

(* The elements of a sequence.                                             *)
LEMMA ToSetFacts ==
  ASSUME NEW S, NEW s \in Seq(S)
  PROVE  /\ ToSet(s) \subseteq S
         /\ \A x : x \in ToSet(s) <=> \E i \in 1 .. Len(s) : s[i] = x
         /\ DOMAIN s = 1 .. Len(s) /\ Len(s) \in Nat
  BY DEF ToSet

(* The first element and the rest.                                         *)
LEMMA TailFacts ==
  ASSUME NEW S, NEW s \in Seq(S), s # <<>>
  PROVE  /\ Tail(s) \in Seq(S) /\ Head(s) \in S
         /\ ToSet(s) = ToSet(Tail(s)) \cup {Head(s)}
         /\ NoRepetition(s) => NoRepetition(Tail(s)) /\ Head(s) \notin ToSet(Tail(s))
  <1> DEFINE t == Tail(s)
  <1>1. /\ t \in Seq(S) /\ Head(s) \in S /\ Len(s) \in Nat /\ Len(s) >= 1 /\ Len(t) = Len(s) - 1
        /\ Head(s) = s[1] /\ DOMAIN s = 1 .. Len(s) /\ DOMAIN t = 1 .. Len(s) - 1
        /\ \A i \in 1 .. Len(s) - 1 : t[i] = s[i + 1]
    OBVIOUS
  <1> HIDE DEF t
  <1>2. ASSUME NEW x PROVE x \in ToSet(s) <=> x \in ToSet(t) \cup {s[1]}
    <2>1. ASSUME x \in ToSet(s) PROVE x \in ToSet(t) \cup {s[1]}
      <3>1. PICK i \in 1 .. Len(s) : s[i] = x
        BY <2>1, <1>1 DEF ToSet
      <3>2. CASE i = 1
        BY <3>1, <3>2
      <3>3. CASE i # 1
        <4>1. i - 1 \in 1 .. Len(s) - 1 /\ t[i - 1] = s[i]
          BY <3>3, <1>1
        <4> QED BY <4>1, <3>1, <1>1 DEF ToSet
      <3> QED BY <3>2, <3>3
    <2>2. ASSUME x \in ToSet(t) PROVE x \in ToSet(s)
      <3>1. PICK i \in 1 .. Len(s) - 1 : t[i] = x
        BY <2>2, <1>1 DEF ToSet
      <3>2. i + 1 \in 1 .. Len(s) /\ s[i + 1] = x
        BY <3>1, <1>1
      <3> QED BY <3>2, <1>1 DEF ToSet
    <2>3. s[1] \in ToSet(s)
      BY <1>1 DEF ToSet
    <2> QED BY <2>1, <2>2, <2>3
  <1>3. ASSUME NoRepetition(s) PROVE NoRepetition(t) /\ s[1] \notin ToSet(t)
    <2>1. ASSUME NEW i \in DOMAIN t, NEW j \in DOMAIN t, t[i] = t[j] PROVE i = j
      <3>1. i + 1 \in DOMAIN s /\ j + 1 \in DOMAIN s /\ s[i + 1] = s[j + 1]
        BY <2>1, <1>1
      <3>2. i + 1 = j + 1
        BY <3>1, <1>3, Zenon DEF NoRepetition
      <3> QED BY <3>2, <1>1
    <2>2. ASSUME NEW i \in DOMAIN t, t[i] = s[1] PROVE FALSE
      <3>1. i + 1 \in DOMAIN s /\ 1 \in DOMAIN s /\ s[i + 1] = s[1]
        BY <2>2, <1>1
      <3>2. i + 1 = 1
        BY <3>1, <1>3, Zenon DEF NoRepetition
      <3> QED BY <3>2, <1>1
    <2> QED BY <2>1, <2>2 DEF NoRepetition, ToSet
  <1> QED BY <1>1, <1>2, <1>3 DEF t

(* The first n elements.                                                   *)
LEMMA PrefixFacts ==
  ASSUME NEW S, NEW s \in Seq(S), NEW n \in 0 .. Len(s)
  PROVE  /\ SubSeq(s, 1, n) \in Seq(S)
         /\ Len(SubSeq(s, 1, n)) = n
         /\ DOMAIN SubSeq(s, 1, n) = 1 .. n
         /\ \A i \in 1 .. n : SubSeq(s, 1, n)[i] = s[i]
  OBVIOUS

(* Two sequences one after the other.                                      *)
LEMMA ConcatFacts ==
  ASSUME NEW S, NEW s \in Seq(S), NEW t \in Seq(S)
  PROVE  /\ s \o t \in Seq(S)
         /\ Len(s \o t) = Len(s) + Len(t)
         /\ ToSet(s \o t) = ToSet(s) \cup ToSet(t)
         /\ NoRepetition(s) /\ NoRepetition(t) /\ ToSet(s) \cap ToSet(t) = {} => NoRepetition(s \o t)
  <1> DEFINE u == s \o t
  <1>1. /\ u \in Seq(S) /\ Len(u) = Len(s) + Len(t) /\ Len(s) \in Nat /\ Len(t) \in Nat
        /\ DOMAIN s = 1 .. Len(s) /\ DOMAIN t = 1 .. Len(t) /\ DOMAIN u = 1 .. Len(s) + Len(t)
        /\ \A i \in 1 .. Len(s) : u[i] = s[i]
        /\ \A i \in 1 .. Len(t) : u[Len(s) + i] = t[i]
    OBVIOUS
  <1> HIDE DEF u
  <1>2. \A i \in DOMAIN u : IF i <= Len(s) THEN i \in DOMAIN s /\ u[i] = s[i]
                            ELSE i - Len(s) \in DOMAIN t /\ u[i] = t[i - Len(s)]
    <2> SUFFICES ASSUME NEW i \in DOMAIN u, ~(i <= Len(s))
                 PROVE  i - Len(s) \in DOMAIN t /\ u[i] = t[i - Len(s)]
      BY <1>1
    <2>1. i - Len(s) \in 1 .. Len(t) /\ Len(s) + (i - Len(s)) = i
      BY <1>1
    <2> QED BY <2>1, <1>1
  <1>3. \A x : x \in ToSet(u) => x \in ToSet(s) \cup ToSet(t)
    BY <1>2 DEF ToSet
  <1>4. \A x : x \in ToSet(s) => x \in ToSet(u)
    <2>1. \A i \in DOMAIN s : i \in DOMAIN u /\ u[i] = s[i]
      BY <1>1
    <2> QED BY <2>1 DEF ToSet
  <1>5. \A x : x \in ToSet(t) => x \in ToSet(u)
    <2>1. \A i \in DOMAIN t : Len(s) + i \in DOMAIN u /\ u[Len(s) + i] = t[i]
      BY <1>1
    <2> QED BY <2>1 DEF ToSet
  <1>6. ASSUME NoRepetition(s), NoRepetition(t), ToSet(s) \cap ToSet(t) = {}
        PROVE  NoRepetition(u)
    <2> SUFFICES ASSUME NEW i \in DOMAIN u, NEW j \in DOMAIN u, u[i] = u[j]
                 PROVE  i = j
      BY DEF NoRepetition
    <2>0. \A x \in DOMAIN s, y \in DOMAIN t : s[x] # t[y]
      BY <1>6 DEF ToSet
    <2>1. i \in Int /\ j \in Int
      BY <1>1
    <2>2. CASE i <= Len(s) /\ j <= Len(s)
      <3>1. i \in DOMAIN s /\ j \in DOMAIN s /\ s[i] = s[j]
        BY <2>2, <1>2
      <3> QED BY <3>1, <1>6, Zenon DEF NoRepetition
    <2>3. CASE ~(i <= Len(s)) /\ ~(j <= Len(s))
      <3>1. i - Len(s) \in DOMAIN t /\ j - Len(s) \in DOMAIN t /\ t[i - Len(s)] = t[j - Len(s)]
        BY <2>3, <1>2
      <3>2. i - Len(s) = j - Len(s)
        BY <3>1, <1>6, Zenon DEF NoRepetition
      <3> QED BY <3>2, <2>1, <1>1
    <2>4. CASE i <= Len(s) /\ ~(j <= Len(s))
      <3>1. i \in DOMAIN s /\ j - Len(s) \in DOMAIN t /\ s[i] = t[j - Len(s)]
        BY <2>4, <1>2
      <3> QED BY <3>1, <2>0, Zenon
    <2>5. CASE ~(i <= Len(s)) /\ j <= Len(s)
      <3>1. j \in DOMAIN s /\ i - Len(s) \in DOMAIN t /\ s[j] = t[i - Len(s)]
        BY <2>5, <1>2
      <3> QED BY <3>1, <2>0, Zenon
    <2> QED BY <2>2, <2>3, <2>4, <2>5
  <1>7. ToSet(u) = ToSet(s) \cup ToSet(t)
    BY <1>3, <1>4, <1>5
  <1> QED BY <1>1, <1>6, <1>7 DEF u

(* Two elements of a sequence change places.                               *)
LEMMA SwapFacts ==
  ASSUME NEW S, NEW s \in Seq(S), NEW i \in 1 .. Len(s), NEW j \in 1 .. Len(s),
         NEW t, t = [s EXCEPT ![i] = s[j], ![j] = s[i]]
  PROVE  /\ t \in Seq(S)
         /\ Len(t) = Len(s)
         /\ t[i] = s[j] /\ t[j] = s[i]
         /\ \A k \in 1 .. Len(s) : k # i /\ k # j => t[k] = s[k]
         /\ ToSet(t) = ToSet(s)
         /\ NoRepetition(s) => NoRepetition(t)
  <1>1. DOMAIN s = 1 .. Len(s) /\ Len(s) \in Nat /\ \A k \in DOMAIN s : s[k] \in S
    OBVIOUS
  <1>2. t \in Seq(S) /\ Len(t) = Len(s) /\ DOMAIN t = 1 .. Len(s)
    OBVIOUS
  <1>3. t[i] = s[j] /\ t[j] = s[i] /\ \A k \in 1 .. Len(s) : k # i /\ k # j => t[k] = s[k]
    BY <1>1
  <1>4. \A x : x \in ToSet(t) <=> x \in ToSet(s)
    <2>1. ASSUME NEW x, x \in ToSet(t) PROVE x \in ToSet(s)
      <3>1. PICK k \in 1 .. Len(s) : t[k] = x
        BY <2>1, <1>2 DEF ToSet
      <3>2. s[i] \in ToSet(s) /\ s[j] \in ToSet(s) /\ s[k] \in ToSet(s)
        BY <1>1 DEF ToSet
      <3> QED BY <3>1, <3>2, <1>3
    <2>2. ASSUME NEW x, x \in ToSet(s) PROVE x \in ToSet(t)
      <3>1. PICK k \in 1 .. Len(s) : s[k] = x
        BY <2>2, <1>1 DEF ToSet
      <3>2. t[i] \in ToSet(t) /\ t[j] \in ToSet(t) /\ t[k] \in ToSet(t)
        BY <1>2 DEF ToSet
      <3> QED BY <3>1, <3>2, <1>3
    <2> QED BY <2>1, <2>2
  <1>5. ASSUME NoRepetition(s) PROVE NoRepetition(t)
    <2>1. \A k, m \in 1 .. Len(s) : s[k] = s[m] => k = m
      BY <1>5, <1>1, Zenon DEF NoRepetition
    <2>2. \A k, m \in 1 .. Len(s) : t[k] = t[m] => k = m
      BY <2>1, <1>3
    <2>3. DOMAIN t = 1 .. Len(s)
      BY <1>2
    <2> HIDE DEF NoRepetition
    <2> QED BY <2>2, <2>3 DEF NoRepetition
  <1> QED BY <1>2, <1>3, <1>4, <1>5

(* The least of two numbers and of a set of numbers.                       *)
LEMMA MinFacts ==
  /\ \A a, b \in Int : Min({a, b}) = IF a <= b THEN a ELSE b
  /\ \A T \in SUBSET Nat : T # {} => Min(T) \in T
  <1>1. \A a, b \in Int : Min({a, b}) = IF a <= b THEN a ELSE b
    BY DEF Min
  <1>2. \A T \in SUBSET Nat : T # {} => Min(T) \in T
    BY LeastNatural DEF Min
  <1> QED BY <1>1, <1>2

(* An enumeration of a finite set.                                         *)
LEMMA EnumerationFacts ==
  ASSUME NEW S, IsFiniteSet(S), NEW r \in SetToSeqs(S)
  PROVE  /\ r \in Seq(S)
         /\ Len(r) = Cardinality(S)
         /\ NoRepetition(r)
         /\ ToSet(r) = S
  <1> DEFINE D == 1 .. Cardinality(S)
  <1>0. Cardinality(S) \in Nat
    BY FS_CardinalityType
  <1>1. r \in [D -> S] /\ \A i, j \in D : i # j => r[i] # r[j]
    BY DEF SetToSeqs
  <1>2. r \in Seq(S) /\ Len(r) = Cardinality(S) /\ DOMAIN r = D
    BY <1>0, <1>1
  <1>3. NoRepetition(r)
    BY <1>1, <1>2 DEF NoRepetition
  <1>4. r \in Injection(D, S)
    BY <1>1 DEF Injection, IsInjective
  <1>5. Cardinality(D) = Cardinality(S)
    BY <1>0, FS_Interval
  <1>6. r \in Surjection(D, S)
    BY <1>4, <1>5, FS_Injection
  <1>7. \A x \in S : \E i \in D : r[i] = x
    BY <1>6 DEF Surjection
  <1>8. ToSet(r) = S
    BY <1>7, <1>1, <1>2 DEF ToSet
  <1> QED BY <1>2, <1>3, <1>8

-----------------------------------------------------------------------------
(* The invariant.                                                          *)

Entries == [lit : Literals, reason : Nat]

(* Every variable of the solver stays in its type.                         *)
TypeOK ==
  /\ calls \in Seq(Calls)
  /\ pc \in {"idle", "propagate", "decide", "conflict"}
  /\ clauses \in Seq(Seq(Literals))
  /\ watches \in [Literals -> Seq(Nat)]
  /\ trail \in Seq(Entries)
  /\ limits \in Seq(Nat)
  /\ qhead \in Nat
  /\ toVisit \in Seq(Nat)
  /\ learnt \in SUBSET Literals
  /\ empty \in BOOLEAN
  /\ assumed \in Seq(Literals)
  /\ ui \in Nat
  /\ answer \in {"NONE", "SAT", "UNSAT"}
  /\ core \in SUBSET Literals
  /\ given \in SUBSET SUBSET Literals

(* Place i of the trail lies below the first level.                        *)
AtRoot(i, lim) == \A k \in DOMAIN lim : i <= lim[k]

(* Literal l is among the first n of a trail.                              *)
TrueBy(l, n, tr) == \E i \in DOMAIN tr : i <= n /\ tr[i].lit = l

(* Whatever satisfies the clauses of g satisfies one of lits.              *)
Follows(g, lits) ==
  \A a \in [Vars -> BOOLEAN] : (\A c \in g : Satisfies(a, c)) => Satisfies(a, lits)

(* A clause has two literals to watch and no literal twice.                *)
ClausesOK(cl) == \A c \in DOMAIN cl : Len(cl[c]) >= 2 /\ NoRepetition(cl[c])

(* No variable is assigned twice; each level opens with an assignment.     *)
TrailOK(tr) == \A i, j \in DOMAIN tr : var(tr[i].lit) = var(tr[j].lit) => i = j
LimitsOK(tr, lim) ==
  /\ \A k \in DOMAIN lim : lim[k] < Len(tr)
  /\ \A k, m \in DOMAIN lim : k < m => lim[k] < lim[m]

(* What is still to be propagated belongs to the current level.            *)
QueueOK ==
  /\ qhead <= Len(trail)
  /\ pc # "idle" => \A k \in DOMAIN limits : limits[k] <= qhead
  /\ toVisit # <<>> =>
       /\ pc = "propagate" /\ qhead > 0
       /\ \A k \in DOMAIN limits : limits[k] < qhead
  /\ pc \in {"decide", "conflict"} => qhead = Len(trail)

(* Clause c is on the watch list of p, or to be visited because of p.      *)
Listed(c, p) == c \in ToSet(watches[p]) \/ (c \in ToSet(toVisit) /\ p = trail[qhead].lit)

(* Every clause is on the lists of its first two literals, once, and on no *)
(* other.                                                                  *)
WatchesOK ==
  /\ NoRepetition(toVisit) /\ ToSet(toVisit) \subseteq DOMAIN clauses
  /\ \A p \in Literals : NoRepetition(watches[p]) /\ ToSet(watches[p]) \subseteq DOMAIN clauses
  /\ toVisit # <<>> => ToSet(toVisit) \cap ToSet(watches[trail[qhead].lit]) = {}
  /\ \A c \in DOMAIN clauses, p \in Literals : Listed(c, p) <=> p = -clauses[c][1] \/ p = -clauses[c][2]

(* The assignments whose watchers have been visited: after a conflict only *)
(* those of the levels below are sure to be.                               *)
Visited == IF pc # "conflict" THEN qhead ELSE IF limits = <<>> THEN 0 ELSE limits[Len(limits)]

(* Where the watched literal w of clause c has become false and c has been *)
(* visited, the other watched literal o is true, and no backjump undoes o  *)
(* without w.                                                              *)
Guarded(c, w, o) ==
  \A i \in DOMAIN trail :
    i <= Visited /\ trail[i].lit = -w /\ ~(i = qhead /\ c \in ToSet(toVisit)) =>
      \E j \in DOMAIN trail : trail[j].lit = o /\ \A k \in DOMAIN limits : i <= limits[k] => j <= limits[k]
GuardsOK ==
  pc # "idle" =>
    \A c \in DOMAIN clauses :
      Guarded(c, clauses[c][1], clauses[c][2]) /\ Guarded(c, clauses[c][2], clauses[c][1])

(* A literal with a reason is the one literal of that clause not falsified *)
(* before; above the root one without a reason opened its level.           *)
ReasonsOK ==
  \A i \in DOMAIN trail : trail[i].reason # 0 =>
    /\ trail[i].reason \in DOMAIN clauses
    /\ trail[i].lit \in ToSet(clauses[trail[i].reason])
    /\ \A l \in ToSet(clauses[trail[i].reason]) : l # trail[i].lit => TrueBy(-l, i - 1, trail)
DecisionsOK ==
  \A i \in DOMAIN trail : trail[i].reason = 0 =>
    AtRoot(i, limits) \/ \E k \in DOMAIN limits : i = limits[k] + 1

(* No given clause is lost: it is refuted, a tautology, a clause of the    *)
(* solver, or a literal of the root.                                       *)
GivenOK ==
  \A g \in given :
    \/ empty
    \/ \E l \in g : -l \in g
    \/ \E c \in DOMAIN clauses : ToSet(clauses[c]) = g
    \/ \E i \in DOMAIN trail : AtRoot(i, limits) /\ g = {trail[i].lit}

(* Nothing is made up: clauses and the literals of the root follow from    *)
(* what was given.                                                         *)
SoundOK ==
  /\ \A c \in DOMAIN clauses : Follows(given, ToSet(clauses[c]))
  /\ \A i \in DOMAIN trail : AtRoot(i, limits) => Follows(given, {trail[i].lit})
  /\ empty => Follows(given, {})

(* The clause being learned follows too, is false, and its literals are    *)
(* above the root, one of them in the current level.                       *)
LearntOK ==
  pc = "conflict" =>
    /\ Follows(given, learnt)
    /\ \A l \in learnt : \E i \in DOMAIN trail : trail[i].lit = -l /\ ~AtRoot(i, limits)
    /\ limits # <<>> => \E l \in learnt, i \in DOMAIN trail : trail[i].lit = -l /\ i > limits[level]

(* The assumptions looked at hold, and every level opened with the first   *)
(* assumption that did not hold then, if there was one.                    *)
AssumedOK ==
  pc # "idle" =>
    /\ ui <= Len(assumed)
    /\ \A i \in 1 .. ui : True(assumed[i])
    /\ \A k \in DOMAIN limits : \E n \in 0 .. Len(assumed) :
         /\ \A j \in 1 .. n : TrueBy(assumed[j], limits[k], trail)
         /\ n = Len(assumed) \/ assumed[n + 1] = trail[limits[k] + 1].lit

AnswerOK ==
  /\ answer # "NONE" => pc = "idle"
  /\ pc # "idle" => core = {} /\ ~empty
  /\ SatRight
  /\ UnsatRight

Inv ==
  /\ TypeOK
  /\ ClausesOK(clauses) /\ TrailOK(trail) /\ LimitsOK(trail, limits)
  /\ QueueOK /\ WatchesOK /\ GuardsOK
  /\ ReasonsOK /\ DecisionsOK /\ GivenOK /\ SoundOK
  /\ LearntOK /\ AssumedOK /\ AnswerOK

-----------------------------------------------------------------------------
(* The assignment.                                                         *)

(* Undoing the levels above some level.                                    *)
Cut(tr, lim, tr2, lim2) ==
  /\ tr2 \in Seq(Entries) /\ lim2 \in Seq(Nat)
  /\ Len(tr2) <= Len(tr) /\ \A i \in 1 .. Len(tr2) : tr2[i] = tr[i]
  /\ Len(lim2) <= Len(lim) /\ \A k \in 1 .. Len(lim2) : lim2[k] = lim[k]
  /\ IF Len(lim2) = Len(lim) THEN Len(tr2) = Len(tr) ELSE Len(tr2) = lim[Len(lim2) + 1]

(* _cancel_until(n) cuts the levels above n and takes the queue back with  *)
(* them.                                                                   *)
LEMMA CancelledFacts ==
  ASSUME TypeOK, LimitsOK(trail, limits), NEW n \in Nat
  PROVE  /\ Cut(trail, limits, Cancelled(n).trail, Cancelled(n).limits)
         /\ Len(Cancelled(n).limits) = IF level <= n THEN level ELSE n
         /\ qhead <= Len(trail) =>
              Cancelled(n).qhead = IF qhead <= Len(Cancelled(n).trail) THEN qhead ELSE Len(Cancelled(n).trail)
         /\ Cancelled(n).qhead \in Nat
  <1>1. trail \in Seq(Entries) /\ limits \in Seq(Nat) /\ level = Len(limits) /\ level \in Nat
        /\ Len(trail) \in Nat /\ qhead \in Nat /\ DOMAIN limits = 1 .. Len(limits)
    BY DEF TypeOK, level
  <1>2. CASE level <= n
    <2>1. Cancelled(n) = [trail |-> trail, limits |-> limits, qhead |-> qhead]
      BY <1>2 DEF Cancelled
    <2> QED BY <2>1, <1>1, <1>2 DEF Cut
  <1>3. CASE ~(level <= n)
    <2> DEFINE m == limits[n + 1]
    <2>1. Cancelled(n) = [trail |-> SubSeq(trail, 1, m), limits |-> SubSeq(limits, 1, n),
                          qhead |-> Min({qhead, m})]
      BY <1>3, Zenon DEF Cancelled
    <2>2. n + 1 \in DOMAIN limits /\ n \in 0 .. Len(limits)
      BY <1>1, <1>3
    <2>3. m \in Nat /\ m < Len(trail)
      BY <2>2, <1>1 DEF LimitsOK
    <2>4. m \in 0 .. Len(trail)
      BY <2>3, <1>1
    <2> HIDE DEF m
    <2> DEFINE t == SubSeq(trail, 1, m)
               li == SubSeq(limits, 1, n)
    <2>5. t \in Seq(Entries) /\ Len(t) = m /\ \A i \in 1 .. m : t[i] = trail[i]
      BY <1>1, <2>4, PrefixFacts
    <2>6. li \in Seq(Nat) /\ Len(li) = n /\ \A i \in 1 .. n : li[i] = limits[i]
      BY <1>1, <2>2, PrefixFacts
    <2> DEFINE q == Min({qhead, m})
    <2>10. Cancelled(n) = [trail |-> t, limits |-> li, qhead |-> q]
      BY <2>1
    <2> HIDE DEF t, li, q
    <2>7. Cancelled(n).trail = t /\ Cancelled(n).limits = li /\ Cancelled(n).qhead = q
      BY <2>10
    <2>8. Cut(trail, limits, t, li)
      <3>1. Len(t) <= Len(trail) /\ Len(li) <= Len(limits) /\ Len(li) # Len(limits)
        BY <2>4, <2>5, <2>6, <1>1, <1>3
      <3>2. Len(t) = limits[Len(li) + 1]
        BY <2>5, <2>6 DEF m
      <3> QED BY <3>1, <3>2, <2>5, <2>6 DEF Cut
    <2>9. q = IF qhead <= m THEN qhead ELSE m
      BY <1>1, <2>3, MinFacts DEF q
    <2> QED BY <2>5, <2>6, <2>7, <2>8, <2>9, <1>1, <1>3, <2>3
  <1> QED BY <1>2, <1>3

(* A cut keeps the places below it, the facts of the root among them, and  *)
(* the order of the levels.                                                *)
LEMMA CutFacts ==
  ASSUME NEW tr \in Seq(Entries), NEW lim \in Seq(Nat), NEW tr2, NEW lim2,
         LimitsOK(tr, lim), Cut(tr, lim, tr2, lim2)
  PROVE  /\ LimitsOK(tr2, lim2)
         /\ TrailOK(tr) => TrailOK(tr2)
         /\ \A i \in DOMAIN tr : AtRoot(i, lim) => i \in DOMAIN tr2 /\ AtRoot(i, lim2)
         /\ \A i \in DOMAIN tr2 : i \in DOMAIN tr /\ tr2[i] = tr[i] /\ (AtRoot(i, lim2) => AtRoot(i, lim))
         /\ \A k \in DOMAIN lim2 : k \in DOMAIN lim /\ lim2[k] = lim[k] /\ lim[k] < Len(tr2)
         /\ \A i \in DOMAIN tr2, k \in DOMAIN lim : k \notin DOMAIN lim2 => i <= lim[k]
         /\ \A l, n : TrueBy(l, n, tr) /\ n \in Nat /\ n <= Len(tr2) => TrueBy(l, n, tr2)
  <1> DEFINE n == Len(tr)
             m == Len(tr2)
             a == Len(lim)
             b == Len(lim2)
  <1>1. /\ DOMAIN tr = 1 .. n /\ DOMAIN tr2 = 1 .. m /\ DOMAIN lim = 1 .. a /\ DOMAIN lim2 = 1 .. b
        /\ n \in Nat /\ m \in Nat /\ a \in Nat /\ b \in Nat
        /\ \A k \in 1 .. a : lim[k] \in Nat
    BY DEF Cut
  <1>2. /\ m <= n /\ \A i \in 1 .. m : tr2[i] = tr[i]
        /\ b <= a /\ \A k \in 1 .. b : lim2[k] = lim[k]
        /\ b = a => m = n
        /\ b # a => m = lim[b + 1]
    BY DEF Cut
  <1>3. /\ \A k \in 1 .. a : lim[k] < n
        /\ \A k, h \in 1 .. a : k < h => lim[k] < lim[h]
    BY <1>1 DEF LimitsOK
  <1> HIDE DEF n, m, a, b
  <1>4. \A i \in 1 .. m, k \in 1 .. a : k \notin 1 .. b => i <= lim[k]
    <2> SUFFICES ASSUME NEW i \in 1 .. m, NEW k \in 1 .. a, k \notin 1 .. b
                 PROVE  i <= lim[k]
      OBVIOUS
    <2>1. b # a /\ b + 1 \in 1 .. a /\ b + 1 <= k
      BY <1>1, <1>2
    <2>2. lim[b + 1] <= lim[k]
      <3>1. CASE k = b + 1
        BY <3>1, <1>1
      <3>2. CASE b + 1 < k
        BY <3>2, <2>1, <1>1, <1>3
      <3> QED BY <3>1, <3>2, <2>1, <1>1
    <2> QED BY <2>1, <2>2, <1>1, <1>2
  <1>5. \A k \in 1 .. b : k \in 1 .. a /\ lim2[k] = lim[k] /\ lim[k] < m
    <2> SUFFICES ASSUME NEW k \in 1 .. b
                 PROVE  k \in 1 .. a /\ lim2[k] = lim[k] /\ lim[k] < m
      OBVIOUS
    <2>1. k \in 1 .. a /\ lim2[k] = lim[k]
      BY <1>1, <1>2
    <2>2. CASE b = a
      BY <2>1, <2>2, <1>2, <1>3
    <2>3. CASE b # a
      <3>1. b + 1 \in 1 .. a /\ k < b + 1
        BY <2>3, <1>1, <1>2
      <3>2. lim[k] < lim[b + 1]
        BY <3>1, <2>1, <1>3
      <3> QED BY <3>2, <2>1, <2>3, <1>2
    <2> QED BY <2>2, <2>3
  <1>6. \A i \in 1 .. n : AtRoot(i, lim) => i \in 1 .. m /\ AtRoot(i, lim2)
    <2> SUFFICES ASSUME NEW i \in 1 .. n, AtRoot(i, lim)
                 PROVE  i \in 1 .. m /\ AtRoot(i, lim2)
      OBVIOUS
    <2>1. \A k \in 1 .. a : i <= lim[k]
      BY <1>1 DEF AtRoot
    <2>2. AtRoot(i, lim2)
      BY <2>1, <1>5, <1>1 DEF AtRoot
    <2>3. CASE b = a
      BY <2>2, <2>3, <1>1, <1>2
    <2>4. CASE b # a
      <3>1. b + 1 \in 1 .. a
        BY <2>4, <1>1, <1>2
      <3> QED BY <3>1, <2>1, <2>2, <2>4, <1>1, <1>2
    <2> QED BY <2>3, <2>4
  <1>7. \A i \in 1 .. m : i \in 1 .. n /\ tr2[i] = tr[i] /\ (AtRoot(i, lim2) => AtRoot(i, lim))
    <2> SUFFICES ASSUME NEW i \in 1 .. m
                 PROVE  i \in 1 .. n /\ tr2[i] = tr[i] /\ (AtRoot(i, lim2) => AtRoot(i, lim))
      OBVIOUS
    <2>1. i \in 1 .. n /\ tr2[i] = tr[i]
      BY <1>1, <1>2
    <2>2. ASSUME AtRoot(i, lim2), NEW k \in 1 .. a PROVE i <= lim[k]
      BY <2>2, <1>4, <1>5, <1>1 DEF AtRoot
    <2> QED BY <2>1, <2>2, <1>1 DEF AtRoot
  <1>8. LimitsOK(tr2, lim2)
    BY <1>1, <1>3, <1>5 DEF LimitsOK, m
  <1>9. TrailOK(tr) => TrailOK(tr2)
    BY <1>1, <1>7 DEF TrailOK
  <1>10. \A l, q : TrueBy(l, q, tr) /\ q \in Nat /\ q <= m => TrueBy(l, q, tr2)
    <2> SUFFICES ASSUME NEW l, NEW q \in Nat, TrueBy(l, q, tr), q <= m PROVE TrueBy(l, q, tr2)
      OBVIOUS
    <2>1. PICK i \in 1 .. n : i <= q /\ tr[i].lit = l
      BY <1>1 DEF TrueBy
    <2>2. i \in 1 .. m
      BY <2>1, <1>1
    <2> QED BY <2>1, <2>2, <1>2, <1>1 DEF TrueBy
  <1> QED BY <1>1, <1>4, <1>5, <1>6, <1>7, <1>8, <1>9, <1>10 DEF n, m, a, b

(* One more assignment, in the current level or opening a level.           *)
LEMMA PushFacts ==
  ASSUME NEW tr \in Seq(Entries), NEW lim \in Seq(Nat), NEW e \in Entries,
         LimitsOK(tr, lim), TrailOK(tr), ~TrueBy(e.lit, Len(tr), tr), ~TrueBy(-e.lit, Len(tr), tr)
  PROVE  /\ TrailOK(Append(tr, e))
         /\ LimitsOK(Append(tr, e), lim)
         /\ LimitsOK(Append(tr, e), Append(lim, Len(tr)))
         /\ \A i \in DOMAIN tr : AtRoot(i, Append(lim, Len(tr))) <=> AtRoot(i, lim)
         /\ ~AtRoot(Len(tr) + 1, Append(lim, Len(tr)))
         /\ AtRoot(Len(tr) + 1, lim) => lim = <<>>
  <1> DEFINE t == Append(tr, e)
             li == Append(lim, Len(tr))
  <1>0. \A x \in Entries : x.lit \in Literals
    BY DEF Entries
  <1>1. /\ DOMAIN tr = 1 .. Len(tr) /\ DOMAIN lim = 1 .. Len(lim) /\ Len(tr) \in Nat /\ Len(lim) \in Nat
        /\ \A i \in DOMAIN tr : tr[i] \in Entries /\ tr[i].lit \in Literals
        /\ e.lit \in Literals
    BY <1>0
  <1>2. /\ DOMAIN t = 1 .. Len(tr) + 1 /\ Len(t) = Len(tr) + 1 /\ t[Len(tr) + 1] = e
        /\ \A i \in DOMAIN tr : t[i] = tr[i]
    BY <1>1, AppendFacts
  <1>3. /\ DOMAIN li = 1 .. Len(lim) + 1 /\ li[Len(lim) + 1] = Len(tr) /\ \A k \in DOMAIN lim : li[k] = lim[k]
    BY <1>1, AppendFacts
  <1> HIDE DEF t, li
  <1>4. /\ \A k \in DOMAIN lim : lim[k] < Len(tr) /\ lim[k] \in Nat
        /\ \A k, m \in DOMAIN lim : k < m => lim[k] < lim[m]
    BY DEF LimitsOK
  <1>5. \A i \in DOMAIN tr : var(tr[i].lit) # var(e.lit)
    <2> SUFFICES ASSUME NEW i \in DOMAIN tr, var(tr[i].lit) = var(e.lit) PROVE FALSE
      OBVIOUS
    <2>1. tr[i].lit = e.lit \/ tr[i].lit = -e.lit
      BY <1>1, SameVariable
    <2>2. i <= Len(tr)
      BY <1>1
    <2> QED BY <2>1, <2>2 DEF TrueBy
  <1>6. TrailOK(t)
    <2> SUFFICES ASSUME NEW i \in DOMAIN t, NEW j \in DOMAIN t, var(t[i].lit) = var(t[j].lit) PROVE i = j
      BY DEF TrailOK
    <2>1. CASE i = Len(tr) + 1 /\ j = Len(tr) + 1
      BY <2>1
    <2>2. CASE i = Len(tr) + 1 /\ j # Len(tr) + 1
      <3>1. j \in DOMAIN tr
        BY <2>2, <1>1, <1>2
      <3> QED BY <3>1, <2>2, <1>2, <1>5
    <2>3. CASE i # Len(tr) + 1 /\ j = Len(tr) + 1
      <3>1. i \in DOMAIN tr
        BY <2>3, <1>1, <1>2
      <3> QED BY <3>1, <2>3, <1>2, <1>5
    <2>4. CASE i # Len(tr) + 1 /\ j # Len(tr) + 1
      <3>1. i \in DOMAIN tr /\ j \in DOMAIN tr
        BY <2>4, <1>1, <1>2
      <3> QED BY <3>1, <1>2 DEF TrailOK
    <2> QED BY <2>1, <2>2, <2>3, <2>4
  <1>7. LimitsOK(t, lim)
    BY <1>4, <1>2, <1>1 DEF LimitsOK
  <1>8. LimitsOK(t, li)
    <2>1. \A k \in DOMAIN li : li[k] < Len(t)
      BY <1>1, <1>2, <1>3, <1>4
    <2>2. \A k, m \in DOMAIN li : k < m => k \in DOMAIN lim /\ (m \in DOMAIN lim \/ m = Len(lim) + 1)
      BY <1>1, <1>3
    <2>3. \A k, m \in DOMAIN li : k < m => li[k] < li[m]
      BY <2>2, <1>3, <1>4
    <2> QED BY <2>1, <2>3 DEF LimitsOK
  <1>9. ASSUME NEW i \in DOMAIN tr PROVE AtRoot(i, li) <=> AtRoot(i, lim)
    <2>1. i <= Len(tr)
      BY <1>1
    <2>2. \A k : k \in DOMAIN li <=> k \in DOMAIN lim \/ k = Len(lim) + 1
      BY <1>1, <1>3
    <2> QED BY <2>1, <2>2, <1>3, Zenon DEF AtRoot
  <1>10. ~AtRoot(Len(tr) + 1, li)
    BY <1>1, <1>3 DEF AtRoot
  <1>11. AtRoot(Len(tr) + 1, lim) => lim = <<>>
    <2>1. lim # <<>> => 1 \in DOMAIN lim
      BY <1>1
    <2> QED BY <2>1, <1>1, <1>4 DEF AtRoot
  <1> QED BY <1>6, <1>7, <1>8, <1>9, <1>10, <1>11 DEF t, li

(* Where a variable is and in which level.                                 *)
LEMMA PlaceFacts ==
  ASSUME trail \in Seq(Entries), TrailOK(trail), NEW i \in DOMAIN trail
  PROVE  /\ Place(var(trail[i].lit)) = i
         /\ Reason(var(trail[i].lit)) = trail[i].reason
  BY DEF Place, Reason, TrailOK

(* The level of an assignment is the number of levels opened before it.    *)
LEMMA LevelFacts ==
  ASSUME trail \in Seq(Entries), limits \in Seq(Nat), TrailOK(trail), LimitsOK(trail, limits),
         NEW i \in DOMAIN trail
  PROVE  /\ LevelOf(var(trail[i].lit)) \in 0 .. level
         /\ \A k \in DOMAIN limits : k <= LevelOf(var(trail[i].lit)) <=> limits[k] < i
         /\ LevelOf(var(trail[i].lit)) = 0 <=> AtRoot(i, limits)
         /\ level > 0 => (LevelOf(var(trail[i].lit)) = level <=> limits[level] < i)
  <1> DEFINE S == {k \in DOMAIN limits : limits[k] < i}
             T == {k \in 1 .. Len(limits) + 1 : k \notin S}
  <1>1. /\ DOMAIN limits = 1 .. Len(limits) /\ Len(limits) \in Nat /\ level = Len(limits)
        /\ i \in Nat /\ \A k \in DOMAIN limits : limits[k] \in Nat
    BY DEF level
  <1>2. \A k, m \in DOMAIN limits : k < m => limits[k] < limits[m]
    BY DEF LimitsOK
  <1>3. LevelOf(var(trail[i].lit)) = Cardinality(S)
    BY PlaceFacts DEF LevelOf
  <1>4. PICK n \in T : \A m \in T : n <= m
    <2>1. Len(limits) + 1 \in T /\ T \in SUBSET Nat
      BY <1>1
    <2> QED BY <2>1, LeastNatural
  <1>5. n \in 1 .. Len(limits) + 1 /\ n \notin S
    BY <1>4
  <1>6. ASSUME NEW k \in DOMAIN limits PROVE k \in S <=> k <= n - 1
    <2>1. k \in Nat /\ n \in Nat /\ k \in 1 .. Len(limits) + 1
      BY <1>1, <1>5
    <2>2. CASE k < n
      <3>1. ~(n <= k)
        BY <2>2, <2>1
      <3>2. k \in S
        BY <3>1, <2>1, <1>4
      <3> QED BY <3>2, <2>2, <2>1
    <2>3. CASE k = n
      BY <2>3, <1>5, <2>1
    <2>4. CASE k > n
      <3>1. n \in DOMAIN limits
        BY <2>4, <2>1, <1>1, <1>5
      <3>2. limits[n] < limits[k] /\ ~(limits[n] < i)
        BY <3>1, <2>4, <1>2, <1>5, <2>1
      <3>3. k \notin S
        BY <3>1, <3>2, <1>1
      <3> QED BY <3>3, <2>4, <2>1
    <2> QED BY <2>1, <2>2, <2>3, <2>4
  <1>7. S = 1 .. (n - 1)
    <2>1. \A k \in 1 .. (n - 1) : k \in DOMAIN limits
      BY <1>1, <1>5
    <2>2. \A k \in S : k \in 1 .. (n - 1)
      BY <1>6, <1>1, <1>5
    <2> HIDE DEF S
    <2>3. \A k \in 1 .. (n - 1) : k \in S
      BY <2>1, <1>6, <1>5, <1>1
    <2> QED BY <2>2, <2>3
  <1>8. Cardinality(S) = n - 1
    <2>1. Cardinality(1 .. (n - 1)) = n - 1
      BY <1>5, <1>1, FS_Interval
    <2> QED BY <2>1, <1>7
  <1>9. \A k \in DOMAIN limits : k <= n - 1 <=> limits[k] < i
    BY <1>6
  <1>10. LevelOf(var(trail[i].lit)) = n - 1
    BY <1>3, <1>8
  <1>11. n - 1 \in 0 .. level
    BY <1>1, <1>5
  <1>12. n - 1 = 0 <=> AtRoot(i, limits)
    <2>1. ASSUME n - 1 = 0 PROVE AtRoot(i, limits)
      <3>1. \A k \in DOMAIN limits : ~(k <= 0)
        BY <1>1
      <3> QED BY <3>1, <2>1, <1>9, <1>1 DEF AtRoot
    <2>2. ASSUME n - 1 # 0 PROVE ~AtRoot(i, limits)
      <3>1. 1 \in DOMAIN limits /\ 1 <= n - 1
        BY <2>2, <1>1, <1>5
      <3> QED BY <3>1, <1>9, <1>1 DEF AtRoot
    <2> QED BY <2>1, <2>2
  <1>13. level > 0 => (n - 1 = level <=> limits[level] < i)
    <2> SUFFICES ASSUME level > 0 PROVE n - 1 = level <=> limits[level] < i
      OBVIOUS
    <2>1. level \in DOMAIN limits
      BY <1>1
    <2>2. level <= n - 1 <=> limits[level] < i
      BY <2>1, <1>9
    <2> QED BY <2>2, <1>1, <1>5
  <1> QED BY <1>9, <1>10, <1>11, <1>12, <1>13

-----------------------------------------------------------------------------
(* Steps that leave clauses and trail alone.                               *)

(* Without a change of clauses, trail and history what is said of them     *)
(* stays true.                                                             *)
LEMMA Frame ==
  ASSUME UNCHANGED <<clauses, trail, limits, given, empty>>, Inv
  PROVE  /\ ClausesOK(clauses)' /\ TrailOK(trail)' /\ LimitsOK(trail, limits)'
         /\ ReasonsOK' /\ DecisionsOK' /\ GivenOK' /\ SoundOK'
  <1>1. ClausesOK(clauses)' /\ TrailOK(trail)' /\ LimitsOK(trail, limits)'
    BY DEF Inv, ClausesOK, TrailOK, LimitsOK
  <1>2. ReasonsOK'
    BY DEF Inv, ReasonsOK, TrueBy
  <1>3. DecisionsOK' /\ GivenOK'
    BY DEF Inv, DecisionsOK, GivenOK, AtRoot
  <1>4. SoundOK'
    BY DEF Inv, SoundOK, AtRoot, Follows
  <1> QED BY <1>1, <1>2, <1>3, <1>4

(* So does what is said of the watches,                                    *)
LEMMA WatchesFrame ==
  ASSUME UNCHANGED <<clauses, watches, toVisit, trail, qhead>>, WatchesOK
  PROVE  WatchesOK'
  BY DEF WatchesOK, Listed

(* and of the false ones among them, while the phase of the search stays   *)
(* the same.                                                               *)
LEMMA GuardsFrame ==
  ASSUME UNCHANGED <<clauses, trail, limits, toVisit, qhead>>, GuardsOK,
         pc # "idle", pc' # "idle", pc = "conflict" <=> pc' = "conflict"
  PROVE  GuardsOK'
  <1>1. Visited' = Visited
    BY DEF Visited
  <1>2. \A c, w, o : Guarded(c, w, o) => Guarded(c, w, o)'
    BY <1>1 DEF Guarded
  <1> QED BY <1>2 DEF GuardsOK

(* Without an answer there is nothing to be right about.                   *)
LEMMA AnswerFrame ==
  ASSUME answer' = "NONE", core' = {}, ~empty'
  PROVE  AnswerOK'
  BY DEF AnswerOK, SatRight, UnsatRight

(* Propagation comes to rest.                                              *)
LEMMA QuietKeeps ==
  ASSUME Inv, Quiet
  PROVE  Inv'
  <1> USE DEF database, query
  <1>1. TypeOK'
    BY DEF Inv, TypeOK, Quiet
  <1>2. QueueOK'
    BY DEF Inv, QueueOK, Quiet
  <1>3. WatchesOK'
    BY WatchesFrame DEF Inv, Quiet
  <1>4. GuardsOK'
    BY GuardsFrame DEF Inv, Quiet
  <1>5. LearntOK'
    BY DEF LearntOK, Quiet
  <1>6. AssumedOK'
    BY DEF Inv, AssumedOK, Quiet, True, TrueBy
  <1>7. AnswerOK'
    <2>1. answer = "NONE" /\ core = {} /\ ~empty
      BY DEF Inv, AnswerOK, Quiet, TypeOK
    <2> QED BY <2>1, AnswerFrame DEF Quiet
  <1>8. UNCHANGED <<clauses, trail, limits, given, empty>>
    BY DEF Quiet
  <1> QED BY <1>1, <1>2, <1>3, <1>4, <1>5, <1>6, <1>7, <1>8, Frame DEF Inv

(* Nothing happens.                                                        *)
LEMMA StutterKeeps ==
  ASSUME Inv, UNCHANGED vars
  PROVE  Inv'
  <1> USE DEF vars
  <1>1. TypeOK'
    BY DEF Inv, TypeOK
  <1>2. QueueOK'
    BY DEF Inv, QueueOK
  <1>3. WatchesOK'
    BY WatchesFrame DEF Inv
  <1>4. GuardsOK'
    BY GuardsFrame DEF Inv, GuardsOK
  <1>5. LearntOK'
    BY DEF Inv, LearntOK, AtRoot, Follows, level
  <1>6. AssumedOK'
    BY DEF Inv, AssumedOK, True, TrueBy
  <1>7. AnswerOK'
    BY DEF Inv, AnswerOK, SatRight, UnsatRight, True
  <1>8. UNCHANGED <<clauses, trail, limits, given, empty>>
    OBVIOUS
  <1> QED BY <1>1, <1>2, <1>3, <1>4, <1>5, <1>6, <1>7, <1>8, Frame DEF Inv

(* Nothing satisfies the empty clause.                                     *)
LEMMA EmptyClause == \A a : ~Satisfies(a, {})
  BY DEF Satisfies

(* A conflict in which no literal is above the root refutes what was       *)
(* given.                                                                  *)
LEMMA ConflictAtRootKeeps ==
  ASSUME Inv, ConflictAtRoot
  PROVE  Inv'
  <1> USE DEF database, Answer
  <1>0. answer = "NONE" /\ core = {} /\ ~empty /\ pc = "conflict"
    BY DEF Inv, AnswerOK, ConflictAtRoot, TypeOK
  <1>1. TypeOK'
    BY DEF Inv, TypeOK, ConflictAtRoot
  <1>2. QueueOK'
    BY DEF Inv, QueueOK, ConflictAtRoot
  <1>3. WatchesOK'
    BY WatchesFrame DEF Inv, ConflictAtRoot
  <1>4. GuardsOK' /\ LearntOK' /\ AssumedOK'
    BY DEF GuardsOK, LearntOK, AssumedOK, ConflictAtRoot
  <1>5. UNCHANGED <<clauses, trail, limits, given, empty, core>> /\ answer' = "UNSAT" /\ pc' = "idle"
    BY DEF ConflictAtRoot
  <1>6. AnswerOK'
    <2>1. limits = <<>>
      BY DEF ConflictAtRoot, level, Inv, TypeOK
    <2>2. learnt = {}
      <3>1. \A i : AtRoot(i, limits)
        BY <2>1 DEF AtRoot
      <3> QED BY <3>1, <1>0 DEF Inv, LearntOK
    <2>3. Follows(given, {})
      BY <2>2, <1>0 DEF Inv, LearntOK
    <2>4. UnsatRight'
      BY <2>3, <1>0, <1>5, EmptyClause DEF UnsatRight, Follows
    <2> QED BY <2>4, <1>0, <1>5 DEF AnswerOK, SatRight
  <1> QED BY <1>1, <1>2, <1>3, <1>4, <1>5, <1>6, Frame DEF Inv

(* A clause that has two literals to watch and none of them false has two  *)
(* open literals.                                                          *)
LEMMA TwoOpen ==
  ASSUME TypeOK, NEW c \in Seq(Literals), Len(c) >= 2, NoRepetition(c), Open(c[1]), Open(c[2])
  PROVE  Cardinality({l \in ToSet(c) : Open(l)}) >= 2
  <1> DEFINE S == {l \in ToSet(c) : Open(l)}
  <1>1. 1 \in DOMAIN c /\ 2 \in DOMAIN c /\ c[1] # c[2]
    BY DEF NoRepetition
  <1>2. {c[1], c[2]} \subseteq S
    BY <1>1 DEF ToSet
  <1>3. IsFiniteSet(S)
    <2>1. S \subseteq Literals
      BY ToSetFacts
    <2> QED BY <2>1, LiteralsFinite, FS_Subset
  <1>4. Cardinality({c[1], c[2]}) = 2
    <2>1. IsFiniteSet({c[1]}) /\ Cardinality({c[1]}) = 1
      BY FS_Singleton
    <2>2. Cardinality({c[1]} \cup {c[2]}) = 1 + 1
      <3>1. c[2] \notin {c[1]}
        BY <1>1
      <3> QED BY <2>1, <3>1, FS_AddElement
    <2>3. {c[1]} \cup {c[2]} = {c[1], c[2]}
      OBVIOUS
    <2>4. 1 + 1 = 2
      OBVIOUS
    <2> QED BY <2>2, <2>3, <2>4, Zenon
  <1>5. Cardinality({c[1], c[2]}) <= Cardinality(S)
    <2> HIDE DEF S
    <2> QED BY <1>2, <1>3, FS_Subset
  <1>6. Cardinality(S) \in Nat
    BY <1>3, FS_CardinalityType
  <1> QED BY <1>4, <1>5, <1>6

(* At rest no watch is false whose clause does not hold: propagation was   *)
(* complete.                                                               *)
LEMMA GuardsComplete ==
  ASSUME Inv
  PROVE  PropagationComplete
  <1> SUFFICES ASSUME pc = "decide", NEW c \in DOMAIN clauses, \A l \in ToSet(clauses[c]) : ~True(l)
               PROVE  Cardinality({l \in ToSet(clauses[c]) : Open(l)}) >= 2
    BY DEF PropagationComplete
  <1>1. clauses[c] \in Seq(Literals) /\ Len(clauses[c]) >= 2 /\ NoRepetition(clauses[c])
    BY DEF Inv, TypeOK, ClausesOK
  <1>2. clauses[c][1] \in ToSet(clauses[c]) /\ clauses[c][2] \in ToSet(clauses[c])
    BY <1>1 DEF ToSet
  <1>3. Visited = Len(trail) /\ toVisit = <<>>
    BY DEF Inv, QueueOK, Visited
  <1>4. \A w, o : Guarded(c, w, o) /\ ~True(o) => ~True(-w)
    <2> SUFFICES ASSUME NEW w, NEW o, Guarded(c, w, o), ~True(o), True(-w) PROVE FALSE
      OBVIOUS
    <2>1. PICK i \in DOMAIN trail : trail[i].lit = -w
      BY DEF True
    <2>2. i <= Len(trail)
      BY DEF Inv, TypeOK
    <2>3. ToSet(toVisit) = {}
      BY <1>3 DEF ToSet
    <2> QED BY <2>1, <2>2, <2>3, <1>3 DEF Guarded, True
  <1>5. ~False(clauses[c][1]) /\ ~False(clauses[c][2])
    BY <1>2, <1>4 DEF Inv, GuardsOK, False
  <1>6. Open(clauses[c][1]) /\ Open(clauses[c][2])
    BY <1>2, <1>5 DEF Open
  <1> QED BY <1>1, <1>6, TwoOpen DEF Inv

-----------------------------------------------------------------------------
(* Quiet times: the next assumption, the next decision, an answer.         *)

(* With all variables assigned and all clauses visited, the assignment is  *)
(* a model.                                                                *)
LEMMA AllAssignedKeeps ==
  ASSUME Inv, AllAssigned
  PROVE  Inv'
  <1> USE DEF database, Answer
  <1>0. answer = "NONE" /\ core = {} /\ ~empty /\ pc = "decide"
    BY DEF Inv, AnswerOK, AllAssigned, TypeOK
  <1>1. TypeOK'
    BY DEF Inv, TypeOK, AllAssigned
  <1>2. QueueOK'
    BY DEF Inv, QueueOK, AllAssigned
  <1>3. WatchesOK'
    BY WatchesFrame DEF Inv, AllAssigned
  <1>4. GuardsOK' /\ LearntOK' /\ AssumedOK'
    BY DEF GuardsOK, LearntOK, AssumedOK, AllAssigned
  <1>5. /\ UNCHANGED <<clauses, trail, limits, given, empty, core, assumed>>
        /\ answer' = "SAT" /\ pc' = "idle"
    BY DEF AllAssigned
  <1>6. \A l \in Literals : ~Open(l)
    <2> SUFFICES ASSUME NEW l \in Literals, Open(l) PROVE FALSE
      OBVIOUS
    <2>1. var(l) \in Vars /\ (l = var(l) \/ l = -var(l)) /\ -(-var(l)) = var(l)
      BY LiteralFacts
    <2>2. Open(var(l))
      BY <2>1 DEF Open, False
    <2> QED BY <2>1, <2>2 DEF AllAssigned
  <1>7. ASSUME NEW g \in given PROVE \E l \in g : True(l)
    <2>0. g \subseteq Literals
      BY DEF Inv, TypeOK
    <2>1. CASE \E l \in g : -l \in g
      <3>1. PICK l \in g : -l \in g
        BY <2>1
      <3> QED BY <3>1, <2>0, <1>6 DEF Open, False
    <2>2. CASE \E c \in DOMAIN clauses : ToSet(clauses[c]) = g
      <3>1. PICK c \in DOMAIN clauses : ToSet(clauses[c]) = g
        BY <2>2
      <3>2. {l \in g : Open(l)} = {}
        BY <2>0, <1>6
      <3>3. Cardinality({l \in g : Open(l)}) = 0
        BY <3>2, FS_EmptySet
      <3>4. (\E l \in g : True(l)) \/ Cardinality({l \in g : Open(l)}) >= 2
        BY <3>1, <1>0, GuardsComplete, Zenon DEF PropagationComplete
      <3> QED BY <3>3, <3>4
    <2>3. CASE \E i \in DOMAIN trail : AtRoot(i, limits) /\ g = {trail[i].lit}
      BY <2>3 DEF True
    <2> QED BY <2>1, <2>2, <2>3, <1>0 DEF Inv, GivenOK
  <1>8. \A i \in DOMAIN assumed : True(assumed[i])
    BY <1>0 DEF AllAssigned, Inv, AssumedOK, TypeOK
  <1>9. SatRight'
    BY <1>5, <1>7, <1>8 DEF SatRight, True
  <1>10. AnswerOK'
    BY <1>0, <1>5, <1>9 DEF AnswerOK, UnsatRight
  <1> QED BY <1>1, <1>2, <1>3, <1>4, <1>5, <1>10, Frame DEF Inv

(* A new level.                                                            *)
LEMMA EnterKeeps ==
  ASSUME Inv, pc = "decide", NEW l \in Literals, Open(l), Enter(l), pc' = "propagate",
         UNCHANGED <<database, qhead, toVisit, learnt, empty, assumed, answer, core, given, calls>>,
         ui' \in 0 .. Len(assumed),
         \A i \in 1 .. ui' : True(assumed[i]) \/ assumed[i] = l,
         \E n \in 0 .. Len(assumed) :
           /\ \A j \in 1 .. n : True(assumed[j])
           /\ n = Len(assumed) \/ assumed[n + 1] = l
  PROVE  Inv'
  <1> DEFINE e == Entry(l, 0)
             N == Len(trail)
  <1>0. /\ trail \in Seq(Entries) /\ limits \in Seq(Nat) /\ N \in Nat
        /\ TrailOK(trail) /\ LimitsOK(trail, limits)
        /\ qhead = N /\ toVisit = <<>>
        /\ DOMAIN trail = 1 .. N /\ DOMAIN limits = 1 .. Len(limits) /\ Len(limits) \in Nat
    BY DEF Inv, TypeOK, QueueOK
  <1>1. e \in Entries /\ e.lit = l /\ e.reason = 0
    BY DEF Entry, Entries
  <1>2. trail' = Append(trail, e) /\ limits' = Append(limits, N)
    BY DEF Enter
  <1>3. ~TrueBy(e.lit, N, trail) /\ ~TrueBy(-e.lit, N, trail)
    BY <1>1 DEF TrueBy, Open, True, False
  <1>4. /\ trail' \in Seq(Entries) /\ Len(trail') = N + 1 /\ DOMAIN trail' = 1 .. N + 1
        /\ trail'[N + 1] = e /\ \A i \in 1 .. N : trail'[i] = trail[i]
    BY <1>0, <1>1, <1>2, AppendFacts
  <1>5. /\ limits' \in Seq(Nat) /\ DOMAIN limits' = 1 .. Len(limits) + 1
        /\ limits'[Len(limits) + 1] = N /\ \A k \in DOMAIN limits : limits'[k] = limits[k]
    BY <1>0, <1>2, AppendFacts
  <1>6. /\ TrailOK(trail') /\ LimitsOK(trail', limits')
        /\ \A i \in DOMAIN trail : AtRoot(i, limits') <=> AtRoot(i, limits)
        /\ ~AtRoot(N + 1, limits')
    BY <1>0, <1>1, <1>2, <1>3, PushFacts
  <1> HIDE DEF N, e
  <1>7. \A x, n : n \in Nat /\ n <= N /\ TrueBy(x, n, trail) => TrueBy(x, n, trail')
    BY <1>0, <1>4 DEF TrueBy
  <1>8. TypeOK'
    <2>1. ui' \in Nat
      BY DEF Inv, TypeOK
    <2> QED BY <2>1, <1>4, <1>5 DEF Inv, TypeOK, database
  <1>9. ClausesOK(clauses)' /\ TrailOK(trail)' /\ LimitsOK(trail, limits)'
    BY <1>6 DEF Inv, ClausesOK, database, TrailOK, LimitsOK
  <1>10. QueueOK'
    <2>0. \A k \in DOMAIN limits : limits[k] \in Nat /\ limits[k] < N
      BY <1>0 DEF LimitsOK, N
    <2>1. \A k \in DOMAIN limits' : limits'[k] <= N
      <3>1. \A k \in DOMAIN limits' : k \in DOMAIN limits \/ k = Len(limits) + 1
        BY <1>0, <1>5
      <3> QED BY <3>1, <2>0, <1>0, <1>5
    <2> QED BY <2>1, <1>0, <1>4 DEF QueueOK
  <1>11. WatchesOK'
    <2>1. ToSet(toVisit) = {}
      BY <1>0 DEF ToSet
    <2> QED BY <2>1, <1>0 DEF Inv, WatchesOK, Listed, database
  <1>12. GuardsOK'
    <2>1. Visited' = N /\ Visited = N
      BY <1>0 DEF Visited
    <2>2. ASSUME NEW c, NEW w, NEW o, Guarded(c, w, o) PROVE Guarded(c, w, o)'
      <3> SUFFICES ASSUME NEW i \in DOMAIN trail', i <= N, trail'[i].lit = -w
                   PROVE  \E j \in DOMAIN trail' :
                            trail'[j].lit = o /\ \A k \in DOMAIN limits' : i <= limits'[k] => j <= limits'[k]
        BY <2>1 DEF Guarded
      <3>1. i \in DOMAIN trail /\ trail[i].lit = -w
        BY <1>0, <1>4
      <3>2. c \notin ToSet(toVisit)
        BY <1>0 DEF ToSet
      <3>3. PICK j \in DOMAIN trail : trail[j].lit = o /\ \A k \in DOMAIN limits : i <= limits[k] => j <= limits[k]
        BY <3>1, <3>2, <2>1, <2>2 DEF Guarded
      <3>4. j \in DOMAIN trail' /\ trail'[j].lit = o /\ j <= N
        BY <3>3, <1>0, <1>4
      <3>5. \A k \in DOMAIN limits' : i <= limits'[k] => j <= limits'[k]
        <4>1. \A k \in DOMAIN limits' : k \in DOMAIN limits \/ k = Len(limits) + 1
          BY <1>0, <1>5
        <4> QED BY <4>1, <3>3, <3>4, <1>5
      <3> QED BY <3>4, <3>5
    <2> QED BY <2>2 DEF Inv, GuardsOK, database
  <1>13. ReasonsOK'
    <2> SUFFICES ASSUME NEW i \in DOMAIN trail', trail'[i].reason # 0
                 PROVE  /\ trail'[i].reason \in DOMAIN clauses
                        /\ trail'[i].lit \in ToSet(clauses[trail'[i].reason])
                        /\ \A x \in ToSet(clauses[trail'[i].reason]) : x # trail'[i].lit => TrueBy(-x, i - 1, trail')
      BY DEF ReasonsOK, database
    <2>1. i \in DOMAIN trail /\ trail'[i] = trail[i] /\ i - 1 \in Nat /\ i - 1 <= N
      BY <1>0, <1>1, <1>4
    <2> QED BY <2>1, <1>7 DEF Inv, ReasonsOK
  <1>14. DecisionsOK'
    <2> SUFFICES ASSUME NEW i \in DOMAIN trail', trail'[i].reason = 0
                 PROVE  AtRoot(i, limits') \/ \E k \in DOMAIN limits' : i = limits'[k] + 1
      BY DEF DecisionsOK
    <2>1. CASE i = N + 1
      <3>1. Len(limits) + 1 \in DOMAIN limits' /\ limits'[Len(limits) + 1] = N
        BY <1>0, <1>5
      <3> QED BY <2>1, <3>1, Zenon
    <2>2. CASE i # N + 1
      <3>1. i \in DOMAIN trail /\ trail'[i] = trail[i]
        BY <2>2, <1>0, <1>4
      <3>2. \A k \in DOMAIN limits : k \in DOMAIN limits' /\ limits'[k] = limits[k]
        BY <1>0, <1>5
      <3> QED BY <3>1, <3>2, <1>6 DEF Inv, DecisionsOK
    <2> QED BY <2>1, <2>2
  <1>15. GivenOK'
    <2>1. \A i \in DOMAIN trail : i \in DOMAIN trail' /\ trail'[i] = trail[i]
      BY <1>0, <1>4
    <2> QED BY <2>1, <1>6 DEF Inv, GivenOK, database
  <1>16. SoundOK'
    <2>1. \A i \in DOMAIN trail' : AtRoot(i, limits') => i \in DOMAIN trail /\ trail'[i] = trail[i] /\ AtRoot(i, limits)
      BY <1>0, <1>4, <1>6
    <2> QED BY <2>1 DEF Inv, SoundOK, database
  <1>17. LearntOK'
    BY DEF LearntOK
  <1>18. AssumedOK'
    <2>1. \A x : True(x) \/ x = l => True(x)'
      <3>1. \A i \in DOMAIN trail : i \in DOMAIN trail' /\ trail'[i] = trail[i]
        BY <1>0, <1>4
      <3>2. N + 1 \in DOMAIN trail' /\ trail'[N + 1].lit = l
        BY <1>0, <1>1, <1>4
      <3> QED BY <3>1, <3>2 DEF True
    <2>2. \A i \in 1 .. ui' : True(assumed[i])'
      BY <2>1
    <2>3. ASSUME NEW k \in DOMAIN limits'
          PROVE  \E n \in 0 .. Len(assumed) :
                   /\ \A j \in 1 .. n : TrueBy(assumed[j], limits'[k], trail')
                   /\ n = Len(assumed) \/ assumed[n + 1] = trail'[limits'[k] + 1].lit
      <3>1. CASE k = Len(limits) + 1
        <4>1. limits'[k] = N /\ trail'[N + 1].lit = l
          BY <3>1, <1>5, <1>4, <1>1
        <4>2. \A x : True(x) => TrueBy(x, N, trail')
          BY <1>0, <1>4 DEF True, TrueBy
        <4> QED BY <4>1, <4>2
      <3>2. CASE k # Len(limits) + 1
        <4>1. k \in DOMAIN limits /\ limits'[k] = limits[k]
          BY <3>2, <1>0, <1>5
        <4>2. limits[k] \in Nat /\ limits[k] < N
          BY <4>1, <1>0 DEF LimitsOK, N
        <4>3. trail'[limits[k] + 1] = trail[limits[k] + 1]
          BY <4>2, <1>0, <1>4
        <4>4. \A x : TrueBy(x, limits[k], trail) => TrueBy(x, limits[k], trail')
          BY <4>2, <1>7, <1>0
        <4> QED BY <4>1, <4>3, <4>4 DEF Inv, AssumedOK
      <3> QED BY <3>1, <3>2
    <2>4. ui' <= Len(assumed)
      BY DEF Inv, TypeOK
    <2> QED BY <2>2, <2>3, <2>4 DEF AssumedOK
  <1>19. AnswerOK'
    <2>1. answer = "NONE" /\ core = {} /\ ~empty
      BY DEF Inv, AnswerOK, TypeOK
    <2> QED BY <2>1, AnswerFrame
  <1> QED BY <1>8, <1>9, <1>10, <1>11, <1>12, <1>13, <1>14, <1>15, <1>16, <1>17, <1>18, <1>19 DEF Inv

(* The next assumption holds already or opens a level.                     *)
LEMMA HonorAssumptionKeeps ==
  ASSUME Inv, HonorAssumption
  PROVE  Inv'
  <1> DEFINE a == assumed[ui + 1]
  <1> USE DEF database, Honored
  <1>0. /\ pc = "decide" /\ pc' = "propagate" /\ ui \in Nat /\ ui < Len(assumed) /\ ui' = ui + 1
        /\ assumed \in Seq(Literals) /\ a \in Literals
        /\ UNCHANGED <<database, qhead, toVisit, learnt, empty, assumed, answer, core, given, calls>>
    BY DEF HonorAssumption, Inv, TypeOK
  <1>1. ui' \in 0 .. Len(assumed)
    BY <1>0
  <1>2. \A i \in 1 .. ui : True(assumed[i])
    BY <1>0 DEF Inv, AssumedOK
  <1>3. \A i \in 1 .. ui' : i \in 1 .. ui \/ i = ui + 1
    BY <1>0
  <1>4. CASE True(a) /\ UNCHANGED <<trail, limits>>
    <2>1. TypeOK'
      BY <1>0, <1>4 DEF Inv, TypeOK
    <2>2. QueueOK'
      BY <1>0, <1>4 DEF Inv, QueueOK
    <2>3. WatchesOK'
      BY <1>0, <1>4, WatchesFrame DEF Inv
    <2>4. GuardsOK'
      BY <1>0, <1>4, GuardsFrame DEF Inv
    <2>5. LearntOK'
      BY <1>0 DEF LearntOK
    <2>6. AssumedOK'
      <3>1. \A i \in 1 .. ui' : True(assumed[i])
        BY <1>2, <1>3, <1>4
      <3>2. ui' <= Len(assumed)
        BY <1>0
      <3>3. \A i \in 1 .. ui' : True(assumed[i])'
        BY <3>1, <1>0, <1>4 DEF True
      <3>4. (\A k \in DOMAIN limits : \E n \in 0 .. Len(assumed) :
               /\ \A j \in 1 .. n : TrueBy(assumed[j], limits[k], trail)
               /\ n = Len(assumed) \/ assumed[n + 1] = trail[limits[k] + 1].lit)'
        BY <1>0, <1>4 DEF Inv, AssumedOK, TrueBy
      <3> QED BY <3>2, <3>3, <3>4, <1>0 DEF AssumedOK
    <2>7. AnswerOK'
      <3>1. answer = "NONE" /\ core = {} /\ ~empty
        BY <1>0 DEF Inv, AnswerOK, TypeOK
      <3> QED BY <3>1, <1>0, AnswerFrame
    <2> QED BY <2>1, <2>2, <2>3, <2>4, <2>5, <2>6, <2>7, <1>0, <1>4, Frame DEF Inv
  <1>5. CASE Open(a) /\ Enter(a)
    <2>1. \A i \in 1 .. ui' : True(assumed[i]) \/ assumed[i] = a
      BY <1>2, <1>3
    <2>2. \E n \in 0 .. Len(assumed) :
             /\ \A j \in 1 .. n : True(assumed[j])
             /\ n = Len(assumed) \/ assumed[n + 1] = a
      <3>1. ui \in 0 .. Len(assumed)
        BY <1>0
      <3> QED BY <3>1, <1>2
    <2> QED BY <2>1, <2>2, <1>0, <1>1, <1>5, EnterKeeps
  <1> QED BY <1>4, <1>5 DEF HonorAssumption

(* A decision opens a level once every assumption holds.                   *)
LEMMA DecideKeeps ==
  ASSUME Inv, Decide
  PROVE  Inv'
  <1> USE DEF database, query
  <1>0. /\ pc = "decide" /\ pc' = "propagate" /\ ui \in Nat /\ ui = Len(assumed) /\ ui' = ui
        /\ UNCHANGED <<database, qhead, toVisit, learnt, empty, assumed, answer, core, given, calls>>
    BY DEF Decide, Inv, TypeOK
  <1>1. \A i \in 1 .. ui : True(assumed[i])
    BY <1>0 DEF Inv, AssumedOK
  <1>2. ui' \in 0 .. Len(assumed) /\ Len(assumed) \in 0 .. Len(assumed)
    BY <1>0
  <1>3. PICK l \in Literals : Open(l) /\ Enter(l)
    BY DEF Decide
  <1>4. \A i \in 1 .. ui' : True(assumed[i]) \/ assumed[i] = l
    BY <1>0, <1>1
  <1>5. \E n \in 0 .. Len(assumed) :
           /\ \A j \in 1 .. n : True(assumed[j])
           /\ n = Len(assumed) \/ assumed[n + 1] = l
    BY <1>0, <1>1, <1>2
  <1> QED BY <1>0, <1>2, <1>3, <1>4, <1>5, EnterKeeps

-----------------------------------------------------------------------------
(* What follows from a set of clauses.                                     *)

Holds(a, l) == IF l > 0 THEN a[l] ELSE ~a[-l]

(* A clause is satisfied by one of its literals, and one of two opposite   *)
(* literals holds.                                                         *)
LEMMA HoldsFacts ==
  /\ \A a, lits : Satisfies(a, lits) <=> \E l \in lits : Holds(a, l)
  /\ \A a, l : Satisfies(a, {l}) <=> Holds(a, l)
  /\ \A a, lits : SatisfiesAll(a, lits) <=> \A l \in lits : Holds(a, l)
  /\ \A a \in [Vars -> BOOLEAN], l \in Literals : Holds(a, -l) <=> ~Holds(a, l)
  <1>1. \A a, lits : Satisfies(a, lits) <=> \E l \in lits : Holds(a, l)
    BY Zenon DEF Satisfies, Holds
  <1>2. \A a, l : Satisfies(a, {l}) <=> Holds(a, l)
    BY <1>1
  <1>3. \A a, lits : SatisfiesAll(a, lits) <=> \A l \in lits : Holds(a, l)
    BY <1>2, Zenon DEF SatisfiesAll
  <1>4. ASSUME NEW a \in [Vars -> BOOLEAN], NEW l \in Literals
        PROVE  Holds(a, -l) <=> ~Holds(a, l)
    <2>1. l \in Int /\ l # 0 /\ -(-l) = l
      BY LiteralFacts
    <2>2. CASE l > 0
      <3>1. ~(-l > 0)
        BY <2>1, <2>2
      <3> QED BY <3>1, <2>1, <2>2, Zenon DEF Holds
    <2>3. CASE ~(l > 0)
      <3>1. -l > 0
        BY <2>1, <2>3
      <3> QED BY <3>1, <2>3, Zenon DEF Holds
    <2> QED BY <2>2, <2>3
  <1> QED BY <1>1, <1>2, <1>3, <1>4

Models(g) == {a \in [Vars -> BOOLEAN] : \A c \in g : Satisfies(a, c)}

(* What follows from given clauses holds in their models; more clauses     *)
(* have fewer models.                                                      *)
LEMMA FollowsFacts ==
  /\ \A g, lits : Follows(g, lits) <=> \A a \in Models(g) : \E l \in lits : Holds(a, l)
  /\ \A g, h : g \subseteq h => Models(h) \subseteq Models(g)
  /\ \A g : \A a \in Models(g), l \in Literals : Holds(a, -l) <=> ~Holds(a, l)
  <1>1. \A g, lits : Follows(g, lits) <=> \A a \in Models(g) : Satisfies(a, lits)
    BY DEF Follows, Models
  <1>2. \A g, lits : Follows(g, lits) <=> \A a \in Models(g) : \E l \in lits : Holds(a, l)
    BY <1>1, HoldsFacts
  <1>3. \A g, h : g \subseteq h => Models(h) \subseteq Models(g)
    BY DEF Models
  <1>4. \A g : \A a \in Models(g), l \in Literals : Holds(a, -l) <=> ~Holds(a, l)
    <2>1. \A g : Models(g) \subseteq [Vars -> BOOLEAN]
      BY DEF Models
    <2> QED BY <2>1, HoldsFacts
  <1> QED BY <1>2, <1>3, <1>4

(* The literals of a trail, of the reason of one of them.                  *)
LEMMA TrailTypes ==
  ASSUME TypeOK
  PROVE  /\ trail \in Seq(Entries) /\ limits \in Seq(Nat)
         /\ DOMAIN trail = 1 .. Len(trail) /\ Len(trail) \in Nat
         /\ DOMAIN limits = 1 .. Len(limits) /\ Len(limits) \in Nat /\ level = Len(limits)
         /\ \A i \in DOMAIN trail : trail[i].lit \in Literals /\ trail[i].reason \in Nat
         /\ \A c \in DOMAIN clauses : clauses[c] \in Seq(Literals) /\ ToSet(clauses[c]) \subseteq Literals
  <1>1. \A e \in Entries : e.lit \in Literals /\ e.reason \in Nat
    BY DEF Entries
  <1>2. \A c \in DOMAIN clauses : clauses[c] \in Seq(Literals)
    BY DEF TypeOK
  <1> QED BY <1>1, <1>2, ToSetFacts DEF TypeOK, level

-----------------------------------------------------------------------------
(* The core of a failed assumption.                                        *)

(* The variables reached are closed under reasons.                         *)
LEMMA ReachedFacts ==
  ASSUME Inv, NEW u \in Vars
  PROVE  /\ u \in ReachedFrom(u)
         /\ ReachedFrom(u) \subseteq Vars
         /\ \A v \in ReachedFrom(u) : \A w \in Behind(v) : w \in Vars => w \in ReachedFrom(u)
  BY DEF ReachedFrom

(* No model of the given clauses satisfies the core of a failed            *)
(* assumption: the first literal of the trail, at the root or reached from *)
(* the assumption, that fails in such a model would follow from earlier    *)
(* ones.                                                                   *)
LEMMA CoreHolds ==
  ASSUME Inv, pc = "decide", ui < Len(assumed), False(assumed[ui + 1]),
         NEW a \in Models(given),
         \A l \in AssumptionCore(assumed[ui + 1], SubSeq(assumed, 1, ui + 1)) : Holds(a, l)
  PROVE  FALSE
  <1> DEFINE f == assumed[ui + 1]
             R == ReachedFrom(var(f))
             sofar == SubSeq(assumed, 1, ui + 1)
             C == AssumptionCore(f, sofar)
             Bad == {i \in DOMAIN trail : /\ AtRoot(i, limits) \/ var(trail[i].lit) \in R
                                          /\ ~Holds(a, trail[i].lit)}
  <1>0. /\ ui \in Nat /\ assumed \in Seq(Literals) /\ ui + 1 \in 1 .. Len(assumed)
        /\ f \in Literals /\ var(f) \in Vars
        /\ TypeOK /\ TrailOK(trail) /\ LimitsOK(trail, limits)
    <2>1. ui \in Nat /\ assumed \in Seq(Literals) /\ TypeOK /\ TrailOK(trail) /\ LimitsOK(trail, limits)
      BY DEF Inv, TypeOK
    <2>2. ui + 1 \in 1 .. Len(assumed) /\ f \in Literals
      BY <2>1
    <2> QED BY <2>1, <2>2, LiteralFacts
  <1>1. /\ sofar \in Seq(Literals) /\ ToSet(sofar) = {assumed[j] : j \in 1 .. ui + 1}
    <2>1. ui + 1 \in 0 .. Len(assumed)
      BY <1>0
    <2>2. /\ sofar \in Seq(Literals) /\ DOMAIN sofar = 1 .. ui + 1
          /\ \A i \in 1 .. ui + 1 : sofar[i] = assumed[i]
      BY <1>0, <2>1, PrefixFacts
    <2> HIDE DEF sofar
    <2> QED BY <2>2 DEF ToSet
  <1>2. f \in C
    <2>1. f \in ToSet(sofar)
      BY <1>0, <1>1
    <2> QED BY <2>1 DEF AssumptionCore
  <1>3. \A l \in ToSet(sofar) : var(l) \in R /\ Reason(var(l)) = 0 => l \in C
    BY DEF AssumptionCore
  <1>4. var(f) \in R /\ \A v \in R : \A w \in Behind(v) : w \in Vars => w \in R
    BY <1>0, ReachedFacts
  <1>5. \A l \in C : Holds(a, l)
    OBVIOUS
  <1> HIDE DEF f, R, sofar, C
  <1>6. ASSUME NEW i \in Bad, \A j \in Bad : i <= j PROVE FALSE
    <2> DEFINE l == trail[i].lit
               c == trail[i].reason
    <2>0. i \in DOMAIN trail /\ ~Holds(a, l) /\ (AtRoot(i, limits) \/ var(l) \in R)
      OBVIOUS
    <2>1. l \in Literals /\ i \in Nat
      BY <2>0, <1>0, TrailTypes
    <2>2. ~AtRoot(i, limits)
      <3> SUFFICES ASSUME AtRoot(i, limits) PROVE FALSE
        OBVIOUS
      <3>1. Follows(given, {l})
        BY <2>0 DEF Inv, SoundOK
      <3> QED BY <3>1, <2>0, FollowsFacts
    <2>3. var(l) \in R /\ Reason(var(l)) = c
      BY <2>0, <2>2, <1>0, TrailTypes, PlaceFacts
    <2>4. CASE c = 0
      <3>1. PICK k \in DOMAIN limits : i = limits[k] + 1
        BY <2>0, <2>2, <2>4 DEF Inv, DecisionsOK
      <3>2. PICK n \in 0 .. Len(assumed) :
               /\ \A j \in 1 .. n : TrueBy(assumed[j], limits[k], trail)
               /\ n = Len(assumed) \/ assumed[n + 1] = l
        BY <3>1 DEF Inv, AssumedOK
      <3>3. ~True(f)
        <4>1. -f \in Literals /\ f \in Literals /\ var(-f) = var(f) /\ -f # f
          BY <1>0, LiteralFacts
        <4>2. PICK x \in DOMAIN trail : trail[x].lit = -f
          BY DEF False, True, f
        <4>3. \A y \in DOMAIN trail : trail[y].lit = f => y = x
          BY <4>1, <4>2, <1>0 DEF TrailOK
        <4> QED BY <4>1, <4>2, <4>3 DEF True
      <3>4. ~(ui + 1 \in 1 .. n)
        BY <3>2, <3>3 DEF TrueBy, True, f
      <3>5. n + 1 \in 1 .. ui + 1 /\ n # Len(assumed)
        BY <3>4, <1>0
      <3>6. l \in ToSet(sofar)
        BY <3>2, <3>5, <1>1
      <3>7. l \in C
        BY <3>6, <2>3, <2>4, <1>3
      <3> QED BY <3>7, <2>0, <1>5
    <2>5. CASE c # 0
      <3>1. /\ c \in DOMAIN clauses
            /\ l \in ToSet(clauses[c])
            /\ \A m \in ToSet(clauses[c]) : m # l => TrueBy(-m, i - 1, trail)
        BY <2>0, <2>5 DEF Inv, ReasonsOK
      <3>2. Follows(given, ToSet(clauses[c]))
        BY <3>1 DEF Inv, SoundOK
      <3>3. PICK m \in ToSet(clauses[c]) : Holds(a, m)
        BY <3>2, FollowsFacts
      <3>4. m # l /\ m \in Literals
        BY <3>1, <3>3, <2>0, <1>0, TrailTypes
      <3>5. PICK j \in DOMAIN trail : j <= i - 1 /\ trail[j].lit = -m
        BY <3>1, <3>4 DEF TrueBy
      <3>6. j \notin Bad
        <4>1. ~(i <= j)
          BY <3>5, <2>1, <1>0, TrailTypes
        <4> QED BY <4>1, <1>6
      <3>7. ~Holds(a, -m)
        BY <3>3, <3>4, FollowsFacts
      <3>8. ~AtRoot(j, limits) /\ var(m) \notin R
        <4>1. var(-m) = var(m)
          BY <3>4, LiteralFacts
        <4> QED BY <3>5, <3>6, <3>7, <4>1
      <3>9. LevelOf(var(m)) \in Nat /\ LevelOf(var(m)) # 0
        <4>1. var(trail[j].lit) = var(m)
          BY <3>4, <3>5, LiteralFacts
        <4>2. /\ LevelOf(var(trail[j].lit)) \in 0 .. level
              /\ LevelOf(var(trail[j].lit)) = 0 <=> AtRoot(j, limits)
          BY <1>0, TrailTypes, LevelFacts
        <4>3. level \in Nat
          BY <1>0, TrailTypes
        <4> QED BY <4>1, <4>2, <4>3, <3>8
      <3>10. var(m) \in Behind(var(l))
        <4>1. m \in AboveRoot(clauses[c])
          BY <3>3, <3>9 DEF AboveRoot
        <4> QED BY <4>1, <2>3, <2>5 DEF Behind
      <3>11. var(m) \in Vars
        BY <3>4, LiteralFacts
      <3> QED BY <3>8, <3>10, <3>11, <2>3, <1>4
    <2> QED BY <2>4, <2>5
  <1>7. Bad = {}
    <2>1. Bad \in SUBSET Nat
      BY <1>0, TrailTypes
    <2> HIDE DEF Bad
    <2>2. ASSUME Bad # {} PROVE FALSE
      BY <2>1, <2>2, <1>6, LeastNatural
    <2> QED BY <2>2
  <1>8. PICK i \in DOMAIN trail : trail[i].lit = -f
    BY DEF False, True, f
  <1>9. Holds(a, -f)
    <2>1. var(-f) = var(f)
      BY <1>0, LiteralFacts
    <2> QED BY <2>1, <1>4, <1>7, <1>8
  <1> QED BY <1>0, <1>2, <1>5, <1>9, FollowsFacts

(* An assumption found false gives a refusal with a genuine core.          *)
LEMMA AssumptionFailsKeeps ==
  ASSUME Inv, AssumptionFails
  PROVE  Inv'
  <1> USE DEF database, Answer, Honored
  <1> DEFINE C == AssumptionCore(assumed[ui + 1], SubSeq(assumed, 1, ui + 1))
  <1>0. /\ answer = "NONE" /\ core = {} /\ ~empty /\ pc = "decide"
        /\ ui \in Nat /\ assumed \in Seq(Literals) /\ ui < Len(assumed)
    BY DEF Inv, AnswerOK, AssumptionFails, TypeOK
  <1>1. /\ UNCHANGED <<clauses, trail, limits, given, empty, assumed, watches, toVisit, qhead, learnt, calls>>
        /\ answer' = "UNSAT" /\ pc' = "idle" /\ core' = C /\ ui' = ui + 1
    BY DEF AssumptionFails
  <1>2. C \subseteq ToSet(assumed) /\ C \subseteq Literals
    <2> DEFINE sofar == SubSeq(assumed, 1, ui + 1)
    <2>1. ui + 1 \in 0 .. Len(assumed)
      BY <1>0
    <2>2. /\ DOMAIN sofar = 1 .. ui + 1 /\ \A i \in 1 .. ui + 1 : sofar[i] = assumed[i]
      BY <1>0, <2>1, PrefixFacts
    <2>3. C \subseteq ToSet(sofar)
      BY DEF AssumptionCore
    <2> HIDE DEF sofar, C
    <2>4. \A i \in 1 .. ui + 1 : i \in DOMAIN assumed
      BY <1>0
    <2>5. ToSet(sofar) \subseteq ToSet(assumed)
      BY <2>2, <2>4 DEF ToSet
    <2>6. ToSet(assumed) \subseteq Literals
      BY <1>0, ToSetFacts
    <2> QED BY <2>3, <2>5, <2>6
  <1>3. UnsatRight'
    <2>1. ASSUME NEW a \in [Vars -> BOOLEAN], \A c \in given : Satisfies(a, c), SatisfiesAll(a, C)
          PROVE  FALSE
      <3>1. a \in Models(given)
        BY <2>1 DEF Models
      <3>2. \A l \in C : Holds(a, l)
        BY <2>1, HoldsFacts
      <3> QED BY <3>1, <3>2, <1>0, CoreHolds DEF AssumptionFails
    <2> HIDE DEF C
    <2> QED BY <2>1, <1>1, <1>2 DEF UnsatRight
  <1> HIDE DEF C
  <1>4. TypeOK'
    <2>1. ui' \in Nat /\ core' \in SUBSET Literals
      BY <1>0, <1>1, <1>2
    <2> QED BY <2>1, <1>1 DEF Inv, TypeOK
  <1>5. QueueOK'
    BY <1>0, <1>1 DEF Inv, QueueOK
  <1>6. WatchesOK'
    BY <1>1, WatchesFrame DEF Inv
  <1>7. GuardsOK' /\ LearntOK' /\ AssumedOK'
    BY <1>1 DEF GuardsOK, LearntOK, AssumedOK
  <1>8. AnswerOK'
    BY <1>1, <1>3 DEF AnswerOK, SatRight
  <1> QED BY <1>1, <1>4, <1>5, <1>6, <1>7, <1>8, Frame DEF Inv

-----------------------------------------------------------------------------
(* Steps that undo levels, assign, or touch clauses.                       *)

(* Assignment e may follow the trail tr with levels lim: it is new, and    *)
(* has a reason or is a fact of the root.                                  *)
Justified(e, tr, lim, cl, g) ==
  /\ e \in Entries
  /\ ~TrueBy(e.lit, Len(tr), tr) /\ ~TrueBy(-e.lit, Len(tr), tr)
  /\ e.reason # 0 =>
       /\ e.reason \in DOMAIN cl
       /\ e.lit \in ToSet(cl[e.reason])
       /\ \A l \in ToSet(cl[e.reason]) : l # e.lit => TrueBy(-l, Len(tr), tr)
  /\ e.reason = 0 => lim = <<>>
  /\ lim = <<>> => Follows(g, {e.lit})

(* The trail after a cut, with at most one more assignment.                *)
Reshaped(tr, lim, tr2, cl, g) ==
  \/ tr2 = tr
  \/ \E e \in Entries : Justified(e, tr, lim, cl, g) /\ tr2 = Append(tr, e)

(* The clauses, perhaps rearranged, and perhaps more of them.              *)
MoreClauses(cl, cl2, g) ==
  /\ \A c \in DOMAIN cl : c \in DOMAIN cl2 /\ ToSet(cl2[c]) = ToSet(cl[c])
  /\ \A c \in DOMAIN cl2 : c \notin DOMAIN cl => Follows(g, ToSet(cl2[c]))

(* A trail that was cut and perhaps extended is a trail.                   *)
LEMMA ReshapedFacts ==
  ASSUME NEW tr \in Seq(Entries), NEW lim \in Seq(Nat), TrailOK(tr), LimitsOK(tr, lim),
         NEW tr2, NEW cl, NEW g, Reshaped(tr, lim, tr2, cl, g)
  PROVE  /\ tr2 \in Seq(Entries) /\ TrailOK(tr2) /\ LimitsOK(tr2, lim)
         /\ DOMAIN tr = 1 .. Len(tr) /\ DOMAIN tr2 = 1 .. Len(tr2) /\ Len(tr) \in Nat /\ Len(tr2) \in Nat
         /\ Len(tr2) = Len(tr) \/ Len(tr2) = Len(tr) + 1
         /\ \A i \in DOMAIN tr : i \in DOMAIN tr2 /\ tr2[i] = tr[i]
         /\ \A i \in DOMAIN tr2 : i \notin DOMAIN tr =>
              i = Len(tr) + 1 /\ Justified(tr2[i], tr, lim, cl, g) /\ (AtRoot(i, lim) => lim = <<>>)
  <1>1. CASE tr2 = tr
    BY <1>1
  <1>2. CASE \E e \in Entries : Justified(e, tr, lim, cl, g) /\ tr2 = Append(tr, e)
    <2>1. PICK e \in Entries : Justified(e, tr, lim, cl, g) /\ tr2 = Append(tr, e)
      BY <1>2
    <2>2. /\ tr2 \in Seq(Entries) /\ Len(tr2) = Len(tr) + 1 /\ DOMAIN tr2 = 1 .. Len(tr) + 1
          /\ tr2[Len(tr) + 1] = e /\ \A i \in 1 .. Len(tr) : tr2[i] = tr[i]
      BY <2>1, AppendFacts
    <2>3. TrailOK(tr2) /\ LimitsOK(tr2, lim) /\ (AtRoot(Len(tr) + 1, lim) => lim = <<>>)
      BY <2>1, PushFacts DEF Justified
    <2>4. DOMAIN tr = 1 .. Len(tr) /\ Len(tr) \in Nat
      OBVIOUS
    <2>5. \A i \in DOMAIN tr2 : i \notin DOMAIN tr => i = Len(tr) + 1
      BY <2>2, <2>4
    <2>6. \A i \in DOMAIN tr : i \in DOMAIN tr2 /\ tr2[i] = tr[i]
      BY <2>2, <2>4
    <2>7. Len(tr2) \in Nat /\ DOMAIN tr2 = 1 .. Len(tr2)
      BY <2>2, <2>4
    <2> HIDE DEF Justified
    <2> QED BY <2>1, <2>2, <2>3, <2>4, <2>5, <2>6, <2>7
  <1> QED BY <1>1, <1>2 DEF Reshaped

(* A step that cuts the trail, perhaps assigns one literal and perhaps     *)
(* adds a clause keeps trail, reasons, decisions and what follows from the *)
(* given clauses.                                                          *)
LEMMA Reshape ==
  ASSUME Inv, NEW tr, NEW lim, Cut(trail, limits, tr, lim), limits' = lim,
         Reshaped(tr, lim, trail', clauses', given'),
         MoreClauses(clauses, clauses', given'),
         given \subseteq given', empty => empty', empty' => Follows(given', {}),
         \A g \in given' : g \notin given =>
           \/ empty'
           \/ \E l \in g : -l \in g
           \/ \E c \in DOMAIN clauses' : ToSet(clauses'[c]) = g
           \/ \E i \in DOMAIN trail' : AtRoot(i, limits') /\ g = {trail'[i].lit}
  PROVE  /\ trail' \in Seq(Entries) /\ limits' \in Seq(Nat)
         /\ TrailOK(trail)' /\ LimitsOK(trail, limits)'
         /\ ReasonsOK' /\ DecisionsOK' /\ GivenOK' /\ SoundOK'
  <1> DEFINE N == Len(tr)
  <1>0. /\ TypeOK /\ TrailOK(trail) /\ LimitsOK(trail, limits)
        /\ trail \in Seq(Entries) /\ limits \in Seq(Nat)
        /\ tr \in Seq(Entries) /\ lim \in Seq(Nat)
    BY DEF Inv, TypeOK, Cut
  <1>1. /\ LimitsOK(tr, lim) /\ TrailOK(tr)
        /\ \A i \in DOMAIN trail : AtRoot(i, limits) => i \in DOMAIN tr /\ AtRoot(i, lim)
        /\ \A i \in DOMAIN tr : i \in DOMAIN trail /\ tr[i] = trail[i] /\ (AtRoot(i, lim) => AtRoot(i, limits))
        /\ \A k \in DOMAIN lim : k \in DOMAIN limits /\ lim[k] = limits[k] /\ limits[k] < Len(tr)
        /\ \A i \in DOMAIN tr, k \in DOMAIN limits : k \notin DOMAIN lim => i <= limits[k]
        /\ \A l, n : TrueBy(l, n, trail) /\ n \in Nat /\ n <= Len(tr) => TrueBy(l, n, tr)
    BY <1>0, CutFacts
  <1>2. /\ trail' \in Seq(Entries) /\ TrailOK(trail') /\ LimitsOK(trail', lim)
        /\ DOMAIN tr = 1 .. N /\ DOMAIN trail' = 1 .. Len(trail') /\ N \in Nat /\ Len(trail') \in Nat
        /\ Len(trail') = N \/ Len(trail') = N + 1
        /\ \A i \in DOMAIN tr : i \in DOMAIN trail' /\ trail'[i] = tr[i]
        /\ \A i \in DOMAIN trail' : i \notin DOMAIN tr =>
             i = N + 1 /\ Justified(trail'[i], tr, lim, clauses', given') /\ (AtRoot(i, lim) => lim = <<>>)
    BY <1>0, <1>1, ReshapedFacts
  <1> HIDE DEF N
  <1>11. DOMAIN tr = 1 .. N /\ N \in Nat
    BY <1>2
  <1>3. \A l, n : TrueBy(l, n, tr) => TrueBy(l, n, trail')
    BY <1>2 DEF TrueBy
  <1>4. \A c \in DOMAIN clauses : c \in DOMAIN clauses' /\ ToSet(clauses'[c]) = ToSet(clauses[c])
    BY DEF MoreClauses
  <1>5. ReasonsOK'
    <2> SUFFICES ASSUME NEW i \in DOMAIN trail', trail'[i].reason # 0
                 PROVE  /\ trail'[i].reason \in DOMAIN clauses'
                        /\ trail'[i].lit \in ToSet(clauses'[trail'[i].reason])
                        /\ \A x \in ToSet(clauses'[trail'[i].reason]) : x # trail'[i].lit => TrueBy(-x, i - 1, trail')
      BY DEF ReasonsOK
    <2>1. CASE i \in DOMAIN tr
      <3>0. i \in DOMAIN trail /\ trail'[i] = trail[i]
        BY <2>1, <1>1, <1>2, Zenon
      <3>4. i - 1 \in Nat /\ i - 1 <= N
        BY <2>1, <1>11
      <3>1. i \in DOMAIN trail /\ trail'[i] = trail[i] /\ i - 1 \in Nat /\ i - 1 <= Len(tr)
        BY <3>0, <3>4 DEF N
      <3>2. /\ trail[i].reason \in DOMAIN clauses
            /\ trail[i].lit \in ToSet(clauses[trail[i].reason])
            /\ \A x \in ToSet(clauses[trail[i].reason]) : x # trail[i].lit => TrueBy(-x, i - 1, trail)
        BY <3>1 DEF Inv, ReasonsOK
      <3>3. \A x : TrueBy(x, i - 1, trail) => TrueBy(x, i - 1, trail')
        BY <3>1, <1>1, <1>3
      <3> QED BY <3>1, <3>2, <3>3, <1>4
    <2>2. CASE i \notin DOMAIN tr
      <3>0. i = N + 1 /\ Justified(trail'[i], tr, lim, clauses', given')
        BY <2>2, <1>2, Zenon
      <3>1. i = N + 1 /\ Justified(trail'[i], tr, lim, clauses', given') /\ i - 1 = N
        BY <3>0, <1>11 DEF Justified
      <3>2. \A x : TrueBy(x, N, tr) => TrueBy(x, i - 1, trail')
        BY <3>1, <1>3
      <3> QED BY <3>1, <3>2 DEF Justified, N
    <2> QED BY <2>1, <2>2
  <1>6. DecisionsOK'
    <2> SUFFICES ASSUME NEW i \in DOMAIN trail', trail'[i].reason = 0
                 PROVE  AtRoot(i, lim) \/ \E k \in DOMAIN lim : i = lim[k] + 1
      BY DEF DecisionsOK
    <2>1. CASE i \in DOMAIN tr
      <3>0. i \in DOMAIN trail /\ trail'[i] = trail[i]
        BY <2>1, <1>1, <1>2, Zenon
      <3>4. i \in Nat
        BY <2>1, <1>11
      <3>1. i \in DOMAIN trail /\ trail'[i] = trail[i] /\ i \in Nat
        BY <3>0, <3>4
      <3>2. CASE AtRoot(i, limits)
        BY <3>1, <3>2, <1>1
      <3>3. CASE \E k \in DOMAIN limits : i = limits[k] + 1
        <4>1. PICK k \in DOMAIN limits : i = limits[k] + 1
          BY <3>3
        <4>2. limits[k] \in Nat
          BY <1>0
        <4>3. k \in DOMAIN lim
          BY <4>1, <4>2, <2>1, <1>1
        <4> QED BY <4>1, <4>3, <1>1
      <3> QED BY <3>1, <3>2, <3>3 DEF Inv, DecisionsOK
    <2>2. CASE i \notin DOMAIN tr
      <3>1. Justified(trail'[i], tr, lim, clauses', given')
        BY <2>2, <1>2, Zenon
      <3>2. lim = <<>>
        BY <3>1 DEF Justified
      <3> QED BY <3>2 DEF AtRoot
    <2> QED BY <2>1, <2>2
  <1>7. \A lits : Follows(given, lits) => Follows(given', lits)
    BY FollowsFacts
  <1>8. SoundOK'
    <2>1. ASSUME NEW c \in DOMAIN clauses' PROVE Follows(given', ToSet(clauses'[c]))
      <3>1. CASE c \in DOMAIN clauses
        BY <3>1, <1>4, <1>7 DEF Inv, SoundOK
      <3>2. CASE c \notin DOMAIN clauses
        BY <3>2 DEF MoreClauses
      <3> QED BY <3>1, <3>2
    <2>2. ASSUME NEW i \in DOMAIN trail', AtRoot(i, lim) PROVE Follows(given', {trail'[i].lit})
      <3>1. CASE i \in DOMAIN tr
        BY <3>1, <2>2, <1>1, <1>2, <1>7 DEF Inv, SoundOK
      <3>2. CASE i \notin DOMAIN tr
        BY <3>2, <2>2, <1>2 DEF Justified
      <3> QED BY <3>1, <3>2
    <2> QED BY <2>1, <2>2 DEF SoundOK
  <1>9. GivenOK'
    <2> SUFFICES ASSUME NEW g \in given'
                 PROVE  \/ empty'
                        \/ \E l \in g : -l \in g
                        \/ \E c \in DOMAIN clauses' : ToSet(clauses'[c]) = g
                        \/ \E i \in DOMAIN trail' : AtRoot(i, limits') /\ g = {trail'[i].lit}
      BY DEF GivenOK
    <2>1. CASE g \in given
      <3>1. ASSUME NEW i \in DOMAIN trail, AtRoot(i, limits)
            PROVE  i \in DOMAIN trail' /\ AtRoot(i, limits') /\ trail'[i] = trail[i]
        BY <3>1, <1>1, <1>2
      <3> QED BY <2>1, <3>1, <1>4 DEF Inv, GivenOK
    <2>2. CASE g \notin given
      BY <2>2
    <2> QED BY <2>1, <2>2
  <1> QED BY <1>0, <1>2, <1>5, <1>6, <1>8, <1>9

(* The assumptions that opened the levels that stay.                       *)
LevelsAssumed(tr, lim, as) ==
  \A k \in DOMAIN lim : \E n \in 0 .. Len(as) :
    /\ \A j \in 1 .. n : TrueBy(as[j], lim[k], tr)
    /\ n = Len(as) \/ as[n + 1] = tr[lim[k] + 1].lit

(* A cut leaves the levels that assumptions opened as they were.           *)
LEMMA LevelsKept ==
  ASSUME Inv, pc # "idle", NEW tr, NEW lim, NEW tr2, NEW cl, NEW g,
         Cut(trail, limits, tr, lim), Reshaped(tr, lim, tr2, cl, g)
  PROVE  LevelsAssumed(tr2, lim, assumed)
  <1>0. /\ TypeOK /\ TrailOK(trail) /\ LimitsOK(trail, limits)
        /\ trail \in Seq(Entries) /\ limits \in Seq(Nat)
        /\ tr \in Seq(Entries) /\ lim \in Seq(Nat)
    BY DEF Inv, TypeOK, Cut
  <1>1. /\ LimitsOK(tr, lim) /\ TrailOK(tr)
        /\ \A i \in DOMAIN tr : i \in DOMAIN trail /\ tr[i] = trail[i]
        /\ \A k \in DOMAIN lim : k \in DOMAIN limits /\ lim[k] = limits[k] /\ limits[k] < Len(tr)
        /\ \A l, n : TrueBy(l, n, trail) /\ n \in Nat /\ n <= Len(tr) => TrueBy(l, n, tr)
    BY <1>0, CutFacts
  <1>2. /\ DOMAIN tr = 1 .. Len(tr) /\ Len(tr) \in Nat
        /\ \A i \in DOMAIN tr : i \in DOMAIN tr2 /\ tr2[i] = tr[i]
    BY <1>0, <1>1, ReshapedFacts
  <1>3. \A l, n : TrueBy(l, n, tr) => TrueBy(l, n, tr2)
    BY <1>2 DEF TrueBy
  <1> SUFFICES ASSUME NEW k \in DOMAIN lim
               PROVE  \E n \in 0 .. Len(assumed) :
                        /\ \A j \in 1 .. n : TrueBy(assumed[j], lim[k], tr2)
                        /\ n = Len(assumed) \/ assumed[n + 1] = tr2[lim[k] + 1].lit
    BY DEF LevelsAssumed
  <1>4. k \in DOMAIN limits /\ lim[k] = limits[k] /\ limits[k] \in Nat /\ limits[k] < Len(tr)
    BY <1>0, <1>1
  <1>5. PICK n \in 0 .. Len(assumed) :
           /\ \A j \in 1 .. n : TrueBy(assumed[j], limits[k], trail)
           /\ n = Len(assumed) \/ assumed[n + 1] = trail[limits[k] + 1].lit
    BY <1>4 DEF Inv, AssumedOK
  <1>6. \A x : TrueBy(x, limits[k], trail) => TrueBy(x, lim[k], tr2)
    BY <1>1, <1>3, <1>4
  <1>7. tr2[lim[k] + 1] = trail[limits[k] + 1]
    <2>1. limits[k] + 1 \in DOMAIN tr
      BY <1>2, <1>4
    <2> QED BY <2>1, <1>1, <1>2, <1>4
  <1> QED BY <1>5, <1>6, <1>7

(* Nothing need be cut.                                                    *)
LEMMA CutNothing ==
  ASSUME TypeOK
  PROVE  Cut(trail, limits, trail, limits)
  BY DEF Cut, TypeOK

-----------------------------------------------------------------------------
(* Propagation.                                                            *)

(* The two watched literals of a clause.                                   *)
LEMMA WatchedFacts ==
  ASSUME TypeOK, ClausesOK(clauses), NEW c \in DOMAIN clauses
  PROVE  /\ clauses[c] \in Seq(Literals) /\ Len(clauses[c]) >= 2 /\ Len(clauses[c]) \in Nat
         /\ DOMAIN clauses[c] = 1 .. Len(clauses[c]) /\ NoRepetition(clauses[c])
         /\ 1 \in DOMAIN clauses[c] /\ 2 \in DOMAIN clauses[c]
         /\ clauses[c][1] \in Literals /\ clauses[c][2] \in Literals /\ clauses[c][1] # clauses[c][2]
         /\ clauses[c][1] \in ToSet(clauses[c]) /\ clauses[c][2] \in ToSet(clauses[c])
  <1>1. /\ clauses[c] \in Seq(Literals) /\ Len(clauses[c]) >= 2 /\ Len(clauses[c]) \in Nat
        /\ NoRepetition(clauses[c])
    BY DEF TypeOK, ClausesOK
  <1>2. DOMAIN clauses[c] = 1 .. Len(clauses[c]) /\ 1 \in DOMAIN clauses[c] /\ 2 \in DOMAIN clauses[c]
    BY <1>1
  <1>3. clauses[c][1] # clauses[c][2]
    <2>1. clauses[c][1] = clauses[c][2] => 1 = 2
      BY <1>1, <1>2, Zenon DEF NoRepetition
    <2> QED BY <2>1
  <1> QED BY <1>1, <1>2, <1>3 DEF ToSet

(* The watchers of the next literal are taken off its list to be visited.  *)
LEMMA TakeLiteralKeeps ==
  ASSUME Inv, TakeLiteral
  PROVE  Inv'
  <1> USE DEF query
  <1> DEFINE p == trail[qhead + 1].lit
  <1>0. /\ pc = "propagate" /\ pc' = "propagate" /\ toVisit = <<>> /\ qhead < Len(trail) /\ qhead' = qhead + 1
        /\ toVisit' = watches[p] /\ watches' = [watches EXCEPT ![p] = <<>>]
        /\ UNCHANGED <<calls, clauses, trail, limits, learnt, empty, given, assumed, ui, answer, core>>
    BY DEF TakeLiteral
  <1>1. /\ TypeOK /\ ClausesOK(clauses) /\ qhead \in Nat /\ qhead + 1 \in DOMAIN trail /\ p \in Literals
        /\ ToSet(toVisit) = {} /\ ToSet(<<>>) = {}
    <2>1. TypeOK /\ ClausesOK(clauses) /\ qhead \in Nat /\ qhead + 1 \in DOMAIN trail
      BY <1>0, TrailTypes DEF Inv, TypeOK
    <2>2. p \in Literals
      BY <2>1, TrailTypes
    <2> QED BY <2>1, <2>2, <1>0 DEF ToSet
  <1>2. TypeOK'
    BY <1>0, <1>1 DEF TypeOK
  <1>3. QueueOK'
    <2>1. qhead + 1 <= Len(trail) /\ qhead + 1 > 0 /\ qhead' \in Nat
      BY <1>0, <1>1, TrailTypes
    <2>2. \A k \in DOMAIN limits : limits[k] <= qhead /\ limits[k] \in Nat
      BY <1>0, <1>1 DEF Inv, QueueOK, TypeOK
    <2>3. \A k \in DOMAIN limits : limits[k] <= qhead + 1 /\ limits[k] < qhead + 1
      BY <2>2, <1>1
    <2> QED BY <2>1, <2>3, <1>0 DEF QueueOK
  <1> DEFINE w == watches
  <1>4. /\ \A q \in Literals : watches'[q] = IF q = p THEN <<>> ELSE watches[q]
        /\ trail'[qhead'].lit = p
    BY <1>0, <1>1 DEF TypeOK
  <1> HIDE DEF p
  <1>5. /\ \A q \in Literals : NoRepetition(watches[q]) /\ ToSet(watches[q]) \subseteq DOMAIN clauses
        /\ \A c \in DOMAIN clauses, q \in Literals :
             c \in ToSet(watches[q]) <=> q = -clauses[c][1] \/ q = -clauses[c][2]
    BY <1>1 DEF Inv, WatchesOK, Listed
  <1>6. WatchesOK'
    <2>1. NoRepetition(toVisit') /\ ToSet(toVisit') \subseteq DOMAIN clauses'
      BY <1>0, <1>1, <1>5
    <2>2. ASSUME NEW q \in Literals PROVE NoRepetition(watches'[q]) /\ ToSet(watches'[q]) \subseteq DOMAIN clauses'
      <3>1. NoRepetition(<<>>)
        BY DEF NoRepetition
      <3> QED BY <3>1, <1>0, <1>1, <1>4, <1>5
    <2>3. ToSet(toVisit') \cap ToSet(watches'[trail'[qhead'].lit]) = {}
      BY <1>1, <1>4
    <2>4. ASSUME NEW c \in DOMAIN clauses', NEW q \in Literals
          PROVE  Listed(c, q)' <=> q = -clauses'[c][1] \/ q = -clauses'[c][2]
      <3>1. Listed(c, q)' <=> c \in ToSet(watches[q])
        BY <1>0, <1>1, <1>4 DEF Listed
      <3> QED BY <3>1, <1>0, <1>5
    <2> QED BY <2>1, <2>2, <2>3, <2>4 DEF WatchesOK
  <1>7. GuardsOK'
    <2>1. Visited = qhead /\ Visited' = qhead + 1
      BY <1>0 DEF Visited
    <2>2. ASSUME NEW c \in DOMAIN clauses, NEW x \in {clauses[c][1], clauses[c][2]}, NEW o, Guarded(c, x, o)
          PROVE  Guarded(c, x, o)'
      <3> SUFFICES ASSUME NEW i \in DOMAIN trail, i <= qhead + 1, trail[i].lit = -x,
                          ~(i = qhead + 1 /\ c \in ToSet(watches[p]))
                   PROVE  \E j \in DOMAIN trail : trail[j].lit = o /\ \A k \in DOMAIN limits : i <= limits[k] => j <= limits[k]
        BY <1>0, <2>1 DEF Guarded
      <3>1. i \in Nat
        BY <1>1, TrailTypes
      <3>2. CASE i <= qhead
        BY <3>2, <2>1, <2>2, <1>1 DEF Guarded
      <3>3. CASE i = qhead + 1
        <4>1. p = -clauses[c][1] \/ p = -clauses[c][2]
          BY <3>3 DEF p
        <4> QED BY <3>3, <4>1, <1>1, <1>5
      <3> QED BY <3>1, <3>2, <3>3, <1>1
    <2> QED BY <2>2, <1>0 DEF Inv, GuardsOK
  <1>8. LearntOK'
    BY <1>0 DEF LearntOK
  <1>9. AssumedOK'
    BY <1>0 DEF Inv, AssumedOK, True, TrueBy
  <1>10. AnswerOK'
    <2>1. answer = "NONE" /\ core = {} /\ ~empty
      BY <1>0 DEF Inv, AnswerOK, TypeOK
    <2> QED BY <2>1, <1>0, AnswerFrame
  <1> QED BY <1>0, <1>2, <1>3, <1>6, <1>7, <1>8, <1>9, <1>10, Frame DEF Inv

(* A literal false at the root holds in no model of the clauses.           *)
LEMMA FalseAtRoot ==
  ASSUME Inv, NEW a \in Models(given), NEW l \in Literals, NEW i \in DOMAIN trail,
         trail[i].lit = -l, AtRoot(i, limits)
  PROVE  ~Holds(a, l)
  <1>1. Follows(given, {-l})
    BY DEF Inv, SoundOK
  <1>2. Holds(a, -l)
    BY <1>1, FollowsFacts
  <1> QED BY <1>2, FollowsFacts

(* Both literals of a variable are never true.                             *)
LEMMA NotBoth ==
  ASSUME TypeOK, TrailOK(trail), NEW l \in Literals, True(l)
  PROVE  ~True(-l)
  <1> SUFFICES ASSUME True(-l) PROVE FALSE
    OBVIOUS
  <1>1. PICK i \in DOMAIN trail : trail[i].lit = l
    BY DEF True
  <1>2. PICK j \in DOMAIN trail : trail[j].lit = -l
    BY DEF True
  <1>3. var(-l) = var(l) /\ -l # l
    BY LiteralFacts
  <1> QED BY <1>1, <1>2, <1>3 DEF TrailOK

(* An assignment more does not undo an assumption.                         *)
LEMMA AssumedKept ==
  ASSUME Inv, pc # "idle", UNCHANGED <<assumed, ui, limits>>,
         Reshaped(trail, limits, trail', clauses', given')
  PROVE  AssumedOK'
  <1>1. TypeOK /\ Cut(trail, limits, trail, limits)
    BY CutNothing DEF Inv
  <1>2. LevelsAssumed(trail', limits, assumed)
    BY <1>1, LevelsKept
  <1>3. \A i \in DOMAIN trail : i \in DOMAIN trail' /\ trail'[i] = trail[i]
    BY <1>1, TrailTypes, ReshapedFacts DEF Inv
  <1>4. \A l : True(l) => True(l)'
    BY <1>3 DEF True
  <1>5. ui <= Len(assumed) /\ \A i \in 1 .. ui : True(assumed[i])
    BY DEF Inv, AssumedOK
  <1>6. \A i \in 1 .. ui : True(assumed[i])'
    BY <1>4, <1>5
  <1> QED BY <1>2, <1>5, <1>6 DEF AssumedOK, LevelsAssumed

(* The clause visited, its literals arranged.                              *)
LEMMA ArrangedFacts ==
  ASSUME Inv, toVisit # <<>>, NEW p, p = trail[qhead].lit, NEW c, c = Head(toVisit)
  PROVE  /\ qhead \in DOMAIN trail /\ p \in Literals /\ c \in DOMAIN clauses /\ c # 0
         /\ c \notin ToSet(Tail(toVisit)) /\ c \notin ToSet(watches[p])
         /\ ToSet(toVisit) = ToSet(Tail(toVisit)) \cup {c}
         /\ Arranged(c, p) \in Seq(Literals)
         /\ Len(Arranged(c, p)) = Len(clauses[c])
         /\ ToSet(Arranged(c, p)) = ToSet(clauses[c])
         /\ NoRepetition(Arranged(c, p))
         /\ Arranged(c, p)[2] = -p /\ Arranged(c, p)[1] # -p
         /\ \/ Arranged(c, p)[1] = clauses[c][1] /\ Arranged(c, p)[2] = clauses[c][2]
            \/ Arranged(c, p)[1] = clauses[c][2] /\ Arranged(c, p)[2] = clauses[c][1]
  <1>1. /\ TypeOK /\ ClausesOK(clauses) /\ WatchesOK /\ QueueOK
        /\ qhead \in Nat /\ qhead > 0 /\ qhead <= Len(trail)
    BY DEF Inv, QueueOK, TypeOK
  <1>2. qhead \in DOMAIN trail
    BY <1>1, TrailTypes
  <1>3. p \in Literals
    BY <1>1, <1>2, TrailTypes
  <1>4. toVisit \in Seq(Nat)
    BY <1>1 DEF TypeOK
  <1>5. ToSet(toVisit) = ToSet(Tail(toVisit)) \cup {c} /\ c \notin ToSet(Tail(toVisit))
    <2>1. NoRepetition(toVisit)
      BY <1>1 DEF WatchesOK
    <2> QED BY <1>4, <2>1, TailFacts
  <1>6. c \in DOMAIN clauses /\ c \notin ToSet(watches[p])
    BY <1>1, <1>5 DEF WatchesOK
  <1>7. c # 0
    BY <1>1, <1>6 DEF TypeOK
  <1>8. p = -clauses[c][1] \/ p = -clauses[c][2]
    BY <1>1, <1>3, <1>5, <1>6 DEF WatchesOK, Listed
  <1> DEFINE cl == clauses[c]
  <1>9. /\ cl \in Seq(Literals) /\ Len(cl) >= 2 /\ Len(cl) \in Nat
        /\ NoRepetition(cl) /\ cl[1] \in Literals /\ cl[2] \in Literals /\ cl[1] # cl[2]
    BY <1>1, <1>6, WatchedFacts
  <1>10. -(-cl[1]) = cl[1] /\ -(-cl[2]) = cl[2]
    BY <1>9, LiteralFacts
  <1>11. CASE cl[1] = -p
    <2>1. Arranged(c, p) = [cl EXCEPT ![1] = cl[2], ![2] = cl[1]]
      BY <1>11 DEF Arranged
    <2> DEFINE t == [cl EXCEPT ![1] = cl[2], ![2] = cl[1]]
    <2> HIDE DEF cl
    <2>2. 1 \in 1 .. Len(cl) /\ 2 \in 1 .. Len(cl)
      BY <1>9
    <2>3. /\ t \in Seq(Literals) /\ Len(t) = Len(cl) /\ t[1] = cl[2] /\ t[2] = cl[1]
          /\ ToSet(t) = ToSet(cl) /\ NoRepetition(t)
      BY <1>9, <2>2, SwapFacts
    <2> HIDE DEF t
    <2>4. Arranged(c, p) = t
      BY <2>1 DEF t
    <2> QED BY <1>2, <1>3, <1>5, <1>6, <1>7, <1>9, <1>11, <2>3, <2>4 DEF cl
  <1>12. CASE cl[1] # -p
    <2>1. Arranged(c, p) = cl
      BY <1>12 DEF Arranged
    <2>2. cl[2] = -p
      BY <1>8, <1>10, <1>12
    <2> HIDE DEF cl
    <2> QED BY <1>2, <1>3, <1>5, <1>6, <1>7, <1>9, <1>12, <2>1, <2>2 DEF cl
  <1> QED BY <1>11, <1>12

(* Function f with y at x.                                                 *)
Put(f, x, y) == [f EXCEPT ![x] = y]

(* A clause with its literals in another order.                            *)
LEMMA RearrangedFacts ==
  ASSUME TypeOK, ClausesOK(clauses), NEW c \in DOMAIN clauses, NEW s \in Seq(Literals),
         Len(s) = Len(clauses[c]), ToSet(s) = ToSet(clauses[c]), NoRepetition(s),
         clauses' = Put(clauses, c, s), NEW g
  PROVE  /\ clauses' \in Seq(Seq(Literals)) /\ ClausesOK(clauses')
         /\ DOMAIN clauses' = DOMAIN clauses
         /\ MoreClauses(clauses, clauses', g)
         /\ clauses'[c] = s /\ \A d \in DOMAIN clauses : d # c => clauses'[d] = clauses[d]
  <1>1. clauses \in Seq(Seq(Literals))
    BY DEF TypeOK
  <1>2. /\ clauses' \in Seq(Seq(Literals)) /\ DOMAIN clauses' = DOMAIN clauses
        /\ clauses'[c] = s /\ \A d \in DOMAIN clauses : d # c => clauses'[d] = clauses[d]
    BY <1>1 DEF Put
  <1>3. ClausesOK(clauses')
    BY <1>2 DEF ClausesOK
  <1>4. MoreClauses(clauses, clauses', g)
    BY <1>2 DEF MoreClauses
  <1> QED BY <1>2, <1>3, <1>4

(* The clauses not visited keep their guards while the trail grows.        *)
LEMMA GuardsOthers ==
  ASSUME Inv, toVisit # <<>>, NEW c, c = Head(toVisit), NEW d, d # c,
         toVisit' = Tail(toVisit), UNCHANGED <<limits, qhead, pc>>,
         \A i \in DOMAIN trail : i \in DOMAIN trail' /\ trail'[i] = trail[i],
         \A i \in DOMAIN trail' : i \in Nat /\ i > 0,
         NEW w, NEW o, Guarded(d, w, o)
  PROVE  Guarded(d, w, o)'
  <1>1. /\ pc = "propagate" /\ Visited = qhead /\ Visited' = qhead
        /\ qhead <= Len(trail) /\ qhead \in Nat /\ DOMAIN trail = 1 .. Len(trail) /\ Len(trail) \in Nat
    BY DEF Inv, TypeOK, QueueOK, Visited
  <1>2. d \in ToSet(toVisit) <=> d \in ToSet(Tail(toVisit))
    BY TailFacts DEF Inv, TypeOK
  <1> SUFFICES ASSUME NEW i \in DOMAIN trail', i <= qhead, trail'[i].lit = -w,
                      ~(i = qhead /\ d \in ToSet(Tail(toVisit)))
               PROVE  \E j \in DOMAIN trail' : trail'[j].lit = o /\ \A k \in DOMAIN limits : i <= limits[k] => j <= limits[k]
    BY <1>1 DEF Guarded
  <1>3. i \in DOMAIN trail
    BY <1>1
  <1>4. trail[i].lit = -w
    BY <1>3
  <1>5. PICK j \in DOMAIN trail : trail[j].lit = o /\ \A k \in DOMAIN limits : i <= limits[k] => j <= limits[k]
    BY <1>1, <1>2, <1>3, <1>4 DEF Guarded
  <1> QED BY <1>5

(* The guards of a clause, in the next state.                              *)
LEMMA GuardsPrimed ==
  ASSUME NEW d, NEW w, NEW o, clauses'[d][1] = w, clauses'[d][2] = o,
         Guarded(d, w, o)', Guarded(d, o, w)'
  PROVE  (Guarded(d, clauses[d][1], clauses[d][2]) /\ Guarded(d, clauses[d][2], clauses[d][1]))'
  BY DEF Guarded

(* One more element of a sequence without repetitions.                     *)
LEMMA NewElement ==
  ASSUME NEW S, NEW s \in Seq(S), NEW e \in S, NoRepetition(s), e \notin ToSet(s)
  PROVE  /\ Append(s, e) \in Seq(S)
         /\ NoRepetition(Append(s, e))
         /\ ToSet(Append(s, e)) = ToSet(s) \cup {e}
  <1>1. ~Contains(s, e)
    BY ToSetFacts DEF Contains
  <1>2. Grown(s, e) = Append(s, e)
    BY <1>1 DEF Grown
  <1>3. /\ Grown(s, e) \in Seq(S)
        /\ NoRepetition(Grown(s, e))
        /\ ToSet(Grown(s, e)) = ToSet(s) \cup {e}
    BY GrownFacts
  <1> QED BY <1>2, <1>3, Zenon

(* Clauses are numbered from 1.                                            *)
LEMMA ClauseNumbers ==
  ASSUME TypeOK
  PROVE  DOMAIN clauses = 1 .. Len(clauses) /\ Len(clauses) \in Nat /\ DOMAIN clauses \subseteq Nat
  <1>1. DOMAIN clauses = 1 .. Len(clauses) /\ Len(clauses) \in Nat
    BY DEF TypeOK
  <1> QED BY <1>1

(* The literal forced by a clause whose other literals are false.          *)
LEMMA ForcedJustified ==
  ASSUME Inv, NEW c, c # 0, NEW s \in Seq(Literals), NEW l \in ToSet(s), Open(l),
         \A m \in ToSet(s) : m # l => False(m),
         Follows(given, ToSet(s)), NEW cl, c \in DOMAIN cl, c \in Nat, ToSet(cl[c]) = ToSet(s)
  PROVE  Justified(Entry(l, c), trail, limits, cl, given)
  <1> DEFINE e == Entry(l, c)
  <1>0. TypeOK /\ ToSet(s) \subseteq Literals
    BY ToSetFacts DEF Inv
  <1>1. e \in Entries /\ e.lit = l /\ e.reason = c
    BY <1>0 DEF Entry, Entries
  <1>2. \A m : TrueBy(m, Len(trail), trail) <=> True(m)
    BY <1>0, TrailTypes DEF TrueBy, True
  <1>3. ~TrueBy(l, Len(trail), trail) /\ ~TrueBy(-l, Len(trail), trail)
    BY <1>2 DEF Open, False
  <1>4. \A m \in ToSet(s) : m # l => TrueBy(-m, Len(trail), trail)
    BY <1>2 DEF False
  <1>5. ASSUME limits = <<>> PROVE Follows(given, {l})
    <2> SUFFICES ASSUME NEW a \in Models(given) PROVE Holds(a, l)
      BY FollowsFacts
    <2>1. PICK m \in ToSet(s) : Holds(a, m)
      BY FollowsFacts
    <2>2. ASSUME m # l PROVE FALSE
      <3>1. m \in Literals
        BY <1>0
      <3>2. PICK i \in DOMAIN trail : trail[i].lit = -m
        BY <2>2 DEF False, True
      <3>3. AtRoot(i, limits)
        BY <1>5 DEF AtRoot
      <3> QED BY <2>1, <3>1, <3>2, <3>3, FalseAtRoot
    <2> QED BY <2>1, <2>2
  <1> HIDE DEF e
  <1> QED BY <1>1, <1>3, <1>4, <1>5 DEF Justified, e

(* Where the clause visited stays watched by the same literals.            *)
LEMMA WatchesStay ==
  ASSUME Inv, toVisit # <<>>, NEW p, p = trail[qhead].lit, NEW c, c = Head(toVisit),
         clauses' = Put(clauses, c, Arranged(c, p)),
         NEW rest \in Seq(Nat), NEW kept \in Seq(Nat),
         ToSet(rest) \cup ToSet(kept) = ToSet(Tail(toVisit)), ToSet(rest) \cap ToSet(kept) = {},
         NoRepetition(rest), NoRepetition(kept),
         toVisit' = rest, watches' = Put(watches, p, Append(watches[p], c) \o kept),
         rest # <<>> => trail'[qhead'].lit = p
  PROVE  WatchesOK' /\ watches' \in [Literals -> Seq(Nat)]
  <1> USE DEF Put
  <1>1. /\ TypeOK /\ ClausesOK(clauses) /\ WatchesOK
        /\ p \in Literals /\ c \in DOMAIN clauses /\ c \in Nat
        /\ c \notin ToSet(Tail(toVisit)) /\ c \notin ToSet(watches[p])
        /\ ToSet(toVisit) = ToSet(Tail(toVisit)) \cup {c}
    <2>1. TypeOK /\ ClausesOK(clauses) /\ WatchesOK
      BY DEF Inv
    <2> QED BY <2>1, ClauseNumbers, ArrangedFacts
  <1>2. /\ DOMAIN clauses' = DOMAIN clauses
        /\ \A d \in DOMAIN clauses : d # c => clauses'[d] = clauses[d]
        /\ clauses'[c] = Arranged(c, p)
    BY <1>1 DEF TypeOK
  <1>3. \A d \in DOMAIN clauses : \A q : (q = -clauses'[d][1] \/ q = -clauses'[d][2]) <=> (q = -clauses[d][1] \/ q = -clauses[d][2])
    BY <1>2, ArrangedFacts
  <1> DEFINE wp == Append(watches[p], c)
  <1>4. /\ watches[p] \in Seq(Nat) /\ NoRepetition(watches[p]) /\ ToSet(watches[p]) \cap ToSet(toVisit) = {}
        /\ ToSet(watches[p]) \subseteq DOMAIN clauses /\ ToSet(toVisit) \subseteq DOMAIN clauses
    BY <1>1 DEF TypeOK, WatchesOK
  <1>5. wp \in Seq(Nat) /\ NoRepetition(wp) /\ ToSet(wp) = ToSet(watches[p]) \cup {c}
    <2>1. c \notin ToSet(watches[p])
      BY <1>1
    <2> QED BY <2>1, <1>1, <1>4, NewElement
  <1> DEFINE wk == wp \o kept
  <1>6. wk \in Seq(Nat) /\ NoRepetition(wk) /\ ToSet(wk) = ToSet(watches[p]) \cup {c} \cup ToSet(kept)
    <2>1. ToSet(wp) \cap ToSet(kept) = {}
      BY <1>1, <1>4, <1>5
    <2> HIDE DEF wp
    <2> QED BY <2>1, <1>5, ConcatFacts
  <1>7. /\ watches' \in [Literals -> Seq(Nat)]
        /\ watches'[p] = wk /\ \A q \in Literals : q # p => watches'[q] = watches[q]
    <2>1. watches' = [watches EXCEPT ![p] = wk]
      OBVIOUS
    <2>2. watches \in [Literals -> Seq(Nat)]
      BY <1>1 DEF TypeOK
    <2> HIDE DEF wk
    <2>3. wk \in Seq(Nat) /\ p \in Literals
      BY <1>1, <1>6
    <2>4. watches' = [watches EXCEPT ![p] = wk] => watches' \in [Literals -> Seq(Nat)] /\ watches'[p] = wk
                 /\ \A q \in Literals : q # p => watches'[q] = watches[q]
      <3> DEFINE W == Seq(Nat)
      <3> HIDE DEF W
      <3>1. watches \in [Literals -> W] /\ wk \in W
        BY <2>2, <2>3 DEF W
      <3>2. watches' = [watches EXCEPT ![p] = wk] => watches' \in [Literals -> W] /\ watches'[p] = wk
                 /\ \A q \in Literals : q # p => watches'[q] = watches[q]
        BY <3>1, <2>3
      <3> QED BY <3>2 DEF W
    <2> QED BY <2>1, <2>4, Zenon
  <1> HIDE DEF wk, wp
  <1>8. /\ NoRepetition(toVisit') /\ ToSet(toVisit') \subseteq DOMAIN clauses'
    BY <1>1, <1>2, <1>4
  <1>9. ASSUME NEW q \in Literals PROVE NoRepetition(watches'[q]) /\ ToSet(watches'[q]) \subseteq DOMAIN clauses'
    <2>1. CASE q = p
      BY <2>1, <1>1, <1>2, <1>4, <1>6, <1>7
    <2>2. CASE q # p
      BY <2>2, <1>1, <1>2, <1>7 DEF WatchesOK
    <2> QED BY <2>1, <2>2
  <1>10. ToSet(toVisit') \cap ToSet(watches'[p]) = {}
    BY <1>1, <1>4, <1>6, <1>7
  <1>11. ASSUME NEW d \in DOMAIN clauses, NEW q \in Literals PROVE Listed(d, q)' <=> Listed(d, q)
    <2>1. Listed(d, q)' <=> d \in ToSet(watches'[q]) \/ (d \in ToSet(rest) /\ q = p)
      <3>1. rest = <<>> => ToSet(rest) = {}
        BY DEF ToSet
      <3> QED BY <3>1 DEF Listed
    <2>2. Listed(d, q) <=> d \in ToSet(watches[q]) \/ (d \in ToSet(toVisit) /\ q = p)
      BY DEF Listed
    <2>3. CASE q = p
      BY <2>1, <2>2, <2>3, <1>1, <1>6, <1>7
    <2>4. CASE q # p
      BY <2>1, <2>2, <2>4, <1>7
    <2> QED BY <2>3, <2>4
  <1>12. toVisit' # <<>> => trail'[qhead'].lit = p
    OBVIOUS
  <1>13. \A d \in DOMAIN clauses, q \in Literals : Listed(d, q) <=> q = -clauses[d][1] \/ q = -clauses[d][2]
    BY <1>1 DEF WatchesOK
  <1>14. \A d \in DOMAIN clauses', q \in Literals : Listed(d, q)' <=> q = -clauses'[d][1] \/ q = -clauses'[d][2]
    BY <1>2, <1>3, <1>11, <1>13
  <1> QED BY <1>7, <1>8, <1>9, <1>10, <1>12, <1>14 DEF WatchesOK

(* The clause visited goes back on the list it came from, the rest is      *)
(* still to be visited.                                                    *)
LEMMA WatchesStayTail ==
  ASSUME Inv, toVisit # <<>>, NEW p, p = trail[qhead].lit, NEW c, c = Head(toVisit),
         clauses' = Put(clauses, c, Arranged(c, p)), toVisit' = Tail(toVisit),
         watches' = Put(watches, p, Append(watches[p], c)), trail'[qhead'].lit = p
  PROVE  WatchesOK' /\ watches' \in [Literals -> Seq(Nat)]
  <1>1. toVisit \in Seq(Nat) /\ NoRepetition(toVisit) /\ watches[p] \in Seq(Nat) /\ c \in Nat
    <2>1. p \in Literals
      BY ArrangedFacts
    <2> QED BY <2>1, TailFacts DEF TypeOK, Inv, WatchesOK
  <1>2. Tail(toVisit) \in Seq(Nat) /\ NoRepetition(Tail(toVisit))
    BY <1>1, TailFacts
  <1>3. <<>> \in Seq(Nat) /\ NoRepetition(<<>>) /\ ToSet(<<>>) = {}
    BY DEF NoRepetition, ToSet
  <1>4. PICK rest \in Seq(Nat), kept \in Seq(Nat) : rest = Tail(toVisit) /\ kept = <<>>
    BY <1>2, <1>3
  <1>5. Append(watches[p], c) \o kept = Append(watches[p], c)
    BY <1>1, <1>4
  <1>6. watches' = Put(watches, p, Append(watches[p], c) \o kept)
    BY <1>5
  <1>7. ToSet(rest) \cup ToSet(kept) = ToSet(Tail(toVisit)) /\ ToSet(rest) \cap ToSet(kept) = {}
    BY <1>3, <1>4
  <1>8. NoRepetition(rest) /\ NoRepetition(kept) /\ toVisit' = rest
    BY <1>2, <1>3, <1>4
  <1> QED BY <1>6, <1>7, <1>8, WatchesStay

(* The clause visited has a true literal in first place, by itself or by   *)
(* the assignment it forces.                                               *)
LEMMA VisitedSatisfiedKeeps ==
  ASSUME Inv, pc = "propagate", toVisit # <<>>,
         NEW p, p = trail[qhead].lit, NEW c, c = Head(toVisit), NEW s, s = Arranged(c, p),
         clauses' = [clauses EXCEPT ![c] = s],
         watches' = [watches EXCEPT ![p] = Append(watches[p], c)],
         toVisit' = Tail(toVisit),
         UNCHANGED <<calls, pc, limits, qhead, learnt, empty, query, given>>,
         \/ True(s[1]) /\ trail' = trail
         \/ /\ Open(s[1]) /\ trail' = Append(trail, Entry(s[1], c))
            /\ \A m \in ToSet(s) : m # s[1] => False(m)
  PROVE  Inv'
  <1> USE DEF query
  <1>1. /\ TypeOK /\ ClausesOK(clauses) /\ TrailOK(trail) /\ LimitsOK(trail, limits)
        /\ qhead \in Nat /\ qhead <= Len(trail)
        /\ \A k \in DOMAIN limits : limits[k] < qhead /\ limits[k] \in Nat
    <2>1. TypeOK /\ ClausesOK(clauses) /\ QueueOK /\ TrailOK(trail) /\ LimitsOK(trail, limits)
      BY DEF Inv
    <2> QED BY <2>1 DEF QueueOK, TypeOK
  <1>2. /\ qhead \in DOMAIN trail /\ p \in Literals /\ c \in DOMAIN clauses /\ c # 0
        /\ c \notin ToSet(Tail(toVisit))
        /\ s \in Seq(Literals) /\ Len(s) = Len(clauses[c])
        /\ ToSet(s) = ToSet(clauses[c]) /\ NoRepetition(s)
        /\ s[2] = -p /\ s[1] # -p
    BY ArrangedFacts
  <1>3. s[1] \in ToSet(s) /\ s[1] \in Literals /\ c \in Nat
    <2>1. Len(s) >= 2 /\ Len(s) \in Nat
      BY <1>1, <1>2, WatchedFacts
    <2> QED BY <2>1, <1>1, <1>2, ClauseNumbers DEF ToSet
  <1>4. /\ clauses' \in Seq(Seq(Literals)) /\ ClausesOK(clauses')
        /\ DOMAIN clauses' = DOMAIN clauses
        /\ MoreClauses(clauses, clauses', given')
        /\ clauses'[c] = s /\ \A d \in DOMAIN clauses : d # c => clauses'[d] = clauses[d]
    <2>1. clauses' = Put(clauses, c, s)
      BY DEF Put
    <2> QED BY <2>1, <1>1, <1>2, RearrangedFacts
  <1>5. Reshaped(trail, limits, trail', clauses', given')
    <2>1. CASE trail' = trail
      BY <2>1 DEF Reshaped
    <2>2. CASE Open(s[1]) /\ trail' = Append(trail, Entry(s[1], c)) /\ \A m \in ToSet(s) : m # s[1] => False(m)
      <3>1. Follows(given, ToSet(s))
        BY <1>2 DEF Inv, SoundOK
      <3>2. c \in DOMAIN clauses' /\ ToSet(clauses'[c]) = ToSet(s)
        BY <1>2, <1>4
      <3>3. Justified(Entry(s[1], c), trail, limits, clauses', given)
        BY <2>2, <3>1, <3>2, <1>2, <1>3, ForcedJustified
      <3>4. Entry(s[1], c) \in Entries
        BY <3>3 DEF Justified
      <3>5. given' = given
        OBVIOUS
      <3> QED BY <2>2, <3>3, <3>4, <3>5 DEF Reshaped
    <2> QED BY <2>1, <2>2
  <1>6. /\ trail' \in Seq(Entries) /\ limits' \in Seq(Nat)
        /\ TrailOK(trail)' /\ LimitsOK(trail, limits)'
        /\ ReasonsOK' /\ DecisionsOK' /\ GivenOK' /\ SoundOK'
    <2>1. Cut(trail, limits, trail, limits)
      BY <1>1, CutNothing
    <2>2. given' = given /\ empty' = empty /\ limits' = limits
      OBVIOUS
    <2>3. empty' => Follows(given', {})
      BY <2>2 DEF Inv, SoundOK
    <2>4. given \subseteq given' /\ (empty => empty') /\ \A g \in given' : g \in given
      BY <2>2
    <2>5. MoreClauses(clauses, clauses', given')
      BY <1>4
    <2> QED BY <2>1, <2>2, <2>3, <2>4, <2>5, <1>5, Reshape
  <1>7. /\ \A i \in DOMAIN trail : i \in DOMAIN trail' /\ trail'[i] = trail[i]
        /\ Len(trail') >= Len(trail) /\ \A i \in DOMAIN trail' : i \in Nat /\ i > 0
        /\ Len(trail') \in Nat
    <2>0. trail \in Seq(Entries) /\ limits \in Seq(Nat)
      BY <1>1, TrailTypes
    <2>1. /\ DOMAIN trail' = 1 .. Len(trail') /\ Len(trail) \in Nat /\ Len(trail') \in Nat
          /\ Len(trail') = Len(trail) \/ Len(trail') = Len(trail) + 1
          /\ \A i \in DOMAIN trail : i \in DOMAIN trail' /\ trail'[i] = trail[i]
      BY <2>0, <1>1, <1>5, ReshapedFacts
    <2> DEFINE n == Len(trail')
               m == Len(trail)
    <2>2. DOMAIN trail' = 1 .. n /\ n \in Nat /\ m \in Nat /\ (n = m \/ n = m + 1)
      BY <2>1
    <2> HIDE DEF n, m
    <2>3. n >= m
      BY <2>2
    <2>4. \A i \in DOMAIN trail' : i \in Nat /\ i > 0
      BY <2>2
    <2>5. \A i \in DOMAIN trail : i \in DOMAIN trail' /\ trail'[i] = trail[i]
      BY <2>1
    <2>6. n \in Nat
      BY <2>2
    <2> QED BY <2>3, <2>4, <2>5, <2>6, Zenon DEF n, m
  <1>8. PICK t \in DOMAIN trail' : trail'[t].lit = s[1]
    <2>1. CASE True(s[1]) /\ trail' = trail
      BY <2>1 DEF True
    <2>2. CASE trail' = Append(trail, Entry(s[1], c))
      <3>1. trail \in Seq(Entries) /\ Len(trail) \in Nat /\ Entry(s[1], c) \in Entries /\ Entry(s[1], c).lit = s[1]
        BY <1>1, <1>3, TrailTypes DEF Entry, Entries
      <3>2. trail'[Len(trail) + 1] = Entry(s[1], c) /\ DOMAIN trail' = 1 .. Len(trail) + 1
        BY <3>1, <2>2, AppendFacts
      <3>3. Len(trail) + 1 \in DOMAIN trail'
        BY <3>1, <3>2
      <3> QED BY <3>1, <3>2, <3>3
    <2> QED BY <2>1, <2>2
  <1>9. WatchesOK' /\ watches' \in [Literals -> Seq(Nat)]
    <2>1. trail'[qhead'].lit = p
      BY <1>2, <1>7
    <2>2. clauses' = Put(clauses, c, Arranged(c, p)) /\ watches' = Put(watches, p, Append(watches[p], c))
      BY DEF Put
    <2> QED BY <2>1, <2>2, WatchesStayTail
  <1>10. TypeOK'
    <2>1. toVisit' \in Seq(Nat)
      BY <1>1, TailFacts DEF TypeOK
    <2> QED BY <2>1, <1>1, <1>4, <1>6, <1>9 DEF TypeOK
  <1>11. QueueOK'
    <2>1. qhead' > 0
      BY <1>1, <1>2, TrailTypes
    <2>2. qhead' <= Len(trail')
      BY <1>1, <1>7, TrailTypes
    <2>3. \A k \in DOMAIN limits' : limits'[k] <= qhead' /\ limits'[k] < qhead'
      BY <1>1
    <2> QED BY <2>1, <2>2, <2>3 DEF QueueOK
  <1>12. GuardsOK'
    <2>1. ASSUME NEW d \in DOMAIN clauses, d # c, NEW w, NEW o, Guarded(d, w, o)
          PROVE  Guarded(d, w, o)'
      BY <2>1, <1>7, GuardsOthers
    <2>2. var(-s[1]) = var(s[1]) /\ -s[1] # s[1] /\ -s[2] = p /\ -(-p) = p
      BY <1>2, <1>3, LiteralFacts
    <2>3. Guarded(c, s[1], s[2])'
      <3> SUFFICES ASSUME NEW i \in DOMAIN trail', trail'[i].lit = -s[1] PROVE FALSE
        BY DEF Guarded
      <3>1. i = t
        BY <1>6, <1>8, <2>2 DEF TrailOK
      <3> QED BY <3>1, <1>8, <2>2
    <2>4. Guarded(c, s[2], s[1])'
      <3> SUFFICES ASSUME NEW i \in DOMAIN trail', trail'[i].lit = p
                   PROVE  \E j \in DOMAIN trail' : trail'[j].lit = s[1] /\ \A k \in DOMAIN limits' : i <= limits'[k] => j <= limits'[k]
        BY <2>2 DEF Guarded
      <3>1. qhead \in DOMAIN trail' /\ trail'[qhead].lit = p
        BY <1>2, <1>7
      <3>2. i = qhead
        BY <3>1, <1>6 DEF TrailOK
      <3>3. \A k \in DOMAIN limits' : ~(i <= limits'[k])
        BY <3>2, <1>1
      <3> QED BY <3>3, <1>8
    <2>5. ASSUME NEW d \in DOMAIN clauses'
          PROVE  (Guarded(d, clauses[d][1], clauses[d][2]) /\ Guarded(d, clauses[d][2], clauses[d][1]))'
      <3>1. CASE d = c
        BY <3>1, <2>3, <2>4, <1>4
      <3>2. CASE d # c
        <4>1. Guarded(d, clauses[d][1], clauses[d][2]) /\ Guarded(d, clauses[d][2], clauses[d][1])
          BY <2>5, <1>4 DEF Inv, GuardsOK
        <4>2. clauses'[d] = clauses[d] /\ d \in DOMAIN clauses
          BY <3>2, <2>5, <1>4
        <4>3. PICK w, o : w = clauses[d][1] /\ o = clauses[d][2]
          OBVIOUS
        <4>4. Guarded(d, w, o) /\ Guarded(d, o, w)
          BY <4>1, <4>3
        <4>5. Guarded(d, w, o)' /\ Guarded(d, o, w)'
          BY <4>4, <3>2, <2>1
        <4> QED BY <4>2, <4>3, <4>5, GuardsPrimed
      <3> QED BY <3>1, <3>2
    <2> QED BY <2>5 DEF GuardsOK
  <1>13. LearntOK'
    BY DEF LearntOK
  <1>14. AssumedOK'
    BY <1>5, AssumedKept
  <1>15. AnswerOK'
    <2>1. answer = "NONE" /\ core = {} /\ ~empty
      BY DEF Inv, AnswerOK, TypeOK
    <2> QED BY <2>1, AnswerFrame
  <1>16. ClausesOK(clauses)'
    BY <1>4 DEF ClausesOK
  <1> QED BY <1>6, <1>9, <1>10, <1>11, <1>12, <1>13, <1>14, <1>15, <1>16 DEF Inv

(* Clauses are only rearranged and the trail is as it was.                 *)
LEMMA RearrangedKeeps ==
  ASSUME Inv, UNCHANGED <<trail, limits, empty, given>>, MoreClauses(clauses, clauses', given)
  PROVE  /\ TrailOK(trail)' /\ LimitsOK(trail, limits)'
         /\ ReasonsOK' /\ DecisionsOK' /\ GivenOK' /\ SoundOK'
  <1>1. Cut(trail, limits, trail, limits)
    BY CutNothing DEF Inv
  <1>2. Reshaped(trail, limits, trail', clauses', given')
    BY DEF Reshaped
  <1>3. MoreClauses(clauses, clauses', given') /\ limits' = limits
    OBVIOUS
  <1>4. /\ given \subseteq given' /\ (empty => empty') /\ (empty' => Follows(given', {}))
        /\ \A g \in given' : g \in given
    <2>1. empty => Follows(given, {})
      BY DEF Inv, SoundOK
    <2> QED BY <2>1
  <1> QED BY <1>1, <1>2, <1>3, <1>4, Reshape

(* The clause visited moves its watch from -p to its k-th literal.         *)
LEMMA WatchesMove ==
  ASSUME Inv, toVisit # <<>>, NEW p, p = trail[qhead].lit, NEW c, c = Head(toVisit),
         NEW s, s = Arranged(c, p), NEW n \in Literals, n \in ToSet(s), n # s[1], n # s[2],
         NEW u, u[1] = s[1], u[2] = n,
         clauses' = Put(clauses, c, u), watches' = Put(watches, -n, Append(watches[-n], c)),
         toVisit' = Tail(toVisit), trail'[qhead'].lit = p
  PROVE  WatchesOK' /\ watches' \in [Literals -> Seq(Nat)]
  <1> USE DEF Put
  <1>1. /\ TypeOK /\ ClausesOK(clauses) /\ WatchesOK
        /\ p \in Literals /\ c \in DOMAIN clauses /\ c \in Nat
        /\ c \notin ToSet(Tail(toVisit)) /\ c \notin ToSet(watches[p])
        /\ ToSet(toVisit) = ToSet(Tail(toVisit)) \cup {c}
        /\ s[2] = -p /\ s[1] # -p /\ s \in Seq(Literals) /\ Len(s) = Len(clauses[c])
    <2>1. TypeOK /\ ClausesOK(clauses) /\ WatchesOK
      BY DEF Inv
    <2> QED BY <2>1, ClauseNumbers, ArrangedFacts
  <1>2. /\ DOMAIN clauses' = DOMAIN clauses
        /\ \A d \in DOMAIN clauses : d # c => clauses'[d] = clauses[d]
        /\ clauses'[c] = u
    BY <1>1 DEF TypeOK
  <1>3. s[1] \in Literals
    <2>1. Len(s) >= 2 /\ Len(s) \in Nat
      BY <1>1, WatchedFacts
    <2> QED BY <1>1, <2>1
  <1>4. /\ -n \in Literals /\ -s[1] \in Literals /\ -n # p /\ -n # -s[1] /\ -s[1] # p /\ -s[2] = p
    BY <1>1, <1>3, LiteralFacts
  <1>5. \A q : (q = -clauses[c][1] \/ q = -clauses[c][2]) <=> (q = -s[1] \/ q = p)
    BY <1>4, ArrangedFacts
  <1>6. \A d \in DOMAIN clauses, q \in Literals :
           d \in ToSet(watches[q]) \/ (d \in ToSet(toVisit) /\ q = p) <=> q = -clauses[d][1] \/ q = -clauses[d][2]
    BY <1>1 DEF WatchesOK, Listed
  <1>7. \A q \in Literals : c \in ToSet(watches[q]) <=> q = -s[1]
    BY <1>1, <1>4, <1>5, <1>6
  <1>8. /\ \A q \in Literals : watches[q] \in Seq(Nat) /\ NoRepetition(watches[q]) /\ ToSet(watches[q]) \subseteq DOMAIN clauses
        /\ ToSet(toVisit) \subseteq DOMAIN clauses /\ ToSet(watches[p]) \cap ToSet(toVisit) = {}
        /\ NoRepetition(toVisit) /\ toVisit \in Seq(Nat)
    BY <1>1 DEF TypeOK, WatchesOK
  <1> DEFINE wn == Append(watches[-n], c)
  <1>9. wn \in Seq(Nat) /\ NoRepetition(wn) /\ ToSet(wn) = ToSet(watches[-n]) \cup {c}
    <2>1. c \notin ToSet(watches[-n])
      BY <1>4, <1>7
    <2> QED BY <2>1, <1>1, <1>4, <1>8, NewElement
  <1>10. /\ watches' \in [Literals -> Seq(Nat)]
         /\ watches'[-n] = wn /\ \A q \in Literals : q # -n => watches'[q] = watches[q]
    <2> DEFINE W == Seq(Nat)
    <2>1. watches \in [Literals -> W] /\ wn \in W
      BY <1>1, <1>9 DEF TypeOK
    <2> HIDE DEF W, wn
    <2>2. watches' = [watches EXCEPT ![-n] = wn]
      BY DEF wn
    <2>3. /\ watches' \in [Literals -> W]
          /\ watches'[-n] = wn /\ \A q \in Literals : q # -n => watches'[q] = watches[q]
      BY <2>1, <2>2, <1>4
    <2> QED BY <2>3 DEF W
  <1> HIDE DEF wn
  <1>11. toVisit' = Tail(toVisit) /\ NoRepetition(toVisit') /\ ToSet(toVisit') \subseteq DOMAIN clauses'
    BY <1>1, <1>2, <1>8, TailFacts
  <1>12. ASSUME NEW q \in Literals PROVE NoRepetition(watches'[q]) /\ ToSet(watches'[q]) \subseteq DOMAIN clauses'
    <2>1. CASE q = -n
      BY <2>1, <1>1, <1>2, <1>8, <1>9, <1>10
    <2>2. CASE q # -n
      BY <2>2, <1>2, <1>8, <1>10
    <2> QED BY <2>1, <2>2
  <1>13. ToSet(toVisit') \cap ToSet(watches'[trail'[qhead'].lit]) = {}
    <2>1. watches'[p] = watches[p]
      BY <1>1, <1>4, <1>10
    <2> QED BY <2>1, <1>1, <1>8, <1>11
  <1>14. ASSUME NEW d \in DOMAIN clauses', NEW q \in Literals
         PROVE  Listed(d, q)' <=> q = -clauses'[d][1] \/ q = -clauses'[d][2]
    <2>1. Listed(d, q)' <=> d \in ToSet(watches'[q]) \/ (d \in ToSet(Tail(toVisit)) /\ q = p)
      BY <1>11 DEF Listed
    <2>2. d \in ToSet(watches'[q]) <=> d \in ToSet(watches[q]) \/ (q = -n /\ d = c)
      BY <1>9, <1>10
    <2>3. CASE d = c
      BY <2>1, <2>2, <2>3, <1>1, <1>2, <1>7
    <2>4. CASE d # c
      BY <2>1, <2>2, <2>4, <1>1, <1>2, <1>6
    <2> QED BY <2>3, <2>4
  <1> QED BY <1>10, <1>11, <1>12, <1>13, <1>14 DEF WatchesOK

(* The clause visited moves its watch to a literal that is not false.      *)
LEMMA VisitedMovedKeeps ==
  ASSUME Inv, pc = "propagate", toVisit # <<>>,
         NEW p, p = trail[qhead].lit, NEW c, c = Head(toVisit), NEW s, s = Arranged(c, p),
         NEW k \in 3 .. Len(s), ~False(s[k]), ~True(s[1]),
         NEW u, u = Put(Put(s, 2, s[k]), k, -p), clauses' = Put(clauses, c, u),
         watches' = Put(watches, -s[k], Append(watches[-s[k]], c)),
         toVisit' = Tail(toVisit),
         UNCHANGED <<calls, pc, trail, limits, qhead, learnt, empty, query, given>>
  PROVE  Inv'
  <1> USE DEF query
  <1>1. /\ TypeOK /\ ClausesOK(clauses) /\ TrailOK(trail) /\ QueueOK
    BY DEF Inv
  <1>2. /\ qhead \in DOMAIN trail /\ p \in Literals /\ c \in DOMAIN clauses /\ c # 0
        /\ c \notin ToSet(Tail(toVisit))
        /\ s \in Seq(Literals) /\ Len(s) = Len(clauses[c])
        /\ ToSet(s) = ToSet(clauses[c]) /\ NoRepetition(s)
        /\ s[2] = -p /\ s[1] # -p
        /\ \/ s[1] = clauses[c][1] /\ s[2] = clauses[c][2]
           \/ s[1] = clauses[c][2] /\ s[2] = clauses[c][1]
    BY ArrangedFacts
  <1>3. /\ Len(s) \in Nat /\ Len(s) >= 2 /\ DOMAIN s = 1 .. Len(s) /\ s[1] \in Literals /\ c \in Nat
        /\ 2 \in 1 .. Len(s) /\ k \in 1 .. Len(s) /\ s[k] \in Literals /\ s[k] \in ToSet(s) /\ k # 1 /\ k # 2
        /\ 1 \in DOMAIN s /\ 1 # 2
    <2>1. Len(s) >= 2 /\ Len(s) \in Nat
      BY <1>1, <1>2, WatchedFacts
    <2> QED BY <2>1, <1>1, <1>2, ClauseNumbers DEF ToSet
  <1>4. s[k] # s[1] /\ s[k] # s[2]
    <2>1. k \in DOMAIN s /\ 1 \in DOMAIN s /\ 2 \in DOMAIN s
      BY <1>3
    <2> QED BY <2>1, <1>2, <1>3, Zenon DEF NoRepetition
  <1>5. /\ u \in Seq(Literals) /\ Len(u) = Len(s) /\ u[2] = s[k] /\ u[1] = s[1]
        /\ ToSet(u) = ToSet(s) /\ NoRepetition(u)
    <2>1. 1 \in 1 .. Len(s)
      BY <1>3
    <2>2. u = [s EXCEPT ![2] = s[k], ![k] = s[2]]
      BY <1>2, <1>3 DEF Put
    <2> QED BY <2>1, <2>2, <1>2, <1>3, SwapFacts
  <1>7. /\ clauses' \in Seq(Seq(Literals)) /\ ClausesOK(clauses')
        /\ DOMAIN clauses' = DOMAIN clauses
        /\ MoreClauses(clauses, clauses', given)
        /\ clauses'[c] = u /\ \A d \in DOMAIN clauses : d # c => clauses'[d] = clauses[d]
    <2>2. Len(u) = Len(clauses[c]) /\ ToSet(u) = ToSet(clauses[c]) /\ NoRepetition(u) /\ u \in Seq(Literals)
      BY <1>2, <1>5
    <2> QED BY <2>2, <1>1, <1>2, RearrangedFacts
  <1>8. /\ TrailOK(trail)' /\ LimitsOK(trail, limits)'
        /\ ReasonsOK' /\ DecisionsOK' /\ GivenOK' /\ SoundOK'
    BY <1>7, RearrangedKeeps
  <1>9. WatchesOK' /\ watches' \in [Literals -> Seq(Nat)]
    <2>2. trail'[qhead'].lit = p
      OBVIOUS
    <2>3. PICK n \in Literals : n = s[k]
      BY <1>3
    <2>6. PICK x : x = u
      OBVIOUS
    <2>4. clauses' = Put(clauses, c, x) /\ watches' = Put(watches, -n, Append(watches[-n], c))
      BY <2>3, <2>6
    <2>5. n \in ToSet(s) /\ n # s[1] /\ n # s[2] /\ x[1] = s[1] /\ x[2] = n
      BY <2>3, <2>6, <1>3, <1>4, <1>5
    <2> QED BY <2>2, <2>4, <2>5, WatchesMove
  <1>10. TypeOK'
    <2>1. toVisit' \in Seq(Nat)
      BY <1>1, TailFacts DEF TypeOK
    <2>2. UNCHANGED <<calls, pc, trail, limits, qhead, learnt, empty, assumed, ui, answer, core, given>>
      OBVIOUS
    <2> QED BY <2>1, <2>2, <1>1, <1>7, <1>9 DEF TypeOK
  <1>11. QueueOK'
    <2>1. UNCHANGED <<trail, limits, qhead, pc>>
      OBVIOUS
    <2> QED BY <2>1, <1>1 DEF QueueOK
  <1>12. GuardsOK'
    <2>1. ASSUME NEW d \in DOMAIN clauses, d # c, NEW w, NEW o, Guarded(d, w, o)
          PROVE  Guarded(d, w, o)'
      <3>1. /\ \A i \in DOMAIN trail : i \in DOMAIN trail' /\ trail'[i] = trail[i]
            /\ \A i \in DOMAIN trail' : i \in Nat /\ i > 0
        BY <1>1, TrailTypes
      <3>2. toVisit' = Tail(toVisit) /\ UNCHANGED <<limits, qhead, pc>>
        OBVIOUS
      <3> QED BY <2>1, <3>1, <3>2, GuardsOthers
    <2>2. -s[1] # p /\ -(-p) = p /\ -s[2] = p /\ var(-p) = var(p) /\ -p # p
      BY <1>2, <1>3, LiteralFacts
    <2>3. Guarded(c, s[k], s[1])'
      <3>1. \A i \in DOMAIN trail : trail[i].lit # -s[k]
        BY DEF False, True
      <3> QED BY <3>1 DEF Guarded
    <2>4. Guarded(c, s[1], s[2])
      BY <1>2 DEF Inv, GuardsOK
    <2>5. Guarded(c, s[1], s[k])'
      <3>0. Visited = qhead /\ Visited' = qhead
        BY DEF Visited
      <3>1. ASSUME NEW i \in DOMAIN trail, i <= qhead, trail[i].lit = -s[1] PROVE FALSE
        <4>1. i # qhead
          BY <3>1, <2>2
        <4>2. PICK j \in DOMAIN trail : trail[j].lit = s[2]
          BY <4>1, <3>0, <3>1, <2>4 DEF Guarded
        <4>3. j = qhead
          BY <4>2, <2>2, <1>1, <1>2 DEF TrailOK
        <4> QED BY <4>2, <4>3, <2>2, <1>2
      <3> QED BY <3>0, <3>1 DEF Guarded
    <2>6. ASSUME NEW d \in DOMAIN clauses'
          PROVE  (Guarded(d, clauses[d][1], clauses[d][2]) /\ Guarded(d, clauses[d][2], clauses[d][1]))'
      <3>1. CASE d = c
        <4>1. PICK x, y : x = s[1] /\ y = s[k]
          OBVIOUS
        <4>2. clauses'[d][1] = x /\ clauses'[d][2] = y
          BY <3>1, <4>1, <1>5, <1>7
        <4>3. Guarded(d, x, y)' /\ Guarded(d, y, x)'
          BY <3>1, <4>1, <2>3, <2>5
        <4> QED BY <4>2, <4>3, GuardsPrimed
      <3>2. CASE d # c
        <4>1. Guarded(d, clauses[d][1], clauses[d][2]) /\ Guarded(d, clauses[d][2], clauses[d][1])
          BY <2>6, <1>7 DEF Inv, GuardsOK
        <4>2. clauses'[d] = clauses[d] /\ d \in DOMAIN clauses
          BY <3>2, <2>6, <1>7
        <4>3. PICK w, o : w = clauses[d][1] /\ o = clauses[d][2]
          OBVIOUS
        <4>4. Guarded(d, w, o) /\ Guarded(d, o, w)
          BY <4>1, <4>3
        <4>5. Guarded(d, w, o)' /\ Guarded(d, o, w)'
          BY <4>4, <4>2, <3>2, <2>1
        <4> QED BY <4>2, <4>3, <4>5, GuardsPrimed
      <3> QED BY <3>1, <3>2
    <2> QED BY <2>6 DEF GuardsOK
  <1>13. LearntOK'
    BY DEF LearntOK
  <1>14. AssumedOK'
    <2>1. UNCHANGED <<assumed, ui, limits, trail, pc>>
      OBVIOUS
    <2> QED BY <2>1 DEF Inv, AssumedOK, True, TrueBy
  <1>15. AnswerOK'
    <2>1. answer = "NONE" /\ core = {} /\ ~empty
      BY DEF Inv, AnswerOK, TypeOK
    <2> QED BY <2>1, AnswerFrame
  <1>16. ClausesOK(clauses)'
    BY <1>7 DEF ClausesOK
  <1> QED BY <1>8, <1>9, <1>10, <1>11, <1>12, <1>13, <1>14, <1>15, <1>16 DEF Inv

(* The clause learned from a falsified one: its literals above the root    *)
(* follow, since those at the root are false in every model.               *)
LEMMA AboveRootFacts ==
  ASSUME Inv, NEW s \in SUBSET Literals, NEW q \in Seq(Literals), s = ToSet(q), Follows(given, s)
  PROVE  /\ AboveRoot(q) \subseteq s
         /\ \A l \in s, i \in DOMAIN trail : trail[i].lit = -l => (l \in AboveRoot(q) <=> ~AtRoot(i, limits))
         /\ (\A l \in s : False(l)) => Follows(given, AboveRoot(q))
  <1>0. TypeOK /\ TrailOK(trail) /\ LimitsOK(trail, limits)
    BY DEF Inv
  <1>1. AboveRoot(q) \subseteq s
    BY DEF AboveRoot
  <1>2. ASSUME NEW l \in s, NEW i \in DOMAIN trail, trail[i].lit = -l
        PROVE  l \in AboveRoot(q) <=> ~AtRoot(i, limits)
    <2>1. var(trail[i].lit) = var(l)
      BY <1>2, LiteralFacts
    <2>2. /\ LevelOf(var(trail[i].lit)) \in 0 .. level
          /\ LevelOf(var(trail[i].lit)) = 0 <=> AtRoot(i, limits)
      BY <1>0, TrailTypes, LevelFacts
    <2>3. level \in Nat
      BY <1>0, TrailTypes
    <2>4. LevelOf(var(l)) > 0 <=> ~AtRoot(i, limits)
      BY <2>1, <2>2, <2>3
    <2> QED BY <2>4 DEF AboveRoot
  <1>3. ASSUME \A l \in s : False(l) PROVE Follows(given, AboveRoot(q))
    <2> SUFFICES ASSUME NEW a \in Models(given) PROVE \E l \in AboveRoot(q) : Holds(a, l)
      BY FollowsFacts
    <2>1. PICK l \in s : Holds(a, l)
      BY FollowsFacts
    <2>2. PICK i \in DOMAIN trail : trail[i].lit = -l
      BY <1>3 DEF False, True
    <2>3. ~AtRoot(i, limits)
      BY <2>1, <2>2, FalseAtRoot
    <2> QED BY <2>1, <2>2, <2>3, <1>2
  <1> QED BY <1>1, <1>2, <1>3

(* The clause visited is falsified: what is learned from it starts with    *)
(* its literals.                                                           *)
LEMMA VisitedFalsifiedKeeps ==
  ASSUME Inv, pc = "propagate", toVisit # <<>>,
         NEW p, p = trail[qhead].lit, NEW c, c = Head(toVisit), NEW s, s = Arranged(c, p),
         \A m \in ToSet(s) : False(m),
         clauses' = Put(clauses, c, s), watches' = Put(watches, p, Append(watches[p], c) \o Tail(toVisit)),
         toVisit' = <<>>, qhead' = Len(trail), learnt' = AboveRoot(s), pc' = "conflict",
         UNCHANGED <<calls, trail, limits, empty, query, given>>
  PROVE  Inv'
  <1> USE DEF query
  <1>1. /\ TypeOK /\ ClausesOK(clauses) /\ TrailOK(trail) /\ QueueOK
        /\ qhead \in Nat /\ qhead <= Len(trail) /\ Len(trail) \in Nat /\ limits \in Seq(Nat)
        /\ \A k \in DOMAIN limits : limits[k] < qhead /\ limits[k] \in Nat
    <2>1. TypeOK /\ ClausesOK(clauses) /\ QueueOK /\ TrailOK(trail)
      BY DEF Inv
    <2> QED BY <2>1, TrailTypes DEF QueueOK, TypeOK
  <1>2. /\ qhead \in DOMAIN trail /\ p \in Literals /\ c \in DOMAIN clauses /\ c # 0
        /\ s \in Seq(Literals) /\ Len(s) = Len(clauses[c])
        /\ ToSet(s) = ToSet(clauses[c]) /\ NoRepetition(s)
        /\ s[2] = -p
        /\ \/ s[1] = clauses[c][1] /\ s[2] = clauses[c][2]
           \/ s[1] = clauses[c][2] /\ s[2] = clauses[c][1]
    BY ArrangedFacts
  <1>3. s[2] \in ToSet(s) /\ ToSet(s) \subseteq Literals
    <2>1. Len(s) >= 2 /\ Len(s) \in Nat
      BY <1>1, <1>2, WatchedFacts
    <2>2. 2 \in DOMAIN s
      BY <2>1, <1>2
    <2> QED BY <2>2, <1>2, ToSetFacts DEF ToSet
  <1>4. /\ clauses' \in Seq(Seq(Literals)) /\ ClausesOK(clauses')
        /\ DOMAIN clauses' = DOMAIN clauses
        /\ MoreClauses(clauses, clauses', given)
        /\ clauses'[c] = s /\ \A d \in DOMAIN clauses : d # c => clauses'[d] = clauses[d]
    BY <1>1, <1>2, RearrangedFacts
  <1>5. /\ TrailOK(trail)' /\ LimitsOK(trail, limits)'
        /\ ReasonsOK' /\ DecisionsOK' /\ GivenOK' /\ SoundOK'
    BY <1>4, RearrangedKeeps
  <1>6. WatchesOK' /\ watches' \in [Literals -> Seq(Nat)]
    <2>1. toVisit \in Seq(Nat) /\ NoRepetition(toVisit)
      BY <1>1 DEF TypeOK, Inv, WatchesOK
    <2>2. Tail(toVisit) \in Seq(Nat) /\ NoRepetition(Tail(toVisit))
      BY <2>1, TailFacts
    <2>3. <<>> \in Seq(Nat) /\ NoRepetition(<<>>) /\ ToSet(<<>>) = {}
      BY DEF NoRepetition, ToSet
    <2>4. PICK rest \in Seq(Nat), kept \in Seq(Nat) : rest = <<>> /\ kept = Tail(toVisit)
      BY <2>2, <2>3
    <2>5. /\ watches' = Put(watches, p, Append(watches[p], c) \o kept)
          /\ clauses' = Put(clauses, c, Arranged(c, p))
      BY <2>4
    <2>6. ToSet(rest) \cup ToSet(kept) = ToSet(Tail(toVisit)) /\ ToSet(rest) \cap ToSet(kept) = {}
      BY <2>3, <2>4
    <2>7. NoRepetition(rest) /\ NoRepetition(kept) /\ toVisit' = rest /\ (rest # <<>> => trail'[qhead'].lit = p)
      BY <2>2, <2>3, <2>4
    <2> QED BY <2>5, <2>6, <2>7, WatchesStay
  <1>7. TypeOK'
    <2>1. toVisit' \in Seq(Nat) /\ qhead' \in Nat /\ pc' \in {"idle", "propagate", "decide", "conflict"}
      BY <1>1
    <2>2. learnt' \in SUBSET Literals
      BY <1>3 DEF AboveRoot
    <2>3. UNCHANGED <<calls, trail, limits, empty, assumed, ui, answer, core, given>>
      OBVIOUS
    <2> QED BY <2>1, <2>2, <2>3, <1>1, <1>4, <1>6 DEF TypeOK
  <1>8. QueueOK'
    <2>1. qhead' = Len(trail') /\ qhead' <= Len(trail') /\ toVisit' = <<>>
      BY <1>1
    <2>2. \A k \in DOMAIN limits' : limits'[k] <= qhead'
      BY <1>1
    <2> QED BY <2>1, <2>2 DEF QueueOK
  <1>9. GuardsOK'
    <2>0. Visited' \in Nat /\ Visited' < qhead /\ Visited = qhead
      <3>1. limits # <<>> => Len(limits) \in DOMAIN limits
        BY <1>1
      <3>2. qhead > 0
        BY <1>1, <1>2, TrailTypes
      <3>3. Visited' = IF limits = <<>> THEN 0 ELSE limits[Len(limits)]
        BY DEF Visited
      <3>4. Visited = qhead
        BY DEF Visited
      <3> QED BY <3>1, <3>2, <3>3, <3>4, <1>1
    <2>1. ASSUME NEW d, NEW w, NEW o, Guarded(d, w, o)
          PROVE  Guarded(d, w, o)'
      <3> SUFFICES ASSUME NEW i \in DOMAIN trail, i <= Visited', trail[i].lit = -w
                   PROVE  \E j \in DOMAIN trail : trail[j].lit = o /\ \A k \in DOMAIN limits : i <= limits[k] => j <= limits[k]
        BY DEF Guarded
      <3>1. i \in Nat
        BY <1>1, TrailTypes
      <3>2. i <= Visited /\ i # qhead
        BY <3>1, <2>0, <1>1
      <3> QED BY <3>2, <2>1 DEF Guarded
    <2>2. ASSUME NEW d \in DOMAIN clauses'
          PROVE  (Guarded(d, clauses[d][1], clauses[d][2]) /\ Guarded(d, clauses[d][2], clauses[d][1]))'
      <3>1. Guarded(d, clauses[d][1], clauses[d][2]) /\ Guarded(d, clauses[d][2], clauses[d][1])
        BY <2>2, <1>4 DEF Inv, GuardsOK
      <3>2. PICK w, o : w = clauses'[d][1] /\ o = clauses'[d][2]
        OBVIOUS
      <3>3. Guarded(d, w, o) /\ Guarded(d, o, w)
        <4>1. CASE d = c
          BY <4>1, <3>1, <3>2, <1>2, <1>4
        <4>2. CASE d # c
          BY <4>2, <3>1, <3>2, <2>2, <1>4
        <4> QED BY <4>1, <4>2
      <3>4. Guarded(d, w, o)' /\ Guarded(d, o, w)'
        BY <3>3, <2>1
      <3> QED BY <3>2, <3>4, GuardsPrimed
    <2> QED BY <2>2 DEF GuardsOK
  <1>10. LearntOK'
    <2> DEFINE S == ToSet(s)
    <2>1. Follows(given, S) /\ S \in SUBSET Literals
      BY <1>2, <1>3 DEF Inv, SoundOK
    <2>2. /\ learnt' \subseteq S
          /\ \A l \in S, i \in DOMAIN trail : trail[i].lit = -l => (l \in learnt' <=> ~AtRoot(i, limits))
          /\ Follows(given, learnt')
      BY <2>1, <1>2, AboveRootFacts
    <2>3. \A l \in learnt' : \E i \in DOMAIN trail : trail[i].lit = -l /\ ~AtRoot(i, limits)
      <3> SUFFICES ASSUME NEW l \in learnt' PROVE \E i \in DOMAIN trail : trail[i].lit = -l /\ ~AtRoot(i, limits)
        OBVIOUS
      <3>1. l \in S
        BY <2>2
      <3>2. PICK i \in DOMAIN trail : trail[i].lit = -l
        BY <3>1 DEF False, True
      <3> QED BY <3>1, <3>2, <2>2
    <2>4. ASSUME limits # <<>> PROVE \E l \in learnt', i \in DOMAIN trail : trail[i].lit = -l /\ i > limits[level]
      <3>1. level \in DOMAIN limits
        BY <2>4, <1>1 DEF level
      <3>2. ~AtRoot(qhead, limits) /\ qhead > limits[level]
        BY <3>1, <1>1 DEF AtRoot
      <3>3. s[2] \in S /\ trail[qhead].lit = -s[2]
        BY <1>2, <1>3, LiteralFacts
      <3> QED BY <3>2, <3>3, <2>2, <1>2
    <2>5. level' = level
      BY DEF level
    <2> HIDE DEF S
    <2>6. UNCHANGED <<trail, limits, given>>
      OBVIOUS
    <2> QED BY <2>2, <2>3, <2>4, <2>5, <2>6 DEF LearntOK
  <1>11. AssumedOK'
    <2>1. UNCHANGED <<assumed, ui, limits, trail>>
      OBVIOUS
    <2> QED BY <2>1 DEF Inv, AssumedOK, True, TrueBy
  <1>12. AnswerOK'
    <2>1. answer = "NONE" /\ core = {} /\ ~empty
      BY DEF Inv, AnswerOK, TypeOK
    <2> QED BY <2>1, AnswerFrame
  <1>13. ClausesOK(clauses)'
    BY <1>4 DEF ClausesOK
  <1> QED BY <1>5, <1>6, <1>7, <1>8, <1>9, <1>10, <1>11, <1>12, <1>13 DEF Inv

(* A clause is visited.                                                    *)
LEMMA VisitClauseKeeps ==
  ASSUME Inv, VisitClause
  PROVE  Inv'
  <1>1. PICK p, c, s : p = trail[qhead].lit /\ c = Head(toVisit) /\ s = Arranged(c, p)
    OBVIOUS
  <1> DEFINE others == {k \in 3 .. Len(s) : ~False(s[k])}
             stays == [watches EXCEPT ![p] = Append(@, c)]
  <1>2. /\ pc = "propagate" /\ toVisit # <<>>
        /\ UNCHANGED <<calls, limits, empty, query, given>>
    BY DEF VisitClause
  <1>3. \/ /\ True(s[1])
           /\ clauses' = [clauses EXCEPT ![c] = s]
           /\ watches' = stays
           /\ toVisit' = Tail(toVisit)
           /\ UNCHANGED <<pc, trail, qhead, learnt>>
        \/ /\ ~True(s[1]) /\ others # {}
           /\ clauses' = [clauses EXCEPT ![c] = [s EXCEPT ![2] = s[Min(others)], ![Min(others)] = -p]]
           /\ watches' = [watches EXCEPT ![-s[Min(others)]] = Append(@, c)]
           /\ toVisit' = Tail(toVisit)
           /\ UNCHANGED <<pc, trail, qhead, learnt>>
        \/ /\ Open(s[1]) /\ others = {}
           /\ clauses' = [clauses EXCEPT ![c] = s]
           /\ watches' = stays
           /\ trail' = Append(trail, Entry(s[1], c))
           /\ toVisit' = Tail(toVisit)
           /\ UNCHANGED <<pc, qhead, learnt>>
        \/ /\ False(s[1]) /\ others = {}
           /\ clauses' = [clauses EXCEPT ![c] = s]
           /\ watches' = [stays EXCEPT ![p] = @ \o Tail(toVisit)]
           /\ toVisit' = <<>>
           /\ qhead' = Len(trail)
           /\ learnt' = AboveRoot(s)
           /\ pc' = "conflict"
           /\ UNCHANGED trail
    BY <1>1, Zenon DEF VisitClause
  <1>4. /\ qhead \in DOMAIN trail /\ p \in Literals /\ c \in DOMAIN clauses
        /\ s \in Seq(Literals) /\ Len(s) = Len(clauses[c]) /\ s[2] = -p
    BY <1>1, <1>2, ArrangedFacts
  <1>5. False(s[2])
    <2>1. -(-p) = p
      BY <1>4, LiteralFacts
    <2> QED BY <2>1, <1>1, <1>4 DEF False, True
  <1>6. ASSUME others = {} PROVE \A m \in ToSet(s) : m # s[1] => False(m)
    <2> SUFFICES ASSUME NEW m \in ToSet(s), m # s[1] PROVE False(m)
      OBVIOUS
    <2>1. PICK k \in 1 .. Len(s) : s[k] = m
      BY <1>4, ToSetFacts
    <2>2. k = 2 \/ k \in 3 .. Len(s)
      BY <2>1
    <2> QED BY <2>1, <2>2, <1>5, <1>6
  <1>7. watches \in [Literals -> Seq(Nat)]
    BY DEF Inv, TypeOK
  <1>8. CASE /\ True(s[1])
             /\ clauses' = [clauses EXCEPT ![c] = s]
             /\ watches' = stays
             /\ toVisit' = Tail(toVisit)
             /\ UNCHANGED <<pc, trail, qhead, learnt>>
    BY <1>1, <1>2, <1>8, VisitedSatisfiedKeeps
  <1>9. CASE /\ ~True(s[1]) /\ others # {}
             /\ clauses' = [clauses EXCEPT ![c] = [s EXCEPT ![2] = s[Min(others)], ![Min(others)] = -p]]
             /\ watches' = [watches EXCEPT ![-s[Min(others)]] = Append(@, c)]
             /\ toVisit' = Tail(toVisit)
             /\ UNCHANGED <<pc, trail, qhead, learnt>>
    <2>1. others \in SUBSET Nat
      BY <1>4
    <2>2. Min(others) \in others
      <3> HIDE DEF others
      <3> QED BY <2>1, <1>9, MinFacts
    <2>3. PICK k \in 3 .. Len(s) : k = Min(others) /\ ~False(s[k])
      BY <2>2
    <2>4. PICK u : u = Put(Put(s, 2, s[k]), k, -p)
      OBVIOUS
    <2>5. clauses' = Put(clauses, c, u)
      BY <2>3, <2>4, <1>9 DEF Put
    <2>6. watches' = Put(watches, -s[k], Append(watches[-s[k]], c))
      BY <2>3, <1>9 DEF Put
    <2> HIDE DEF others
    <2>7. ~True(s[1]) /\ toVisit' = Tail(toVisit) /\ UNCHANGED <<pc, trail, qhead, learnt>>
      BY <1>9
    <2> QED BY <1>1, <1>2, <2>3, <2>4, <2>5, <2>6, <2>7, VisitedMovedKeeps
  <1>10. CASE /\ Open(s[1]) /\ others = {}
              /\ clauses' = [clauses EXCEPT ![c] = s]
              /\ watches' = stays
              /\ trail' = Append(trail, Entry(s[1], c))
              /\ toVisit' = Tail(toVisit)
              /\ UNCHANGED <<pc, qhead, learnt>>
    BY <1>1, <1>2, <1>6, <1>10, VisitedSatisfiedKeeps
  <1>11. CASE /\ False(s[1]) /\ others = {}
              /\ clauses' = [clauses EXCEPT ![c] = s]
              /\ watches' = [stays EXCEPT ![p] = @ \o Tail(toVisit)]
              /\ toVisit' = <<>>
              /\ qhead' = Len(trail)
              /\ learnt' = AboveRoot(s)
              /\ pc' = "conflict"
              /\ UNCHANGED trail
    <2>1. \A m \in ToSet(s) : False(m)
      BY <1>6, <1>11
    <2>2. watches' = Put(watches, p, Append(watches[p], c) \o Tail(toVisit))
      BY <1>4, <1>7, <1>11 DEF Put
    <2>3. clauses' = Put(clauses, c, s)
      BY <1>11 DEF Put
    <2> HIDE DEF others, stays
    <2>4. /\ toVisit' = <<>> /\ qhead' = Len(trail) /\ learnt' = AboveRoot(s) /\ pc' = "conflict"
          /\ UNCHANGED trail
      BY <1>11
    <2> QED BY <1>1, <1>2, <2>1, <2>2, <2>3, <2>4, VisitedFalsifiedKeeps
  <1> HIDE DEF others, stays
  <1> QED BY <1>3, <1>8, <1>9, <1>10, <1>11

-----------------------------------------------------------------------------
(* Learning from a conflict.                                               *)

(* The literals of the clause being learned are false, above the root.     *)
LEMMA LearntFacts ==
  ASSUME Inv, pc = "conflict", NEW l \in learnt
  PROVE  /\ l \in Literals
         /\ level \in DOMAIN limits /\ level \in Nat /\ limits[level] \in Nat
         /\ Place(var(l)) \in DOMAIN trail /\ trail[Place(var(l))].lit = -l
         /\ Reason(var(l)) = trail[Place(var(l))].reason
         /\ ~AtRoot(Place(var(l)), limits)
         /\ LevelOf(var(l)) \in 1 .. level
         /\ \A k \in DOMAIN limits : k <= LevelOf(var(l)) <=> limits[k] < Place(var(l))
         /\ LevelOf(var(l)) = level <=> limits[level] < Place(var(l))
  <1>0. TypeOK /\ TrailOK(trail) /\ LimitsOK(trail, limits)
    BY DEF Inv
  <1>1. l \in Literals
    BY <1>0 DEF TypeOK
  <1>2. PICK i \in DOMAIN trail : trail[i].lit = -l /\ ~AtRoot(i, limits)
    BY DEF Inv, LearntOK
  <1>3. var(trail[i].lit) = var(l)
    BY <1>1, <1>2, LiteralFacts
  <1>4. Place(var(l)) = i /\ Reason(var(l)) = trail[i].reason
    BY <1>0, <1>3, TrailTypes, PlaceFacts
  <1>5. level \in DOMAIN limits /\ level \in Nat /\ level > 0 /\ limits[level] \in Nat
    <2>1. DOMAIN limits = 1 .. Len(limits) /\ Len(limits) \in Nat /\ level = Len(limits) /\ limits \in Seq(Nat)
      BY <1>0, TrailTypes
    <2>2. DOMAIN limits # {}
      BY <1>2 DEF AtRoot
    <2> QED BY <2>1, <2>2
  <1>6. /\ LevelOf(var(l)) \in 0 .. level
        /\ \A k \in DOMAIN limits : k <= LevelOf(var(l)) <=> limits[k] < i
        /\ LevelOf(var(l)) = 0 <=> AtRoot(i, limits)
        /\ level > 0 => (LevelOf(var(l)) = level <=> limits[level] < i)
    BY <1>0, <1>3, TrailTypes, LevelFacts
  <1>7. LevelOf(var(l)) \in 1 .. level
    BY <1>2, <1>5, <1>6
  <1> QED BY <1>1, <1>2, <1>4, <1>5, <1>6, <1>7

(* The literal that _analyze() resolves on.                                *)
LEMMA LatestFacts ==
  ASSUME Inv, pc = "conflict", Current # {}
  PROVE  Latest \in Current /\ \A m \in Current : Place(var(m)) <= Place(var(Latest))
  <1> DEFINE P(l) == Place(var(l))
             N == Len(trail)
             T == {N - P(l) : l \in Current}
  <1>0. TypeOK
    BY DEF Inv
  <1>1. \A l \in Current : P(l) \in 1 .. N
    BY <1>0, LearntFacts, TrailTypes DEF Current
  <1>2. N \in Nat
    BY <1>0, TrailTypes
  <1> HIDE DEF P, N
  <1>3. T \in SUBSET Nat /\ T # {}
    BY <1>1, <1>2
  <1>4. PICK x \in T : \A y \in T : x <= y
    BY <1>3, LeastNatural
  <1>5. PICK l \in Current : x = N - P(l)
    BY <1>4
  <1>6. ASSUME NEW m \in Current PROVE P(m) <= P(l)
    <2>1. N - P(l) <= N - P(m)
      BY <1>4, <1>5
    <2> QED BY <2>1, <1>1, <1>2
  <1>7. \E k \in Current : \A m \in Current : Place(var(m)) <= Place(var(k))
    BY <1>6 DEF P
  <1> QED BY <1>7 DEF Latest

(* The latest literal is resolved with its reason: what is learned still   *)
(* follows, is still false and still reaches into the current level.       *)
LEMMA ResolveLatestKeeps ==
  ASSUME Inv, ResolveLatest
  PROVE  Inv'
  <1> USE DEF database, query
  <1> DEFINE u == Latest
             i == Place(var(u))
             r == trail[i].reason
             q == clauses[r]
             A == AboveRoot(q)
  <1>0. /\ TypeOK /\ TrailOK(trail) /\ LimitsOK(trail, limits) /\ pc = "conflict"
        /\ UNCHANGED <<calls, pc, clauses, watches, trail, limits, qhead, toVisit, empty,
                       assumed, ui, answer, core, given>>
    BY DEF Inv, ResolveLatest
  <1>1. PICK m \in Current : m # u
    BY DEF ResolveLatest
  <1>2. u \in Current /\ Place(var(m)) <= i
    BY <1>0, <1>1, LatestFacts
  <1>3. u \in learnt /\ m \in learnt /\ LevelOf(var(u)) = level /\ LevelOf(var(m)) = level
    BY <1>1, <1>2 DEF Current
  <1>4. /\ u \in Literals /\ level \in DOMAIN limits /\ level \in Nat /\ limits[level] \in Nat
        /\ i \in DOMAIN trail /\ trail[i].lit = -u /\ Reason(var(u)) = r
        /\ ~AtRoot(i, limits) /\ limits[level] < i
    BY <1>0, <1>3, LearntFacts
  <1>5. /\ m \in Literals /\ Place(var(m)) \in DOMAIN trail /\ trail[Place(var(m))].lit = -m
        /\ limits[level] < Place(var(m))
    BY <1>0, <1>3, LearntFacts
  <1>6. learnt' = (learnt \cup A) \ {u, -u}
    BY <1>4 DEF ResolveLatest
  <1> HIDE DEF u, i, r, q, A
  <1>7. i \in Nat /\ Place(var(m)) \in Nat /\ limits \in Seq(Nat) /\ DOMAIN limits = 1 .. level
    BY <1>0, <1>4, <1>5, TrailTypes
  <1>8. -(-u) = u /\ -u \in Literals /\ -(-m) = m /\ -u # u /\ var(-u) = var(u)
    BY <1>4, <1>5, LiteralFacts
  <1>9. r # 0
    <2> SUFFICES ASSUME r = 0 PROVE FALSE
      OBVIOUS
    <2>1. PICK k \in DOMAIN limits : i = limits[k] + 1
      BY <1>4 DEF Inv, DecisionsOK, r
    <2>2. limits[k] \in Nat
      <3>1. limits \in Seq(Nat) /\ k \in DOMAIN limits
        BY <1>7, <2>1
      <3> QED BY <3>1
    <2>3. k = level
      <3>1. ~(k < level)
        <4>1. k < level => limits[k] < limits[level]
          BY <1>0, <1>4 DEF LimitsOK
        <4> QED BY <4>1, <2>1, <2>2, <1>4
      <3> QED BY <3>1, <1>4, <1>7
    <2>4. Place(var(m)) = i
      BY <2>1, <2>3, <1>2, <1>4, <1>5, <1>7
    <2>5. -m = -u
      BY <2>4, <1>4, <1>5
    <2> QED BY <2>5, <1>1, <1>8
  <1>10. /\ r \in DOMAIN clauses
         /\ \A l \in ToSet(q) : l # -u => TrueBy(-l, i - 1, trail)
    BY <1>4, <1>9 DEF Inv, ReasonsOK, r, q
  <1> DEFINE s == ToSet(q)
  <1>11. q \in Seq(Literals) /\ s \in SUBSET Literals /\ Follows(given, s)
    BY <1>0, <1>10, TrailTypes DEF q, Inv, SoundOK
  <1>12. /\ A \subseteq s
         /\ \A l \in s, j \in DOMAIN trail : trail[j].lit = -l => (l \in A <=> ~AtRoot(j, limits))
    BY <1>11, AboveRootFacts DEF A
  <1> HIDE DEF s
  <1>13. ASSUME NEW l \in s, l # -u
         PROVE  l # u /\ \E j \in DOMAIN trail : trail[j].lit = -l /\ (l \in A <=> ~AtRoot(j, limits))
    <2>1. PICK j \in DOMAIN trail : j <= i - 1 /\ trail[j].lit = -l
      BY <1>10, <1>13 DEF TrueBy, s
    <2>2. l # u
      <3>1. l = u => j = i
        BY <2>1, <1>0, <1>4 DEF TrailOK
      <3>2. j \in Nat
        BY <1>0, TrailTypes
      <3> QED BY <3>1, <3>2, <2>1, <1>7
    <2> QED BY <2>1, <2>2, <1>12
  <1>14. \A l \in learnt : l # -u
    <2> SUFFICES ASSUME -u \in learnt PROVE FALSE
      OBVIOUS
    <2>1. True(u)
      <3>1. trail[Place(var(-u))].lit = -(-u) /\ Place(var(-u)) \in DOMAIN trail
        BY <1>0, LearntFacts
      <3> QED BY <3>1, <1>8 DEF True
    <2>2. True(-u)
      BY <1>4 DEF True
    <2> QED BY <2>1, <2>2, <1>0, <1>4, NotBoth
  <1>15. Follows(given, learnt')
    <2> SUFFICES ASSUME NEW a \in Models(given) PROVE \E l \in learnt' : Holds(a, l)
      BY FollowsFacts
    <2>1. CASE Holds(a, u)
      <3>1. PICK l \in s : Holds(a, l)
        BY <1>11, FollowsFacts
      <3>2. ~Holds(a, -u)
        BY <2>1, <1>4, FollowsFacts
      <3>3. l # -u
        BY <3>1, <3>2
      <3>4. PICK j \in DOMAIN trail : trail[j].lit = -l /\ (l \in A <=> ~AtRoot(j, limits))
        BY <3>3, <1>13
      <3>5. l \in A
        BY <3>1, <3>4, <1>11, FalseAtRoot
      <3> QED BY <3>1, <3>3, <3>5, <1>6, <1>13
    <2>2. CASE ~Holds(a, u)
      <3>1. Follows(given, learnt)
        BY <1>0 DEF Inv, LearntOK
      <3>2. PICK l \in learnt : Holds(a, l)
        BY <3>1, FollowsFacts
      <3> QED BY <3>2, <2>2, <1>6, <1>14
    <2> QED BY <2>1, <2>2
  <1>16. \A l \in learnt' : \E j \in DOMAIN trail : trail[j].lit = -l /\ ~AtRoot(j, limits)
    <2> SUFFICES ASSUME NEW l \in learnt' PROVE \E j \in DOMAIN trail : trail[j].lit = -l /\ ~AtRoot(j, limits)
      OBVIOUS
    <2>1. CASE l \in learnt
      BY <2>1, <1>0 DEF Inv, LearntOK
    <2>2. CASE l \notin learnt
      <3>1. l \in A /\ l # -u /\ l \in s
        BY <2>2, <1>6, <1>12
      <3> QED BY <3>1, <1>13
    <2> QED BY <2>1, <2>2
  <1>17. \E l \in learnt', j \in DOMAIN trail : trail[j].lit = -l /\ j > limits[level]
    <2>1. m \in learnt'
      BY <1>1, <1>3, <1>6, <1>14
    <2>2. Place(var(m)) > limits[level]
      BY <1>4, <1>5, <1>7
    <2> QED BY <2>1, <2>2, <1>5
  <1>18. LearntOK'
    <2>1. level' = level /\ trail' = trail /\ limits' = limits /\ given' = given
      BY <1>0 DEF level
    <2> QED BY <2>1, <1>15, <1>16, <1>17 DEF LearntOK
  <1>19. TypeOK'
    <2>1. learnt' \in SUBSET Literals
      BY <1>0, <1>6, <1>11, <1>12 DEF TypeOK
    <2> QED BY <2>1, <1>0 DEF TypeOK
  <1>20. QueueOK'
    BY <1>0 DEF Inv, QueueOK
  <1>21. WatchesOK'
    BY <1>0, WatchesFrame DEF Inv
  <1>22. GuardsOK'
    <2>1. pc # "idle" /\ pc' # "idle" /\ (pc = "conflict" <=> pc' = "conflict")
      BY <1>0
    <2> QED BY <2>1, <1>0, GuardsFrame DEF Inv
  <1>23. AssumedOK'
    BY <1>0 DEF Inv, AssumedOK, True, TrueBy
  <1>24. AnswerOK'
    <2>1. answer = "NONE" /\ core = {} /\ ~empty
      BY <1>0 DEF Inv, AnswerOK, TypeOK
    <2> QED BY <2>1, <1>0, AnswerFrame
  <1> QED BY <1>0, <1>18, <1>19, <1>20, <1>21, <1>22, <1>23, <1>24, Frame DEF Inv

(* A clause added to the database, watched by its first two literals.      *)
LEMMA AttachKeeps ==
  ASSUME TypeOK, ClausesOK(clauses), WatchesOK, toVisit = <<>>, toVisit' = <<>>,
         NEW lits \in Seq(Literals), Len(lits) >= 2, NoRepetition(lits),
         Learn(Len(clauses) + 1, lits), NEW g, Follows(g, ToSet(lits))
  PROVE  /\ WatchesOK' /\ watches' \in [Literals -> Seq(Nat)]
         /\ clauses' \in Seq(Seq(Literals)) /\ ClausesOK(clauses')
         /\ DOMAIN clauses' = 1 .. Len(clauses) + 1 /\ clauses'[Len(clauses) + 1] = lits
         /\ \A c \in DOMAIN clauses : clauses'[c] = clauses[c]
         /\ MoreClauses(clauses, clauses', g)
  <1> DEFINE n == Len(clauses) + 1
  <1>1. /\ clauses \in Seq(Seq(Literals)) /\ DOMAIN clauses = 1 .. Len(clauses) /\ Len(clauses) \in Nat
        /\ watches \in [Literals -> Seq(Nat)] /\ n \in Nat /\ n \notin DOMAIN clauses
    BY DEF TypeOK
  <1>2. /\ clauses' \in Seq(Seq(Literals)) /\ DOMAIN clauses' = 1 .. n
        /\ clauses'[n] = lits /\ \A c \in DOMAIN clauses : clauses'[c] = clauses[c]
    <2>1. clauses' = Append(clauses, lits)
      BY DEF Learn
    <2> QED BY <2>1, <1>1, AppendFacts
  <1>3. watches' = [p \in Literals |-> IF p \in {-lits[1], -lits[2]} THEN Append(watches[p], n) ELSE watches[p]]
    BY DEF Learn, Attached
  <1> HIDE DEF n
  <1>4. \A c : c \in DOMAIN clauses' <=> c \in DOMAIN clauses \/ c = n
    <2> DEFINE m == Len(clauses)
    <2>1. DOMAIN clauses = 1 .. m /\ m \in Nat /\ DOMAIN clauses' = 1 .. n /\ n = m + 1
      BY <1>1, <1>2 DEF n
    <2> HIDE DEF m
    <2>2. \A c : c \in 1 .. m + 1 <=> c \in 1 .. m \/ c = m + 1
      BY <2>1
    <2> QED BY <2>1, <2>2
  <1>5. ClausesOK(clauses')
    BY <1>2, <1>4 DEF ClausesOK
  <1>6. MoreClauses(clauses, clauses', g)
    BY <1>2, <1>4 DEF MoreClauses
  <1>7. /\ \A q \in Literals : watches[q] \in Seq(Nat) /\ NoRepetition(watches[q]) /\ ToSet(watches[q]) \subseteq DOMAIN clauses
        /\ ToSet(<<>>) = {} /\ NoRepetition(<<>>)
    BY <1>1 DEF WatchesOK, ToSet, NoRepetition
  <1>8. \A q \in Literals :
           /\ Append(watches[q], n) \in Seq(Nat) /\ NoRepetition(Append(watches[q], n))
           /\ ToSet(Append(watches[q], n)) = ToSet(watches[q]) \cup {n}
    <2> SUFFICES ASSUME NEW q \in Literals
                 PROVE  /\ Append(watches[q], n) \in Seq(Nat) /\ NoRepetition(Append(watches[q], n))
                        /\ ToSet(Append(watches[q], n)) = ToSet(watches[q]) \cup {n}
      OBVIOUS
    <2>1. n \notin ToSet(watches[q])
      BY <1>1, <1>7
    <2> QED BY <2>1, <1>1, <1>7, NewElement
  <1> DEFINE new(q) == q = -lits[1] \/ q = -lits[2]
  <1>9. \A q \in Literals :
           /\ watches'[q] \in Seq(Nat) /\ NoRepetition(watches'[q])
           /\ ToSet(watches'[q]) = ToSet(watches[q]) \cup (IF new(q) THEN {n} ELSE {})
    <2> SUFFICES ASSUME NEW q \in Literals
                 PROVE  /\ watches'[q] \in Seq(Nat) /\ NoRepetition(watches'[q])
                        /\ ToSet(watches'[q]) = ToSet(watches[q]) \cup (IF new(q) THEN {n} ELSE {})
      OBVIOUS
    <2>1. CASE new(q)
      <3>1. watches'[q] = Append(watches[q], n)
        BY <1>3, <2>1
      <3> QED BY <3>1, <2>1, <1>8
    <2>2. CASE ~new(q)
      <3>1. watches'[q] = watches[q]
        BY <1>3, <2>2
      <3> QED BY <3>1, <2>2, <1>7
    <2> QED BY <2>1, <2>2
  <1>10. watches' \in [Literals -> Seq(Nat)]
    <2>1. DOMAIN watches' = Literals /\ watches' = [p \in Literals |-> watches'[p]]
      BY <1>3
    <2> QED BY <2>1, <1>9
  <1>11. WatchesOK'
    <2>1. NoRepetition(toVisit') /\ ToSet(toVisit') \subseteq DOMAIN clauses'
      BY <1>7
    <2>2. \A q \in Literals : NoRepetition(watches'[q]) /\ ToSet(watches'[q]) \subseteq DOMAIN clauses'
      BY <1>4, <1>7, <1>9
    <2>3. ASSUME NEW c \in DOMAIN clauses', NEW q \in Literals
          PROVE  Listed(c, q)' <=> q = -clauses'[c][1] \/ q = -clauses'[c][2]
      <3>1. Listed(c, q)' <=> c \in ToSet(watches'[q])
        BY <1>7 DEF Listed
      <3>2. CASE c = n
        <4>1. c \notin ToSet(watches[q])
          BY <3>2, <1>1, <1>7
        <4> QED BY <3>1, <3>2, <4>1, <1>2, <1>9
      <3>3. CASE c # n
        <4>1. c \in DOMAIN clauses /\ clauses'[c] = clauses[c]
          BY <3>3, <1>2, <1>4
        <4>2. c \in ToSet(watches[q]) <=> q = -clauses[c][1] \/ q = -clauses[c][2]
          BY <4>1, <1>7 DEF WatchesOK, Listed
        <4> QED BY <3>1, <3>3, <4>1, <4>2, <1>9
      <3> QED BY <3>2, <3>3
    <2> QED BY <2>1, <2>2, <2>3 DEF WatchesOK
  <1> QED BY <1>2, <1>5, <1>6, <1>10, <1>11 DEF n

(* The learnt clause: its first literal is the one of the current level,   *)
(* the level to jump back to is the highest of the others.                 *)
LEMMA LearnedFacts ==
  ASSUME Inv, pc = "conflict", NEW uip \in Current, Current = {uip}, NEW lits \in LearntSequences(uip)
  PROVE  /\ lits \in Seq(Literals) /\ Len(lits) \in Nat /\ Len(lits) >= 1 /\ lits[1] = uip
         /\ ToSet(lits) = learnt /\ NoRepetition(lits)
         /\ BackjumpLevel(lits) \in Nat /\ BackjumpLevel(lits) < level
         /\ \A l \in learnt : l # uip => LevelOf(var(l)) <= BackjumpLevel(lits) /\ Len(lits) # 1
         /\ Len(lits) # 1 => lits[2] \in learnt /\ lits[2] # uip /\ LevelOf(var(lits[2])) = BackjumpLevel(lits)
  <1> DEFINE S == learnt \ {uip}
  <1>0. TypeOK /\ uip \in learnt /\ uip \in Literals /\ learnt \subseteq Literals
    BY DEF Inv, TypeOK, Current
  <1>1. PICK r \in SetToSeqs(S) : lits = <<uip>> \o r /\ \A i \in DOMAIN r : LevelOf(var(r[i])) <= LevelOf(var(r[1]))
    BY DEF LearntSequences
  <1>2. IsFiniteSet(S)
    BY <1>0, LiteralsFinite, FS_Subset
  <1>3. r \in Seq(S) /\ NoRepetition(r) /\ ToSet(r) = S
    <2> HIDE DEF S
    <2> QED BY <1>2, EnumerationFacts
  <1>4. r \in Seq(Literals)
    BY <1>0, <1>3
  <1> DEFINE h == <<uip>>
  <1>5. h \in Seq(Literals) /\ Len(h) = 1 /\ ToSet(h) = {uip} /\ NoRepetition(h)
    BY <1>0 DEF ToSet, NoRepetition
  <1>6. /\ lits \in Seq(Literals) /\ Len(lits) = 1 + Len(r) /\ lits[1] = uip
        /\ Len(r) \in Nat /\ DOMAIN r = 1 .. Len(r)
        /\ Len(r) > 0 => lits[2] = r[1]
    BY <1>0, <1>1, <1>4
  <1>7. ToSet(lits) = learnt /\ NoRepetition(lits)
    <2>1. ToSet(h) \cap ToSet(r) = {}
      BY <1>3, <1>5
    <2>2. lits = h \o r
      BY <1>1
    <2> HIDE DEF h
    <2>3. ToSet(lits) = ToSet(h) \cup ToSet(r) /\ NoRepetition(lits)
      BY <2>1, <2>2, <1>3, <1>4, <1>5, ConcatFacts
    <2> QED BY <2>3, <1>0, <1>3, <1>5
  <1>8. \A l \in S : LevelOf(var(l)) \in 1 .. level /\ LevelOf(var(l)) < level /\ level \in Nat
    <2> SUFFICES ASSUME NEW l \in S PROVE LevelOf(var(l)) \in 1 .. level /\ LevelOf(var(l)) < level /\ level \in Nat
      OBVIOUS
    <2>1. LevelOf(var(l)) \in 1 .. level /\ level \in Nat
      BY LearntFacts
    <2>2. LevelOf(var(l)) # level
      BY DEF Current
    <2> QED BY <2>1, <2>2
  <1>9. level \in Nat /\ level > 0
    <2>1. level \in DOMAIN limits /\ level \in Nat
      BY <1>0, LearntFacts
    <2>2. DOMAIN limits = 1 .. Len(limits)
      BY <1>0, TrailTypes
    <2> QED BY <2>1, <2>2
  <1>10. CASE Len(r) = 0
    <2>1. S = {}
      BY <1>3, <1>6, <1>10 DEF ToSet
    <2>2. BackjumpLevel(lits) = 0 /\ Len(lits) = 1
      BY <1>6, <1>10 DEF BackjumpLevel
    <2> QED BY <2>1, <2>2, <1>6, <1>7, <1>9
  <1>11. CASE Len(r) > 0
    <2>1. 1 \in DOMAIN r /\ r[1] \in S /\ lits[2] = r[1] /\ Len(lits) # 1
      BY <1>3, <1>6, <1>11
    <2>2. BackjumpLevel(lits) = LevelOf(var(r[1]))
      BY <2>1 DEF BackjumpLevel
    <2>3. ASSUME NEW l \in S PROVE LevelOf(var(l)) <= LevelOf(var(r[1]))
      <3>1. PICK i \in DOMAIN r : r[i] = l
        BY <1>3 DEF ToSet
      <3> QED BY <3>1, <1>1
    <2>4. LevelOf(var(r[1])) \in Nat /\ LevelOf(var(r[1])) < level
      BY <2>1, <1>8
    <2> QED BY <2>1, <2>2, <2>3, <2>4, <1>6, <1>7, <1>9
  <1> QED BY <1>6, <1>10, <1>11

(* Where a backjump leads: the trail tr with levels lim is what is left of *)
(* the trail, n the literals of it.                                        *)
JumpsTo(tr, lim) ==
  /\ Cut(trail, limits, tr, lim)
  /\ Len(lim) < level
  /\ limits' = lim /\ qhead' = Len(tr)
  /\ Reshaped(tr, lim, trail', clauses', given')

(* A backjump, with or without a restart, keeps the invariant: the learnt  *)
(* clause forces its first literal where it leads.                         *)
LEMMA JumpedKeeps ==
  ASSUME Inv, pc = "conflict", NEW tr, NEW lim, JumpsTo(tr, lim),
         UNCHANGED <<calls, toVisit, empty, assumed, answer, core, given>>,
         learnt' = {}, ui' = 0, pc' = "propagate",
         WatchesOK', watches' \in [Literals -> Seq(Nat)],
         clauses' \in Seq(Seq(Literals)), ClausesOK(clauses'),
         \A c \in DOMAIN clauses : c \in DOMAIN clauses' /\ clauses'[c] = clauses[c],
         MoreClauses(clauses, clauses', given),
         \A c \in DOMAIN clauses' : c \notin DOMAIN clauses =>
           \A i \in DOMAIN tr :
             /\ tr[i].lit # -clauses'[c][1]
             /\ tr[i].lit = -clauses'[c][2] =>
                  \E j \in DOMAIN trail' : trail'[j].lit = clauses'[c][1] /\ \A k \in DOMAIN lim : ~(i <= lim[k])
  PROVE  Inv'
  <1>0. /\ TypeOK /\ TrailOK(trail) /\ LimitsOK(trail, limits)
        /\ trail \in Seq(Entries) /\ limits \in Seq(Nat)
        /\ tr \in Seq(Entries) /\ lim \in Seq(Nat)
        /\ toVisit = <<>> /\ toVisit' = <<>>
        /\ Cut(trail, limits, tr, lim) /\ limits' = lim /\ qhead' = Len(tr)
        /\ Reshaped(tr, lim, trail', clauses', given')
    BY DEF Inv, TypeOK, QueueOK, Cut, JumpsTo
  <1>1. /\ LimitsOK(tr, lim) /\ TrailOK(tr)
        /\ \A i \in DOMAIN tr : i \in DOMAIN trail /\ tr[i] = trail[i]
        /\ \A k \in DOMAIN lim : k \in DOMAIN limits /\ lim[k] = limits[k] /\ limits[k] < Len(tr)
        /\ \A i \in DOMAIN tr, k \in DOMAIN limits : k \notin DOMAIN lim => i <= limits[k]
    <2>1. trail \in Seq(Entries) /\ limits \in Seq(Nat) /\ LimitsOK(trail, limits) /\ TrailOK(trail)
          /\ Cut(trail, limits, tr, lim)
      BY <1>0
    <2> QED BY <2>1, CutFacts
  <1>2. /\ trail' \in Seq(Entries)
        /\ DOMAIN tr = 1 .. Len(tr) /\ DOMAIN trail' = 1 .. Len(trail') /\ Len(tr) \in Nat /\ Len(trail') \in Nat
        /\ Len(trail') = Len(tr) \/ Len(trail') = Len(tr) + 1
        /\ \A i \in DOMAIN tr : i \in DOMAIN trail' /\ trail'[i] = tr[i]
    BY <1>0, <1>1, ReshapedFacts
  <1>3. /\ trail' \in Seq(Entries) /\ limits' \in Seq(Nat)
        /\ TrailOK(trail)' /\ LimitsOK(trail, limits)'
        /\ ReasonsOK' /\ DecisionsOK' /\ GivenOK' /\ SoundOK'
    <2>1. MoreClauses(clauses, clauses', given')
      OBVIOUS
    <2>2. /\ given \subseteq given' /\ (empty => empty') /\ (empty' => Follows(given', {}))
          /\ \A g \in given' : g \in given
      <3>1. empty => Follows(given, {})
        BY DEF Inv, SoundOK
      <3> QED BY <3>1
    <2> QED BY <2>1, <2>2, <1>0, Reshape
  <1> DEFINE N == Len(tr)
  <1>13. /\ DOMAIN tr = 1 .. N /\ N \in Nat /\ Len(trail') \in Nat /\ N <= Len(trail')
         /\ DOMAIN trail' = 1 .. Len(trail') /\ Len(tr) = N
    <2> DEFINE M == Len(trail')
    <2>1. DOMAIN tr = 1 .. N /\ N \in Nat /\ M \in Nat /\ (M = N \/ M = N + 1) /\ DOMAIN trail' = 1 .. M
      BY <1>2
    <2> HIDE DEF N, M
    <2>2. N <= M
      BY <2>1
    <2> QED BY <2>1, <2>2 DEF M, N
  <1> HIDE DEF N
  <1> DEFINE m == Len(lim) + 1
  <1>4. /\ m \in DOMAIN limits /\ m \notin DOMAIN lim /\ m <= level /\ level \in DOMAIN limits /\ level = Len(limits)
        /\ Len(tr) = limits[m] /\ level \in Nat /\ limits[level] \in Nat /\ m \in Nat
    <2> DEFINE a == Len(limits)
               b == Len(lim)
    <2>1. /\ DOMAIN limits = 1 .. a /\ a \in Nat /\ level = a
          /\ DOMAIN lim = 1 .. b /\ b \in Nat /\ b < level
          /\ Cut(trail, limits, tr, lim)
      BY <1>0, TrailTypes DEF JumpsTo
    <2>2. b # a => Len(tr) = limits[b + 1]
      BY <2>1 DEF Cut
    <2>5. m = b + 1 /\ level = a /\ Len(limits) = a
      BY <2>1
    <2> HIDE DEF a, b, m
    <2>3. b + 1 \in 1 .. a /\ b + 1 \notin 1 .. b /\ b + 1 <= a /\ a \in 1 .. a /\ b # a /\ b + 1 \in Nat
      BY <2>1
    <2>4. limits[a] \in Nat
      BY <2>1, <2>3, <1>0
    <2>6. m \in DOMAIN limits /\ m \notin DOMAIN lim /\ level \in DOMAIN limits
      BY <2>1, <2>3, <2>5, Zenon
    <2>7. Len(tr) = limits[m] /\ limits[level] \in Nat
      BY <2>2, <2>3, <2>4, <2>5, Zenon
    <2> QED BY <2>1, <2>3, <2>5, <2>6, <2>7, Zenon
  <1>5. Len(tr) <= limits[level]
    <2>1. CASE m = level
      BY <2>1, <1>4
    <2>2. CASE m < level
      <3>1. limits[m] < limits[level]
        BY <2>2, <1>0, <1>4 DEF LimitsOK
      <3>2. limits[m] = N /\ N \in Nat /\ limits[level] \in Nat
        BY <1>4, <1>13
      <3> QED BY <3>1, <3>2, <1>13
    <2> QED BY <2>1, <2>2, <1>4
  <1> HIDE DEF m
  <1>6. TypeOK'
    BY <1>0, <1>2 DEF TypeOK
  <1>7. QueueOK'
    <2>1. \A k \in DOMAIN limits' : limits'[k] <= qhead'
      <3>1. \A k \in DOMAIN lim : lim[k] \in Nat /\ lim[k] < Len(tr)
        <4>1. \A k \in DOMAIN lim : lim[k] \in Nat
          BY <1>0
        <4> QED BY <4>1, <1>1
      <3>2. qhead' = N /\ limits' = lim
        BY <1>0, <1>13
      <3>3. \A k \in DOMAIN lim : lim[k] <= N
        BY <3>1, <1>13
      <3> QED BY <3>2, <3>3
    <2>2. qhead' <= Len(trail')
      BY <1>0, <1>13
    <2> QED BY <2>1, <2>2, <1>0 DEF QueueOK
  <1>8. GuardsOK'
    <2>0. /\ Visited' = Len(tr) /\ Visited = limits[level] /\ ToSet(toVisit) = {} /\ ToSet(toVisit') = {}
      <3>1. limits # <<>>
        BY <1>4
      <3>2. ToSet(<<>>) = {}
        BY DEF ToSet
      <3> QED BY <3>1, <3>2, <1>0, <1>4 DEF Visited
    <2>1. \A i \in DOMAIN trail' : i <= Len(tr) => i \in DOMAIN tr /\ i \in DOMAIN trail /\ trail'[i] = trail[i] /\ tr[i] = trail[i]
      <3> SUFFICES ASSUME NEW i \in DOMAIN trail', i <= Len(tr)
                   PROVE  i \in DOMAIN tr /\ i \in DOMAIN trail /\ trail'[i] = trail[i] /\ tr[i] = trail[i]
        OBVIOUS
      <3>1. i \in DOMAIN tr
        BY <1>13
      <3> QED BY <3>1, <1>1, <1>2
    <2>2. ASSUME NEW c, NEW w, NEW o, Guarded(c, w, o)
          PROVE  Guarded(c, w, o)'
      <3> SUFFICES ASSUME NEW i \in DOMAIN trail', i <= Len(tr), trail'[i].lit = -w
                   PROVE  \E j \in DOMAIN trail' : trail'[j].lit = o /\ \A k \in DOMAIN lim : i <= lim[k] => j <= lim[k]
        BY <2>0, <1>0 DEF Guarded
      <3>1. i \in DOMAIN trail /\ trail[i].lit = -w /\ i \in DOMAIN tr
        BY <2>1
      <3>2. i <= Visited
        <4>1. i \in Nat
          BY <3>1, <1>0, TrailTypes
        <4> QED BY <4>1, <2>0, <1>2, <1>4, <1>5
      <3>3. PICK j \in DOMAIN trail : trail[j].lit = o /\ \A k \in DOMAIN limits : i <= limits[k] => j <= limits[k]
        BY <3>1, <3>2, <2>0, <2>2 DEF Guarded
      <3>4. j <= Len(tr) /\ j \in 1 .. Len(trail)
        <4>1. i <= limits[m]
          BY <3>1, <1>4
        <4> QED BY <4>1, <3>3, <1>0, <1>4, TrailTypes
      <3>5. j \in DOMAIN tr
        <4>1. j \in Nat /\ j >= 1
          BY <3>4, <1>0, TrailTypes
        <4> QED BY <3>4, <4>1, <1>13
      <3>6. j \in DOMAIN trail' /\ trail'[j].lit = o
        BY <3>3, <3>5, <1>1, <1>2
      <3>7. \A k \in DOMAIN lim : i <= lim[k] => j <= lim[k]
        BY <3>3, <1>1
      <3> QED BY <3>6, <3>7
    <2>3. ASSUME NEW c \in DOMAIN clauses'
          PROVE  (Guarded(c, clauses[c][1], clauses[c][2]) /\ Guarded(c, clauses[c][2], clauses[c][1]))'
      <3>0. PICK w, o : w = clauses'[c][1] /\ o = clauses'[c][2]
        OBVIOUS
      <3>1. CASE c \in DOMAIN clauses
        <4>1. Guarded(c, w, o) /\ Guarded(c, o, w)
          BY <3>0, <3>1 DEF Inv, GuardsOK
        <4>2. Guarded(c, w, o)' /\ Guarded(c, o, w)'
          BY <4>1, <2>2
        <4> QED BY <3>0, <4>2, GuardsPrimed
      <3>2. CASE c \notin DOMAIN clauses
        <4>1. \A i \in DOMAIN tr :
                /\ tr[i].lit # -w
                /\ tr[i].lit = -o =>
                     \E j \in DOMAIN trail' : trail'[j].lit = w /\ \A k \in DOMAIN lim : ~(i <= lim[k])
          BY <3>0, <3>2, <2>3
        <4>2. Guarded(c, w, o)'
          <5> SUFFICES ASSUME NEW i \in DOMAIN trail', i <= Len(tr), trail'[i].lit = -w PROVE FALSE
            BY <2>0 DEF Guarded
          <5> QED BY <2>1, <4>1
        <4>3. Guarded(c, o, w)'
          <5> SUFFICES ASSUME NEW i \in DOMAIN trail', i <= Len(tr), trail'[i].lit = -o
                       PROVE  \E j \in DOMAIN trail' : trail'[j].lit = w /\ \A k \in DOMAIN lim : i <= lim[k] => j <= lim[k]
            BY <2>0, <1>0 DEF Guarded
          <5>1. i \in DOMAIN tr /\ tr[i].lit = -o
            BY <2>1
          <5>2. PICK j \in DOMAIN trail' : trail'[j].lit = w /\ \A k \in DOMAIN lim : ~(i <= lim[k])
            BY <5>1, <4>1
          <5> QED BY <5>2
        <4> QED BY <3>0, <4>2, <4>3, GuardsPrimed
      <3> QED BY <3>1, <3>2
    <2> QED BY <2>3 DEF GuardsOK
  <1>9. LearntOK'
    BY DEF LearntOK
  <1>10. AssumedOK'
    <2>1. LevelsAssumed(trail', lim, assumed)
      BY <1>0, LevelsKept
    <2>2. Len(assumed) \in Nat
      BY <1>0 DEF TypeOK
    <2>3. ui' <= Len(assumed) /\ 1 .. 0 = {}
      BY <2>2
    <2> QED BY <2>1, <2>3, <1>0 DEF AssumedOK, LevelsAssumed
  <1>11. AnswerOK'
    <2>1. answer = "NONE" /\ core = {} /\ ~empty
      BY DEF Inv, AnswerOK, TypeOK
    <2> QED BY <2>1, AnswerFrame
  <1>12. ClausesOK(clauses)'
    BY DEF ClausesOK
  <1> QED BY <1>3, <1>6, <1>7, <1>8, <1>9, <1>10, <1>11, <1>12 DEF Inv

(* Where the literals of the learnt clause are when the levels above the   *)
(* one jumped to are gone: the trail is tr, its levels lim.                *)
Undone(uip, lits, tr, lim) ==
  /\ Cut(trail, limits, tr, lim)
  /\ tr \in Seq(Entries) /\ lim \in Seq(Nat) /\ TrailOK(tr) /\ LimitsOK(tr, lim)
  /\ \A i \in DOMAIN tr : tr[i] = trail[i] /\ tr[i].lit # uip /\ tr[i].lit # -uip
  /\ \A k \in DOMAIN lim : k \in DOMAIN limits /\ lim[k] = limits[k] /\ lim[k] < Len(tr)
  /\ Len(lim) < level /\ Len(tr) < Len(trail) /\ Len(lim) = BackjumpLevel(lits)
  /\ \A l \in learnt : l # uip => TrueBy(-l, Len(tr), tr)
  /\ \A i \in DOMAIN tr, k \in DOMAIN lim : Len(lits) # 1 /\ tr[i].lit = -lits[2] => lim[k] < i

(* The level jumped to is below the current one and keeps the other        *)
(* literals of the learnt clause false.                                    *)
LEMMA BackjumpFacts ==
  ASSUME Inv, pc = "conflict", NEW uip \in Current, Current = {uip}, NEW lits \in LearntSequences(uip),
         NEW tr, NEW lim, tr = Cancelled(BackjumpLevel(lits)).trail, lim = Cancelled(BackjumpLevel(lits)).limits
  PROVE  Undone(uip, lits, tr, lim) /\ Cancelled(BackjumpLevel(lits)).qhead = Len(tr)
  <1> DEFINE b == BackjumpLevel(lits)
  <1>0. /\ TypeOK /\ TrailOK(trail) /\ LimitsOK(trail, limits) /\ qhead = Len(trail)
        /\ trail \in Seq(Entries) /\ limits \in Seq(Nat) /\ Len(trail) \in Nat /\ DOMAIN trail = 1 .. Len(trail)
        /\ DOMAIN limits = 1 .. level /\ level \in Nat /\ level = Len(limits)
        /\ uip \in learnt /\ LevelOf(var(uip)) = level
    <2>1. TypeOK /\ TrailOK(trail) /\ LimitsOK(trail, limits) /\ qhead = Len(trail)
      BY DEF Inv, QueueOK
    <2> QED BY <2>1, TrailTypes DEF Current
  <1>1. /\ b \in Nat /\ b < level
        /\ \A l \in learnt : l # uip => LevelOf(var(l)) <= b
        /\ Len(lits) # 1 => lits[2] \in learnt /\ lits[2] # uip /\ LevelOf(var(lits[2])) = b
    BY LearnedFacts
  <1> HIDE DEF b
  <1>2. /\ Cut(trail, limits, tr, lim)
        /\ Len(lim) = b
        /\ Cancelled(b).qhead = IF qhead <= Len(tr) THEN qhead ELSE Len(tr)
    <2>1. \A n \in Nat :
            /\ Cut(trail, limits, Cancelled(n).trail, Cancelled(n).limits)
            /\ Len(Cancelled(n).limits) = IF level <= n THEN level ELSE n
            /\ qhead <= Len(trail) =>
                 Cancelled(n).qhead = IF qhead <= Len(Cancelled(n).trail) THEN qhead ELSE Len(Cancelled(n).trail)
      BY <1>0, CancelledFacts
    <2>2. tr = Cancelled(b).trail /\ lim = Cancelled(b).limits
      BY DEF b
    <2>3. qhead <= Len(trail) /\ ~(level <= b)
      BY <1>0, <1>1
    <2> QED BY <2>1, <2>2, <2>3, <1>1
  <1>3. /\ LimitsOK(tr, lim) /\ TrailOK(tr)
        /\ \A i \in DOMAIN tr : i \in DOMAIN trail /\ tr[i] = trail[i]
        /\ \A k \in DOMAIN lim : k \in DOMAIN limits /\ lim[k] = limits[k] /\ limits[k] < Len(tr)
        /\ \A l, n : TrueBy(l, n, trail) /\ n \in Nat /\ n <= Len(tr) => TrueBy(l, n, tr)
    BY <1>0, <1>2, CutFacts
  <1>4. tr \in Seq(Entries) /\ lim \in Seq(Nat)
    BY <1>2 DEF Cut
  <1> DEFINE N == Len(tr)
  <1>5. DOMAIN tr = 1 .. N /\ N \in Nat /\ DOMAIN lim = 1 .. b
    BY <1>2, <1>4
  <1>6. b + 1 \in DOMAIN limits /\ N = limits[b + 1]
    <2>1. Len(lim) # Len(limits)
      <3>1. Len(lim) = b /\ level = Len(limits)
        BY <1>0, <1>2
      <3>2. b # level
        <4>1. b < level
          BY <1>1
        <4>2. level \in Nat
          BY <1>0
        <4> QED BY <4>1, <4>2
      <3> QED BY <3>1, <3>2, Zenon
    <2>2. N = limits[Len(lim) + 1]
      BY <2>1, <1>2 DEF Cut
    <2>3. b + 1 \in 1 .. level
      BY <1>0, <1>1
    <2> QED BY <2>2, <2>3, <1>0, <1>2
  <1>7. N < Len(trail)
    BY <1>0, <1>6 DEF LimitsOK
  <1> HIDE DEF N
  <1>8. ASSUME NEW i \in DOMAIN tr PROVE tr[i].lit # uip /\ tr[i].lit # -uip
    <2>1. /\ uip \in Literals /\ Place(var(uip)) \in DOMAIN trail /\ trail[Place(var(uip))].lit = -uip
          /\ \A k \in DOMAIN limits : k <= LevelOf(var(uip)) <=> limits[k] < Place(var(uip))
      BY <1>0, LearntFacts
    <2>2. b + 1 <= level
      BY <1>0, <1>1
    <2>3. N < Place(var(uip))
      BY <2>1, <2>2, <1>0, <1>6
    <2>4. i # Place(var(uip)) /\ i \in DOMAIN trail /\ tr[i] = trail[i]
      <3>1. i <= N /\ i \in Nat
        BY <1>5
      <3>2. Place(var(uip)) \in Nat
        BY <2>1, <1>0
      <3> QED BY <3>1, <3>2, <2>3, <1>3, <1>5
    <2>5. var(-uip) = var(uip)
      BY <2>1, LiteralFacts
    <2>6. var(tr[i].lit) # var(uip)
      BY <2>1, <2>4, <2>5, <1>0 DEF TrailOK
    <2> QED BY <2>5, <2>6
  <1>9. ASSUME NEW l \in learnt, l # uip PROVE TrueBy(-l, N, tr)
    <2>1. /\ Place(var(l)) \in DOMAIN trail /\ trail[Place(var(l))].lit = -l
          /\ LevelOf(var(l)) \in 1 .. level
          /\ \A k \in DOMAIN limits : k <= LevelOf(var(l)) <=> limits[k] < Place(var(l))
      BY LearntFacts
    <2>2. ~(b + 1 <= LevelOf(var(l)))
      BY <2>1, <1>0, <1>1, <1>9
    <2>3. Place(var(l)) <= N
      <3>1. ~(N < Place(var(l)))
        BY <2>1, <2>2, <1>6
      <3>2. Place(var(l)) \in Nat
        BY <2>1, <1>0
      <3> QED BY <3>1, <3>2, <1>5
    <2>4. TrueBy(-l, N, trail)
      BY <2>1, <2>3 DEF TrueBy
    <2>5. N \in Nat /\ N <= Len(tr)
      BY <1>5 DEF N
    <2> QED BY <2>4, <2>5, <1>3
  <1>10. ASSUME NEW i \in DOMAIN tr, NEW k \in DOMAIN lim, Len(lits) # 1, tr[i].lit = -lits[2]
         PROVE  lim[k] < i
    <2> DEFINE l == lits[2]
    <2>1. l \in learnt /\ LevelOf(var(l)) = b
      BY <1>1, <1>10
    <2> HIDE DEF l
    <2>2. /\ l \in Literals /\ Place(var(l)) \in DOMAIN trail /\ trail[Place(var(l))].lit = -l
          /\ \A h \in DOMAIN limits : h <= LevelOf(var(l)) <=> limits[h] < Place(var(l))
      BY <2>1, LearntFacts
    <2>3. i \in DOMAIN trail /\ trail[i].lit = -l
      BY <1>3, <1>10 DEF l
    <2>4. i = Place(var(l))
      BY <2>2, <2>3, <1>0 DEF TrailOK
    <2>5. k \in DOMAIN limits /\ lim[k] = limits[k] /\ k <= b
      <3>1. k <= b
        BY <1>5
      <3> QED BY <3>1, <1>3
    <2> QED BY <2>1, <2>2, <2>4, <2>5
  <1>11. Cancelled(b).qhead = N
    <2>1. ~(qhead <= N)
      BY <1>0, <1>5, <1>7
    <2> QED BY <2>1, <1>2 DEF N
  <1> QED BY <1>0, <1>1, <1>2, <1>3, <1>4, <1>7, <1>8, <1>9, <1>10, <1>11 DEF N, b, Undone

(* The learnt clause is recorded, the search jumps back and perhaps        *)
(* restarts.                                                               *)
LEMMA LearnAndJumpKeeps ==
  ASSUME Inv, LearnAndJump
  PROVE  Inv'
  <1> USE DEF database
  <1>0. PICK uip \in Current :
          /\ Current = {uip}
          /\ \E lits \in LearntSequences(uip), restart \in BOOLEAN :
               LET back == Cancelled(BackjumpLevel(lits))
                   unit == Len(lits) = 1
                   jumped == Append(back.trail, Entry(lits[1], IF unit THEN 0 ELSE Len(clauses) + 1))
                   root == IF back.limits = <<>> THEN Len(jumped) ELSE back.limits[1]
               IN  /\ \/ unit /\ UNCHANGED database
                      \/ ~unit /\ Learn(Len(clauses) + 1, lits)
                   /\ trail' = IF restart THEN SubSeq(jumped, 1, root) ELSE jumped
                   /\ limits' = IF restart THEN <<>> ELSE back.limits
                   /\ qhead' = IF restart THEN Min({back.qhead, root}) ELSE back.qhead
    BY Zenon DEF LearnAndJump
  <1>1. PICK lits \in LearntSequences(uip), restart \in BOOLEAN :
          /\ Current = {uip}
          /\ LET back == Cancelled(BackjumpLevel(lits))
                 unit == Len(lits) = 1
                 jumped == Append(back.trail, Entry(lits[1], IF unit THEN 0 ELSE Len(clauses) + 1))
                 root == IF back.limits = <<>> THEN Len(jumped) ELSE back.limits[1]
             IN  /\ \/ unit /\ UNCHANGED database
                    \/ ~unit /\ Learn(Len(clauses) + 1, lits)
                 /\ trail' = IF restart THEN SubSeq(jumped, 1, root) ELSE jumped
                 /\ limits' = IF restart THEN <<>> ELSE back.limits
                 /\ qhead' = IF restart THEN Min({back.qhead, root}) ELSE back.qhead
    BY <1>0, Zenon
  <1>2. PICK tr, lim : tr = Cancelled(BackjumpLevel(lits)).trail /\ lim = Cancelled(BackjumpLevel(lits)).limits
    OBVIOUS
  <1>3. PICK e : e = Entry(lits[1], IF Len(lits) = 1 THEN 0 ELSE Len(clauses) + 1)
    OBVIOUS
  <1>4. /\ pc = "conflict" /\ learnt' = {} /\ ui' = 0 /\ pc' = "propagate"
        /\ UNCHANGED <<calls, toVisit, empty, assumed, answer, core, given>>
    BY DEF LearnAndJump, Rescan
  <1>5. /\ lits \in Seq(Literals) /\ Len(lits) \in Nat /\ Len(lits) >= 1 /\ lits[1] = uip
        /\ ToSet(lits) = learnt /\ NoRepetition(lits)
        /\ BackjumpLevel(lits) \in Nat
        /\ \A l \in learnt : l # uip => LevelOf(var(l)) <= BackjumpLevel(lits) /\ Len(lits) # 1
        /\ Len(lits) # 1 => lits[2] \in learnt /\ lits[2] # uip
    BY <1>1, <1>4, LearnedFacts
  <1>6. /\ Cut(trail, limits, tr, lim)
        /\ tr \in Seq(Entries) /\ lim \in Seq(Nat) /\ TrailOK(tr) /\ LimitsOK(tr, lim)
        /\ \A i \in DOMAIN tr : tr[i] = trail[i] /\ tr[i].lit # uip /\ tr[i].lit # -uip
        /\ \A k \in DOMAIN lim : k \in DOMAIN limits /\ lim[k] = limits[k] /\ lim[k] < Len(tr)
        /\ Len(lim) < level /\ Len(tr) < Len(trail) /\ Len(lim) = BackjumpLevel(lits)
        /\ \A l \in learnt : l # uip => TrueBy(-l, Len(tr), tr)
        /\ \A i \in DOMAIN tr, k \in DOMAIN lim : Len(lits) # 1 /\ tr[i].lit = -lits[2] => lim[k] < i
        /\ Cancelled(BackjumpLevel(lits)).qhead = Len(tr)
    <2>1. Inv /\ pc = "conflict" /\ Current = {uip} /\ uip \in Current /\ lits \in LearntSequences(uip)
      BY <1>1, <1>4
    <2>2. tr = Cancelled(BackjumpLevel(lits)).trail /\ lim = Cancelled(BackjumpLevel(lits)).limits
      BY <1>2
    <2>3. Undone(uip, lits, tr, lim) /\ Cancelled(BackjumpLevel(lits)).qhead = Len(tr)
      BY <2>1, <2>2, BackjumpFacts
    <2> QED BY <2>3 DEF Undone
  <1> DEFINE jumped == Append(tr, e)
             root == IF lim = <<>> THEN Len(jumped) ELSE lim[1]
  <1>7. /\ trail' = IF restart THEN SubSeq(jumped, 1, root) ELSE jumped
        /\ limits' = IF restart THEN <<>> ELSE lim
        /\ qhead' = IF restart THEN Min({Len(tr), root}) ELSE Len(tr)
    BY <1>1, <1>2, <1>3, <1>6
  <1>8. \/ Len(lits) = 1 /\ UNCHANGED database
        \/ Len(lits) # 1 /\ Learn(Len(clauses) + 1, lits)
    BY <1>1
  <1>9. /\ TypeOK /\ ClausesOK(clauses) /\ TrailOK(trail) /\ LimitsOK(trail, limits) /\ WatchesOK /\ toVisit = <<>>
        /\ Follows(given, learnt) /\ uip \in learnt /\ uip \in Literals
        /\ Len(clauses) \in Nat /\ DOMAIN clauses = 1 .. Len(clauses)
    <2>1. /\ TypeOK /\ ClausesOK(clauses) /\ TrailOK(trail) /\ LimitsOK(trail, limits) /\ WatchesOK /\ toVisit = <<>>
          /\ Follows(given, learnt)
      BY <1>4 DEF Inv, QueueOK, LearntOK
    <2>2. uip \in learnt /\ uip \in Literals
      BY <2>1, <1>1 DEF Current, TypeOK
    <2> QED BY <2>1, <2>2, ClauseNumbers
  <1> HIDE DEF jumped, root
  <1>10. /\ WatchesOK' /\ watches' \in [Literals -> Seq(Nat)]
         /\ clauses' \in Seq(Seq(Literals)) /\ ClausesOK(clauses')
         /\ \A c \in DOMAIN clauses : c \in DOMAIN clauses' /\ clauses'[c] = clauses[c]
         /\ MoreClauses(clauses, clauses', given)
         /\ \A c \in DOMAIN clauses' : c \notin DOMAIN clauses => Len(lits) # 1 /\ clauses'[c] = lits
         /\ Len(lits) # 1 => Len(clauses) + 1 \in DOMAIN clauses' /\ clauses'[Len(clauses) + 1] = lits
    <2>1. CASE Len(lits) = 1 /\ UNCHANGED database
      <3>1. clauses' = clauses /\ watches' = watches /\ toVisit' = <<>>
        BY <2>1, <1>4, <1>9
      <3>2. WatchesOK'
        <4>1. ToSet(<<>>) = {}
          BY DEF ToSet
        <4> QED BY <3>1, <4>1, <1>9 DEF WatchesOK, Listed
      <3> QED BY <3>1, <3>2, <2>1, <1>9 DEF TypeOK, MoreClauses
    <2>2. CASE Len(lits) # 1 /\ Learn(Len(clauses) + 1, lits)
      <3>0. Len(lits) >= 2
        <4>1. Len(lits) \in Nat /\ Len(lits) >= 1 /\ Len(lits) # 1
          BY <2>2, <1>5
        <4>2. \A n \in Nat : n >= 1 /\ n # 1 => n >= 2
          OBVIOUS
        <4> QED BY <4>1, <4>2, Zenon
      <3>1. Len(lits) >= 2 /\ Follows(given, ToSet(lits)) /\ toVisit' = <<>>
        <4>1. ToSet(lits) = learnt /\ toVisit' = toVisit
          BY <1>4, <1>5
        <4> QED BY <3>0, <4>1, <1>9
      <3>2. /\ WatchesOK' /\ watches' \in [Literals -> Seq(Nat)]
            /\ clauses' \in Seq(Seq(Literals)) /\ ClausesOK(clauses')
            /\ DOMAIN clauses' = 1 .. Len(clauses) + 1 /\ clauses'[Len(clauses) + 1] = lits
            /\ \A c \in DOMAIN clauses : clauses'[c] = clauses[c]
            /\ MoreClauses(clauses, clauses', given)
        BY <3>1, <2>2, <1>5, <1>9, AttachKeeps
      <3> DEFINE m == Len(clauses)
      <3>3. DOMAIN clauses = 1 .. m /\ m \in Nat /\ DOMAIN clauses' = 1 .. m + 1 /\ clauses'[m + 1] = lits
        BY <3>2, <1>9
      <3> HIDE DEF m
      <3>4. /\ \A c \in 1 .. m : c \in 1 .. m + 1
            /\ \A c \in 1 .. m + 1 : c \notin 1 .. m => c = m + 1
            /\ m + 1 \in 1 .. m + 1
        BY <3>3
      <3>5. /\ \A c \in DOMAIN clauses : c \in DOMAIN clauses'
            /\ \A c \in DOMAIN clauses' : c \notin DOMAIN clauses => clauses'[c] = lits
            /\ m + 1 \in DOMAIN clauses' /\ clauses'[m + 1] = lits
        BY <3>3, <3>4
      <3> QED BY <3>2, <3>5, <2>2 DEF m
    <2> QED BY <1>8, <2>1, <2>2
  <1>11. Justified(e, tr, lim, clauses', given)
    <2>1. e \in Entries /\ e.lit = uip /\ e.reason = IF Len(lits) = 1 THEN 0 ELSE Len(clauses) + 1
      BY <1>3, <1>5, <1>9 DEF Entry, Entries
    <2>2. ~TrueBy(uip, Len(tr), tr) /\ ~TrueBy(-uip, Len(tr), tr)
      BY <1>6 DEF TrueBy
    <2>3. Len(lits) = 1 => lim = <<>>
      <3>1. Len(lits) = 1 => Len(lim) = 0
        BY <1>6 DEF BackjumpLevel
      <3> QED BY <3>1, <1>6
    <2>4. lim = <<>> => Follows(given, {uip})
      <3> SUFFICES ASSUME lim = <<>>, NEW a \in Models(given) PROVE Holds(a, uip)
        BY FollowsFacts
      <3>1. PICK l \in learnt : Holds(a, l)
        BY <1>9, FollowsFacts
      <3>2. LevelOf(var(l)) \in 1 .. level /\ level \in Nat
        BY <1>4, LearntFacts
      <3>3. BackjumpLevel(lits) = 0
        BY <1>6
      <3>4. ~(LevelOf(var(l)) <= BackjumpLevel(lits))
        BY <3>2, <3>3
      <3>5. l = uip
        BY <3>4, <1>5
      <3> QED BY <3>1, <3>5
    <2>5. e.reason # 0 =>
            /\ e.reason \in DOMAIN clauses' /\ ToSet(clauses'[e.reason]) = learnt
      BY <2>1, <1>5, <1>10
    <2>6. e.reason = 0 => lim = <<>>
      BY <2>1, <2>3, <1>9
    <2> QED BY <2>1, <2>2, <2>4, <2>5, <2>6, <1>6, <1>9 DEF Justified
  <1>12. e \in Entries /\ e.lit = uip /\ Reshaped(tr, lim, jumped, clauses', given')
    <2>1. e \in Entries
      BY <1>11 DEF Justified
    <2>2. e.lit = uip
      BY <1>3, <1>5 DEF Entry
    <2>3. given' = given
      BY <1>4
    <2> QED BY <2>1, <2>2, <2>3, <1>11 DEF Reshaped, jumped
  <1> DEFINE N == Len(tr)
  <1>13. /\ jumped \in Seq(Entries) /\ Len(jumped) = N + 1 /\ DOMAIN jumped = 1 .. N + 1
         /\ jumped[N + 1] = e /\ \A i \in 1 .. N : jumped[i] = tr[i]
         /\ N \in Nat /\ DOMAIN tr = 1 .. N
    BY <1>6, <1>12, AppendFacts DEF jumped
  <1> DEFINE NewWatched(t) ==
               \A c \in DOMAIN clauses' : c \notin DOMAIN clauses =>
                 \A i \in DOMAIN t :
                   /\ t[i].lit # -clauses'[c][1]
                   /\ t[i].lit = -clauses'[c][2] =>
                        \E j \in DOMAIN trail' : trail'[j].lit = clauses'[c][1] /\ \A k \in DOMAIN limits' : ~(i <= limits'[k])
  <1> HIDE DEF N
  <1>14. CASE ~restart \/ lim = <<>>
    <2>1. trail' = jumped /\ limits' = lim /\ qhead' = Len(tr)
      <3>1. CASE ~restart
        BY <3>1, <1>7
      <3>2. CASE lim = <<>>
        <4>1. root = N + 1 /\ Len(tr) = N
          BY <3>2, <1>13 DEF root, N
        <4>2. SubSeq(jumped, 1, N + 1) = jumped
          BY <1>13
        <4>3. Min({N, N + 1}) = N
          BY <1>13, MinFacts
        <4> QED BY <3>2, <4>1, <4>2, <4>3, <1>7
      <3> QED BY <3>1, <3>2, <1>14
    <2>2. JumpsTo(tr, lim)
      BY <2>1, <1>6, <1>12 DEF JumpsTo
    <2>3. NewWatched(tr)
      <3> SUFFICES ASSUME NEW c \in DOMAIN clauses', c \notin DOMAIN clauses, NEW i \in DOMAIN tr
                   PROVE  /\ tr[i].lit # -clauses'[c][1]
                          /\ tr[i].lit = -clauses'[c][2] =>
                               \E j \in DOMAIN trail' : trail'[j].lit = clauses'[c][1] /\ \A k \in DOMAIN lim : ~(i <= lim[k])
        BY <2>1
      <3>1. Len(lits) # 1 /\ clauses'[c] = lits
        BY <1>10
      <3>2. N + 1 \in DOMAIN trail' /\ trail'[N + 1].lit = uip
        BY <2>1, <1>12, <1>13
      <3>3. ASSUME tr[i].lit = -lits[2], NEW k \in DOMAIN lim PROVE ~(i <= lim[k])
        <4>1. lim[k] < i
          BY <3>1, <3>3, <1>6
        <4>2. lim[k] \in Nat /\ i \in Nat
          BY <1>6, <1>13
        <4> QED BY <4>1, <4>2
      <3> QED BY <3>1, <3>2, <3>3, <1>5, <1>6
    <2>4. \A c \in DOMAIN clauses' : c \notin DOMAIN clauses =>
                 \A i \in DOMAIN tr :
                   /\ tr[i].lit # -clauses'[c][1]
                   /\ tr[i].lit = -clauses'[c][2] =>
                        \E j \in DOMAIN trail' : trail'[j].lit = clauses'[c][1] /\ \A k \in DOMAIN lim : ~(i <= lim[k])
      BY <2>1, <2>3
    <2> HIDE DEF NewWatched
    <2> QED BY <2>2, <2>4, <1>4, <1>10, JumpedKeeps
  <1>15. CASE restart /\ lim # <<>>
    <2>0. /\ 1 \in DOMAIN lim /\ lim[1] \in Nat /\ lim[1] < N /\ root = lim[1] /\ Len(tr) = N
          /\ lim[1] = limits[1] /\ 1 \in DOMAIN limits
      <3>1. 1 \in DOMAIN lim /\ lim[1] \in Nat /\ root = lim[1]
        BY <1>6, <1>15 DEF root
      <3> QED BY <3>1, <1>6 DEF N
    <2> DEFINE h == lim[1]
    <2>1. PICK t : t = SubSeq(jumped, 1, h)
      OBVIOUS
    <2>2. /\ trail' = t /\ limits' = <<>> /\ qhead' = h
      <3>1. Min({N, h}) = h
        <4>1. N \in Int /\ h \in Int /\ ~(N <= h)
          BY <2>0, <1>13
        <4> QED BY <4>1, MinFacts
      <3> QED BY <2>0, <2>1, <3>1, <1>7, <1>15
    <2>3. /\ t \in Seq(Entries) /\ Len(t) = h /\ DOMAIN t = 1 .. h /\ \A i \in 1 .. h : t[i] = jumped[i]
      <3>1. h \in 0 .. Len(jumped)
        BY <2>0, <1>13
      <3> HIDE DEF h
      <3> QED BY <2>1, <3>1, <1>13, PrefixFacts
    <2>4. \A i \in 1 .. h : i \in DOMAIN tr /\ t[i] = tr[i] /\ t[i] = trail[i]
      <3> SUFFICES ASSUME NEW i \in 1 .. h PROVE i \in DOMAIN tr /\ t[i] = tr[i] /\ t[i] = trail[i]
        OBVIOUS
      <3>1. i \in 1 .. N
        BY <2>0, <1>13
      <3>2. i \in DOMAIN tr /\ t[i] = tr[i]
        BY <3>1, <2>3, <1>13
      <3> QED BY <3>2, <1>6
    <2>5. /\ <<>> \in Seq(Nat) /\ Len(<<>>) = 0 /\ 0 < level
          /\ Len(limits) # 0 /\ limits[0 + 1] = h /\ h <= Len(trail)
      <3>1. DOMAIN limits = 1 .. Len(limits) /\ level = Len(limits) /\ Len(limits) \in Nat /\ Len(trail) \in Nat
        BY <1>9, TrailTypes
      <3>2. h <= Len(trail)
        BY <3>1, <2>0, <1>9 DEF LimitsOK
      <3> QED BY <3>1, <3>2, <2>0
    <2> HIDE DEF h
    <2>6. Cut(trail, limits, t, <<>>)
      BY <2>3, <2>4, <2>5 DEF Cut
    <2>7. Reshaped(t, <<>>, trail', clauses', given')
      BY <2>2 DEF Reshaped
    <2>8. JumpsTo(t, <<>>)
      BY <2>2, <2>3, <2>5, <2>6, <2>7 DEF JumpsTo
    <2>9. \A c \in DOMAIN clauses' : c \notin DOMAIN clauses =>
                 \A i \in DOMAIN t :
                   /\ t[i].lit # -clauses'[c][1]
                   /\ t[i].lit = -clauses'[c][2] =>
                        \E j \in DOMAIN trail' : trail'[j].lit = clauses'[c][1] /\ \A k \in DOMAIN <<>> : ~(i <= <<>>[k])
      <3> SUFFICES ASSUME NEW c \in DOMAIN clauses', c \notin DOMAIN clauses, NEW i \in DOMAIN t
                   PROVE  t[i].lit # -clauses'[c][1] /\ t[i].lit # -clauses'[c][2]
        OBVIOUS
      <3>1. Len(lits) # 1 /\ clauses'[c] = lits
        BY <1>10
      <3>2. i \in 1 .. h /\ i \in DOMAIN tr /\ t[i] = tr[i]
        BY <2>3, <2>4
      <3>3. ~(lim[1] < i)
        BY <3>2, <2>0 DEF h
      <3> QED BY <3>1, <3>2, <3>3, <2>0, <1>5, <1>6
    <2>10. PICK z : z = <<>>
      OBVIOUS
    <2>11. /\ JumpsTo(t, z)
           /\ \A c \in DOMAIN clauses' : c \notin DOMAIN clauses =>
                 \A i \in DOMAIN t :
                   /\ t[i].lit # -clauses'[c][1]
                   /\ t[i].lit = -clauses'[c][2] =>
                        \E j \in DOMAIN trail' : trail'[j].lit = clauses'[c][1] /\ \A k \in DOMAIN z : ~(i <= z[k])
      BY <2>8, <2>9, <2>10
    <2> HIDE DEF NewWatched
    <2> QED BY <2>11, <1>4, <1>10, JumpedKeeps
  <1> QED BY <1>14, <1>15

-----------------------------------------------------------------------------
(* Calls.                                                                  *)

(* add_clause() goes back to the root first.                               *)
LEMMA ToTheRoot ==
  ASSUME Inv
  PROVE  /\ Cut(trail, limits, Cancelled(0).trail, <<>>)
         /\ Cancelled(0).limits = <<>> /\ Cancelled(0).trail \in Seq(Entries)
         /\ Cancelled(0).qhead \in Nat /\ Cancelled(0).qhead <= Len(Cancelled(0).trail)
         /\ TrailOK(Cancelled(0).trail)
         /\ \A i \in DOMAIN Cancelled(0).trail : Follows(given, {Cancelled(0).trail[i].lit})
  <1>1. PICK tr, lim, q : tr = Cancelled(0).trail /\ lim = Cancelled(0).limits /\ q = Cancelled(0).qhead
    OBVIOUS
  <1>2. /\ TypeOK /\ LimitsOK(trail, limits) /\ TrailOK(trail) /\ qhead <= Len(trail)
        /\ trail \in Seq(Entries) /\ limits \in Seq(Nat)
    BY DEF Inv, QueueOK, TypeOK
  <1>3. /\ Cut(trail, limits, tr, lim)
        /\ Len(lim) = IF level <= 0 THEN level ELSE 0
        /\ q = IF qhead <= Len(tr) THEN qhead ELSE Len(tr)
    <2>1. \A n \in Nat :
            /\ Cut(trail, limits, Cancelled(n).trail, Cancelled(n).limits)
            /\ Len(Cancelled(n).limits) = IF level <= n THEN level ELSE n
            /\ qhead <= Len(trail) =>
                 Cancelled(n).qhead = IF qhead <= Len(Cancelled(n).trail) THEN qhead ELSE Len(Cancelled(n).trail)
      BY <1>2, CancelledFacts
    <2>2. 0 \in Nat
      OBVIOUS
    <2> QED BY <2>1, <2>2, <1>1, <1>2
  <1>4. lim = <<>>
    <2>1. level \in Nat /\ lim \in Seq(Nat)
      BY <1>2, <1>3, TrailTypes DEF Cut
    <2>2. Len(lim) = 0
      BY <2>1, <1>3
    <2> QED BY <2>1, <2>2
  <1>5. tr \in Seq(Entries) /\ Len(tr) \in Nat /\ qhead \in Nat
    BY <1>2, <1>3 DEF Cut, TypeOK
  <1>6. q \in Nat /\ q <= Len(tr)
    <2>1. CASE qhead <= Len(tr)
      BY <2>1, <1>3, <1>5
    <2>2. CASE ~(qhead <= Len(tr))
      BY <2>2, <1>3, <1>5
    <2> QED BY <2>1, <2>2
  <1>7. /\ TrailOK(tr)
        /\ \A i \in DOMAIN tr : i \in DOMAIN trail /\ tr[i] = trail[i] /\ (AtRoot(i, lim) => AtRoot(i, limits))
    BY <1>2, <1>3, CutFacts
  <1>8. ASSUME NEW i \in DOMAIN tr PROVE Follows(given, {tr[i].lit})
    <2>1. AtRoot(i, lim)
      BY <1>4 DEF AtRoot
    <2>2. i \in DOMAIN trail /\ tr[i] = trail[i] /\ AtRoot(i, limits)
      BY <2>1, <1>7
    <2> QED BY <2>2 DEF Inv, SoundOK
  <1> QED BY <1>1, <1>3, <1>4, <1>5, <1>6, <1>7, <1>8

(* What add_clause() makes of the clause g, on the trail tr of the root:   *)
(* nothing, a refutation, a fact of the root, a clause to watch.           *)
Tautological(g, tr) ==
  (\E l \in g : -l \in g) /\ trail' = tr /\ UNCHANGED <<clauses, watches, empty>>
Refuting(g, tr) ==
  /\ g = {} \/ \E l \in Literals : g = {l} /\ \E i \in DOMAIN tr : tr[i].lit = -l
  /\ trail' = tr /\ empty' = TRUE /\ UNCHANGED <<clauses, watches>>
Unit(g, tr) ==
  /\ \E l \in Literals :
       /\ g = {l} /\ \A i \in DOMAIN tr : tr[i].lit # -l
       /\ \/ trail' = tr /\ \E i \in DOMAIN tr : tr[i].lit = l
          \/ trail' = Append(tr, Entry(l, 0)) /\ \A i \in DOMAIN tr : tr[i].lit # l
  /\ UNCHANGED <<clauses, watches, empty>>
Watched(g, tr) ==
  /\ \E out \in Seq(Literals) :
       Len(out) >= 2 /\ NoRepetition(out) /\ ToSet(out) = g /\ Learn(Len(clauses) + 1, out)
  /\ trail' = tr /\ UNCHANGED empty

(* These are the ways out of add_clause().                                 *)
LEMMA AddClauseCases ==
  ASSUME NEW lits \in Seq(Literals), AddClause(lits),
         NEW tr, tr = Cancelled(0).trail, NEW g, g = ToSet(lits)
  PROVE  Tautological(g, tr) \/ Refuting(g, tr) \/ Unit(g, tr) \/ Watched(g, tr)
  <1>1. PICK out : out = Distinct(lits)
    OBVIOUS
  <1>2. out \in Seq(Literals) /\ NoRepetition(out) /\ ToSet(out) = g
    BY <1>1, DistinctFacts
  <1> DEFINE has(l) == \E i \in DOMAIN tr : tr[i].lit = l
  <1>3. \/ Tautology(lits) /\ trail' = tr /\ UNCHANGED <<clauses, watches, empty>>
        \/ /\ Len(out) = 0 \/ (Len(out) = 1 /\ has(-out[1]))
           /\ empty' = TRUE /\ trail' = tr /\ UNCHANGED <<clauses, watches>>
        \/ /\ Len(out) = 1 /\ ~has(-out[1])
           /\ trail' = IF has(out[1]) THEN tr ELSE Append(tr, Entry(out[1], 0))
           /\ UNCHANGED <<clauses, watches, empty>>
        \/ Len(out) >= 2 /\ Learn(Len(clauses) + 1, out) /\ trail' = tr /\ UNCHANGED empty
    BY <1>1 DEF AddClause, BeforeAdd, database
  <1> HIDE DEF has
  <1>4. CASE Tautology(lits) /\ trail' = tr /\ UNCHANGED <<clauses, watches, empty>>
    BY <1>2, <1>4 DEF Tautology, Tautological
  <1>5. ASSUME Len(out) = 1 PROVE out[1] \in Literals /\ g = {out[1]}
    <2>1. DOMAIN out = {1} /\ out[1] \in Literals
      BY <1>2, <1>5
    <2> QED BY <2>1, <1>2 DEF ToSet
  <1>6. ASSUME Len(out) = 0 PROVE g = {}
    BY <1>2, <1>6 DEF ToSet
  <1>7. CASE /\ Len(out) = 0 \/ (Len(out) = 1 /\ has(-out[1]))
             /\ empty' = TRUE /\ trail' = tr /\ UNCHANGED <<clauses, watches>>
    BY <1>5, <1>6, <1>7 DEF has, Refuting
  <1>8. CASE /\ Len(out) = 1 /\ ~has(-out[1])
             /\ trail' = IF has(out[1]) THEN tr ELSE Append(tr, Entry(out[1], 0))
             /\ UNCHANGED <<clauses, watches, empty>>
    BY <1>5, <1>8 DEF has, Unit
  <1>9. CASE Len(out) >= 2 /\ Learn(Len(clauses) + 1, out) /\ trail' = tr /\ UNCHANGED empty
    BY <1>2, <1>9 DEF Watched
  <1> QED BY <1>3, <1>4, <1>7, <1>8, <1>9

(* A clause is added.                                                      *)
LEMMA AddClauseKeeps ==
  ASSUME Inv, pc = "idle", NEW lits \in Seq(Literals), AddClause(lits), calls' \in Seq(Calls)
  PROVE  Inv'
  <1>1. PICK tr, q : tr = Cancelled(0).trail /\ q = Cancelled(0).qhead
    OBVIOUS
  <1>2. PICK g : g = ToSet(lits)
    OBVIOUS
  <1>3. /\ Cut(trail, limits, tr, <<>>) /\ tr \in Seq(Entries) /\ TrailOK(tr)
        /\ q \in Nat /\ q <= Len(tr) /\ Cancelled(0).limits = <<>>
        /\ \A i \in DOMAIN tr : Follows(given, {tr[i].lit})
    BY <1>1, ToTheRoot
  <1>4. /\ given' = given \cup {g} /\ limits' = <<>> /\ qhead' = q /\ answer' = "NONE"
        /\ UNCHANGED <<pc, toVisit, learnt, assumed, ui, core>>
    BY <1>1, <1>2, <1>3 DEF AddClause, BeforeAdd
  <1>5. g \in SUBSET Literals
    BY <1>2, ToSetFacts
  <1>6. TypeOK /\ ClausesOK(clauses) /\ WatchesOK /\ toVisit = <<>> /\ (empty => Follows(given, {}))
    BY DEF Inv, QueueOK, SoundOK
  <1>7. Models(given') \subseteq Models(given) /\ \A a \in Models(given') : \E l \in g : Holds(a, l)
    <2>1. given \subseteq given' /\ g \in given'
      BY <1>4
    <2>2. \A h : Models(h) \subseteq [Vars -> BOOLEAN] /\ \A a \in Models(h), c \in h : Satisfies(a, c)
      BY DEF Models
    <2> QED BY <2>1, <2>2, FollowsFacts, HoldsFacts
  <1>8. /\ \A s : Follows(given, s) => Follows(given', s)
        /\ Follows(given', g)
    BY <1>7, FollowsFacts
  <1>9. Tautological(g, tr) \/ Refuting(g, tr) \/ Unit(g, tr) \/ Watched(g, tr)
    BY <1>1, <1>2, AddClauseCases
  <1> DEFINE Data == /\ WatchesOK' /\ watches' \in [Literals -> Seq(Nat)]
                     /\ clauses' \in Seq(Seq(Literals)) /\ ClausesOK(clauses')
                     /\ MoreClauses(clauses, clauses', given')
             Found == \/ empty' = TRUE
                      \/ \E l \in g : -l \in g
                      \/ \E c \in DOMAIN clauses' : ToSet(clauses'[c]) = g
                      \/ \E i \in DOMAIN trail' : g = {trail'[i].lit}
             Done == /\ Data /\ Found
                     /\ empty' \in BOOLEAN /\ (empty => empty') /\ (empty' => Follows(given', {}))
                     /\ Reshaped(tr, <<>>, trail', clauses', given')
  <1>10. ASSUME UNCHANGED <<clauses, watches>> PROVE Data
    <2>1. clauses' = clauses /\ watches' = watches /\ toVisit' = <<>> /\ ToSet(<<>>) = {}
      BY <1>4, <1>6, <1>10 DEF ToSet
    <2>2. WatchesOK'
      BY <2>1, <1>6 DEF WatchesOK, Listed
    <2>3. MoreClauses(clauses, clauses', given')
      BY <2>1 DEF MoreClauses
    <2> QED BY <2>1, <2>2, <2>3, <1>6 DEF TypeOK
  <1>11. trail' = tr => Reshaped(tr, <<>>, trail', clauses', given')
    BY DEF Reshaped
  <1>12. empty' = empty => empty' \in BOOLEAN /\ (empty => empty') /\ (empty' => Follows(given', {}))
    BY <1>6, <1>8 DEF TypeOK
  <1> HIDE DEF Data, Found
  <1>13. ASSUME Tautological(g, tr) PROVE Done
    <2>1. /\ \E l \in g : -l \in g
          /\ trail' = tr /\ UNCHANGED <<clauses, watches>> /\ empty' = empty
      BY <1>13 DEF Tautological
    <2>2. Found
      BY <2>1 DEF Found
    <2> QED BY <2>1, <2>2, <1>10, <1>11, <1>12
  <1>14. ASSUME Refuting(g, tr) PROVE Done
    <2>0. trail' = tr /\ empty' = TRUE /\ UNCHANGED <<clauses, watches>>
      BY <1>14 DEF Refuting
    <2>1. Follows(given', {})
      <3> SUFFICES ASSUME NEW a \in Models(given') PROVE FALSE
        BY FollowsFacts
      <3>1. PICK l \in g : Holds(a, l)
        BY <1>7
      <3>2. PICK i \in DOMAIN tr : g = {l} /\ tr[i].lit = -l /\ l \in Literals
        BY <3>1, <1>14 DEF Refuting
      <3>3. Follows(given, {-l})
        BY <3>2, <1>3
      <3>4. Holds(a, -l)
        BY <3>3, <1>8, FollowsFacts
      <3> QED BY <3>1, <3>2, <3>4, FollowsFacts
    <2>2. Found
      BY <2>0 DEF Found
    <2>3. empty' \in BOOLEAN /\ (empty => empty')
      BY <2>0
    <2> QED BY <2>0, <2>1, <2>2, <2>3, <1>10, <1>11
  <1>15. ASSUME Unit(g, tr) PROVE Done
    <2>0. UNCHANGED <<clauses, watches>> /\ empty' = empty
      BY <1>15 DEF Unit
    <2>1. PICK l \in Literals :
                /\ g = {l} /\ \A i \in DOMAIN tr : tr[i].lit # -l
                /\ \/ trail' = tr /\ \E i \in DOMAIN tr : tr[i].lit = l
                   \/ trail' = Append(tr, Entry(l, 0)) /\ \A i \in DOMAIN tr : tr[i].lit # l
      BY <1>15 DEF Unit
    <2>2. CASE trail' = tr /\ \E i \in DOMAIN tr : tr[i].lit = l
      <3>1. \E i \in DOMAIN trail' : g = {trail'[i].lit}
        BY <2>1, <2>2
      <3>2. Found
        BY <3>1 DEF Found
      <3> QED BY <3>2, <2>0, <2>2, <1>10, <1>11, <1>12
    <2>3. CASE trail' = Append(tr, Entry(l, 0)) /\ \A i \in DOMAIN tr : tr[i].lit # l
      <3>1. PICK e : e = Entry(l, 0)
        OBVIOUS
      <3>2. e \in Entries /\ e.lit = l /\ e.reason = 0
        BY <3>1 DEF Entry, Entries
      <3>3. /\ DOMAIN trail' = 1 .. Len(tr) + 1 /\ trail'[Len(tr) + 1] = e /\ Len(tr) \in Nat
        BY <3>1, <3>2, <2>3, <1>3, AppendFacts
      <3>4. \E i \in DOMAIN trail' : g = {trail'[i].lit}
        <4>1. Len(tr) + 1 \in DOMAIN trail'
          BY <3>3
        <4> QED BY <4>1, <3>2, <3>3, <2>1
      <3>5. Justified(e, tr, <<>>, clauses', given')
        <4>1. ~TrueBy(l, Len(tr), tr) /\ ~TrueBy(-l, Len(tr), tr)
          BY <2>1, <2>3 DEF TrueBy
        <4>2. Follows(given', {l})
          BY <2>1, <1>8
        <4> QED BY <4>1, <4>2, <3>2 DEF Justified
      <3>6. Reshaped(tr, <<>>, trail', clauses', given')
        BY <3>1, <3>2, <3>5, <2>3 DEF Reshaped
      <3>7. Found
        BY <3>4 DEF Found
      <3> QED BY <3>6, <3>7, <2>0, <1>10, <1>12
    <2> QED BY <2>1, <2>2, <2>3
  <1>16. ASSUME Watched(g, tr) PROVE Done
    <2>1. PICK out \in Seq(Literals) :
            Len(out) >= 2 /\ NoRepetition(out) /\ ToSet(out) = g /\ Learn(Len(clauses) + 1, out)
      BY <1>16 DEF Watched
    <2>2. PICK h : h = given'
      OBVIOUS
    <2>3. Follows(h, ToSet(out)) /\ toVisit' = <<>> /\ toVisit = <<>>
      BY <2>1, <2>2, <1>4, <1>6, <1>8
    <2>4. /\ WatchesOK' /\ watches' \in [Literals -> Seq(Nat)]
          /\ clauses' \in Seq(Seq(Literals)) /\ ClausesOK(clauses')
          /\ DOMAIN clauses' = 1 .. Len(clauses) + 1 /\ clauses'[Len(clauses) + 1] = out
          /\ MoreClauses(clauses, clauses', h)
      BY <2>1, <2>3, <1>6, AttachKeeps
    <2>5. Data
      BY <2>2, <2>4 DEF Data
    <2>6. \E c \in DOMAIN clauses' : ToSet(clauses'[c]) = g
      <3>1. Len(clauses) + 1 \in DOMAIN clauses'
        BY <2>4, <1>6 DEF TypeOK
      <3> QED BY <3>1, <2>1, <2>4
    <2>7. Found
      BY <2>6 DEF Found
    <2>8. trail' = tr /\ empty' = empty
      BY <1>16 DEF Watched
    <2> QED BY <2>5, <2>7, <2>8, <1>11, <1>12
  <1>17. Done
    <2> HIDE DEF Done
    <2> QED BY <1>9, <1>13, <1>14, <1>15, <1>16
  <1>18. /\ Data /\ Found
         /\ empty' \in BOOLEAN /\ (empty => empty') /\ (empty' => Follows(given', {}))
         /\ Reshaped(tr, <<>>, trail', clauses', given')
    BY <1>17
  <1> HIDE DEF Done
  <1>19. \A x \in given' : x \notin given =>
           \/ empty'
           \/ \E l \in x : -l \in x
           \/ \E c \in DOMAIN clauses' : ToSet(clauses'[c]) = x
           \/ \E i \in DOMAIN trail' : AtRoot(i, limits') /\ x = {trail'[i].lit}
    <2>1. \A x \in given' : x \notin given => x = g
      BY <1>4
    <2>2. \A i : AtRoot(i, limits')
      BY <1>4 DEF AtRoot
    <2> QED BY <2>1, <2>2, <1>18 DEF Found
  <1>20. /\ trail' \in Seq(Entries) /\ limits' \in Seq(Nat)
         /\ TrailOK(trail)' /\ LimitsOK(trail, limits)'
         /\ ReasonsOK' /\ DecisionsOK' /\ GivenOK' /\ SoundOK'
    <2>1. PICK lim : lim = <<>>
      OBVIOUS
    <2>2. /\ Cut(trail, limits, tr, lim) /\ limits' = lim /\ given \subseteq given'
          /\ Reshaped(tr, lim, trail', clauses', given') /\ MoreClauses(clauses, clauses', given')
          /\ (empty => empty') /\ (empty' => Follows(given', {}))
      BY <2>1, <1>3, <1>4, <1>18 DEF Data
    <2> QED BY <2>2, <1>19, Reshape
  <1>21. Len(trail') \in Nat /\ Len(tr) \in Nat /\ Len(tr) <= Len(trail')
    <2>1. PICK tr2 : tr2 = trail'
      OBVIOUS
    <2>2. tr2 = tr \/ \E e \in Entries : tr2 = Append(tr, e)
      BY <2>1, <1>18 DEF Reshaped
    <2> QED BY <2>1, <2>2, <1>3
  <1>22. TypeOK'
    BY <1>3, <1>4, <1>5, <1>6, <1>18, <1>20 DEF TypeOK, Data
  <1>23. QueueOK'
    BY <1>3, <1>4, <1>6, <1>21 DEF QueueOK
  <1>24. GuardsOK' /\ LearntOK' /\ AssumedOK'
    BY <1>4 DEF GuardsOK, LearntOK, AssumedOK
  <1>25. AnswerOK'
    BY <1>4 DEF AnswerOK, SatRight, UnsatRight
  <1>26. ClausesOK(clauses)' /\ WatchesOK'
    BY <1>18 DEF Data
  <1> QED BY <1>20, <1>22, <1>23, <1>24, <1>25, <1>26 DEF Inv

(* A query starts, from the root and with everything to be propagated      *)
(* again, or returns at once.                                              *)
LEMMA CallSolveKeeps ==
  ASSUME Inv, pc = "idle", NEW lits \in Seq(Literals), CallSolve(lits), calls' \in Seq(Calls)
  PROVE  Inv'
  <1>1. /\ assumed' = lits /\ ui' = 0
        /\ UNCHANGED <<clauses, watches, toVisit, learnt, empty, given>>
    BY DEF CallSolve, database
  <1>2. TypeOK /\ toVisit = <<>> /\ WatchesOK
    BY DEF Inv, QueueOK
  <1>3. WatchesOK'
    <2>1. ToSet(<<>>) = {} /\ toVisit' = <<>>
      BY <1>1, <1>2 DEF ToSet
    <2> QED BY <2>1, <1>1, <1>2 DEF WatchesOK, Listed
  <1>4. CASE empty /\ Answer("UNSAT", core) /\ UNCHANGED <<trail, limits, qhead>>
    <2>1. /\ answer' = "UNSAT" /\ pc' = "idle"
          /\ UNCHANGED <<core, clauses, trail, limits, given, empty, qhead, watches, toVisit, learnt>>
      BY <1>1, <1>4 DEF Answer
    <2>2. TypeOK'
      BY <2>1, <1>1, <1>2 DEF TypeOK
    <2>3. QueueOK'
      BY <2>1, <1>2 DEF Inv, QueueOK
    <2>4. GuardsOK' /\ LearntOK' /\ AssumedOK'
      BY <2>1 DEF GuardsOK, LearntOK, AssumedOK
    <2>5. Follows(given, {})
      BY <1>4 DEF Inv, SoundOK
    <2>6. UnsatRight'
      BY <2>1, <2>5, <1>4, EmptyClause DEF UnsatRight, Follows
    <2>7. AnswerOK'
      BY <2>1, <2>6 DEF AnswerOK, SatRight
    <2> QED BY <2>1, <2>2, <2>3, <2>4, <2>7, <1>3, Frame DEF Inv
  <1>5. CASE /\ ~empty /\ trail' = Cancelled(0).trail /\ limits' = <<>> /\ qhead' = FirstToPropagate
             /\ answer' = "NONE" /\ core' = {} /\ pc' = "propagate"
    <2>1. PICK tr : tr = Cancelled(0).trail
      OBVIOUS
    <2>2. PICK lim : lim = <<>>
      OBVIOUS
    <2>3. Cut(trail, limits, tr, lim)
      BY <2>1, <2>2, ToTheRoot
    <2>4. /\ trail' = tr /\ limits' = lim /\ qhead' = 0 /\ ~empty /\ answer' = "NONE" /\ core' = {}
          /\ pc' = "propagate"
      BY <2>1, <2>2, <1>5 DEF FirstToPropagate
    <2>5. /\ trail' \in Seq(Entries) /\ limits' \in Seq(Nat)
          /\ TrailOK(trail)' /\ LimitsOK(trail, limits)'
          /\ ReasonsOK' /\ DecisionsOK' /\ GivenOK' /\ SoundOK'
      <3>1. Reshaped(tr, lim, trail', clauses', given')
        BY <2>4 DEF Reshaped
      <3>2. MoreClauses(clauses, clauses', given')
        BY <1>1 DEF MoreClauses
      <3>3. given \subseteq given' /\ (empty => empty') /\ (empty' => Follows(given', {})) /\ limits' = lim
            /\ \A g \in given' : g \in given
        BY <2>4, <1>1
      <3> QED BY <3>1, <3>2, <3>3, <2>3, Reshape
    <2>6. TypeOK'
      BY <2>4, <2>5, <1>1, <1>2 DEF TypeOK
    <2>7. QueueOK'
      BY <2>2, <2>4, <2>5, <1>1, <1>2 DEF QueueOK
    <2>8. GuardsOK'
      <3>1. Visited' = 0
        BY <2>4 DEF Visited
      <3>2. \A i \in DOMAIN trail' : ~(i <= 0)
        BY <2>5
      <3>3. \A c, w, o : Guarded(c, w, o)'
        BY <3>1, <3>2 DEF Guarded
      <3> QED BY <3>3 DEF GuardsOK
    <2>9. LearntOK'
      BY <2>4 DEF LearntOK
    <2>10. AssumedOK'
      <3>1. ui' <= Len(assumed') /\ \A i : i \notin 1 .. ui'
        BY <1>1
      <3> QED BY <3>1, <2>2, <2>4 DEF AssumedOK
    <2>11. AnswerOK'
      BY <2>4, <1>1, AnswerFrame
    <2>12. ClausesOK(clauses)'
      BY <1>1 DEF Inv
    <2> QED BY <2>5, <2>6, <2>7, <2>8, <2>9, <2>10, <2>11, <2>12, <1>3 DEF Inv
  <1> QED BY <1>4, <1>5 DEF CallSolve

(* The caller adds a clause or asks.                                       *)
LEMMA CallKeeps ==
  ASSUME Inv, Call
  PROVE  Inv'
  <1>1. pc = "idle" /\ calls \in Seq(Calls) /\ calls # <<>> /\ calls' = Tail(calls)
    BY DEF Call, Inv, TypeOK
  <1>2. Head(calls) \in Calls /\ calls' \in Seq(Calls)
    BY <1>1
  <1>3. PICK c : c = Head(calls)
    OBVIOUS
  <1>4. c.lits \in Seq(Literals)
    BY <1>2, <1>3 DEF Calls
  <1>5. AddClause(c.lits) \/ CallSolve(c.lits)
    BY <1>3 DEF Call
  <1>6. PICK lits \in Seq(Literals) : AddClause(lits) \/ CallSolve(lits)
    BY <1>4, <1>5
  <1>7. CASE AddClause(lits)
    BY <1>1, <1>2, <1>7, AddClauseKeeps
  <1>8. CASE CallSolve(lits)
    BY <1>1, <1>2, <1>8, CallSolveKeeps
  <1> QED BY <1>6, <1>7, <1>8

-----------------------------------------------------------------------------
(* The specification.                                                      *)

(* A new solver has the invariant.                                         *)
LEMMA InitInv == Init => Inv
  <1> SUFFICES ASSUME Init PROVE Inv
    OBVIOUS
  <1>1. TypeOK
    <2>1. calls \in Seq(Calls)
      BY SessionsAssumption DEF Init
    <2>2. \A S : <<>> \in Seq(S)
      OBVIOUS
    <2>3. watches \in [Literals -> Seq(Nat)]
      BY <2>2 DEF Init
    <2> QED BY <2>1, <2>2, <2>3 DEF Init, TypeOK
  <1>2. ToSet(<<>>) = {} /\ NoRepetition(<<>>)
    BY DEF ToSet, NoRepetition
  <1>3. WatchesOK
    BY <1>2 DEF Init, WatchesOK, Listed
  <1>4. ClausesOK(clauses) /\ TrailOK(trail) /\ LimitsOK(trail, limits)
    BY DEF Init, ClausesOK, TrailOK, LimitsOK
  <1>5. QueueOK /\ GuardsOK /\ ReasonsOK /\ DecisionsOK
    BY DEF Init, QueueOK, GuardsOK, ReasonsOK, DecisionsOK
  <1>6. GivenOK /\ SoundOK /\ LearntOK /\ AssumedOK
    BY DEF Init, GivenOK, SoundOK, LearntOK, AssumedOK
  <1>7. AnswerOK
    BY DEF Init, AnswerOK, SatRight, UnsatRight
  <1> QED BY <1>1, <1>3, <1>4, <1>5, <1>6, <1>7 DEF Inv

(* Every step keeps the invariant.                                         *)
LEMMA NextKeeps == Inv /\ [Next]_vars => Inv'
  <1> SUFFICES ASSUME Inv, [Next]_vars PROVE Inv'
    OBVIOUS
  <1>1. CASE Call
    BY <1>1, CallKeeps
  <1>2. CASE TakeLiteral
    BY <1>2, TakeLiteralKeeps
  <1>3. CASE Quiet
    BY <1>3, QuietKeeps
  <1>4. CASE VisitClause
    BY <1>4, VisitClauseKeeps
  <1>5. CASE ConflictAtRoot
    BY <1>5, ConflictAtRootKeeps
  <1>6. CASE ResolveLatest
    BY <1>6, ResolveLatestKeeps
  <1>7. CASE LearnAndJump
    BY <1>7, LearnAndJumpKeeps
  <1>8. CASE HonorAssumption
    BY <1>8, HonorAssumptionKeeps
  <1>9. CASE AssumptionFails
    BY <1>9, AssumptionFailsKeeps
  <1>10. CASE Decide
    BY <1>10, DecideKeeps
  <1>11. CASE AllAssigned
    BY <1>11, AllAssignedKeeps
  <1>12. CASE UNCHANGED vars
    BY <1>12, StutterKeeps
  <1> QED BY <1>1, <1>2, <1>3, <1>4, <1>5, <1>6, <1>7, <1>8, <1>9, <1>10, <1>11, <1>12
          DEF Next, Solve, SessionOver

(* The invariant holds at every moment of every session.                   *)
THEOREM Invariance == Spec => []Inv
  BY InitInv, NextKeeps, PTL DEF Spec

(* Every variable of the solver keeps its type, in every session of any    *)
(* callers and for any finite set of variables.                            *)
THEOREM TypeCorrect == Spec => []TypeOK
  <1>1. Inv => TypeOK
    BY DEF Inv
  <1> QED BY <1>1, Invariance, PTL

(* solve() returns True only with a model of every clause the caller gave  *)
(* and of every assumption of the call.                                    *)
THEOREM SatIsRight == Spec => []SatRight
  <1>1. Inv => SatRight
    BY DEF Inv, AnswerOK
  <1> QED BY <1>1, Invariance, PTL

(* solve() returns False only if no assignment satisfies what was given    *)
(* and assumed, and conflict_core is a part of the assumptions that cannot *)
(* hold with the clauses given: every learnt clause, every unit kept at    *)
(* the root and every refutation follows from them.                        *)
THEOREM UnsatIsRight == Spec => []UnsatRight
  <1>1. Inv => UnsatRight
    BY DEF Inv, AnswerOK
  <1> QED BY <1>1, Invariance, PTL

(* Before every decision propagation has been complete: the two watches of *)
(* a clause missed neither a unit nor a falsified clause.                  *)
THEOREM PropagationIsComplete == Spec => []PropagationComplete
  <1>1. Inv => PropagationComplete
    BY GuardsComplete
  <1> QED BY <1>1, Invariance, PTL
=============================================================================
