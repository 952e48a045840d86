-------------------------- MODULE DpllSolverProofs ---------------------------
(* What the search engine of DpllSolver keeps, for all variables, values,  *)
(* constraints and propagation rounds; and that the round of the code,     *)
(* DpllRound, is one of those.                                             *)
EXTENDS DpllSolver, DpllRound, SequenceTheorems, FiniteSetTheorems, TLAPS

(* While a value is to be chosen the domains are those of the open level,  *)
(* and a level is left only when every value of its variable was tried.    *)
LevelsInStep ==
  /\ state = "IPROP" => trail = <<>>
  /\ state = "VALUE" => dom = top.dom
  /\ state = "BT" => top.dom[top.var] \subseteq top.tried

(* What is emitted is a fixpoint of the round with one value each.         *)
EmitsFixpoint == state = "EMIT" => newD = dom /\ AllOne(dom)

SearchInv ==
  /\ TypeOK
  /\ LevelsInStep
  /\ EmitsFixpoint
  /\ NothingLost
  /\ EmittedLegal
  /\ UnsatJustified

(* A round that ends in emission has changed nothing.                      *)
LEMMA FixpointEmitted ==
  ASSUME dom' = newD, NEW again, again # "EMIT", state' = AfterRound(again), budget' = budget
  PROVE  EmitsFixpoint'
<1> SUFFICES ASSUME state' = "EMIT" PROVE newD' = dom' /\ AllOne(dom')
  BY DEF EmitsFixpoint
<1>1. ~p_chg /\ AllOne(newD)
  BY DEF AfterRound
<1>2. newD = dom
  BY <1>1 DEF p_chg
<1>3. dom' = dom
  BY <1>2
<1>4. newD' = newD
  BY <1>3 DEF newD
<1> QED BY <1>1, <1>2, <1>4

(* The round keeps a solution in the domains, so it reports no conflict    *)
(* while one is there.                                                     *)
LEMMA RoundKeeps ==
  ASSUME TypeOK, NEW s \in Solutions[budget], Within(s, dom)
  PROVE  Within(s, newD) /\ ~p_conf
<1>1. Within(s, newD)
  BY NarrowAssumption DEF newD, TypeOK
<1> QED BY <1>1 DEF Within, p_conf

LEMMA SearchInit == Init => SearchInv
<1> SUFFICES ASSUME Init PROVE SearchInv
  OBVIOUS
<1>1. dom \in Domains
  BY DEF Init, Domains
<1>2. TypeOK
  BY <1>1, EmptySeq DEF Init, TypeOK
<1>3. LevelsInStep /\ EmitsFixpoint
  BY DEF Init, LevelsInStep, EmitsFixpoint
<1>4. NothingLost /\ EmittedLegal /\ UnsatJustified
  BY DEF Init, NothingLost, EmittedLegal, UnsatJustified
<1> QED BY <1>2, <1>3, <1>4 DEF SearchInv

LEMMA SearchStep == SearchInv /\ [Next]_vars => SearchInv'
<1> SUFFICES ASSUME SearchInv, [Next]_vars PROVE SearchInv'
  OBVIOUS
<1>0. /\ newD \in Domains
      /\ lvl = Len(trail) /\ lvl \in Nat
      /\ \A s \in Solutions[budget] : s \in Assignments
      /\ state \in {"VALUE", "PROP", "BT"} => lvl \in 1 .. Len(trail) /\ top \in Levels
  <2>1. newD \in Domains
    BY NarrowAssumption DEF newD, SearchInv, TypeOK
  <2>2. \A s \in Solutions[budget] : s \in Assignments
    BY SolutionsAssumption DEF SearchInv, TypeOK
  <2>3. lvl = Len(trail) /\ lvl \in Nat
    BY DEF lvl, SearchInv, TypeOK
  <2>4. state \in {"VALUE", "PROP", "BT"} => lvl \in 1 .. Len(trail) /\ top \in Levels
    BY <2>3 DEF top, SearchInv, TypeOK
  <2> QED BY <2>1, <2>2, <2>3, <2>4
<1>1. CASE Restart
  <2>1. TypeOK'
    <3>1. dom' \in Domains
      BY <1>1 DEF Restart, Domains
    <3> QED BY <1>1, <3>1, EmptySeq DEF Restart, SearchInv, TypeOK
  <2>2. NothingLost'
    BY <1>0, <1>1 DEF Restart, NothingLost, Within, Assignments
  <2>3. LevelsInStep' /\ EmitsFixpoint' /\ EmittedLegal' /\ UnsatJustified'
    BY <1>1 DEF Restart, SearchInv, LevelsInStep, EmitsFixpoint, EmittedLegal, UnsatJustified
  <2> QED BY <2>1, <2>2, <2>3 DEF SearchInv
<1>2. CASE FirstRound
  <2>1. CASE p_conf /\ GiveUp /\ UNCHANGED dom
    <3>1. Solutions[budget] = {}
      BY <1>2, <2>1, RoundKeeps DEF FirstRound, SearchInv, NothingLost, LevelsInStep, lvl
    <3> QED BY <1>2, <2>1, <3>1 DEF FirstRound, GiveUp, SearchInv, TypeOK, LevelsInStep, EmitsFixpoint,
              NothingLost, EmittedLegal, UnsatJustified
  <2>2. CASE ~p_conf /\ dom' = newD /\ state' = AfterRound("IPROP") /\ UNCHANGED unsat
    <3>0. state' \in {"IPROP", "EMIT", "DECIDE"}
      BY <2>2 DEF AfterRound
    <3>1. TypeOK' /\ LevelsInStep'
      BY <1>0, <1>2, <2>2, <3>0 DEF FirstRound, SearchInv, TypeOK, LevelsInStep
    <3>2. EmitsFixpoint'
      BY <1>2, <2>2, FixpointEmitted DEF FirstRound
    <3>3. NothingLost'
      BY <1>2, <2>2, <3>0, RoundKeeps DEF FirstRound, SearchInv, NothingLost, LevelsInStep, lvl
    <3> QED BY <1>2, <2>2, <3>1, <3>2, <3>3 DEF FirstRound, SearchInv, EmittedLegal, UnsatJustified
  <2> QED BY <1>2, <2>1, <2>2 DEF FirstRound
<1>3. CASE Decide
  <2>1. PICK i \in Vars : trail' = Append(trail, [dom |-> dom, var |-> i, tried |-> {}])
    BY <1>3 DEF Decide
  <2> DEFINE e == [dom |-> dom, var |-> i, tried |-> {}]
  <2>2. e \in Levels
    BY DEF Levels, SearchInv, TypeOK
  <2>3. /\ trail' \in Seq(Levels) /\ Len(trail') = Len(trail) + 1
        /\ trail'[Len(trail) + 1] = e
        /\ \A l \in 1 .. Len(trail) : trail'[l] = trail[l]
    BY <2>1, <2>2 DEF SearchInv, TypeOK
  <2>4. TypeOK'
    BY <1>0, <1>3, <2>3 DEF Decide, SearchInv, TypeOK
  <2>5. LevelsInStep' /\ EmitsFixpoint'
    BY <1>0, <1>3, <2>3 DEF Decide, LevelsInStep, EmitsFixpoint, top, lvl
  <2>6. NothingLost'
    <3> SUFFICES ASSUME NEW s \in Solutions[budget]
                 PROVE  \E l \in 1 .. Len(trail') : Pending(s, trail'[l])
      BY <1>3 DEF Decide, NothingLost, lvl
    <3>1. CASE Within(s, dom)
      BY <1>0, <2>3, <3>1 DEF Pending
    <3>2. CASE \E l \in 1 .. lvl : Pending(s, trail[l])
      BY <1>0, <2>3, <3>2
    <3> QED BY <1>3, <3>1, <3>2 DEF Decide, SearchInv, NothingLost
  <2> QED BY <1>3, <2>4, <2>5, <2>6 DEF Decide, SearchInv, EmittedLegal, UnsatJustified
<1>4. CASE TryValue
  <2>1. PICK v \in Avail : /\ dom' = [dom EXCEPT ![top.var] = {v}]
                           /\ trail' = [trail EXCEPT ![lvl].tried = @ \cup {v}]
    BY <1>4 DEF TryValue
  <2> DEFINE e == [top EXCEPT !.tried = @ \cup {v}]
  <2>2. state = "VALUE" /\ state' = "PROP" /\ lvl \in 1 .. Len(trail) /\ top \in Levels
    BY <1>0, <1>4 DEF TryValue
  <2>3. v \in Values
    BY <2>2 DEF Avail, Levels, SearchInv, TypeOK, Domains
  <2>4. e \in Levels /\ e.dom = top.dom /\ e.var = top.var /\ e.tried = top.tried \cup {v}
    BY <2>2, <2>3 DEF Levels
  <2>5. trail' = [trail EXCEPT ![lvl] = e]
    BY <2>1, <2>2 DEF top
  <2>6. /\ trail' \in Seq(Levels) /\ Len(trail') = Len(trail) /\ trail' # <<>>
        /\ trail'[lvl] = e
        /\ \A l \in 1 .. Len(trail) : l # lvl => trail'[l] = trail[l]
    BY <2>2, <2>4, <2>5 DEF SearchInv, TypeOK
  <2>7. TypeOK'
    <3>1. dom' \in Domains
      BY <2>1, <2>2, <2>3 DEF SearchInv, TypeOK, Domains
    <3> QED BY <1>4, <2>6, <3>1 DEF TryValue, SearchInv, TypeOK
  <2>8. LevelsInStep' /\ EmitsFixpoint'
    BY <2>2 DEF LevelsInStep, EmitsFixpoint
  <2>9. NothingLost'
    <3> SUFFICES ASSUME NEW s \in Solutions[budget]
                 PROVE  Within(s, dom') \/ \E l \in 1 .. Len(trail') : Pending(s, trail'[l])
      BY <1>4, <2>2 DEF TryValue, NothingLost, lvl
    <3>1. PICK l \in 1 .. lvl : Pending(s, trail[l])
      BY <2>2 DEF SearchInv, NothingLost
    <3>2. CASE l # lvl
      BY <1>0, <2>6, <3>1, <3>2
    <3>3. CASE l = lvl /\ s[top.var] = v
      <4>1. Within(s, dom)
        BY <2>2, <3>1, <3>3 DEF Pending, top, SearchInv, LevelsInStep
      <4> QED BY <2>1, <2>2, <3>3, <4>1 DEF Within, SearchInv, TypeOK, Domains
    <3>4. CASE l = lvl /\ s[top.var] # v
      <4>1. Pending(s, top)
        BY <3>1, <3>4 DEF top
      <4>2. Pending(s, e)
        BY <2>4, <3>4, <4>1 DEF Pending
      <4> QED BY <1>0, <2>2, <2>6, <4>2
    <3> QED BY <3>2, <3>3, <3>4
  <2> QED BY <1>4, <2>7, <2>8, <2>9 DEF TryValue, SearchInv, EmittedLegal, UnsatJustified
<1>5. CASE Exhausted
  <2>1. TypeOK' /\ EmitsFixpoint'
    BY <1>5 DEF Exhausted, SearchInv, TypeOK, EmitsFixpoint
  <2>2. LevelsInStep'
    BY <1>5 DEF Exhausted, SearchInv, LevelsInStep, Avail, top, lvl
  <2>3. NothingLost'
    BY <1>5 DEF Exhausted, SearchInv, NothingLost, lvl
  <2> QED BY <1>5, <2>1, <2>2, <2>3 DEF Exhausted, SearchInv, EmittedLegal, UnsatJustified
<1>6. CASE NextRound
  <2>1. CASE p_conf /\ dom' = top.dom /\ state' = "VALUE"
    <3>1. TypeOK'
      BY <1>0, <1>6, <2>1 DEF NextRound, SearchInv, TypeOK, Levels
    <3>2. LevelsInStep' /\ EmitsFixpoint'
      BY <1>6, <2>1 DEF NextRound, LevelsInStep, EmitsFixpoint, top, lvl
    <3>3. NothingLost'
      BY <1>6, <2>1, RoundKeeps DEF NextRound, SearchInv, NothingLost, lvl
    <3> QED BY <1>6, <2>1, <3>1, <3>2, <3>3 DEF NextRound, SearchInv, EmittedLegal, UnsatJustified
  <2>2. CASE ~p_conf /\ dom' = newD /\ state' = AfterRound("PROP")
    <3>0. state' \in {"PROP", "EMIT", "DECIDE"}
      BY <2>2 DEF AfterRound
    <3>1. TypeOK' /\ LevelsInStep'
      BY <1>0, <1>6, <2>2, <3>0 DEF NextRound, SearchInv, TypeOK, LevelsInStep
    <3>2. EmitsFixpoint'
      BY <1>6, <2>2, FixpointEmitted DEF NextRound
    <3>3. NothingLost'
      BY <1>6, <2>2, <3>0, RoundKeeps DEF NextRound, SearchInv, NothingLost, lvl
    <3> QED BY <1>6, <2>2, <3>1, <3>2, <3>3 DEF NextRound, SearchInv, EmittedLegal, UnsatJustified
  <2> QED BY <1>6, <2>1, <2>2 DEF NextRound
<1>7. CASE Backtrack
  <2>0. state = "BT" /\ top \in Levels /\ \A s \in Solutions[budget] : ~Pending(s, top)
    BY <1>0, <1>7 DEF Backtrack, SearchInv, LevelsInStep, Pending, Within, Levels
  <2>1. \A s \in Solutions[budget] : \E l \in 1 .. lvl - 1 : Pending(s, trail[l])
    <3> SUFFICES ASSUME NEW s \in Solutions[budget]
                 PROVE  \E l \in 1 .. lvl - 1 : Pending(s, trail[l])
      OBVIOUS
    <3>1. PICK l \in 1 .. lvl : Pending(s, trail[l])
      BY <2>0 DEF SearchInv, NothingLost
    <3>2. l # lvl
      BY <2>0, <3>1 DEF top
    <3> QED BY <1>0, <3>1, <3>2
  <2>2. CASE lvl = 1 /\ GiveUp /\ UNCHANGED <<dom, trail>>
    <3>1. Solutions[budget] = {}
      BY <2>1, <2>2
    <3> QED BY <1>7, <2>2, <3>1 DEF Backtrack, GiveUp, SearchInv, TypeOK, LevelsInStep, EmitsFixpoint,
              NothingLost, EmittedLegal, UnsatJustified
  <2>3. CASE lvl > 1 /\ dom' = trail[lvl - 1].dom /\ trail' = Popped /\ state' = "VALUE" /\ UNCHANGED unsat
    <3>1. /\ trail' \in Seq(Levels) /\ Len(trail') = lvl - 1 /\ trail' # <<>>
          /\ \A l \in 1 .. lvl - 1 : trail'[l] = trail[l]
      <4>1. \A l \in 1 .. lvl - 1 : trail[l] \in Levels
        BY <1>0 DEF SearchInv, TypeOK
      <4>2. /\ trail' \in Seq(Levels) /\ Len(trail') = lvl - 1
            /\ \A l \in 1 .. lvl - 1 : trail'[l] = trail[l]
        BY <1>0, <2>3, <4>1, SubSeqProperties DEF Popped
      <4> QED BY <1>0, <2>3, <4>2, EmptySeq
    <3>2. trail[lvl - 1] \in Levels
      BY <1>0, <2>3 DEF SearchInv, TypeOK
    <3>3. TypeOK'
      BY <1>7, <2>3, <3>1, <3>2 DEF Backtrack, SearchInv, TypeOK, Levels
    <3>4. LevelsInStep' /\ EmitsFixpoint'
      BY <1>0, <2>3, <3>1 DEF LevelsInStep, EmitsFixpoint, top, lvl
    <3>5. NothingLost'
      BY <1>7, <2>1, <2>3, <3>1 DEF Backtrack, NothingLost, lvl
    <3> QED BY <1>7, <2>3, <3>3, <3>4, <3>5 DEF Backtrack, SearchInv, EmittedLegal, UnsatJustified
  <2> QED BY <1>7, <2>2, <2>3 DEF Backtrack
<1>8. CASE Emit
  <2>1. ReadOff(dom) \in Solutions[budget]
    BY <1>8, NarrowAssumption DEF Emit, SearchInv, EmitsFixpoint, TypeOK, newD
  <2>2. TypeOK' /\ LevelsInStep' /\ EmitsFixpoint' /\ NothingLost'
    BY <1>0, <1>8, <2>1 DEF Emit, SearchInv, TypeOK, LevelsInStep, EmitsFixpoint, NothingLost
  <2> QED BY <1>8, <2>1, <2>2 DEF Emit, SearchInv, EmittedLegal, UnsatJustified
<1>9. CASE Halted \/ UNCHANGED vars
  BY <1>9 DEF Halted, vars, SearchInv, TypeOK, LevelsInStep, EmitsFixpoint, newD, top, lvl,
     NothingLost, EmittedLegal, UnsatJustified
<1>10. CASE Reset
  <2>1. TypeOK'
    BY <1>10, EmptySeq DEF Reset, SearchInv, TypeOK
  <2>2. LevelsInStep' /\ EmitsFixpoint' /\ NothingLost' /\ EmittedLegal' /\ UnsatJustified'
    BY <1>10 DEF Reset, LevelsInStep, EmitsFixpoint, NothingLost, EmittedLegal, UnsatJustified
  <2> QED BY <2>1, <2>2 DEF SearchInv
<1> QED BY <1>1, <1>2, <1>3, <1>4, <1>5, <1>6, <1>7, <1>8, <1>9, <1>10 DEF Next, Clock

LEMMA SearchInvariant == Spec => []SearchInv
BY SearchInit, SearchStep, PTL DEF Spec

(* Type correctness; a level is open whenever the machine works on one.    *)
THEOREM SearchType == Spec => []TypeOK
<1>1. SearchInv => TypeOK
  BY DEF SearchInv
<1> QED BY <1>1, SearchInvariant, PTL

(* Every assignment put on the output satisfies the constraints.           *)
THEOREM EmittedAlwaysLegal == Spec => []EmittedLegal
<1>1. SearchInv => EmittedLegal
  BY DEF SearchInv
<1> QED BY <1>1, SearchInvariant, PTL

(* unsat is raised only when no assignment satisfies the constraints.      *)
THEOREM UnsatAlwaysJustified == Spec => []UnsatJustified
<1>1. SearchInv => UnsatJustified
  BY DEF SearchInv
<1> QED BY <1>1, SearchInvariant, PTL

(* Undoing and backtracking lose no solution.                              *)
THEOREM SolutionsNeverLost == Spec => []NothingLost
<1>1. SearchInv => NothingLost
  BY DEF SearchInv
<1> QED BY <1>1, SearchInvariant, PTL

-----------------------------------------------------------------------------
(* The depth of the search: a level is opened for a variable that is not   *)
(* settled, and the variables of the levels below are.                     *)

Narrowed(S) == \E v \in Values : S \subseteq {v}

(* The variables of the first n levels are settled in d.                   *)
SettledIn(d, n) == \A k \in 1 .. n : Narrowed(d[trail[k].var])

LevelsSettled == \A l \in 1 .. lvl : SettledIn(trail[l].dom, l - 1)
VarsDiffer == \A l \in 1 .. lvl : \A k \in 1 .. l - 1 : trail[k].var # trail[l].var

DepthInv ==
  /\ LevelsSettled
  /\ VarsDiffer
  /\ state \in {"PROP", "DECIDE"} => SettledIn(dom, lvl)
  /\ state = "DECIDE" => \A i \in Vars : dom[i] # {}

LEMMA DepthInit == Init => DepthInv
  BY DEF Init, DepthInv, LevelsSettled, VarsDiffer, lvl

(* A level is as settled as before when the levels up to it are.           *)
LEMMA DepthKept ==
  ASSUME DepthInv, UNCHANGED trail,
         state' \in {"PROP", "DECIDE"} => SettledIn(dom', lvl),
         state' = "DECIDE" => \A i \in Vars : dom'[i] # {}
  PROVE  DepthInv'
  BY DEF DepthInv, LevelsSettled, VarsDiffer, SettledIn, lvl

LEMMA DepthStep == SearchInv /\ SearchInv' /\ DepthInv /\ [Next]_vars => DepthInv'
<1> SUFFICES ASSUME SearchInv, SearchInv', DepthInv, [Next]_vars PROVE DepthInv'
  OBVIOUS
<1>0. /\ newD \in Domains /\ \A i \in Vars : newD[i] \subseteq dom[i]
      /\ trail \in Seq(Levels) /\ dom \in Domains /\ lvl = Len(trail) /\ lvl \in Nat
  BY NarrowAssumption DEF newD, lvl, SearchInv, TypeOK
<1>1. CASE Restart \/ Reset
  <2>1. trail' = <<>> /\ state' \notin {"PROP", "DECIDE"}
    BY <1>1 DEF Restart, Reset
  <2> QED BY <2>1 DEF DepthInv, LevelsSettled, VarsDiffer, lvl
<1>2. CASE FirstRound
  <2>1. UNCHANGED trail /\ trail = <<>>
    BY <1>2 DEF FirstRound, SearchInv, LevelsInStep
  <2>2. state' = "DECIDE" => \A i \in Vars : dom'[i] # {}
    BY <1>2 DEF FirstRound, GiveUp, p_conf
  <2>3. SettledIn(dom', lvl)
    BY <2>1 DEF SettledIn, lvl
  <2> QED BY <2>1, <2>2, <2>3, DepthKept
<1>3. CASE Decide
  <2>1. PICK i \in Vars : /\ ~IsOne(dom[i])
                          /\ trail' = Append(trail, [dom |-> dom, var |-> i, tried |-> {}])
    BY <1>3 DEF Decide
  <2> DEFINE e == [dom |-> dom, var |-> i, tried |-> {}]
  <2>2. e \in Levels
    BY DEF Levels, SearchInv, TypeOK
  <2>3. /\ lvl' = lvl + 1 /\ trail'[lvl + 1] = e
        /\ \A l \in 1 .. lvl : trail'[l] = trail[l]
    BY <1>0, <2>1, <2>2 DEF lvl
  <2>4. state = "DECIDE" /\ state' = "VALUE"
    BY <1>3 DEF Decide
  <2>5. SettledIn(dom, lvl) /\ dom[i] # {}
    BY <2>4 DEF DepthInv
  <2>6. \A k \in 1 .. lvl : trail[k].var # i
    BY <2>1, <2>5 DEF SettledIn, Narrowed, IsOne
  <2>7. LevelsSettled'
    <3> SUFFICES ASSUME NEW l \in 1 .. lvl + 1, NEW k \in 1 .. l - 1
                 PROVE  Narrowed(trail'[l].dom[trail'[k].var])
      BY <2>3 DEF LevelsSettled, SettledIn
    <3>1. k \in 1 .. lvl /\ trail'[k] = trail[k]
      BY <1>0, <2>3
    <3>2. CASE l = lvl + 1
      BY <2>3, <2>5, <3>1, <3>2 DEF SettledIn
    <3>3. CASE l \in 1 .. lvl
      BY <2>3, <3>1, <3>3 DEF DepthInv, LevelsSettled, SettledIn
    <3> QED BY <1>0, <3>2, <3>3
  <2>8. VarsDiffer'
    <3> SUFFICES ASSUME NEW l \in 1 .. lvl + 1, NEW k \in 1 .. l - 1
                 PROVE  trail'[k].var # trail'[l].var
      BY <2>3 DEF VarsDiffer
    <3>1. k \in 1 .. lvl /\ trail'[k] = trail[k]
      BY <1>0, <2>3
    <3>2. CASE l = lvl + 1
      BY <2>3, <2>6, <3>1, <3>2
    <3>3. CASE l \in 1 .. lvl
      BY <2>3, <3>1, <3>3 DEF DepthInv, VarsDiffer
    <3> QED BY <1>0, <3>2, <3>3
  <2> QED BY <2>4, <2>7, <2>8 DEF DepthInv
<1>4. CASE TryValue
  <2>1. PICK v \in Avail : /\ dom' = [dom EXCEPT ![top.var] = {v}]
                           /\ trail' = [trail EXCEPT ![lvl].tried = @ \cup {v}]
    BY <1>4 DEF TryValue
  <2>2. state = "VALUE" /\ state' = "PROP" /\ lvl \in 1 .. Len(trail) /\ dom = top.dom
    BY <1>0, <1>4 DEF TryValue, SearchInv, LevelsInStep, TypeOK
  <2>3. \A l \in 1 .. lvl : trail[l] \in Levels
    BY <1>0
  <2>4. /\ lvl' = lvl
        /\ \A l \in 1 .. lvl : trail'[l].dom = trail[l].dom /\ trail'[l].var = trail[l].var
    <3>1. DOMAIN trail = 1 .. lvl
      BY <1>0
    <3>2. Len(trail') = Len(trail)
      BY <1>0, <2>1, <2>2
    <3>3. \A l \in 1 .. lvl : trail'[l] = IF l = lvl THEN [trail[l] EXCEPT !.tried = @ \cup {v}]
                                          ELSE trail[l]
      BY <2>1, <3>1
    <3> QED BY <2>3, <3>2, <3>3 DEF lvl, Levels
  <2>5. LevelsSettled' /\ VarsDiffer'
    BY <1>0, <2>4 DEF DepthInv, LevelsSettled, VarsDiffer, SettledIn
  <2>6. SettledIn(dom, lvl - 1) /\ trail[lvl] = top
    BY <2>2 DEF DepthInv, LevelsSettled, top
  <2>7. v \in Values /\ top.var \in Vars
    BY <1>0, <2>2, <2>3, <2>6 DEF Avail, Levels, Domains
  <2>8. \A k \in 1 .. lvl : Narrowed(dom'[trail[k].var])
    <3> TAKE k \in 1 .. lvl
    <3>1. trail[k].var \in Vars
      BY <2>3 DEF Levels
    <3>2. CASE trail[k].var = top.var
      <4>1. dom'[trail[k].var] = {v}
        BY <1>0, <2>1, <2>7, <3>2 DEF Domains
      <4> QED BY <2>7, <4>1 DEF Narrowed
    <3>3. CASE trail[k].var # top.var
      <4>1. k \in 1 .. lvl - 1
        BY <1>0, <2>6, <3>3
      <4>2. dom'[trail[k].var] = dom[trail[k].var]
        BY <1>0, <2>1, <3>1, <3>3 DEF Domains
      <4> QED BY <2>6, <4>1, <4>2 DEF SettledIn
    <3> QED BY <3>2, <3>3
  <2>9. SettledIn(dom, lvl)'
    BY <2>4, <2>8 DEF SettledIn
  <2> QED BY <2>2, <2>5, <2>9 DEF DepthInv
<1>5. CASE Exhausted \/ Emit \/ Halted \/ UNCHANGED vars
  <2>1. UNCHANGED trail
    BY <1>5 DEF Exhausted, Emit, Halted, vars
  <2>2. state' \in {"PROP", "DECIDE"} => state' = state /\ dom' = dom
    BY <1>5 DEF Exhausted, Emit, Halted, vars
  <2> QED BY <2>1, <2>2, DepthKept DEF DepthInv
<1>6. CASE NextRound
  <2>1. UNCHANGED trail /\ state = "PROP"
    BY <1>6 DEF NextRound
  <2>2. state' \in {"PROP", "DECIDE"} => dom' = newD /\ ~p_conf
    BY <1>6 DEF NextRound
  <2>3. SettledIn(newD, lvl)
    <3> SUFFICES ASSUME NEW k \in 1 .. lvl PROVE Narrowed(newD[trail[k].var])
      BY DEF SettledIn
    <3>1. trail[k] \in Levels
      BY <1>0
    <3>2. trail[k].var \in Vars
      BY <3>1 DEF Levels
    <3>3. Narrowed(dom[trail[k].var])
      BY <2>1 DEF DepthInv, SettledIn
    <3> QED BY <1>0, <3>2, <3>3 DEF Narrowed
  <2>4. state' \in {"PROP", "DECIDE"} => SettledIn(dom', lvl)
    BY <2>2, <2>3
  <2>5. state' = "DECIDE" => \A i \in Vars : dom'[i] # {}
    BY <2>2 DEF p_conf
  <2> QED BY <2>1, <2>4, <2>5, DepthKept
<1>7. CASE Backtrack
  <2>1. CASE UNCHANGED trail /\ state' = "DONE"
    BY <2>1, DepthKept
  <2>2. CASE lvl > 1 /\ trail' = Popped /\ state' = "VALUE"
    <3>1. lvl' = lvl - 1 /\ \A l \in 1 .. lvl - 1 : trail'[l] = trail[l]
      <4>1. \A l \in 1 .. lvl - 1 : trail[l] \in Levels
        BY <1>0
      <4> QED BY <1>0, <2>2, <4>1, SubSeqProperties DEF Popped, lvl
    <3>2. LevelsSettled'
      <4> SUFFICES ASSUME NEW l \in 1 .. lvl - 1, NEW k \in 1 .. l - 1
                   PROVE  Narrowed(trail'[l].dom[trail'[k].var])
        BY <3>1 DEF LevelsSettled, SettledIn
      <4>1. /\ l \in 1 .. lvl /\ k \in 1 .. lvl - 1
            /\ trail'[l] = trail[l] /\ trail'[k] = trail[k]
        BY <1>0, <3>1
      <4>2. Narrowed(trail[l].dom[trail[k].var])
        BY <4>1 DEF DepthInv, LevelsSettled, SettledIn
      <4> QED BY <4>1, <4>2
    <3>3. VarsDiffer'
      <4> SUFFICES ASSUME NEW l \in 1 .. lvl - 1, NEW k \in 1 .. l - 1
                   PROVE  trail'[k].var # trail'[l].var
        BY <3>1 DEF VarsDiffer
      <4>1. /\ l \in 1 .. lvl /\ k \in 1 .. lvl - 1
            /\ trail'[l] = trail[l] /\ trail'[k] = trail[k]
        BY <1>0, <3>1
      <4> QED BY <4>1 DEF DepthInv, VarsDiffer
    <3> QED BY <2>2, <3>2, <3>3 DEF DepthInv
  <2> QED BY <1>7, <2>1, <2>2 DEF Backtrack, GiveUp
<1> QED BY <1>1, <1>2, <1>3, <1>4, <1>5, <1>6, <1>7 DEF Next, Clock

(* As many levels as variables of their own.                               *)
LEMMA DepthBounded == TypeOK /\ VarsDiffer => TrailFits
<1> SUFFICES ASSUME TypeOK, VarsDiffer, ~TrailFits PROVE FALSE
  OBVIOUS
<1> DEFINE f == [l \in 1 .. lvl |-> trail[l].var]
<1>1. trail \in Seq(Levels) /\ lvl = Len(trail) /\ lvl \in Nat
  BY DEF TypeOK, lvl
<1>2. f \in [1 .. lvl -> Vars]
  <2>1. \A l \in 1 .. lvl : trail[l] \in Levels
    BY <1>1
  <2> QED BY <2>1 DEF Levels
<1>3. IsFiniteSet(1 .. lvl) /\ Cardinality(1 .. lvl) = lvl
  <2>1. 1 \in Int /\ lvl \in Int
    BY <1>1
  <2>2. IsFiniteSet(1 .. lvl)
    BY <2>1, FS_Interval, Zenon
  <2>3. Cardinality(1 .. lvl) = IF 1 > lvl THEN 0 ELSE lvl - 1 + 1
    BY <2>1, FS_Interval, Zenon
  <2> QED BY <1>1, <2>2, <2>3
<1>4. IsFiniteSet(Vars) /\ Cardinality(Vars) \in Nat
  BY VarsAssumption, FS_CardinalityType
<1>5. Cardinality(Vars) < Cardinality(1 .. lvl)
  BY <1>1, <1>3, <1>4 DEF TrailFits
<1> HIDE DEF f
<1>6. \E k, l \in 1 .. lvl : k # l /\ f[k] = f[l]
  BY <1>2, <1>3, <1>4, <1>5, FS_PigeonHole, Zenon
<1> USE DEF f
<1>7. PICK k \in 1 .. lvl, l \in 1 .. lvl : k # l /\ f[k] = f[l]
  BY <1>6
<1>8. trail[k].var = trail[l].var
  BY <1>7
<1> QED BY <1>1, <1>7, <1>8 DEF VarsDiffer

(* There are never more open levels than variables: the arrays indexed by  *)
(* lvl are never overrun.                                                  *)
THEOREM LevelsAlwaysFit == Spec => []TrailFits
<1>1. Init => SearchInv /\ DepthInv
  BY SearchInit, DepthInit
<1>2. SearchInv /\ DepthInv /\ [Next]_vars => (SearchInv /\ DepthInv)'
  BY SearchStep, DepthStep
<1>3. SearchInv /\ DepthInv => TrailFits
  BY DepthBounded DEF SearchInv, DepthInv
<1> QED BY <1>1, <1>2, <1>3, PTL DEF Spec

-----------------------------------------------------------------------------
(* The round of the code.                                                  *)

(* Among some subsets of a finite set there is one with none below it.     *)
LEMMA SmallestSet ==
  ASSUME NEW V, IsFiniteSet(V), NEW B \in SUBSET SUBSET V, B # {}
  PROVE  \E b \in B : \A s \in SUBSET b : s # b => s \notin B
<1> DEFINE R == StrictSubsetOrdering(V)
<1>1. IsWellFoundedOn(R, SUBSET V)
  BY FS_StrictSubsetOrderingWellFounded, FS_FiniteSubsetsOfFinite
<1>2. \E b \in B : \A s \in B : ~(<<s, b>> \in R)
  <2> HIDE DEF R
  <2> QED
    BY <1>1, WFMin, Zenon
<1> QED
  BY <1>2 DEF StrictSubsetOrdering

(* A sum over a set takes one element after the other, each time the same  *)
(* one of what is left.                                                    *)
Peels(c, V) == \A s \in SUBSET V : s # {} => c[s] \in s

Adds(g, c, f, V) ==
  g = [s \in SUBSET V |-> IF s = {} THEN 0 ELSE f[c[s]] + g[s \ {c[s]}]]

(* Sets with their sums, and what else is closed under adding.             *)
Ledger(M, c, f, V) ==
  /\ <<{}, 0>> \in M
  /\ \A s \in SUBSET V : \A v \in Int :
       s # {} /\ <<s \ {c[s]}, v>> \in M => <<s, f[c[s]] + v>> \in M

LEMMA SumExists ==
  ASSUME NEW V, IsFiniteSet(V), NEW c, Peels(c, V), NEW f \in [V -> Int]
  PROVE  \E g : Adds(g, c, f, V)
<1> DEFINE U == (SUBSET V) \X Int
           L == {p \in U : \A M \in SUBSET U : Ledger(M, c, f, V) => p \in M}
           one(s) == \E v \in Int : <<s, v>> \in L /\ \A w \in Int : <<s, w>> \in L => w = v
           B == {s \in SUBSET V : ~one(s)}
<1>1. L \in SUBSET U /\ Ledger(L, c, f, V)
  <2>1. ASSUME NEW s \in SUBSET V, NEW v \in Int, s # {}, <<s \ {c[s]}, v>> \in L
        PROVE  <<s, f[c[s]] + v>> \in L
    <3>1. c[s] \in V /\ f[c[s]] + v \in Int
      BY <2>1 DEF Peels
    <3>2. <<s, f[c[s]] + v>> \in U
      BY <3>1
    <3>3. ASSUME NEW M \in SUBSET U, Ledger(M, c, f, V) PROVE <<s, f[c[s]] + v>> \in M
      <4>1. <<s \ {c[s]}, v>> \in M
        BY <2>1, <3>3
      <4> QED
        BY <2>1, <3>3, <4>1 DEF Ledger
    <3> QED
      BY <3>2, <3>3
  <2>2. <<{}, 0>> \in L
    <3>1. <<{}, 0>> \in U
      OBVIOUS
    <3>2. \A M \in SUBSET U : Ledger(M, c, f, V) => <<{}, 0>> \in M
      BY DEF Ledger
    <3> QED
      BY <3>1, <3>2
  <2>3. L \in SUBSET U
    OBVIOUS
  <2> HIDE DEF L
  <2> QED
    BY <2>1, <2>2, <2>3 DEF Ledger
<1>2. \A M \in SUBSET U : Ledger(M, c, f, V) => L \subseteq M
  OBVIOUS
<1> HIDE DEF L
<1>3. ASSUME NEW s \in SUBSET V, s # {}, one(s \ {c[s]}) PROVE one(s)
  <2>1. PICK v \in Int : /\ <<s \ {c[s]}, v>> \in L
                         /\ \A w \in Int : <<s \ {c[s]}, w>> \in L => w = v
    BY <1>3
  <2>2. c[s] \in s /\ f[c[s]] \in Int
    BY <1>3 DEF Peels
  <2>3. <<s, f[c[s]] + v>> \in L /\ f[c[s]] + v \in Int
    BY <1>1, <1>3, <2>1, <2>2 DEF Ledger
  <2> DEFINE M == L \ {<<s, w>> : w \in Int \ {f[c[s]] + v}}
  <2>4. Ledger(M, c, f, V)
    <3>1. <<{}, 0>> \in M
      BY <1>1, <1>3 DEF Ledger
    <3>2. ASSUME NEW t \in SUBSET V, NEW w \in Int, t # {}, <<t \ {c[t]}, w>> \in M
          PROVE  <<t, f[c[t]] + w>> \in M
      <4>1. <<t, f[c[t]] + w>> \in L
        BY <1>1, <3>2 DEF Ledger
      <4>2. t = s => w = v
        BY <2>1, <3>2
      <4> QED
        BY <4>1, <4>2
    <3> HIDE DEF M
    <3> QED
      BY <3>1, <3>2 DEF Ledger
  <2>5. L \subseteq M
    <3>1. M \in SUBSET U
      BY <1>1
    <3> HIDE DEF M
    <3> QED
      BY <1>2, <2>4, <3>1
  <2>6. \A w \in Int : <<s, w>> \in L => w = f[c[s]] + v
    BY <2>5
  <2> QED
    BY <2>3, <2>6
<1>4. one({})
  <2> DEFINE M == L \ {<<{}, w>> : w \in Int \ {0}}
  <2>1. Ledger(M, c, f, V)
    BY <1>1 DEF Ledger
  <2>2. L \subseteq M
    <3>1. M \in SUBSET U
      BY <1>1
    <3> HIDE DEF M
    <3> QED
      BY <1>2, <2>1, <3>1
  <2>3. \A w \in Int : <<{}, w>> \in L => w = 0
    BY <2>2
  <2>4. <<{}, 0>> \in L /\ 0 \in Int
    BY <1>1 DEF Ledger
  <2> HIDE DEF M
  <2> QED
    BY <2>3, <2>4
<1>5. \A s \in SUBSET V : one(s)
  <2>1. ASSUME B # {} PROVE FALSE
    <3>1. PICK b \in B : \A s \in SUBSET b : s # b => s \notin B
      <4>1. B \in SUBSET SUBSET V
        OBVIOUS
      <4> HIDE DEF B
      <4> QED
        BY <2>1, <4>1, SmallestSet
    <3>2. b \in SUBSET V /\ ~one(b)
      OBVIOUS
    <3>3. b # {}
      BY <1>4, <3>2
    <3>4. c[b] \in b
      BY <3>2, <3>3 DEF Peels
    <3>5. one(b \ {c[b]})
      BY <3>1, <3>2, <3>4
    <3> HIDE DEF one
    <3> QED
      BY <1>3, <3>2, <3>3, <3>5
  <2> QED
    BY <2>1
<1> DEFINE val(s) == CHOOSE v \in Int : <<s, v>> \in L
           g == [s \in SUBSET V |-> val(s)]
<1>6. \A s \in SUBSET V : /\ val(s) \in Int /\ <<s, val(s)>> \in L
                          /\ \A w \in Int : <<s, w>> \in L => w = val(s)
  BY <1>5
<1> HIDE DEF val
<1>7. ASSUME NEW s \in SUBSET V
      PROVE  val(s) = IF s = {} THEN 0 ELSE f[c[s]] + g[s \ {c[s]}]
  <2>1. CASE s = {}
    <3>1. <<{}, 0>> \in L /\ 0 \in Int /\ {} \in SUBSET V
      BY <1>1 DEF Ledger
    <3>2. val({}) = 0
      BY <1>6, <3>1
    <3> QED
      BY <2>1, <3>2
  <2>2. CASE s # {}
    <3>1. c[s] \in s /\ f[c[s]] \in Int /\ s \ {c[s]} \in SUBSET V
      BY <2>2 DEF Peels
    <3>2. <<s \ {c[s]}, val(s \ {c[s]})>> \in L /\ val(s \ {c[s]}) \in Int
      BY <1>6, <3>1
    <3>3. <<s, f[c[s]] + val(s \ {c[s]})>> \in L
      BY <1>1, <2>2, <3>2 DEF Ledger
    <3>4. f[c[s]] + val(s \ {c[s]}) \in Int
      BY <3>1, <3>2
    <3> QED
      BY <1>6, <2>2, <3>1, <3>3, <3>4
  <2> QED
    BY <2>1, <2>2
<1>8. Adds(g, c, f, V)
  BY <1>7 DEF Adds
<1> QED
  BY <1>8

(* The elements the sum of the model takes.                                *)
Picker(V) == [s \in SUBSET V |-> CHOOSE x \in s : TRUE]

(* The total is such a sum.                                                *)
LEMMA TotalAdds ==
  ASSUME NEW f \in [Variables -> Int]
  PROVE  \E g : Adds(g, Picker(Variables), f, Variables) /\ Total(f) = g[Variables]
<1> DEFINE V == Variables
           IsSum(g) == g = [s \in SUBSET V |-> IF s = {} THEN 0 ELSE
                              LET x == CHOOSE x \in s : TRUE IN f[x] + g[s \ {x}]]
           sum == CHOOSE g : IsSum(g)
<1>1. IsFiniteSet(V)
  BY RoundAssumption, FS_Interval DEF Variables
<1>2. Peels(Picker(V), V)
  BY DEF Peels, Picker
<1>3. \A s \in SUBSET V : Picker(V)[s] = CHOOSE x \in s : TRUE
  BY DEF Picker
<1>4. PICK g : Adds(g, Picker(V), f, V)
  <2>1. f \in [V -> Int]
    OBVIOUS
  <2>2. PICK c : c = Picker(V)
    OBVIOUS
  <2> HIDE DEF V
  <2> QED
    BY <1>1, <1>2, <2>1, <2>2, SumExists
<1>5. \A h : IsSum(h) <=> Adds(h, Picker(V), f, V)
  BY <1>3 DEF Adds
<1>6. IsSum(sum)
  <2>1. IsSum(g)
    BY <1>4, <1>5
  <2> HIDE DEF IsSum
  <2> QED
    BY <2>1
<1>7. Total(f) = sum[V]
  BY Zenon DEF Total, SumFunctionOnSet, FoldFunctionOnSet, MapThenFoldSet
<1> HIDE DEF sum, IsSum
<1> QED
  BY <1>5, <1>6, <1>7

(* Totals of smaller functions are smaller, also without one element.      *)
LEMMA TotalsGrow ==
  ASSUME NEW f \in [Variables -> Int], NEW h \in [Variables -> Int],
         \A i \in Variables : f[i] <= h[i]
  PROVE  /\ Total(f) \in Int /\ Total(h) \in Int
         /\ \A i \in Variables : Total(f) - f[i] <= Total(h) - h[i]
<1> DEFINE V == Variables
           c == Picker(V)
<1>1. PICK F : Adds(F, c, f, V) /\ Total(f) = F[V]
  BY TotalAdds
<1>2. PICK H : Adds(H, c, h, V) /\ Total(h) = H[V]
  BY TotalAdds
<1>3. IsFiniteSet(V)
  BY RoundAssumption, FS_Interval DEF Variables
<1>4. Peels(c, V)
  BY DEF Peels, Picker
<1>5. f \in [V -> Int] /\ h \in [V -> Int] /\ \A i \in V : f[i] <= h[i]
  OBVIOUS
<1> HIDE DEF V, c
<1> DEFINE right(s) == /\ F[s] \in Int /\ H[s] \in Int /\ F[s] <= H[s]
                       /\ \A i \in s : F[s] - f[i] <= H[s] - h[i]
           B == {s \in SUBSET V : ~right(s)}
<1>6. ASSUME NEW s \in SUBSET V
      PROVE  /\ s = {} => F[s] = 0 /\ H[s] = 0
             /\ s # {} => F[s] = f[c[s]] + F[s \ {c[s]}] /\ H[s] = h[c[s]] + H[s \ {c[s]}]
  BY <1>1, <1>2 DEF Adds
<1>7. ASSUME NEW s \in SUBSET V, s # {}, right(s \ {c[s]}) PROVE right(s)
  <2>1. PICK x \in s : x = c[s]
    BY <1>4, <1>7 DEF Peels
  <2>2. PICK r : r = s \ {x}
    OBVIOUS
  <2>3. /\ F[r] \in Int /\ H[r] \in Int /\ F[r] <= H[r]
        /\ \A i \in r : F[r] - f[i] <= H[r] - h[i]
    BY <1>7, <2>1, <2>2
  <2>4. F[s] = f[x] + F[r] /\ H[s] = h[x] + H[r]
    BY <1>6, <1>7, <2>1, <2>2
  <2>5. \A i \in s : f[i] \in Int /\ h[i] \in Int /\ f[i] <= h[i]
    BY <1>5
  <2>6. ASSUME NEW i \in s PROVE F[s] - f[i] <= H[s] - h[i]
    <3>1. CASE i = x
      BY <2>3, <2>4, <2>5, <3>1
    <3>2. CASE i # x
      <4>1. i \in r /\ f[i] \in Int /\ h[i] \in Int /\ f[x] \in Int /\ h[x] \in Int /\ f[x] <= h[x]
        BY <2>2, <2>5, <3>2
      <4>2. F[r] - f[i] <= H[r] - h[i]
        BY <2>3, <4>1
      <4> QED
        BY <2>3, <2>4, <4>1, <4>2
    <3> QED
      BY <3>1, <3>2
  <2>7. F[s] \in Int /\ H[s] \in Int /\ F[s] <= H[s]
    <3>1. f[x] \in Int /\ h[x] \in Int /\ f[x] <= h[x]
      BY <2>5
    <3> QED
      BY <2>3, <2>4, <3>1
  <2> QED
    BY <2>6, <2>7
<1>8. right({})
  BY <1>6
<1>9. \A s \in SUBSET V : right(s)
  <2>1. ASSUME B # {} PROVE FALSE
    <3>1. PICK b \in B : \A s \in SUBSET b : s # b => s \notin B
      <4>1. B \in SUBSET SUBSET V
        OBVIOUS
      <4> HIDE DEF B
      <4> QED
        BY <1>3, <2>1, <4>1, SmallestSet
    <3>2. b \in SUBSET V /\ ~right(b)
      OBVIOUS
    <3>3. b # {}
      BY <1>8, <3>2
    <3>4. c[b] \in b
      BY <1>4, <3>2, <3>3 DEF Peels
    <3>5. right(b \ {c[b]})
      <4>1. b \ {c[b]} \in SUBSET b /\ b \ {c[b]} # b /\ b \ {c[b]} \in SUBSET V
        BY <3>2, <3>4
      <4>2. b \ {c[b]} \notin B
        BY <3>1, <4>1
      <4> HIDE DEF right
      <4> QED
        BY <4>1, <4>2
    <3> HIDE DEF right
    <3> QED
      BY <1>7, <3>2, <3>3, <3>5
  <2> HIDE DEF right
  <2> QED
    BY <2>1
<1>10. right(V)
  <2> HIDE DEF right
  <2> QED
    BY <1>9
<1> QED
  BY <1>1, <1>2, <1>10 DEF V

(* Domains of the engine's variables.                                      *)
RoundDomains == [Variables -> SUBSET (1 .. DW)]

(* Every set of values has a least and a greatest.                         *)
LEMMA LeastGreatest ==
  ASSUME NEW S \in SUBSET (1 .. DW)
  PROVE  /\ Least(S) \in Int /\ Greatest(S) \in Int
         /\ \A v \in S : Least(S) <= v /\ v <= Greatest(S)
<1>1. CASE S = {}
  BY <1>1 DEF Least, Greatest
<1>2. CASE S # {}
  <2> DEFINE B == {{w \in 1 .. DW : w < v} : v \in S}
             C == {{w \in 1 .. DW : w > v} : v \in S}
  <2>1. IsFiniteSet(1 .. DW)
    BY RoundAssumption, FS_Interval
  <2>2. \E v \in S : \A w \in S : v <= w
    <3>1. PICK b \in B : \A s \in SUBSET b : s # b => s \notin B
      <4>1. B \in SUBSET SUBSET (1 .. DW) /\ B # {}
        BY <1>2
      <4> HIDE DEF B
      <4> QED
        BY <2>1, <4>1, SmallestSet
    <3>2. PICK v \in S : b = {w \in 1 .. DW : w < v}
      OBVIOUS
    <3>3. ASSUME NEW w \in S, ~(v <= w) PROVE FALSE
      <4>1. {x \in 1 .. DW : x < w} \in SUBSET b
        BY <3>2, <3>3
      <4>2. w \in b /\ w \notin {x \in 1 .. DW : x < w}
        BY <3>2, <3>3
      <4>3. {x \in 1 .. DW : x < w} \in B
        OBVIOUS
      <4> QED
        BY <3>1, <4>1, <4>2, <4>3
    <3> QED
      BY <3>3
  <2>3. \E v \in S : \A w \in S : v >= w
    <3>1. PICK b \in C : \A s \in SUBSET b : s # b => s \notin C
      <4>1. C \in SUBSET SUBSET (1 .. DW) /\ C # {}
        BY <1>2
      <4> HIDE DEF C
      <4> QED
        BY <2>1, <4>1, SmallestSet
    <3>2. PICK v \in S : b = {w \in 1 .. DW : w > v}
      OBVIOUS
    <3>3. ASSUME NEW w \in S, ~(v >= w) PROVE FALSE
      <4>1. {x \in 1 .. DW : x > w} \in SUBSET b
        BY <3>2, <3>3
      <4>2. w \in b /\ w \notin {x \in 1 .. DW : x > w}
        BY <3>2, <3>3
      <4>3. {x \in 1 .. DW : x > w} \in C
        OBVIOUS
      <4> QED
        BY <3>1, <4>1, <4>2, <4>3
    <3> QED
      BY <3>3
  <2>4. Least(S) \in S /\ \A w \in S : Least(S) <= w
    BY <1>2, <2>2 DEF Least
  <2>5. Greatest(S) \in S /\ \A w \in S : Greatest(S) >= w
    BY <1>2, <2>3 DEF Greatest
  <2>6. \A v \in S : v \in Int
    BY RoundAssumption
  <2>7. \A v, w \in S : w >= v <=> v <= w
    BY <2>6
  <2> HIDE DEF B, C
  <2> QED
    BY <2>4, <2>5, <2>6, <2>7
<1> QED
  BY <1>1, <1>2

(* What a round leaves, value by value.                                    *)
LEMMA RoundIs ==
  ASSUME NEW sum, NEW d \in RoundDomains,
         NEW least, least = [i \in Variables |-> Least(d[i])],
         NEW greatest, greatest = [i \in Variables |-> Greatest(d[i])]
  PROVE  /\ Round(sum, d) = [i \in Variables |-> Round(sum, d)[i]]
         /\ \A i \in Variables : \A v :
              v \in Round(sum, d)[i] <=>
                /\ v \in d[i]
                /\ \A j \in Variables \ {i} : Cardinality(d[j]) = 1 => v \notin d[j]
                /\ sum - Total(greatest) + greatest[i] <= v
                /\ v <= sum - Total(least) + least[i]
                /\ i = 0 => v < greatest[1]
                /\ i = 1 => v > least[0]
  BY DEF Round

(* What DpllSolver assumes of a round holds of the one of the code: it     *)
(* adds no value, loses none of a legal assignment, and rests on domains   *)
(* of one value each only when they are legal.                             *)
THEOREM RoundNarrows ==
  ASSUME NEW sum \in Int, NEW d \in RoundDomains
  PROVE  /\ Round(sum, d) \in RoundDomains
         /\ \A i \in Variables : Round(sum, d)[i] \subseteq d[i]
         /\ \A s \in [Variables -> 1 .. DW] :
              (\A i \in Variables : d[i] = {s[i]}) /\ Round(sum, d) = d => Legal(sum, s)
         /\ \A s \in [Variables -> 1 .. DW] :
              Legal(sum, s) /\ (\A i \in Variables : s[i] \in d[i])
                => \A i \in Variables : s[i] \in Round(sum, d)[i]
<1>1. PICK least : least = [i \in Variables |-> Least(d[i])]
  OBVIOUS
<1>2. PICK greatest : greatest = [i \in Variables |-> Greatest(d[i])]
  OBVIOUS
<1>3. /\ Round(sum, d) = [i \in Variables |-> Round(sum, d)[i]]
      /\ \A i \in Variables : \A v :
           v \in Round(sum, d)[i] <=>
             /\ v \in d[i]
             /\ \A j \in Variables \ {i} : Cardinality(d[j]) = 1 => v \notin d[j]
             /\ sum - Total(greatest) + greatest[i] <= v
             /\ v <= sum - Total(least) + least[i]
             /\ i = 0 => v < greatest[1]
             /\ i = 1 => v > least[0]
  BY <1>1, <1>2, RoundIs
<1>4. /\ least \in [Variables -> Int] /\ greatest \in [Variables -> Int]
      /\ \A i \in Variables : \A v \in d[i] : least[i] <= v /\ v <= greatest[i]
  BY <1>1, <1>2, LeastGreatest DEF RoundDomains
<1>5. 0 \in Variables /\ 1 \in Variables
  BY RoundAssumption DEF Variables
<1>6. \A i \in Variables : d[i] \subseteq 1 .. DW
  BY DEF RoundDomains
<1>7. Round(sum, d) \in RoundDomains /\ \A i \in Variables : Round(sum, d)[i] \subseteq d[i]
  <2>1. PICK r : r = Round(sum, d)
    OBVIOUS
  <2>2. \A i \in Variables : r[i] \subseteq d[i]
    BY <1>3, <2>1
  <2>3. r = [i \in Variables |-> r[i]]
    BY <1>3, <2>1
  <2>4. r \in RoundDomains
    BY <1>6, <2>2, <2>3 DEF RoundDomains
  <2> QED
    BY <2>1, <2>2, <2>4
<1>8. ASSUME NEW s \in [Variables -> 1 .. DW],
             \A i \in Variables : d[i] = {s[i]}, Round(sum, d) = d
      PROVE  Legal(sum, s)
  <2>1. least = s /\ greatest = s
    <3>1. \A i \in Variables : Least(d[i]) = s[i] /\ Greatest(d[i]) = s[i]
      BY <1>8 DEF Least, Greatest
    <3> QED
      BY <1>1, <1>2, <3>1
  <2>2. \A i \in Variables :
          /\ \A j \in Variables \ {i} : s[i] # s[j]
          /\ sum - Total(s) + s[i] <= s[i] /\ s[i] <= sum - Total(s) + s[i]
          /\ i = 0 => s[i] < s[1]
    <3> TAKE i \in Variables
    <3>1. s[i] \in Round(sum, d)[i]
      BY <1>8
    <3>2. \A j \in Variables : Cardinality(d[j]) = 1
      BY <1>8, FS_Singleton
    <3> QED
      BY <1>3, <1>8, <2>1, <3>1, <3>2
  <2>3. Total(s) \in Int
    <3>1. s \in [Variables -> Int] /\ \A i \in Variables : s[i] <= s[i]
      OBVIOUS
    <3> QED
      BY <3>1, TotalsGrow
  <2>4. Total(s) = sum /\ s[0] < s[1]
    <3>1. s[0] \in Int
      BY <1>5
    <3> QED
      BY <1>5, <2>2, <2>3, <3>1
  <2>5. \A i, j \in Variables : i # j => s[i] # s[j]
    BY <2>2
  <2> QED
    BY <2>4, <2>5 DEF Legal
<1>9. ASSUME NEW s \in [Variables -> 1 .. DW], Legal(sum, s),
             \A i \in Variables : s[i] \in d[i],
             NEW i \in Variables
      PROVE  s[i] \in Round(sum, d)[i]
  <2>1. s \in [Variables -> Int] /\ \A j \in Variables : least[j] <= s[j] /\ s[j] <= greatest[j]
    BY <1>4, <1>9
  <2>2. /\ Total(least) \in Int /\ Total(s) \in Int /\ Total(greatest) \in Int
        /\ Total(least) - least[i] <= Total(s) - s[i]
        /\ Total(s) - s[i] <= Total(greatest) - greatest[i]
    BY <1>4, <2>1, TotalsGrow
  <2>3. Total(s) = sum /\ s[0] < s[1]
    BY <1>9 DEF Legal
  <2>4. /\ sum - Total(greatest) + greatest[i] <= s[i]
        /\ s[i] <= sum - Total(least) + least[i]
    <3>1. s[i] \in Int /\ least[i] \in Int /\ greatest[i] \in Int
      BY <1>4, <2>1
    <3> QED
      BY <2>2, <2>3, <3>1
  <2>5. ASSUME NEW j \in Variables \ {i}, Cardinality(d[j]) = 1 PROVE s[i] \notin d[j]
    <3>1. IsFiniteSet(d[j])
      <4>1. IsFiniteSet(1 .. DW)
        BY RoundAssumption, FS_Interval
      <4> QED
        BY <1>6, <4>1, FS_Subset
    <3>2. d[j] = {s[j]}
      BY <1>9, <2>5, <3>1, FS_Singleton
    <3> QED
      BY <1>9, <3>2 DEF Legal
  <2>6. (i = 0 => s[i] < greatest[1]) /\ (i = 1 => s[i] > least[0])
    <3>1. s[0] \in Int /\ s[1] \in Int /\ least[0] \in Int /\ greatest[1] \in Int
      BY <1>4, <1>5, <2>1
    <3> QED
      BY <1>5, <2>1, <2>3, <3>1
  <2> QED
    BY <1>3, <1>9, <2>4, <2>5, <2>6
<1> QED
  BY <1>7, <1>8, <1>9
===============================================================================
