-------------------------- MODULE ProofEnginesProofs --------------------------
(***************************************************************************)
(* The proof engines on any designs, with any choice of witnesses, lifting *)
(* and order of literals, obligations and clauses.                         *)
(*                                                                         *)
(* The frames of IC3 over-approximate the reachable states and no          *)
(* obligation contains the reset state.  Every verdict is true of the      *)
(* design: SAFE and PROVED because they leave a certificate, a set of      *)
(* states with the reset state, that no step leaves and where none is bad; *)
(* UNSAFE and CEX because what they found excludes a certificate; and a    *)
(* design is safe exactly when the design under its assumptions has one.   *)
(***************************************************************************)
EXTENDS ProofEngines, FiniteSetTheorems, TLAPS

(* A cube over the bits of the system.                                     *)
IsCube(c) == c # {} /\ c \subseteq LiteralsOf(sys.bits)

(* Clauses that every state of a set satisfies.                            *)
Meets(s, F) == \A c \in F : Holds(c, s)

FramesType ==
  /\ IsSystem(sys)
  /\ frames \in Seq(SUBSET SUBSET Int)
  /\ Len(frames) >= 1

-----------------------------------------------------------------------------
(* Literals.                                                               *)

(* A state contains one literal of every bit.                              *)
LEMMA OneLiteral ==
  ASSUME NEW bits \in SUBSET (Nat \ {0}), NEW s \in StatesOver(bits), NEW l \in LiteralsOf(bits)
  PROVE  l \in s <=> -l \notin s
<1>1. PICK on \in SUBSET bits : s = on \cup {-b : b \in bits \ on}
  BY DEF StatesOver
<1>2. CASE l \in bits
  BY <1>1, <1>2
<1>3. CASE \E b \in bits : l = -b
  BY <1>1, <1>3
<1> QED
  BY <1>2, <1>3 DEF LiteralsOf

(* The literals of a state are those of its bits.                          *)
LEMMA StateLiterals ==
  ASSUME NEW bits, NEW s \in StatesOver(bits)
  PROVE  s \subseteq LiteralsOf(bits)
  BY DEF StatesOver, LiteralsOf

(* A state violates the negation of a cube exactly when it is in the cube. *)
LEMMA NegatedCube ==
  ASSUME NEW bits \in SUBSET (Nat \ {0}), NEW s \in StatesOver(bits),
         NEW c \in SUBSET LiteralsOf(bits)
  PROVE  Holds(Negated(c), s) <=> ~In(s, c)
<1>1. \A l \in c : l \in s <=> -l \notin s
  BY OneLiteral
<1> QED
  BY <1>1 DEF Holds, Negated, In

(* A clause that enters a frame is added to what the frame says.           *)
LEMMA EnteredMeets ==
  ASSUME NEW clause, NEW F, NEW s
  PROVE  Meets(s, Entered(clause, F)) <=> Meets(s, F) /\ Holds(clause, s)
  BY DEF Meets, Entered, Holds

-----------------------------------------------------------------------------
(* Frames.                                                                 *)

(* What it is to be in a frame.                                            *)
FrameMembers ==
  \A i \in Int \ {0} : \A s :
    s \in Frame(i) <=> s \in sys.states /\ \A j \in i .. frontier : Meets(s, frames[j])

LEMMA FrameStates == FrameMembers
  BY DEF FrameMembers, Frame, Meets

(* FramesHold, state by state.                                             *)
FramesSound ==
  \A i \in 0 .. frontier - 1 :
    /\ sys.init \in Frame(i + 1)
    /\ \A s \in Frame(i) : \A in \in sys.inputs :
         /\ sys.step[<<s, in>>] \in Frame(i + 1)
         /\ pc # "start" /\ found.result # "UNSAFE" => ~sys.bad[<<s, in>>]

LEMMA ImageInside ==
  ASSUME NEW ts, NEW S, NEW T
  PROVE  Image(ts, S) \subseteq T <=> \A s \in S : \A in \in ts.inputs : ts.step[<<s, in>>] \in T
<1>1. ASSUME Image(ts, S) \subseteq T, NEW s \in S, NEW in \in ts.inputs
      PROVE  ts.step[<<s, in>>] \in T
  <2>1. <<s, in>> \in S \X ts.inputs
    OBVIOUS
  <2> QED
    BY <1>1, <2>1 DEF Image
<1>2. ASSUME \A s \in S : \A in \in ts.inputs : ts.step[<<s, in>>] \in T
      PROVE  Image(ts, S) \subseteq T
  <2>1. \A x \in S \X ts.inputs : \E s \in S, in \in ts.inputs : x = <<s, in>>
    OBVIOUS
  <2> QED
    BY <1>2, <2>1 DEF Image
<1> QED
  BY <1>1, <1>2

LEMMA FramesStateByState == FramesHold <=> FramesSound
<1>1. ASSUME FramesHold PROVE FramesSound
  BY <1>1 DEF FramesHold, FramesSound, Image, HasBad
<1>2. ASSUME FramesSound PROVE FramesHold
  <2> SUFFICES ASSUME NEW i \in 0 .. frontier - 1
               PROVE  /\ sys.init \in Frame(i + 1)
                      /\ Image(sys, Frame(i)) \subseteq Frame(i + 1)
                      /\ pc # "start" /\ found.result # "UNSAFE" => ~HasBad(sys, Frame(i))
    BY DEF FramesHold
  <2>1. \A s \in Frame(i) : \A in \in sys.inputs :
         /\ sys.step[<<s, in>>] \in Frame(i + 1)
         /\ pc # "start" /\ found.result # "UNSAFE" => ~sys.bad[<<s, in>>]
    BY <1>2 DEF FramesSound
  <2>2. Image(sys, Frame(i)) \subseteq Frame(i + 1)
    BY <2>1, ImageInside
  <2>3. pc # "start" /\ found.result # "UNSAFE" => ~HasBad(sys, Frame(i))
    BY <2>1 DEF HasBad
  <2> QED
    BY <1>2, <2>2, <2>3 DEF FramesSound
<1> QED
  BY <1>1, <1>2

(* Later frames hold more states.                                          *)
LEMMA FramesGrow ==
  ASSUME FramesType, FramesSound, NEW i \in 0 .. frontier, NEW j \in i .. frontier
  PROVE  Frame(i) \subseteq Frame(j)
<1>1. frontier \in Nat
  BY DEF FramesType, frontier
<1>2. CASE i = 0 /\ j = 0
  BY <1>2
<1>3. CASE i = 0 /\ j # 0
  <2>1. j - 1 \in 0 .. frontier - 1 /\ (j - 1) + 1 = j
    BY <1>1, <1>3
  <2>2. sys.init \in Frame(j)
    BY <2>1 DEF FramesSound
  <2> QED
    BY <1>3, <2>2 DEF Frame
<1>4. CASE i # 0
  BY <1>1, <1>4, FrameStates DEF FrameMembers
<1> QED
  BY <1>2, <1>3, <1>4

(* A clause that enters some frames, upto the last of them, narrows every  *)
(* frame so far and no other.                                              *)
Narrowed(clause, upto) ==
  /\ frontier' = frontier
  /\ Frame(0)' = Frame(0)
  /\ \A i \in 1 .. frontier : \A s :
       s \in Frame(i)' <=> s \in Frame(i) /\ (i <= upto => Holds(clause, s))

LEMMA FramesNarrowed ==
  ASSUME FramesType, sys' = sys, NEW clause, NEW upto \in 1 .. frontier,
         NEW entered \in SUBSET (1 .. upto), upto \in entered,
         frames' = [j \in DOMAIN frames |->
                      IF j \in entered THEN Entered(clause, frames[j]) ELSE frames[j]]
  PROVE  Narrowed(clause, upto)
<1>1. frontier \in Nat /\ DOMAIN frames = 1 .. frontier
  BY DEF FramesType, frontier
<1>2. frontier' = frontier
  <2>1. DOMAIN frames' = 1 .. frontier
    BY <1>1
  <2>2. frames' \in Seq({frames'[j] : j \in 1 .. frontier})
    BY <1>1, <2>1
  <2> QED
    BY <1>1, <2>1, <2>2 DEF frontier
<1>3. Frame(0)' = Frame(0)
  BY DEF Frame
<1>4. FrameMembers'
  BY FrameStates, PTL
<1>5. ASSUME NEW i \in 1 .. frontier, NEW s
      PROVE  s \in Frame(i)' <=> s \in Frame(i) /\ (i <= upto => Holds(clause, s))
  <2>1. \A j \in i .. frontier :
          Meets(s, frames'[j]) <=> Meets(s, frames[j]) /\ (j \in entered => Holds(clause, s))
    BY <1>1, EnteredMeets
  <2>2. s \in Frame(i)' <=>
          s \in sys.states /\ \A j \in i .. frontier : Meets(s, frames'[j])
    <3>1. i \in Int \ {0}
      BY <1>1
    <3>2. s \in Frame(i)' <=>
            s \in sys'.states /\ \A j \in i .. frontier' : Meets(s, frames'[j])
      BY <1>4, <3>1 DEF FrameMembers
    <3> QED
      BY <1>2, <3>2
  <2>3. s \in Frame(i) <=> s \in sys.states /\ \A j \in i .. frontier : Meets(s, frames[j])
    BY <1>1, FrameStates DEF FrameMembers
  <2>4. i <= upto => upto \in i .. frontier
    BY <1>1
  <2>5. \A j \in i .. frontier : j \in entered => i <= upto
    BY <1>1
  <2> QED
    BY <2>1, <2>2, <2>3, <2>4, <2>5
<1> QED
  BY <1>2, <1>3, <1>5 DEF Narrowed

(* Frames stay over-approximations when a clause enters that holds of the  *)
(* reset state and is inductive relative to the frame before.              *)
LEMMA NarrowedFramesHold ==
  ASSUME FramesType, FramesSound, sys' = sys, pc # "start", found' = found,
         NEW clause, NEW upto \in 1 .. frontier,
         Narrowed(clause, upto), Holds(clause, sys.init), Inductive(clause, upto - 1)
  PROVE  FramesSound'
<1>1. frontier \in Nat /\ frontier' = frontier
  BY DEF FramesType, Narrowed, frontier
<1>2. SUFFICES ASSUME NEW i \in 0 .. frontier - 1
               PROVE  /\ sys.init \in Frame(i + 1)'
                      /\ \A s \in Frame(i)' : \A in \in sys.inputs :
                           /\ sys.step[<<s, in>>] \in Frame(i + 1)'
                           /\ found.result # "UNSAFE" => ~sys.bad[<<s, in>>]
  BY <1>1 DEF FramesSound
<1>3. i + 1 \in 1 .. frontier
  BY <1>1
<1>4. sys.init \in Frame(i + 1)'
  BY <1>3 DEF FramesSound, Narrowed
<1>5. ASSUME NEW s \in Frame(i)', NEW in \in sys.inputs
      PROVE  /\ sys.step[<<s, in>>] \in Frame(i + 1)'
             /\ found.result # "UNSAFE" => ~sys.bad[<<s, in>>]
  <2>1. s \in Frame(i) /\ (0 < i /\ i <= upto => Holds(clause, s))
    BY <1>1 DEF Narrowed
  <2>2. /\ sys.step[<<s, in>>] \in Frame(i + 1)
        /\ found.result # "UNSAFE" => ~sys.bad[<<s, in>>]
    BY <2>1 DEF FramesSound
  <2>3. ASSUME i + 1 <= upto PROVE Holds(clause, sys.step[<<s, in>>])
    <3>1. s \in Frame(upto - 1)
      <4>1. upto - 1 \in i .. frontier /\ i \in 0 .. frontier
        BY <1>1, <2>3
      <4> QED
        BY <2>1, <4>1, FramesGrow
    <3>2. Holds(clause, s)
      <4>1. CASE i = 0
        BY <2>1, <4>1 DEF Frame
      <4>2. CASE i # 0
        BY <1>1, <2>1, <2>3, <4>2
      <4> QED
        BY <4>1, <4>2
    <3> QED
      BY <3>1, <3>2 DEF Inductive
  <2> QED
    BY <1>3, <2>2, <2>3 DEF Narrowed
<1> QED
  BY <1>4, <1>5

-----------------------------------------------------------------------------
(* Witnesses.                                                              *)

LEMMA FrameInStates ==
  ASSUME FramesType, NEW i \in 0 .. frontier
  PROVE  Frame(i) \subseteq sys.states
  BY DEF Frame, FramesType, IsSystem

(* A state lies in no other state.                                         *)
LEMMA FullCube ==
  ASSUME NEW bits \in SUBSET (Nat \ {0}), NEW s \in StatesOver(bits), NEW t \in StatesOver(bits),
         s \subseteq t
  PROVE  t = s
<1>1. ASSUME NEW l \in t PROVE l \in s
  <2>1. l \in LiteralsOf(bits) /\ (l \in s <=> -l \notin s) /\ (l \in t <=> -l \notin t)
    BY StateLiterals, OneLiteral
  <2> QED
    BY <2>1
<1> QED
  BY <1>1

LEMMA LiteralInState ==
  ASSUME NEW bits \in SUBSET (Nat \ {0}), NEW s \in StatesOver(bits),
         NEW l \in LiteralsOf(bits)
  PROVE  s # {}
  BY OneLiteral

(* What the cubes of _predecessor() and _bad_cube() are.                   *)
PredecessorOf(c, cube, s, in) ==
  /\ ~In(s, cube) /\ In(sys.step[<<s, in>>], cube)
  /\ c \subseteq s /\ c # {}
  /\ \A t \in sys.states : In(t, c) => In(sys.step[<<t, in>>], cube)

LEMMA PredecessorCubes ==
  ASSUME NEW cube, NEW i, NEW c
  PROVE  c \in Predecessors(cube, i) <=>
           \E s \in Frame(i), in \in sys.inputs : PredecessorOf(c, cube, s, in)
<1> DEFINE pairs == {y \in Frame(i) \X sys.inputs : ~In(y[1], cube) /\ In(sys.step[y], cube)}
           lifts(x) == Lifts(x[1], {t \in sys.states : In(sys.step[<<t, x[2]>>], cube)})
<1>1. c \in Predecessors(cube, i) <=> \E x \in pairs : c \in lifts(x)
  BY DEF Predecessors
<1>2. \A x : c \in lifts(x) <=>
         /\ c \subseteq x[1] /\ c # {}
         /\ \A t \in sys.states : In(t, c) => In(sys.step[<<t, x[2]>>], cube)
  BY DEF Lifts
<1>3. \A x : x \in pairs <=>
         /\ x \in Frame(i) \X sys.inputs
         /\ ~In(x[1], cube) /\ In(sys.step[x], cube)
  OBVIOUS
<1> HIDE DEF pairs, lifts
<1>4. ASSUME NEW x \in pairs, c \in lifts(x)
      PROVE  \E s \in Frame(i), in \in sys.inputs : PredecessorOf(c, cube, s, in)
  <2>1. x[1] \in Frame(i) /\ x[2] \in sys.inputs /\ x = <<x[1], x[2]>>
    BY <1>3
  <2>2. PredecessorOf(c, cube, x[1], x[2])
    BY <1>2, <1>3, <1>4, <2>1 DEF PredecessorOf
  <2> QED
    BY <2>1, <2>2
<1>5. ASSUME NEW s \in Frame(i), NEW in \in sys.inputs, PredecessorOf(c, cube, s, in)
      PROVE  <<s, in>> \in pairs /\ c \in lifts(<<s, in>>)
  BY <1>2, <1>3, <1>5 DEF PredecessorOf
<1> QED
  BY <1>1, <1>4, <1>5

BadCubeOf(c, s, in) ==
  /\ sys.bad[<<s, in>>]
  /\ c \subseteq s /\ c # {}
  /\ \A t \in sys.states : In(t, c) => sys.bad[<<t, in>>]

LEMMA BadCubeCubes ==
  ASSUME NEW i, NEW c
  PROVE  c \in BadCubes(i) <=>
           \E s \in Frame(i), in \in sys.inputs : BadCubeOf(c, s, in)
<1> DEFINE pairs == {y \in Frame(i) \X sys.inputs : sys.bad[y]}
           lifts(x) == Lifts(x[1], {t \in sys.states : sys.bad[<<t, x[2]>>]})
<1>1. c \in BadCubes(i) <=> \E x \in pairs : c \in lifts(x)
  BY DEF BadCubes
<1>2. \A x : c \in lifts(x) <=>
         /\ c \subseteq x[1] /\ c # {}
         /\ \A t \in sys.states : In(t, c) => sys.bad[<<t, x[2]>>]
  BY DEF Lifts
<1>3. \A x : x \in pairs <=> x \in Frame(i) \X sys.inputs /\ sys.bad[x]
  OBVIOUS
<1> HIDE DEF pairs, lifts
<1>4. ASSUME NEW x \in pairs, c \in lifts(x)
      PROVE  \E s \in Frame(i), in \in sys.inputs : BadCubeOf(c, s, in)
  <2>1. x[1] \in Frame(i) /\ x[2] \in sys.inputs /\ x = <<x[1], x[2]>>
    BY <1>3
  <2>2. BadCubeOf(c, x[1], x[2])
    BY <1>2, <1>3, <1>4, <2>1 DEF BadCubeOf
  <2> QED
    BY <2>1, <2>2
<1>5. ASSUME NEW s \in Frame(i), NEW in \in sys.inputs, BadCubeOf(c, s, in)
      PROVE  <<s, in>> \in pairs /\ c \in lifts(<<s, in>>)
  BY <1>2, <1>3, <1>5 DEF BadCubeOf
<1> QED
  BY <1>1, <1>4, <1>5

(* Without a predecessor, the negation of a cube is relatively inductive.  *)
LEMMA NoPredecessor ==
  ASSUME FramesType, NEW cube, IsCube(cube), NEW i \in 0 .. frontier,
         Predecessors(cube, i) = {}
  PROVE  Inductive(Negated(cube), i)
<1> SUFFICES ASSUME NEW s \in Frame(i), NEW in \in sys.inputs, Holds(Negated(cube), s),
                    ~Holds(Negated(cube), sys.step[<<s, in>>])
             PROVE  FALSE
  BY DEF Inductive
<1>1. s \in sys.states /\ sys.step[<<s, in>>] \in sys.states
  BY FrameInStates DEF FramesType, IsSystem
<1>2. ~In(s, cube) /\ In(sys.step[<<s, in>>], cube)
  BY <1>1, NegatedCube DEF FramesType, IsSystem, IsCube
<1>3. s # {}
  BY <1>1, LiteralInState DEF FramesType, IsSystem, IsCube
<1>4. \A t \in sys.states : In(t, s) => In(sys.step[<<t, in>>], cube)
  BY <1>1, <1>2, FullCube DEF FramesType, IsSystem, In
<1>5. s \in Predecessors(cube, i)
  BY <1>2, <1>3, <1>4, PredecessorCubes DEF PredecessorOf
<1> QED
  BY <1>5

(* Without a bad cube, a frame has no bad state.                           *)
LEMMA NoBadCube ==
  ASSUME FramesType, FramesSound, pc = "frontier", found = NotFound, BadCubes(frontier) = {},
         NEW s \in Frame(frontier), NEW in \in sys.inputs
  PROVE  ~sys.bad[<<s, in>>]
<1> SUFFICES ASSUME sys.bad[<<s, in>>] PROVE FALSE
  OBVIOUS
<1>1. frontier \in Nat \ {0}
  BY DEF FramesType, frontier
<1>2. s \in sys.states
  BY <1>1, FrameInStates
<1>3. CASE s # {}
  <2>1. \A t \in sys.states : In(t, s) => sys.bad[<<t, in>>]
    BY <1>2, FullCube DEF FramesType, IsSystem, In
  <2>2. s \in BadCubes(frontier)
    BY <1>3, <2>1, BadCubeCubes DEF BadCubeOf
  <2> QED
    BY <2>2
<1>4. CASE s = {}
  <2>1. sys.init = s
    BY <1>2, <1>4, FullCube DEF FramesType, IsSystem
  <2>2. 0 \in 0 .. frontier - 1 /\ s \in Frame(0)
    BY <1>1, <2>1 DEF Frame
  <2> QED
    BY <2>2 DEF FramesSound, NotFound
<1> QED
  BY <1>3, <1>4

-----------------------------------------------------------------------------
(* The invariant.                                                          *)

(* No state of a frame is in a cube.                                       *)
Apart(cube, i) == \A s \in Frame(i) : ~In(s, cube)

Due(ob) ==
  /\ ob[1] \in 0 .. frontier
  /\ IsCube(ob[2])
  /\ ob[1] > 0 => Apart(ob[2], ob[1] - 1)

Obligations == \A ob \in BagToSet(queue) : Due(ob)

Generalized ==
  /\ blocking \in [level : Nat, cube : SUBSET Int, kept : SUBSET Int, untried : SUBSET Int]
  /\ pc = "generalize" =>
       /\ blocking.level \in 1 .. frontier
       /\ IsCube(blocking.cube) /\ IsCube(blocking.kept)
       /\ blocking.kept \subseteq blocking.cube
       /\ ~MeetsInit(blocking.kept)
       /\ Inductive(Negated(blocking.kept), blocking.level - 1)

Control ==
  /\ pc = "start" => frames = <<{}>>
  /\ pc # "done" => found = NotFound
  /\ pc = "push" => at \in 1 .. frontier - 1 /\ todo \subseteq frames[at]

Ic3Inv == FramesType /\ FramesSound /\ Obligations /\ Generalized /\ Control

(* An obligation apart from an earlier frame does not contain the reset    *)
(* state, which all frames hold.                                           *)
LEMMA InitInFrames ==
  ASSUME FramesType, FramesSound, NEW i \in 0 .. frontier
  PROVE  sys.init \in Frame(i)
<1>1. frontier \in Nat /\ 0 \in 0 .. frontier /\ i \in 0 .. frontier
  BY DEF FramesType, frontier
<1> QED
  BY <1>1, FramesGrow DEF Frame

LEMMA ApartMissesInit ==
  ASSUME FramesType, FramesSound, Obligations
  PROVE  ObligationsMissInit
<1> SUFFICES ASSUME NEW ob \in BagToSet(queue), ob[1] > 0 PROVE ~MeetsInit(ob[2])
  BY DEF ObligationsMissInit
<1>1. ob[1] - 1 \in 0 .. frontier /\ Apart(ob[2], ob[1] - 1)
  BY DEF Obligations, Due, FramesType, frontier
<1> QED
  BY <1>1, InitInFrames DEF Apart, MeetsInit

-----------------------------------------------------------------------------
(* Bags of obligations.                                                    *)

LEMMA BagOfOne ==
  ASSUME NEW x
  PROVE  BagToSet(SetToBag({x})) = {x}
  BY DEF BagToSet, SetToBag

LEMMA BagOfNone == BagToSet(EmptyBag) = {}
  BY DEF BagToSet, SetToBag, EmptyBag

LEMMA BagMore ==
  ASSUME NEW bag, NEW x
  PROVE  BagToSet(bag (+) SetToBag({x})) = BagToSet(bag) \cup {x}
  BY DEF BagToSet, SetToBag, (+)

LEMMA BagLess ==
  ASSUME NEW bag, NEW x
  PROVE  BagToSet(bag (-) SetToBag({x})) \subseteq BagToSet(bag)
  BY DEF BagToSet, SetToBag, (-)

-----------------------------------------------------------------------------
(* Steps that leave the frames as they are.                                *)

LEMMA SameFrames ==
  ASSUME sys' = sys, frames' = frames
  PROVE  /\ frontier' = frontier
         /\ \A i : Frame(i)' = Frame(i)
         /\ \A clause, i : Inductive(clause, i)' <=> Inductive(clause, i)
         /\ \A ob : Due(ob)' <=> Due(ob)
<1>1. frontier' = frontier
  BY DEF frontier
<1>2. \A i : Frame(i)' = Frame(i)
  BY <1>1 DEF Frame
<1>3. \A clause, i : Inductive(clause, i)' <=> Inductive(clause, i)
  BY <1>2 DEF Inductive
<1>4. \A ob : Due(ob)' <=> Due(ob)
  BY <1>1, <1>2 DEF Due, IsCube, Apart
<1> QED
  BY <1>1, <1>2, <1>3, <1>4

LEMMA QuietStep ==
  ASSUME Ic3Inv, sys' = sys, frames' = frames,
         pc' # "start" /\ found'.result # "UNSAFE" => pc # "start" /\ found.result # "UNSAFE",
         \A ob \in BagToSet(queue') : ob \in BagToSet(queue) \/ Due(ob)
  PROVE  FramesType' /\ FramesSound' /\ Obligations'
<1>1. FramesType'
  BY DEF Ic3Inv, FramesType
<1>2. FramesSound'
  BY SameFrames DEF Ic3Inv, FramesSound
<1>3. Obligations'
  BY SameFrames DEF Ic3Inv, Obligations
<1> QED
  BY <1>1, <1>2, <1>3
LEMMA CheckInitKeeps ==
  ASSUME Ic3Inv, CheckInit
  PROVE  Ic3Inv'
<1>1. frames = <<{}>> /\ frontier = 1
  BY DEF Ic3Inv, Control, CheckInit, frontier
<1>2. FramesType' /\ Obligations' /\ frontier' = frontier
  BY SameFrames DEF CheckInit, Ic3Inv, FramesType, Obligations
<1>3. FramesSound'
  <2>1. CASE BadAtReset
    BY <2>1, SameFrames DEF CheckInit, Return, Ic3Inv, FramesSound
  <2>2. CASE ~BadAtReset
    <3>1. \A s \in Frame(0) : \A in \in sys.inputs : ~sys.bad[<<s, in>>]
      BY <2>2 DEF BadAtReset, HasBad, Frame
    <3>2. SUFFICES ASSUME NEW i \in 0 .. frontier - 1
                   PROVE  /\ sys.init \in Frame(i + 1)
                          /\ \A s \in Frame(i) : \A in \in sys.inputs :
                               /\ sys.step[<<s, in>>] \in Frame(i + 1)
                               /\ ~sys.bad[<<s, in>>]
      BY SameFrames DEF CheckInit, FramesSound
    <3>3. i = 0
      BY <1>1
    <3> QED
      BY <3>1, <3>3 DEF Ic3Inv, FramesSound
  <2> QED
    BY <2>1, <2>2
<1>4. Generalized' /\ Control'
  BY <1>2 DEF CheckInit, Return, Ic3Inv, Generalized, Control
<1> QED
  BY <1>2, <1>3, <1>4 DEF Ic3Inv

LEMMA OutOfFramesKeeps ==
  ASSUME Ic3Inv, OutOfFrames
  PROVE  Ic3Inv'
<1>1. FramesType' /\ FramesSound' /\ Obligations'
  BY QuietStep DEF OutOfFrames, Return, Ic3Inv, Control, NotFound
<1>2. Generalized' /\ Control'
  BY DEF OutOfFrames, Return, Ic3Inv, Generalized, Control
<1> QED
  BY <1>1, <1>2 DEF Ic3Inv

(* A bad cube is apart from the frame before the last, which is clean.     *)
LEMMA BadFoundKeeps ==
  ASSUME Ic3Inv, BadFound
  PROVE  Ic3Inv'
<1>1. PICK cube \in BadCubes(frontier) : queue' = SetToBag({<<frontier, cube>>})
  BY DEF BadFound
<1>2. PICK s \in Frame(frontier), in \in sys.inputs : BadCubeOf(cube, s, in)
  BY <1>1, BadCubeCubes
<1>3. frontier \in Nat \ {0}
  BY DEF Ic3Inv, FramesType, frontier
<1>4. IsCube(cube)
  BY <1>2, <1>3, FrameInStates, StateLiterals DEF IsCube, BadCubeOf, Ic3Inv, FramesType, IsSystem
<1>5. Apart(cube, frontier - 1)
  <2>1. \A t \in Frame(frontier - 1) : t \in sys.states /\ ~sys.bad[<<t, in>>]
    BY <1>3, FrameInStates DEF Ic3Inv, FramesSound, Control, NotFound, BadFound
  <2> QED
    BY <1>2, <2>1 DEF Apart, BadCubeOf
<1>6. Due(<<frontier, cube>>)
  BY <1>3, <1>4, <1>5 DEF Due
<1>7. FramesType' /\ FramesSound' /\ Obligations'
  BY <1>1, <1>6, BagOfOne, QuietStep DEF BadFound
<1>8. Generalized' /\ Control'
  BY DEF BadFound, Ic3Inv, Generalized, Control
<1> QED
  BY <1>7, <1>8 DEF Ic3Inv

LEMMA AllBlockedKeeps ==
  ASSUME Ic3Inv, AllBlocked
  PROVE  Ic3Inv'
<1>1. FramesType' /\ FramesSound' /\ Obligations'
  BY QuietStep DEF AllBlocked
<1>2. Generalized' /\ Control'
  BY DEF AllBlocked, Ic3Inv, Generalized, Control
<1> QED
  BY <1>1, <1>2 DEF Ic3Inv

LEMMA FramePushedKeeps ==
  ASSUME Ic3Inv, FramePushed
  PROVE  Ic3Inv'
<1>1. FramesType' /\ FramesSound' /\ Obligations'
  BY QuietStep DEF FramePushed, Return, Ic3Inv, Control, NotFound
<1>2. Generalized'
  BY DEF FramePushed, Return, Ic3Inv, Generalized
<1>3. Control'
  <2>1. frontier' = frontier /\ frontier \in Nat
    BY SameFrames DEF FramePushed, Ic3Inv, FramesType, frontier
  <2> QED
    BY <2>1 DEF FramePushed, Return, Ic3Inv, Control
<1> QED
  BY <1>1, <1>2, <1>3 DEF Ic3Inv
(* A predecessor of an obligation is apart from the frame two before: its  *)
(* states all step into the obligation, that frame steps into the next,    *)
(* and the obligation is apart from that.  Without a predecessor, the      *)
(* cube itself can be blocked.                                             *)
LEMMA TakeObligationKeeps ==
  ASSUME Ic3Inv, TakeObligation
  PROVE  Ic3Inv'
<1>1. PICK ob \in Lowest :
        \/ /\ ob[1] = 0
           /\ IF MeetsInit(ob[2])
              THEN queue' = EmptyBag /\ Return("UNSAFE", frontier, {})
              ELSE queue' = queue (-) SetToBag({ob}) /\ UNCHANGED <<pc, found>>
           /\ UNCHANGED blocking
        \/ /\ ob[1] > 0
           /\ \E pred \in Predecessors(ob[2], ob[1] - 1) :
                queue' = queue (+) SetToBag({<<ob[1] - 1, pred>>})
           /\ UNCHANGED <<pc, blocking, found>>
        \/ /\ ob[1] > 0 /\ Predecessors(ob[2], ob[1] - 1) = {}
           /\ queue' = queue (-) SetToBag({ob})
           /\ blocking' = [level |-> ob[1], cube |-> ob[2], kept |-> ob[2], untried |-> ob[2]]
           /\ pc' = "generalize"
           /\ UNCHANGED found
  BY DEF TakeObligation
<1>2. Due(ob)
  BY DEF Lowest, Ic3Inv, Obligations
<1>3. UNCHANGED <<limit, sys, frames, at, todo>> /\ pc = "block"
  BY DEF TakeObligation
<1>4. CASE ob[1] = 0
  <2>1. BagToSet(queue') \subseteq BagToSet(queue)
    <3>1. ~(ob[1] > 0)
      BY <1>4
    <3>2. queue' = EmptyBag \/ queue' = queue (-) SetToBag({ob})
      BY <1>1, <3>1, Zenon
    <3>3. BagToSet(queue (-) SetToBag({ob})) \subseteq BagToSet(queue)
      BY BagLess
    <3> QED
      BY <3>2, <3>3, BagOfNone
  <2>2. /\ \/ pc' = "block" /\ found' = found
           \/ pc' = "done" /\ found'.result = "UNSAFE"
        /\ blocking' = blocking
    BY <1>1, <1>3, <1>4 DEF Return
  <2>3. FramesType' /\ FramesSound' /\ Obligations'
    BY <1>3, <2>1, <2>2, QuietStep
  <2>4. Generalized' /\ Control'
    BY <1>3, <2>2 DEF Ic3Inv, Generalized, Control
  <2> QED
    BY <2>3, <2>4 DEF Ic3Inv
<1>5. CASE ob[1] > 0 /\ Predecessors(ob[2], ob[1] - 1) # {}
  <2>1. PICK pred \in Predecessors(ob[2], ob[1] - 1) :
               queue' = queue (+) SetToBag({<<ob[1] - 1, pred>>})
    BY <1>1, <1>5
  <2>2. UNCHANGED <<pc, blocking, found>>
    BY <1>1, <1>5
  <2>3. PICK s \in Frame(ob[1] - 1), in \in sys.inputs : PredecessorOf(pred, ob[2], s, in)
    BY <2>1, PredecessorCubes
  <2>4. frontier \in Nat /\ ob[1] \in 1 .. frontier /\ ob[1] - 1 \in 0 .. frontier
    BY <1>2, <1>5 DEF Due, Ic3Inv, FramesType, frontier
  <2>5. IsCube(pred)
    BY <2>3, <2>4, FrameInStates, StateLiterals
    DEF IsCube, PredecessorOf, Ic3Inv, FramesType, IsSystem
  <2>6. ASSUME ob[1] - 1 > 0 PROVE Apart(pred, ob[1] - 2)
    <3>1. ob[1] - 2 \in 0 .. frontier - 1 /\ (ob[1] - 2) + 1 = ob[1] - 1
      BY <2>4, <2>6
    <3>2. ASSUME NEW t \in Frame(ob[1] - 2), In(t, pred) PROVE FALSE
      <4>1. t \in sys.states
        BY <2>4, <3>1, FrameInStates DEF Ic3Inv
      <4>2. In(sys.step[<<t, in>>], ob[2])
        BY <2>3, <3>2, <4>1 DEF PredecessorOf
      <4>3. sys.step[<<t, in>>] \in Frame(ob[1] - 1)
        BY <3>1 DEF Ic3Inv, FramesSound
      <4> QED
        BY <1>2, <1>5, <4>2, <4>3 DEF Due, Apart
    <3> QED
      BY <3>2 DEF Apart
  <2>7. Due(<<ob[1] - 1, pred>>)
    BY <2>4, <2>5, <2>6 DEF Due
  <2>8. \A other \in BagToSet(queue') : other \in BagToSet(queue) \/ Due(other)
    <3>1. BagToSet(queue (+) SetToBag({<<ob[1] - 1, pred>>}))
            = BagToSet(queue) \cup {<<ob[1] - 1, pred>>}
      BY BagMore
    <3> QED
      BY <2>1, <2>7, <3>1
  <2>9. FramesType' /\ FramesSound' /\ Obligations'
    BY <1>3, <2>2, <2>8, QuietStep
  <2>10. Generalized' /\ Control'
    BY <1>3, <2>2 DEF Ic3Inv, Generalized, Control
  <2> QED
    BY <2>9, <2>10 DEF Ic3Inv
<1>6. CASE /\ ob[1] > 0 /\ Predecessors(ob[2], ob[1] - 1) = {}
           /\ queue' = queue (-) SetToBag({ob})
           /\ blocking' = [level |-> ob[1], cube |-> ob[2], kept |-> ob[2], untried |-> ob[2]]
           /\ pc' = "generalize"
           /\ UNCHANGED found
  <2>1. frontier \in Nat /\ ob[1] \in 1 .. frontier /\ ob[1] - 1 \in 0 .. frontier
    BY <1>2, <1>6 DEF Due, Ic3Inv, FramesType, frontier
  <2>2. IsCube(ob[2])
    BY <1>2 DEF Due
  <2>3. Inductive(Negated(ob[2]), ob[1] - 1)
    BY <1>6, <2>1, <2>2, NoPredecessor DEF Ic3Inv
  <2>4. ~MeetsInit(ob[2])
    BY <1>2, <1>6, <2>1, InitInFrames DEF Ic3Inv, Due, Apart, MeetsInit
  <2>5. FramesType' /\ FramesSound' /\ Obligations'
    BY <1>3, <1>6, BagLess, QuietStep
  <2>6. ob[2] \subseteq Int
    BY <2>2 DEF IsCube, LiteralsOf, Ic3Inv, FramesType, IsSystem
  <2>7. /\ frontier' = frontier
        /\ Inductive(Negated(ob[2]), ob[1] - 1)'
        /\ IsCube(ob[2])' /\ ~MeetsInit(ob[2])'
    BY <1>3, <2>2, <2>3, <2>4, SameFrames DEF IsCube, MeetsInit
  <2>8. blocking' \in [level : Nat, cube : SUBSET Int, kept : SUBSET Int, untried : SUBSET Int]
    BY <1>6, <2>1, <2>6
  <2>9. /\ blocking'.level = ob[1] /\ blocking'.cube = ob[2] /\ blocking'.kept = ob[2]
    BY <1>6
  <2>10. Generalized'
    BY <2>1, <2>7, <2>8, <2>9 DEF Generalized
  <2>11. Control'
    BY <1>3, <1>6 DEF Ic3Inv, Control
  <2> QED
    BY <2>5, <2>10, <2>11 DEF Ic3Inv
<1> QED
  <2>1. CASE ob[1] = 0
    BY <1>4, <2>1
  <2>2. CASE ob[1] > 0 /\ Predecessors(ob[2], ob[1] - 1) # {}
    BY <1>5, <2>2
  <2>3. CASE ob[1] > 0 /\ Predecessors(ob[2], ob[1] - 1) = {}
    <3>1. ob[1] # 0 /\ ~ \E pred \in Predecessors(ob[2], ob[1] - 1) : TRUE
      BY <2>3
    <3>2. /\ queue' = queue (-) SetToBag({ob})
          /\ blocking' = [level |-> ob[1], cube |-> ob[2], kept |-> ob[2], untried |-> ob[2]]
          /\ pc' = "generalize"
          /\ UNCHANGED found
      BY <1>1, <3>1, Zenon
    <3> QED
      BY <1>6, <2>3, <3>2
  <2> QED
    BY <1>1, <2>1, <2>2, <2>3

(* Generalization keeps what it has to: a literal goes only if the rest    *)
(* misses the reset state and its negation is still relatively inductive.  *)
LEMMA TryLiteralKeeps ==
  ASSUME Ic3Inv, TryLiteral
  PROVE  Ic3Inv'
<1>1. PICK l \in blocking.untried :
        blocking' = [blocking EXCEPT
          !.untried = @ \ {l},
          !.kept = IF MayDrop(l, @, blocking.level) THEN @ \ {l} ELSE @]
  BY DEF TryLiteral
<1>2. UNCHANGED <<limit, sys, pc, frames, queue, at, todo, found>> /\ pc = "generalize"
  BY DEF TryLiteral
<1>3. FramesType' /\ FramesSound' /\ Obligations'
  BY <1>2, QuietStep
<1>4. Control'
  BY <1>2 DEF Ic3Inv, Control, frontier
<1>5. /\ blocking \in [level : Nat, cube : SUBSET Int, kept : SUBSET Int, untried : SUBSET Int]
      /\ blocking.level \in 1 .. frontier
      /\ IsCube(blocking.cube) /\ IsCube(blocking.kept)
      /\ blocking.kept \subseteq blocking.cube
      /\ ~MeetsInit(blocking.kept)
      /\ Inductive(Negated(blocking.kept), blocking.level - 1)
  BY <1>2 DEF Ic3Inv, Generalized
<1>6. PICK kept, i : /\ kept = IF MayDrop(l, blocking.kept, blocking.level)
                                THEN blocking.kept \ {l} ELSE blocking.kept
                     /\ i = blocking.level
  OBVIOUS
<1>7. /\ blocking' \in [level : Nat, cube : SUBSET Int, kept : SUBSET Int, untried : SUBSET Int]
      /\ blocking'.level = i /\ blocking'.cube = blocking.cube /\ blocking'.kept = kept
  BY <1>1, <1>5, <1>6
<1>8. /\ IsCube(kept) /\ kept \subseteq blocking.cube
      /\ ~MeetsInit(kept) /\ Inductive(Negated(kept), i - 1)
  BY <1>5, <1>6 DEF MayDrop, IsCube
<1>9. /\ frontier' = frontier /\ Inductive(Negated(kept), i - 1)'
      /\ IsCube(kept)' /\ IsCube(blocking.cube) /\ ~MeetsInit(kept)'
  BY <1>2, <1>5, <1>8, SameFrames DEF IsCube, MeetsInit
<1>10. Generalized'
  BY <1>2, <1>5, <1>6, <1>7, <1>8, <1>9 DEF Generalized, IsCube
<1> QED
  BY <1>3, <1>4, <1>10 DEF Ic3Inv
-----------------------------------------------------------------------------
(* Steps that change the frames.                                           *)

(* A new frame says nothing yet.                                           *)
LEMMA FrameAppended ==
  ASSUME FramesType, sys' = sys, frames' = Append(frames, {})
  PROVE  /\ FramesType' /\ frontier' = frontier + 1
         /\ \A i \in 0 .. frontier : Frame(i)' = Frame(i)
         /\ \A i : i = frontier + 1 => Frame(i)' = sys.states
<1>1. frontier \in Nat \ {0} /\ frontier' = frontier + 1
  BY DEF FramesType, frontier
<1>2. FramesType'
  BY <1>1 DEF FramesType, frontier
<1>3. \A j \in 1 .. frontier : frames'[j] = frames[j]
  BY DEF FramesType, frontier
<1>4. frames'[frontier + 1] = {}
  BY DEF FramesType, frontier
<1>5. FrameMembers'
  BY FrameStates, PTL
<1>6. \A i \in Int \ {0} : \A s :
        s \in Frame(i)' <=> s \in sys.states /\ \A j \in i .. frontier + 1 : Meets(s, frames'[j])
  BY <1>1, <1>5 DEF FrameMembers
<1>7. \A s : Meets(s, frames'[frontier + 1])
  BY <1>4 DEF Meets
<1>8. ASSUME NEW i \in 0 .. frontier PROVE Frame(i)' = Frame(i)
  <2>1. CASE i = 0
    BY <2>1 DEF Frame
  <2>2. CASE i # 0
    <3>1. \A s : s \in Frame(i)' <=> s \in Frame(i)
      <4>1. i .. frontier + 1 = (i .. frontier) \cup {frontier + 1} /\ i \in Int \ {0}
        BY <1>1, <2>2
      <4>2. \A j \in i .. frontier : frames'[j] = frames[j]
        <5>1. \A j \in i .. frontier : j \in 1 .. frontier
          BY <1>1, <2>2
        <5> QED
          BY <1>3, <5>1
      <4> QED
        BY <1>6, <1>7, <4>1, <4>2, FrameStates DEF FrameMembers
    <3>2. Frame(i)' \subseteq sys.states
      BY <1>6, <2>2
    <3> QED
      BY <3>1
  <2> QED
    BY <2>1, <2>2
<1>9. ASSUME NEW i, i = frontier + 1 PROVE Frame(i)' = sys.states
  <2>1. i \in Int \ {0} /\ i .. frontier + 1 = {frontier + 1}
    BY <1>1, <1>9
  <2>2. \A s : s \in Frame(i)' <=> s \in sys.states
    BY <1>6, <1>7, <2>1
  <2> QED
    BY <2>2
<1> QED
  BY <1>1, <1>2, <1>8, <1>9

LEMMA FrontierCleanKeeps ==
  ASSUME Ic3Inv, FrontierClean
  PROVE  Ic3Inv'
<1>1. UNCHANGED <<limit, sys, queue, blocking>> /\ pc = "frontier" /\ BadCubes(frontier) = {}
  BY DEF FrontierClean
<1>2. frontier \in Nat \ {0}
  BY DEF Ic3Inv, FramesType, frontier
<1>3. CASE Return("SAFE", frontier, {}) /\ UNCHANGED <<frames, at, todo>>
  <2>1. FramesType' /\ FramesSound' /\ Obligations'
    BY <1>1, <1>3, QuietStep DEF Return, Ic3Inv, Control, NotFound
  <2>2. Generalized' /\ Control'
    BY <1>1, <1>3 DEF Return, Ic3Inv, Generalized, Control
  <2> QED
    BY <2>1, <2>2 DEF Ic3Inv
<1>4. CASE /\ frames' = Append(frames, {})
           /\ at' = 1 /\ todo' = frames[1]
           /\ pc' = "push"
           /\ UNCHANGED found
  <2>1. /\ FramesType' /\ frontier' = frontier + 1
        /\ \A i \in 0 .. frontier : Frame(i)' = Frame(i)
        /\ \A i : i = frontier + 1 => Frame(i)' = sys.states
    BY <1>1, <1>4, FrameAppended DEF Ic3Inv
  <2>2. FramesSound'
    <3>1. SUFFICES ASSUME NEW i \in 0 .. frontier
                   PROVE  /\ sys.init \in Frame(i + 1)'
                          /\ \A s \in Frame(i) : \A in \in sys.inputs :
                               /\ sys.step[<<s, in>>] \in Frame(i + 1)'
                               /\ ~sys.bad[<<s, in>>]
      BY <1>1, <1>2, <2>1 DEF FramesSound
    <3>2. CASE i = frontier
      <4>1. sys.init \in sys.states /\ \A s \in Frame(i) : \A in \in sys.inputs :
              sys.step[<<s, in>>] \in sys.states
        BY FrameInStates DEF Ic3Inv, FramesType, IsSystem
      <4>2. \A s \in Frame(i) : \A in \in sys.inputs : ~sys.bad[<<s, in>>]
        BY <1>1, <3>2, NoBadCube DEF Ic3Inv, Control
      <4>3. Frame(i + 1)' = sys.states
        BY <2>1, <3>2
      <4> QED
        BY <4>1, <4>2, <4>3
    <3>3. CASE i # frontier
      <4>1. i \in 0 .. frontier - 1 /\ i + 1 \in 0 .. frontier
        BY <1>2, <3>3
      <4> QED
        BY <1>1, <2>1, <4>1 DEF Ic3Inv, FramesSound, Control, NotFound
    <3> QED
      BY <3>2, <3>3
  <2>3. Obligations'
    <3>1. SUFFICES ASSUME NEW ob \in BagToSet(queue) PROVE Due(ob)'
      BY <1>1 DEF Obligations
    <3>2. Due(ob)
      BY DEF Ic3Inv, Obligations
    <3>3. ob[1] > 0 => ob[1] - 1 \in 0 .. frontier
      BY <1>2, <3>2 DEF Due
    <3> QED
      BY <1>1, <1>2, <2>1, <3>2, <3>3 DEF Due, IsCube, Apart
  <2>4. Generalized'
    BY <1>1, <1>4 DEF Ic3Inv, Generalized
  <2>5. Control'
    <3>1. frames'[1] = frames[1]
      BY <1>4 DEF Ic3Inv, FramesType
    <3> QED
      BY <1>1, <1>2, <1>4, <2>1, <3>1 DEF Ic3Inv, Control
  <2> QED
    BY <2>1, <2>2, <2>3, <2>4, <2>5 DEF Ic3Inv
<1> QED
  BY <1>3, <1>4 DEF FrontierClean

(* Narrower frames are apart from the cubes the wider were apart from.     *)
LEMMA NarrowedDue ==
  ASSUME FramesType, sys' = sys, NEW clause, NEW upto \in 1 .. frontier, Narrowed(clause, upto),
         NEW ob, Due(ob)
  PROVE  Due(ob)'
<1>1. frontier' = frontier /\ frontier \in Nat
  BY DEF Narrowed, FramesType, frontier
<1>2. \A i \in 0 .. frontier : \A s \in Frame(i)' : s \in Frame(i)
  BY <1>1 DEF Narrowed
<1>3. ob[1] > 0 => ob[1] - 1 \in 0 .. frontier
  BY <1>1 DEF Due
<1> QED
  BY <1>1, <1>2, <1>3 DEF Due, IsCube, Apart

(* A clause that enters leaves the frames a sequence of sets of clauses.   *)
LEMMA NarrowedType ==
  ASSUME FramesType, sys' = sys, NEW clause \in SUBSET Int, NEW entered,
         frames' = [j \in DOMAIN frames |->
                      IF j \in entered THEN Entered(clause, frames[j]) ELSE frames[j]]
  PROVE  FramesType'
<1>1. frontier \in Nat /\ DOMAIN frames = 1 .. frontier
      /\ \A j \in 1 .. frontier : frames[j] \in SUBSET SUBSET Int
  BY DEF FramesType, frontier
<1>2. \A j \in 1 .. frontier : frames'[j] \in SUBSET SUBSET Int
  BY <1>1 DEF Entered
<1>3. frames' \in Seq(SUBSET SUBSET Int)
  BY <1>1, <1>2
<1>4. Len(frames') = frontier
  BY <1>1, <1>3
<1> QED
  BY <1>3, <1>4 DEF FramesType, frontier
LEMMA BlockCubeKeeps ==
  ASSUME Ic3Inv, BlockCube
  PROVE  Ic3Inv'
<1>1. PICK clause, cube, upto :
        clause = Negated(blocking.kept) /\ cube = blocking.cube /\ upto = blocking.level
  OBVIOUS
<1>2. /\ sys' = sys /\ found' = found /\ pc = "generalize" /\ pc' = "block"
      /\ blocking' = Nothing
      /\ frames' = Blocked(clause, upto)
      /\ queue' = IF upto < frontier THEN queue (+) SetToBag({<<upto + 1, cube>>}) ELSE queue
  BY <1>1 DEF BlockCube
<1>3. /\ frontier \in Nat /\ DOMAIN frames = 1 .. frontier /\ upto \in 1 .. frontier
      /\ IsCube(cube) /\ IsCube(blocking.kept) /\ blocking.kept \subseteq cube
      /\ ~MeetsInit(blocking.kept) /\ Inductive(clause, upto - 1)
  BY <1>1, <1>2 DEF Ic3Inv, FramesType, Generalized, frontier
<1>4. frames' = [j \in DOMAIN frames |->
                   IF j \in 1 .. upto THEN Entered(clause, frames[j]) ELSE frames[j]]
  BY <1>2, <1>3 DEF Blocked
<1>5. clause \in SUBSET Int
  BY <1>1, <1>3 DEF Negated, IsCube, LiteralsOf, Ic3Inv, FramesType, IsSystem
<1>6. Narrowed(clause, upto)
  <2>1. 1 .. upto \in SUBSET (1 .. upto) /\ upto \in 1 .. upto
    BY <1>3
  <2> QED
    BY <1>2, <1>3, <1>4, <2>1, FramesNarrowed DEF Ic3Inv
<1>7. FramesType'
  BY <1>2, <1>4, <1>5, NarrowedType DEF Ic3Inv
<1>8. Holds(clause, sys.init)
  BY <1>1, <1>3, NegatedCube DEF IsCube, MeetsInit, Ic3Inv, FramesType, IsSystem
<1>9. FramesSound'
  BY <1>2, <1>3, <1>6, <1>8, NarrowedFramesHold DEF Ic3Inv
<1>10. ASSUME upto < frontier PROVE Due(<<upto + 1, cube>>)'
  <2>1. ASSUME NEW s \in Frame(upto)' PROVE ~In(s, cube)
    <3>1. s \in Frame(upto) /\ Holds(clause, s)
      BY <1>3, <1>6 DEF Narrowed
    <3>2. s \in sys.states
      BY <1>3, <3>1, FrameInStates DEF Ic3Inv
    <3>3. ~In(s, blocking.kept)
      BY <1>1, <1>3, <3>1, <3>2, NegatedCube DEF IsCube, Ic3Inv, FramesType, IsSystem
    <3> QED
      BY <1>3, <3>3 DEF In
  <2>2. upto + 1 \in 0 .. frontier' /\ (upto + 1) - 1 = upto
    BY <1>3, <1>6, <1>10 DEF Narrowed
  <2> QED
    BY <1>2, <1>3, <2>1, <2>2 DEF Due, IsCube, Apart
<1>11. Obligations'
  <2>1. \A ob \in BagToSet(queue) : Due(ob)'
    BY <1>2, <1>3, <1>6, NarrowedDue DEF Ic3Inv, Obligations
  <2>2. CASE upto < frontier
    <3>1. BagToSet(queue (+) SetToBag({<<upto + 1, cube>>}))
            = BagToSet(queue) \cup {<<upto + 1, cube>>}
      BY BagMore
    <3> QED
      BY <1>2, <1>10, <2>1, <2>2, <3>1 DEF Obligations
  <2>3. CASE ~(upto < frontier)
    BY <1>2, <2>1, <2>3 DEF Obligations
  <2> QED
    BY <2>2, <2>3
<1>12. Generalized' /\ Control'
  BY <1>2 DEF Generalized, Control, Nothing, Ic3Inv
<1> QED
  BY <1>7, <1>9, <1>11, <1>12 DEF Ic3Inv

LEMMA PushClauseKeeps ==
  ASSUME Ic3Inv, PushClause
  PROVE  Ic3Inv'
<1>1. PICK clause \in todo :
        /\ todo' = todo \ {clause}
        /\ \/ MayPush(clause) /\ frames' = [frames EXCEPT ![at + 1] = Entered(clause, @)]
           \/ ~MayPush(clause) /\ UNCHANGED frames
  BY DEF PushClause
<1>2. UNCHANGED <<limit, sys, pc, queue, blocking, at, found>> /\ pc = "push"
  BY DEF PushClause
<1>3. /\ frontier \in Nat /\ DOMAIN frames = 1 .. frontier /\ at \in 1 .. frontier - 1
      /\ clause \in frames[at]
  BY <1>1, <1>2 DEF Ic3Inv, FramesType, Control, frontier
<1>4. CASE UNCHANGED frames
  <2>1. FramesType' /\ FramesSound' /\ Obligations'
    BY <1>2, <1>4, QuietStep
  <2>2. Generalized'
    BY <1>2 DEF Ic3Inv, Generalized
  <2>3. Control'
    BY <1>1, <1>2, <1>4 DEF Ic3Inv, Control, frontier
  <2> QED
    BY <2>1, <2>2, <2>3 DEF Ic3Inv
<1>5. CASE MayPush(clause) /\ frames' = [frames EXCEPT ![at + 1] = Entered(clause, @)]
  <2>1. PICK upto : upto = at + 1
    OBVIOUS
  <2>2. upto \in 1 .. frontier /\ upto - 1 = at /\ at \in 0 .. frontier
    BY <1>3, <2>1
  <2>3. frames' = [j \in DOMAIN frames |->
                     IF j \in {upto} THEN Entered(clause, frames[j]) ELSE frames[j]]
    BY <1>3, <1>5, <2>1, <2>2
  <2>4. Narrowed(clause, upto)
    <3>1. {upto} \in SUBSET (1 .. upto) /\ upto \in {upto}
      BY <2>2
    <3> QED
      BY <1>2, <2>2, <2>3, <3>1, FramesNarrowed DEF Ic3Inv
  <2>5. clause \in SUBSET Int
    BY <1>3 DEF Ic3Inv, FramesType
  <2>6. FramesType'
    BY <1>2, <2>3, <2>5, NarrowedType DEF Ic3Inv
  <2>7. Holds(clause, sys.init)
    <3>1. sys.init \in Frame(at)
      BY <2>2, InitInFrames DEF Ic3Inv
    <3>2. at \in Int \ {0} /\ at \in at .. frontier
      BY <1>3
    <3>3. Meets(sys.init, frames[at])
      BY <3>1, <3>2, FrameStates DEF FrameMembers
    <3> QED
      BY <1>3, <3>3 DEF Meets
  <2>8. Inductive(clause, upto - 1)
    BY <1>5, <2>2 DEF MayPush
  <2>9. FramesSound'
    BY <1>2, <2>2, <2>4, <2>7, <2>8, NarrowedFramesHold DEF Ic3Inv
  <2>10. Obligations'
    BY <1>2, <2>2, <2>4, NarrowedDue DEF Ic3Inv, Obligations
  <2>11. Generalized'
    BY <1>2 DEF Ic3Inv, Generalized
  <2>12. Control'
    <3>1. frames'[at] = frames[at] /\ frontier' = frontier
      BY <1>3, <2>2, <2>3, <2>4 DEF Narrowed
    <3> QED
      BY <1>1, <1>2, <3>1 DEF Ic3Inv, Control
  <2> QED
    BY <2>6, <2>9, <2>10, <2>11, <2>12 DEF Ic3Inv
<1> QED
  BY <1>1, <1>4, <1>5
-----------------------------------------------------------------------------
(* Results.                                                                *)

(* Whatever step solve() takes, with whichever witness, lifting, literal,  *)
(* obligation and clause, the invariant of its frames and obligations is   *)
(* kept.                                                                   *)
THEOREM Ic3StepKeeps ==
  ASSUME Ic3Inv, Ic3Step
  PROVE  Ic3Inv'
  BY CheckInitKeeps, OutOfFramesKeeps, BadFoundKeeps, FrontierCleanKeeps, TakeObligationKeeps,
     TryLiteralKeeps, BlockCubeKeeps, AllBlockedKeeps, PushClauseKeeps, FramePushedKeeps
  DEF Ic3Step

(* What a SAFE answer returns is a certificate: the reset state satisfies  *)
(* its clauses, every step from a state that does leads to one that does,  *)
(* and no such state is bad.                                               *)
Certified ==
  found.result = "SAFE" =>
    /\ Meets(sys.init, found.invariant)
    /\ \A s \in sys.states : Meets(s, found.invariant) =>
         \A in \in sys.inputs :
           /\ Meets(sys.step[<<s, in>>], found.invariant)
           /\ ~sys.bad[<<s, in>>]

(* A frame that is a certificate.                                          *)
LEMMA FrameCertifies ==
  ASSUME FramesType, FramesSound, NEW i \in 1 .. frontier, NEW clauses,
         \A s \in sys.states : s \in Frame(i) <=> Meets(s, clauses),
         \A s \in Frame(i) : \A in \in sys.inputs :
           sys.step[<<s, in>>] \in Frame(i) /\ ~sys.bad[<<s, in>>]
  PROVE  /\ Meets(sys.init, clauses)
         /\ \A s \in sys.states : Meets(s, clauses) =>
              \A in \in sys.inputs :
                Meets(sys.step[<<s, in>>], clauses) /\ ~sys.bad[<<s, in>>]
<1>1. frontier \in Nat /\ i \in 0 .. frontier
  BY DEF FramesType, frontier
<1>2. sys.init \in Frame(i) /\ sys.init \in sys.states
  BY <1>1, InitInFrames, FrameInStates
<1>3. \A s \in sys.states : \A in \in sys.inputs : sys.step[<<s, in>>] \in sys.states
  BY DEF FramesType, IsSystem
<1> QED
  BY <1>2, <1>3

(* The frame found equal to the next one certifies, and so does the empty  *)
(* frame when no clause was ever needed.                                   *)
LEMMA ReturnsCertificate ==
  ASSUME Ic3Inv, FramePushed \/ FrontierClean, found'.result = "SAFE"
  PROVE  Certified'
<1>1. frontier \in Nat \ {0}
  BY DEF Ic3Inv, FramesType, frontier
<1>2. CASE FramePushed
  <2>1. /\ pc = "push" /\ found.result = "NONE"
        /\ found'.invariant = UNION {frames[j] : j \in at + 1 .. frontier}
        /\ Converged /\ sys' = sys
    BY <1>2 DEF FramePushed, Return, Ic3Inv, Control, NotFound
  <2>2. at \in 1 .. frontier - 1 /\ at + 1 \in 1 .. frontier
        /\ at .. frontier = {at} \cup ((at + 1) .. frontier) /\ at + 1 \in at + 1 .. frontier
    BY <1>1, <2>1 DEF Ic3Inv, Control
  <2>3. \A s \in sys.states : s \in Frame(at + 1) <=> Meets(s, found'.invariant)
    <3>1. \A s : s \in Frame(at + 1) <=>
             s \in sys.states /\ \A j \in at + 1 .. frontier : Meets(s, frames[j])
      BY <2>2, FrameStates DEF FrameMembers
    <3> QED
      BY <2>1, <3>1 DEF Meets
  <2>4. Frame(at + 1) \subseteq Frame(at)
    <3>1. \A s : Meets(s, frames[at + 1]) => Meets(s, frames[at])
      BY <2>1 DEF Converged, Meets
    <3>2. at \in Int \ {0} /\ at + 1 \in Int \ {0}
      BY <2>2
    <3> QED
      BY <2>2, <3>1, <3>2, FrameStates DEF FrameMembers
  <2>5. \A s \in Frame(at + 1) : \A in \in sys.inputs :
          sys.step[<<s, in>>] \in Frame(at + 1) /\ ~sys.bad[<<s, in>>]
    <3>1. at \in 0 .. frontier - 1
      BY <2>2
    <3> QED
      BY <2>1, <2>4, <3>1 DEF Ic3Inv, FramesSound
  <2>6. PICK clauses : clauses = found'.invariant
    OBVIOUS
  <2> QED
    BY <2>1, <2>2, <2>3, <2>5, <2>6, FrameCertifies DEF Certified, Ic3Inv
<1>3. CASE FrontierClean
  <2>1. /\ pc = "frontier" /\ found.result = "NONE" /\ found = NotFound
        /\ found'.invariant = {} /\ sys' = sys /\ BadCubes(frontier) = {}
        /\ \A i \in DOMAIN frames : frames[i] = {}
    BY <1>3 DEF FrontierClean, Return, Ic3Inv, Control, NotFound
  <2>2. \A s \in sys.states : s \in Frame(frontier) /\ Meets(s, {})
    <3>1. frontier .. frontier \subseteq DOMAIN frames /\ frontier \in Int \ {0}
      BY <1>1 DEF Ic3Inv, FramesType, frontier
    <3> QED
      BY <2>1, <3>1, FrameStates DEF FrameMembers, Meets
  <2>3. \A s \in sys.states : \A in \in sys.inputs : ~sys.bad[<<s, in>>]
    BY <2>1, <2>2, NoBadCube DEF Ic3Inv
  <2> QED
    BY <2>1, <2>3 DEF Certified, Meets
<1> QED
  BY <1>2, <1>3

(* Every answer SAFE of solve() comes with a certificate.                  *)
THEOREM Ic3StepCertifies ==
  ASSUME Ic3Inv, Certified, Ic3Step
  PROVE  Certified'
<1>1. CASE FramePushed \/ FrontierClean
  <2>1. CASE found'.result = "SAFE"
    BY <1>1, <2>1, ReturnsCertificate
  <2>2. CASE found'.result # "SAFE"
    BY <2>2 DEF Certified
  <2> QED
    BY <2>1, <2>2
<1>2. CASE ~(FramePushed \/ FrontierClean)
  <2>1. sys' = sys /\ (found' = found \/ found'.result \in {"UNSAFE", "UNKNOWN"})
    <3>1. CASE CheckInit \/ OutOfFrames
      BY <3>1 DEF CheckInit, OutOfFrames, Return
    <3>2. CASE TakeObligation
      <4>1. found' = found \/ Return("UNSAFE", frontier, {})
        BY <3>2, Zenon DEF TakeObligation
      <4> QED
        BY <3>2, <4>1 DEF TakeObligation, Return
    <3>3. CASE BadFound \/ TryLiteral \/ BlockCube \/ AllBlocked \/ PushClause
      BY <3>3 DEF BadFound, TryLiteral, BlockCube, AllBlocked, PushClause
    <3> QED
      BY <1>2, <3>1, <3>2, <3>3 DEF Ic3Step
  <2> QED
    BY <2>1 DEF Certified
<1> QED
  BY <1>1, <1>2

(* A call of solve() on any system starts in the invariant.                *)
LEMMA BeginsRight ==
  ASSUME IsSystem(sys), pc = "start", frames = <<{}>>, queue = EmptyBag, blocking = Nothing,
         found = NotFound
  PROVE  Ic3Inv /\ Certified
<1>1. FramesType /\ frontier = 1
  BY DEF FramesType, frontier
<1>2. FramesSound
  <2>1. \A s : s \in Frame(1) <=> s \in sys.states
    <3>1. 1 \in Int \ {0} /\ 1 .. 1 = {1} /\ frames[1] = {}
      OBVIOUS
    <3> QED
      BY <1>1, <3>1, FrameStates DEF FrameMembers, Meets
  <2> SUFFICES ASSUME NEW i \in 0 .. frontier - 1
               PROVE  /\ sys.init \in Frame(i + 1)
                      /\ \A s \in Frame(i) : \A in \in sys.inputs :
                           sys.step[<<s, in>>] \in Frame(i + 1)
    BY DEF FramesSound
  <2>2. i = 0
    BY <1>1
  <2> QED
    BY <2>1, <2>2 DEF Frame, IsSystem
<1>3. Obligations
  BY BagOfNone DEF Obligations
<1>4. Generalized /\ Control
  BY DEF Generalized, Control, Nothing
<1> QED
  BY <1>1, <1>2, <1>3, <1>4 DEF Ic3Inv, Certified, NotFound

-----------------------------------------------------------------------------
(* States and their parts.                                                 *)

LEMMA BitAdded ==
  ASSUME NEW bits \in SUBSET (Nat \ {0}), NEW ok \in Nat \ {0}, ok \notin bits,
         NEW s \in StatesOver(bits)
  PROVE  s \cup {ok} \in StatesOver(bits \cup {ok}) /\ s \cup {-ok} \in StatesOver(bits \cup {ok})
<1>1. PICK on \in SUBSET bits : s = on \cup {-b : b \in bits \ on}
  BY DEF StatesOver
<1>2. s \cup {ok} = (on \cup {ok}) \cup {-b : b \in (bits \cup {ok}) \ (on \cup {ok})}
  BY <1>1
<1>3. s \cup {-ok} = on \cup {-b : b \in (bits \cup {ok}) \ on}
  BY <1>1
<1> QED
  BY <1>2, <1>3 DEF StatesOver

LEMMA BitDropped ==
  ASSUME NEW bits \in SUBSET (Nat \ {0}), NEW ok \in Nat \ {0}, ok \notin bits,
         NEW s \in StatesOver(bits \cup {ok})
  PROVE  s \ {ok, -ok} \in StatesOver(bits)
<1>1. PICK on \in SUBSET (bits \cup {ok}) : s = on \cup {-b : b \in (bits \cup {ok}) \ on}
  BY DEF StatesOver
<1>2. s \ {ok, -ok} = (on \ {ok}) \cup {-b : b \in bits \ (on \ {ok})}
  BY <1>1
<1> QED
  BY <1>2 DEF StatesOver

LEMMA BitBack ==
  ASSUME NEW bits \in SUBSET (Nat \ {0}), NEW ok \in Nat \ {0}, ok \notin bits,
         NEW s \in StatesOver(bits)
  PROVE  (s \cup {ok}) \ {ok, -ok} = s
<1>1. PICK on \in SUBSET bits : s = on \cup {-b : b \in bits \ on}
  BY DEF StatesOver
<1> QED
  BY <1>1

LEMMA PartOfState ==
  ASSUME NEW bits \in SUBSET (Nat \ {0}), NEW kept \in SUBSET bits, NEW s \in StatesOver(bits)
  PROVE  Part(s, kept) \in StatesOver(kept)
<1>1. PICK on \in SUBSET bits : s = on \cup {-b : b \in bits \ on}
  BY DEF StatesOver
<1> DEFINE part == (on \cap kept) \cup {-b : b \in kept \ (on \cap kept)}
<1>2. ASSUME NEW l \in Part(s, kept) PROVE l \in part
  <2>1. l \in s /\ (l \in kept \/ -l \in kept)
    BY DEF Part
  <2>2. CASE l \in on
    BY <2>1, <2>2
  <2>3. CASE \E b \in bits \ on : l = -b
    BY <2>1, <2>3
  <2> QED
    BY <1>1, <2>1, <2>2, <2>3
<1>3. ASSUME NEW l \in part PROVE l \in Part(s, kept)
  <2>1. CASE l \in on \cap kept
    BY <1>1, <2>1 DEF Part
  <2>2. CASE \E b \in kept \ on : l = -b
    BY <1>1, <2>2 DEF Part
  <2> QED
    BY <2>1, <2>2
<1>4. Part(s, kept) = part
  BY <1>2, <1>3
<1> QED
  BY <1>4 DEF StatesOver

LEMMA PartsJoin ==
  ASSUME NEW bits \in SUBSET (Nat \ {0}), NEW kept \in SUBSET bits,
         NEW s \in StatesOver(kept), NEW freed \in StatesOver(bits \ kept)
  PROVE  s \cup freed \in StatesOver(bits)
<1>1. PICK on \in SUBSET kept : s = on \cup {-b : b \in kept \ on}
  BY DEF StatesOver
<1>2. PICK off \in SUBSET (bits \ kept) : freed = off \cup {-b : b \in (bits \ kept) \ off}
  BY DEF StatesOver
<1>3. s \cup freed = (on \cup off) \cup {-b : b \in bits \ (on \cup off)}
  BY <1>1, <1>2
<1> QED
  BY <1>3 DEF StatesOver

LEMMA PartsOfState ==
  ASSUME NEW bits \in SUBSET (Nat \ {0}), NEW kept \in SUBSET bits, NEW s \in StatesOver(bits)
  PROVE  Part(s, kept) \cup Part(s, bits \ kept) = s
<1>1. PICK on \in SUBSET bits : s = on \cup {-b : b \in bits \ on}
  BY DEF StatesOver
<1>2. \A l \in s : l \in bits \/ -l \in bits
  BY <1>1
<1> QED
  BY <1>2 DEF Part

(* The freed bits of an abstract input are told apart from the others.     *)
LEMMA PartOfInput ==
  ASSUME NEW bits \in SUBSET (Nat \ {0}), NEW cut \in SUBSET bits,
         NEW freed \in StatesOver(cut), NEW in \in SUBSET (Int \ LiteralsOf(bits))
  PROVE  Part(freed \cup in, cut) = freed /\ (freed \cup in) \ freed = in
<1>1. freed \subseteq LiteralsOf(cut)
  BY StateLiterals
<1>2. freed \subseteq LiteralsOf(bits)
  BY <1>1 DEF LiteralsOf
<1>3. \A l \in freed : l \in cut \/ -l \in cut
  BY <1>1 DEF LiteralsOf
<1>4. \A l \in in : l \notin freed /\ l \notin cut /\ -l \notin cut
  BY <1>2 DEF LiteralsOf
<1> QED
  BY <1>3, <1>4 DEF Part
-----------------------------------------------------------------------------
(* The derived systems.                                                    *)

LEMMA LastBit ==
  ASSUME NEW ts, IsDesign(ts)
  PROVE  /\ Max(ts.bits) + 1 \in Nat \ {0}
         /\ Max(ts.bits) + 1 \notin ts.bits
<1>1. \E last \in ts.bits : \A b \in ts.bits : last >= b
  BY DEF IsDesign, IsSystem
<1>2. Max(ts.bits) \in ts.bits /\ \A b \in ts.bits : Max(ts.bits) >= b
  BY <1>1 DEF Max
<1> QED
  BY <1>2 DEF IsDesign, IsSystem

(* The design under its assumptions.                                       *)
LEMMA AssumedSystem ==
  ASSUME NEW ts, IsDesign(ts)
  PROVE  LET t == ApplyAssumptions(ts)
         IN  /\ IsSystem(t)
             /\ t.inputs = ts.inputs
             /\ \A in \in t.inputs : in \in SUBSET (Int \ LiteralsOf(t.bits))
<1> DEFINE ok == Max(ts.bits) + 1
<1>1. ok \in Nat \ {0} /\ ok \notin ts.bits
  BY LastBit
<1>2. CASE ~Assumes(ts)
  <2>1. ApplyAssumptions(ts) = ts
    BY <1>2 DEF ApplyAssumptions
  <2>2. \A in \in ts.inputs : in \in SUBSET (Int \ LiteralsOf(ts.bits))
    BY DEF IsDesign, LiteralsOf
  <2> QED
    BY <2>1, <2>2 DEF IsDesign
<1>3. CASE Assumes(ts)
  <2> DEFINE t == ApplyAssumptions(ts)
             states == StatesOver(ts.bits \cup {ok})
             before(x) == <<x[1] \ {ok, -ok}, x[2]>>
             obeyed(x) == ok \in x[1] /\ ts.assume[before(x)]
  <2>1. /\ t.bits = ts.bits \cup {ok} /\ t.states = states /\ t.inputs = ts.inputs
        /\ t.init = ts.init \cup {ok}
        /\ t.step = [x \in states \X ts.inputs |->
                       ts.step[before(x)] \cup {IF obeyed(x) THEN ok ELSE -ok}]
    BY <1>3 DEF ApplyAssumptions
  <2> HIDE DEF t
  <2>2. t.init \in states
    <3>1. ts.init \in StatesOver(ts.bits) /\ ts.bits \in SUBSET (Nat \ {0})
      BY DEF IsDesign, IsSystem
    <3>2. ts.init \cup {ok} \in states
      BY <1>1, <3>1, BitAdded
    <3> QED
      BY <2>1, <3>2
  <2>3. ASSUME NEW x \in states \X ts.inputs
        PROVE  ts.step[before(x)] \cup {IF obeyed(x) THEN ok ELSE -ok} \in states
    <3>1. x[1] \ {ok, -ok} \in StatesOver(ts.bits) /\ x[2] \in ts.inputs
      BY <1>1, BitDropped DEF IsDesign, IsSystem
    <3>2. ts.step[before(x)] \in StatesOver(ts.bits)
      BY <3>1 DEF IsDesign, IsSystem
    <3> QED
      BY <1>1, <3>2, BitAdded DEF IsDesign, IsSystem
  <2>4. t.step \in [states \X ts.inputs -> states]
    BY <2>1, <2>3
  <2>5. t.bits \subseteq Nat \ {0}
    BY <1>1, <2>1 DEF IsDesign, IsSystem
  <2>6. IsSystem(t)
    BY <2>1, <2>2, <2>4, <2>5 DEF IsSystem
  <2>7. \A in \in t.inputs : in \in SUBSET (Int \ LiteralsOf(t.bits))
    BY <2>1 DEF IsDesign
  <2> QED
    BY <2>1, <2>6, <2>7 DEF t
<1> QED
  BY <1>2, <1>3

(* The abstraction t follows a step of the system on the kept bits, given  *)
(* the freed ones.                                                         *)
Follows(t, ts, kept, s, in, freed) ==
  /\ freed \in t.inputs
  /\ t.step[<<Part(s, kept), freed>>] = Part(ts.step[<<s, in>>], kept)
  /\ t.bad[<<Part(s, kept), freed>>] = ts.bad[<<s, in>>]

(* An abstraction: its inputs are an input of the system and the freed     *)
(* bits, and tell the two apart.                                           *)
LEMMA LocalizedSystem ==
  ASSUME NEW ts, IsSystem(ts), NEW kept \in SUBSET ts.bits,
         \A in \in ts.inputs : in \in SUBSET (Int \ LiteralsOf(ts.bits)),
         NEW t, t = Localize(ts, kept)
  PROVE  /\ IsSystem(t)
         /\ t.init = Part(ts.init, kept)
         /\ \A s \in ts.states : \A in \in ts.inputs :
              Follows(t, ts, kept, s, in, Part(s, ts.bits \ kept) \cup in)
<1> DEFINE cut == ts.bits \ kept
           states == StatesOver(kept)
           inputs == {y[1] \cup y[2] : y \in StatesOver(cut) \X ts.inputs}
           concrete(x) == <<x[1] \cup Part(x[2], cut), x[2] \ Part(x[2], cut)>>
<1>1. /\ t.bits = kept /\ t.states = states /\ t.inputs = inputs
      /\ t.init = Part(ts.init, kept)
      /\ t.step = [x \in states \X inputs |-> Part(ts.step[concrete(x)], kept)]
      /\ t.bad = [x \in states \X inputs |-> ts.bad[concrete(x)]]
  BY DEF Localize
<1>2. ASSUME NEW p \in states, NEW freed \in StatesOver(cut), NEW in \in ts.inputs
      PROVE  /\ freed \cup in \in inputs
             /\ concrete(<<p, freed \cup in>>) = <<p \cup freed, in>>
  <2>1. Part(freed \cup in, cut) = freed /\ (freed \cup in) \ freed = in
    BY PartOfInput DEF IsSystem
  <2>2. <<freed, in>> \in StatesOver(cut) \X ts.inputs
        /\ freed \cup in = <<freed, in>>[1] \cup <<freed, in>>[2]
    OBVIOUS
  <2>3. freed \cup in \in inputs
    BY <2>2
  <2>4. concrete(<<p, freed \cup in>>)
          = <<p \cup Part(freed \cup in, cut), (freed \cup in) \ Part(freed \cup in, cut)>>
    OBVIOUS
  <2> QED
    BY <2>1, <2>3, <2>4
<1>3. \A i \in inputs : \E y \in StatesOver(cut) \X ts.inputs : i = y[1] \cup y[2]
  OBVIOUS
<1> HIDE DEF inputs, concrete
<1>4. IsSystem(t)
  <2>1. ASSUME NEW x \in states \X inputs PROVE Part(ts.step[concrete(x)], kept) \in states
    <3>1. x[1] \in states /\ x[2] \in inputs /\ x = <<x[1], x[2]>>
      OBVIOUS
    <3>2. PICK y \in StatesOver(cut) \X ts.inputs : x[2] = y[1] \cup y[2]
      BY <1>3, <3>1
    <3>3. y[1] \in StatesOver(cut) /\ y[2] \in ts.inputs
      OBVIOUS
    <3>4. concrete(<<x[1], y[1] \cup y[2]>>) = <<x[1] \cup y[1], y[2]>>
      BY <1>2, <3>1, <3>3
    <3>5. concrete(x) = <<x[1] \cup y[1], y[2]>>
      BY <3>1, <3>2, <3>4
    <3>6. x[1] \cup y[1] \in ts.states
      BY <3>1, <3>3, PartsJoin DEF IsSystem
    <3>7. ts.step[concrete(x)] \in ts.states
      BY <3>3, <3>5, <3>6 DEF IsSystem
    <3> QED
      BY <3>7, PartOfState DEF IsSystem
  <2>2. t.init \in states
    BY <1>1, PartOfState DEF IsSystem
  <2>3. t.step \in [states \X inputs -> states]
    <3> HIDE DEF states
    <3> QED
      BY <1>1, <2>1
  <2>4. kept \subseteq Nat \ {0}
    BY DEF IsSystem
  <2> QED
    BY <1>1, <2>2, <2>3, <2>4 DEF IsSystem
<1>5. ASSUME NEW s \in ts.states, NEW in \in ts.inputs
      PROVE  Follows(t, ts, kept, s, in, Part(s, cut) \cup in)
  <2>1. Part(s, kept) \in states /\ Part(s, cut) \in StatesOver(cut)
    BY PartOfState DEF IsSystem
  <2>2. Part(s, kept) \cup Part(s, cut) = s
    <3>1. ts.bits \in SUBSET (Nat \ {0}) /\ s \in StatesOver(ts.bits)
      BY DEF IsSystem
    <3> QED
      BY <3>1, PartsOfState
  <2>3. Part(s, cut) \cup in \in inputs
    BY <1>2, <2>1
  <2>4. concrete(<<Part(s, kept), Part(s, cut) \cup in>>) = <<s, in>>
    <3>1. concrete(<<Part(s, kept), Part(s, cut) \cup in>>)
            = <<Part(s, kept) \cup Part(s, cut), in>>
      BY <1>2, <2>1, Zenon
    <3> QED
      BY <2>2, <3>1
  <2>5. PICK x : x = <<Part(s, kept), Part(s, cut) \cup in>>
    OBVIOUS
  <2>6. x \in states \X inputs
    BY <2>1, <2>3, <2>5
  <2>7. t.step[x] = Part(ts.step[concrete(x)], kept) /\ t.bad[x] = ts.bad[concrete(x)]
    BY <1>1, <2>6
  <2> QED
    BY <1>1, <2>1, <2>3, <2>4, <2>5, <2>7 DEF Follows
<1> QED
  BY <1>1, <1>4, <1>5
-----------------------------------------------------------------------------
(* Certificates.                                                           *)

(* A set of states that contains the reset state, that no step leaves and  *)
(* in which nothing is bad.                                                *)
CertificateOf(ts, J) ==
  /\ J \subseteq ts.states /\ ts.init \in J
  /\ \A s \in J : \A in \in ts.inputs :
       ts.step[<<s, in>>] \in J /\ ~ts.bad[<<s, in>>]

(* The same for a design and the steps that obey its assumptions.          *)
InductivelySafe(ts) ==
  \E J \in SUBSET ts.states :
    /\ ts.init \in J
    /\ \A s \in J : \A in \in ts.inputs :
         ts.assume[<<s, in>>] => ts.step[<<s, in>>] \in J /\ ~ts.bad[<<s, in>>]

(* The clauses IC3 returns describe one.                                   *)
LEMMA ClausesCertify ==
  ASSUME IsSystem(sys), Certified, found.result = "SAFE"
  PROVE  \E J : CertificateOf(sys, J)
<1> DEFINE J == {s \in sys.states : Meets(s, found.invariant)}
<1>1. sys.init \in J
  BY DEF IsSystem, Certified
<1>2. \A s \in J : \A in \in sys.inputs : sys.step[<<s, in>>] \in J /\ ~sys.bad[<<s, in>>]
  BY DEF IsSystem, Certified
<1>3. CertificateOf(sys, J)
  BY <1>1, <1>2 DEF CertificateOf
<1> QED
  BY <1>3

(* The assumption latch costs nothing: the states that are in a            *)
(* certificate while it is up are one for the design.                      *)
LEMMA LatchCertifies ==
  ASSUME NEW ts, IsDesign(ts), NEW J, CertificateOf(ApplyAssumptions(ts), J)
  PROVE  InductivelySafe(ts)
<1>1. CASE ~Assumes(ts)
  <2>1. ApplyAssumptions(ts) = ts
    BY <1>1 DEF ApplyAssumptions
  <2> QED
    BY <2>1 DEF CertificateOf, InductivelySafe
<1>2. CASE Assumes(ts)
  <2> DEFINE ok == Max(ts.bits) + 1
             t == ApplyAssumptions(ts)
             states == StatesOver(ts.bits \cup {ok})
             before(x) == <<x[1] \ {ok, -ok}, x[2]>>
             obeyed(x) == ok \in x[1] /\ ts.assume[before(x)]
             K == {s \in ts.states : s \cup {ok} \in J}
  <2>1. /\ t.inputs = ts.inputs /\ t.init = ts.init \cup {ok}
        /\ t.step = [x \in states \X ts.inputs |->
                       ts.step[before(x)] \cup {IF obeyed(x) THEN ok ELSE -ok}]
        /\ t.bad = [x \in states \X ts.inputs |-> ts.bad[before(x)] /\ obeyed(x)]
    BY <1>2 DEF ApplyAssumptions
  <2>2. /\ t.init \in J
        /\ \A s \in J : \A in \in t.inputs : t.step[<<s, in>>] \in J /\ ~t.bad[<<s, in>>]
    BY DEF CertificateOf
  <2> HIDE DEF t
  <2>3. ts.init \in K
    BY <2>1, <2>2 DEF IsDesign, IsSystem
  <2>4. ASSUME NEW s \in K, NEW in \in ts.inputs, ts.assume[<<s, in>>]
        PROVE  ts.step[<<s, in>>] \in K /\ ~ts.bad[<<s, in>>]
    <3>1. ok \in Nat \ {0} /\ ok \notin ts.bits
      BY LastBit
    <3>2. s \in StatesOver(ts.bits) /\ ts.bits \in SUBSET (Nat \ {0}) /\ s \cup {ok} \in J
      BY DEF IsDesign, IsSystem
    <3>3. PICK x : x = <<s \cup {ok}, in>>
      OBVIOUS
    <3>4. x \in states \X ts.inputs
      BY <3>1, <3>2, <3>3, BitAdded
    <3>5. before(x) = <<s, in>>
      BY <3>1, <3>2, <3>3, BitBack
    <3>6. obeyed(x)
      BY <2>4, <3>3, <3>5
    <3> HIDE DEF before, obeyed, states
    <3>7. t.step[x] = ts.step[<<s, in>>] \cup {ok}
      BY <2>1, <3>4, <3>5, <3>6
    <3>8. t.bad[x] = (ts.bad[<<s, in>>] /\ obeyed(x))
      BY <2>1, <3>4, <3>5
    <3>9. t.step[x] \in J /\ ~t.bad[x]
      BY <2>1, <2>2, <3>2, <3>3
    <3>10. ts.step[<<s, in>>] \in ts.states
      BY DEF IsDesign, IsSystem
    <3> QED
      BY <3>6, <3>7, <3>8, <3>9, <3>10
  <2> QED
    BY <2>3, <2>4 DEF InductivelySafe
<1> QED
  BY <1>1, <1>2

(* Nor does cutting registers free: the states whose kept bits are in a    *)
(* certificate of the abstraction are one of the system.                   *)
LEMMA AbstractionCertifies ==
  ASSUME NEW ts, IsSystem(ts), NEW kept \in SUBSET ts.bits,
         \A in \in ts.inputs : in \in SUBSET (Int \ LiteralsOf(ts.bits)),
         NEW J, CertificateOf(Localize(ts, kept), J)
  PROVE  \E K : CertificateOf(ts, K)
<1> DEFINE K == {s \in ts.states : Part(s, kept) \in J}
<1>1. PICK t : t = Localize(ts, kept)
  OBVIOUS
<1>2. /\ t.init = Part(ts.init, kept)
      /\ \A s \in ts.states : \A in \in ts.inputs :
           Follows(t, ts, kept, s, in, Part(s, ts.bits \ kept) \cup in)
  BY <1>1, LocalizedSystem
<1>3. \A s \in J : \A in \in t.inputs : t.step[<<s, in>>] \in J /\ ~t.bad[<<s, in>>]
  BY <1>1 DEF CertificateOf
<1>4. ASSUME NEW s \in K, NEW in \in ts.inputs
      PROVE  ts.step[<<s, in>>] \in K /\ ~ts.bad[<<s, in>>]
  <2>1. PICK freed : freed = Part(s, ts.bits \ kept) \cup in
    OBVIOUS
  <2>2. /\ freed \in t.inputs
        /\ t.step[<<Part(s, kept), freed>>] = Part(ts.step[<<s, in>>], kept)
        /\ t.bad[<<Part(s, kept), freed>>] = ts.bad[<<s, in>>]
    BY <1>2, <2>1 DEF Follows
  <2>3. /\ t.step[<<Part(s, kept), freed>>] \in J
        /\ ~t.bad[<<Part(s, kept), freed>>]
    BY <1>3, <2>2
  <2>4. ts.step[<<s, in>>] \in ts.states
    BY DEF IsSystem
  <2> QED
    BY <2>2, <2>3, <2>4
<1>5. ts.init \in K
  BY <1>1, <1>2 DEF CertificateOf, IsSystem
<1>6. CertificateOf(ts, K)
  BY <1>4, <1>5 DEF CertificateOf
<1> QED
  BY <1>6

-----------------------------------------------------------------------------
(* The invariant of the program.                                           *)

(* IC3 works on the design under its assumptions, or on an abstraction of  *)
(* it that keeps some bits.                                                *)
Inv ==
  /\ design \in Designs
  /\ keep \subseteq target.bits
  /\ stage \in {"induction", "ic3"} => sys = target
  /\ stage = "check" => sys = Localize(target, keep)
  /\ Ic3Inv /\ Certified
  /\ DOMAIN verdict = Engines
  /\ verdict["ic3"] = "SAFE" \/ verdict["cegar"] = "SAFE" => InductivelySafe(design)

(* A call of IC3.                                                          *)
Begun ==
  /\ IsSystem(sys) /\ pc = "start" /\ frames = <<{}>> /\ queue = EmptyBag
  /\ blocking = Nothing /\ found = NotFound

LEMMA BegunRight == Begun => Ic3Inv /\ Certified
  BY BeginsRight DEF Begun

LEMMA TargetSystem ==
  ASSUME design \in Designs
  PROVE  /\ IsSystem(target) /\ target.inputs = design.inputs
         /\ \A in \in target.inputs : in \in SUBSET (Int \ LiteralsOf(target.bits))
  BY AssumedSystem, DesignsAssumption DEF target

LEMMA StutterKeeps ==
  ASSUME Ic3Inv, Certified, UNCHANGED ic3Vars
  PROVE  Ic3Inv' /\ Certified'
<1>1. FramesType' /\ FramesSound' /\ Obligations'
  BY QuietStep DEF ic3Vars
<1>2. Generalized'
  BY SameFrames DEF ic3Vars, Ic3Inv, Generalized, IsCube, MeetsInit, Inductive
<1>3. Control' /\ Certified'
  BY DEF ic3Vars, Ic3Inv, Control, Certified, frontier
<1> QED
  BY <1>1, <1>2, <1>3 DEF Ic3Inv

LEMMA InvInit == Init => Inv
<1> SUFFICES ASSUME Init PROVE Inv
  OBVIOUS
<1>1. Begun
  BY TargetSystem DEF Init, Begin, Begun
<1>2. keep \subseteq target.bits
  BY DEF Init, Support
<1> QED
  BY <1>1, <1>2, BegunRight DEF Init, Begin, Inv, Engines

(* SAFE, said of what IC3 works on, is true of the design.                 *)
LEMMA SafeOfDesign ==
  ASSUME Inv, stage \in {"ic3", "check"}, found.result = "SAFE"
  PROVE  InductivelySafe(design)
<1>1. IsDesign(design) /\ target = ApplyAssumptions(design)
  BY DesignsAssumption DEF Inv, target
<1>2. \E J : CertificateOf(sys, J)
  BY ClausesCertify DEF Inv, Ic3Inv, FramesType
<1>3. \E J : CertificateOf(target, J)
  <2>1. CASE stage = "ic3"
    BY <1>2, <2>1 DEF Inv
  <2>2. CASE stage = "check"
    <3>1. sys = Localize(target, keep) /\ keep \in SUBSET target.bits
      BY <2>2 DEF Inv
    <3> QED
      BY <1>2, <3>1, TargetSystem, AbstractionCertifies DEF Inv
  <2> QED
    BY <2>1, <2>2
<1> QED
  BY <1>1, <1>3, LatchCertifies

(* Steps that only give a verdict.                                         *)
LEMMA VerdictKeeps ==
  ASSUME Inv, UNCHANGED <<ic3Vars, design, keep>>,
         stage' # "check", stage' \in {"induction", "ic3"} => stage \in {"induction", "ic3"},
         DOMAIN verdict' = Engines,
         verdict'["ic3"] = "SAFE" \/ verdict'["cegar"] = "SAFE" => InductivelySafe(design)
  PROVE  Inv'
<1>1. Ic3Inv' /\ Certified'
  BY StutterKeeps DEF Inv
<1>2. target' = target /\ sys' = sys /\ design' = design /\ keep' = keep
  BY DEF target, ic3Vars
<1> QED
  BY <1>1, <1>2 DEF Inv

LEMMA InvNext == Inv /\ [Next]_vars => Inv'
<1> SUFFICES ASSUME Inv, [Next]_vars PROVE Inv'
  OBVIOUS
<1>1. CASE RunIc3
  <2>1. Ic3Inv' /\ Certified'
    BY <1>1, Ic3StepKeeps, Ic3StepCertifies DEF RunIc3, Inv
  <2>2. target' = target /\ sys' = sys
    BY <1>1 DEF target, RunIc3, Ic3Step, CheckInit, OutOfFrames, BadFound, FrontierClean,
       TakeObligation, TryLiteral, BlockCube, AllBlocked, PushClause, FramePushed
  <2> QED
    BY <1>1, <2>1, <2>2 DEF Inv, RunIc3
<1>2. CASE Abstract
  <2>1. IsSystem(target) /\ IsSystem(Localize(target, keep))
    BY TargetSystem, LocalizedSystem DEF Inv
  <2>2. target' = target /\ keep' = keep /\ design' = design
    BY <1>2 DEF Abstract, target
  <2>3. sys' = Localize(target, keep)
    BY <1>2 DEF Abstract, Start, Begin
  <2>4. Begun'
    BY <1>2, <2>1, <2>3 DEF Abstract, Start, Begin, Begun
  <2>5. Ic3Inv' /\ Certified'
    BY <2>4, BegunRight, PTL
  <2> QED
    BY <1>2, <2>2, <2>3, <2>5 DEF Inv, Abstract
<1>3. CASE ReplayOrRefine
  <2>1. UNCHANGED ic3Vars /\ target' = target /\ sys' = sys /\ design' = design
    BY <1>3 DEF ReplayOrRefine, target, ic3Vars
  <2>2. Ic3Inv' /\ Certified'
    BY <2>1, StutterKeeps DEF Inv
  <2>3. Frontier \subseteq target.bits
    BY DEF Frontier, Support, SupportOfBit
  <2>4. /\ keep' \subseteq target.bits /\ stage' \in {"abstract", "done"}
        /\ verdict' = verdict \/ verdict' = [verdict EXCEPT !["cegar"] = "UNSAFE"]
    BY <1>3, <2>3 DEF ReplayOrRefine, Conclude, Diverging, Differ, Inv
  <2>5. /\ DOMAIN verdict' = Engines
        /\ verdict'["ic3"] = "SAFE" \/ verdict'["cegar"] = "SAFE" => InductivelySafe(design)
    BY <2>4 DEF Inv, Engines
  <2> QED
    BY <2>1, <2>2, <2>4, <2>5 DEF Inv
<1>4. CASE Unroll
  <2>1. UNCHANGED <<ic3Vars, design, keep>> /\ stage = "induction" /\ stage' = "ic3"
    BY <1>4 DEF Unroll
  <2>2. /\ verdict'["ic3"] = verdict["ic3"] /\ verdict'["cegar"] = verdict["cegar"]
        /\ DOMAIN verdict' = Engines
    BY <1>4 DEF Unroll, Inv, Engines
  <2>3. verdict["ic3"] = "SAFE" \/ verdict["cegar"] = "SAFE" => InductivelySafe(design)
    BY DEF Inv
  <2> QED
    BY <2>1, <2>2, <2>3, VerdictKeeps
<1>5. CASE Ic3Verdict
  <2>1. UNCHANGED <<ic3Vars, design, keep>> /\ stage' = "liveness"
    BY <1>5 DEF Ic3Verdict
  <2>2. /\ verdict'["ic3"] = found.result /\ verdict'["cegar"] = verdict["cegar"]
        /\ DOMAIN verdict' = Engines
    BY <1>5 DEF Ic3Verdict, Inv, Engines
  <2>3. found.result = "SAFE" => InductivelySafe(design)
    BY <1>5, SafeOfDesign DEF Ic3Verdict
  <2>4. verdict["cegar"] = "SAFE" => InductivelySafe(design)
    BY DEF Inv
  <2> QED
    BY <2>1, <2>2, <2>3, <2>4, VerdictKeeps
<1>6. CASE ProveResponse
  <2>1. UNCHANGED <<ic3Vars, design, keep>> /\ stage' = "done"
    BY <1>6 DEF ProveResponse
  <2>2. /\ verdict'["ic3"] = verdict["ic3"] /\ verdict'["cegar"] = verdict["cegar"]
        /\ DOMAIN verdict' = Engines
    BY <1>6 DEF ProveResponse, Inv, Engines
  <2>3. verdict["ic3"] = "SAFE" \/ verdict["cegar"] = "SAFE" => InductivelySafe(design)
    BY DEF Inv
  <2> QED
    BY <2>1, <2>2, <2>3, VerdictKeeps
<1>7. CASE Proved
  <2>1. UNCHANGED <<ic3Vars, design, keep>> /\ stage' = "done"
    BY <1>7 DEF Proved, Conclude
  <2>2. /\ verdict'["ic3"] = verdict["ic3"] /\ verdict'["cegar"] = "SAFE"
        /\ DOMAIN verdict' = Engines
    BY <1>7 DEF Proved, Conclude, Inv, Engines
  <2>3. found.result = "SAFE" => InductivelySafe(design)
    BY <1>7, SafeOfDesign DEF Proved
  <2>4. found.result = "SAFE"
    BY <1>7 DEF Proved
  <2> QED
    BY <2>1, <2>2, <2>3, <2>4, VerdictKeeps
<1>8. CASE GiveUp
  <2>1. UNCHANGED <<ic3Vars, design, keep>> /\ stage' = "done"
    BY <1>8 DEF GiveUp, Conclude
  <2>2. /\ verdict'["ic3"] = verdict["ic3"] /\ verdict'["cegar"] = "UNKNOWN"
        /\ DOMAIN verdict' = Engines
    BY <1>8 DEF GiveUp, Conclude, Inv, Engines
  <2>3. verdict["ic3"] = "SAFE" \/ verdict["cegar"] = "SAFE" => InductivelySafe(design)
    BY DEF Inv
  <2> QED
    BY <2>1, <2>2, <2>3, VerdictKeeps
<1>9. CASE UNCHANGED vars
  <2>1. Ic3Inv' /\ Certified'
    BY <1>9, StutterKeeps DEF vars, Inv
  <2> QED
    BY <1>9, <2>1 DEF vars, ic3Vars, target, Inv
<1>10. CASE Interpolate
  <2>1. UNCHANGED <<ic3Vars, design, keep>> /\ stage = "interpolation" /\ stage' = stage
    BY <1>10 DEF Interpolate
  <2>2. /\ verdict'["ic3"] = verdict["ic3"] /\ verdict'["cegar"] = verdict["cegar"]
        /\ DOMAIN verdict' = Engines
    BY <1>10 DEF Interpolate, Inv, Engines
  <2>3. verdict["ic3"] = "SAFE" \/ verdict["cegar"] = "SAFE" => InductivelySafe(design)
    BY DEF Inv
  <2> QED
    BY <2>1, <2>2, <2>3, VerdictKeeps
<1> QED
  BY <1>1, <1>2, <1>3, <1>4, <1>5, <1>6, <1>7, <1>8, <1>9, <1>10 DEF Next, Work, Settled

(* At every moment of every run of the program, on any designs: the frames *)
(* of IC3 over-approximate what is reachable in so many steps and only the *)
(* last may have a bad state.                                              *)
THEOREM FramesAlwaysHold == Spec => []FramesHold
<1>1. Inv => FramesHold
  BY FramesStateByState DEF Inv, Ic3Inv
<1> QED
  BY InvInit, InvNext, <1>1, PTL DEF Spec

(* No obligation above level 0 ever contains the reset state, though       *)
(* _block() does not test it.                                              *)
THEOREM ObligationsAlwaysMissInit == Spec => []ObligationsMissInit
<1>1. Inv => ObligationsMissInit
  BY ApartMissesInit DEF Inv, Ic3Inv
<1> QED
  BY InvInit, InvNext, <1>1, PTL DEF Spec

(* A SAFE of IC3, on the design under its assumptions or on the last       *)
(* abstraction of cegar(), is true of the design: there is a set of states *)
(* that holds the reset state, that no obedient step leaves and in which   *)
(* none is bad.                                                            *)
SafeVerdictsCertified ==
  verdict["ic3"] = "SAFE" \/ verdict["cegar"] = "SAFE" => InductivelySafe(design)

THEOREM SafeVerdictsAlwaysCertified == Spec => []SafeVerdictsCertified
<1>1. Inv => SafeVerdictsCertified
  BY DEF Inv, SafeVerdictsCertified
<1> QED
  BY InvInit, InvNext, <1>1, PTL DEF Spec

-----------------------------------------------------------------------------
(* Iterations over subsets of a finite set: they end, and where.           *)

(* F goes on from S: it is applied until it changes nothing.               *)
Iterates(g, F, U) == g = [S \in SUBSET U |-> IF F[S] = S THEN S ELSE g[F[S]]]

(* A set of numbers that is not empty has a least one.                     *)
LEMMA LeastNatural ==
  ASSUME NEW T \in SUBSET Nat, T # {}
  PROVE  \E x \in T : \A y \in T : x <= y
<1> DEFINE R == StrictSubsetOrdering(Nat)
           W == FiniteSubsetsOf(Nat)
           below(x) == {k \in Nat : k < x}
           B == {below(x) : x \in T}
<1>1. \A x \in T : below(x) \in W
  <2> SUFFICES ASSUME NEW x \in T PROVE below(x) \in W
    OBVIOUS
  <2>1. below(x) = 0 .. (x-1)
    OBVIOUS
  <2>2. IsFiniteSet(0 .. (x-1))
    BY FS_Interval
  <2>3. below(x) \subseteq Nat
    OBVIOUS
  <2>4. IsFiniteSet(below(x))
    BY <2>1, <2>2
  <2> HIDE DEF below
  <2> QED BY <2>3, <2>4, Zenon DEF FiniteSubsetsOf
<1>2. B \subseteq W
  <2> HIDE DEF below
  <2> QED BY <1>1, Zenon
<1>3. \E b \in B : \A c \in B : ~(<<c, b>> \in R)
  <2>1. B # {}
    BY Zenon
  <2> HIDE DEF R, W, B
  <2>2. IsWellFoundedOn(R, W)
    BY FS_StrictSubsetOrderingWellFounded, Zenon DEF R, W
  <2> QED BY <2>1, <2>2, <1>2, WFMin, Zenon
<1>4. PICK x \in T : \A c \in B : ~(<<c, below(x)>> \in R)
  BY <1>3, Zenon
<1>5. ASSUME NEW y \in T, ~(x <= y) PROVE FALSE
  <2>1. ~(<<below(y), below(x)>> \in R)
    BY <1>4, Zenon
  <2>2. below(y) \in SUBSET Nat /\ below(x) \in SUBSET Nat
    OBVIOUS
  <2>3. y \in below(x) /\ y \notin below(y)
    BY <1>5
  <2>4. below(y) \subseteq below(x)
    BY <1>5
  <2> HIDE DEF below
  <2>5. below(y) # below(x)
    BY <2>3
  <2> QED BY <2>1, <2>2, <2>4, <2>5 DEF StrictSubsetOrdering
<1> QED BY <1>5

(* A measure that falls whenever F changes the set.                        *)
Falls(m, F, U) ==
  /\ m \in [SUBSET U -> Nat]
  /\ \A S \in SUBSET U : F[S] \in SUBSET U /\ (F[S] # S => m[F[S]] < m[S])

(* A property of sets that passes back from F[S] to S.                     *)
Inherits(D, F, U) == \A S \in SUBSET U : F[S] = S \/ F[S] \in D => S \in D

(* It then holds of every set: F cannot go on changing it.                 *)
LEMMA Descent ==
  ASSUME NEW U, NEW F, NEW m, Falls(m, F, U), NEW D, Inherits(D, F, U),
         NEW S \in SUBSET U
  PROVE  S \in D
<1> DEFINE T == {n \in Nat : \E R \in SUBSET U : R \notin D /\ m[R] = n}
<1>1. ASSUME T # {} PROVE FALSE
  <2>1. PICK n \in T : \A y \in T : n <= y
    BY <1>1, LeastNatural
  <2>2. PICK R \in SUBSET U : R \notin D /\ m[R] = n
    BY <2>1
  <2>3. F[R] \in SUBSET U /\ F[R] \notin D /\ m[F[R]] \in Nat /\ m[F[R]] < n
    BY <2>2 DEF Falls, Inherits
  <2>4. m[F[R]] \in T
    BY <2>3
  <2> QED
    BY <2>1, <2>3, <2>4
<1> QED
  BY <1>1 DEF Falls

(* Growing to the least fixed point. *)
Grows(F, U) ==
  /\ F \in [SUBSET U -> SUBSET U]
  /\ \A S \in SUBSET U : S \subseteq F[S]
  /\ \A S \in SUBSET U, T \in SUBSET U : S \subseteq T => F[S] \subseteq F[T]

(* Iterating F from S ends in the least set around S that F leaves alone.  *)
LEMMA GrowthEnds ==
  ASSUME NEW U, IsFiniteSet(U), NEW F, Grows(F, U), NEW g, Iterates(g, F, U),
         NEW S \in SUBSET U
  PROVE  /\ g[S] \in SUBSET U /\ S \subseteq g[S] /\ F[g[S]] = g[S]
         /\ \A K \in SUBSET U : S \subseteq K /\ F[K] = K => g[S] \subseteq K
<1> DEFINE Good(T) == /\ g[T] \in SUBSET U /\ T \subseteq g[T] /\ F[g[T]] = g[T]
                      /\ \A K \in SUBSET U : T \subseteq K /\ F[K] = K => g[T] \subseteq K
           D == {T \in SUBSET U : Good(T)}
           m == [T \in SUBSET U |-> Cardinality(U \ T)]
<1>1. F \in [SUBSET U -> SUBSET U] /\ \A T \in SUBSET U : T \subseteq F[T] /\ F[T] \in SUBSET U
  BY DEF Grows
<1>2. \A T \in SUBSET U : IsFiniteSet(U \ T) /\ Cardinality(U \ T) \in Nat
  <2> TAKE T \in SUBSET U
  <2>1. U \ T \in SUBSET U
    OBVIOUS
  <2>2. IsFiniteSet(U \ T)
    BY <2>1, FS_Subset
  <2> QED
    BY <2>2, FS_CardinalityType
<1>3. m \in [SUBSET U -> Nat]
  BY <1>2
<1>4. ASSUME NEW T \in SUBSET U, F[T] # T PROVE m[F[T]] < m[T]
  <2>1. U \ F[T] \in SUBSET (U \ T) /\ U \ F[T] # U \ T
    BY <1>1, <1>4
  <2>2. Cardinality(U \ F[T]) <= Cardinality(U \ T) /\ Cardinality(U \ F[T]) # Cardinality(U \ T)
    BY <2>1, <1>2, FS_Subset
  <2>3. Cardinality(U \ F[T]) \in Nat /\ Cardinality(U \ T) \in Nat
    BY <1>1, <1>2
  <2> QED
    BY <1>1, <2>2, <2>3
<1>5. ASSUME NEW T \in SUBSET U, F[T] = T \/ F[T] \in D PROVE T \in D
  <2>1. g[T] = IF F[T] = T THEN T ELSE g[F[T]]
    BY DEF Iterates
  <2>2. CASE F[T] = T
    BY <2>1, <2>2
  <2>3. CASE F[T] # T
    <3>1. g[T] = g[F[T]] /\ Good(F[T])
      BY <2>1, <2>3, <1>5
    <3>2. ASSUME NEW K \in SUBSET U, T \subseteq K, F[K] = K PROVE g[T] \subseteq K
      <4>1. F[T] \subseteq K
        BY <3>2 DEF Grows
      <4> QED
        BY <3>1, <4>1, <3>2
    <3>3. T \subseteq g[T]
      BY <3>1, <1>1
    <3> QED
      BY <3>1, <3>2, <3>3
  <2> QED
    BY <2>2, <2>3
<1> HIDE DEF m, D
<1>6. S \in D
  <2>1. Falls(m, F, U)
    BY <1>1, <1>3, <1>4 DEF Falls
  <2>2. Inherits(D, F, U)
    BY <1>5 DEF Inherits
  <2> QED
    BY <2>1, <2>2, Descent
<1> QED
  BY <1>6 DEF D

(* The iteration is a function: its recursive definition has a solution.   *)
LEMMA GrowthExists ==
  ASSUME NEW U, NEW F, Grows(F, U)
  PROVE  \E g : Iterates(g, F, U)
<1> DEFINE closed(S) == {K \in SUBSET U : S \subseteq K /\ F[K] = K}
           least(S) == {x \in U : \A K \in closed(S) : x \in K}
           g == [S \in SUBSET U |-> least(S)]
<1>1. ASSUME NEW S \in SUBSET U, F[S] = S PROVE least(S) = S
  BY <1>1
<1>2. ASSUME NEW S \in SUBSET U PROVE F[S] \in SUBSET U /\ least(F[S]) = least(S)
  <2>1. F[S] \in SUBSET U
    BY DEF Grows
  <2>2. ASSUME NEW K \in SUBSET U, F[K] = K PROVE S \subseteq K <=> F[S] \subseteq K
    BY <2>2 DEF Grows
  <2>3. closed(F[S]) = closed(S)
    BY <2>2
  <2> QED
    BY <2>1, <2>3
<1> HIDE DEF least
<1>3. ASSUME NEW S \in SUBSET U PROVE g[S] = IF F[S] = S THEN S ELSE g[F[S]]
  BY <1>1, <1>2
<1>4. Iterates(g, F, U)
  BY <1>3 DEF Iterates
<1> QED
  BY <1>4

(* Shrinking to the greatest fixed point. *)
Shrinks(F, U) ==
  /\ F \in [SUBSET U -> SUBSET U]
  /\ \A S \in SUBSET U : F[S] \subseteq S
  /\ \A S \in SUBSET U, T \in SUBSET U : S \subseteq T => F[S] \subseteq F[T]

(* Iterating F from S ends in the largest set within S that F leaves       *)
(* alone.                                                                  *)
LEMMA ShrinkingEnds ==
  ASSUME NEW U, IsFiniteSet(U), NEW F, Shrinks(F, U), NEW g, Iterates(g, F, U),
         NEW S \in SUBSET U
  PROVE  /\ g[S] \in SUBSET U /\ g[S] \subseteq S /\ F[g[S]] = g[S]
         /\ \A K \in SUBSET U : K \subseteq S /\ F[K] = K => K \subseteq g[S]
<1> DEFINE Good(T) == /\ g[T] \in SUBSET U /\ g[T] \subseteq T /\ F[g[T]] = g[T]
                      /\ \A K \in SUBSET U : K \subseteq T /\ F[K] = K => K \subseteq g[T]
           D == {T \in SUBSET U : Good(T)}
           m == [T \in SUBSET U |-> Cardinality(T)]
<1>1. F \in [SUBSET U -> SUBSET U] /\ \A T \in SUBSET U : F[T] \subseteq T /\ F[T] \in SUBSET U
  BY DEF Shrinks
<1>2. \A T \in SUBSET U : IsFiniteSet(T) /\ Cardinality(T) \in Nat
  BY FS_Subset, FS_CardinalityType
<1>3. m \in [SUBSET U -> Nat]
  BY <1>2
<1>4. ASSUME NEW T \in SUBSET U, F[T] # T PROVE m[F[T]] < m[T]
  <2>1. F[T] \in SUBSET T /\ F[T] # T
    BY <1>1, <1>4
  <2>2. Cardinality(F[T]) <= Cardinality(T) /\ Cardinality(F[T]) # Cardinality(T)
    BY <2>1, <1>2, FS_Subset
  <2>3. Cardinality(F[T]) \in Nat /\ Cardinality(T) \in Nat
    BY <1>1, <1>2
  <2> QED
    BY <1>1, <2>2, <2>3
<1>5. ASSUME NEW T \in SUBSET U, F[T] = T \/ F[T] \in D PROVE T \in D
  <2>1. g[T] = IF F[T] = T THEN T ELSE g[F[T]]
    BY DEF Iterates
  <2>2. CASE F[T] = T
    BY <2>1, <2>2
  <2>3. CASE F[T] # T
    <3>1. g[T] = g[F[T]] /\ Good(F[T])
      BY <2>1, <2>3, <1>5
    <3>2. ASSUME NEW K \in SUBSET U, K \subseteq T, F[K] = K PROVE K \subseteq g[T]
      <4>1. K \subseteq F[T]
        BY <3>2 DEF Shrinks
      <4> QED
        BY <3>1, <4>1, <3>2
    <3>3. g[T] \subseteq T
      BY <3>1, <1>1
    <3> QED
      BY <3>1, <3>2, <3>3
  <2> QED
    BY <2>2, <2>3
<1> HIDE DEF m, D
<1>6. S \in D
  <2>1. Falls(m, F, U)
    BY <1>1, <1>3, <1>4 DEF Falls
  <2>2. Inherits(D, F, U)
    BY <1>5 DEF Inherits
  <2> QED
    BY <2>1, <2>2, Descent
<1> QED
  BY <1>6 DEF D

(* That iteration is a function too.                                       *)
LEMMA ShrinkingExists ==
  ASSUME NEW U, NEW F, Shrinks(F, U)
  PROVE  \E g : Iterates(g, F, U)
<1> DEFINE within(S) == {K \in SUBSET U : K \subseteq S /\ F[K] = K}
           greatest(S) == UNION within(S)
           g == [S \in SUBSET U |-> greatest(S)]
<1>1. ASSUME NEW S \in SUBSET U, F[S] = S PROVE greatest(S) = S
  BY <1>1
<1>2. ASSUME NEW S \in SUBSET U PROVE F[S] \in SUBSET U /\ greatest(F[S]) = greatest(S)
  <2>1. F[S] \in SUBSET U
    BY DEF Shrinks
  <2>2. ASSUME NEW K \in SUBSET U, F[K] = K PROVE K \subseteq S <=> K \subseteq F[S]
    BY <2>2 DEF Shrinks
  <2>3. within(F[S]) = within(S)
    BY <2>2
  <2> QED
    BY <2>1, <2>3
<1> HIDE DEF greatest
<1>3. ASSUME NEW S \in SUBSET U PROVE g[S] = IF F[S] = S THEN S ELSE g[F[S]]
  BY <1>1, <1>2
<1>4. Iterates(g, F, U)
  BY <1>3 DEF Iterates
<1> QED
  BY <1>4

-----------------------------------------------------------------------------
(* Safety as an inductive set of states.                                   *)

(* There are finitely many states over finitely many bits.                 *)
LEMMA StatesFinite ==
  ASSUME NEW bits, IsFiniteSet(bits)
  PROVE  IsFiniteSet(StatesOver(bits))
<1> DEFINE f == [on \in SUBSET bits |-> on \cup {-b : b \in bits \ on}]
<1>1. IsFiniteSet(SUBSET bits)
  BY FS_SUBSET
<1>2. f \in Surjection(SUBSET bits, StatesOver(bits))
  BY DEF Surjection, StatesOver
<1> HIDE DEF f
<1> QED
  BY <1>1, <1>2, FS_Surjection

(* A design has finitely many states.                                      *)
LEMMA DesignFinite ==
  ASSUME NEW ts, IsDesign(ts)
  PROVE  IsFiniteSet(ts.states)
<1>1. PICK last \in ts.bits : \A b \in ts.bits : b <= last
  BY DEF IsDesign
<1>2. ts.bits \in SUBSET Nat /\ last \in Nat
  BY DEF IsDesign, IsSystem
<1>3. IsFiniteSet(ts.bits)
  BY <1>1, <1>2, FS_BoundedSetOfNaturals
<1> QED
  BY <1>3, StatesFinite DEF IsDesign, IsSystem

(* What it is to hold all obediently reachable states: a set with the      *)
(* reset state that no obedient step leaves.                               *)
ObedientClosure(ts, K) ==
  /\ ts.init \in K
  /\ \A s \in K : \A in \in ts.inputs : ts.assume[<<s, in>>] => ts.step[<<s, in>>] \in K

(* The obedient steps from S stay in K, said state by state.               *)
LEMMA ObedientMembers ==
  ASSUME NEW ts, NEW S, NEW K
  PROVE  Obedient(ts, S) \subseteq K <=>
           \A s \in S : \A in \in ts.inputs : ts.assume[<<s, in>>] => ts.step[<<s, in>>] \in K
<1> DEFINE pairs == {y \in S \X ts.inputs : ts.assume[y]}
<1>1. ASSUME Obedient(ts, S) \subseteq K, NEW s \in S, NEW in \in ts.inputs, ts.assume[<<s, in>>]
      PROVE  ts.step[<<s, in>>] \in K
  <2>1. <<s, in>> \in pairs
    BY <1>1
  <2> QED
    BY <1>1, <2>1 DEF Obedient
<1>2. ASSUME \A s \in S : \A in \in ts.inputs : ts.assume[<<s, in>>] => ts.step[<<s, in>>] \in K
      PROVE  Obedient(ts, S) \subseteq K
  <2>1. \A x \in pairs : \E s \in S, in \in ts.inputs : x = <<s, in>> /\ ts.assume[<<s, in>>]
    OBVIOUS
  <2> QED
    BY <1>2, <2>1 DEF Obedient
<1> QED
  BY <1>1, <1>2

(* The states obedient runs reach are the least obediently closed set.     *)
LEMMA ObedientlyReachableIs ==
  ASSUME NEW ts, IsSystem(ts), IsFiniteSet(ts.states)
  PROVE  /\ ObedientlyReachable(ts) \subseteq ts.states
         /\ ObedientClosure(ts, ObedientlyReachable(ts))
         /\ \A K \in SUBSET ts.states :
              ObedientClosure(ts, K) => ObedientlyReachable(ts) \subseteq K
<1> DEFINE more(S) == S \cup Obedient(ts, S)
           F == [S \in SUBSET ts.states |-> more(S)]
           IsReach(f) == f = [S \in SUBSET ts.states |-> IF more(S) = S THEN S ELSE f[more(S)]]
           reach == CHOOSE f : IsReach(f)
<1>1. \A S \in SUBSET ts.states : Obedient(ts, S) \subseteq ts.states
  <2> TAKE S \in SUBSET ts.states
  <2>1. \A s \in S : \A in \in ts.inputs : ts.step[<<s, in>>] \in ts.states
    BY DEF IsSystem
  <2> QED
    BY <2>1, ObedientMembers
<1>2. Grows(F, ts.states)
  <2>1. F \in [SUBSET ts.states -> SUBSET ts.states]
    BY <1>1
  <2>2. ASSUME NEW S \in SUBSET ts.states, NEW T \in SUBSET ts.states, S \subseteq T
        PROVE  F[S] \subseteq F[T]
    BY <2>2 DEF Obedient
  <2> QED
    BY <2>1, <2>2 DEF Grows
<1>3. \A f : IsReach(f) <=> Iterates(f, F, ts.states)
  <2> SUFFICES ASSUME NEW f PROVE IsReach(f) <=> Iterates(f, F, ts.states)
    OBVIOUS
  <2>1. \A S \in SUBSET ts.states : F[S] = more(S)
    OBVIOUS
  <2> HIDE DEF F, more
  <2> QED
    BY <2>1 DEF Iterates
<1>4. ObedientlyReachable(ts) = reach[{ts.init}]
  BY Zenon DEF ObedientlyReachable
<1> HIDE DEF F, IsReach
<1>5. Iterates(reach, F, ts.states)
  <2>1. \E f : IsReach(f)
    BY <1>2, <1>3, GrowthExists
  <2>2. IsReach(reach)
    BY <2>1
  <2> QED
    BY <1>3, <2>2
<1> HIDE DEF reach
<1>6. {ts.init} \in SUBSET ts.states
  BY DEF IsSystem
<1>7. PICK R : R = reach[{ts.init}]
  OBVIOUS
<1>8. /\ R \in SUBSET ts.states /\ {ts.init} \subseteq R /\ F[R] = R
      /\ \A K \in SUBSET ts.states : {ts.init} \subseteq K /\ F[K] = K => R \subseteq K
  BY <1>2, <1>5, <1>6, <1>7, GrowthEnds
<1>9. \A K \in SUBSET ts.states : {ts.init} \subseteq K /\ F[K] = K <=> ObedientClosure(ts, K)
  <2> TAKE K \in SUBSET ts.states
  <2>1. F[K] = K <=> Obedient(ts, K) \subseteq K
    BY DEF F
  <2> QED
    BY <2>1, ObedientMembers DEF ObedientClosure
<1> QED
  BY <1>4, <1>7, <1>8, <1>9

(* Safe, told by all states that are reached, is the same as having a      *)
(* certificate.                                                            *)
LEMMA SafeIsInductive ==
  ASSUME NEW ts, IsDesign(ts)
  PROVE  Safe(ts) <=> InductivelySafe(ts)
<1>1. IsSystem(ts) /\ IsFiniteSet(ts.states)
  BY DesignFinite DEF IsDesign
<1>2. ASSUME Safe(ts) PROVE InductivelySafe(ts)
  <2>1. PICK R : R = ObedientlyReachable(ts)
    OBVIOUS
  <2> QED
    BY <1>1, <1>2, <2>1, ObedientlyReachableIs DEF Safe, InductivelySafe, ObedientClosure
<1>3. ASSUME InductivelySafe(ts) PROVE Safe(ts)
  <2>1. PICK J \in SUBSET ts.states :
          /\ ts.init \in J
          /\ \A s \in J : \A in \in ts.inputs :
               ts.assume[<<s, in>>] => ts.step[<<s, in>>] \in J /\ ~ts.bad[<<s, in>>]
    BY <1>3 DEF InductivelySafe
  <2>2. ObedientlyReachable(ts) \subseteq J
    <3>1. ObedientClosure(ts, J)
      BY <2>1 DEF ObedientClosure
    <3> QED
      BY <1>1, <3>1, ObedientlyReachableIs
  <2> QED
    BY <2>1, <2>2 DEF Safe
<1> QED
  BY <1>2, <1>3

(* A state either has a bit or its negation.                               *)
LEMMA LatchDown ==
  ASSUME NEW bits \in SUBSET (Nat \ {0}), NEW ok \in Nat \ {0}, ok \notin bits,
         NEW s \in StatesOver(bits)
  PROVE  ok \notin s /\ ok \notin s \cup {-ok} /\ ok \in s \cup {ok}
<1>1. s \subseteq bits \cup {-b : b \in bits}
  BY StateLiterals DEF LiteralsOf
<1> QED
  BY <1>1

(* What is a certificate for the design is one with the assumption latch:  *)
(* when it is down, anything goes.                                         *)
LEMMA LatchCertified ==
  ASSUME NEW ts, IsDesign(ts), InductivelySafe(ts)
  PROVE  \E J : CertificateOf(ApplyAssumptions(ts), J)
<1>1. PICK K \in SUBSET ts.states :
        /\ ts.init \in K
        /\ \A s \in K : \A in \in ts.inputs :
             ts.assume[<<s, in>>] => ts.step[<<s, in>>] \in K /\ ~ts.bad[<<s, in>>]
  BY DEF InductivelySafe
<1>2. CASE ~Assumes(ts)
  <2>1. ApplyAssumptions(ts) = ts
    BY <1>2 DEF ApplyAssumptions
  <2>2. \A s \in K : \A in \in ts.inputs : ts.assume[<<s, in>>]
    BY <1>2 DEF Assumes
  <2>3. CertificateOf(ts, K)
    BY <1>1, <2>2 DEF CertificateOf
  <2> QED
    BY <2>1, <2>3
<1>3. CASE Assumes(ts)
  <2> DEFINE ok == Max(ts.bits) + 1
             t == ApplyAssumptions(ts)
             states == StatesOver(ts.bits \cup {ok})
             before(x) == <<x[1] \ {ok, -ok}, x[2]>>
             obeyed(x) == ok \in x[1] /\ ts.assume[before(x)]
             J == {s \in states : ok \in s => s \ {ok, -ok} \in K}
  <2>1. /\ t.states = states /\ t.inputs = ts.inputs /\ t.init = ts.init \cup {ok}
        /\ t.step = [x \in states \X ts.inputs |->
                       ts.step[before(x)] \cup {IF obeyed(x) THEN ok ELSE -ok}]
        /\ t.bad = [x \in states \X ts.inputs |-> ts.bad[before(x)] /\ obeyed(x)]
    BY <1>3 DEF ApplyAssumptions
  <2>2. IsSystem(t)
    BY AssumedSystem
  <2> HIDE DEF t
  <2>3. ok \in Nat \ {0} /\ ok \notin ts.bits /\ ts.bits \in SUBSET (Nat \ {0})
    BY LastBit DEF IsDesign, IsSystem
  <2>4. t.init \in J
    <3>1. ts.init \in StatesOver(ts.bits)
      BY DEF IsDesign, IsSystem
    <3>2. (ts.init \cup {ok}) \ {ok, -ok} = ts.init
      BY <2>3, <3>1, BitBack
    <3>3. t.init \in states
      BY <2>1, <2>2 DEF IsSystem
    <3> QED
      BY <1>1, <2>1, <3>2, <3>3
  <2>5. ASSUME NEW s \in J, NEW in \in ts.inputs
        PROVE  t.step[<<s, in>>] \in J /\ ~t.bad[<<s, in>>]
    <3>1. PICK x : x = <<s, in>>
      OBVIOUS
    <3>2. x \in states \X ts.inputs /\ s \in states
      BY <3>1
    <3>3. s \ {ok, -ok} \in StatesOver(ts.bits)
      BY <2>3, <3>2, BitDropped
    <3>4. PICK p : p = s \ {ok, -ok}
      OBVIOUS
    <3>5. before(x) = <<p, in>>
      BY <3>1, <3>4
    <3>6. obeyed(x) <=> ok \in s /\ ts.assume[<<p, in>>]
      BY <3>1, <3>5
    <3>7. ts.step[<<p, in>>] \in StatesOver(ts.bits)
      BY <3>3, <3>4 DEF IsDesign, IsSystem
    <3> HIDE DEF before, obeyed, states
    <3>8. /\ t.step[x] = ts.step[<<p, in>>] \cup {IF obeyed(x) THEN ok ELSE -ok}
          /\ t.bad[x] = (ts.bad[<<p, in>>] /\ obeyed(x))
      BY <2>1, <3>2, <3>5
    <3>9. t.step[x] \in states
      BY <2>1, <2>2, <3>2 DEF IsSystem
    <3>10. CASE obeyed(x)
      <4>1. p \in K /\ ts.assume[<<p, in>>]
        BY <3>4, <3>6, <3>10
      <4>2. ts.step[<<p, in>>] \in K /\ ~ts.bad[<<p, in>>]
        BY <1>1, <4>1
      <4>3. t.step[x] = ts.step[<<p, in>>] \cup {ok}
        BY <3>8, <3>10
      <4>4. t.step[x] \ {ok, -ok} = ts.step[<<p, in>>]
        BY <2>3, <3>7, <4>3, BitBack
      <4>5. ~t.bad[x]
        BY <3>8, <4>2
      <4> QED
        BY <3>1, <3>9, <4>2, <4>4, <4>5
    <3>11. CASE ~obeyed(x)
      <4>1. t.step[x] = ts.step[<<p, in>>] \cup {-ok}
        BY <3>8, <3>11
      <4>2. ok \notin t.step[x]
        BY <2>3, <3>7, <4>1, LatchDown
      <4>3. ~t.bad[x]
        BY <3>8, <3>11
      <4> QED
        BY <3>1, <3>9, <4>2, <4>3
    <3> QED
      BY <3>10, <3>11
  <2>6. CertificateOf(t, J)
    <3>1. J \subseteq states
      OBVIOUS
    <3> HIDE DEF J, states
    <3> QED
      BY <2>1, <2>4, <2>5, <3>1 DEF CertificateOf
  <2> QED
    BY <2>6 DEF t
<1> QED
  BY <1>2, <1>3

(* The design is safe exactly when the system the engines work on has a    *)
(* certificate.                                                            *)
LEMMA SafeIsCertified ==
  ASSUME NEW ts, IsDesign(ts)
  PROVE  Safe(ts) <=> \E J : CertificateOf(ApplyAssumptions(ts), J)
  BY SafeIsInductive, LatchCertified, LatchCertifies

(* Recursion up to a number.                                               *)
Recursion(f, k, a, G) == \A n \in 0 .. k : f[n] = IF n = 0 THEN a ELSE G[<<n, f[n - 1]>>]

(* There is a function that a recursion over 0 .. k defines.               *)
LEMMA RecursionExists ==
  ASSUME NEW a, NEW G, NEW k \in Nat
  PROVE  \E f : f = [n \in 0 .. k |-> f[n]] /\ Recursion(f, k, a, G)
<1> DEFINE T == {n \in Nat : ~\E f : f = [i \in 0 .. n |-> f[i]] /\ Recursion(f, n, a, G)}
<1>1. ASSUME T # {} PROVE FALSE
  <2>1. PICK n \in T : \A m \in T : n <= m
    BY <1>1, LeastNatural
  <2>2. n # 0
    <3>1. Recursion([i \in 0 .. 0 |-> a], 0, a, G)
      BY DEF Recursion
    <3> QED
      BY <3>1
  <2>3. PICK f : Recursion(f, n - 1, a, G)
    <3>1. n - 1 \in Nat /\ n - 1 \notin T
      BY <2>1, <2>2
    <3> QED
      BY <3>1
  <2> DEFINE g == [i \in 0 .. n |-> IF i = n THEN G[<<n, f[n - 1]>>] ELSE f[i]]
  <2>4. g = [i \in 0 .. n |-> g[i]] /\ n \in 0 .. n /\ n - 1 \in 0 .. n
    BY <2>2
  <2>5. g[n] = G[<<n, f[n - 1]>>] /\ \A i \in 0 .. n - 1 : g[i] = f[i]
    BY <2>2
  <2> HIDE DEF g
  <2>6. Recursion(g, n, a, G)
    <3> SUFFICES ASSUME NEW i \in 0 .. n PROVE g[i] = IF i = 0 THEN a ELSE G[<<i, g[i - 1]>>]
      BY DEF Recursion
    <3>1. CASE i = n
      <4>1. g[n - 1] = f[n - 1]
        BY <2>2, <2>5
      <4> QED
        BY <2>2, <2>5, <3>1, <4>1
    <3>2. CASE i # n
      <4>1. i \in 0 .. n - 1 /\ (i # 0 => i - 1 \in 0 .. n - 1)
        BY <3>2
      <4>2. f[i] = IF i = 0 THEN a ELSE G[<<i, f[i - 1]>>]
        BY <2>3, <4>1 DEF Recursion
      <4> QED
        BY <2>5, <4>1, <4>2
    <3> QED
      BY <3>1, <3>2
  <2> QED
    BY <2>1, <2>4, <2>6
<1> QED
  BY <1>1

(* Two recursions of one rule agree wherever both are defined.             *)
LEMMA RecursionAgrees ==
  ASSUME NEW a, NEW G, NEW k \in Nat, NEW l \in Nat,
         NEW f, Recursion(f, k, a, G), NEW g, Recursion(g, l, a, G),
         NEW n \in Nat, n <= k, n <= l
  PROVE  f[n] = g[n]
<1> DEFINE T == {i \in Nat : i <= n /\ f[i] # g[i]}
<1>1. ASSUME T # {} PROVE FALSE
  <2>1. PICK i \in T : \A m \in T : i <= m
    BY <1>1, LeastNatural
  <2>2. i \in 0 .. k /\ i \in 0 .. l
    BY <2>1
  <2>3. /\ f[i] = IF i = 0 THEN a ELSE G[<<i, f[i - 1]>>]
        /\ g[i] = IF i = 0 THEN a ELSE G[<<i, g[i - 1]>>]
    BY <2>2 DEF Recursion
  <2>4. i # 0 => f[i - 1] = g[i - 1]
    BY <2>1
  <2> QED
    BY <2>1, <2>3, <2>4
<1> QED
  BY <1>1

-----------------------------------------------------------------------------
(* The engines that unroll.                                                *)

(* Induction up to a number.                                               *)
LEMMA Climb ==
  ASSUME NEW k \in Nat, NEW D, 0 \in D, \A n \in Nat : n < k /\ n \in D => n + 1 \in D,
         NEW i \in 0 .. k
  PROVE  i \in D
<1> DEFINE T == {n \in Nat : n <= k /\ n \notin D}
<1>1. ASSUME T # {} PROVE FALSE
  <2>1. PICK n \in T : \A m \in T : n <= m
    BY <1>1, LeastNatural
  <2>2. n \in Nat /\ n # 0 /\ n <= k /\ n \notin D
    BY <2>1
  <2>3. n - 1 \in Nat /\ n - 1 < k /\ n - 1 \notin T /\ (n - 1) + 1 = n
    BY <2>1, <2>2
  <2> QED
    BY <2>2, <2>3
<1> QED
  BY <1>1

(* What the recursion computes stays where its steps stay.                 *)
LEMMA RecursionType ==
  ASSUME NEW k \in Nat, NEW V, NEW a \in V, NEW G \in [Nat \X V -> V], NEW f,
         Recursion(f, k, a, G), NEW i \in 0 .. k
  PROVE  f[i] \in V
<1> DEFINE D == {n \in 0 .. k : f[n] \in V}
<1>1. 0 \in D
  <2>1. 0 \in 0 .. k
    OBVIOUS
  <2>2. f[0] = a
    BY <2>1 DEF Recursion
  <2> QED
    BY <2>1, <2>2
<1>2. ASSUME NEW n \in Nat, n < k, n \in D PROVE n + 1 \in D
  <2>1. n + 1 \in 0 .. k /\ n + 1 # 0 /\ (n + 1) - 1 = n
    BY <1>2
  <2>2. f[n + 1] = G[<<n + 1, f[n]>>]
    BY <2>1 DEF Recursion
  <2>3. <<n + 1, f[n]>> \in Nat \X V
    BY <1>2
  <2> QED
    BY <2>1, <2>2, <2>3
<1> HIDE DEF D
<1>3. i \in D
  BY <1>1, <1>2, Climb
<1> QED
  BY <1>3 DEF D

(* The states after so many steps.                                         *)
LEMMA AfterFacts ==
  ASSUME NEW ts, ts.step \in [ts.states \X ts.inputs -> ts.states], NEW S \in SUBSET ts.states
  PROVE  /\ After(ts, S, 0) = S
         /\ \A k \in Nat : /\ After(ts, S, k) \in SUBSET ts.states
                           /\ After(ts, S, k + 1) = Image(ts, After(ts, S, k))
<1> DEFINE V == SUBSET ts.states
           G == [x \in Nat \X V |-> Image(ts, x[2])]
           IsSteps(f, k) ==
             f = [n \in 0 .. k |-> IF n = 0 THEN S ELSE Image(ts, f[n - 1])]
           steps(k) == CHOOSE f : IsSteps(f, k)
<1>1. \A T \in V : Image(ts, T) \in V
  BY DEF Image
<1>2. G \in [Nat \X V -> V] /\ \A n \in Nat, T \in V : G[<<n, T>>] = Image(ts, T)
  BY <1>1
<1> HIDE DEF G, V
<1>3. S \in V
  BY DEF V
<1>4. ASSUME NEW k \in Nat PROVE \E f : IsSteps(f, k)
  <2>1. PICK f : f = [n \in 0 .. k |-> f[n]] /\ Recursion(f, k, S, G)
    BY RecursionExists
  <2>2. \A n \in 0 .. k : f[n] \in V
    BY <1>2, <1>3, <2>1, RecursionType
  <2>3. \A n \in 0 .. k : f[n] = IF n = 0 THEN S ELSE Image(ts, f[n - 1])
    <3> TAKE n \in 0 .. k
    <3>1. CASE n = 0
      BY <2>1, <3>1 DEF Recursion
    <3>2. CASE n # 0
      <4>1. n - 1 \in 0 .. k /\ n \in Nat
        BY <3>2
      <4> QED
        BY <1>2, <2>1, <2>2, <3>2, <4>1 DEF Recursion
    <3> QED
      BY <3>1, <3>2
  <2> QED
    BY <2>1, <2>3
<1>5. ASSUME NEW k \in Nat, NEW f, IsSteps(f, k)
      PROVE  Recursion(f, k, S, G) /\ \A n \in 0 .. k : f[n] \in V
  <2>1. \A n \in 0 .. k : f[n] = IF n = 0 THEN S ELSE Image(ts, f[n - 1])
    BY <1>5
  <2> DEFINE D == {n \in 0 .. k : f[n] \in V}
  <2>2. 0 \in D
    BY <1>3, <2>1
  <2>3. ASSUME NEW n \in Nat, n < k, n \in D PROVE n + 1 \in D
    <3>1. n + 1 \in 0 .. k /\ n + 1 # 0 /\ (n + 1) - 1 = n
      BY <2>3
    <3> QED
      BY <1>1, <2>1, <2>3, <3>1 DEF V
  <2>4. \A n \in 0 .. k : n \in D
    <3> HIDE DEF D
    <3> QED
      BY <2>2, <2>3, Climb
  <2>5. \A n \in 0 .. k : f[n] = IF n = 0 THEN S ELSE G[<<n, f[n - 1]>>]
    <3> TAKE n \in 0 .. k
    <3>1. n # 0 => n - 1 \in 0 .. k /\ n \in Nat
      OBVIOUS
    <3> QED
      BY <1>2, <2>1, <2>4, <3>1
  <2> QED
    BY <2>4, <2>5 DEF Recursion
<1>6. \A k : After(ts, S, k) = steps(k)[k]
  BY Zenon DEF After
<1> HIDE DEF IsSteps
<1>7. \A k \in Nat : IsSteps(steps(k), k)
  BY <1>4
<1> HIDE DEF steps
<1>8. \A k \in Nat : Recursion(steps(k), k, S, G) /\ \A n \in 0 .. k : steps(k)[n] \in V
  BY <1>5, <1>7
<1>9. After(ts, S, 0) = S
  <2>1. 0 \in Nat /\ 0 \in 0 .. 0
    OBVIOUS
  <2>2. Recursion(steps(0), 0, S, G)
    BY <1>8, <2>1
  <2>3. steps(0)[0] = S
    BY <2>1, <2>2 DEF Recursion
  <2> QED
    BY <1>6, <2>3
<1>10. ASSUME NEW k \in Nat
       PROVE  /\ After(ts, S, k) \in SUBSET ts.states
              /\ After(ts, S, k + 1) = Image(ts, After(ts, S, k))
  <2>1. k + 1 \in Nat /\ k + 1 # 0 /\ (k + 1) - 1 = k /\ k \in 0 .. k + 1 /\ k + 1 \in 0 .. k + 1
        /\ k <= k /\ k <= k + 1 /\ k \in 0 .. k
    OBVIOUS
  <2>2. steps(k + 1)[k] = steps(k)[k]
    BY <1>8, <2>1, RecursionAgrees
  <2>3. steps(k + 1)[k + 1] = G[<<k + 1, steps(k + 1)[k]>>]
    BY <1>8, <2>1 DEF Recursion
  <2>4. steps(k)[k] \in V
    BY <1>8, <2>1
  <2>5. steps(k + 1)[k + 1] = Image(ts, steps(k)[k])
    BY <1>2, <2>1, <2>2, <2>3, <2>4
  <2> QED
    BY <1>6, <2>4, <2>5 DEF V
<1> QED
  BY <1>9, <1>10

(* A set that no step leaves holds what is reached from it.                *)
LEMMA AfterInside ==
  ASSUME NEW ts, ts.step \in [ts.states \X ts.inputs -> ts.states],
         NEW J \in SUBSET ts.states, NEW S \in SUBSET J,
         \A s \in J : \A in \in ts.inputs : ts.step[<<s, in>>] \in J,
         NEW k \in Nat
  PROVE  After(ts, S, k) \subseteq J
<1> DEFINE D == {n \in Nat : After(ts, S, n) \subseteq J}
<1>1. S \in SUBSET ts.states
  OBVIOUS
<1>2. 0 \in D
  BY <1>1, AfterFacts
<1>3. ASSUME NEW n \in Nat, n < k, n \in D PROVE n + 1 \in D
  <2>1. After(ts, S, n + 1) = Image(ts, After(ts, S, n))
    BY <1>1, AfterFacts
  <2>2. Image(ts, After(ts, S, n)) \subseteq J
    BY <1>3, ImageInside
  <2> QED
    BY <2>1, <2>2
<1> HIDE DEF D
<1>4. k \in D
  BY <1>2, <1>3, Climb
<1> QED
  BY <1>4 DEF D

(* bmc(): the depth it answers with, or that there is none.                *)
LEMMA LeastOf ==
  ASSUME NEW T \in SUBSET Nat, T # {}
  PROVE  Min(T) \in T /\ \A x \in T : Min(T) <= x
  BY LeastNatural DEF Min

(* The answer of bmc() is a depth at which bad is met, or says there is    *)
(* none.                                                                   *)
LEMMA BmcFacts ==
  ASSUME NEW ts, NEW k
  PROVE  /\ Bmc(ts, k) \in Int
         /\ Bmc(ts, k) >= 0 => /\ Bmc(ts, k) \in 0 .. k
                               /\ HasBad(ts, After(ts, {ts.init}, Bmc(ts, k)))
         /\ Bmc(ts, k) < 0 => \A d \in 0 .. k : ~HasBad(ts, After(ts, {ts.init}, d))
<1> DEFINE T == BadDepths(ts, k)
<1>1. \A d : d \in T <=> d \in 0 .. k /\ HasBad(ts, After(ts, {ts.init}, d))
  BY DEF BadDepths
<1>2. T \in SUBSET Nat
  BY DEF BadDepths
<1> HIDE DEF T
<1>3. Bmc(ts, k) = IF T = {} THEN -1 ELSE Min(T)
  BY DEF Bmc, T
<1>4. CASE T = {}
  BY <1>1, <1>3, <1>4
<1>5. CASE T # {}
  <2>1. Min(T) \in T /\ Min(T) \in Nat
    BY <1>2, <1>5, LeastOf
  <2> QED
    BY <1>1, <1>3, <1>5, <2>1
<1> QED
  BY <1>4, <1>5

(* A counterexample of bmc() excludes a certificate.                       *)
LEMMA BmcRefutes ==
  ASSUME NEW ts, IsSystem(ts), NEW k, Bmc(ts, k) >= 0, NEW J, CertificateOf(ts, J)
  PROVE  FALSE
<1>1. PICK d : d = Bmc(ts, k)
  OBVIOUS
<1>2. d \in Nat /\ HasBad(ts, After(ts, {ts.init}, d))
  BY <1>1, BmcFacts
<1>3. After(ts, {ts.init}, d) \subseteq J
  BY <1>2, AfterInside DEF CertificateOf, IsSystem
<1> QED
  BY <1>2, <1>3 DEF HasBad, CertificateOf

(* One step of k-induction from a set of states: what the good ones lead   *)
(* to.                                                                     *)
GoodImage(ts, S) == {ts.step[x] : x \in {y \in S \X ts.inputs : ~ts.bad[y]}}

(* The chain of the step of k-induction.                                   *)
GoodChain(C, ts, k) ==
  /\ C[0] = ts.states
  /\ \A n \in 1 .. k : C[n] = GoodImage(ts, C[n - 1])

(* A good step stays in the chain.                                         *)
LEMMA GoodMembers ==
  ASSUME NEW ts, NEW S, NEW s \in S, NEW in \in ts.inputs, ~ts.bad[<<s, in>>]
  PROVE  ts.step[<<s, in>>] \in GoodImage(ts, S)
<1>1. <<s, in>> \in {y \in S \X ts.inputs : ~ts.bad[y]}
  OBVIOUS
<1> QED
  BY <1>1 DEF GoodImage

(* A closed step has such a chain, whose end is not bad.                   *)
LEMMA ChainFacts ==
  ASSUME NEW ts, IsSystem(ts), NEW k \in Nat, StepClosed(ts, k)
  PROVE  \E C : GoodChain(C, ts, k) /\ ~HasBad(ts, C[k])
<1> DEFINE V == SUBSET ts.states
           G == [x \in Nat \X V |-> GoodImage(ts, x[2])]
           IsChain(C) == C = [n \in 0 .. k |-> IF n = 0 THEN ts.states ELSE GoodImage(ts, C[n - 1])]
           chain == CHOOSE C : IsChain(C)
<1>1. \A T \in V : GoodImage(ts, T) \in V
  BY DEF GoodImage, IsSystem
<1>2. G \in [Nat \X V -> V] /\ \A n \in Nat, T \in V : G[<<n, T>>] = GoodImage(ts, T)
  BY <1>1
<1>3. StepClosed(ts, k) = ~HasBad(ts, chain[k])
  BY Zenon DEF StepClosed, GoodImage
<1> HIDE DEF G, V
<1>4. ts.states \in V
  BY DEF V
<1>5. \E C : IsChain(C)
  <2>1. PICK f : f = [n \in 0 .. k |-> f[n]] /\ Recursion(f, k, ts.states, G)
    BY RecursionExists
  <2>2. \A n \in 0 .. k : f[n] \in V
    BY <1>2, <1>4, <2>1, RecursionType
  <2>3. \A n \in 0 .. k : f[n] = IF n = 0 THEN ts.states ELSE GoodImage(ts, f[n - 1])
    <3> TAKE n \in 0 .. k
    <3>1. CASE n = 0
      BY <2>1, <3>1 DEF Recursion
    <3>2. CASE n # 0
      <4>1. n - 1 \in 0 .. k /\ n \in Nat
        BY <3>2
      <4> QED
        BY <1>2, <2>1, <2>2, <3>2, <4>1 DEF Recursion
    <3> QED
      BY <3>1, <3>2
  <2> QED
    BY <2>1, <2>3
<1>6. IsChain(chain)
  <2> HIDE DEF IsChain
  <2> QED
    BY <1>5
<1> HIDE DEF chain
<1>7. GoodChain(chain, ts, k)
  <2>1. chain[0] = ts.states
    BY <1>6
  <2>2. ASSUME NEW n \in 1 .. k PROVE chain[n] = GoodImage(ts, chain[n - 1])
    <3>1. n \in 0 .. k /\ n # 0
      OBVIOUS
    <3> QED
      BY <1>6, <3>1
  <2> QED
    BY <2>1, <2>2 DEF GoodChain
<1> QED
  BY <1>3, <1>7

(* k-induction: when neither a run of k steps is bad before its end nor k  *)
(* good steps lead to a bad state, what is reached is a certificate.       *)
LEMMA InductionCertifies ==
  ASSUME NEW ts, IsSystem(ts), NEW k \in Nat \ {0}, StepClosed(ts, k),
         \A d \in 0 .. k - 1 : ~HasBad(ts, After(ts, {ts.init}, d))
  PROVE  \E J : CertificateOf(ts, J)
<1> DEFINE reached(d) == After(ts, {ts.init}, d)
           J == UNION {reached(d) : d \in Nat}
           T == {d \in Nat : HasBad(ts, reached(d))}
<1>1. {ts.init} \in SUBSET ts.states
  BY DEF IsSystem
<1>2. /\ reached(0) = {ts.init}
      /\ \A d \in Nat : reached(d) \in SUBSET ts.states /\ reached(d + 1) = Image(ts, reached(d))
  BY <1>1, AfterFacts DEF IsSystem
<1> HIDE DEF reached
<1>3. PICK C : GoodChain(C, ts, k) /\ ~HasBad(ts, C[k])
  BY ChainFacts
<1>4. ASSUME T # {} PROVE FALSE
  <2>1. PICK d \in T : \A m \in T : d <= m
    BY <1>4, LeastNatural
  <2>2. d \in Nat /\ d >= k /\ HasBad(ts, reached(d))
    <3>1. d \notin 0 .. k - 1
      BY <2>1 DEF reached
    <3> QED
      BY <2>1, <3>1
  <2> DEFINE D == {n \in Nat : reached(d - k + n) \subseteq C[n]}
  <2>3. 0 \in D
    <3>1. d - k + 0 \in Nat
      BY <2>2
    <3> QED
      BY <1>2, <1>3, <3>1 DEF GoodChain
  <2>4. ASSUME NEW n \in Nat, n < k, n \in D PROVE n + 1 \in D
    <3>1. PICK e \in Nat : e = d - k + n
      BY <2>2
    <3>2. e < d /\ e + 1 = d - k + (n + 1)
      BY <2>2, <2>4, <3>1
    <3>3. ~HasBad(ts, reached(e))
      BY <2>1, <2>2, <3>2
    <3>4. reached(e) \subseteq C[n]
      BY <2>4, <3>1
    <3>5. C[n + 1] = GoodImage(ts, C[n])
      <4>1. n + 1 \in 1 .. k /\ (n + 1) - 1 = n
        BY <2>4
      <4> QED
        BY <1>3, <4>1 DEF GoodChain
    <3>6. ASSUME NEW s \in reached(e), NEW in \in ts.inputs PROVE ts.step[<<s, in>>] \in C[n + 1]
      <4>1. ~ts.bad[<<s, in>>] /\ s \in C[n]
        BY <3>3, <3>4 DEF HasBad
      <4> QED
        BY <3>5, <4>1, GoodMembers
    <3>7. Image(ts, reached(e)) \subseteq C[n + 1]
      BY <3>6, ImageInside
    <3>8. reached(e + 1) \subseteq C[n + 1]
      BY <1>2, <3>7
    <3> QED
      BY <3>2, <3>8
  <2>5. k \in D
    <3> HIDE DEF D
    <3> QED
      BY <2>3, <2>4, Climb
  <2>6. reached(d) \subseteq C[k]
    <3>1. d - k + k = d
      BY <2>2
    <3> QED
      BY <2>5, <3>1
  <2> QED
    BY <1>3, <2>2, <2>6 DEF HasBad
<1>5. \A d \in Nat : ~HasBad(ts, reached(d))
  BY <1>4
<1>6. J \subseteq ts.states /\ ts.init \in J
  BY <1>2
<1>7. ASSUME NEW s \in J, NEW in \in ts.inputs
      PROVE  ts.step[<<s, in>>] \in J /\ ~ts.bad[<<s, in>>]
  <2>1. PICK d \in Nat : s \in reached(d)
    OBVIOUS
  <2>2. ~ts.bad[<<s, in>>]
    BY <1>5, <2>1 DEF HasBad
  <2>3. ts.step[<<s, in>>] \in reached(d + 1)
    <3>1. reached(d + 1) = Image(ts, reached(d))
      BY <1>2
    <3>2. Image(ts, reached(d)) \subseteq reached(d + 1)
      BY <3>1
    <3> QED
      BY <2>1, <3>2, ImageInside
  <2> QED
    BY <2>2, <2>3
<1>8. CertificateOf(ts, J)
  <2> HIDE DEF J
  <2> QED
    BY <1>6, <1>7 DEF CertificateOf
<1> QED
  BY <1>8

(* One-step induction and a clean reset state.                             *)
LEMMA OneStepCertifies ==
  ASSUME NEW ts, IsSystem(ts), NEW k \in Nat, StepClosed(ts, 1), Bmc(ts, k) < 0
  PROVE  \E J : CertificateOf(ts, J)
<1>1. \A d \in 0 .. 1 - 1 : ~HasBad(ts, After(ts, {ts.init}, d))
  <2>1. \A d \in 0 .. 1 - 1 : d \in 0 .. k
    OBVIOUS
  <2> QED
    BY <2>1, BmcFacts
<1>2. 1 \in Nat \ {0}
  OBVIOUS
<1> QED
  BY <1>1, <1>2, InductionCertifies

(* What an answer of k_induction() rests on.                               *)
LEMMA KInductionFacts ==
  ASSUME NEW ts, NEW kmax
  PROVE  /\ KInduction(ts, kmax) = "PROVED" =>
              \E k \in 1 .. kmax : Bmc(ts, k - 1) < 0 /\ StepClosed(ts, k)
         /\ KInduction(ts, kmax) = "CEX" => \E k \in 1 .. kmax : Bmc(ts, k - 1) >= 0
<1> DEFINE refuted(k) == Bmc(ts, k - 1) >= 0
           settled == {k \in 1 .. kmax : refuted(k) \/ StepClosed(ts, k)}
<1>1. KInduction(ts, kmax) = IF settled = {} THEN "STALLED"
                             ELSE IF refuted(Min(settled)) THEN "CEX" ELSE "PROVED"
  BY Zenon DEF KInduction, BaseDepth
<1>2. settled \in SUBSET Nat
  OBVIOUS
<1>3. \A k : k \in settled <=> k \in 1 .. kmax /\ (refuted(k) \/ StepClosed(ts, k))
  OBVIOUS
<1>4. \A k : Bmc(ts, k) \in Int
  BY BmcFacts
<1> HIDE DEF settled
<1>5. CASE settled = {}
  BY <1>1, <1>5
<1>6. CASE settled # {}
  <2>1. Min(settled) \in settled
    BY <1>2, <1>6, LeastOf
  <2>2. PICK k : k = Min(settled)
    OBVIOUS
  <2>3. k \in 1 .. kmax /\ (refuted(k) \/ StepClosed(ts, k))
    BY <1>3, <2>1, <2>2
  <2>4. KInduction(ts, kmax) = IF refuted(k) THEN "CEX" ELSE "PROVED"
    BY <1>1, <1>6, <2>2
  <2> QED
    BY <1>4, <2>3, <2>4
<1> QED
  BY <1>5, <1>6

(* k_induction() proves only what is safe.                                 *)
LEMMA KInductionCertifies ==
  ASSUME NEW ts, IsSystem(ts), NEW kmax \in Nat, KInduction(ts, kmax) = "PROVED"
  PROVE  \E J : CertificateOf(ts, J)
<1>1. PICK k \in 1 .. kmax : Bmc(ts, k - 1) < 0 /\ StepClosed(ts, k)
  BY KInductionFacts
<1>2. k \in Nat \ {0}
  OBVIOUS
<1>3. \A d \in 0 .. k - 1 : ~HasBad(ts, After(ts, {ts.init}, d))
  BY <1>1, BmcFacts
<1> QED
  BY <1>1, <1>2, <1>3, InductionCertifies

-----------------------------------------------------------------------------
(* What UNSAFE says.                                                       *)

(* No certificate has a state in a cube.                                   *)
Doomed(cube) == \A J : CertificateOf(sys, J) => \A s \in J : ~In(s, cube)

(* Some set of states certifies the system.                                *)
Certifiable(ts) == \E J : CertificateOf(ts, J)

(* Obligations lead to bad, and UNSAFE is answered of systems without a    *)
(* certificate.                                                            *)
Refutes ==
  /\ \A ob \in BagToSet(queue) : Doomed(ob[2])
  /\ pc = "generalize" => Doomed(blocking.cube)
  /\ found.result = "UNSAFE" => ~Certifiable(sys)

(* What a certificate of the system at hand says.                          *)
LEMMA CertificateFacts ==
  ASSUME NEW J, CertificateOf(sys, J)
  PROVE  /\ J \subseteq sys.states /\ sys.init \in J
         /\ \A s \in J : \A in \in sys.inputs :
              sys.step[<<s, in>>] \in J /\ ~sys.bad[<<s, in>>]
  BY DEF CertificateOf

(* A bad cube is outside every certificate ...                             *)
LEMMA BadCubesDoomed ==
  ASSUME NEW i, NEW cube \in BadCubes(i)
  PROVE  Doomed(cube)
<1>1. PICK s \in Frame(i), in \in sys.inputs : BadCubeOf(cube, s, in)
  BY BadCubeCubes
<1>2. \A t \in sys.states : In(t, cube) => sys.bad[<<t, in>>]
  BY <1>1 DEF BadCubeOf
<1> QED
  BY <1>2, CertificateFacts DEF Doomed

(* ... and so are the predecessors of a cube that is.                      *)
LEMMA PredecessorsDoomed ==
  ASSUME NEW i, NEW cube, Doomed(cube), NEW pred \in Predecessors(cube, i)
  PROVE  Doomed(pred)
<1>1. PICK s \in Frame(i), in \in sys.inputs : PredecessorOf(pred, cube, s, in)
  BY PredecessorCubes
<1>2. \A t \in sys.states : In(t, pred) => In(sys.step[<<t, in>>], cube)
  BY <1>1 DEF PredecessorOf
<1> SUFFICES ASSUME NEW J, CertificateOf(sys, J), NEW t \in J, In(t, pred) PROVE FALSE
  BY DEF Doomed
<1>3. t \in sys.states /\ sys.step[<<t, in>>] \in J
  BY CertificateFacts
<1> QED
  BY <1>2, <1>3 DEF Doomed

(* A system whose reset state is in such a cube has no certificate.        *)
LEMMA InitDoomed ==
  ASSUME NEW cube, Doomed(cube), MeetsInit(cube)
  PROVE  ~Certifiable(sys)
  BY CertificateFacts DEF Doomed, MeetsInit, Certifiable

(* Which cubes these are depends on the system alone.                      *)
LEMMA SameDoomed ==
  ASSUME sys' = sys
  PROVE  /\ \A cube : Doomed(cube)' <=> Doomed(cube)
         /\ Certifiable(sys)' <=> Certifiable(sys)
  BY DEF Doomed, Certifiable

(* Steps that add no obligation and do not answer UNSAFE.                  *)
LEMMA QuietRefutes ==
  ASSUME Refutes, sys' = sys,
         \A ob \in BagToSet(queue') : ob \in BagToSet(queue) \/ Doomed(ob[2]),
         pc' = "generalize" => pc = "generalize" /\ blocking'.cube = blocking.cube,
         found'.result = "UNSAFE" => found.result = "UNSAFE" \/ ~Certifiable(sys)
  PROVE  Refutes'
<1>1. \A cube : Doomed(cube)' <=> Doomed(cube)
  BY SameDoomed
<1>2. \A ob \in BagToSet(queue') : Doomed(ob[2])
  BY DEF Refutes
<1>3. (\A ob \in BagToSet(queue) : Doomed(ob[2]))'
  BY <1>1, <1>2
<1>4. pc' = "generalize" => Doomed(blocking.cube)'
  BY SameDoomed DEF Refutes, Doomed
<1>5. found'.result = "UNSAFE" => ~Certifiable(sys)'
  BY SameDoomed DEF Refutes
<1> QED
  BY <1>3, <1>4, <1>5 DEF Refutes

(* An obligation taken: its predecessor is doomed as it is.                *)
LEMMA TakeObligationRefutes ==
  ASSUME Refutes, TakeObligation
  PROVE  Refutes'
<1>1. PICK ob \in Lowest :
        \/ /\ ob[1] = 0
           /\ IF MeetsInit(ob[2])
              THEN queue' = EmptyBag /\ Return("UNSAFE", frontier, {})
              ELSE queue' = queue (-) SetToBag({ob}) /\ UNCHANGED <<pc, found>>
           /\ UNCHANGED blocking
        \/ /\ ob[1] > 0
           /\ \E pred \in Predecessors(ob[2], ob[1] - 1) :
                queue' = queue (+) SetToBag({<<ob[1] - 1, pred>>})
           /\ UNCHANGED <<pc, blocking, found>>
        \/ /\ ob[1] > 0 /\ Predecessors(ob[2], ob[1] - 1) = {}
           /\ queue' = queue (-) SetToBag({ob})
           /\ blocking' = [level |-> ob[1], cube |-> ob[2], kept |-> ob[2], untried |-> ob[2]]
           /\ pc' = "generalize"
           /\ UNCHANGED found
  BY DEF TakeObligation
<1>2. Doomed(ob[2])
  BY DEF Lowest, Refutes
<1>3. sys' = sys /\ pc = "block"
  BY DEF TakeObligation
<1>4. CASE /\ ob[1] = 0
           /\ IF MeetsInit(ob[2])
              THEN queue' = EmptyBag /\ Return("UNSAFE", frontier, {})
              ELSE queue' = queue (-) SetToBag({ob}) /\ UNCHANGED <<pc, found>>
           /\ UNCHANGED blocking
  <2>1. CASE MeetsInit(ob[2])
    <3>1. queue' = EmptyBag /\ pc' = "done" /\ found'.result = "UNSAFE"
      BY <1>4, <2>1 DEF Return
    <3>2. ~Certifiable(sys)
      BY <1>2, <2>1, InitDoomed
    <3> QED
      BY <1>3, <3>1, <3>2, BagOfNone, QuietRefutes
  <2>2. CASE ~MeetsInit(ob[2])
    <3>1. queue' = queue (-) SetToBag({ob}) /\ UNCHANGED <<pc, found>>
      BY <1>4, <2>2
    <3>2. BagToSet(queue') \subseteq BagToSet(queue)
      BY <3>1, BagLess
    <3> QED
      BY <1>3, <3>1, <3>2, QuietRefutes
  <2> QED
    BY <2>1, <2>2
<1>5. CASE /\ ob[1] > 0
           /\ \E pred \in Predecessors(ob[2], ob[1] - 1) :
                queue' = queue (+) SetToBag({<<ob[1] - 1, pred>>})
           /\ UNCHANGED <<pc, blocking, found>>
  <2>1. PICK pred \in Predecessors(ob[2], ob[1] - 1) :
               queue' = queue (+) SetToBag({<<ob[1] - 1, pred>>})
    BY <1>5
  <2>2. Doomed(pred)
    BY <1>2, PredecessorsDoomed
  <2>3. \A other \in BagToSet(queue') : other \in BagToSet(queue) \/ Doomed(other[2])
    <3>1. BagToSet(queue (+) SetToBag({<<ob[1] - 1, pred>>}))
            = BagToSet(queue) \cup {<<ob[1] - 1, pred>>}
      BY BagMore
    <3> QED
      BY <2>1, <2>2, <3>1
  <2> QED
    BY <1>3, <1>5, <2>3, QuietRefutes
<1>6. CASE /\ queue' = queue (-) SetToBag({ob})
           /\ blocking' = [level |-> ob[1], cube |-> ob[2], kept |-> ob[2], untried |-> ob[2]]
           /\ pc' = "generalize"
           /\ UNCHANGED found
  <2>1. \A other \in BagToSet(queue') : Doomed(other[2])
    BY <1>6, BagLess DEF Refutes
  <2>2. Doomed(blocking'.cube)
    BY <1>2, <1>6
  <2>3. found'.result = "UNSAFE" => ~Certifiable(sys)
    BY <1>6 DEF Refutes
  <2>4. (\A other \in BagToSet(queue) : Doomed(other[2]))'
    BY <1>3, <2>1, SameDoomed
  <2>5. Doomed(blocking.cube)'
    BY <1>3, <2>2 DEF Doomed
  <2> QED
    BY <1>3, <2>3, <2>4, <2>5, SameDoomed DEF Refutes
<1> QED
  BY <1>1, <1>4, <1>5, <1>6

(* Every step of IC3 keeps it: obligations lead to bad states, so an       *)
(* UNSAFE answer is given only of a system no set of states certifies,     *)
(* whatever the witnesses, the lifting and the order of obligations.       *)
THEOREM Ic3StepRefutes ==
  ASSUME Refutes, Ic3Step
  PROVE  Refutes'
<1>1. CASE CheckInit
  <2>1. BadAtReset => ~Certifiable(sys)
    BY CertificateFacts DEF BadAtReset, HasBad, Certifiable
  <2> QED
    BY <1>1, <2>1, QuietRefutes DEF CheckInit, Return
<1>2. CASE OutOfFrames \/ FrontierClean \/ AllBlocked \/ PushClause \/ FramePushed
  BY <1>2, QuietRefutes DEF OutOfFrames, FrontierClean, AllBlocked, PushClause, FramePushed, Return
<1>3. CASE BadFound
  <2>1. PICK cube \in BadCubes(frontier) : queue' = SetToBag({<<frontier, cube>>})
    BY <1>3 DEF BadFound
  <2>2. Doomed(cube)
    BY BadCubesDoomed
  <2>3. \A ob \in BagToSet(queue') : Doomed(ob[2])
    <3>1. BagToSet(SetToBag({<<frontier, cube>>})) = {<<frontier, cube>>}
      BY BagOfOne
    <3> QED
      BY <2>1, <2>2, <3>1
  <2> QED
    BY <1>3, <2>3, QuietRefutes DEF BadFound
<1>4. CASE TakeObligation
  BY <1>4, TakeObligationRefutes
<1>5. CASE TryLiteral
  <2>1. blocking'.cube = blocking.cube
    BY <1>5 DEF TryLiteral
  <2> QED
    BY <1>5, <2>1, QuietRefutes DEF TryLiteral
<1>6. CASE BlockCube
  <2>1. Doomed(blocking.cube)
    BY <1>6 DEF BlockCube, Refutes
  <2>2. \/ queue' = queue
        \/ queue' = queue (+) SetToBag({<<blocking.level + 1, blocking.cube>>})
    BY <1>6 DEF BlockCube
  <2>3. \A ob \in BagToSet(queue') : ob \in BagToSet(queue) \/ Doomed(ob[2])
    <3>1. BagToSet(queue (+) SetToBag({<<blocking.level + 1, blocking.cube>>}))
            = BagToSet(queue) \cup {<<blocking.level + 1, blocking.cube>>}
      BY BagMore
    <3> QED
      BY <2>1, <2>2, <3>1
  <2> QED
    BY <1>6, <2>3, QuietRefutes DEF BlockCube
<1> QED
  BY <1>1, <1>2, <1>3, <1>4, <1>5, <1>6 DEF Ic3Step

(* An input of the abstraction gives an input of the system.               *)
LEMMA GivenInput ==
  ASSUME design \in Designs, keep \subseteq target.bits, NEW in \in Localize(target, keep).inputs
  PROVE  Given(in) \in target.inputs
<1> DEFINE cut == target.bits \ keep
<1>1. Localize(target, keep).inputs = {y[1] \cup y[2] : y \in StatesOver(cut) \X target.inputs}
  BY DEF Localize
<1>2. PICK y \in StatesOver(cut) \X target.inputs : in = y[1] \cup y[2]
  BY <1>1
<1>3. PICK freed, given : freed = y[1] /\ given = y[2]
  OBVIOUS
<1>4. /\ freed \in StatesOver(cut) /\ given \in target.inputs
      /\ given \in SUBSET (Int \ LiteralsOf(target.bits))
      /\ target.bits \in SUBSET (Nat \ {0})
  BY <1>3, TargetSystem DEF IsSystem
<1>5. freed \subseteq LiteralsOf(cut)
  BY <1>4, StateLiterals
<1>6. \A l \in freed : l \in Int /\ (l \in target.bits \/ -l \in target.bits)
  BY <1>4, <1>5 DEF LiteralsOf
<1>7. \A l \in given : l \in Int /\ l \notin target.bits /\ -l \notin target.bits
  BY <1>4 DEF LiteralsOf
<1>8. Part(in, target.bits) = freed
  BY <1>2, <1>3, <1>6, <1>7 DEF Part
<1>9. in \ freed = given
  BY <1>2, <1>3, <1>6, <1>7
<1> QED
  BY <1>4, <1>8, <1>9 DEF Given, Freed

(* A counterexample of the abstraction that replays is one of the system.  *)
LEMMA ReplayRefutes ==
  ASSUME design \in Designs, keep \subseteq target.bits, sys = Localize(target, keep),
         NEW ins \in AbstractCexs, Replays(ins)
  PROVE  ~Certifiable(target)
<1> DEFINE depth == Bmc(sys, found.frames + 2)
<1>1. depth \in Nat /\ ins \in [0 .. depth -> sys.inputs] /\ DOMAIN ins = 0 .. depth
  <2>1. depth \in Int
    BY BmcFacts
  <2>2. ~(depth < 0)
    BY DEF AbstractCexs
  <2>3. ins \in [0 .. depth -> sys.inputs]
    BY <2>2 DEF AbstractCexs
  <2> QED
    BY <2>1, <2>2, <2>3
<1> HIDE DEF depth
<1>2. \A n \in 0 .. depth : Given(ins[n]) \in target.inputs
  BY <1>1, GivenInput
<1> SUFFICES ASSUME NEW J, CertificateOf(target, J) PROVE FALSE
  BY DEF Certifiable
<1>3. /\ J \subseteq target.states /\ target.init \in J
      /\ \A s \in J : \A in \in target.inputs :
           target.step[<<s, in>>] \in J /\ ~target.bad[<<s, in>>]
  BY DEF CertificateOf
<1> DEFINE IsRun(f) == f = [t \in DOMAIN ins |->
             IF t = 0 THEN target.init ELSE target.step[<<f[t - 1], Given(ins[t - 1])>>]]
           run == CHOOSE f : IsRun(f)
           G == [x \in Nat \X J |->
             IF x[1] - 1 \in DOMAIN ins THEN target.step[<<x[2], Given(ins[x[1] - 1])>>] ELSE x[2]]
<1>4. ConcreteRun(ins) = run
  BY Zenon DEF ConcreteRun
<1>5. G \in [Nat \X J -> J]
      /\ \A n \in Nat, s \in J : n - 1 \in DOMAIN ins =>
           G[<<n, s>>] = target.step[<<s, Given(ins[n - 1])>>]
  BY <1>1, <1>2, <1>3
<1> HIDE DEF G
<1>6. \E f : IsRun(f)
  <2>1. PICK f : f = [n \in 0 .. depth |-> f[n]] /\ Recursion(f, depth, target.init, G)
    BY <1>1, RecursionExists
  <2>2. \A n \in 0 .. depth : f[n] \in J
    BY <1>1, <1>3, <1>5, <2>1, RecursionType
  <2>3. \A n \in 0 .. depth :
          f[n] = IF n = 0 THEN target.init ELSE target.step[<<f[n - 1], Given(ins[n - 1])>>]
    <3> TAKE n \in 0 .. depth
    <3>1. CASE n = 0
      BY <2>1, <3>1 DEF Recursion
    <3>2. CASE n # 0
      <4>1. n - 1 \in 0 .. depth /\ n \in Nat
        BY <1>1, <3>2
      <4>2. f[n] = G[<<n, f[n - 1]>>]
        BY <2>1, <3>2 DEF Recursion
      <4>3. f[n - 1] \in J /\ n - 1 \in DOMAIN ins
        BY <1>1, <2>2, <4>1
      <4> QED
        BY <1>5, <3>2, <4>1, <4>2, <4>3
    <3> QED
      BY <3>1, <3>2
  <2> QED
    BY <1>1, <2>1, <2>3
<1>7. IsRun(run)
  <2> HIDE DEF IsRun
  <2> QED
    BY <1>6
<1> HIDE DEF run
<1>8. \A n \in 0 .. depth :
        run[n] = IF n = 0 THEN target.init ELSE target.step[<<run[n - 1], Given(ins[n - 1])>>]
  BY <1>1, <1>7
<1> DEFINE D == {n \in 0 .. depth : run[n] \in J}
<1>9. 0 \in D
  <2>1. 0 \in 0 .. depth
    BY <1>1
  <2>2. run[0] = target.init
    BY <1>8, <2>1
  <2> QED
    BY <1>3, <2>1, <2>2
<1>10. ASSUME NEW n \in Nat, n < depth, n \in D PROVE n + 1 \in D
  <2>1. n + 1 \in 0 .. depth /\ n + 1 # 0 /\ (n + 1) - 1 = n /\ n \in 0 .. depth
    BY <1>1, <1>10
  <2>2. run[n + 1] = target.step[<<run[n], Given(ins[n])>>]
    BY <1>8, <2>1
  <2> QED
    BY <1>2, <1>3, <1>10, <2>1, <2>2
<1>11. \A n \in 0 .. depth : n \in D
  <2> HIDE DEF D
  <2> QED
    BY <1>1, <1>9, <1>10, Climb
<1>12. PICK t \in DOMAIN ins : target.bad[<<run[t], Given(ins[t])>>]
  BY <1>4 DEF Replays
<1> QED
  BY <1>1, <1>2, <1>3, <1>11, <1>12

-----------------------------------------------------------------------------
(* The response property and the lasso system.                             *)

(* The same of any steps: a set with the reset state that no step leaves.  *)
StepClosure(ts, K) ==
  /\ ts.init \in K
  /\ \A s \in K : \A in \in ts.inputs : ts.step[<<s, in>>] \in K

(* The reachable states are the least set closed under steps.              *)
LEMMA ReachableIs ==
  ASSUME NEW ts, IsFiniteSet(ts.states), ts.init \in ts.states,
         ts.step \in [ts.states \X ts.inputs -> ts.states]
  PROVE  /\ Reachable(ts) \subseteq ts.states
         /\ StepClosure(ts, Reachable(ts))
         /\ \A K \in SUBSET ts.states : StepClosure(ts, K) => Reachable(ts) \subseteq K
<1> DEFINE more(S) == S \cup Image(ts, S)
           F == [S \in SUBSET ts.states |-> more(S)]
           IsReach(f) == f = [S \in SUBSET ts.states |-> IF more(S) = S THEN S ELSE f[more(S)]]
           reach == CHOOSE f : IsReach(f)
<1>1. \A S \in SUBSET ts.states : Image(ts, S) \subseteq ts.states
  <2> TAKE S \in SUBSET ts.states
  <2>1. \A s \in S : \A in \in ts.inputs : ts.step[<<s, in>>] \in ts.states
    OBVIOUS
  <2> QED
    BY <2>1, ImageInside
<1>2. Grows(F, ts.states)
  <2>1. F \in [SUBSET ts.states -> SUBSET ts.states]
    BY <1>1
  <2>2. ASSUME NEW S \in SUBSET ts.states, NEW T \in SUBSET ts.states, S \subseteq T
        PROVE  F[S] \subseteq F[T]
    BY <2>2 DEF Image
  <2> QED
    BY <2>1, <2>2 DEF Grows
<1>3. \A f : IsReach(f) <=> Iterates(f, F, ts.states)
  <2> SUFFICES ASSUME NEW f PROVE IsReach(f) <=> Iterates(f, F, ts.states)
    OBVIOUS
  <2>1. \A S \in SUBSET ts.states : F[S] = more(S)
    OBVIOUS
  <2> HIDE DEF F, more
  <2> QED
    BY <2>1 DEF Iterates
<1>4. Reachable(ts) = reach[{ts.init}]
  BY Zenon DEF Reachable
<1> HIDE DEF F, IsReach
<1>5. Iterates(reach, F, ts.states)
  <2>1. \E f : IsReach(f)
    BY <1>2, <1>3, GrowthExists
  <2>2. IsReach(reach)
    BY <2>1
  <2> QED
    BY <1>3, <2>2
<1> HIDE DEF reach
<1>6. {ts.init} \in SUBSET ts.states
  OBVIOUS
<1>7. PICK R : R = reach[{ts.init}]
  OBVIOUS
<1>8. /\ R \in SUBSET ts.states /\ {ts.init} \subseteq R /\ F[R] = R
      /\ \A K \in SUBSET ts.states : {ts.init} \subseteq K /\ F[K] = K => R \subseteq K
  BY <1>2, <1>5, <1>6, <1>7, GrowthEnds
<1>9. \A K \in SUBSET ts.states : {ts.init} \subseteq K /\ F[K] = K <=> StepClosure(ts, K)
  <2> TAKE K \in SUBSET ts.states
  <2>1. F[K] = K <=> Image(ts, K) \subseteq K
    BY DEF F
  <2> QED
    BY <2>1, ImageInside DEF StepClosure
<1> QED
  BY <1>4, <1>7, <1>8, <1>9

(* States from each of which an obedient step without b leads to another.  *)
Avoids(ts, s, in) == ts.assume[<<s, in>>] /\ ~ts.b[<<s, in>>]

(* From every state of K a run may stay in K without b.                    *)
GoesOn(ts, K) ==
  \A s \in K : \E in \in ts.inputs : Avoids(ts, s, in) /\ ts.step[<<s, in>>] \in K

(* Starving is the largest set of them.                                    *)
LEMMA StarvingIs ==
  ASSUME NEW ts, IsFiniteSet(ts.states)
  PROVE  /\ Starving(ts) \subseteq ts.states
         /\ GoesOn(ts, Starving(ts))
         /\ \A K \in SUBSET ts.states : GoesOn(ts, K) => K \subseteq Starving(ts)
<1> DEFINE U == ts.states
           less(S) == {s \in S : \E in \in ts.inputs :
                         (ts.assume[<<s, in>>] /\ ~ts.b[<<s, in>>]) /\ ts.step[<<s, in>>] \in S}
           F == [S \in SUBSET U |-> less(S)]
           IsKept(f) == f = [S \in SUBSET ts.states |-> IF less(S) = S THEN S ELSE f[less(S)]]
           kept == CHOOSE f : IsKept(f)
<1>1. Shrinks(F, U)
  BY DEF Shrinks
<1>2. \A f : IsKept(f) <=> Iterates(f, F, U)
  <2> SUFFICES ASSUME NEW f PROVE IsKept(f) <=> Iterates(f, F, U)
    OBVIOUS
  <2>1. \A S \in SUBSET U : F[S] = less(S)
    OBVIOUS
  <2> HIDE DEF F, less
  <2> QED
    BY <2>1 DEF Iterates
<1>3. Starving(ts) = kept[U]
  BY Zenon DEF Starving
<1>4. \A K \in SUBSET U : F[K] = K <=> GoesOn(ts, K)
  BY DEF GoesOn, Avoids
<1> HIDE DEF F, IsKept
<1>5. Iterates(kept, F, U)
  <2>1. \E f : IsKept(f)
    BY <1>1, <1>2, ShrinkingExists
  <2>2. IsKept(kept)
    BY <2>1
  <2> QED
    BY <1>2, <2>2
<1> HIDE DEF kept
<1>6. U \in SUBSET U
  OBVIOUS
<1>7. PICK W : W = kept[U]
  OBVIOUS
<1>8. /\ W \in SUBSET U /\ F[W] = W
      /\ \A K \in SUBSET U : K \subseteq U /\ F[K] = K => K \subseteq W
  BY <1>1, <1>5, <1>6, <1>7, ShrinkingEnds
<1> QED
  BY <1>3, <1>4, <1>7, <1>8

(* A step without b into such a state starts in one.                       *)
LEMMA StarvingBefore ==
  ASSUME NEW ts, IsSystem(ts), IsFiniteSet(ts.states), NEW s \in ts.states, NEW in \in ts.inputs,
         Avoids(ts, s, in), ts.step[<<s, in>>] \in Starving(ts)
  PROVE  s \in Starving(ts)
<1> DEFINE K == Starving(ts) \cup {s}
<1>1. K \in SUBSET ts.states
  BY StarvingIs
<1>2. GoesOn(ts, K)
  BY StarvingIs DEF GoesOn
<1> QED
  BY <1>1, <1>2, StarvingIs

-----------------------------------------------------------------------------
(* The lasso system.                                                       *)

(* The states of the lasso system.                                         *)
LassoStates(A) ==
  [design : A, pending : BOOLEAN, saved : BOOLEAN, shadow : A,
   shadowPending : BOOLEAN, triggered : BOOLEAN, ok : BOOLEAN]

(* They are finitely many.                                                 *)
LEMMA LassoFinite ==
  ASSUME NEW A, IsFiniteSet(A)
  PROVE  IsFiniteSet(LassoStates(A))
<1> DEFINE B2 == BOOLEAN \X BOOLEAN
           B3 == BOOLEAN \X B2
           A2 == A \X A
           B5 == B2 \X B3
           P == A2 \X B5
           rec(p) == [design |-> p[1][1], pending |-> p[2][1][1], saved |-> p[2][1][2],
                      shadow |-> p[1][2], shadowPending |-> p[2][2][1],
                      triggered |-> p[2][2][2][1], ok |-> p[2][2][2][2]]
           f == [p \in P |-> rec(p)]
<1>1. IsFiniteSet(BOOLEAN)
  <2>1. IsFiniteSet({TRUE})
    BY FS_Singleton
  <2>2. IsFiniteSet({TRUE} \cup {FALSE})
    BY <2>1, FS_AddElement
  <2>3. BOOLEAN = {TRUE} \cup {FALSE}
    OBVIOUS
  <2> QED
    BY <2>2, <2>3
<1>2. IsFiniteSet(B2) /\ IsFiniteSet(A2)
  BY <1>1, FS_Product
<1>3. IsFiniteSet(B3)
  <2> HIDE DEF B2
  <2> QED
    BY <1>1, <1>2, FS_Product
<1>4. IsFiniteSet(B5)
  <2> HIDE DEF B2, B3
  <2> QED
    BY <1>2, <1>3, FS_Product
<1>5. IsFiniteSet(P)
  <2> HIDE DEF A2, B5
  <2> QED
    BY <1>2, <1>4, FS_Product
<1>6. \A p \in P : rec(p) \in LassoStates(A)
  BY DEF LassoStates
<1>7. ASSUME NEW r \in LassoStates(A) PROVE \E p \in P : f[p] = r
  <2>1. PICK p : p = << <<r.design, r.shadow>>,
                       << <<r.pending, r.saved>>, <<r.shadowPending, <<r.triggered, r.ok>>>> >> >>
    OBVIOUS
  <2>2. p \in P
    BY <2>1 DEF LassoStates
  <2>3. rec(p) = [design |-> r.design, pending |-> r.pending, saved |-> r.saved,
                  shadow |-> r.shadow, shadowPending |-> r.shadowPending,
                  triggered |-> r.triggered, ok |-> r.ok]
    BY <2>1
  <2>4. rec(p) = r
    BY <2>3 DEF LassoStates
  <2> HIDE DEF P, rec
  <2> QED
    BY <2>2, <2>4
<1>8. f \in Surjection(P, LassoStates(A))
  <2> HIDE DEF P, rec
  <2>1. f \in [P -> LassoStates(A)]
    BY <1>6
  <2> HIDE DEF f
  <2> QED
    BY <1>7, <2>1 DEF Surjection
<1> HIDE DEF P, f
<1> QED
  BY <1>5, <1>8, FS_Surjection

(* A step of the lasso system, field by field.                             *)
LassoNext(ts, l, in, save, n) ==
  /\ n.design = ts.step[<<l.design, in>>]
  /\ n.pending <=> (l.pending \/ ts.a[<<l.design, in>>]) /\ ~ts.b[<<l.design, in>>]
  /\ n.saved <=> l.saved \/ save
  /\ n.shadow = IF l.saved THEN l.shadow ELSE l.design
  /\ n.shadowPending <=> IF l.saved THEN l.shadowPending ELSE l.pending
  /\ n.triggered <=> (l.saved \/ save) /\ (l.triggered \/ ~l.pending)
  /\ n.ok <=> l.ok /\ ts.assume[<<l.design, in>>]

(* Its initial state.                                                      *)
LassoStart(ts, n) ==
  /\ n.design = ts.init /\ n.ok
  /\ ~n.pending /\ ~n.saved /\ ~n.shadowPending /\ ~n.triggered

(* When it is bad.                                                         *)
LassoBad(ts, l, in) ==
  /\ l.saved /\ l.design = l.shadow /\ (l.pending <=> l.shadowPending) /\ ~l.triggered
  /\ l.ok /\ ts.assume[<<l.design, in>>]

(* The types of the fields of its states.                                  *)
LEMMA LassoFields ==
  ASSUME NEW A, NEW l \in LassoStates(A)
  PROVE  /\ l.design \in A /\ l.shadow \in A
         /\ l.pending \in BOOLEAN /\ l.saved \in BOOLEAN /\ l.shadowPending \in BOOLEAN
         /\ l.triggered \in BOOLEAN /\ l.ok \in BOOLEAN
  BY DEF LassoStates

(* What the lasso system of ts is, field by field.                         *)
LassoOf(ts, t) ==
  /\ t.states = LassoStates(ts.states)
  /\ t.inputs = ts.inputs \X BOOLEAN
  /\ t.init \in t.states /\ LassoStart(ts, t.init)
  /\ t.step \in [t.states \X t.inputs -> t.states]
  /\ \A l \in t.states, in \in ts.inputs, save \in BOOLEAN :
       /\ LassoNext(ts, l, in, save, t.step[<<l, <<in, save>> >>])
       /\ t.bad[<<l, <<in, save>> >>] <=> LassoBad(ts, l, in)

(* liveness_to_safety() builds that system.                                *)
LEMMA LassoFacts ==
  ASSUME NEW ts, IsSystem(ts), NEW t, t = LassoSystem(ts)
  PROVE  LassoOf(ts, t)
<1> DEFINE states == LassoStates(ts.states)
           inputs == ts.inputs \X BOOLEAN
           obeyed(s, in) == s.ok /\ ts.assume[<<s.design, in[1]>>]
           next(s, in) ==
             [design |-> ts.step[<<s.design, in[1]>>],
              pending |-> (s.pending \/ ts.a[<<s.design, in[1]>>]) /\ ~ts.b[<<s.design, in[1]>>],
              saved |-> s.saved \/ in[2],
              shadow |-> IF s.saved THEN s.shadow ELSE s.design,
              shadowPending |-> IF s.saved THEN s.shadowPending ELSE s.pending,
              triggered |-> (s.saved \/ in[2]) /\ (s.triggered \/ ~s.pending),
              ok |-> obeyed(s, in)]
           closed(s) == s.design = s.shadow /\ s.pending = s.shadowPending
<1>1. /\ t.states = states /\ t.inputs = inputs
      /\ t.init = [design |-> ts.init, pending |-> FALSE, saved |-> FALSE,
                   shadow |-> {-b : b \in ts.bits}, shadowPending |-> FALSE,
                   triggered |-> FALSE, ok |-> TRUE]
      /\ t.step = [x \in states \X inputs |-> next(x[1], x[2])]
      /\ t.bad = [x \in states \X inputs |->
                    x[1].saved /\ closed(x[1]) /\ ~x[1].triggered /\ obeyed(x[1], x[2])]
  BY Zenon DEF LassoSystem, LassoStates
<1>2. {-b : b \in ts.bits} \in ts.states
  <2>1. {-b : b \in ts.bits} = {} \cup {-b : b \in ts.bits \ {}}
    OBVIOUS
  <2> QED
    BY <2>1 DEF IsSystem, StatesOver
<1>3. t.init \in states
  <2>1. ts.init \in ts.states
    BY DEF IsSystem
  <2> QED
    BY <1>1, <1>2, <2>1 DEF LassoStates
<1>4. LassoStart(ts, t.init)
  BY <1>1 DEF LassoStart
<1>5. ASSUME NEW l \in states, NEW in \in ts.inputs, NEW save \in BOOLEAN
      PROVE  /\ next(l, <<in, save>>) \in states
             /\ LassoNext(ts, l, in, save, next(l, <<in, save>>))
  <2>1. ts.step[<<l.design, in>>] \in ts.states
    BY LassoFields DEF IsSystem
  <2>2. next(l, <<in, save>>) \in states
    BY <2>1, LassoFields DEF LassoStates
  <2>3. LassoNext(ts, l, in, save, next(l, <<in, save>>))
    BY LassoFields DEF LassoNext
  <2> QED
    BY <2>2, <2>3
<1> HIDE DEF next
<1>6. \A x \in states \X inputs : \E l \in states, in \in ts.inputs, save \in BOOLEAN :
        x = <<l, <<in, save>> >>
  <2> HIDE DEF states
  <2> QED
    OBVIOUS
<1>7. t.step \in [states \X inputs -> states]
  <2>1. \A x \in states \X inputs : next(x[1], x[2]) \in states
    <3> TAKE x \in states \X inputs
    <3>1. PICK l \in states, in \in ts.inputs, save \in BOOLEAN : x = <<l, <<in, save>> >>
      BY <1>6
    <3>2. x[1] = l /\ x[2] = <<in, save>>
      BY <3>1
    <3> HIDE DEF states
    <3> QED
      BY <1>5, <3>2
  <2> HIDE DEF states, inputs
  <2> QED
    BY <1>1, <2>1
<1>8. ASSUME NEW l \in states, NEW in \in ts.inputs, NEW save \in BOOLEAN
      PROVE  /\ LassoNext(ts, l, in, save, t.step[<<l, <<in, save>> >>])
             /\ t.bad[<<l, <<in, save>> >>] <=> LassoBad(ts, l, in)
  <2>1. PICK x : x = <<l, <<in, save>> >>
    OBVIOUS
  <2>2. x \in states \X inputs /\ x[1] = l /\ x[2] = <<in, save>>
    <3> HIDE DEF states
    <3> QED
      BY <2>1
  <2>3. t.step[x] = next(l, <<in, save>>)
    <3> HIDE DEF states, inputs
    <3> QED
      BY <1>1, <2>2
  <2>4. t.bad[x] = (l.saved /\ closed(l) /\ ~l.triggered /\ obeyed(l, <<in, save>>))
    <3>1. t.bad[x] = (x[1].saved /\ closed(x[1]) /\ ~x[1].triggered /\ obeyed(x[1], x[2]))
      <4> HIDE DEF states, inputs, closed, obeyed
      <4> QED
        BY <1>1, <2>2
    <3> QED
      BY <2>2, <3>1
  <2>5. t.bad[x] <=> LassoBad(ts, l, in)
    BY <2>4, LassoFields DEF LassoBad
  <2> QED
    BY <1>5, <2>1, <2>3, <2>5
<1> HIDE DEF closed, obeyed
<1>9. \A l \in states, in \in ts.inputs, save \in BOOLEAN :
        /\ LassoNext(ts, l, in, save, t.step[<<l, <<in, save>> >>])
        /\ t.bad[<<l, <<in, save>> >>] <=> LassoBad(ts, l, in)
  BY <1>8
<1>10. t.states = states /\ t.inputs = inputs
  BY <1>1
<1> QED
  BY <1>3, <1>4, <1>7, <1>9, <1>10 DEF LassoOf

(* Obedient steps without b from a state to another, through a set of      *)
(* states.                                                                 *)
Trail(ts, from, to, L) ==
  /\ L \in SUBSET ts.states /\ from \in L
  /\ \A s \in L : \E in \in ts.inputs :
       Avoids(ts, s, in) /\ (ts.step[<<s, in>>] \in L \/ ts.step[<<s, in>>] = to)

(* A design that responds never closes the loop.                           *)
LassoInv(ts, l) ==
  /\ ~l.saved => ~l.triggered
  /\ l.ok => /\ l.design \in ObedientlyReachable(ts)
             /\ l.pending => l.design \notin Starving(ts)
  /\ l.ok /\ l.saved /\ ~l.triggered =>
       /\ l.shadowPending
       /\ l.pending => \E L : Trail(ts, l.shadow, l.design, L)

(* On a design that responds, every step of the lasso system keeps it ...  *)
LEMMA LassoKeeps ==
  ASSUME NEW ts, IsSystem(ts), IsFiniteSet(ts.states), Responds(ts),
         NEW l \in LassoStates(ts.states), LassoInv(ts, l),
         NEW in \in ts.inputs, NEW save \in BOOLEAN,
         NEW n \in LassoStates(ts.states), LassoNext(ts, l, in, save, n)
  PROVE  LassoInv(ts, n)
<1>1. l.design \in ts.states /\ l.shadow \in ts.states
  BY LassoFields
<1>2. ~n.saved => ~n.triggered
  BY DEF LassoNext
<1>3. n.ok => l.ok /\ ts.assume[<<l.design, in>>]
  BY DEF LassoNext
<1>4. n.pending => ~ts.b[<<l.design, in>>] /\ (l.pending \/ ts.a[<<l.design, in>>])
  BY DEF LassoNext
<1>5. n.design = ts.step[<<l.design, in>>]
  BY DEF LassoNext
<1>6. ASSUME n.ok
      PROVE  /\ n.design \in ObedientlyReachable(ts)
             /\ n.pending => n.design \notin Starving(ts)
  <2>1. l.design \in ObedientlyReachable(ts)
    BY <1>3, <1>6 DEF LassoInv
  <2>2. n.design \in ObedientlyReachable(ts)
    BY <1>3, <1>5, <1>6, <2>1, ObedientlyReachableIs DEF ObedientClosure
  <2>3. ASSUME n.pending, l.pending PROVE n.design \notin Starving(ts)
    <3>1. l.design \notin Starving(ts)
      BY <1>3, <1>6, <2>3 DEF LassoInv
    <3>2. Avoids(ts, l.design, in)
      BY <1>3, <1>4, <1>6, <2>3 DEF Avoids
    <3> QED
      BY <1>1, <1>5, <3>1, <3>2, StarvingBefore
  <2>4. ASSUME n.pending, ~l.pending PROVE n.design \notin Starving(ts)
    BY <1>3, <1>4, <1>5, <1>6, <2>1, <2>4 DEF Responds
  <2> QED
    BY <2>2, <2>3, <2>4
<1>7. ASSUME n.ok, n.saved, ~n.triggered
      PROVE  /\ n.shadowPending
             /\ n.pending => \E L : Trail(ts, n.shadow, n.design, L)
  <2>1. l.ok /\ ts.assume[<<l.design, in>>] /\ ~l.triggered /\ l.pending
    BY <1>7 DEF LassoNext
  <2>2. CASE l.saved
    <3>1. n.shadow = l.shadow /\ (n.shadowPending <=> l.shadowPending)
      BY <2>2 DEF LassoNext
    <3>2. l.shadowPending /\ \E L : Trail(ts, l.shadow, l.design, L)
      BY <2>1, <2>2 DEF LassoInv
    <3>3. PICK L : Trail(ts, l.shadow, l.design, L)
      BY <3>2
    <3>4. ASSUME n.pending PROVE Trail(ts, n.shadow, n.design, L \cup {l.design})
      <4>1. Avoids(ts, l.design, in)
        BY <1>4, <2>1, <3>4 DEF Avoids
      <4>2. \A s \in L : \E i \in ts.inputs :
              Avoids(ts, s, i) /\ (ts.step[<<s, i>>] \in L \/ ts.step[<<s, i>>] = l.design)
        BY <3>3 DEF Trail
      <4>3. \A s \in L \cup {l.design} : \E i \in ts.inputs :
              Avoids(ts, s, i) /\ (\/ ts.step[<<s, i>>] \in L \cup {l.design}
                                   \/ ts.step[<<s, i>>] = n.design)
        BY <1>5, <4>1, <4>2
      <4>4. L \cup {l.design} \in SUBSET ts.states /\ n.shadow \in L \cup {l.design}
        BY <1>1, <3>1, <3>3 DEF Trail
      <4> QED
        BY <4>3, <4>4 DEF Trail
    <3> QED
      BY <3>1, <3>2, <3>4
  <2>3. CASE ~l.saved
    <3>1. n.shadow = l.design /\ (n.shadowPending <=> l.pending)
      BY <2>3 DEF LassoNext
    <3>2. ASSUME n.pending PROVE Trail(ts, n.shadow, n.design, {l.design})
      <4>1. Avoids(ts, l.design, in)
        BY <1>4, <2>1, <3>2 DEF Avoids
      <4> QED
        BY <1>1, <1>5, <3>1, <4>1 DEF Trail
    <3> QED
      BY <2>1, <3>1, <3>2
  <2> QED
    BY <2>2, <2>3
<1> QED
  BY <1>2, <1>6, <1>7 DEF LassoInv

(* ... and where it holds the system is not bad ...                        *)
LEMMA LassoNotBad ==
  ASSUME NEW ts, IsFiniteSet(ts.states), NEW l, LassoInv(ts, l), NEW in, LassoBad(ts, l, in)
  PROVE  FALSE
<1>1. l.pending /\ l.design \notin Starving(ts)
  BY DEF LassoInv, LassoBad
<1>2. PICK L : Trail(ts, l.shadow, l.design, L)
  BY <1>1 DEF LassoInv, LassoBad
<1>3. l.design \in L /\ GoesOn(ts, L) /\ L \in SUBSET ts.states
  BY <1>2 DEF Trail, GoesOn, LassoBad
<1> QED
  BY <1>1, <1>3, StarvingIs

(* ... so a design that responds has no lasso.                             *)
LEMMA RespondsNoLasso ==
  ASSUME NEW ts, IsSystem(ts), IsFiniteSet(ts.states), Responds(ts),
         NEW t, t = LassoSystem(ts)
  PROVE  ~HasBad(t, Reachable(t))
<1>1. /\ t.states = LassoStates(ts.states)
      /\ t.inputs = ts.inputs \X BOOLEAN
      /\ t.init \in t.states /\ LassoStart(ts, t.init)
      /\ t.step \in [t.states \X t.inputs -> t.states]
      /\ \A l \in t.states, in \in ts.inputs, save \in BOOLEAN :
           /\ LassoNext(ts, l, in, save, t.step[<<l, <<in, save>> >>])
           /\ t.bad[<<l, <<in, save>> >>] <=> LassoBad(ts, l, in)
  <2>1. LassoOf(ts, t)
    BY LassoFacts
  <2> QED
    BY <2>1 DEF LassoOf
<1>2. \A x \in t.inputs : \E in \in ts.inputs, save \in BOOLEAN : x = <<in, save>>
  BY <1>1
<1> DEFINE K == {l \in t.states : LassoInv(ts, l)}
<1>3. t.init \in K
  <2>1. LassoInv(ts, t.init)
    <3>1. ts.init \in ObedientlyReachable(ts)
      BY ObedientlyReachableIs DEF ObedientClosure
    <3> QED
      BY <1>1, <3>1 DEF LassoStart, LassoInv
  <2> QED
    BY <1>1, <2>1
<1>4. ASSUME NEW l \in K, NEW x \in t.inputs PROVE t.step[<<l, x>>] \in K /\ ~t.bad[<<l, x>>]
  <2>1. PICK in \in ts.inputs, save \in BOOLEAN : x = <<in, save>>
    BY <1>2
  <2>2. l \in t.states /\ LassoInv(ts, l)
    OBVIOUS
  <2>3. PICK n : n = t.step[<<l, x>>]
    OBVIOUS
  <2>4. n \in t.states
    BY <1>1, <2>2, <2>3
  <2>5. LassoNext(ts, l, in, save, n) /\ (t.bad[<<l, x>>] <=> LassoBad(ts, l, in))
    BY <1>1, <2>1, <2>2, <2>3
  <2>6. LassoInv(ts, n)
    BY <1>1, <2>2, <2>4, <2>5, LassoKeeps
  <2>7. ~t.bad[<<l, x>>]
    BY <2>2, <2>5, LassoNotBad
  <2> QED
    BY <2>3, <2>4, <2>6, <2>7
<1>5. Reachable(t) \subseteq K
  <2>1. StepClosure(t, K)
    BY <1>3, <1>4 DEF StepClosure
  <2>2. K \in SUBSET t.states
    OBVIOUS
  <2>3. IsFiniteSet(t.states)
    BY <1>1, LassoFinite
  <2> HIDE DEF K
  <2> QED
    BY <1>1, <2>1, <2>2, <2>3, ReachableIs
<1> QED
  BY <1>4, <1>5 DEF HasBad

(* A function on a finite set that is not empty comes back to an element:  *)
(* one whose orbit is smallest.                                            *)
Passes(nxt, d, M) == nxt[d] \in M /\ \A e \in M : nxt[e] \in M

(* Such an element exists.                                                 *)
LEMMA SomeCycle ==
  ASSUME NEW A, IsFiniteSet(A), A # {}, NEW nxt \in [A -> A]
  PROVE  \E d \in A : \A M \in SUBSET A : Passes(nxt, d, M) => d \in M
<1> DEFINE orbit(d) == {e \in A : \A M \in SUBSET A : Passes(nxt, d, M) => e \in M}
           T == {Cardinality(orbit(d)) : d \in A}
<1>1. \A d \in A : IsFiniteSet(orbit(d)) /\ Cardinality(orbit(d)) \in Nat
  <2> TAKE d \in A
  <2>1. orbit(d) \in SUBSET A
    OBVIOUS
  <2> HIDE DEF orbit
  <2>2. IsFiniteSet(orbit(d))
    BY <2>1, FS_Subset
  <2> QED
    BY <2>2, FS_CardinalityType
<1>2. \A d \in A : Passes(nxt, d, orbit(d))
  BY DEF Passes
<1>3. ASSUME NEW d \in A PROVE nxt[d] \in A /\ orbit(nxt[d]) \in SUBSET orbit(d)
  <2>1. nxt[d] \in A
    OBVIOUS
  <2>2. ASSUME NEW M \in SUBSET A, Passes(nxt, d, M) PROVE Passes(nxt, nxt[d], M)
    BY <2>2 DEF Passes
  <2> QED
    BY <2>1, <2>2
<1>4. \A d \in A : nxt[d] \in orbit(d)
  BY DEF Passes
<1>5. \A d \in A : (d \in orbit(d)) => \A M \in SUBSET A : Passes(nxt, d, M) => d \in M
  OBVIOUS
<1> HIDE DEF orbit
<1>6. PICK d \in A : \A e \in A : Cardinality(orbit(d)) <= Cardinality(orbit(e))
  <2>1. T \in SUBSET Nat /\ T # {}
    BY <1>1
  <2>2. PICK n \in T : \A m \in T : n <= m
    BY <2>1, LeastNatural
  <2> QED
    BY <2>2
<1>7. orbit(nxt[d]) = orbit(d)
  <2>1. Cardinality(orbit(nxt[d])) <= Cardinality(orbit(d))
    BY <1>1, <1>3, FS_Subset
  <2>2. Cardinality(orbit(nxt[d])) = Cardinality(orbit(d))
    BY <1>1, <1>3, <1>6, <2>1
  <2> QED
    BY <1>1, <1>3, <2>2, FS_Subset
<1>8. nxt[d] \in orbit(nxt[d])
  BY <1>4, <1>7
<1> QED
  BY <1>3, <1>5, <1>8

(* No copy is taken yet, in a run that has been obedient.                  *)
Unsaved(l, d) == l.design = d /\ ~l.saved /\ ~l.triggered /\ l.ok

(* The copy of d is taken and its obligation stays unmet.                  *)
Looping(l, d, e) ==
  l.design = e /\ l.saved /\ l.shadow = d /\ l.shadowPending /\ ~l.triggered /\ l.ok /\ l.pending

(* A design that does not respond has a lasso that the system meets.       *)
LEMMA LassoFound ==
  ASSUME NEW ts, IsSystem(ts), IsFiniteSet(ts.states), ~Responds(ts),
         NEW t, t = LassoSystem(ts)
  PROVE  HasBad(t, Reachable(t))
<1>1. /\ t.states = LassoStates(ts.states)
      /\ t.inputs = ts.inputs \X BOOLEAN
      /\ t.init \in t.states /\ LassoStart(ts, t.init)
      /\ t.step \in [t.states \X t.inputs -> t.states]
      /\ \A l \in t.states, in \in ts.inputs, save \in BOOLEAN :
           /\ LassoNext(ts, l, in, save, t.step[<<l, <<in, save>> >>])
           /\ t.bad[<<l, <<in, save>> >>] <=> LassoBad(ts, l, in)
  <2>1. LassoOf(ts, t)
    BY LassoFacts
  <2> QED
    BY <2>1 DEF LassoOf
<1>2. PICK R : R = Reachable(t)
  OBVIOUS
<1>3. R \subseteq t.states /\ StepClosure(t, R)
  <2>1. IsFiniteSet(t.states)
    BY <1>1, LassoFinite
  <2> QED
    BY <1>1, <1>2, <2>1, ReachableIs
<1>4. ASSUME NEW l \in R, NEW in \in ts.inputs, NEW save \in BOOLEAN
      PROVE  \E n \in R : LassoNext(ts, l, in, save, n)
  <2>1. <<in, save>> \in t.inputs
    BY <1>1
  <2>2. t.step[<<l, <<in, save>> >>] \in R
    BY <1>3, <2>1 DEF StepClosure
  <2> QED
    BY <1>1, <1>3, <2>2
<1>5. \A l \in R : /\ l.pending \in BOOLEAN /\ l.saved \in BOOLEAN /\ l.triggered \in BOOLEAN
                   /\ l.ok \in BOOLEAN /\ l.design \in ts.states
  BY <1>1, <1>3, LassoFields
<1>6. \A d \in ObedientlyReachable(ts) : \E l \in R : Unsaved(l, d)
  <2> DEFINE K == {d \in ts.states : \E l \in R : Unsaved(l, d)}
  <2>1. ts.init \in K
    <3>1. t.init \in R
      BY <1>3 DEF StepClosure
    <3> QED
      BY <1>1, <3>1 DEF LassoStart, Unsaved, IsSystem
  <2>2. ASSUME NEW s \in K, NEW in \in ts.inputs, ts.assume[<<s, in>>]
        PROVE  ts.step[<<s, in>>] \in K
    <3>1. PICK l \in R : Unsaved(l, s)
      OBVIOUS
    <3>2. PICK n \in R : LassoNext(ts, l, in, FALSE, n)
      BY <1>4
    <3>3. Unsaved(n, ts.step[<<s, in>>])
      BY <2>2, <3>1, <3>2 DEF Unsaved, LassoNext
    <3>4. ts.step[<<s, in>>] \in ts.states
      BY DEF IsSystem
    <3> QED
      BY <3>2, <3>3, <3>4
  <2>3. ObedientClosure(ts, K)
    BY <2>1, <2>2 DEF ObedientClosure
  <2>4. ObedientlyReachable(ts) \subseteq K
    <3>1. K \in SUBSET ts.states
      OBVIOUS
    <3> HIDE DEF K
    <3> QED
      BY <2>3, <3>1, ObedientlyReachableIs
  <2> QED
    BY <2>4
<1> DEFINE A == {d \in Starving(ts) : \E l \in R : Unsaved(l, d) /\ l.pending}
<1>7. A # {}
  <2>1. PICK s \in ObedientlyReachable(ts), in \in ts.inputs :
          /\ ts.assume[<<s, in>>] /\ ts.a[<<s, in>>] /\ ~ts.b[<<s, in>>]
          /\ ts.step[<<s, in>>] \in Starving(ts)
    BY DEF Responds
  <2>2. PICK l \in R : Unsaved(l, s)
    BY <1>6
  <2>3. PICK n \in R : LassoNext(ts, l, in, FALSE, n)
    BY <1>4
  <2>4. Unsaved(n, ts.step[<<s, in>>]) /\ n.pending
    BY <2>1, <2>2, <2>3 DEF Unsaved, LassoNext
  <2> QED
    BY <2>1, <2>3, <2>4
<1>8. ASSUME NEW d \in A
      PROVE  \E e \in A : \E in \in ts.inputs : Avoids(ts, d, in) /\ e = ts.step[<<d, in>>]
  <2>1. PICK in \in ts.inputs : Avoids(ts, d, in) /\ ts.step[<<d, in>>] \in Starving(ts)
    BY StarvingIs DEF GoesOn
  <2>2. PICK l \in R : Unsaved(l, d) /\ l.pending
    OBVIOUS
  <2>3. PICK n \in R : LassoNext(ts, l, in, FALSE, n)
    BY <1>4
  <2>4. Unsaved(n, ts.step[<<d, in>>]) /\ n.pending
    BY <2>1, <2>2, <2>3 DEF Unsaved, LassoNext, Avoids
  <2> QED
    BY <2>1, <2>3, <2>4
<1>9. \A d \in A : \E l \in R : Unsaved(l, d) /\ l.pending
  OBVIOUS
<1>10. IsFiniteSet(A)
  <2>1. A \in SUBSET ts.states
    BY StarvingIs
  <2> QED
    BY <2>1, FS_Subset
<1> HIDE DEF A
<1> DEFINE follows(d, e) == \E in \in ts.inputs : Avoids(ts, d, in) /\ e = ts.step[<<d, in>>]
           nxt == [d \in A |-> CHOOSE e \in A : follows(d, e)]
<1>11. nxt \in [A -> A] /\ \A d \in A : follows(d, nxt[d])
  <2>1. \A d \in A : \E e \in A : follows(d, e)
    BY <1>8
  <2> HIDE DEF follows
  <2> QED
    BY <2>1
<1> HIDE DEF nxt
<1>12. PICK d \in A : \A M \in SUBSET A : Passes(nxt, d, M) => d \in M
  BY <1>7, <1>10, <1>11, SomeCycle
<1> DEFINE M == {e \in A : \E l \in R : Looping(l, d, e)}
<1>13. nxt[d] \in M
  <2>1. PICK l \in R : Unsaved(l, d) /\ l.pending
    BY <1>9
  <2>2. PICK in \in ts.inputs : Avoids(ts, d, in) /\ nxt[d] = ts.step[<<d, in>>]
    BY <1>11
  <2>3. PICK n \in R : LassoNext(ts, l, in, TRUE, n)
    BY <1>4
  <2>4. Looping(n, d, nxt[d])
    BY <2>1, <2>2, <2>3 DEF Unsaved, Looping, LassoNext, Avoids
  <2>5. nxt[d] \in A
    BY <1>11
  <2> QED
    BY <2>3, <2>4, <2>5
<1>14. ASSUME NEW e \in M PROVE nxt[e] \in M
  <2>1. PICK l \in R : Looping(l, d, e)
    OBVIOUS
  <2>2. PICK in \in ts.inputs : Avoids(ts, e, in) /\ nxt[e] = ts.step[<<e, in>>]
    BY <1>11
  <2>3. PICK n \in R : LassoNext(ts, l, in, FALSE, n)
    BY <1>4
  <2>4. Looping(n, d, nxt[e])
    BY <2>1, <2>2, <2>3 DEF Looping, LassoNext, Avoids
  <2>5. nxt[e] \in A
    BY <1>11
  <2> QED
    BY <2>3, <2>4, <2>5
<1>15. d \in M
  <2>1. Passes(nxt, d, M) /\ M \in SUBSET A
    BY <1>13, <1>14 DEF Passes
  <2> HIDE DEF M
  <2> QED
    BY <1>12, <2>1
<1>16. PICK l \in R : Looping(l, d, d)
  BY <1>15
<1>17. PICK in \in ts.inputs : Avoids(ts, d, in)
  BY <1>11
<1>18. LassoBad(ts, l, in)
  BY <1>5, <1>16, <1>17 DEF LassoBad, Looping, Avoids
<1>19. t.bad[<<l, <<in, FALSE>> >>] /\ <<in, FALSE>> \in t.inputs
  BY <1>1, <1>3, <1>18
<1> QED
  BY <1>2, <1>19 DEF HasBad

(* The lasso system is bad exactly when the design does not respond.       *)
LEMMA LassoIsRight ==
  ASSUME NEW ts, IsDesign(ts)
  PROVE  HasBad(LassoSystem(ts), Reachable(LassoSystem(ts))) <=> ~Responds(ts)
<1>1. IsSystem(ts) /\ IsFiniteSet(ts.states)
  BY DesignFinite DEF IsDesign
<1> QED
  BY <1>1, RespondsNoLasso, LassoFound

(* A lasso bmc() finds is reachable, so the design does not respond.       *)
LEMMA LassoMet ==
  ASSUME NEW ts, IsDesign(ts), NEW t, t = LassoSystem(ts), NEW k, Bmc(t, k) >= 0
  PROVE  ~Responds(ts)
<1>1. IsSystem(ts) /\ IsFiniteSet(ts.states)
  BY DesignFinite DEF IsDesign
<1>2. /\ t.states = LassoStates(ts.states) /\ t.init \in t.states
      /\ t.step \in [t.states \X t.inputs -> t.states]
  BY <1>1, LassoFacts DEF LassoOf
<1>3. PICK R : R = Reachable(t)
  OBVIOUS
<1>4. R \subseteq t.states /\ StepClosure(t, R)
  <2>1. IsFiniteSet(t.states)
    BY <1>1, <1>2, LassoFinite
  <2> QED
    BY <1>2, <1>3, <2>1, ReachableIs
<1>5. PICK d : d = Bmc(t, k)
  OBVIOUS
<1>6. d \in Nat /\ HasBad(t, After(t, {t.init}, d))
  BY <1>5, BmcFacts
<1>7. After(t, {t.init}, d) \subseteq R
  BY <1>2, <1>4, <1>6, AfterInside DEF StepClosure
<1>8. HasBad(t, R)
  BY <1>6, <1>7 DEF HasBad
<1> QED
  BY <1>3, <1>8, LassoIsRight

-----------------------------------------------------------------------------
(* The verdicts.                                                           *)

(* A cover is a design of its own.                                         *)
LEMMA CoverDesign ==
  ASSUME NEW ts, IsDesign(ts)
  PROVE  IsDesign(Covering(ts))
<1>1. PICK cv : cv = Covering(ts)
  OBVIOUS
<1>2. {"bits", "states", "inputs", "init", "step", "bad", "assume"} \subseteq DOMAIN ts
  BY DEF IsDesign
<1>3. /\ DOMAIN cv = DOMAIN ts
      /\ cv.bits = ts.bits /\ cv.states = ts.states /\ cv.inputs = ts.inputs
      /\ cv.init = ts.init /\ cv.step = ts.step
  BY <1>1, <1>2 DEF Covering
<1>4. IsDesign(cv)
  BY <1>3 DEF IsDesign, IsSystem
<1> QED
  BY <1>1, <1>4

(* Systems as the program makes them of a design.                          *)
LEMMA AssumedIsSystem ==
  ASSUME NEW ts, IsDesign(ts)
  PROVE  IsSystem(ApplyAssumptions(ts))
  BY AssumedSystem

(* What the engines that unroll say, told of the design.                   *)
LEMMA UnrollingsTrue ==
  ASSUME NEW ts, IsDesign(ts), NEW t, t = ApplyAssumptions(ts),
         NEW k \in Nat, NEW kmax \in Nat
  PROVE  /\ StepClosed(t, 1) /\ ~(Bmc(t, k) >= 0) => Safe(ts)
         /\ Bmc(t, k) >= 0 => ~Safe(ts)
         /\ KInduction(t, kmax) = "PROVED" => Safe(ts)
         /\ KInduction(t, kmax) = "CEX" => ~Safe(ts)
<1>1. IsSystem(t)
  BY AssumedIsSystem
<1>2. Safe(ts) <=> \E J : CertificateOf(t, J)
  BY SafeIsCertified
<1>3. ASSUME StepClosed(t, 1), ~(Bmc(t, k) >= 0) PROVE Safe(ts)
  <2>1. Bmc(t, k) \in Int
    BY BmcFacts
  <2>2. Bmc(t, k) < 0
    BY <1>3, <2>1
  <2> QED
    BY <1>1, <1>2, <1>3, <2>2, OneStepCertifies
<1>4. ASSUME NEW d, Bmc(t, d) >= 0 PROVE ~Safe(ts)
  BY <1>1, <1>2, <1>4, BmcRefutes
<1>5. ASSUME KInduction(t, kmax) = "PROVED" PROVE Safe(ts)
  BY <1>1, <1>2, <1>5, KInductionCertifies
<1>6. ASSUME KInduction(t, kmax) = "CEX" PROVE ~Safe(ts)
  BY <1>4, <1>6, KInductionFacts
<1> QED
  BY <1>3, <1>4, <1>5, <1>6

(* The invariant of the verdicts.                                          *)
VerdictInv == Inv /\ Refutes /\ EnginesTrue

(* Steps that leave IC3 alone.                                             *)
LEMMA UntouchedRefutes ==
  ASSUME Refutes, UNCHANGED ic3Vars
  PROVE  Refutes'
  BY QuietRefutes DEF ic3Vars

(* A call of IC3 begins without obligations.                               *)
LEMMA FreshRefutes ==
  ASSUME queue = EmptyBag, pc = "start", found = NotFound
  PROVE  Refutes
  BY BagOfNone DEF Refutes, NotFound

(* It holds at first ...                                                   *)
LEMMA VerdictInvInit == Init => VerdictInv
<1> SUFFICES ASSUME Init PROVE VerdictInv
  OBVIOUS
<1>1. Refutes
  BY FreshRefutes DEF Init, Begin
<1>2. EnginesTrue
  BY DEF Init, EnginesTrue, Engines
<1> QED
  BY <1>1, <1>2, InvInit DEF VerdictInv

(* UNSAFE of IC3 on the design under its assumptions.                      *)
LEMMA UnsafeOfDesign ==
  ASSUME Inv, Refutes, stage = "ic3", found.result = "UNSAFE"
  PROVE  ~Safe(design)
<1>1. IsDesign(design) /\ sys = ApplyAssumptions(design)
  BY DesignsAssumption DEF Inv, target
<1> QED
  BY <1>1, SafeIsCertified DEF Refutes, Certifiable

(* UNSAFE of cegar(), by a counterexample that replays.                    *)
LEMMA ReplayOfDesign ==
  ASSUME Inv, stage = "check", NEW ins \in AbstractCexs, Replays(ins)
  PROVE  ~Safe(design)
<1>1. IsDesign(design)
  BY DesignsAssumption DEF Inv
<1>2. ~Certifiable(target)
  BY ReplayRefutes DEF Inv
<1> QED
  BY <1>1, <1>2, SafeIsCertified DEF Certifiable, target

(* SAFE is true of the design, by the invariant.                           *)
LEMMA SafeVerdictsTrue ==
  ASSUME Inv
  PROVE  verdict["ic3"] = "SAFE" \/ verdict["cegar"] = "SAFE" => Safe(design)
<1>1. IsDesign(design)
  BY DesignsAssumption DEF Inv
<1> QED
  BY <1>1, SafeIsInductive DEF Inv

(* ... and every step of the program keeps it.                             *)
LEMMA VerdictInvNext == VerdictInv /\ [Next]_vars => VerdictInv'
<1> SUFFICES ASSUME VerdictInv, [Next]_vars PROVE VerdictInv'
  OBVIOUS
<1>1. Inv /\ Refutes /\ EnginesTrue
  BY DEF VerdictInv
<1>2. Inv'
  BY <1>1, InvNext
<1>3. (verdict["ic3"] = "SAFE" \/ verdict["cegar"] = "SAFE" => Safe(design))'
  BY <1>2, SafeVerdictsTrue, PTL
<1>4. IsDesign(design) /\ DOMAIN verdict = Engines
  BY <1>1, DesignsAssumption DEF Inv
<1>5. CASE RunIc3
  <2>1. Refutes'
    BY <1>1, <1>5, Ic3StepRefutes DEF RunIc3
  <2>2. EnginesTrue'
    BY <1>1, <1>5 DEF RunIc3, EnginesTrue
  <2> QED
    BY <1>2, <2>1, <2>2 DEF VerdictInv
<1>6. CASE Abstract
  <2>1. (queue = EmptyBag /\ pc = "start" /\ found = NotFound)'
    BY <1>6 DEF Abstract, Start, Begin
  <2>2. Refutes'
    BY <2>1, FreshRefutes, PTL
  <2>3. EnginesTrue'
    BY <1>1, <1>6 DEF Abstract, EnginesTrue
  <2> QED
    BY <1>2, <2>2, <2>3 DEF VerdictInv
<1>7. CASE ReplayOrRefine
  <2>1. Refutes'
    BY <1>1, <1>7, UntouchedRefutes DEF ReplayOrRefine
  <2>2. PICK ins \in AbstractCexs :
          \/ Replays(ins) /\ verdict' = [verdict EXCEPT !["cegar"] = "UNSAFE"]
          \/ verdict' = verdict
    BY <1>7 DEF ReplayOrRefine, Conclude
  <2>3. design' = design /\ stage = "check"
    BY <1>7 DEF ReplayOrRefine
  <2>4. Replays(ins) => ~Safe(design)
    BY <1>1, <2>3, ReplayOfDesign
  <2>5. EnginesTrue'
    BY <1>1, <1>4, <2>2, <2>3, <2>4 DEF EnginesTrue, Engines
  <2> QED
    BY <1>2, <2>1, <2>5 DEF VerdictInv
<1>8. CASE Unroll
  <2>1. Refutes' /\ design' = design
    BY <1>1, <1>8, UntouchedRefutes DEF Unroll
  <2>2. PICK t : t = target
    OBVIOUS
  <2>3. /\ StepClosed(t, 1) /\ ~(Bmc(t, KMaxBmc) >= 0) => Safe(design)
        /\ Bmc(t, KMaxBmc) >= 0 => ~Safe(design)
        /\ KInduction(t, KMaxInd) = "PROVED" => Safe(design)
        /\ KInduction(t, KMaxInd) = "CEX" => ~Safe(design)
    BY <1>4, <2>2, UnrollingsTrue, DepthAssumption DEF target
  <2>4. Bmc(ApplyAssumptions(Covering(design)), KMaxBmc) >= 0 => ~Safe(Covering(design))
    BY <1>4, CoverDesign, UnrollingsTrue, DepthAssumption
  <2>5. /\ verdict'["cdcl"] = (IF StepClosed(t, 1) THEN "UNSAT" ELSE "SAT")
        /\ verdict'["bmc"] = (IF Bmc(t, KMaxBmc) >= 0 THEN "CEX" ELSE "SAFE-UP-TO")
        /\ verdict'["kind"] = KInduction(t, KMaxInd)
        /\ verdict'["cover"] = (IF Bmc(ApplyAssumptions(Covering(design)), KMaxBmc) >= 0
                                THEN "COVERED" ELSE "NOT reached")
        /\ \A e \in {"ic3", "cegar", "lasso", "live"} : verdict'[e] = verdict[e]
    BY <1>4, <1>8, <2>2 DEF Unroll, Engines
  <2>6. EnginesTrue'
    BY <1>1, <2>1, <2>3, <2>4, <2>5 DEF EnginesTrue
  <2> QED
    BY <1>2, <2>1, <2>6 DEF VerdictInv
<1>9. CASE Ic3Verdict
  <2>1. Refutes' /\ design' = design /\ stage = "ic3"
    BY <1>1, <1>9, UntouchedRefutes DEF Ic3Verdict
  <2>2. /\ verdict'["ic3"] = found.result
        /\ \A e \in Engines \ {"ic3"} : verdict'[e] = verdict[e]
    BY <1>4, <1>9 DEF Ic3Verdict, Engines
  <2>3. found.result = "UNSAFE" => ~Safe(design)
    BY <1>1, <2>1, UnsafeOfDesign
  <2>4. EnginesTrue'
    BY <1>1, <1>3, <2>1, <2>2, <2>3 DEF EnginesTrue, Engines
  <2> QED
    BY <1>2, <2>1, <2>4 DEF VerdictInv
<1>10. CASE ProveResponse
  <2>1. Refutes' /\ design' = design
    BY <1>1, <1>10, UntouchedRefutes DEF ProveResponse
  <2>2. PICK lasso : lasso = LassoSystem(design)
    OBVIOUS
  <2>3. PICK result \in Ic3Answers(lasso) :
          verdict' = [verdict EXCEPT
            !["lasso"] = IF Bmc(lasso, KMaxBmc) >= 0 THEN "CEX" ELSE "SAFE-UP-TO",
            !["live"] = IF ~(Bmc(lasso, KMaxBmc) >= 0) /\ result = "SAFE"
                        THEN "HOLDS" ELSE "FAILS"]
    BY <1>10, <2>2 DEF ProveResponse
  <2>4. /\ verdict'["lasso"] = "CEX" => Bmc(lasso, KMaxBmc) >= 0
        /\ verdict'["live"] = "HOLDS" => result = "SAFE"
        /\ \A e \in Engines \ {"lasso", "live"} : verdict'[e] = verdict[e]
    BY <1>4, <2>3 DEF Engines
  <2>5. result = "SAFE" => Responds(design)
    BY <1>4, <2>2, <2>3, LassoIsRight DEF Ic3Answers
  <2>6. verdict'["lasso"] = "CEX" => ~Responds(design)
    BY <1>4, <2>2, <2>4, LassoMet
  <2>7. EnginesTrue'
    BY <1>1, <2>1, <2>4, <2>5, <2>6 DEF EnginesTrue, Engines
  <2> QED
    BY <1>2, <2>1, <2>7 DEF VerdictInv
<1>11. CASE Proved \/ GiveUp
  <2>1. Refutes' /\ design' = design
    BY <1>1, <1>11, UntouchedRefutes DEF Proved, GiveUp
  <2>2. /\ verdict'["cegar"] \in {"SAFE", "UNKNOWN"}
        /\ \A e \in Engines \ {"cegar"} : verdict'[e] = verdict[e]
    BY <1>4, <1>11 DEF Proved, GiveUp, Conclude, Engines
  <2>3. EnginesTrue'
    BY <1>1, <1>3, <2>1, <2>2 DEF EnginesTrue, Engines
  <2> QED
    BY <1>2, <2>1, <2>3 DEF VerdictInv
<1>12. CASE Interpolate
  <2>1. Refutes' /\ design' = design
    BY <1>1, <1>12, UntouchedRefutes DEF Interpolate
  <2>2. \A e \in Engines \ {"interp"} : verdict'[e] = verdict[e]
    BY <1>4, <1>12 DEF Interpolate, Engines
  <2>3. EnginesTrue'
    BY <1>1, <2>1, <2>2 DEF EnginesTrue, Engines
  <2> QED
    BY <1>2, <2>1, <2>3 DEF VerdictInv
<1>13. CASE UNCHANGED vars
  <2>1. Refutes' /\ EnginesTrue'
    BY <1>1, <1>13, UntouchedRefutes DEF vars, EnginesTrue
  <2> QED
    BY <1>2, <2>1 DEF VerdictInv
<1> QED
  BY <1>5, <1>6, <1>7, <1>8, <1>9, <1>10, <1>11, <1>12, <1>13 DEF Next, Work, Settled

(* Every verdict of one-step induction with bmc(), of bmc(),               *)
(* k_induction(), IC3, the cover and cegar() is true of the design, and of *)
(* the response property HOLDS and the lasso bmc() finds are (FAILS need   *)
(* not be), for all designs, depths, limits on frames and choices of the   *)
(* engines.                                                                *)
THEOREM EnginesAlwaysTrue == Spec => []EnginesTrue
<1>1. VerdictInv => EnginesTrue
  BY DEF VerdictInv
<1> QED
  BY VerdictInvInit, VerdictInvNext, <1>1, PTL DEF Spec
===============================================================================
