-------------------------- MODULE FairStates_proofs --------------------------
(* Proofs about the Emerson-Lei fixpoint: type correctness, and that what  *)
(* the cache holds is the greatest self-fair set of pairs, in whichever    *)
(* direction and under whichever option it was computed.  Then, for any    *)
(* finitely many states and inputs, that self-fair sets are about paths to *)
(* fair loops, and that every command answers what those paths say.        *)
EXTENDS FairStates, Fsm_proofs

ReachablePairs(f) == Reachable(f) \X Inputs

(***************************************************************************)
(* Images.                                                                 *)
(***************************************************************************)

(* An image of pairs consists of pairs.                                    *)
LEMMA EXType ==
  ASSUME NEW f \in FsmType, NEW d \in Directions, NEW r \in BOOLEAN,
         NEW SI \in SUBSET Pairs
  PROVE  /\ StatesOf(SI) \in SUBSET States
         /\ Within(f, r, SI) \in SUBSET Pairs
         /\ EXorEY(f, d, r, SI) \in SUBSET Pairs
         /\ Space(f, d, r) \in SUBSET Pairs
<1>1. ASSUME NEW T \in SUBSET Pairs
      PROVE  Within(f, r, T) \in SUBSET Pairs
  BY <1>1 DEF Within
<1>2. StatesOf(SI) \in SUBSET States
  BY DEF StatesOf, Pairs
<1>3. f.invarStates \in SUBSET States /\ f.invarInputs \in SUBSET Inputs
  BY DEF FsmType
<1>4. /\ \A S : WeakBackwardImage(f, S) \in SUBSET Pairs
      /\ \A T : ForwardImageStatesInputs(f, T) \in SUBSET Pairs
  BY <1>3 DEF WeakBackwardImage, ForwardImageStatesInputs, Pairs
<1>5. Pairs \in SUBSET Pairs
  OBVIOUS
<1>6. StatesInputsConstraints(f, d, r) \in SUBSET Pairs
  BY <1>1, <1>4, <1>5 DEF StatesInputsConstraints
<1> QED
  BY <1>1, <1>2, <1>4, <1>6 DEF EXorEY, Space

(* The image of a union is the union of the images: imaging a frontier     *)
(* loses nothing.                                                          *)
LEMMA EXAdditive ==
  ASSUME NEW f, NEW d, NEW r, NEW A, NEW B
  PROVE  EXorEY(f, d, r, A \cup B) = EXorEY(f, d, r, A) \cup EXorEY(f, d, r, B)
<1>1. StatesOf(A \cup B) = StatesOf(A) \cup StatesOf(B)
  BY DEF StatesOf
<1>2. ASSUME NEW S, NEW T
      PROVE  WeakBackwardImage(f, S \cup T)
               = WeakBackwardImage(f, S) \cup WeakBackwardImage(f, T)
  BY DEF WeakBackwardImage
<1>3. ForwardImageStatesInputs(f, A \cup B)
        = ForwardImageStatesInputs(f, A) \cup ForwardImageStatesInputs(f, B)
  BY DEF ForwardImageStatesInputs
<1>4. ASSUME NEW S, NEW T
      PROVE  Within(f, r, S \cup T) = Within(f, r, S) \cup Within(f, r, T)
  BY DEF Within
<1>5. CASE d = "bwd"
  <2>1. \A SI : EXorEY(f, d, r, SI) = Within(f, r, WeakBackwardImage(f, StatesOf(SI)))
    BY <1>5 DEF EXorEY
  <2>2. WeakBackwardImage(f, StatesOf(A \cup B))
          = WeakBackwardImage(f, StatesOf(A)) \cup WeakBackwardImage(f, StatesOf(B))
    BY <1>1, <1>2
  <2>3. Within(f, r, WeakBackwardImage(f, StatesOf(A))
                       \cup WeakBackwardImage(f, StatesOf(B)))
          = Within(f, r, WeakBackwardImage(f, StatesOf(A)))
              \cup Within(f, r, WeakBackwardImage(f, StatesOf(B)))
    BY <1>4
  <2>4. EXorEY(f, d, r, A \cup B) = Within(f, r, WeakBackwardImage(f, StatesOf(A \cup B)))
    BY <2>1
  <2> QED
    BY <2>1, <2>2, <2>3, <2>4
<1>6. CASE d # "bwd"
  BY <1>3, <1>4, <1>6 DEF EXorEY
<1> QED
  BY <1>5, <1>6

(* Hence images are monotone.                                              *)
LEMMA EXMonotone ==
  ASSUME NEW f, NEW d, NEW r, NEW A, NEW B, A \subseteq B
  PROVE  EXorEY(f, d, r, A) \subseteq EXorEY(f, d, r, B)
<1>1. A \cup B = B
  OBVIOUS
<1> QED
  BY <1>1, EXAdditive

(***************************************************************************)
(* Until and Recurring.                                                    *)
(***************************************************************************)

(* Until is closed under the steps it is built from ...                    *)
LEMMA UntilIsClosed ==
  ASSUME NEW f \in FsmType, NEW d \in Directions, NEW r \in BOOLEAN,
         NEW F, NEW G \in SUBSET Pairs
  PROVE  /\ Until(f, d, r, F, G) \in SUBSET Pairs
         /\ Within(f, r, G) \subseteq Until(f, d, r, F, G)
         /\ EXorEY(f, d, r, Until(f, d, r, F, G)) \cap F \subseteq Until(f, d, r, F, G)
<1> DEFINE U == Until(f, d, r, F, G)
<1>1. U \in SUBSET Pairs
  BY DEF Until
<1>2. Within(f, r, G) \subseteq U
  BY EXType DEF Until
<1>3. ASSUME NEW si \in EXorEY(f, d, r, U) \cap F
      PROVE  si \in U
  <2>1. si \in Pairs
    BY <1>1, EXType
  <2>2. ASSUME NEW C \in SUBSET Pairs, Within(f, r, G) \subseteq C,
               EXorEY(f, d, r, C) \cap F \subseteq C
        PROVE  si \in C
    <3>1. U \subseteq C
      BY <2>2 DEF Until
    <3>2. EXorEY(f, d, r, U) \subseteq EXorEY(f, d, r, C)
      BY <3>1, EXMonotone
    <3> QED
      BY <2>2, <3>2
  <2> QED
    BY <2>1, <2>2 DEF Until
<1> QED
  BY <1>1, <1>2, <1>3

(* ... and the least such set.                                             *)
LEMMA UntilIsLeast ==
  ASSUME NEW f, NEW d, NEW r, NEW F, NEW G, NEW C \in SUBSET Pairs,
         Within(f, r, G) \subseteq C, EXorEY(f, d, r, C) \cap F \subseteq C
  PROVE  Until(f, d, r, F, G) \subseteq C
BY DEF Until

(* A larger target is reached from more pairs.                             *)
LEMMA UntilMonotone ==
  ASSUME NEW f, NEW d, NEW r, NEW F, NEW G, NEW H, G \subseteq H
  PROVE  Until(f, d, r, F, G) \subseteq Until(f, d, r, F, H)
<1>1. Within(f, r, G) \subseteq Within(f, r, H)
  BY DEF Within
<1> QED
  BY <1>1 DEF Until

LEMMA RecurringMonotone ==
  ASSUME NEW f, NEW js, NEW d, NEW r, NEW space, NEW X, NEW Y, X \subseteq Y
  PROVE  Recurring(f, js, d, r, space, X) \subseteq Recurring(f, js, d, r, space, Y)
<1>1. ASSUME NEW n \in DOMAIN js
      PROVE  Until(f, d, r, space, X \cap js[n])
               \subseteq Until(f, d, r, space, Y \cap js[n])
  <2>1. X \cap js[n] \subseteq Y \cap js[n]
    OBVIOUS
  <2> QED
    BY <2>1, UntilMonotone
<1> QED
  BY <1>1 DEF Recurring

(* One turn of the outer loop keeps every self-fair set.                   *)
LEMMA TurnKeepsFair ==
  ASSUME NEW f, NEW js, NEW d, NEW r, NEW space, NEW X, NEW Y,
         SelfFair(f, js, d, r, space, X), X \subseteq Y
  PROVE  X \subseteq space \cap EXorEY(f, d, r, Recurring(f, js, d, r, space, Y))
<1>1. EXorEY(f, d, r, Recurring(f, js, d, r, space, X))
        \subseteq EXorEY(f, d, r, Recurring(f, js, d, r, space, Y))
  BY RecurringMonotone, EXMonotone
<1> QED
  BY <1>1 DEF SelfFair

(***************************************************************************)
(* The inductive invariant.  Every self-fair set of the subspace is in     *)
(* res; when a turn ends, res is within the image of what recurred in old; *)
(* within a turn, partial is what recurred up to the current constraint,   *)
(* and the inner loop is between its target and Until, with the frontier   *)
(* newY as the only part that has not been imaged.                         *)
(***************************************************************************)
Loops == {"gfp", "justice", "until"}

Greatest(f, js, d, r, space, X) ==
  /\ X \in SUBSET Pairs /\ SelfFair(f, js, d, r, space, X)
  /\ \A Y \in SUBSET Pairs : SelfFair(f, js, d, r, space, Y) => Y \subseteq X

RecursUpTo(n) ==
  {si \in res : \A m \in 1 .. n - 1 :
     si \in Until(fsm, dir, useReach, subspace, res \cap justice[m])}

GoalInv ==
  pc \in Loops /\ goal = "fair" => subspace = Space(fsm, dir, useReach)

KeptInv ==
  pc \in Loops =>
    \A Y \in SUBSET Pairs :
      SelfFair(fsm, justice, dir, useReach, subspace, Y) => Y \subseteq res

GfpInv ==
  pc = "gfp" =>
    \/ res = Pairs /\ old = {}
    \/ res \subseteq subspace
         \cap EXorEY(fsm, dir, useReach,
                    Recurring(fsm, justice, dir, useReach, subspace, old))

TurnInv ==
  pc \in {"justice", "until"} =>
    /\ old = res
    /\ just \in 1 .. Len(justice) + 1
    /\ partial = RecursUpTo(just)

UntilInv ==
  pc = "until" =>
    /\ just \in 1 .. Len(justice)
    /\ Within(fsm, useReach, res \cap justice[just]) \subseteq resY
    /\ resY \subseteq Until(fsm, dir, useReach, subspace, res \cap justice[just])
    /\ newY \subseteq resY
    /\ EXorEY(fsm, dir, useReach, resY \ newY) \cap subspace \subseteq resY

CacheInv ==
  \A d \in Directions : \A X \in cachedPairs[d] :
    \E r \in BOOLEAN : Greatest(fsm, justice, d, r, Space(fsm, d, r), X)

LoopInv == GoalInv /\ KeptInv /\ GfpInv /\ TurnInv /\ UntilInv
FairInv == FairTypeOK /\ LoopInv /\ CacheInv

-----------------------------------------------------------------------------
(* The types that the proofs about single actions need.                    *)
LEMMA TypesOf ==
  ASSUME FairTypeOK
  PROVE  /\ fsm \in FsmType /\ justice \in Seq(SUBSET Pairs)
         /\ useReach \in BOOLEAN /\ dir \in Directions
         /\ cachedPairs \in [Directions -> SUBSET SUBSET Pairs]
         /\ subspace \in SUBSET Pairs /\ res \in SUBSET Pairs
         /\ old \in SUBSET Pairs /\ partial \in SUBSET Pairs
         /\ resY \in SUBSET Pairs /\ newY \in SUBSET Pairs
         /\ just \in Nat
BY DEF FairTypeOK

(* A fixpoint starts with all pairs.                                       *)
LEMMA StartFixpointLoop ==
  ASSUME FairTypeOK, NEW for, NEW space,
         for = "fair" => space = Space(fsm, dir, useReach),
         StartFixpoint(for, space)
  PROVE  LoopInv'
<1>1. /\ pc' = "gfp" /\ goal' = for /\ subspace' = space /\ res' = Pairs /\ old' = {}
      /\ fsm' = fsm /\ dir' = dir /\ useReach' = useReach
  BY DEF StartFixpoint, command
<1>2. GoalInv'
  BY <1>1 DEF GoalInv
<1>3. KeptInv'
  BY <1>1 DEF KeptInv
<1>4. GfpInv' /\ TurnInv' /\ UntilInv'
  BY <1>1 DEF GfpInv, TurnInv, UntilInv
<1> QED
  BY <1>2, <1>3, <1>4 DEF LoopInv

LEMMA GfpStepLoop ==
  ASSUME FairTypeOK, LoopInv, GfpStep
  PROVE  LoopInv'
<1>1. /\ pc = "gfp" /\ pc' = "justice" /\ old' = res /\ just' = 1 /\ partial' = res
      /\ UNCHANGED <<fsm, justice, useReach, dir, goal, subspace, res>>
  BY DEF GfpStep, command
<1>2. GoalInv' /\ KeptInv'
  BY <1>1 DEF LoopInv, GoalInv, KeptInv, Loops
<1>3. TurnInv'
  <2>1. 1 \in 1 .. Len(justice) + 1 /\ 1 .. 1 - 1 = {}
    BY TypesOf
  <2>2. RecursUpTo(just)' = res
    BY <1>1, <2>1 DEF RecursUpTo
  <2> QED
    BY <1>1, <2>1, <2>2 DEF TurnInv
<1>4. GfpInv' /\ UntilInv'
  BY <1>1 DEF GfpInv, UntilInv
<1> QED
  BY <1>2, <1>3, <1>4 DEF LoopInv

LEMMA NextJusticeLoop ==
  ASSUME FairTypeOK, LoopInv, NextJustice
  PROVE  LoopInv'
<1>1. /\ pc = "justice" /\ just <= Len(justice) /\ pc' = "until"
      /\ resY' = Within(fsm, useReach, res \cap justice[just]) /\ newY' = resY'
      /\ UNCHANGED <<fsm, justice, useReach, dir, goal, subspace, res, old, just, partial>>
  BY DEF NextJustice, command
<1>2. GoalInv' /\ KeptInv' /\ GfpInv'
  BY <1>1 DEF LoopInv, GoalInv, KeptInv, GfpInv, Loops
<1>3. TurnInv'
  BY <1>1 DEF LoopInv, TurnInv, RecursUpTo
<1>4. UntilInv'
  <2>1. just \in 1 .. Len(justice)
    BY <1>1, TypesOf DEF LoopInv, TurnInv
  <2>2. res \cap justice[just] \in SUBSET Pairs
    BY TypesOf
  <2>3. resY' \subseteq Until(fsm, dir, useReach, subspace, res \cap justice[just])
    BY <1>1, <2>2, TypesOf, UntilIsClosed
  <2>4. EXorEY(fsm, dir, useReach, resY' \ newY') = {}
    BY <1>1 DEF EXorEY, Within, WeakBackwardImage, ForwardImageStatesInputs, StatesOf
  <2> QED
    BY <1>1, <2>1, <2>3, <2>4 DEF UntilInv
<1> QED
  BY <1>2, <1>3, <1>4 DEF LoopInv

(* The frontier step: what the step adds are pairs of Until, and only they *)
(* have not been imaged afterwards.                                        *)
LEMMA UntilStepLoop ==
  ASSUME FairTypeOK, LoopInv, UntilStep
  PROVE  LoopInv'
<1>1. /\ pc = "until" /\ pc' = pc
      /\ resY' = resY \cup (EXorEY(fsm, dir, useReach, newY) \cap subspace)
      /\ newY' = resY' \ resY
      /\ UNCHANGED <<fsm, justice, useReach, dir, goal, subspace, res, old, just, partial>>
  BY DEF UntilStep, command
<1>2. GoalInv' /\ KeptInv' /\ GfpInv'
  BY <1>1 DEF LoopInv, GoalInv, KeptInv, GfpInv, Loops
<1>3. TurnInv'
  BY <1>1 DEF LoopInv, TurnInv, RecursUpTo
<1>4. UntilInv'
  <2> DEFINE U == Until(fsm, dir, useReach, subspace, res \cap justice[just])
             Img(S) == EXorEY(fsm, dir, useReach, S)
  <2>1. /\ just \in 1 .. Len(justice)
        /\ Within(fsm, useReach, res \cap justice[just]) \subseteq resY
        /\ resY \subseteq U /\ newY \subseteq resY
        /\ Img(resY \ newY) \cap subspace \subseteq resY
    BY <1>1 DEF LoopInv, UntilInv
  <2>2. Img(U) \cap subspace \subseteq U
    <3>1. res \cap justice[just] \in SUBSET Pairs
      BY TypesOf
    <3> QED
      BY <3>1, TypesOf, UntilIsClosed
  <2>3. Img(newY) \subseteq Img(U)
    <3>1. newY \subseteq U
      BY <2>1
    <3> QED
      BY <3>1, EXMonotone
  <2>4. resY' \subseteq U
    BY <1>1, <2>1, <2>2, <2>3
  <2>5. Img(resY' \ newY') \cap subspace \subseteq resY'
    <3>1. resY' \ newY' = (resY \ newY) \cup newY
      BY <1>1, <2>1
    <3>2. Img(resY' \ newY') = Img(resY \ newY) \cup Img(newY)
      BY <3>1, EXAdditive
    <3> QED
      BY <1>1, <2>1, <3>2
  <2> HIDE DEF U
  <2>6. U' = U
    BY <1>1 DEF U
  <2> QED
    BY <1>1, <2>1, <2>4, <2>5 DEF UntilInv, U
<1> QED
  BY <1>2, <1>3, <1>4 DEF LoopInv

(* With an empty frontier the inner loop has computed Until.               *)
LEMMA UntilEndLoop ==
  ASSUME FairTypeOK, LoopInv, UntilEnd
  PROVE  LoopInv'
<1>1. /\ pc = "until" /\ newY = {} /\ pc' = "justice"
      /\ partial' = partial \cap resY /\ just' = just + 1
      /\ UNCHANGED <<fsm, justice, useReach, dir, goal, subspace, res, old>>
  BY DEF UntilEnd, command
<1>2. GoalInv' /\ KeptInv' /\ GfpInv'
  BY <1>1 DEF LoopInv, GoalInv, KeptInv, GfpInv, Loops
<1>3. just \in 1 .. Len(justice) /\ partial = RecursUpTo(just) /\ old = res
  BY <1>1 DEF LoopInv, TurnInv, UntilInv
<1>4. resY = Until(fsm, dir, useReach, subspace, res \cap justice[just])
  <2>1. /\ Within(fsm, useReach, res \cap justice[just]) \subseteq resY
        /\ resY \subseteq Until(fsm, dir, useReach, subspace, res \cap justice[just])
        /\ EXorEY(fsm, dir, useReach, resY \ newY) \cap subspace \subseteq resY
    BY <1>1 DEF LoopInv, UntilInv
  <2>2. resY \ newY = resY
    BY <1>1
  <2>3. EXorEY(fsm, dir, useReach, resY) \cap subspace \subseteq resY
    BY <2>1, <2>2
  <2>4. resY \in SUBSET Pairs
    BY TypesOf
  <2>5. Until(fsm, dir, useReach, subspace, res \cap justice[just]) \subseteq resY
    BY <2>1, <2>3, <2>4, UntilIsLeast
  <2> QED
    BY <2>1, <2>5
<1>5. TurnInv'
  <2>1. just' \in 1 .. Len(justice) + 1
    BY <1>1, <1>3, TypesOf
  <2>2. 1 .. (just + 1) - 1 = (1 .. just - 1) \cup {just}
    BY <1>3, TypesOf
  <2>3. RecursUpTo(just + 1) = RecursUpTo(just) \cap resY
    BY <1>4, <2>2 DEF RecursUpTo
  <2>4. RecursUpTo(just)' = RecursUpTo(just + 1)
    BY <1>1 DEF RecursUpTo
  <2> QED
    BY <1>1, <1>3, <2>1, <2>3, <2>4 DEF TurnInv
<1>6. UntilInv'
  BY <1>1 DEF UntilInv
<1> QED
  BY <1>2, <1>5, <1>6 DEF LoopInv

(* The end of a turn: no self-fair set loses a pair, and what is left lies *)
(* within the image of what recurs.                                        *)
LEMMA JusticeEndLoop ==
  ASSUME FairTypeOK, LoopInv, JusticeEnd
  PROVE  LoopInv'
<1> DEFINE Rec == Recurring(fsm, justice, dir, useReach, subspace, res)
<1>1. /\ pc = "justice" /\ just > Len(justice) /\ pc' = "gfp"
      /\ res' = res \cap EXorEY(fsm, dir, useReach, partial) \cap subspace
      /\ UNCHANGED <<fsm, justice, useReach, dir, goal, subspace, old>>
  BY DEF JusticeEnd, command
<1>2. GoalInv'
  BY <1>1 DEF LoopInv, GoalInv, Loops
<1>3. partial = Rec /\ old = res
  <2>1. just \in 1 .. Len(justice) + 1 /\ partial = RecursUpTo(just) /\ old = res
    BY <1>1 DEF LoopInv, TurnInv
  <2>2. 1 .. just - 1 = DOMAIN justice
    <3>1. Len(justice) \in Nat /\ DOMAIN justice = 1 .. Len(justice)
      BY TypesOf
    <3>2. just - 1 = Len(justice)
      BY <1>1, <2>1, <3>1
    <3> QED
      BY <3>1, <3>2
  <2> QED
    BY <2>1, <2>2 DEF RecursUpTo, Recurring
<1>4. KeptInv'
  <2> SUFFICES ASSUME NEW Y \in SUBSET Pairs,
                      SelfFair(fsm, justice, dir, useReach, subspace, Y)
               PROVE  Y \subseteq res'
    BY <1>1 DEF KeptInv
  <2>1. Y \subseteq res
    BY <1>1 DEF LoopInv, KeptInv, Loops
  <2>2. Y \subseteq subspace \cap EXorEY(fsm, dir, useReach, Rec)
    BY <2>1, TurnKeepsFair
  <2> QED
    BY <1>1, <1>3, <2>1, <2>2
<1>5. GfpInv'
  <2>1. Recurring(fsm, justice, dir, useReach, subspace, old)' = Rec
    BY <1>1, <1>3
  <2> QED
    BY <1>1, <1>3, <2>1 DEF GfpInv
<1>6. TurnInv' /\ UntilInv'
  BY <1>1 DEF TurnInv, UntilInv
<1> QED
  BY <1>2, <1>4, <1>5, <1>6 DEF LoopInv

(* The fixpoint: res is self-fair and has every self-fair set.             *)
LEMMA FixpointIsGreatest ==
  ASSUME FairTypeOK, LoopInv, pc = "gfp", res = old
  PROVE  Greatest(fsm, justice, dir, useReach, subspace, res)
<1>1. res \in SUBSET Pairs
  BY TypesOf
<1>2. SelfFair(fsm, justice, dir, useReach, subspace, res)
  <2>1. CASE res = {}
    BY <2>1 DEF SelfFair
  <2>2. CASE res \subseteq subspace
               \cap EXorEY(fsm, dir, useReach,
                          Recurring(fsm, justice, dir, useReach, subspace, old))
    BY <2>2 DEF SelfFair
  <2> QED
    BY <2>1, <2>2 DEF LoopInv, GfpInv
<1>3. \A Y \in SUBSET Pairs :
        SelfFair(fsm, justice, dir, useReach, subspace, Y) => Y \subseteq res
  BY DEF LoopInv, KeptInv, Loops
<1> QED
  BY <1>1, <1>2, <1>3 DEF Greatest

(* No loop runs after a step that leaves the loops.                        *)
LEMMA OutsideLoops ==
  ASSUME pc' \notin Loops
  PROVE  LoopInv'
BY DEF LoopInv, GoalInv, KeptInv, GfpInv, TurnInv, UntilInv, Loops

-----------------------------------------------------------------------------
(* The steps that keep the caches of pairs keep what is said about them.   *)
LEMMA CacheKept ==
  ASSUME CacheInv, UNCHANGED <<fsm, justice, cachedPairs>>
  PROVE  CacheInv'
BY DEF CacheInv

LEMMA GfpEndCache ==
  ASSUME FairTypeOK, LoopInv, CacheInv, GfpEnd
  PROVE  CacheInv'
<1>1. pc = "gfp" /\ res = old /\ UNCHANGED <<fsm, justice>>
  BY DEF GfpEnd
<1>2. CASE goal = "fair"
  <2>1. cachedPairs' = [cachedPairs EXCEPT ![dir] = {res}]
    BY <1>2 DEF GfpEnd
  <2>2. Greatest(fsm, justice, dir, useReach, Space(fsm, dir, useReach), res)
    BY <1>1, <1>2, FixpointIsGreatest DEF LoopInv, GoalInv, Loops
  <2> SUFFICES ASSUME NEW d \in Directions, NEW X \in cachedPairs'[d]
               PROVE  \E r \in BOOLEAN :
                        Greatest(fsm, justice, d, r, Space(fsm, d, r), X)
    BY <1>1 DEF CacheInv
  <2>3. CASE d = dir
    <3>1. X = res
      BY <2>1, <2>3, TypesOf
    <3>2. useReach \in BOOLEAN
      BY TypesOf
    <3> QED
      BY <2>2, <2>3, <3>1, <3>2
  <2>4. CASE d # dir
    <3>1. X \in cachedPairs[d]
      BY <2>1, <2>4, TypesOf
    <3> QED
      BY <3>1 DEF CacheInv
  <2> QED
    BY <2>3, <2>4
<1>3. CASE goal # "fair"
  <2>1. cachedPairs' = cachedPairs
    BY <1>3 DEF GfpEnd
  <2> QED
    BY <1>1, <2>1, CacheKept
<1> QED
  BY <1>2, <1>3

-----------------------------------------------------------------------------
(* The states of a set of pairs.                                           *)
LEMMA StatesOfType ==
  ASSUME NEW SI \in SUBSET Pairs
  PROVE  StatesOf(SI) \in SUBSET States
BY DEF StatesOf, Pairs

(* Type correctness, one step per action.                                  *)
LEMMA TypeStep ==
  ASSUME FairTypeOK, [FairNext]_fairVars
  PROVE  FairTypeOK'
<1> USE DEF FairTypeOK
<1>1. CASE SetUseReachableStates
  BY <1>1 DEF SetUseReachableStates, caches, command, elLocals
<1>2. ASSUME NEW c \in Commands, NEW d \in Directions, NEW g \in SUBSET States,
             Start(c, d, g)
      PROVE  FairTypeOK'
  BY <1>2 DEF Start, caches, elLocals
<1>3. CASE Command
  <2>1. ASSUME NEW d \in Directions, LanguageEmptiness(d)
        PROVE  FairTypeOK'
    <3>1. PICK c \in {"emptiness", "emptiness_all"} : Start(c, d, {})
      BY <2>1 DEF LanguageEmptiness
    <3>2. c \in Commands /\ {} \in SUBSET States
      BY DEF Commands
    <3> QED
      BY <3>1, <3>2, <1>2
  <2>2. CASE PrintFairTransitions
    <3>1. "print_fair_transitions" \in Commands /\ "bwd" \in Directions
      BY DEF Commands, Directions
    <3>2. {} \in SUBSET States
      OBVIOUS
    <3> QED
      BY <2>2, <3>1, <3>2, <1>2 DEF PrintFairTransitions
  <2>3. CASE CheckCtlSpec
    <3>1. PICK spec \in CtlSpecs : Start(spec.op, "bwd", spec.set)
      BY <2>3 DEF CheckCtlSpec
    <3>2. spec \in [op : {"EG", "AF"}, set : SUBSET States]
      BY <3>1, FairAssumption
    <3>3. spec.op \in Commands /\ spec.set \in SUBSET States
      BY <3>2 DEF Commands, CtlOperators
    <3>4. "bwd" \in Directions
      BY DEF Directions
    <3> QED
      BY <3>1, <3>3, <3>4, <1>2
  <2> QED
    BY <1>1, <1>3, <2>1, <2>2, <2>3 DEF Command
<1>4. ASSUME NEW for \in {"fair", "eg"}, NEW space \in SUBSET Pairs,
             StartFixpoint(for, space)
      PROVE  FairTypeOK'
  BY <1>4 DEF StartFixpoint, caches, command
<1>5. CASE StartFair
  <2>1. Space(fsm, dir, useReach) \in SUBSET Pairs
    BY EXType
  <2> QED
    BY <1>4, <1>5, <2>1 DEF StartFair
<1>6. CASE StartEg
  <2>1. EgSpace \in SUBSET Pairs
    <3>1. UNION cachedPairs[dir] \in SUBSET Pairs
      OBVIOUS
    <3> QED
      BY <3>1 DEF EgSpace, Within
  <2> QED
    BY <1>4, <1>6, <2>1 DEF StartEg
<1>7. CASE ProjectStates
  <2>1. StatesOf(UNION cachedPairs[dir]) \in SUBSET States
    <3>1. UNION cachedPairs[dir] \in SUBSET Pairs
      OBVIOUS
    <3> QED
      BY <3>1, StatesOfType
  <2> QED
    BY <1>7, <2>1 DEF ProjectStates, command, elLocals
<1>8. CASE EvalEgTrue
  BY <1>8 DEF EvalEgTrue, caches, command, elLocals
<1>9. CASE GfpStep
  BY <1>9 DEF GfpStep, caches, command
<1>10. CASE NextJustice
  <2>1. Within(fsm, useReach, res \cap justice[just]) \in SUBSET Pairs
    BY DEF Within
  <2> QED
    BY <1>10, <2>1 DEF NextJustice, caches, command
<1>11. CASE UntilStep
  BY <1>11 DEF UntilStep, caches, command
<1>12. CASE UntilEnd
  <2>1. partial' \subseteq Pairs /\ resY' \subseteq Pairs
    BY <1>12 DEF UntilEnd
  <2>2. just \in Nat /\ just' = just + 1
    BY <1>12 DEF UntilEnd
  <2>3. just' \in Nat
    BY ONLY <2>2
  <2>4. /\ pc' = "justice"
        /\ UNCHANGED <<fsm, justice, useReach, cachedPairs, cachedStates, cmd, arg, dir,
                      saved, eg, answer, goal, subspace, res, old, newY>>
    BY <1>12 DEF UntilEnd, caches, command
  <2> QED
    BY <2>1, <2>3, <2>4
<1>13. CASE JusticeEnd
  <2>1. res' \subseteq Pairs /\ partial' \subseteq Pairs
    BY <1>13 DEF JusticeEnd
  <2> QED
    BY <1>13, <2>1 DEF JusticeEnd, caches, command
<1>14. CASE GfpEnd
  <2>1. StatesOf(res) \in SUBSET States
    <3>1. res \in SUBSET Pairs
      OBVIOUS
    <3> QED
      BY <3>1, StatesOfType
  <2>2. /\ cachedPairs' \in [Directions -> SUBSET SUBSET Pairs]
        /\ eg' \in SUBSET SUBSET States
    <3>1. {res} \in SUBSET SUBSET Pairs /\ {StatesOf(res)} \in SUBSET SUBSET States
      BY <2>1
    <3>2. CASE goal = "fair"
      <4>1. cachedPairs' = [cachedPairs EXCEPT ![dir] = {res}] /\ eg' = eg
        BY <1>14, <3>2 DEF GfpEnd
      <4> QED
        BY <3>1, <4>1
    <3>3. CASE goal # "fair"
      <4>1. cachedPairs' = cachedPairs /\ eg' = {StatesOf(res)}
        BY <1>14, <3>3 DEF GfpEnd
      <4> QED
        BY <3>1, <4>1
    <3> QED
      BY <3>2, <3>3
  <2> QED
    BY <1>14, <2>2 DEF GfpEnd, command
<1>15. CASE FinishCheck
  <2>1. answer' \in {"none", "empty", "not empty", "true", "false"}
    BY <1>15 DEF FinishCheck, Report
  <2> QED
    BY <1>15, <2>1 DEF FinishCheck, EndCommand, caches, elLocals, Directions
<1>16. CASE FinishPrint
  BY <1>16 DEF FinishPrint, EndCommand, caches, elLocals, Directions
<1>17. CASE Interrupt
  BY <1>17 DEF Interrupt, EndCommand, caches, Directions
<1>18. CASE UNCHANGED fairVars
  BY <1>18 DEF fairVars, caches, command, elLocals
<1> QED
  BY <1>3, <1>5, <1>6, <1>7, <1>8, <1>9, <1>10, <1>11, <1>12, <1>13, <1>14,
     <1>15, <1>16, <1>17, <1>18 DEF FairNext, RunStep

-----------------------------------------------------------------------------
(***************************************************************************)
(* The invariant.                                                          *)
(***************************************************************************)
LEMMA FairInitInv ==
  ASSUME FairInit
  PROVE  FairInv
<1>1. FairTypeOK
  BY FairAssumption DEF FairInit, NoCommand, NoElLocals, FairTypeOK, Directions
<1>2. LoopInv
  BY DEF FairInit, LoopInv, GoalInv, KeptInv, GfpInv, TurnInv, UntilInv, Loops
<1>3. CacheInv
  BY DEF FairInit, CacheInv
<1> QED
  BY <1>1, <1>2, <1>3 DEF FairInv

(* One step per action.  The steps outside the loops end outside them; the *)
(* two that start a fixpoint start it with all pairs; only GfpEnd writes   *)
(* the cache of the pairs.                                                 *)
LEMMA LoopStep ==
  ASSUME FairTypeOK, LoopInv, [FairNext]_fairVars
  PROVE  LoopInv'
<1>1. ASSUME NEW c, NEW d, NEW g, Start(c, d, g)
      PROVE  LoopInv'
  BY <1>1, OutsideLoops DEF Start, Loops
<1>2. CASE Command
  <2>1. CASE SetUseReachableStates
    BY <2>1, OutsideLoops DEF SetUseReachableStates, Loops
  <2> QED
    BY <1>1, <1>2, <2>1
    DEF Command, LanguageEmptiness, PrintFairTransitions, CheckCtlSpec
<1>3. CASE StartFair
  BY <1>3, StartFixpointLoop DEF StartFair
<1>4. CASE StartEg
  <2>1. StartFixpoint("eg", EgSpace)
    BY <1>4 DEF StartEg
  <2> QED
    BY <2>1, StartFixpointLoop
<1>5. CASE ProjectStates
  BY <1>5, OutsideLoops DEF ProjectStates, Loops
<1>6. CASE EvalEgTrue
  BY <1>6, OutsideLoops DEF EvalEgTrue, Loops
<1>7. CASE GfpEnd
  BY <1>7, OutsideLoops DEF GfpEnd, Loops
<1>8. CASE FinishCheck \/ FinishPrint \/ Interrupt
  <2>1. pc' = "idle"
    BY <1>8 DEF FinishCheck, FinishPrint, Interrupt, EndCommand
  <2> QED
    BY <2>1, OutsideLoops DEF Loops
<1>9. CASE UNCHANGED fairVars
  BY <1>9 DEF fairVars, command, elLocals, LoopInv, GoalInv, KeptInv, GfpInv, TurnInv,
              UntilInv, RecursUpTo
<1> QED
  BY <1>2, <1>3, <1>4, <1>5, <1>6, <1>7, <1>8, <1>9, GfpStepLoop, NextJusticeLoop,
     UntilStepLoop, UntilEndLoop, JusticeEndLoop DEF FairNext, RunStep

LEMMA CacheStep ==
  ASSUME FairTypeOK, LoopInv, CacheInv, [FairNext]_fairVars
  PROVE  CacheInv'
<1>1. CASE GfpEnd
  BY <1>1, GfpEndCache
<1>2. ASSUME NEW c, NEW d, NEW g, Start(c, d, g)
      PROVE  UNCHANGED <<fsm, justice, cachedPairs>>
  BY <1>2 DEF Start, caches
<1>3. CASE Command
  <2>1. CASE SetUseReachableStates
    BY <2>1, CacheKept DEF SetUseReachableStates, caches
  <2>2. CASE ~SetUseReachableStates
    <3>1. \E c, d, g : Start(c, d, g)
      BY <1>3, <2>2
      DEF Command, LanguageEmptiness, PrintFairTransitions, CheckCtlSpec
    <3> QED
      BY <3>1, <1>2, CacheKept
  <2> QED
    BY <2>1, <2>2
<1>4. CASE StartFair \/ StartEg
  <2>1. UNCHANGED <<fsm, justice, cachedPairs>>
    BY <1>4 DEF StartFair, StartEg, StartFixpoint, caches
  <2> QED
    BY <2>1, CacheKept
<1>5. CASE ProjectStates \/ EvalEgTrue
  <2>1. UNCHANGED <<fsm, justice, cachedPairs>>
    BY <1>5 DEF ProjectStates, EvalEgTrue, caches
  <2> QED
    BY <2>1, CacheKept
<1>6. CASE GfpStep \/ NextJustice \/ UntilStep \/ UntilEnd \/ JusticeEnd
  <2>1. UNCHANGED <<fsm, justice, cachedPairs>>
    BY <1>6 DEF GfpStep, NextJustice, UntilStep, UntilEnd, JusticeEnd, caches
  <2> QED
    BY <2>1, CacheKept
<1>7. CASE FinishCheck \/ FinishPrint \/ Interrupt \/ UNCHANGED fairVars
  <2>1. UNCHANGED <<fsm, justice, cachedPairs>>
    BY <1>7 DEF FinishCheck, FinishPrint, Interrupt, fairVars, caches
  <2> QED
    BY <2>1, CacheKept
<1> QED
  BY <1>1, <1>3, <1>4, <1>5, <1>6, <1>7 DEF FairNext, RunStep

(* The loops keep their invariants, the cache holds greatest fixpoints.    *)
THEOREM FairInvariant == FairSpec => []FairInv
<1>1. FairInit => FairInv
  BY FairInitInv
<1>2. FairInv /\ [FairNext]_fairVars => FairInv'
  BY TypeStep, LoopStep, CacheStep DEF FairInv
<1> QED
  BY <1>1, <1>2, PTL DEF FairSpec

(* Every variable keeps its type.                                          *)
THEOREM FairTypeCorrect == FairSpec => []FairTypeOK
<1>1. FairInv => FairTypeOK
  BY DEF FairInv
<1> QED
  BY <1>1, FairInvariant, PTL

(***************************************************************************)
(* The cache and the option.  A fixpoint computed within the reachable     *)
(* states has only fair pairs, and every fair pair whose state is          *)
(* reachable.                                                              *)
(***************************************************************************)
SpaceAny(f) == Space(f, "bwd", FALSE)
SpaceReach(f) == Space(f, "bwd", TRUE)
EXAny(f, SI) == EXorEY(f, "bwd", FALSE, SI)
EXReach(f, SI) == EXorEY(f, "bwd", TRUE, SI)
UntilAny(f, G) == Until(f, "bwd", FALSE, SpaceAny(f), G)
UntilReach(f, G) == Until(f, "bwd", TRUE, SpaceReach(f), G)
RecurringAny(f, js, X) == {si \in X : \A n \in DOMAIN js : si \in UntilAny(f, X \cap js[n])}
RecurringReach(f, js, X) ==
  {si \in X : \A n \in DOMAIN js : si \in UntilReach(f, X \cap js[n])}
FairAny(f, js, X) == X \subseteq SpaceAny(f) \cap EXAny(f, RecurringAny(f, js, X))
FairReach(f, js, X) == X \subseteq SpaceReach(f) \cap EXReach(f, RecurringReach(f, js, X))

LEMMA TwoOptions ==
  ASSUME NEW f, NEW js, NEW X
  PROVE  /\ FairAny(f, js, X) <=> SelfFair(f, js, "bwd", FALSE, SpaceAny(f), X)
         /\ FairReach(f, js, X) <=> SelfFair(f, js, "bwd", TRUE, SpaceReach(f), X)
BY DEF FairAny, FairReach, SelfFair, RecurringAny, RecurringReach, Recurring,
       UntilAny, UntilReach, EXAny, EXReach

(* With the option, images and spaces are those without it, cut down to    *)
(* the reachable states.                                                   *)
LEMMA CutDown ==
  ASSUME NEW f \in FsmType, NEW SI \in SUBSET Pairs
  PROVE  /\ EXReach(f, SI) = EXAny(f, SI) \cap ReachablePairs(f)
         /\ SpaceReach(f) = SpaceAny(f) \cap ReachablePairs(f)
         /\ Within(f, TRUE, SI) = SI \cap ReachablePairs(f)
         /\ Within(f, FALSE, SI) = SI
         /\ EXAny(f, SI) \in SUBSET Pairs
<1>1. Within(f, TRUE, SI) = SI \cap ReachablePairs(f) /\ Within(f, FALSE, SI) = SI
  BY DEF Within, ReachablePairs
<1>2. EXReach(f, SI) = EXAny(f, SI) \cap ReachablePairs(f)
  BY DEF EXReach, EXAny, EXorEY, Within, ReachablePairs
<1>3. SpaceReach(f) = SpaceAny(f) \cap ReachablePairs(f)
  BY DEF SpaceReach, SpaceAny, Space, StatesInputsConstraints, Within, ReachablePairs
<1>4. EXAny(f, SI) \in SUBSET Pairs
  <2>1. "bwd" \in Directions /\ FALSE \in BOOLEAN
    BY DEF Directions
  <2> QED
    BY <2>1, EXType DEF EXAny
<1> QED
  BY <1>1, <1>2, <1>3, <1>4

LEMMA AnyMonotone ==
  ASSUME NEW f, NEW A, NEW B, A \subseteq B
  PROVE  EXAny(f, A) \subseteq EXAny(f, B)
BY EXMonotone DEF EXAny

LEMMA AnyIsClosed ==
  ASSUME NEW f \in FsmType, NEW G \in SUBSET Pairs
  PROVE  /\ UntilAny(f, G) \in SUBSET Pairs /\ G \subseteq UntilAny(f, G)
         /\ EXAny(f, UntilAny(f, G)) \cap SpaceAny(f) \subseteq UntilAny(f, G)
<1>1. "bwd" \in Directions /\ FALSE \in BOOLEAN
  BY DEF Directions
<1> QED
  BY <1>1, CutDown, UntilIsClosed DEF UntilAny, EXAny

LEMMA ReachIsClosed ==
  ASSUME NEW f \in FsmType, NEW G \in SUBSET Pairs
  PROVE  /\ UntilReach(f, G) \in SUBSET Pairs
         /\ G \cap ReachablePairs(f) \subseteq UntilReach(f, G)
         /\ EXReach(f, UntilReach(f, G)) \cap SpaceReach(f) \subseteq UntilReach(f, G)
<1>1. "bwd" \in Directions /\ TRUE \in BOOLEAN
  BY DEF Directions
<1> QED
  BY <1>1, CutDown, UntilIsClosed DEF UntilReach, EXReach

LEMMA AnyIsLeast ==
  ASSUME NEW f \in FsmType, NEW G \in SUBSET Pairs, NEW C \in SUBSET Pairs,
         G \subseteq C, EXAny(f, C) \cap SpaceAny(f) \subseteq C
  PROVE  UntilAny(f, G) \subseteq C
<1>1. Within(f, FALSE, G) \subseteq C
  BY CutDown
<1> QED
  BY <1>1, UntilIsLeast DEF UntilAny, EXAny

LEMMA ReachIsLeast ==
  ASSUME NEW f \in FsmType, NEW G \in SUBSET Pairs, NEW C \in SUBSET Pairs,
         G \cap ReachablePairs(f) \subseteq C,
         EXReach(f, C) \cap SpaceReach(f) \subseteq C
  PROVE  UntilReach(f, G) \subseteq C
<1>1. Within(f, TRUE, G) \subseteq C
  BY CutDown
<1> QED
  BY <1>1, UntilIsLeast DEF UntilReach, EXReach

(* What is self-fair within the reachable states is self-fair.             *)
LEMMA ReachableFairIsFair ==
  ASSUME NEW f \in FsmType, NEW js \in Seq(SUBSET Pairs), NEW X \in SUBSET Pairs,
         FairReach(f, js, X)
  PROVE  FairAny(f, js, X)
<1>1. ASSUME NEW G \in SUBSET Pairs
      PROVE  UntilReach(f, G) \subseteq UntilAny(f, G)
  <2>1. /\ UntilAny(f, G) \in SUBSET Pairs /\ G \subseteq UntilAny(f, G)
        /\ EXAny(f, UntilAny(f, G)) \cap SpaceAny(f) \subseteq UntilAny(f, G)
    BY AnyIsClosed
  <2>2. EXReach(f, UntilAny(f, G)) \cap SpaceReach(f) \subseteq UntilAny(f, G)
    <3>1. EXReach(f, UntilAny(f, G)) = EXAny(f, UntilAny(f, G)) \cap ReachablePairs(f)
      BY <2>1, CutDown
    <3>2. SpaceReach(f) = SpaceAny(f) \cap ReachablePairs(f)
      BY CutDown
    <3> QED
      BY <2>1, <3>1, <3>2
  <2> QED
    BY <2>1, <2>2, ReachIsLeast
<1>2. RecurringReach(f, js, X) \subseteq RecurringAny(f, js, X)
  <2>1. ASSUME NEW n \in DOMAIN js
        PROVE  UntilReach(f, X \cap js[n]) \subseteq UntilAny(f, X \cap js[n])
    BY <1>1
  <2> QED
    BY <2>1 DEF RecurringReach, RecurringAny
<1>3. RecurringReach(f, js, X) \in SUBSET Pairs
  BY DEF RecurringReach
<1>4. EXReach(f, RecurringReach(f, js, X)) \subseteq EXAny(f, RecurringAny(f, js, X))
  <2>1. ASSUME NEW SI \in SUBSET Pairs
        PROVE  EXReach(f, SI) \subseteq EXAny(f, SI)
    <3>1. EXReach(f, SI) = EXAny(f, SI) \cap ReachablePairs(f)
      BY CutDown
    <3> QED
      BY <3>1
  <2>2. EXReach(f, RecurringReach(f, js, X)) \subseteq EXAny(f, RecurringReach(f, js, X))
    BY <1>3, <2>1
  <2> QED
    BY <1>2, <2>2, AnyMonotone
<1>5. SpaceReach(f) \subseteq SpaceAny(f)
  BY CutDown
<1> QED
  BY <1>4, <1>5 DEF FairReach, FairAny

(* A pair of a reachable state steps to a reachable state.                 *)
LEMMA ReachableStep ==
  ASSUME NEW f \in FsmType, NEW A \in SUBSET Pairs,
         NEW p \in EXAny(f, A) \cap ReachablePairs(f)
  PROVE  p \in EXAny(f, A \cap ReachablePairs(f))
<1>1. p \in WeakBackwardImage(f, StatesOf(A))
  BY DEF EXAny, EXorEY, Within
<1>2. PICK t \in StatesOf(A) \cap f.invarStates : <<p[1], p[2], t>> \in f.trans
  BY <1>1 DEF WeakBackwardImage
<1>3. PICK q \in A : t = q[1]
  BY <1>2 DEF StatesOf
<1>4. p[1] \in f.invarStates /\ p[2] \in f.invarInputs /\ p[1] \in Reachable(f)
  BY <1>1 DEF WeakBackwardImage, ReachablePairs
<1>5. t \in ForwardImage(f, Reachable(f))
  BY <1>2, <1>4 DEF ForwardImage
<1>6. t \in Reachable(f)
  BY <1>5, ReachableIsClosed DEF Closed
<1>7. q \in A \cap ReachablePairs(f)
  BY <1>3, <1>6 DEF Pairs, ReachablePairs
<1>8. t \in StatesOf(A \cap ReachablePairs(f))
  BY <1>3, <1>7 DEF StatesOf
<1> QED
  BY <1>1, <1>2, <1>8 DEF WeakBackwardImage, EXAny, EXorEY, Within

(* The reachable part of a self-fair set is self-fair within the reachable *)
(* states.                                                                 *)
LEMMA ReachablePartIsFair ==
  ASSUME NEW f \in FsmType, NEW js \in Seq(SUBSET Pairs), NEW X \in SUBSET Pairs,
         FairAny(f, js, X)
  PROVE  FairReach(f, js, X \cap ReachablePairs(f))
<1> DEFINE RP == ReachablePairs(f)
           Z == X \cap RP
<1>1. ASSUME NEW G \in SUBSET Pairs
      PROVE  UntilAny(f, G) \cap RP \subseteq UntilReach(f, G \cap RP)
  <2> DEFINE U == UntilReach(f, G \cap RP)
             C == {p \in Pairs : p \in RP => p \in U}
  <2>1. /\ U \in SUBSET Pairs /\ G \cap RP \subseteq U
        /\ EXReach(f, U) \cap SpaceReach(f) \subseteq U
    BY ReachIsClosed
  <2> HIDE DEF U
  <2>2. C \in SUBSET Pairs /\ C \cap RP \subseteq U /\ G \subseteq C
    BY <2>1
  <2>3. ASSUME NEW p \in EXAny(f, C) \cap SpaceAny(f)
        PROVE  p \in C
    <3>1. p \in Pairs
      BY <2>2, CutDown
    <3>2. ASSUME p \in RP
          PROVE  p \in U
      <4>1. p \in EXAny(f, C \cap RP)
        BY <2>2, <2>3, <3>2, ReachableStep
      <4>2. p \in EXAny(f, U)
        BY <2>2, <4>1, AnyMonotone
      <4>3. p \in EXReach(f, U) \cap SpaceReach(f)
        <5>1. EXReach(f, U) = EXAny(f, U) \cap RP
          BY <2>1, CutDown
        <5>2. SpaceReach(f) = SpaceAny(f) \cap RP
          BY CutDown
        <5> QED
          BY <2>3, <3>2, <4>2, <5>1, <5>2
      <4> QED
        BY <2>1, <4>3
    <3> QED
      BY <3>1, <3>2
  <2>4. UntilAny(f, G) \subseteq C
    BY <2>2, <2>3, AnyIsLeast
  <2> QED
    BY <2>2, <2>4 DEF U
<1>2. RecurringAny(f, js, X) \cap RP \subseteq RecurringReach(f, js, Z)
  <2>1. ASSUME NEW n \in DOMAIN js
        PROVE  UntilAny(f, X \cap js[n]) \cap RP \subseteq UntilReach(f, Z \cap js[n])
    <3>1. (X \cap js[n]) \cap RP = Z \cap js[n] /\ X \cap js[n] \in SUBSET Pairs
      OBVIOUS
    <3> QED
      BY <3>1, <1>1
  <2> QED
    BY <2>1 DEF RecurringAny, RecurringReach
<1>3. RecurringAny(f, js, X) \in SUBSET Pairs /\ RecurringReach(f, js, Z) \in SUBSET Pairs
  BY DEF RecurringAny, RecurringReach
<1>4. X \subseteq SpaceAny(f) \cap EXAny(f, RecurringAny(f, js, X))
  BY DEF FairAny
<1>5. ASSUME NEW p \in Z
      PROVE  p \in SpaceReach(f) \cap EXReach(f, RecurringReach(f, js, Z))
  <2>1. p \in EXAny(f, RecurringAny(f, js, X) \cap RP)
    BY <1>3, <1>4, <1>5, ReachableStep
  <2>2. p \in EXAny(f, RecurringReach(f, js, Z))
    BY <1>2, <2>1, AnyMonotone
  <2> QED
    <3>1. EXReach(f, RecurringReach(f, js, Z))
            = EXAny(f, RecurringReach(f, js, Z)) \cap RP
      BY <1>3, CutDown
    <3>2. SpaceReach(f) = SpaceAny(f) \cap RP
      BY CutDown
    <3> QED
      BY <1>4, <1>5, <2>2, <3>1, <3>2
<1> QED
  BY <1>5 DEF FairReach

(* Whatever the option was when it was computed, the cached set has only   *)
(* fair pairs and every fair pair of a reachable state.                    *)
THEOREM CacheIsFair == FairSpec => []CachedPairsAreFair
<1>1. ASSUME FairInv
      PROVE  CachedPairsAreFair
  <2>1. fsm \in FsmType /\ justice \in Seq(SUBSET Pairs) /\ "bwd" \in Directions
    BY <1>1, TypesOf DEF FairInv, Directions
  <2> SUFFICES ASSUME NEW X \in cachedPairs["bwd"]
               PROVE  /\ X \subseteq FairPairs(fsm, justice)
                      /\ FairPairs(fsm, justice) \cap ReachablePairs(fsm) \subseteq X
    BY DEF CachedPairsAreFair, ReachablePairs
  <2>2. PICK r \in BOOLEAN : Greatest(fsm, justice, "bwd", r, Space(fsm, "bwd", r), X)
    BY <1>1, <2>1 DEF FairInv, CacheInv
  <2>3. X \in SUBSET Pairs
    BY <2>2 DEF Greatest
  <2>4. CASE r = FALSE
    <3>1. FairAny(fsm, justice, X)
      BY <2>2, <2>4, TwoOptions DEF Greatest, SpaceAny
    <3>2. \A Y \in SUBSET Pairs : FairAny(fsm, justice, Y) => Y \subseteq X
      BY <2>2, <2>4, TwoOptions DEF Greatest, SpaceAny
    <3> QED
      BY <2>3, <3>1, <3>2, TwoOptions DEF FairPairs, SpaceAny
  <2>5. CASE r = TRUE
    <3>1. FairReach(fsm, justice, X)
      BY <2>2, <2>5, TwoOptions DEF Greatest, SpaceReach
    <3>2. \A Y \in SUBSET Pairs : FairReach(fsm, justice, Y) => Y \subseteq X
      BY <2>2, <2>5, TwoOptions DEF Greatest, SpaceReach
    <3>3. FairAny(fsm, justice, X)
      BY <2>1, <2>3, <3>1, ReachableFairIsFair
    <3>4. ASSUME NEW Y \in SUBSET Pairs, FairAny(fsm, justice, Y)
          PROVE  Y \cap ReachablePairs(fsm) \subseteq X
      BY <2>1, <3>2, <3>4, ReachablePartIsFair
    <3> QED
      BY <2>3, <3>3, <3>4, TwoOptions DEF FairPairs, SpaceAny
  <2> QED
    BY <2>4, <2>5
<1> QED
  BY <1>1, FairInvariant, PTL

(***************************************************************************)
(* What can be reached by the edges of E.  The recursive definition is met *)
(* by the ends of walks of n edges that may pause, hence it means what it  *)
(* says; and it has stopped growing after as many steps as there are pairs. *)
(***************************************************************************)
Pauses(E, p, n) ==
  {w \in [0 .. n -> Pairs] :
     /\ w[0] \in Direct(E, {p})
     /\ \A k \in 0 .. n - 1 : w[k + 1] = w[k] \/ <<w[k], w[k + 1]>> \in E}
PauseEnds(E, p) == [n \in 0 .. Cardinality(Pairs) |-> {w[n] : w \in Pauses(E, p, n)}]

IsGrowth(E, p, g) ==
  g = [n \in 0 .. Cardinality(Pairs) |->
         IF n = 0 THEN Direct(E, {p})
                  ELSE LET before == g[n - 1] IN before \cup Direct(E, before)]
Growth(E, p) == CHOOSE g : IsGrowth(E, p, g)

LEMMA AfterIsGrowth ==
  ASSUME NEW E, NEW p
  PROVE  After(E, p) = Growth(E, p)[Cardinality(Pairs)]
BY DEF After, Growth, IsGrowth

LEMMA DirectIs ==
  ASSUME NEW E \in SUBSET (Pairs \X Pairs), NEW P
  PROVE  /\ Direct(E, P) \in SUBSET Pairs
         /\ \A q : q \in Direct(E, P) <=> \E p \in P : <<p, q>> \in E
<1>1. Direct(E, P) \in SUBSET Pairs
  BY DEF Direct
<1>2. ASSUME NEW q \in Direct(E, P)
      PROVE  \E p \in P : <<p, q>> \in E
  <2>1. PICK e \in E : e[1] \in P /\ q = e[2]
    BY DEF Direct
  <2>2. e = <<e[1], e[2]>>
    BY <2>1
  <2> QED
    BY <2>1, <2>2
<1>3. ASSUME NEW q, NEW p \in P, <<p, q>> \in E
      PROVE  q \in Direct(E, P)
  BY <1>3 DEF Direct
<1> QED
  BY <1>1, <1>2, <1>3

(* Cutting the last edge of a walk, and adding one.                        *)
LEMMA PauseIsCut ==
  ASSUME NEW E, NEW p, NEW n \in Nat, NEW w \in Pauses(E, p, n + 1)
  PROVE  /\ [k \in 0 .. n |-> w[k]] \in Pauses(E, p, n)
         /\ w[n] \in Pairs /\ w[n + 1] \in Pairs
         /\ w[n + 1] = w[n] \/ <<w[n], w[n + 1]>> \in E
<1> DEFINE q == [k \in 0 .. n |-> w[k]]
<1>1. /\ w \in [0 .. n + 1 -> Pairs] /\ w[0] \in Direct(E, {p})
      /\ \A k \in 0 .. (n + 1) - 1 : w[k + 1] = w[k] \/ <<w[k], w[k + 1]>> \in E
  BY DEF Pauses
<1>2. q \in [0 .. n -> Pairs]
  BY <1>1
<1>3. q[0] = w[0]
  OBVIOUS
<1>4. ASSUME NEW k \in 0 .. n - 1
      PROVE  q[k + 1] = q[k] \/ <<q[k], q[k + 1]>> \in E
  <2>1. k \in 0 .. (n + 1) - 1 /\ q[k + 1] = w[k + 1] /\ q[k] = w[k]
    OBVIOUS
  <2> QED
    BY <1>1, <2>1
<1>5. q \in Pauses(E, p, n)
  <2> HIDE DEF q
  <2> QED
    BY <1>1, <1>2, <1>3, <1>4 DEF Pauses
<1>6. n \in 0 .. (n + 1) - 1 /\ n \in 0 .. n + 1 /\ n + 1 \in 0 .. n + 1
  OBVIOUS
<1> QED
  BY <1>1, <1>5, <1>6

LEMMA PauseGoesOn ==
  ASSUME NEW E, NEW p, NEW n \in Nat, NEW w \in Pauses(E, p, n), NEW t \in Pairs,
         t = w[n] \/ <<w[n], t>> \in E
  PROVE  \E q \in Pauses(E, p, n + 1) : q[n + 1] = t
<1> DEFINE q == [k \in 0 .. n + 1 |-> IF k = n + 1 THEN t ELSE w[k]]
<1>1. /\ w \in [0 .. n -> Pairs] /\ w[0] \in Direct(E, {p})
      /\ \A k \in 0 .. n - 1 : w[k + 1] = w[k] \/ <<w[k], w[k + 1]>> \in E
  BY DEF Pauses
<1>2. q \in [0 .. n + 1 -> Pairs] /\ q[0] = w[0] /\ q[n + 1] = t
  BY <1>1
<1>3. ASSUME NEW k \in 0 .. (n + 1) - 1
      PROVE  q[k + 1] = q[k] \/ <<q[k], q[k + 1]>> \in E
  <2>1. q[k] = w[k]
    OBVIOUS
  <2>2. CASE k = n
    BY <1>2, <2>1, <2>2
  <2>3. CASE k # n
    <3>1. k \in 0 .. n - 1 /\ q[k + 1] = w[k + 1]
      BY <2>3
    <3> QED
      BY <1>1, <2>1, <3>1
  <2> QED
    BY <2>2, <2>3
<1>4. q \in Pauses(E, p, n + 1)
  <2> HIDE DEF q
  <2> QED
    BY <1>1, <1>2, <1>3 DEF Pauses
<1> HIDE DEF q
<1> QED
  BY <1>2, <1>4

LEMMA PauseEndsStart ==
  ASSUME NEW E \in SUBSET (Pairs \X Pairs), NEW p
  PROVE  {w[0] : w \in Pauses(E, p, 0)} = Direct(E, {p})
<1>1. \A w \in Pauses(E, p, 0) : w[0] \in Direct(E, {p})
  BY DEF Pauses
<1>2. ASSUME NEW s \in Direct(E, {p})
      PROVE  s \in {w[0] : w \in Pauses(E, p, 0)}
  <2> DEFINE q == [k \in 0 .. 0 |-> s]
  <2>1. s \in Pairs
    BY DirectIs
  <2>2. q \in [0 .. 0 -> Pairs] /\ q[0] = s /\ \A k \in 0 .. 0 - 1 : FALSE
    BY <2>1
  <2>3. q \in Pauses(E, p, 0)
    BY <2>2 DEF Pauses
  <2> HIDE DEF q
  <2> QED
    BY <2>2, <2>3
<1> QED
  BY <1>1, <1>2

LEMMA PauseEndsStep ==
  ASSUME NEW E \in SUBSET (Pairs \X Pairs), NEW p, NEW n \in Nat
  PROVE  LET before == {w[n] : w \in Pauses(E, p, n)}
         IN  {w[n + 1] : w \in Pauses(E, p, n + 1)} = before \cup Direct(E, before)
<1> DEFINE B == {w[n] : w \in Pauses(E, p, n)}
<1>1. ASSUME NEW t \in {w[n + 1] : w \in Pauses(E, p, n + 1)}
      PROVE  t \in B \cup Direct(E, B)
  <2>1. PICK w \in Pauses(E, p, n + 1) : t = w[n + 1]
    OBVIOUS
  <2> DEFINE q == [k \in 0 .. n |-> w[k]]
  <2>2. /\ q \in Pauses(E, p, n)
        /\ w[n + 1] = w[n] \/ <<w[n], w[n + 1]>> \in E
    BY PauseIsCut
  <2>3. q[n] = w[n]
    OBVIOUS
  <2> HIDE DEF q
  <2>4. w[n] \in B
    BY <2>2, <2>3
  <2> HIDE DEF B
  <2> QED
    BY <2>1, <2>2, <2>4, DirectIs
<1>2. ASSUME NEW t \in B \cup Direct(E, B)
      PROVE  \E q \in Pauses(E, p, n + 1) : q[n + 1] = t
  <2>1. PICK s \in B : t = s \/ <<s, t>> \in E
    BY DirectIs
  <2>2. PICK w \in Pauses(E, p, n) : s = w[n]
    OBVIOUS
  <2>3. t \in Pairs
    <3>1. w \in [0 .. n -> Pairs] /\ n \in 0 .. n
      BY DEF Pauses
    <3> QED
      BY <2>1, <2>2, <3>1
  <2> QED
    BY <2>1, <2>2, <2>3, PauseGoesOn
<1> QED
  BY <1>1, <1>2

LEMMA GrowthIsGrowth ==
  ASSUME NEW E \in SUBSET (Pairs \X Pairs), NEW p, IsFiniteSet(Pairs)
  PROVE  LET g == Growth(E, p)
         IN  /\ g[0] = Direct(E, {p})
             /\ \A n \in Nat : n + 1 <= Cardinality(Pairs) =>
                  g[n + 1] = g[n] \cup Direct(E, g[n])
<1> DEFINE N == Cardinality(Pairs)
<1>1. N \in Nat
  BY FS_CardinalityType
<1>2. IsGrowth(E, p, PauseEnds(E, p))
  <2> DEFINE b == PauseEnds(E, p)
             c == [n \in 0 .. N |-> IF n = 0 THEN Direct(E, {p})
                     ELSE LET before == b[n - 1] IN before \cup Direct(E, before)]
  <2>1. b = [n \in 0 .. N |-> b[n]]
    BY DEF PauseEnds
  <2>2. ASSUME NEW n \in 0 .. N
        PROVE  b[n] = c[n]
    <3>1. CASE n = 0
      BY <3>1, PauseEndsStart DEF PauseEnds
    <3>2. CASE n # 0
      <4> DEFINE m == n - 1
      <4>1. m \in Nat /\ n = m + 1 /\ m \in 0 .. N
        BY <1>1, <3>2
      <4>2. c[n] = b[m] \cup Direct(E, b[m])
        BY <3>2
      <4>3. b[m] = {w[m] : w \in Pauses(E, p, m)} /\ b[n] = {w[n] : w \in Pauses(E, p, n)}
        BY <4>1 DEF PauseEnds
      <4> HIDE DEF m, b, c
      <4>4. {w[m + 1] : w \in Pauses(E, p, m + 1)}
              = {w[m] : w \in Pauses(E, p, m)} \cup Direct(E, {w[m] : w \in Pauses(E, p, m)})
        BY <4>1, PauseEndsStep
      <4>5. b[n] = b[m] \cup Direct(E, b[m])
        BY <4>1, <4>3, <4>4
      <4> QED
        BY <4>2, <4>5
    <3> QED
      BY <3>1, <3>2
  <2>3. c = [n \in 0 .. N |-> c[n]]
    OBVIOUS
  <2> HIDE DEF b, c
  <2>4. b = c
    BY <2>1, <2>2, <2>3
  <2> QED
    BY <2>4 DEF IsGrowth, b, c
<1>3. IsGrowth(E, p, Growth(E, p))
  BY <1>2 DEF Growth
<1> DEFINE g == Growth(E, p)
<1>4. g = [n \in 0 .. N |-> IF n = 0 THEN Direct(E, {p})
                            ELSE g[n - 1] \cup Direct(E, g[n - 1])]
  BY <1>3 DEF IsGrowth
<1> HIDE DEF g
<1>5. g[0] = Direct(E, {p})
  BY <1>1, <1>4
<1>6. ASSUME NEW n \in Nat, n + 1 <= N
      PROVE  g[n + 1] = g[n] \cup Direct(E, g[n])
  <2>1. n + 1 \in 0 .. N /\ n + 1 # 0 /\ (n + 1) - 1 = n
    BY <1>1, <1>6
  <2> QED
    BY <1>4, <2>1
<1> QED
  BY <1>5, <1>6 DEF g

(* If it never stops growing, there are more than all pairs.               *)
LEMMA GrowthStops ==
  ASSUME NEW E \in SUBSET (Pairs \X Pairs), NEW p, IsFiniteSet(Pairs)
  PROVE  Direct(E, After(E, p)) \subseteq After(E, p)
<1> DEFINE g == Growth(E, p)
           N == Cardinality(Pairs)
<1> USE AfterIsGrowth
<1>1. /\ g[0] = Direct(E, {p})
      /\ \A n \in Nat : n + 1 <= N => g[n + 1] = g[n] \cup Direct(E, g[n])
  BY GrowthIsGrowth
<1>2. N \in Nat
  BY FS_CardinalityType
<1> HIDE DEF g, N
<1>3. \A n \in 0 .. N : g[n] \in SUBSET Pairs
  <2> DEFINE S == {n \in 0 .. N : g[n] \notin SUBSET Pairs}
  <2> SUFFICES ASSUME S # {} PROVE FALSE
    OBVIOUS
  <2>1. S \in SUBSET Nat
    BY <1>2
  <2>2. PICK n \in S : \A m \in S : n <= m
    <3> HIDE DEF S
    <3> QED
      BY <2>1, LeastNat
  <2>3. n # 0
    BY <1>1, DirectIs
  <2>4. n - 1 \in Nat /\ n - 1 \in 0 .. N /\ (n - 1) + 1 = n /\ n <= N /\ ~(n <= n - 1)
    BY <1>2, <2>3
  <2>5. g[n - 1] \in SUBSET Pairs
    BY <2>2, <2>4
  <2>6. g[n] = g[n - 1] \cup Direct(E, g[n - 1])
    BY <1>1, <2>4
  <2> QED
    BY <2>5, <2>6, DirectIs
<1>4. \A n \in 0 .. N : IsFiniteSet(g[n]) /\ Cardinality(g[n]) \in Nat /\ Cardinality(g[n]) <= N
  <2> SUFFICES ASSUME NEW n \in 0 .. N
               PROVE  IsFiniteSet(g[n]) /\ Cardinality(g[n]) \in Nat /\ Cardinality(g[n]) <= N
    OBVIOUS
  <2>1. g[n] \in SUBSET Pairs
    BY <1>3
  <2>2. IsFiniteSet(g[n]) /\ Cardinality(g[n]) <= Cardinality(Pairs)
    BY <2>1, FS_Subset
  <2> QED
    BY <2>2, FS_CardinalityType DEF N
(* A stop is for ever.                                                     *)
<1>5. ASSUME NEW m \in 0 .. N, Direct(E, g[m]) \subseteq g[m]
      PROVE  Direct(E, g[N]) \subseteq g[N]
  <2> DEFINE S == {n \in m .. N : g[n] # g[m]}
  <2>1. S = {}
    <3> SUFFICES ASSUME S # {} PROVE FALSE
      OBVIOUS
    <3>1. S \in SUBSET Nat
      BY <1>2
    <3>2. PICK n \in S : \A k \in S : n <= k
      <4> HIDE DEF S
      <4> QED
        BY <3>1, LeastNat
    <3>3. n # m
      OBVIOUS
    <3>4. n - 1 \in Nat /\ n - 1 \in m .. N /\ (n - 1) + 1 = n /\ n <= N /\ ~(n <= n - 1)
      BY <1>2, <3>3
    <3>5. g[n - 1] = g[m]
      BY <3>2, <3>4
    <3>6. g[n] = g[n - 1] \cup Direct(E, g[n - 1])
      BY <1>1, <3>4
    <3> QED
      BY <1>5, <3>5, <3>6
  <2>2. N \in m .. N
    BY <1>2
  <2>3. g[N] = g[m]
    BY <2>1, <2>2
  <2> QED
    BY <1>5, <2>3
<1>6. ASSUME \A m \in 0 .. N : ~(Direct(E, g[m]) \subseteq g[m])
      PROVE  FALSE
  <2> DEFINE S == {n \in 0 .. N : Cardinality(g[n]) < n}
  <2>1. S = {}
    <3> SUFFICES ASSUME S # {} PROVE FALSE
      OBVIOUS
    <3>1. S \in SUBSET Nat
      BY <1>2
    <3>2. PICK n \in S : \A k \in S : n <= k
      <4> HIDE DEF S
      <4> QED
        BY <3>1, LeastNat
    <3>3. n # 0
      BY <1>4
    <3>4. n - 1 \in Nat /\ n - 1 \in 0 .. N /\ (n - 1) + 1 = n /\ n <= N /\ ~(n <= n - 1)
      BY <1>2, <3>3
    <3>5. ~(Cardinality(g[n - 1]) < n - 1)
      BY <3>2, <3>4
    <3>6. g[n] = g[n - 1] \cup Direct(E, g[n - 1])
      BY <1>1, <3>4
    <3>7. g[n - 1] \in SUBSET g[n] /\ g[n - 1] # g[n]
      BY <1>6, <3>4, <3>6
    <3>8. Cardinality(g[n - 1]) <= Cardinality(g[n]) /\ Cardinality(g[n - 1]) # Cardinality(g[n])
      BY <1>4, <3>7, FS_Subset
    <3>9. Cardinality(g[n - 1]) \in Nat /\ Cardinality(g[n]) \in Nat /\ Cardinality(g[n]) < n
      BY <1>4, <3>4
    <3> QED
      BY <3>4, <3>5, <3>8, <3>9
  <2>2. N \in 0 .. N
    BY <1>2
  <2>3. Cardinality(g[N]) \in Nat /\ Cardinality(g[N]) <= N /\ ~(Cardinality(g[N]) < N)
    BY <1>4, <2>1, <2>2
  <2>4. Cardinality(g[N]) = Cardinality(Pairs)
    BY <1>2, <2>3 DEF N
  <2>5. g[N] = Pairs
    BY <1>3, <2>2, <2>4, FS_Subset
  <2>6. Direct(E, g[N]) \subseteq g[N]
    BY <2>5, DirectIs
  <2> QED
    BY <1>6, <2>2, <2>6
<1>7. Direct(E, g[N]) \subseteq g[N]
  BY <1>5, <1>6
<1>8. After(E, p) = g[N]
  BY DEF g, N
<1> QED
  BY <1>7, <1>8

(* After is the least set that has the pairs after p and what comes after  *)
(* them.                                                                   *)
LEMMA AfterIsClosed ==
  ASSUME NEW E \in SUBSET (Pairs \X Pairs), NEW p, IsFiniteSet(Pairs)
  PROVE  /\ After(E, p) \in SUBSET Pairs
         /\ \A q : <<p, q>> \in E => q \in After(E, p)
         /\ \A q, t : q \in After(E, p) /\ <<q, t>> \in E => t \in After(E, p)
         /\ \A C : /\ \A q : <<p, q>> \in E => q \in C
                   /\ \A q, t : q \in C /\ <<q, t>> \in E => t \in C
                   => After(E, p) \subseteq C
<1> DEFINE g == Growth(E, p)
           N == Cardinality(Pairs)
<1>1. /\ g[0] = Direct(E, {p})
      /\ \A n \in Nat : n + 1 <= N => g[n + 1] = g[n] \cup Direct(E, g[n])
  BY GrowthIsGrowth
<1>2. N \in Nat
  BY FS_CardinalityType
<1>3. After(E, p) = g[N]
  BY AfterIsGrowth
<1> HIDE DEF g, N
<1>4. ASSUME NEW C, Direct(E, {p}) \subseteq C, Direct(E, C) \subseteq C
      PROVE  After(E, p) \subseteq C
  <2> DEFINE S == {n \in 0 .. N : ~(g[n] \subseteq C)}
  <2>1. S = {}
    <3> SUFFICES ASSUME S # {} PROVE FALSE
      OBVIOUS
    <3>1. S \in SUBSET Nat
      BY <1>2
    <3>2. PICK n \in S : \A k \in S : n <= k
      <4> HIDE DEF S
      <4> QED
        BY <3>1, LeastNat
    <3>3. n # 0
      BY <1>1, <1>4
    <3>4. n - 1 \in Nat /\ n - 1 \in 0 .. N /\ (n - 1) + 1 = n /\ n <= N /\ ~(n <= n - 1)
      BY <1>2, <3>3
    <3>5. g[n - 1] \subseteq C
      BY <3>2, <3>4
    <3>6. g[n] = g[n - 1] \cup Direct(E, g[n - 1])
      BY <1>1, <3>4
    <3>7. Direct(E, g[n - 1]) \subseteq Direct(E, C)
      BY <3>5, DirectIs
    <3> QED
      BY <1>4, <3>5, <3>6, <3>7
  <2>2. N \in 0 .. N
    BY <1>2
  <2> QED
    BY <1>3, <2>1, <2>2
<1>5. Direct(E, {p}) \subseteq Pairs /\ Direct(E, Pairs) \subseteq Pairs
  BY DirectIs
<1>6. After(E, p) \in SUBSET Pairs
  BY <1>4, <1>5
<1>7. Direct(E, {p}) \subseteq After(E, p)
  <2> DEFINE S == {n \in 0 .. N : ~(g[0] \subseteq g[n])}
  <2>1. S = {}
    <3> SUFFICES ASSUME S # {} PROVE FALSE
      OBVIOUS
    <3>1. S \in SUBSET Nat
      BY <1>2
    <3>2. PICK n \in S : \A k \in S : n <= k
      <4> HIDE DEF S
      <4> QED
        BY <3>1, LeastNat
    <3>3. n # 0
      OBVIOUS
    <3>4. n - 1 \in Nat /\ n - 1 \in 0 .. N /\ (n - 1) + 1 = n /\ n <= N /\ ~(n <= n - 1)
      BY <1>2, <3>3
    <3>5. g[0] \subseteq g[n - 1]
      BY <3>2, <3>4
    <3>6. g[n] = g[n - 1] \cup Direct(E, g[n - 1])
      BY <1>1, <3>4
    <3> QED
      BY <3>5, <3>6
  <2>2. N \in 0 .. N
    BY <1>2
  <2>3. g[0] \subseteq g[N]
    BY <2>1, <2>2
  <2> QED
    BY <1>1, <1>3, <2>3
<1>8. Direct(E, After(E, p)) \subseteq After(E, p)
  BY GrowthStops
<1> DEFINE A == After(E, p)
<1> HIDE DEF A
<1>9. /\ \A q : q \in Direct(E, {p}) <=> <<p, q>> \in E
      /\ \A C, q : q \in Direct(E, C) <=> \E t \in C : <<t, q>> \in E
  <2>1. \A C, q : q \in Direct(E, C) <=> \E t \in C : <<t, q>> \in E
    BY DirectIs
  <2>2. ASSUME NEW q
        PROVE  q \in Direct(E, {p}) <=> <<p, q>> \in E
    <3>1. q \in Direct(E, {p}) <=> \E t \in {p} : <<t, q>> \in E
      <4> DEFINE P == {p}
      <4> HIDE DEF P
      <4>1. q \in Direct(E, P) <=> \E t \in P : <<t, q>> \in E
        BY <2>1
      <4> QED
        BY <4>1 DEF P
    <3> QED
      BY <3>1
  <2> QED
    BY <2>1, <2>2
<1>10. ASSUME NEW q, <<p, q>> \in E
       PROVE  q \in A
  BY <1>7, <1>9, <1>10 DEF A
<1>11. ASSUME NEW q, NEW t, q \in A, <<q, t>> \in E
       PROVE  t \in A
  BY <1>8, <1>9, <1>11 DEF A
<1>12. ASSUME NEW C, \A q : <<p, q>> \in E => q \in C,
              \A q, t : q \in C /\ <<q, t>> \in E => t \in C
       PROVE  A \subseteq C
  <2>1. Direct(E, {p}) \subseteq C /\ Direct(E, C) \subseteq C
    BY <1>9, <1>12
  <2> QED
    BY <1>4, <2>1 DEF A
<1> QED
  BY <1>6, <1>10, <1>11, <1>12 DEF A

(* What comes after what comes after p comes after p.                      *)
LEMMA AfterGoesOn ==
  ASSUME NEW E \in SUBSET (Pairs \X Pairs), IsFiniteSet(Pairs), NEW p, NEW q
  PROVE  /\ <<p, q>> \in E => q \in After(E, p)
         /\ <<p, q>> \in E => After(E, q) \subseteq After(E, p)
         /\ q \in After(E, p) => After(E, q) \subseteq After(E, p)
<1>1. /\ \A t : <<p, t>> \in E => t \in After(E, p)
      /\ \A s, t : s \in After(E, p) /\ <<s, t>> \in E => t \in After(E, p)
  BY AfterIsClosed
<1>2. \A C : /\ \A t : <<q, t>> \in E => t \in C
             /\ \A s, t : s \in C /\ <<s, t>> \in E => t \in C
             => After(E, q) \subseteq C
  BY AfterIsClosed
<1>3. q \in After(E, p) => After(E, q) \subseteq After(E, p)
  BY <1>1, <1>2
<1> QED
  BY <1>1, <1>3

(* What comes after p comes after a pair one edge away from p, or is it.   *)
LEMMA AfterBeginsWithEdge ==
  ASSUME NEW E \in SUBSET (Pairs \X Pairs), IsFiniteSet(Pairs), NEW p,
         NEW r \in After(E, p)
  PROVE  \E q : <<p, q>> \in E /\ (r = q \/ r \in After(E, q))
<1> DEFINE C == {t \in Pairs : \E q : <<p, q>> \in E /\ (t = q \/ t \in After(E, q))}
<1>1. \A q, t : <<q, t>> \in E => q \in Pairs /\ t \in Pairs
  OBVIOUS
<1>2. \A t : <<p, t>> \in E => t \in C
  BY <1>1
<1>3. ASSUME NEW s, NEW t, s \in C, <<s, t>> \in E
      PROVE  t \in C
  <2>1. PICK q : <<p, q>> \in E /\ (s = q \/ s \in After(E, q))
    BY <1>3
  <2>2. t \in After(E, q)
    BY <1>3, <2>1, AfterIsClosed
  <2> QED
    BY <1>1, <1>3, <2>1, <2>2
<1>4. After(E, p) \subseteq C
  <2> HIDE DEF C
  <2> QED
    BY <1>2, <1>3, AfterIsClosed
<1> QED
  BY <1>4

(* More edges reach more.                                                  *)
LEMMA AfterMonotone ==
  ASSUME NEW D \in SUBSET (Pairs \X Pairs), NEW E \in SUBSET (Pairs \X Pairs),
         D \subseteq E, IsFiniteSet(Pairs), NEW p
  PROVE  After(D, p) \subseteq After(E, p)
<1>1. /\ \A t : <<p, t>> \in E => t \in After(E, p)
      /\ \A s, t : s \in After(E, p) /\ <<s, t>> \in E => t \in After(E, p)
  BY AfterIsClosed
<1>2. \A C : /\ \A t : <<p, t>> \in D => t \in C
             /\ \A s, t : s \in C /\ <<s, t>> \in D => t \in C
             => After(D, p) \subseteq C
  BY AfterIsClosed
<1> QED
  BY <1>1, <1>2

(* The edges, the other way round.                                         *)
Back(E) == {e \in Pairs \X Pairs : <<e[2], e[1]>> \in E}

LEMMA BackIs ==
  ASSUME NEW E \in SUBSET (Pairs \X Pairs)
  PROVE  /\ Back(E) \in SUBSET (Pairs \X Pairs)
         /\ \A p, q : <<p, q>> \in Back(E) <=> <<q, p>> \in E
         /\ Back(Back(E)) = E
<1>1. \A p, q : <<p, q>> \in Back(E) <=> <<q, p>> \in E
  BY DEF Back
<1>2. Back(E) \in SUBSET (Pairs \X Pairs)
  BY DEF Back
<1>3. \A p, q : <<p, q>> \in Back(Back(E)) <=> <<q, p>> \in Back(E)
  BY <1>2 DEF Back
<1>4. Back(Back(E)) \in SUBSET (Pairs \X Pairs)
  BY DEF Back
<1>5. \A p \in Pairs, q \in Pairs : <<p, q>> \in Back(Back(E)) <=> <<p, q>> \in E
  BY <1>1, <1>3
<1>6. Back(Back(E)) = E
  <2> DEFINE F == Back(Back(E))
  <2> HIDE DEF F
  <2>1. F \in SUBSET (Pairs \X Pairs) /\ \A p \in Pairs, q \in Pairs : <<p, q>> \in F <=> <<p, q>> \in E
    BY <1>4, <1>5 DEF F
  <2>2. F = E
    BY <2>1
  <2> QED
    BY <2>2 DEF F
<1> QED
  BY <1>1, <1>2, <1>6

LEMMA BackHalf ==
  ASSUME NEW E \in SUBSET (Pairs \X Pairs), IsFiniteSet(Pairs), NEW p,
         NEW q \in After(E, p)
  PROVE  p \in After(Back(E), q)
<1> DEFINE B == Back(E)
           C == {t \in Pairs : p \in After(B, t)}
<1>1. B \in SUBSET (Pairs \X Pairs) /\ \A s, t : <<s, t>> \in B <=> <<t, s>> \in E
  BY BackIs
<1>2. \A s, t : <<s, t>> \in E => s \in Pairs /\ t \in Pairs
  OBVIOUS
<1> HIDE DEF B
<1>3. ASSUME NEW t, <<p, t>> \in E
      PROVE  t \in C
  <2>1. <<t, p>> \in B
    BY <1>1, <1>3
  <2> QED
    BY <1>1, <1>2, <1>3, <2>1, AfterGoesOn
<1>4. ASSUME NEW s, NEW t, s \in C, <<s, t>> \in E
      PROVE  t \in C
  <2>1. <<t, s>> \in B
    BY <1>1, <1>4
  <2>2. After(B, s) \subseteq After(B, t)
    BY <1>1, <2>1, AfterGoesOn
  <2> QED
    BY <1>2, <1>4, <2>2
<1>5. After(E, p) \subseteq C
  <2> HIDE DEF C
  <2> QED
    BY <1>3, <1>4, AfterIsClosed
<1> QED
  BY <1>5 DEF B

(* q comes after p exactly when p comes after q the other way round.       *)
LEMMA BackReaches ==
  ASSUME NEW E \in SUBSET (Pairs \X Pairs), IsFiniteSet(Pairs), NEW p, NEW q
  PROVE  q \in After(E, p) <=> p \in After(Back(E), q)
<1>1. Back(E) \in SUBSET (Pairs \X Pairs) /\ Back(Back(E)) = E
  BY BackIs
<1>2. q \in After(E, p) => p \in After(Back(E), q)
  BY BackHalf
<1>3. p \in After(Back(E), q) => q \in After(Back(Back(E)), p)
  BY <1>1, BackHalf
<1> QED
  BY <1>1, <1>2, <1>3

-----------------------------------------------------------------------------
(* Pairs on a cycle through every constraint.                              *)
LEMMA FairLoopsAre ==
  ASSUME NEW E \in SUBSET (Pairs \X Pairs), NEW js \in Seq(SUBSET Pairs), NEW p
  PROVE  p \in FairLoops(js, E) <=>
           /\ p \in Pairs /\ p \in After(E, p)
           /\ \A n \in DOMAIN js : \E q \in js[n] : q \in After(E, p) /\ p \in After(E, q)
<1> DEFINE after == [t \in Pairs |-> After(E, t)]
<1>1. \A t \in Pairs : after[t] = After(E, t)
  OBVIOUS
<1>2. \A n \in DOMAIN js : js[n] \in SUBSET Pairs
  OBVIOUS
<1>3. FairLoops(js, E) =
        {t \in Pairs : /\ t \in after[t]
                       /\ \A n \in DOMAIN js : \E q \in js[n] : q \in after[t] /\ t \in after[q]}
  BY DEF FairLoops
<1> HIDE DEF after
<1> QED
  BY <1>1, <1>2, <1>3

LEMMA FairLoopsTurnRound ==
  ASSUME NEW E \in SUBSET (Pairs \X Pairs), NEW js \in Seq(SUBSET Pairs), IsFiniteSet(Pairs)
  PROVE  FairLoops(js, Back(E)) = FairLoops(js, E)
<1> DEFINE B == Back(E)
<1>1. B \in SUBSET (Pairs \X Pairs)
  BY BackIs
<1>2. \A p, q : q \in After(E, p) <=> p \in After(B, q)
  BY BackReaches
<1> HIDE DEF B
<1>3. ASSUME NEW p
      PROVE  p \in FairLoops(js, B) <=> p \in FairLoops(js, E)
  <2>1. p \in FairLoops(js, B) <=>
           /\ p \in Pairs /\ p \in After(B, p)
           /\ \A n \in DOMAIN js : \E q \in js[n] : q \in After(B, p) /\ p \in After(B, q)
    BY <1>1, FairLoopsAre
  <2>2. p \in FairLoops(js, E) <=>
           /\ p \in Pairs /\ p \in After(E, p)
           /\ \A n \in DOMAIN js : \E q \in js[n] : q \in After(E, p) /\ p \in After(E, q)
    BY FairLoopsAre
  <2> QED
    BY <1>2, <2>1, <2>2
<1> QED
  BY <1>3 DEF B

(* Fewer edges have fewer fair loops.                                      *)
LEMMA FairLoopsMonotone ==
  ASSUME NEW D \in SUBSET (Pairs \X Pairs), NEW E \in SUBSET (Pairs \X Pairs),
         D \subseteq E, NEW js \in Seq(SUBSET Pairs), IsFiniteSet(Pairs)
  PROVE  FairLoops(js, D) \subseteq FairLoops(js, E)
<1>1. \A p : After(D, p) \subseteq After(E, p)
  BY AfterMonotone
<1> SUFFICES ASSUME NEW p \in FairLoops(js, D)
             PROVE  p \in FairLoops(js, E)
  OBVIOUS
<1>2. /\ p \in Pairs /\ p \in After(D, p)
      /\ \A n \in DOMAIN js : \E q \in js[n] : q \in After(D, p) /\ p \in After(D, q)
  BY FairLoopsAre
<1>3. /\ p \in Pairs /\ p \in After(E, p)
      /\ \A n \in DOMAIN js : \E q \in js[n] : q \in After(E, p) /\ p \in After(E, q)
  BY <1>1, <1>2
<1> QED
  BY <1>3, FairLoopsAre

(* The heart of it: from a pair of a set from whose pairs every constraint *)
(* can be met again within the set, a fair loop can be reached.  It lies   *)
(* where as little as possible comes after.                                *)
LEMMA FairLoopIsReached ==
  ASSUME NEW E \in SUBSET (Pairs \X Pairs), NEW js \in Seq(SUBSET Pairs), IsFiniteSet(Pairs),
         NEW X \in SUBSET Pairs,
         \A x \in X : X \cap After(E, x) # {},
         \A x \in X : \A n \in DOMAIN js : X \cap js[n] \cap After(E, x) # {},
         NEW p \in X
  PROVE  \E l \in FairLoops(js, E) : l \in X /\ l \in After(E, p)
<1> DEFINE From == X \cap After(E, p)
           Sizes == {Cardinality(After(E, q)) : q \in From}
<1>1. \A q : After(E, q) \in SUBSET Pairs
  BY AfterIsClosed
<1>2. \A q : IsFiniteSet(After(E, q)) /\ Cardinality(After(E, q)) \in Nat
  BY <1>1, FS_Subset, FS_CardinalityType
<1>3. Sizes \in SUBSET Nat /\ Sizes # {}
  BY <1>2
<1>4. PICK k \in Sizes : \A m \in Sizes : k <= m
  <2> HIDE DEF Sizes
  <2> QED
    BY <1>3, LeastNat
<1>5. PICK q \in From : \A r \in From : Cardinality(After(E, q)) <= Cardinality(After(E, r))
  BY <1>4
<1>6. ASSUME NEW r \in X, r \in After(E, q)
      PROVE  After(E, r) = After(E, q) /\ r \in From
  <2>1. After(E, q) \subseteq After(E, p)
    BY AfterGoesOn
  <2>2. r \in From
    BY <1>6, <2>1
  <2>3. After(E, r) \subseteq After(E, q)
    BY <1>6, AfterGoesOn
  <2>4. Cardinality(After(E, r)) <= Cardinality(After(E, q))
    BY <1>2, <2>3, FS_Subset
  <2>5. Cardinality(After(E, r)) = Cardinality(After(E, q))
    BY <1>2, <1>5, <2>2, <2>4
  <2>6. After(E, q) = After(E, r)
    BY <1>2, <2>3, <2>5, FS_Subset
  <2> QED
    BY <2>2, <2>6
<1>7. PICK l \in X : l \in After(E, q)
  OBVIOUS
<1>8. After(E, l) = After(E, q) /\ l \in From
  BY <1>6, <1>7
<1>9. ASSUME NEW n \in DOMAIN js
      PROVE  \E r \in js[n] : r \in After(E, l) /\ l \in After(E, r)
  <2>1. PICK r \in X : r \in js[n] /\ r \in After(E, l)
    OBVIOUS
  <2>2. After(E, r) = After(E, q)
    BY <1>6, <1>8, <2>1
  <2> QED
    BY <1>7, <2>1, <2>2
<1>10. l \in FairLoops(js, E)
  BY <1>7, <1>8, <1>9, FairLoopsAre
<1> QED
  BY <1>8, <1>10

(***************************************************************************)
(* Steps within a set of pairs, in the direction of a fixpoint.            *)
(***************************************************************************)
Allowed(f, p) == p[1] \in f.invarStates /\ p[2] \in f.invarInputs
Steps(f, d, W) == IF d = "bwd" THEN Edges(f, W) ELSE Back(Edges(f, W))

(* The pairs from which a fair loop can be reached.                        *)
FairFrom(js, E) == {p \in Pairs : \E l \in FairLoops(js, E) : l \in After(E, p)}

LEMMA EdgesAre ==
  ASSUME NEW f \in FsmType, NEW W \in SUBSET Pairs
  PROVE  /\ Edges(f, W) \in SUBSET (Pairs \X Pairs)
         /\ \A p, q : <<p, q>> \in Edges(f, W) <=>
              /\ p \in W /\ q \in W /\ Allowed(f, p) /\ Allowed(f, q)
              /\ <<p[1], p[2], q[1]>> \in f.trans
<1>1. Edges(f, W) \in SUBSET (W \X W)
  BY DEF Edges
<1>2. ASSUME NEW p, NEW q
      PROVE  <<p, q>> \in Edges(f, W) <=>
              /\ p \in W /\ q \in W /\ Allowed(f, p) /\ Allowed(f, q)
              /\ <<p[1], p[2], q[1]>> \in f.trans
  BY DEF Edges, Allowed
<1> QED
  BY <1>1, <1>2

LEMMA StepsAre ==
  ASSUME NEW f \in FsmType, NEW d \in Directions, NEW W \in SUBSET Pairs
  PROVE  /\ Steps(f, d, W) \in SUBSET (Pairs \X Pairs)
         /\ \A p, q : <<p, q>> \in Steps(f, d, W) =>
              p \in W /\ q \in W /\ Allowed(f, p) /\ Allowed(f, q)
<1>1. /\ Edges(f, W) \in SUBSET (Pairs \X Pairs)
      /\ \A p, q : <<p, q>> \in Edges(f, W) =>
              p \in W /\ q \in W /\ Allowed(f, p) /\ Allowed(f, q)
  BY EdgesAre
<1>2. /\ Back(Edges(f, W)) \in SUBSET (Pairs \X Pairs)
      /\ \A p, q : <<p, q>> \in Back(Edges(f, W)) <=> <<q, p>> \in Edges(f, W)
  BY <1>1, BackIs
<1>3. CASE d = "bwd"
  BY <1>1, <1>3 DEF Steps
<1>4. CASE d # "bwd"
  BY <1>1, <1>2, <1>4 DEF Steps
<1> QED
  BY <1>3, <1>4

(* A pair of an image has a step to a pair of the set ...                  *)
LEMMA ImageHasStep ==
  ASSUME NEW f \in FsmType, NEW d \in Directions, NEW r \in BOOLEAN, NEW W \in SUBSET Pairs,
         NEW SI \in SUBSET Pairs, NEW p \in EXorEY(f, d, r, SI), p \in W
  PROVE  /\ Allowed(f, p)
         /\ \E q \in SI : q \in W /\ Allowed(f, q) => <<p, q>> \in Steps(f, d, W)
<1>1. CASE d = "bwd"
  <2>1. p \in WeakBackwardImage(f, StatesOf(SI))
    BY <1>1 DEF EXorEY, Within
  <2>2. PICK t \in StatesOf(SI) \cap f.invarStates : <<p[1], p[2], t>> \in f.trans
    BY <2>1 DEF WeakBackwardImage
  <2>3. PICK q \in SI : t = q[1]
    BY <2>2 DEF StatesOf
  <2>4. Allowed(f, p)
    BY <2>1 DEF WeakBackwardImage, Allowed
  <2>5. <<p[1], p[2], q[1]>> \in f.trans
    BY <2>2, <2>3
  <2>6. q \in W /\ Allowed(f, q) => <<p, q>> \in Edges(f, W)
    BY <2>4, <2>5, EdgesAre
  <2>7. Steps(f, d, W) = Edges(f, W)
    BY <1>1 DEF Steps
  <2> QED
    BY <2>4, <2>6, <2>7
<1>2. CASE d # "bwd"
  <2>1. p \in ForwardImageStatesInputs(f, SI)
    BY <1>2 DEF EXorEY, Within
  <2>2. /\ p[1] \in f.invarStates /\ p[2] \in f.invarInputs
        /\ \E s \in f.invarStates, i \in f.invarInputs : <<s, i>> \in SI /\ <<s, i, p[1]>> \in f.trans
    BY <2>1 DEF ForwardImageStatesInputs
  <2>3. PICK s \in f.invarStates, i \in f.invarInputs : <<s, i>> \in SI /\ <<s, i, p[1]>> \in f.trans
    BY <2>2
  <2> DEFINE q == <<s, i>>
  <2>4. q \in SI /\ q[1] = s /\ q[2] = i
    BY <2>3
  <2> HIDE DEF q
  <2>5. Allowed(f, p) /\ Allowed(f, q)
    BY <2>2, <2>4 DEF Allowed
  <2>6. <<q[1], q[2], p[1]>> \in f.trans
    BY <2>3, <2>4
  <2>7. q \in W => <<q, p>> \in Edges(f, W)
    BY <2>5, <2>6, EdgesAre
  <2>8. Edges(f, W) \in SUBSET (Pairs \X Pairs)
    BY EdgesAre
  <2>9. \A s1, s2 : <<s1, s2>> \in Back(Edges(f, W)) <=> <<s2, s1>> \in Edges(f, W)
    BY <2>8, BackIs
  <2>10. Steps(f, d, W) = Back(Edges(f, W))
    BY <1>2 DEF Steps
  <2> QED
    BY <2>4, <2>5, <2>7, <2>9, <2>10
<1> QED
  BY <1>1, <1>2

(* ... and a pair that has a step to the set is in its image.              *)
LEMMA StepIsImage ==
  ASSUME NEW f \in FsmType, NEW d \in Directions, NEW r \in BOOLEAN, NEW W \in SUBSET Pairs,
         r => W \subseteq ReachablePairs(f),
         NEW SI \in SUBSET Pairs, NEW p, NEW q \in SI, <<p, q>> \in Steps(f, d, W)
  PROVE  p \in EXorEY(f, d, r, SI)
<1>1. p \in W /\ q \in W /\ Allowed(f, p) /\ Allowed(f, q)
  BY StepsAre
<1>2. \A S : p \in S => p \in Within(f, r, S)
  BY <1>1 DEF Within, ReachablePairs
<1>3. p = <<p[1], p[2]>> /\ q = <<q[1], q[2]>>
  BY <1>1 DEF Pairs
<1>4. CASE d = "bwd"
  <2>1. <<p, q>> \in Edges(f, W)
    BY <1>4 DEF Steps
  <2>2. <<p[1], p[2], q[1]>> \in f.trans
    BY <2>1, EdgesAre
  <2>3. q[1] \in StatesOf(SI) \cap f.invarStates
    BY <1>1 DEF StatesOf, Allowed
  <2>4. p \in f.invarStates \X f.invarInputs
    BY <1>1, <1>3 DEF Allowed
  <2>5. p \in WeakBackwardImage(f, StatesOf(SI))
    BY <2>2, <2>3, <2>4 DEF WeakBackwardImage
  <2> QED
    BY <1>2, <1>4, <2>5 DEF EXorEY
<1>5. CASE d # "bwd"
  <2>1. <<p, q>> \in Back(Edges(f, W)) /\ Edges(f, W) \in SUBSET (Pairs \X Pairs)
    BY <1>5, EdgesAre DEF Steps
  <2>2. <<q, p>> \in Edges(f, W)
    BY <2>1, BackIs
  <2>3. <<q[1], q[2], p[1]>> \in f.trans
    BY <2>2, EdgesAre
  <2>4. p[1] \in {t \in f.invarStates : \E s \in f.invarStates, i \in f.invarInputs :
                    <<s, i>> \in SI /\ <<s, i, t>> \in f.trans}
    BY <1>1, <1>3, <2>3 DEF Allowed
  <2>5. p[2] \in f.invarInputs
    BY <1>1 DEF Allowed
  <2>6. p \in ForwardImageStatesInputs(f, SI)
    BY <1>3, <2>4, <2>5 DEF ForwardImageStatesInputs
  <2> QED
    BY <1>2, <1>5, <2>6 DEF EXorEY
<1> QED
  BY <1>4, <1>5

(***************************************************************************)
(* A self-fair set has only pairs from which a fair loop can be reached,   *)
(* and the set of these pairs is self-fair.                                *)
(***************************************************************************)
LEMMA UntilIsReached ==
  ASSUME NEW f \in FsmType, NEW d \in Directions, NEW r \in BOOLEAN, NEW W \in SUBSET Pairs,
         IsFiniteSet(Pairs), NEW space \in SUBSET W, NEW G \in SUBSET W,
         \A g \in G : Allowed(f, g),
         NEW p \in Until(f, d, r, space, G)
  PROVE  p \in G \/ \E g \in G : g \in After(Steps(f, d, W), p)
<1> DEFINE D == Steps(f, d, W)
           C == {t \in Pairs : t \in G \/ \E g \in G : g \in After(D, t)}
<1>1. /\ D \in SUBSET (Pairs \X Pairs)
      /\ \A s, t : <<s, t>> \in D => s \in W /\ t \in W /\ Allowed(f, s) /\ Allowed(f, t)
  BY StepsAre
<1>2. ASSUME NEW s, NEW SI \in SUBSET Pairs, s \in EXorEY(f, d, r, SI), s \in W
      PROVE  /\ Allowed(f, s)
             /\ \E t \in SI : t \in W /\ Allowed(f, t) => <<s, t>> \in D
  BY <1>2, ImageHasStep
<1> HIDE DEF D
<1>3. \A t \in C : t \in W /\ Allowed(f, t)
  <2> SUFFICES ASSUME NEW t \in C, t \notin G
               PROVE  t \in W /\ Allowed(f, t)
    OBVIOUS
  <2>1. PICK g \in G : g \in After(D, t)
    OBVIOUS
  <2>2. PICK q : <<t, q>> \in D
    BY <1>1, <2>1, AfterBeginsWithEdge
  <2> QED
    BY <1>1, <2>2
<1>4. Within(f, r, G) \subseteq C
  <2>1. Within(f, r, G) \subseteq G
    BY DEF Within
  <2> QED
    BY <2>1
<1>5. ASSUME NEW s \in EXorEY(f, d, r, C) \cap space
      PROVE  s \in C
  <2>1. C \in SUBSET Pairs /\ s \in W /\ s \in Pairs
    OBVIOUS
  <2>2. PICK t \in C : t \in W /\ Allowed(f, t) => <<s, t>> \in D
    <3> HIDE DEF C
    <3> QED
      BY <1>2, <2>1
  <2>3. <<s, t>> \in D
    BY <1>3, <2>2
  <2>4. t \in After(D, s) /\ After(D, t) \subseteq After(D, s)
    BY <1>1, <2>3, AfterGoesOn
  <2> QED
    BY <2>1, <2>2, <2>4
<1>6. C \in SUBSET Pairs
  OBVIOUS
<1>7. Until(f, d, r, space, G) \subseteq C
  <2> HIDE DEF C
  <2> QED
    BY <1>4, <1>5, <1>6, UntilIsLeast
<1>8. p \in C
  BY <1>7
<1> QED
  BY <1>8 DEF D

LEMMA SelfFairIsFair ==
  ASSUME NEW f \in FsmType, NEW d \in Directions, NEW r \in BOOLEAN, NEW W \in SUBSET Pairs,
         IsFiniteSet(Pairs), NEW js \in Seq(SUBSET Pairs),
         NEW space \in SUBSET W, NEW X \in SUBSET Pairs, SelfFair(f, js, d, r, space, X)
  PROVE  X \subseteq FairFrom(js, Steps(f, d, W))
<1> DEFINE D == Steps(f, d, W)
           R == Recurring(f, js, d, r, space, X)
<1>1. D \in SUBSET (Pairs \X Pairs)
  BY StepsAre
<1>2. R \in SUBSET Pairs /\ R \subseteq X
  BY DEF Recurring
<1>3. X \subseteq space /\ X \subseteq EXorEY(f, d, r, R)
  BY DEF SelfFair
<1>4. \A n \in DOMAIN js : \A q \in R : q \in Until(f, d, r, space, X \cap js[n])
  BY DEF Recurring
<1> HIDE DEF R
<1>5. ASSUME NEW x \in X
      PROVE  /\ Allowed(f, x) /\ x \in W
             /\ \E q \in R : q \in W /\ Allowed(f, q) => <<x, q>> \in D
  BY <1>2, <1>3, ImageHasStep
<1> HIDE DEF D
<1>6. ASSUME NEW x \in X
      PROVE  \E q \in R : <<x, q>> \in D
  BY <1>2, <1>5
<1>7. \A x \in X : X \cap After(D, x) # {}
  <2> SUFFICES ASSUME NEW x \in X PROVE \E q \in X : q \in After(D, x)
    OBVIOUS
  <2>1. PICK q \in R : <<x, q>> \in D
    BY <1>6
  <2> QED
    BY <1>1, <1>2, <2>1, AfterGoesOn
<1>8. \A x \in X : \A n \in DOMAIN js : X \cap js[n] \cap After(D, x) # {}
  <2> SUFFICES ASSUME NEW x \in X, NEW n \in DOMAIN js
               PROVE  \E g \in X \cap js[n] : g \in After(D, x)
    OBVIOUS
  <2>1. PICK q \in R : <<x, q>> \in D
    BY <1>6
  <2>2. q \in Until(f, d, r, space, X \cap js[n])
    BY <1>4
  <2>3. X \cap js[n] \in SUBSET W /\ \A g \in X \cap js[n] : Allowed(f, g)
    BY <1>5
  <2>4. q \in X \cap js[n] \/ \E g \in X \cap js[n] : g \in After(D, q)
    BY <2>2, <2>3, UntilIsReached DEF D
  <2>5. q \in After(D, x) /\ After(D, q) \subseteq After(D, x)
    BY <1>1, <2>1, AfterGoesOn
  <2> QED
    BY <2>4, <2>5
<1>9. ASSUME NEW p \in X
      PROVE  \E l \in FairLoops(js, D) : l \in X /\ l \in After(D, p)
  BY <1>1, <1>7, <1>8, FairLoopIsReached
<1> QED
  BY <1>9 DEF FairFrom, D

LEMMA FairLoopsType ==
  ASSUME NEW E \in SUBSET (Pairs \X Pairs), NEW js \in Seq(SUBSET Pairs)
  PROVE  /\ FairLoops(js, E) \in SUBSET Pairs
         /\ \A l \in FairLoops(js, E) : l \in After(E, l)
BY FairLoopsAre

(* A pair from which a target can be reached through space is in Until.    *)
LEMMA ReachedIsUntil ==
  ASSUME NEW f \in FsmType, NEW d \in Directions, NEW r \in BOOLEAN, NEW W \in SUBSET Pairs,
         IsFiniteSet(Pairs), r => W \subseteq ReachablePairs(f),
         NEW space, NEW G \in SUBSET W, NEW p, NEW g \in G,
         p = g \/ g \in After(Steps(f, d, W), p),
         \A s : g \in After(Steps(f, d, W), s) => s \in space
  PROVE  p \in Until(f, d, r, space, G)
<1> DEFINE D == Steps(f, d, W)
           U == Until(f, d, r, space, G)
           C == {s \in Pairs : s \in U => s # g /\ g \notin After(D, s)}
<1>1. /\ D \in SUBSET (Pairs \X Pairs)
      /\ \A s, t : <<s, t>> \in D => s \in W /\ t \in W
  BY StepsAre
<1>2. /\ U \in SUBSET Pairs /\ Within(f, r, G) \subseteq U
      /\ EXorEY(f, d, r, U) \cap space \subseteq U
  BY UntilIsClosed
<1>3. G \subseteq U
  <2>1. G \subseteq Within(f, r, G)
    BY DEF Within, ReachablePairs
  <2> QED
    BY <1>2, <2>1
<1> HIDE DEF U
<1>4. ASSUME NEW s, NEW t, <<s, t>> \in D, t \in U, t = g \/ g \in After(D, t)
      PROVE  s \in U /\ g \in After(D, s)
  <2>1. t \in After(D, s) /\ After(D, t) \subseteq After(D, s)
    BY <1>1, <1>4, AfterGoesOn
  <2>2. g \in After(D, s)
    BY <1>4, <2>1
  <2>3. s \in EXorEY(f, d, r, U)
    BY <1>2, <1>4, StepIsImage
  <2> QED
    BY <1>2, <2>2, <2>3
<1> HIDE DEF D
<1>5. CASE p = g
  BY <1>3, <1>5 DEF U
<1>6. CASE g \in After(D, p)
  <2> SUFFICES ASSUME p \notin U PROVE FALSE
    BY DEF U
  <2> DEFINE B == {s \in Pairs : s \in U => s # g /\ g \notin After(D, s)}
  <2>1. ASSUME NEW t, <<p, t>> \in D
        PROVE  t \in B
    BY <1>1, <1>4, <2>1
  <2>2. ASSUME NEW s, NEW t, s \in B, <<s, t>> \in D
        PROVE  t \in B
    BY <1>1, <1>4, <2>2
  <2>3. After(D, p) \subseteq B
    <3> HIDE DEF B
    <3> QED
      BY <1>1, <2>1, <2>2, AfterIsClosed
  <2> QED
    BY <1>3, <1>6, <2>3
<1> QED
  BY <1>5, <1>6 DEF D

LEMMA FairIsSelfFair ==
  ASSUME NEW f \in FsmType, NEW d \in Directions, NEW r \in BOOLEAN, NEW W \in SUBSET Pairs,
         IsFiniteSet(Pairs), NEW js \in Seq(SUBSET Pairs),
         r => W \subseteq ReachablePairs(f),
         NEW space, FairFrom(js, Steps(f, d, W)) \subseteq space
  PROVE  SelfFair(f, js, d, r, space, FairFrom(js, Steps(f, d, W)))
<1> DEFINE D == Steps(f, d, W)
           X == FairFrom(js, D)
<1>1. /\ D \in SUBSET (Pairs \X Pairs)
      /\ \A s, t : <<s, t>> \in D => s \in W /\ t \in W
  BY StepsAre
<1>2. X \in SUBSET Pairs
  BY DEF FairFrom
<1>3. \A p : p \in X <=> p \in Pairs /\ \E l \in FairLoops(js, D) : l \in After(D, p)
  BY DEF FairFrom
<1>4. /\ FairLoops(js, D) \in SUBSET Pairs
      /\ \A l \in FairLoops(js, D) : l \in After(D, l)
  BY <1>1, FairLoopsType
<1>5. \A p, q : q \in After(D, p) /\ q \in X => p \in X
  <2> SUFFICES ASSUME NEW p, NEW q, q \in After(D, p), q \in X
               PROVE  p \in X
    OBVIOUS
  <2>1. PICK l \in FairLoops(js, D) : l \in After(D, q)
    BY <1>3
  <2>2. l \in After(D, p)
    BY <1>1, <2>1, AfterGoesOn
  <2>3. PICK t : <<p, t>> \in D
    BY <1>1, <2>2, AfterBeginsWithEdge
  <2>4. p \in Pairs
    BY <1>1, <2>3
  <2> QED
    BY <1>3, <2>2, <2>4
<1> HIDE DEF D
<1> HIDE DEF X
<1>6. ASSUME NEW q \in X, NEW n \in DOMAIN js
      PROVE  q \in Until(f, d, r, space, X \cap js[n])
  <2>1. PICK l \in FairLoops(js, D) : l \in After(D, q)
    BY <1>3
  <2>2. PICK g \in js[n] : g \in After(D, l) /\ l \in After(D, g)
    BY <1>1, <2>1, FairLoopsAre
  <2>3. g \in X
    <3>1. g \in Pairs
      OBVIOUS
    <3> QED
      BY <1>3, <2>2, <3>1
  <2>4. g \in After(D, q)
    BY <1>1, <2>1, <2>2, AfterGoesOn
  <2>5. \A s : g \in After(D, s) => s \in space
    BY <1>5, <2>3 DEF X, D
  <2>6. X \cap js[n] \in SUBSET W
    <3> SUFFICES ASSUME NEW x \in X PROVE x \in W
      OBVIOUS
    <3>1. PICK k \in FairLoops(js, D) : k \in After(D, x)
      BY <1>3
    <3>2. PICK t : <<x, t>> \in D
      BY <1>1, <3>1, AfterBeginsWithEdge
    <3> QED
      BY <1>1, <3>2
  <2>7. g \in X \cap js[n]
    BY <2>3
  <2> QED
    BY <2>4, <2>5, <2>6, <2>7, ReachedIsUntil DEF D
<1>7. ASSUME NEW p \in X
      PROVE  p \in EXorEY(f, d, r, Recurring(f, js, d, r, space, X))
  <2>1. PICK l \in FairLoops(js, D) : l \in After(D, p)
    BY <1>3
  <2>2. PICK q : <<p, q>> \in D /\ (l = q \/ l \in After(D, q))
    BY <1>1, <2>1, AfterBeginsWithEdge
  <2>3. l \in After(D, q) /\ q \in Pairs
    BY <1>1, <1>4, <2>2
  <2>4. q \in X
    BY <1>3, <2>3
  <2>5. q \in Recurring(f, js, d, r, space, X)
    BY <1>6, <2>4 DEF Recurring
  <2>6. Recurring(f, js, d, r, space, X) \in SUBSET Pairs
    BY <1>2 DEF Recurring
  <2> DEFINE R == Recurring(f, js, d, r, space, X)
  <2> HIDE DEF R
  <2>7. p \in EXorEY(f, d, r, R)
    BY <2>2, <2>5, <2>6, StepIsImage DEF D, R
  <2> QED
    BY <2>7 DEF R
<1> QED
  BY <1>7 DEF SelfFair, X, D

-----------------------------------------------------------------------------
(* With more steps more pairs are fair.                                    *)
LEMMA FairFromMonotone ==
  ASSUME NEW D \in SUBSET (Pairs \X Pairs), NEW E \in SUBSET (Pairs \X Pairs),
         D \subseteq E, NEW js \in Seq(SUBSET Pairs), IsFiniteSet(Pairs)
  PROVE  FairFrom(js, D) \subseteq FairFrom(js, E)
<1>1. \A p : After(D, p) \subseteq After(E, p)
  BY AfterMonotone
<1>2. FairLoops(js, D) \subseteq FairLoops(js, E)
  BY FairLoopsMonotone
<1> QED
  BY <1>1, <1>2 DEF FairFrom

LEMMA EdgesMonotone ==
  ASSUME NEW f \in FsmType, NEW V \in SUBSET Pairs, NEW W \in SUBSET Pairs, V \subseteq W
  PROVE  Edges(f, V) \subseteq Edges(f, W)
<1>1. Edges(f, V) \in SUBSET (Pairs \X Pairs)
  BY EdgesAre
<1>2. \A p, q : <<p, q>> \in Edges(f, V) => <<p, q>> \in Edges(f, W)
  BY EdgesAre
<1> QED
  BY <1>1, <1>2

(* No step leaves the reachable states, so that a fair path from one of    *)
(* them stays among them.                                                  *)
LEMMA FairStaysReachable ==
  ASSUME NEW f \in FsmType, NEW W \in SUBSET Pairs, NEW js \in Seq(SUBSET Pairs),
         IsFiniteSet(Pairs)
  PROVE  FairFrom(js, Edges(f, W)) \cap ReachablePairs(f)
           \subseteq FairFrom(js, Edges(f, W \cap ReachablePairs(f)))
<1> DEFINE RP == ReachablePairs(f)
           E == Edges(f, W)
           D == Edges(f, W \cap RP)
<1>1. /\ E \in SUBSET (Pairs \X Pairs) /\ D \in SUBSET (Pairs \X Pairs)
      /\ \A p, q : <<p, q>> \in E /\ p \in RP => <<p, q>> \in D /\ q \in RP
  <2>1. E \in SUBSET (Pairs \X Pairs) /\ D \in SUBSET (Pairs \X Pairs)
    BY EdgesAre
  <2>2. ASSUME NEW p, NEW q, <<p, q>> \in E, p \in RP
        PROVE  <<p, q>> \in D /\ q \in RP
    <3>1. /\ p \in W /\ q \in W /\ Allowed(f, p) /\ Allowed(f, q)
          /\ <<p[1], p[2], q[1]>> \in f.trans
      BY <2>2, EdgesAre
    <3>2. p[1] \in Reachable(f)
      BY <2>2 DEF ReachablePairs
    <3>3. q[1] \in ForwardImage(f, Reachable(f))
      BY <3>1, <3>2 DEF ForwardImage, Allowed
    <3>4. q[1] \in Reachable(f)
      BY <3>3, ReachableIsClosed DEF Closed
    <3>5. q \in RP
      BY <3>1, <3>4 DEF Pairs, ReachablePairs
    <3> QED
      BY <2>2, <3>1, <3>5, EdgesAre
  <2> QED
    BY <2>1, <2>2
<1> HIDE DEF RP, E, D
<1>2. ASSUME NEW p \in RP
      PROVE  /\ After(E, p) \subseteq RP
             /\ After(E, p) \subseteq After(D, p)
  <2> DEFINE C == After(D, p) \cap RP
  <2>1. \A q : <<p, q>> \in E => q \in C
    BY <1>1, AfterIsClosed
  <2>2. \A q, t : q \in C /\ <<q, t>> \in E => t \in C
    <3> SUFFICES ASSUME NEW q, NEW t, q \in After(D, p), q \in RP, <<q, t>> \in E
                 PROVE  t \in After(D, p) /\ t \in RP
      OBVIOUS
    <3>1. <<q, t>> \in D /\ t \in RP
      BY <1>1
    <3> QED
      BY <1>1, <3>1, AfterIsClosed
  <2>3. After(E, p) \subseteq C
    <3> HIDE DEF C
    <3> QED
      BY <1>1, <2>1, <2>2, AfterIsClosed
  <2> QED
    BY <2>3
<1>3. ASSUME NEW l \in FairLoops(js, E), l \in RP
      PROVE  l \in FairLoops(js, D)
  <2>1. /\ l \in Pairs /\ l \in After(E, l)
        /\ \A n \in DOMAIN js : \E q \in js[n] : q \in After(E, l) /\ l \in After(E, q)
    BY <1>1, FairLoopsAre
  <2>2. \A n \in DOMAIN js : \E q \in js[n] : q \in After(D, l) /\ l \in After(D, q)
    BY <1>2, <1>3, <2>1
  <2> QED
    BY <1>1, <1>2, <1>3, <2>1, <2>2, FairLoopsAre
<1>4. ASSUME NEW p \in FairFrom(js, E) \cap RP
      PROVE  p \in FairFrom(js, D)
  <2>1. PICK l \in FairLoops(js, E) : l \in After(E, p)
    BY DEF FairFrom
  <2>2. p \in Pairs
    BY DEF FairFrom
  <2>3. l \in RP /\ l \in After(D, p)
    BY <1>2, <2>1
  <2>4. l \in FairLoops(js, D)
    BY <1>3, <2>3
  <2> QED
    BY <2>2, <2>3, <2>4 DEF FairFrom
<1> QED
  BY <1>4 DEF RP, E, D

(***************************************************************************)
(* What the caches hold, in terms of paths.                                *)
(***************************************************************************)
LEMMA PairsFinite ==
  ASSUME IsFiniteSet(States), IsFiniteSet(Inputs)
  PROVE  IsFiniteSet(Pairs)
BY FS_Product DEF Pairs

LEMMA ReachablePairsType ==
  ASSUME NEW f
  PROVE  ReachablePairs(f) \in SUBSET Pairs
BY DEF ReachablePairs, Reachable, Pairs

LEMMA FairFromType ==
  ASSUME NEW f \in FsmType, NEW d \in Directions, NEW W \in SUBSET Pairs,
         NEW js, IsFiniteSet(Pairs)
  PROVE  /\ FairFrom(js, Steps(f, d, W)) \in SUBSET W
         /\ \A p \in FairFrom(js, Steps(f, d, W)) : \E q \in W : <<p, q>> \in Steps(f, d, W)
<1>1. /\ Steps(f, d, W) \in SUBSET (Pairs \X Pairs)
      /\ \A s, t : <<s, t>> \in Steps(f, d, W) => s \in W /\ t \in W
  BY StepsAre
<1>2. ASSUME NEW p \in FairFrom(js, Steps(f, d, W))
      PROVE  p \in W /\ \E q \in W : <<p, q>> \in Steps(f, d, W)
  <2>1. PICK l : l \in After(Steps(f, d, W), p)
    BY DEF FairFrom
  <2>2. PICK q : <<p, q>> \in Steps(f, d, W)
    BY <1>1, <2>1, AfterBeginsWithEdge
  <2> QED
    BY <1>1, <2>2
<1> QED
  BY <1>2

LEMMA StepsBackward ==
  ASSUME NEW f, NEW W
  PROVE  Steps(f, "bwd", W) = Edges(f, W)
BY DEF Steps

LEMMA CachedAreFair ==
  ASSUME NEW f \in FsmType, NEW js \in Seq(SUBSET Pairs), IsFiniteSet(Pairs),
         NEW r \in BOOLEAN, NEW X, Greatest(f, js, "bwd", r, Space(f, "bwd", r), X)
  PROVE  /\ X \subseteq FairFrom(js, Edges(f, Pairs))
         /\ FairFrom(js, Edges(f, Pairs)) \cap ReachablePairs(f) \subseteq X
<1>1. "bwd" \in Directions
  BY DEF Directions
<1> DEFINE space == Space(f, "bwd", r)
           RP == ReachablePairs(f)
           Z == FairFrom(js, Edges(f, RP))
<1>2. /\ X \in SUBSET Pairs /\ SelfFair(f, js, "bwd", r, space, X)
      /\ \A Y \in SUBSET Pairs : SelfFair(f, js, "bwd", r, space, Y) => Y \subseteq X
  BY DEF Greatest
<1>3. space \in SUBSET Pairs
  BY <1>1, EXType
<1>4. RP \in SUBSET Pairs
  BY ReachablePairsType
<1>5. X \subseteq FairFrom(js, Edges(f, Pairs))
  <2>1. Pairs \in SUBSET Pairs
    OBVIOUS
  <2> HIDE DEF space
  <2>2. X \subseteq FairFrom(js, Steps(f, "bwd", Pairs))
    BY <1>1, <1>2, <1>3, <2>1, SelfFairIsFair
  <2> QED
    BY <2>2, StepsBackward
<1>6. Z \in SUBSET RP /\ \A p \in Z : \E q \in RP : <<p, q>> \in Edges(f, RP)
  BY <1>1, <1>4, FairFromType, StepsBackward
<1>7. Z \subseteq space
  <2> SUFFICES ASSUME NEW p \in Z PROVE p \in space
    OBVIOUS
  <2>1. PICK q \in RP : <<p, q>> \in Edges(f, RP)
    BY <1>6
  <2>2. <<p[1], p[2], q[1]>> \in f.trans /\ q[1] \in States
    BY <1>4, <2>1, EdgesAre DEF Pairs
  <2>3. p \in RP /\ p \in Pairs
    BY <1>4, <1>6
  <2> HIDE DEF RP, Z
  <2>4. \A S : p \in S => p \in Within(f, r, S)
    BY <2>3 DEF Within, RP, ReachablePairs
  <2> QED
    BY <2>2, <2>3, <2>4 DEF Space, StatesInputsConstraints
<1>8. SelfFair(f, js, "bwd", r, space, Z)
  <2> HIDE DEF space
  <2>1. FairFrom(js, Steps(f, "bwd", RP)) = Z
    BY StepsBackward
  <2> HIDE DEF Z
  <2> QED
    BY <1>1, <1>4, <1>7, <2>1, FairIsSelfFair
<1>9. Z \subseteq X
  BY <1>2, <1>4, <1>6, <1>8
<1>10. FairFrom(js, Edges(f, Pairs)) \cap RP \subseteq Z
  <2>1. Pairs \in SUBSET Pairs /\ Pairs \cap RP = RP
    BY <1>4
  <2> QED
    BY <2>1, FairStaysReachable
<1> QED
  BY <1>5, <1>9, <1>10

LEMMA ReverseCachedAreFair ==
  ASSUME NEW f \in FsmType, NEW js \in Seq(SUBSET Pairs), IsFiniteSet(Pairs),
         NEW X, Greatest(f, js, "fwd", TRUE, Space(f, "fwd", TRUE), X)
  PROVE  X = FairFrom(js, Back(Edges(f, ReachablePairs(f))))
<1>1. "fwd" \in Directions /\ TRUE \in BOOLEAN
  BY DEF Directions
<1> DEFINE space == Space(f, "fwd", TRUE)
           RP == ReachablePairs(f)
           Z == FairFrom(js, Steps(f, "fwd", RP))
<1>2. /\ X \in SUBSET Pairs /\ SelfFair(f, js, "fwd", TRUE, space, X)
      /\ \A Y \in SUBSET Pairs : SelfFair(f, js, "fwd", TRUE, space, Y) => Y \subseteq X
  BY DEF Greatest
<1>3. space \in SUBSET RP
  BY DEF Space, Within, ReachablePairs
<1>4. RP \in SUBSET Pairs
  BY ReachablePairsType
<1>5. Z \in SUBSET RP /\ \A p \in Z : \E q \in RP : <<p, q>> \in Steps(f, "fwd", RP)
  BY <1>1, <1>4, FairFromType
<1>6. X \subseteq Z
  <2> HIDE DEF space, RP, Z
  <2> QED
    BY <1>1, <1>2, <1>3, <1>4, SelfFairIsFair DEF Z
<1>7. Z \subseteq space
  <2> SUFFICES ASSUME NEW p \in Z PROVE p \in space
    OBVIOUS
  <2>1. PICK q \in RP : <<p, q>> \in Steps(f, "fwd", RP)
    BY <1>5
  <2>2. Within(f, TRUE, Pairs) \in SUBSET Pairs /\ q \in Within(f, TRUE, Pairs)
    BY <1>4 DEF Within, ReachablePairs
  <2>3. p \in EXorEY(f, "fwd", TRUE, Within(f, TRUE, Pairs))
    BY <1>1, <1>4, <2>1, <2>2, StepIsImage
  <2>4. p \in ForwardImageStatesInputs(f, Within(f, TRUE, Pairs)) /\ p \in Reachable(f) \X Inputs
    BY <2>3 DEF EXorEY, Within
  <2> QED
    BY <2>4 DEF Space, StatesInputsConstraints, Within
<1>8. SelfFair(f, js, "fwd", TRUE, space, Z)
  <2> HIDE DEF space
  <2> QED
    BY <1>1, <1>4, <1>7, FairIsSelfFair
<1>9. Z \subseteq X
  BY <1>2, <1>4, <1>5, <1>8
<1>10. Steps(f, "fwd", RP) = Back(Edges(f, RP))
  BY DEF Steps
<1> QED
  BY <1>6, <1>9, <1>10

(* The reverse fair pairs are what comes after fair loops.                 *)
LEMMA FairFromTurnedRound ==
  ASSUME NEW E \in SUBSET (Pairs \X Pairs), NEW js \in Seq(SUBSET Pairs), IsFiniteSet(Pairs)
  PROVE  FairFrom(js, Back(E))
           = FairLoops(js, E) \cup UNION {After(E, p) : p \in FairLoops(js, E)}
<1>1. FairLoops(js, Back(E)) = FairLoops(js, E)
  BY FairLoopsTurnRound
<1>2. \A p, q : q \in After(E, p) <=> p \in After(Back(E), q)
  BY BackReaches
<1>3. \A l \in FairLoops(js, E) : l \in Pairs /\ l \in After(E, l)
  BY FairLoopsAre
<1>4. \A p : After(E, p) \in SUBSET Pairs
  BY AfterIsClosed
<1>5. ASSUME NEW p
      PROVE  p \in FairFrom(js, Back(E)) <=> \E l \in FairLoops(js, E) : p \in After(E, l)
  <2>1. p \in FairFrom(js, Back(E)) <=>
          p \in Pairs /\ \E l \in FairLoops(js, E) : l \in After(Back(E), p)
    BY <1>1 DEF FairFrom
  <2> QED
    BY <1>2, <1>4, <2>1
<1>6. ASSUME NEW p
      PROVE  p \in FairLoops(js, E) \cup UNION {After(E, q) : q \in FairLoops(js, E)}
               <=> \E l \in FairLoops(js, E) : p \in After(E, l)
  BY <1>3
<1> QED
  BY <1>5, <1>6

(* The states with a fair path are those of pairs from which a fair loop   *)
(* can be reached.                                                         *)
LEMMA FairWithinIs ==
  ASSUME NEW f \in FsmType, NEW js \in Seq(SUBSET Pairs), NEW S \in SUBSET States
  PROVE  FairWithin(f, js, S) = StatesOf(FairFrom(js, Edges(f, S \X Inputs)))
<1> DEFINE E == Edges(f, S \X Inputs)
           loops == FairLoops(js, E)
<1>1. S \X Inputs \in SUBSET Pairs
  BY DEF Pairs
<1>2. E \in SUBSET (Pairs \X Pairs)
  BY <1>1, EdgesAre
<1>3. \A l \in loops : l \in After(E, l)
  BY <1>2, FairLoopsAre
<1>4. FairWithin(f, js, S) = {p[1] : p \in {p \in Pairs : p \in loops \/ After(E, p) \cap loops # {}}}
  BY DEF FairWithin
<1> HIDE DEF E, loops
<1>5. {p \in Pairs : p \in loops \/ After(E, p) \cap loops # {}} = FairFrom(js, E)
  BY <1>3 DEF FairFrom, loops
<1> QED
  BY <1>4, <1>5 DEF StatesOf, E

(* There is a fair loop among the reachable pairs exactly when an initial  *)
(* state has a fair path.                                                  *)
LEMMA FairLoopIsBehindInit ==
  ASSUME NEW f \in FsmType, NEW js \in Seq(SUBSET Pairs), IsFiniteSet(Pairs)
  PROVE  FairLoops(js, Edges(f, ReachablePairs(f))) = {}
           <=> InitRegion(f) \cap FairWithin(f, js, States) = {}
<1> DEFINE RP == ReachablePairs(f)
           E == Edges(f, Pairs)
           D == Edges(f, RP)
<1>1. RP \in SUBSET Pairs /\ Pairs \in SUBSET Pairs /\ Pairs \cap RP = RP
  BY ReachablePairsType
<1>2. /\ E \in SUBSET (Pairs \X Pairs) /\ D \in SUBSET (Pairs \X Pairs)
      /\ \A p, q : <<p, q>> \in E <=>
           /\ p \in Pairs /\ q \in Pairs /\ Allowed(f, p) /\ Allowed(f, q)
           /\ <<p[1], p[2], q[1]>> \in f.trans
      /\ \A p, q : <<p, q>> \in D => p \in RP /\ Allowed(f, p)
  BY <1>1, EdgesAre
<1>3. D \subseteq E
  BY <1>1, EdgesMonotone
<1>4. FairWithin(f, js, States) = StatesOf(FairFrom(js, E))
  BY FairWithinIs DEF Pairs
<1>5. InitRegion(f) \in SUBSET States /\ InitRegion(f) \subseteq Reachable(f)
      /\ InitRegion(f) \subseteq f.invarStates
  BY InitType, ReachableHasInit DEF InitRegion
<1>6. FairFrom(js, E) \cap RP \subseteq FairFrom(js, D)
  BY <1>1, FairStaysReachable
<1>7. FairLoops(js, D) \subseteq FairLoops(js, E)
  BY <1>2, <1>3, FairLoopsMonotone
<1>8. f.invarStates \in SUBSET States /\ f.invarInputs \in SUBSET Inputs
  BY DEF FsmType
<1> HIDE DEF E, D
<1>9. ASSUME NEW s \in InitRegion(f), s \in FairWithin(f, js, States)
      PROVE  FairLoops(js, D) # {}
  <2>1. PICK p \in FairFrom(js, E) : s = p[1]
    BY <1>4, <1>9 DEF StatesOf
  <2>2. p \in RP
    BY <1>5, <2>1 DEF FairFrom, Pairs, ReachablePairs
  <2>3. p \in FairFrom(js, D)
    BY <1>6, <2>1, <2>2
  <2> QED
    BY <2>3 DEF FairFrom
<1>10. ASSUME NEW l \in FairLoops(js, D)
       PROVE  \E s \in InitRegion(f) : s \in FairWithin(f, js, States)
  <2>1. l \in Pairs /\ l \in After(D, l)
    BY <1>2, FairLoopsAre
  <2>2. l \in RP /\ Allowed(f, l)
    <3>1. PICK q : <<l, q>> \in D
      BY <1>2, <2>1, AfterBeginsWithEdge
    <3> QED
      BY <1>2, <3>1
  <2> DEFINE Begins(p) == \E b \in Pairs : b[1] \in InitRegion(f) /\ (p = b \/ p \in After(E, b))
             C == {t \in States : \A j \in f.invarInputs :
                     t \in f.invarStates => Begins(<<t, j>>)}
  <2>3. InitRegion(f) \subseteq C
    <3> SUFFICES ASSUME NEW s \in InitRegion(f), NEW j \in f.invarInputs
                 PROVE  Begins(<<s, j>>)
      BY <1>5
    <3> DEFINE b == <<s, j>>
    <3>1. b \in Pairs /\ b[1] \in InitRegion(f)
      BY <1>5, <1>8 DEF Pairs
    <3> HIDE DEF b
    <3>2. Begins(b)
      BY <3>1
    <3> QED
      BY <3>2 DEF b
  <2>4. ForwardImage(f, C) \subseteq C
    <3> SUFFICES ASSUME NEW t \in ForwardImage(f, C), NEW j \in f.invarInputs
                 PROVE  t \in States /\ Begins(<<t, j>>)
      BY <1>8 DEF ForwardImage
    <3>1. PICK s \in C \cap f.invarStates, i \in f.invarInputs : <<s, i, t>> \in f.trans
      BY DEF ForwardImage
    <3>2. t \in f.invarStates
      BY DEF ForwardImage
    <3>3. Begins(<<s, i>>)
      BY <3>1
    <3> DEFINE p == <<s, i>>
               q == <<t, j>>
    <3>4. /\ p \in Pairs /\ q \in Pairs /\ p[1] = s /\ p[2] = i /\ q[1] = t /\ q[2] = j
      BY <1>8, <3>1, <3>2 DEF Pairs
    <3> HIDE DEF p, q, C
    <3>5. Allowed(f, p) /\ Allowed(f, q) /\ <<p[1], p[2], q[1]>> \in f.trans
      BY <3>1, <3>2, <3>4 DEF Allowed
    <3>6. <<p, q>> \in E
      BY <1>2, <3>4, <3>5
    <3>7. PICK b \in Pairs : b[1] \in InitRegion(f) /\ (p = b \/ p \in After(E, b))
      BY <3>3 DEF p
    <3>8. q \in After(E, b)
      BY <1>2, <3>6, <3>7, AfterIsClosed
    <3> QED
      BY <1>8, <3>2, <3>7, <3>8 DEF q
  <2>5. Reachable(f) \subseteq C
    <3>1. C \in SUBSET States
      OBVIOUS
    <3> HIDE DEF C
    <3> QED
      BY <2>3, <2>4, <3>1, ReachableIsLeast DEF Closed
  <2>6. l[1] \in Reachable(f) /\ l = <<l[1], l[2]>>
    BY <2>2 DEF ReachablePairs
  <2>7. Begins(l)
    <3>1. l[1] \in C
      BY <2>5, <2>6
    <3>2. Begins(<<l[1], l[2]>>)
      BY <2>2, <3>1 DEF Allowed
    <3> HIDE DEF Begins
    <3> QED
      BY <2>6, <3>2
  <2>8. PICK b \in Pairs : b[1] \in InitRegion(f) /\ (l = b \/ l \in After(E, b))
    BY <2>7
  <2>9. l \in FairLoops(js, E) /\ l \in After(E, l)
    BY <1>2, <1>7, FairLoopsAre
  <2>10. b \in FairFrom(js, E)
    BY <2>8, <2>9 DEF FairFrom
  <2> QED
    BY <1>4, <2>8, <2>10 DEF StatesOf
<1>11. FairLoops(js, D) = {} <=> InitRegion(f) \cap FairWithin(f, js, States) = {}
  BY <1>9, <1>10
<1> QED
  BY <1>11 DEF D

-----------------------------------------------------------------------------
(* For the initial states, what the cache says of EG true is right ...     *)
FairCache(f, js, X) ==
  /\ X \subseteq FairFrom(js, Edges(f, Pairs))
  /\ FairFrom(js, Edges(f, Pairs)) \cap ReachablePairs(f) \subseteq X

LEMMA FairCacheIsRight ==
  ASSUME NEW f \in FsmType, NEW js \in Seq(SUBSET Pairs), IsFiniteSet(Pairs),
         NEW X, FairCache(f, js, X)
  PROVE  InitRegion(f) \cap StatesOf(X) = InitRegion(f) \cap FairWithin(f, js, States)
<1>1. FairWithin(f, js, States) = StatesOf(FairFrom(js, Edges(f, Pairs)))
  BY FairWithinIs DEF Pairs
<1>2. X \subseteq FairFrom(js, Edges(f, Pairs))
  BY DEF FairCache
<1>3. ASSUME NEW p \in FairFrom(js, Edges(f, Pairs)), p[1] \in InitRegion(f)
      PROVE  p \in X
  <2>1. p \in ReachablePairs(f)
    BY <1>3, ReachableHasInit DEF FairFrom, Pairs, ReachablePairs
  <2> QED
    BY <1>3, <2>1 DEF FairCache
<1> QED
  BY <1>1, <1>2, <1>3 DEF StatesOf

(* What a space of eg has to be: within the argument A, with every         *)
(* reachable pair of X that has a step.                                    *)
EgSpaceFits(f, X, A, space) ==
  /\ space \in SUBSET (A \X Inputs)
  /\ \A p \in X \cap (A \X Inputs) \cap ReachablePairs(f) :
       (\E t \in States : <<p[1], p[2], t>> \in f.trans) => p \in space

(* ... and so is what eg computes within it for another argument.          *)
LEMMA EgIsRight ==
  ASSUME NEW f \in FsmType, NEW js \in Seq(SUBSET Pairs), NEW r \in BOOLEAN,
         NEW A \in SUBSET States, NEW X, NEW space, NEW Y,
         IsFiniteSet(Pairs), FairCache(f, js, X), EgSpaceFits(f, X, A, space),
         Greatest(f, js, "bwd", r, space, Y)
  PROVE  InitRegion(f) \cap StatesOf(Y) = InitRegion(f) \cap FairWithin(f, js, A)
<1> DEFINE W == A \X Inputs
           RP == ReachablePairs(f)
           V == W \cap RP
           Z == FairFrom(js, Edges(f, V))
<1>1. "bwd" \in Directions
  BY DEF Directions
<1>2. W \in SUBSET Pairs /\ V \in SUBSET Pairs /\ V \subseteq RP /\ V \subseteq W
      /\ Pairs \in SUBSET Pairs
  BY DEF Pairs
<1>3. FairWithin(f, js, A) = StatesOf(FairFrom(js, Edges(f, W)))
  BY FairWithinIs
<1>4. /\ Y \in SUBSET Pairs /\ SelfFair(f, js, "bwd", r, space, Y)
      /\ \A T \in SUBSET Pairs : SelfFair(f, js, "bwd", r, space, T) => T \subseteq Y
  BY DEF Greatest
<1>5. space \in SUBSET W
  BY DEF EgSpaceFits
<1> HIDE DEF W
<1>6. Y \subseteq FairFrom(js, Edges(f, W))
  <2>1. Y \subseteq FairFrom(js, Steps(f, "bwd", W))
    BY <1>1, <1>2, <1>4, <1>5, SelfFairIsFair
  <2> QED
    BY <2>1, StepsBackward
<1>7. Z \in SUBSET V /\ \A p \in Z : \E q \in V : <<p, q>> \in Edges(f, V)
  <2> HIDE DEF V
  <2>1. Steps(f, "bwd", V) = Edges(f, V)
    BY StepsBackward
  <2>2. /\ FairFrom(js, Steps(f, "bwd", V)) \in SUBSET V
        /\ \A p \in FairFrom(js, Steps(f, "bwd", V)) : \E q \in V : <<p, q>> \in Steps(f, "bwd", V)
    BY <1>1, <1>2, FairFromType
  <2> QED
    BY <2>1, <2>2
<1> HIDE DEF V
<1>8. Z \subseteq X
  <2>1. /\ Edges(f, V) \in SUBSET (Pairs \X Pairs) /\ Edges(f, Pairs) \in SUBSET (Pairs \X Pairs)
    BY <1>2, EdgesAre
  <2>2. Edges(f, V) \subseteq Edges(f, Pairs)
    BY <1>2, EdgesMonotone
  <2>3. Z \subseteq FairFrom(js, Edges(f, Pairs))
    BY <2>1, <2>2, FairFromMonotone
  <2> QED
    BY <1>2, <1>7, <2>3 DEF FairCache
<1>9. Z \subseteq space
  <2> SUFFICES ASSUME NEW p \in Z PROVE p \in space
    OBVIOUS
  <2>1. PICK q \in V : <<p, q>> \in Edges(f, V)
    BY <1>7
  <2>2. <<p[1], p[2], q[1]>> \in f.trans /\ q[1] \in States
    BY <1>2, <2>1, EdgesAre DEF Pairs
  <2>3. p \in RP /\ p \in W /\ p \in X
    BY <1>2, <1>7, <1>8
  <2> QED
    BY <2>2, <2>3 DEF W, EgSpaceFits
<1>10. SelfFair(f, js, "bwd", r, space, Z)
  <2>1. FairFrom(js, Steps(f, "bwd", V)) = Z
    BY StepsBackward
  <2>2. r => V \subseteq ReachablePairs(f)
    BY <1>2
  <2> HIDE DEF Z, V
  <2> QED
    BY <1>1, <1>2, <1>9, <2>1, <2>2, FairIsSelfFair
<1> HIDE DEF Z
<1>11. Z \subseteq Y
  BY <1>2, <1>4, <1>7, <1>10
<1>12. FairFrom(js, Edges(f, W)) \cap RP \subseteq Z
  BY <1>2, FairStaysReachable DEF Z, V
<1>13. ASSUME NEW p \in FairFrom(js, Edges(f, W)), p[1] \in InitRegion(f)
       PROVE  p \in Y
  <2>1. p \in RP
    BY <1>13, ReachableHasInit DEF FairFrom, Pairs, ReachablePairs
  <2> QED
    BY <1>11, <1>12, <1>13, <2>1
<1>14. InitRegion(f) \cap StatesOf(Y) = InitRegion(f) \cap StatesOf(FairFrom(js, Edges(f, W)))
  BY <1>6, <1>13 DEF StatesOf
<1> QED
  BY <1>3, <1>14

LEMMA EgSpaceIs ==
  ASSUME NEW f \in FsmType, NEW r \in BOOLEAN, NEW X, NEW A \in SUBSET States, NEW space,
         space = Within(f, r, StatesInputsConstraints(f, "bwd", r) \cap X \cap (A \X Inputs))
  PROVE  EgSpaceFits(f, X, A, space)
<1>1. space \in SUBSET (A \X Inputs)
  BY DEF Within
<1>2. ASSUME NEW p \in X \cap (A \X Inputs) \cap ReachablePairs(f),
             \E t \in States : <<p[1], p[2], t>> \in f.trans
      PROVE  p \in space
  <2>1. \A S : p \in S => p \in Within(f, r, S)
    BY DEF Within, ReachablePairs
  <2>2. p \in Pairs
    BY DEF Pairs
  <2>3. p \in StatesInputsConstraints(f, "bwd", r)
    BY <1>2, <2>1, <2>2 DEF StatesInputsConstraints
  <2> QED
    BY <2>1, <2>3
<1> QED
  BY <1>1, <1>2 DEF EgSpaceFits

(***************************************************************************)
(* The answers.  Beside FairInv: the forward algorithm only runs for       *)
(* emptiness and with the option set, so that what it caches is cut down   *)
(* to the reachable pairs; a cache holds at most one set, and the states   *)
(* are those of the pairs; while a fixpoint runs for eg the cache it is    *)
(* computed within stays; and eg is right for the initial states.          *)
(***************************************************************************)
ModelInv == fsm \in Machines /\ justice \in Justices

CmdInv ==
  /\ pc # "idle" => cmd \in Commands
  /\ dir = "fwd" => cmd = "emptiness" /\ useReach /\ pc # "idle"

OneInv ==
  \A d \in Directions :
    /\ \A X, Y \in cachedPairs[d] : X = Y
    /\ \A S \in cachedStates[d] : \E X \in cachedPairs[d] : S = StatesOf(X)

ReverseInv ==
  \A X \in cachedPairs["fwd"] :
    Greatest(fsm, justice, "fwd", TRUE, Space(fsm, "fwd", TRUE), X)

SpaceInv ==
  pc \in Loops =>
    /\ goal \in {"fair", "eg"}
    /\ goal = "fair" => cachedPairs[dir] = {}
    /\ goal = "eg" => IsCtl /\ cachedPairs[dir] # {} /\ subspace = EgSpace

EgInv ==
  /\ eg # {} => IsCtl
  /\ \A S, T \in eg : S = T
  /\ \A S \in eg : InitRegion(fsm) \cap S
                     = InitRegion(fsm) \cap FairWithin(fsm, justice, EgArgument)

ReadInv == ModelInv /\ CmdInv /\ OneInv /\ ReverseInv /\ SpaceInv /\ EgInv

(* What the commands know of the cache of the fair pairs.                  *)
LEMMA CacheKnown ==
  ASSUME FairInv, ReadInv, IsFiniteSet(Pairs), NEW X \in cachedPairs["bwd"]
  PROVE  FairCache(fsm, justice, X)
<1>1. fsm \in FsmType /\ justice \in Seq(SUBSET Pairs) /\ "bwd" \in Directions
  BY TypesOf DEF FairInv, Directions
<1>2. PICK r \in BOOLEAN : Greatest(fsm, justice, "bwd", r, Space(fsm, "bwd", r), X)
  BY <1>1 DEF FairInv, CacheInv
<1> QED
  BY <1>1, <1>2, CachedAreFair DEF FairCache

LEMMA ReadInit ==
  ASSUME FairInit
  PROVE  ReadInv
<1>1. ModelInv /\ CmdInv /\ OneInv /\ ReverseInv
  BY DEF FairInit, NoCommand, ModelInv, CmdInv, OneInv, ReverseInv, Directions
<1>2. SpaceInv /\ EgInv
  BY DEF FairInit, NoCommand, SpaceInv, EgInv, Loops
<1> QED
  BY <1>1, <1>2 DEF ReadInv

(* Most steps leave the machine and the caches alone, and end outside the  *)
(* loops with no result of eg.                                             *)
LEMMA ReadKept ==
  ASSUME ReadInv, UNCHANGED <<fsm, justice, caches>>, pc' \notin Loops, CmdInv',
         eg' = {} \/ UNCHANGED <<cmd, arg, eg>>
  PROVE  ReadInv'
<1>1. ModelInv' /\ OneInv' /\ ReverseInv'
  <2>1. UNCHANGED <<fsm, justice, cachedPairs, cachedStates>>
    BY DEF caches
  <2>2. ModelInv /\ OneInv /\ ReverseInv
    BY DEF ReadInv
  <2>3. ModelInv'
    BY <2>1, <2>2 DEF ModelInv
  <2>4. OneInv'
    BY <2>1, <2>2 DEF OneInv
  <2>5. ReverseInv'
    BY <2>1, <2>2 DEF ReverseInv
  <2> QED
    BY <2>3, <2>4, <2>5
<1>2. SpaceInv'
  BY DEF SpaceInv
<1>3. EgInv'
  <2>1. CASE eg' = {}
    BY <2>1 DEF EgInv
  <2>2. CASE UNCHANGED <<cmd, arg, eg>>
    BY <2>2 DEF ReadInv, EgInv, IsCtl, EgArgument
  <2> QED
    BY <2>1, <2>2
<1> QED
  BY <1>1, <1>2, <1>3 DEF ReadInv

(* The steps of the loops keep what surrounds them.                        *)
LEMMA ReadLoops ==
  ASSUME ReadInv,
         UNCHANGED <<fsm, justice, useReach, caches, command, eg, goal, subspace>>,
         pc \in Loops, pc' \in Loops
  PROVE  ReadInv'
<1>1. UNCHANGED <<fsm, justice, useReach, cachedPairs, cachedStates, cmd, arg, dir, eg,
                  goal, subspace>>
  BY DEF caches, command
<1>2. ModelInv' /\ OneInv' /\ ReverseInv'
  <2>1. ModelInv /\ OneInv /\ ReverseInv
    BY DEF ReadInv
  <2>2. ModelInv'
    BY <1>1, <2>1 DEF ModelInv
  <2>3. OneInv'
    BY <1>1, <2>1 DEF OneInv
  <2>4. ReverseInv'
    BY <1>1, <2>1 DEF ReverseInv
  <2> QED
    BY <2>2, <2>3, <2>4
<1>3. CmdInv'
  BY <1>1 DEF ReadInv, CmdInv, Loops
<1>4. SpaceInv'
  BY <1>1 DEF ReadInv, SpaceInv, EgSpace, EgArgument, IsCtl
<1>5. EgInv'
  BY <1>1 DEF ReadInv, EgInv, IsCtl, EgArgument
<1> QED
  BY <1>2, <1>3, <1>4, <1>5 DEF ReadInv

LEMMA ReadStartFixpoint ==
  ASSUME ReadInv, NEW for \in {"fair", "eg"}, NEW space,
         for = "fair" => cachedPairs[dir] = {},
         for = "eg" => IsCtl /\ cachedPairs[dir] # {} /\ space = EgSpace,
         pc = "run", StartFixpoint(for, space)
  PROVE  ReadInv'
<1>1. /\ UNCHANGED <<fsm, justice, useReach, cachedPairs, cachedStates, cmd, arg, dir, eg>>
      /\ pc' = "gfp" /\ goal' = for /\ subspace' = space
  BY DEF StartFixpoint, caches, command
<1>2. ModelInv' /\ OneInv' /\ ReverseInv'
  BY <1>1 DEF ReadInv, ModelInv, OneInv, ReverseInv
<1>3. CmdInv'
  BY <1>1 DEF ReadInv, CmdInv
<1>4. SpaceInv'
  BY <1>1 DEF SpaceInv, EgSpace, EgArgument, IsCtl
<1>5. EgInv'
  BY <1>1 DEF ReadInv, EgInv, IsCtl, EgArgument
<1> QED
  BY <1>2, <1>3, <1>4, <1>5 DEF ReadInv

LEMMA ReadProjectStates ==
  ASSUME FairInv, ReadInv, ProjectStates
  PROVE  ReadInv'
<1>1. /\ UNCHANGED <<fsm, justice, useReach, cachedPairs, cmd, arg, dir, eg, pc>>
      /\ pc = "run" /\ cachedPairs[dir] # {}
      /\ cachedStates' = [cachedStates EXCEPT ![dir] = {StatesOf(UNION cachedPairs[dir])}]
  BY DEF ProjectStates, command
<1>2. dir \in Directions /\ cachedStates \in [Directions -> SUBSET SUBSET States]
  BY DEF FairInv, FairTypeOK
<1>3. OneInv'
  <2> SUFFICES ASSUME NEW d \in Directions, NEW S \in cachedStates'[d]
               PROVE  \E X \in cachedPairs[d] : S = StatesOf(X)
    BY <1>1 DEF ReadInv, OneInv
  <2>1. CASE d = dir
    <3>1. S = StatesOf(UNION cachedPairs[dir])
      BY <1>1, <1>2, <2>1
    <3>2. PICK X \in cachedPairs[dir] : \A Y \in cachedPairs[dir] : X = Y
      BY <1>1, <1>2 DEF ReadInv, OneInv
    <3>3. UNION cachedPairs[dir] = X
      BY <3>2
    <3> QED
      BY <2>1, <3>1, <3>2, <3>3
  <2>2. CASE d # dir
    <3>1. S \in cachedStates[d]
      BY <1>1, <1>2, <2>2
    <3> QED
      BY <3>1 DEF ReadInv, OneInv
  <2> QED
    BY <2>1, <2>2
<1>4. ModelInv' /\ ReverseInv'
  BY <1>1 DEF ReadInv, ModelInv, ReverseInv
<1>5. CmdInv'
  BY <1>1 DEF ReadInv, CmdInv
<1>6. SpaceInv'
  BY <1>1 DEF SpaceInv, Loops
<1>7. EgInv'
  BY <1>1 DEF ReadInv, EgInv, IsCtl, EgArgument
<1> QED
  BY <1>3, <1>4, <1>5, <1>6, <1>7 DEF ReadInv

(* EG true: the fair states.                                               *)
LEMMA ReadEvalEgTrue ==
  ASSUME FairInv, ReadInv, IsFiniteSet(Pairs), EvalEgTrue
  PROVE  ReadInv'
<1>1. /\ UNCHANGED <<fsm, justice, useReach, cachedPairs, cachedStates, cmd, arg, dir, pc>>
      /\ pc = "run" /\ IsCtl /\ EgArgument = States
      /\ cachedStates[dir] # {} /\ eg' = cachedStates[dir]
  BY DEF EvalEgTrue, NeedsEg, EgOfTrue, caches, command
<1>2. dir = "bwd" /\ "bwd" \in Directions
  BY <1>1 DEF FairInv, FairTypeOK, Directions, ReadInv, CmdInv, IsCtl, CtlOperators
<1>3. \A X, Y \in cachedPairs["bwd"] : X = Y
  BY <1>2 DEF ReadInv, OneInv
<1>4. \A S \in eg' : \E X \in cachedPairs["bwd"] : S = StatesOf(X)
  BY <1>1, <1>2 DEF ReadInv, OneInv
<1>5. \A S, T \in eg' : S = T
  BY <1>3, <1>4
<1>6. fsm \in FsmType /\ justice \in Seq(SUBSET Pairs)
  BY TypesOf DEF FairInv
<1>7. ASSUME NEW S \in eg'
      PROVE  InitRegion(fsm) \cap S = InitRegion(fsm) \cap FairWithin(fsm, justice, States)
  <2>1. PICK X \in cachedPairs["bwd"] : S = StatesOf(X)
    BY <1>4
  <2>2. FairCache(fsm, justice, X)
    BY CacheKnown
  <2> QED
    BY <1>6, <2>1, <2>2, FairCacheIsRight
<1>8. EgInv'
  <2>1. EgArgument' = States /\ IsCtl'
    BY <1>1 DEF EgArgument, IsCtl
  <2> QED
    BY <1>1, <1>5, <1>7, <2>1 DEF EgInv
<1>9. ModelInv' /\ OneInv' /\ ReverseInv'
  BY <1>1 DEF ReadInv, ModelInv, OneInv, ReverseInv
<1>10. CmdInv'
  BY <1>1 DEF ReadInv, CmdInv
<1>11. SpaceInv'
  BY <1>1 DEF SpaceInv, Loops
<1> QED
  BY <1>8, <1>9, <1>10, <1>11 DEF ReadInv

(* The space of eg within the fair pairs X, for the argument A.            *)
EgSpaceOf(f, d, r, X, A) ==
  Within(f, r, StatesInputsConstraints(f, d, r) \cap X \cap (A \X Inputs))

LEMMA EgEndIsRight ==
  ASSUME NEW f \in FsmType, NEW js \in Seq(SUBSET Pairs), NEW r \in BOOLEAN,
         NEW A \in SUBSET States, NEW X, NEW Y,
         IsFiniteSet(Pairs), FairCache(f, js, X),
         Greatest(f, js, "bwd", r, EgSpaceOf(f, "bwd", r, X, A), Y)
  PROVE  InitRegion(f) \cap StatesOf(Y) = InitRegion(f) \cap FairWithin(f, js, A)
<1> DEFINE space == EgSpaceOf(f, "bwd", r, X, A)
<1>1. space = Within(f, r, StatesInputsConstraints(f, "bwd", r) \cap X \cap (A \X Inputs))
  BY DEF EgSpaceOf
<1>2. Greatest(f, js, "bwd", r, space, Y)
  OBVIOUS
<1> HIDE DEF space
<1>3. EgSpaceFits(f, X, A, space)
  BY <1>1, EgSpaceIs
<1> QED
  BY <1>2, <1>3, EgIsRight, SMTT(30)

(* The end of a fixpoint: what is cached, or the result of eg.             *)
LEMMA ReadGfpEnd ==
  ASSUME FairInv, ReadInv, IsFiniteSet(Pairs), GfpEnd
  PROVE  ReadInv'
<1>1. /\ UNCHANGED <<fsm, justice, useReach, cachedStates, cmd, arg, dir>>
      /\ pc = "gfp" /\ res = old /\ pc' = "run"
      /\ IF goal = "fair"
           THEN cachedPairs' = [cachedPairs EXCEPT ![dir] = {res}] /\ UNCHANGED eg
           ELSE eg' = {StatesOf(res)} /\ UNCHANGED cachedPairs
  BY DEF GfpEnd, command
<1>2. /\ dir \in Directions /\ cachedPairs \in [Directions -> SUBSET SUBSET Pairs]
      /\ fsm \in FsmType /\ justice \in Seq(SUBSET Pairs) /\ useReach \in BOOLEAN
      /\ arg \in SUBSET States
  BY TypesOf DEF FairInv, FairTypeOK
<1>3. pc \in Loops
  BY <1>1 DEF Loops
<1>4. Greatest(fsm, justice, dir, useReach, subspace, res)
  BY <1>1, FixpointIsGreatest DEF FairInv
<1>5. ModelInv'
  BY <1>1 DEF ReadInv, ModelInv
<1>6. CmdInv'
  BY <1>1 DEF ReadInv, CmdInv
<1>7. SpaceInv'
  BY <1>1 DEF SpaceInv, Loops
<1>8. CASE goal = "fair"
  <2>1. cachedPairs' = [cachedPairs EXCEPT ![dir] = {res}] /\ eg' = eg
    BY <1>1, <1>8
  <2>2. cachedPairs[dir] = {} /\ subspace = Space(fsm, dir, useReach)
    BY <1>3, <1>8 DEF FairInv, LoopInv, GoalInv, ReadInv, SpaceInv
  <2>3. EgInv'
    BY <1>1, <2>1 DEF ReadInv, EgInv, IsCtl, EgArgument
  <2>4. cachedPairs'[dir] = {res} /\ \A d \in Directions \ {dir} : cachedPairs'[d] = cachedPairs[d]
    BY <1>2, <2>1
  <2>5. OneInv'
    <3> SUFFICES ASSUME NEW d \in Directions
                 PROVE  /\ \A X, Y \in cachedPairs'[d] : X = Y
                        /\ \A S \in cachedStates[d] : \E X \in cachedPairs'[d] : S = StatesOf(X)
      BY <1>1 DEF OneInv
    <3>1. CASE d = dir
      <4>1. cachedStates[d] = {}
        BY <2>2, <3>1 DEF ReadInv, OneInv
      <4> QED
        BY <2>4, <3>1, <4>1
    <3>2. CASE d # dir
      BY <2>4, <3>2 DEF ReadInv, OneInv
    <3> QED
      BY <3>1, <3>2
  <2>6. ReverseInv'
    <3> SUFFICES ASSUME NEW X \in cachedPairs'["fwd"]
                 PROVE  Greatest(fsm, justice, "fwd", TRUE, Space(fsm, "fwd", TRUE), X)
      BY <1>1 DEF ReverseInv
    <3>1. CASE dir = "fwd"
      <4>1. useReach = TRUE
        BY <1>2, <3>1 DEF ReadInv, CmdInv
      <4>2. X = res
        BY <2>4, <3>1
      <4> QED
        BY <1>4, <2>2, <3>1, <4>1, <4>2
    <3>2. CASE dir # "fwd"
      <4>1. X \in cachedPairs["fwd"]
        BY <2>4, <3>2 DEF Directions
      <4> QED
        BY <4>1 DEF ReadInv, ReverseInv
    <3> QED
      BY <3>1, <3>2
  <2> QED
    BY <1>5, <1>6, <1>7, <2>3, <2>5, <2>6 DEF ReadInv
<1>9. CASE goal # "fair"
  <2>1. eg' = {StatesOf(res)} /\ cachedPairs' = cachedPairs
    BY <1>1, <1>9
  <2>2. IsCtl /\ cachedPairs[dir] # {} /\ subspace = EgSpace
    BY <1>3, <1>9 DEF ReadInv, SpaceInv
  <2>3. dir = "bwd" /\ "bwd" \in Directions
    BY <1>2, <2>2 DEF Directions, ReadInv, CmdInv, IsCtl, CtlOperators
  <2>4. PICK X \in cachedPairs["bwd"] : \A Y \in cachedPairs["bwd"] : X = Y
    BY <2>2, <2>3 DEF ReadInv, OneInv
  <2>5. UNION cachedPairs["bwd"] = X
    BY <2>4
  <2>6. FairCache(fsm, justice, X)
    BY CacheKnown
  <2>7. EgArgument \in SUBSET States
    BY <1>2 DEF EgArgument
  <2>8. subspace = EgSpaceOf(fsm, "bwd", useReach, X, EgArgument)
    <3>1. EgSpace = EgSpaceOf(fsm, dir, useReach, UNION cachedPairs[dir], EgArgument)
      BY Zenon DEF EgSpace, EgSpaceOf
    <3> QED
      BY <2>2, <2>3, <2>5, <3>1
  <2>9. Greatest(fsm, justice, "bwd", useReach, EgSpaceOf(fsm, "bwd", useReach, X, EgArgument), res)
    BY <1>4, <2>3, <2>8
  <2>10. InitRegion(fsm) \cap StatesOf(res)
           = InitRegion(fsm) \cap FairWithin(fsm, justice, EgArgument)
    BY <1>2, <2>6, <2>7, <2>9, EgEndIsRight, SMTT(30)
  <2>11. EgInv'
    <3>1. EgArgument' = EgArgument /\ IsCtl'
      BY <1>1, <2>2 DEF EgArgument, IsCtl
    <3> QED
      BY <1>1, <2>1, <2>10, <3>1 DEF EgInv
  <2>12. OneInv' /\ ReverseInv'
    BY <1>1, <2>1 DEF ReadInv, OneInv, ReverseInv
  <2> QED
    BY <1>5, <1>6, <1>7, <2>11, <2>12 DEF ReadInv
<1> QED
  BY <1>8, <1>9

(* What stands between the commands: no loop runs after the step.          *)
LEMMA ReadCommands ==
  ASSUME FairInv, ReadInv, Command
  PROVE  ReadInv'
<1>1. ASSUME NEW c \in Commands, NEW d, NEW g, Start(c, d, g)
      PROVE  ReadInv'
  <2>1. /\ UNCHANGED <<fsm, justice, caches>> /\ pc' = "run" /\ eg' = {}
        /\ d = "fwd" => c = "emptiness"
        /\ cmd' = c /\ dir' = d
    BY <1>1 DEF Start
  <2>2. d = "fwd" => useReach'
    BY <1>1, Zenon DEF Start
  <2>3. CmdInv'
    BY <2>1, <2>2 DEF CmdInv
  <2> QED
    BY <2>1, <2>3, ReadKept DEF Loops
<1>2. CASE SetUseReachableStates
  <2>1. /\ UNCHANGED <<fsm, justice, caches, cmd, arg, dir, eg, pc>> /\ pc = "idle"
    BY <1>2 DEF SetUseReachableStates, command
  <2>2. CmdInv'
    BY <2>1 DEF ReadInv, CmdInv
  <2> QED
    BY <2>1, <2>2, ReadKept DEF Loops
<1>3. CASE \E d \in Directions : LanguageEmptiness(d)
  <2>1. "emptiness" \in Commands /\ "emptiness_all" \in Commands
    BY DEF Commands
  <2> QED
    BY <1>1, <1>3, <2>1 DEF LanguageEmptiness
<1>4. CASE PrintFairTransitions
  <2>1. "print_fair_transitions" \in Commands
    BY DEF Commands
  <2> QED
    BY <1>1, <1>4, <2>1 DEF PrintFairTransitions
<1>5. CASE CheckCtlSpec
  <2>1. PICK spec \in CtlSpecs : Start(spec.op, "bwd", spec.set)
    BY <1>5 DEF CheckCtlSpec
  <2>2. spec.op \in Commands
    BY FairAssumption DEF Commands, CtlOperators
  <2> QED
    BY <1>1, <2>1, <2>2
<1> QED
  BY <1>2, <1>3, <1>4, <1>5 DEF Command

LEMMA ReadEnds ==
  ASSUME ReadInv, FinishCheck \/ FinishPrint \/ Interrupt
  PROVE  ReadInv'
<1>1. /\ UNCHANGED <<fsm, justice, caches>>
      /\ pc' = "idle" /\ dir' = "bwd" /\ eg' = {}
  BY DEF FinishCheck, FinishPrint, Interrupt, EndCommand
<1>2. CmdInv'
  BY <1>1 DEF CmdInv
<1> QED
  BY <1>1, <1>2, ReadKept DEF Loops

LEMMA ReadStutter ==
  ASSUME ReadInv, UNCHANGED fairVars
  PROVE  ReadInv'
<1>1. UNCHANGED <<fsm, justice, useReach, caches, command, eg, goal, subspace, pc>>
  BY DEF fairVars, elLocals
<1>2. CASE pc \in Loops
  BY <1>1, <1>2, ReadLoops
<1>3. CASE pc \notin Loops
  <2>1. UNCHANGED <<cmd, arg, dir, useReach, pc>>
    BY <1>1 DEF command
  <2>2. CmdInv'
    BY <2>1 DEF ReadInv, CmdInv
  <2> QED
    BY <1>1, <1>3, <2>1, <2>2, ReadKept
<1> QED
  BY <1>2, <1>3

LEMMA ReadNext ==
  ASSUME FairInv, ReadInv, IsFiniteSet(Pairs), [FairNext]_fairVars
  PROVE  ReadInv'
<1>1. CASE GfpStep \/ NextJustice \/ UntilStep \/ UntilEnd \/ JusticeEnd
  <2>1. /\ UNCHANGED <<fsm, justice, useReach, caches, command, eg, goal, subspace>>
        /\ pc \in Loops /\ pc' \in Loops
    BY <1>1 DEF GfpStep, NextJustice, UntilStep, UntilEnd, JusticeEnd, Loops
  <2> QED
    BY <2>1, ReadLoops
<1>2. CASE StartFair
  <2>1. pc = "run" /\ cachedPairs[dir] = {} /\ StartFixpoint("fair", Space(fsm, dir, useReach))
    BY <1>2 DEF StartFair
  <2> QED
    BY <2>1, ReadStartFixpoint
<1>3. CASE StartEg
  <2>1. pc = "run" /\ IsCtl /\ cachedPairs[dir] # {} /\ StartFixpoint("eg", EgSpace)
    BY <1>3 DEF StartEg, NeedsEg
  <2> QED
    BY <2>1, ReadStartFixpoint
<1> QED
  BY <1>1, <1>2, <1>3, ReadCommands, ReadEnds, ReadStutter, ReadProjectStates,
     ReadEvalEgTrue, ReadGfpEnd DEF FairNext, RunStep

-----------------------------------------------------------------------------
(* The tables that the properties read.                                    *)
LEMMA TablesAre ==
  ASSUME NEW f \in Machines, NEW js \in Justices
  PROVE  /\ \A S \in SUBSET States : FairTable[f][js][S] = FairWithin(f, js, S)
         /\ ReverseTable[f][js]
              = FairLoops(js, Edges(f, ReachablePairs(f)))
                  \cup UNION {After(Edges(f, ReachablePairs(f)), p) :
                                p \in FairLoops(js, Edges(f, ReachablePairs(f)))}
<1>1. FairTable[f][js] = [S \in SUBSET States |-> FairWithin(f, js, S)]
  BY DEF FairTable
<1>2. \A S \in SUBSET States : FairTable[f][js][S] = FairWithin(f, js, S)
  BY <1>1
<1>3. ReverseTable[f][js]
        = FairLoops(js, Edges(f, Reachable(f) \X Inputs))
            \cup UNION {After(Edges(f, Reachable(f) \X Inputs), p) :
                          p \in FairLoops(js, Edges(f, Reachable(f) \X Inputs))}
  BY DEF ReverseTable
<1> QED
  BY <1>2, <1>3 DEF ReachablePairs

(* The reverse fair pairs are what the property says of them.              *)
LEMMA ReverseIsRight ==
  ASSUME FairInv, ReadInv, IsFiniteSet(Pairs), NEW X \in cachedPairs["fwd"]
  PROVE  /\ X = ReverseTable[fsm][justice]
         /\ X = {} <=> FairLoops(justice, Edges(fsm, ReachablePairs(fsm))) = {}
<1> DEFINE E == Edges(fsm, ReachablePairs(fsm))
<1>1. /\ fsm \in FsmType /\ justice \in Seq(SUBSET Pairs)
      /\ fsm \in Machines /\ justice \in Justices
  BY TypesOf DEF FairInv, ReadInv, ModelInv
<1>2. Greatest(fsm, justice, "fwd", TRUE, Space(fsm, "fwd", TRUE), X)
  BY DEF ReadInv, ReverseInv
<1>3. X = FairFrom(justice, Back(E))
  BY <1>1, <1>2, ReverseCachedAreFair
<1>4. E \in SUBSET (Pairs \X Pairs)
  BY <1>1, ReachablePairsType, EdgesAre
<1>5. ReverseTable[fsm][justice]
        = FairLoops(justice, E) \cup UNION {After(E, p) : p \in FairLoops(justice, E)}
  BY <1>1, TablesAre
<1> HIDE DEF E
<1>6. X = FairLoops(justice, E) \cup UNION {After(E, p) : p \in FairLoops(justice, E)}
  BY <1>1, <1>3, <1>4, FairFromTurnedRound
<1>7. X = {} <=> FairLoops(justice, E) = {}
  BY <1>6
<1> QED
  BY <1>5, <1>6, <1>7 DEF E

(* What a command finds when it ends: one set of pairs, and its states.    *)
LEMMA FoundAtEnd ==
  ASSUME FairInv, ReadInv, FinishCheck
  PROVE  \E X \in cachedPairs[dir] : UNION cachedStates[dir] = StatesOf(X)
<1>1. dir \in Directions /\ cachedStates[dir] # {}
  BY DEF FinishCheck, FairInv, FairTypeOK
<1>2. /\ \A X, Y \in cachedPairs[dir] : X = Y
      /\ \A S \in cachedStates[dir] : \E X \in cachedPairs[dir] : S = StatesOf(X)
  BY <1>1 DEF ReadInv, OneInv
<1>3. PICK S : S \in cachedStates[dir]
  BY <1>1
<1>4. PICK X \in cachedPairs[dir] : S = StatesOf(X)
  BY <1>2, <1>3
<1>5. \A T \in cachedStates[dir] : T = S
  BY <1>2, <1>4
<1>6. UNION cachedStates[dir] = S
  BY <1>3, <1>5
<1> QED
  BY <1>4, <1>6

(* The answers of the commands, from what they find.  I are the initial    *)
(* states, F those with a fair path, G those with one in eg's argument.    *)
LEMMA CtlAnswer ==
  ASSUME NEW I \in SUBSET States, NEW F, NEW G, NEW sat, NEW fair, NEW found,
         I \cap fair = I \cap F, I \cap found = I \cap G,
         NEW af \in BOOLEAN,
         NEW right, right = (IF af THEN States \ G ELSE G),
         sat = (IF af THEN States \ found ELSE found)
  PROVE  (I \cap fair) \ sat = {} <=> I \cap F \subseteq right
<1>1. CASE af
  <2>1. sat = States \ found /\ right = States \ G
    BY <1>1
  <2> QED
    BY <2>1
<1>2. CASE ~af
  <2>1. sat = found /\ right = G
    BY <1>2
  <2> QED
    BY <2>1
<1> QED
  BY <1>1, <1>2

LEMMA AnswerIsRight ==
  ASSUME FairInv, ReadInv, IsFiniteSet(Pairs), FinishCheck
  PROVE  answer' = RightAnswer
<1> DEFINE I == InitRegion(fsm)
           FW(S) == FairWithin(fsm, justice, S)
           F == FW(States)
           fair == UNION cachedStates[dir]
<1>1. /\ fsm \in FsmType /\ justice \in Seq(SUBSET Pairs)
      /\ fsm \in Machines /\ justice \in Justices
      /\ dir \in Directions /\ arg \in SUBSET States
  BY TypesOf DEF FairInv, ReadInv, ModelInv, FairTypeOK
<1>2. /\ pc = "run" /\ cmd # "print_fair_transitions" /\ ~NeedsEg
      /\ Report(fair)
  BY DEF FinishCheck
<1>3. cmd \in {"emptiness", "emptiness_all", "EG", "AF"} /\ (dir = "fwd" => cmd = "emptiness")
  BY <1>2 DEF ReadInv, CmdInv, Commands, CtlOperators
<1>4. PICK X \in cachedPairs[dir] : fair = StatesOf(X)
  BY FoundAtEnd
<1>5. \A S \in SUBSET States : FairTable[fsm][justice][S] = FW(S)
  BY <1>1, TablesAre
<1>6. States \in SUBSET States /\ States \ arg \in SUBSET States
  OBVIOUS
<1>7. I \in SUBSET States /\ I \subseteq fsm.invarStates
  BY <1>1, InitType DEF InitRegion
<1>8. RightAnswer =
        CASE cmd = "emptiness"     -> IF I \cap F = {} THEN "empty" ELSE "not empty"
          [] cmd = "emptiness_all" -> IF I \cap F = I THEN "not empty" ELSE "empty"
          [] cmd \in CtlOperators  ->
               IF I \cap F \subseteq (IF cmd = "AF" THEN States \ FW(States \ arg) ELSE FW(arg))
                 THEN "true" ELSE "false"
  <2>1. /\ FairTable[fsm][justice][States] = F
        /\ FairTable[fsm][justice][States \ arg] = FW(States \ arg)
        /\ FairTable[fsm][justice][arg] = FW(arg)
    BY <1>1, <1>5, <1>6
  <2> HIDE DEF F, FW
  <2> QED
    BY <2>1 DEF RightAnswer
<1> HIDE DEF fair, F, FW, I
<1>9. CASE dir = "fwd"
  <2>1. cmd = "emptiness" /\ ~IsCtl
    BY <1>3, <1>9 DEF IsCtl, CtlOperators
  <2>2. answer' = IF fair = {} THEN "empty" ELSE "not empty"
    BY <1>2, <1>9, <2>1 DEF Report, IsEmptyLanguage
  <2>3. X = {} <=> FairLoops(justice, Edges(fsm, ReachablePairs(fsm))) = {}
    BY <1>4, <1>9, ReverseIsRight
  <2>4. fair = {} <=> X = {}
    BY <1>4 DEF StatesOf
  <2>5. FairLoops(justice, Edges(fsm, ReachablePairs(fsm))) = {} <=> I \cap F = {}
    BY <1>1, FairLoopIsBehindInit DEF I, F, FW
  <2>6. RightAnswer = IF I \cap F = {} THEN "empty" ELSE "not empty"
    BY <1>8, <2>1 DEF CtlOperators
  <2> QED
    BY <2>2, <2>3, <2>4, <2>5, <2>6
<1>10. CASE dir # "fwd"
  <2>1. dir = "bwd"
    BY <1>1, <1>10 DEF Directions
  <2>2. FairCache(fsm, justice, X)
    BY <1>4, <2>1, CacheKnown
  <2>3. I \cap fair = I \cap F
    BY <1>1, <1>4, <2>2, FairCacheIsRight DEF I, F, FW
  <2>4. CASE cmd = "emptiness"
    <3>1. answer' = IF I \cap fair = {} THEN "empty" ELSE "not empty"
      BY <1>2, <2>1, <2>4 DEF Report, IsEmptyLanguage, IsCtl, CtlOperators, I
    <3>2. RightAnswer = IF I \cap F = {} THEN "empty" ELSE "not empty"
      BY <1>8, <2>4 DEF CtlOperators
    <3> QED
      BY <2>3, <3>1, <3>2
  <2>5. CASE cmd = "emptiness_all"
    <3>1. answer' = IF ~(I \subseteq fair \cap fsm.invarStates) THEN "empty" ELSE "not empty"
      BY <1>2, <2>1, <2>5 DEF Report, IsEmptyLanguage, IsCtl, CtlOperators, I
    <3>2. RightAnswer = IF I \cap F = I THEN "not empty" ELSE "empty"
      BY <1>8, <2>5 DEF CtlOperators
    <3>3. I \subseteq fair \cap fsm.invarStates <=> I \cap F = I
      BY <1>7, <2>3
    <3> QED
      BY <3>1, <3>2, <3>3
  <2>6. CASE cmd \in CtlOperators
    <3>1. IsCtl /\ eg # {}
      BY <1>2, <2>6 DEF IsCtl, NeedsEg
    <3> DEFINE sat == IF cmd = "AF" THEN States \ UNION eg ELSE UNION eg
               right == IF cmd = "AF" THEN States \ FW(States \ arg) ELSE FW(arg)
               G == FW(EgArgument)
    <3>2. answer' = IF Violations(sat, fair) = {} THEN "true" ELSE "false"
      BY <1>2, <3>1 DEF Report
    <3>3. RightAnswer = IF I \cap F \subseteq right THEN "true" ELSE "false"
      BY <1>8, <2>6 DEF CtlOperators
    <3>4. I \cap UNION eg = I \cap G
      <4>1. PICK S : S \in eg
        BY <3>1
      <4>2. \A T \in eg : T = S
        BY <4>1 DEF ReadInv, EgInv
      <4>3. UNION eg = S
        BY <4>1, <4>2
      <4>4. I \cap S = I \cap G
        BY <4>1 DEF ReadInv, EgInv, I, FW
      <4> QED
        BY <4>3, <4>4
    <3>5. right = IF cmd = "AF" THEN States \ G ELSE G
      BY DEF EgArgument
    <3>6. Violations(sat, fair) = (I \cap fair) \ sat
      BY DEF Violations, I
    <3>7. (I \cap fair) \ sat = {} <=> I \cap F \subseteq right
      <4> DEFINE found == UNION eg
                 af == cmd = "AF"
      <4>1. I \cap found = I \cap G
        BY <3>4
      <4>2. af \in BOOLEAN
        OBVIOUS
      <4>3. sat = (IF af THEN States \ found ELSE found)
        OBVIOUS
      <4>4. right = (IF af THEN States \ G ELSE G)
        BY <3>5
      <4> HIDE DEF found, af, sat, right, G
      <4> QED
        BY <1>7, <2>3, <4>1, <4>2, <4>3, <4>4, CtlAnswer
    <3> HIDE DEF sat, right
    <3> QED
      BY <3>2, <3>3, <3>6, <3>7
  <2> QED
    BY <1>3, <2>4, <2>5, <2>6 DEF CtlOperators
<1> QED
  BY <1>9, <1>10

-----------------------------------------------------------------------------
LEMMA ReadInvariant ==
  ASSUME IsFiniteSet(Pairs)
  PROVE  FairSpec => []ReadInv
<1>1. FairInit => ReadInv
  BY ReadInit
<1>2. FairInv /\ ReadInv /\ [FairNext]_fairVars => ReadInv'
  BY ReadNext
<1> QED
  BY <1>1, <1>2, FairInvariant, PTL DEF FairSpec

(* Every command answers what the definition by lassos says, for any       *)
(* finitely many states and inputs: whichever algorithm runs, whatever an  *)
(* earlier command left in the cache under whatever option.                *)
THEOREM AnswersAreRightCorrect ==
  ASSUME IsFiniteSet(States), IsFiniteSet(Inputs)
  PROVE  FairSpec => AnswersAreRight
<1>1. IsFiniteSet(Pairs)
  BY PairsFinite
<1>2. FairInv /\ ReadInv => [FinishCheck => answer' = RightAnswer]_fairVars
  BY <1>1, AnswerIsRight
<1> QED
  BY <1>1, <1>2, FairInvariant, ReadInvariant, PTL DEF AnswersAreRight

(* The reverse fair pairs that the forward algorithm caches are the        *)
(* reachable fair loops and all that lies behind them.                     *)
THEOREM ReverseFairIsBehindFairCycleCorrect ==
  ASSUME IsFiniteSet(States), IsFiniteSet(Inputs)
  PROVE  FairSpec => []ReverseFairIsBehindFairCycle
<1>1. IsFiniteSet(Pairs)
  BY PairsFinite
<1>2. FairInv /\ ReadInv => ReverseFairIsBehindFairCycle
  BY <1>1, ReverseIsRight DEF ReverseFairIsBehindFairCycle
<1> QED
  BY <1>1, <1>2, FairInvariant, ReadInvariant, PTL
=============================================================================
