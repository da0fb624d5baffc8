----------------------------- MODULE Fsm_proofs -----------------------------
(* Facts about images, onion rings and reachability that the proofs about  *)
(* the analyses cite.                                                      *)
EXTENDS Fsm, FiniteSetTheorems, WellFoundedInduction, TLAPS

(* A larger set has a larger image.                                        *)
LEMMA ImageMonotone ==
  ASSUME NEW f, NEW A, NEW B, A \subseteq B
  PROVE  ForwardImage(f, A) \subseteq ForwardImage(f, B)
BY DEF ForwardImage

(* An image consists of states that satisfy the constraints.               *)
LEMMA ImageType ==
  ASSUME NEW f \in FsmType, NEW A
  PROVE  ForwardImage(f, A) \in SUBSET States
BY DEF ForwardImage, FsmType

(* The initial region is a set of states.                                  *)
LEMMA InitType ==
  ASSUME NEW f \in FsmType
  PROVE  InitRegion(f) \in SUBSET States
BY DEF InitRegion, FsmType

(* Reachable is the least closed set around the initial region.            *)
LEMMA ReachableHasInit ==
  ASSUME NEW f \in FsmType
  PROVE  InitRegion(f) \subseteq Reachable(f)
BY InitType DEF Reachable

(* No transition leaves the reachable states.                              *)
LEMMA ReachableIsClosed ==
  ASSUME NEW f \in FsmType
  PROVE  Closed(f, Reachable(f))
<1> SUFFICES ASSUME NEW t \in ForwardImage(f, Reachable(f)),
                    NEW C \in SUBSET States,
                    InitRegion(f) \subseteq C, Closed(f, C)
             PROVE  t \in C
  BY ImageType DEF Closed, Reachable
<1>1. Reachable(f) \subseteq C
  BY DEF Reachable
<1>2. ForwardImage(f, Reachable(f)) \subseteq ForwardImage(f, C)
  BY <1>1, ImageMonotone
<1> QED
  BY <1>2 DEF Closed

(* Every closed set around the initial region has all reachable states.    *)
LEMMA ReachableIsLeast ==
  ASSUME NEW f, NEW C \in SUBSET States,
         InitRegion(f) \subseteq C, Closed(f, C)
  PROVE  Reachable(f) \subseteq C
BY DEF Reachable

(* Imaging the last frontier adds as much as imaging the whole last layer: *)
(* the step every traversal makes keeps the list an onion.                 *)
LEMMA FrontierStep ==
  ASSUME NEW f \in FsmType, NEW l \in Seq(SUBSET States), l # <<>>, IsOnion(f, l)
  PROVE  LET reached == LastLayer(l) \cup ForwardImage(f, LastFrontier(l))
         IN  /\ reached = LastLayer(l) \cup ForwardImage(f, LastLayer(l))
             /\ reached \in SUBSET States
             /\ IsOnion(f, Append(l, reached))
             /\ LastFrontier(Append(l, reached)) = reached \ LastLayer(l)
<1> DEFINE reached == LastLayer(l) \cup ForwardImage(f, LastFrontier(l))
<1>1. Len(l) \in Nat /\ Len(l) > 0
  OBVIOUS
<1>2. LastLayer(l) = l[Len(l)] /\ LastLayer(l) \in SUBSET States
  BY <1>1 DEF LastLayer
<1>3. reached = LastLayer(l) \cup ForwardImage(f, LastLayer(l))
  <2>1. CASE Len(l) = 1
    BY <1>1, <2>1 DEF LastFrontier
  <2>2. CASE Len(l) > 1
    <3>1. LastFrontier(l) = l[Len(l)] \ l[Len(l) - 1]
      BY <2>2 DEF LastFrontier
    <3>2. l[Len(l)] = l[Len(l) - 1] \cup ForwardImage(f, l[Len(l) - 1])
      <4>1. Len(l) - 1 \in 1 .. Len(l) - 1
        BY <1>1, <2>2
      <4>2. l[(Len(l) - 1) + 1] = l[Len(l) - 1] \cup ForwardImage(f, l[Len(l) - 1])
        BY <4>1 DEF IsOnion
      <4> QED
        BY <4>2, <1>1
    <3>3. ForwardImage(f, l[Len(l)]) \subseteq
            ForwardImage(f, LastFrontier(l)) \cup ForwardImage(f, l[Len(l) - 1])
      BY <3>1 DEF ForwardImage
    <3>4. ForwardImage(f, LastFrontier(l)) \subseteq ForwardImage(f, l[Len(l)])
      BY <3>1, ImageMonotone
    <3> QED
      BY <1>2, <3>2, <3>3, <3>4
  <2>3. \A k \in Nat : k > 0 => k = 1 \/ k > 1
    OBVIOUS
  <2>4. Len(l) = 1 \/ Len(l) > 1
    BY <1>1, <2>3
  <2> QED
    BY <2>1, <2>2, <2>4
<1>4. reached \in SUBSET States
  BY <1>2, ImageType
<1> HIDE DEF reached
<1> DEFINE m == Append(l, reached)
<1>5. /\ m \in Seq(SUBSET States) /\ Len(m) = Len(l) + 1
      /\ m[Len(l) + 1] = reached
      /\ \A n \in 1 .. Len(l) : m[n] = l[n]
  BY <1>4
<1>6. IsOnion(f, m)
  <2>1. m[1] = InitRegion(f)
    BY <1>1, <1>5 DEF IsOnion
  <2>2. ASSUME NEW n \in 1 .. Len(m) - 1
        PROVE  m[n + 1] = m[n] \cup ForwardImage(f, m[n])
    <3>1. CASE n = Len(l)
      BY <3>1, <1>1, <1>2, <1>3, <1>5
    <3>2. CASE n \in 1 .. Len(l) - 1
      <4>1. n \in 1 .. Len(l) /\ n + 1 \in 1 .. Len(l)
        BY <3>2, <1>1
      <4>2. m[n] = l[n] /\ m[n + 1] = l[n + 1]
        BY <4>1, <1>5
      <4> QED
        BY <3>2, <4>2 DEF IsOnion
    <3> QED
      BY <3>1, <3>2, <1>1, <1>5
  <2> HIDE DEF m
  <2> QED
    BY <2>1, <2>2 DEF IsOnion
<1>7. LastFrontier(m) = reached \ LastLayer(l)
  <2>1. Len(m) > 1 /\ Len(m) - 1 = Len(l) /\ m[Len(m)] = reached /\ m[Len(m) - 1] = l[Len(l)]
    BY <1>1, <1>5
  <2> HIDE DEF m
  <2> QED
    BY <2>1, <1>2 DEF LastFrontier
<1> QED
  BY <1>3, <1>4, <1>6, <1>7 DEF reached, m

(* The image of a set is made of the images of its states.                 *)
LEMMA ImageFromState ==
  ASSUME NEW f, NEW S, NEW t
  PROVE  t \in ForwardImage(f, S) <=> \E s \in S : t \in ForwardImage(f, {s})
BY DEF ForwardImage

-----------------------------------------------------------------------------
(* Every set of numbers that is not empty has a least element.  The        *)
(* library's induction takes a predicate as a parameter, which the provers *)
(* cannot instantiate: here the segments 0 .. n are a well-founded family  *)
(* of finite sets.                                                         *)
LEMMA LeastNat ==
  ASSUME NEW S \in SUBSET Nat, S # {}
  PROVE  \E n \in S : \A m \in S : n <= m
<1> DEFINE R == StrictSubsetOrdering(Nat)
           T == {0 .. n : n \in S}
<1>1. IsWellFoundedOn(R, FiniteSubsetsOf(Nat))
  BY FS_StrictSubsetOrderingWellFounded
<1>2. T \subseteq FiniteSubsetsOf(Nat)
  <2>1. \A n \in S : IsFiniteSet(0 .. n) /\ 0 .. n \subseteq Nat
    BY FS_Interval
  <2> QED
    BY <2>1 DEF FiniteSubsetsOf
<1>3. T # {}
  OBVIOUS
<1>4. \E x \in T : \A y \in T : ~(<<y, x>> \in R)
  <2> HIDE DEF R, T
  <2> QED
    BY <1>1, <1>2, <1>3, WFMin
<1>5. PICK n \in S : \A y \in T : ~(<<y, 0 .. n>> \in R)
  BY <1>4
<1>6. ASSUME NEW m \in S, ~(n <= m)
      PROVE  FALSE
  <2>1. 0 .. m \subseteq 0 .. n /\ n \in 0 .. n /\ n \notin 0 .. m
    BY <1>6
  <2>2. 0 .. m \in SUBSET Nat /\ 0 .. n \in SUBSET Nat
    OBVIOUS
  <2>3. 0 .. m # 0 .. n
    BY <2>1
  <2>4. <<0 .. m, 0 .. n>> \in R
    BY <2>1, <2>2, <2>3 DEF StrictSubsetOrdering
  <2> QED
    BY <1>5, <2>4
<1> QED
  BY <1>6
=============================================================================
