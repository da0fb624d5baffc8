--------------------------- MODULE BddReach_proofs ---------------------------
(* Proofs about the reachability analysis: type correctness, the           *)
(* correctness of the cached layers, and the implementation of OnionCache. *)
EXTENDS BddReach, Fsm_proofs, SequenceTheorems

(***************************************************************************)
(* The inductive invariant.  Its parts about the running loop say why the  *)
(* step at the fixpoint may drop the last ring: the frontier is the        *)
(* difference of the last two rings, the rings extend the cached layers,   *)
(* and an empty frontier means that there is a ring the cache has not.     *)
(***************************************************************************)
Between(f, l) ==
  \A n \in 1 .. Len(l) : InitRegion(f) \subseteq l[n] /\ l[n] \subseteq Reachable(f)

CompleteIsClosed ==
  computed => /\ InitRegion(fsm) \subseteq LastLayer(layers)
              /\ Closed(fsm, LastLayer(layers))

IdleIsClean == pc = "idle" => rings = <<>> /\ frontier = {}

RingsExtendLayers ==
  Len(layers) <= Len(rings) /\ \A n \in 1 .. Len(layers) : rings[n] = layers[n]

LoopInv ==
  pc = "expand" =>
    /\ frontier = LastFrontier(rings)
    /\ RingsExtendLayers
    /\ rings = <<>> => InitRegion(fsm) = {}
    /\ frontier = {} /\ rings # <<>> => Len(rings) > 1 /\ Len(layers) < Len(rings)
    /\ computed => layers = <<>> /\ rings = <<>>

ReachInv ==
  /\ ReachTypeOK
  /\ LayersAreOnion
  /\ PartialHasFrontier
  /\ Between(fsm, layers) /\ Between(fsm, rings)
  /\ CompleteIsClosed
  /\ IdleIsClean
  /\ LoopInv

-----------------------------------------------------------------------------
(* WithoutLast drops the last element and nothing else.                    *)
LEMMA WithoutLastFacts ==
  ASSUME NEW l \in Seq(SUBSET States), l # <<>>
  PROVE  /\ WithoutLast(l) \in Seq(SUBSET States)
         /\ Len(WithoutLast(l)) = Len(l) - 1
         /\ \A n \in 1 .. Len(l) - 1 : WithoutLast(l)[n] = l[n]
<1> DEFINE k == Len(l) - 1
<1>1. Len(l) \in Nat /\ Len(l) > 0
  OBVIOUS
<1>2. k \in Nat /\ k + 1 = Len(l) /\ WithoutLast(l) = SubSeq(l, 1, k)
  BY <1>1 DEF WithoutLast
<1> HIDE DEF k
<1>3. \A n \in 1 .. k : l[n] \in SUBSET States
  BY <1>2
<1>4. /\ SubSeq(l, 1, k) \in Seq(SUBSET States)
      /\ Len(SubSeq(l, 1, k)) = IF 1 <= k THEN k - 1 + 1 ELSE 0
      /\ \A n \in 1 .. k - 1 + 1 : SubSeq(l, 1, k)[n] = l[1 + n - 1]
  BY <1>2, <1>3, SubSeqProperties
<1>5. Len(SubSeq(l, 1, k)) = k
  BY <1>2, <1>4
<1>6. ASSUME NEW n \in 1 .. k
      PROVE  SubSeq(l, 1, k)[n] = l[n]
  <2>1. n \in 1 .. k - 1 + 1 /\ 1 + n - 1 = n
    BY <1>2
  <2> QED
    BY <1>4, <2>1
<1> QED
  BY <1>2, <1>4, <1>5, <1>6 DEF k

(* A list that is cut at the end stays an onion, and at the fixpoint the   *)
(* last layer that is left is closed.                                      *)
LEMMA FixpointIsClosed ==
  ASSUME NEW f \in FsmType, NEW l \in Seq(SUBSET States), Len(l) > 1,
         IsOnion(f, l), LastFrontier(l) = {}
  PROVE  /\ IsOnion(f, WithoutLast(l))
         /\ LastLayer(WithoutLast(l)) = l[Len(l) - 1]
         /\ Closed(f, l[Len(l) - 1])
<1>1. Len(l) \in Nat /\ l # <<>>
  OBVIOUS
<1>2. /\ WithoutLast(l) \in Seq(SUBSET States)
      /\ Len(WithoutLast(l)) = Len(l) - 1
      /\ \A n \in 1 .. Len(l) - 1 : WithoutLast(l)[n] = l[n]
  BY <1>1, WithoutLastFacts
<1>3. IsOnion(f, WithoutLast(l))
  <2>1. WithoutLast(l)[1] = InitRegion(f)
    BY <1>1, <1>2 DEF IsOnion
  <2>2. ASSUME NEW n \in 1 .. Len(WithoutLast(l)) - 1
        PROVE  WithoutLast(l)[n + 1] = WithoutLast(l)[n] \cup ForwardImage(f, WithoutLast(l)[n])
    <3>1. n \in 1 .. Len(l) - 1 /\ n + 1 \in 1 .. Len(l) - 1
      BY <1>1, <1>2
    <3>2. WithoutLast(l)[n] = l[n] /\ WithoutLast(l)[n + 1] = l[n + 1]
      BY <1>2, <3>1
    <3>3. l[n + 1] = l[n] \cup ForwardImage(f, l[n])
      BY <3>1 DEF IsOnion
    <3> QED
      BY <3>2, <3>3
  <2> QED
    BY <2>1, <2>2 DEF IsOnion
<1>4. LastLayer(WithoutLast(l)) = l[Len(l) - 1]
  <2>1. WithoutLast(l) # <<>> /\ Len(l) - 1 \in 1 .. Len(l) - 1
    BY <1>1, <1>2
  <2> QED
    BY <1>2, <2>1 DEF LastLayer
<1>5. Closed(f, l[Len(l) - 1])
  <2>1. l[Len(l)] \subseteq l[Len(l) - 1]
    BY DEF LastFrontier
  <2>2. Len(l) - 1 \in 1 .. Len(l) - 1
    BY <1>1
  <2>3. l[(Len(l) - 1) + 1] = l[Len(l) - 1] \cup ForwardImage(f, l[Len(l) - 1])
    BY <2>2 DEF IsOnion
  <2>4. (Len(l) - 1) + 1 = Len(l)
    BY <1>1
  <2> QED
    BY <2>1, <2>3, <2>4 DEF Closed
<1> QED
  BY <1>3, <1>4, <1>5

(* What the last ring and a new one satisfy.                               *)
LEMMA ExtendBetween ==
  ASSUME NEW f \in FsmType, NEW l \in Seq(SUBSET States), l # <<>>, Between(f, l)
  PROVE  LET reached == LastLayer(l) \cup ForwardImage(f, LastLayer(l))
         IN  Between(f, Append(l, reached))
<1> DEFINE reached == LastLayer(l) \cup ForwardImage(f, LastLayer(l))
<1>1. Len(l) \in Nat /\ Len(l) > 0 /\ Len(l) \in 1 .. Len(l)
  OBVIOUS
<1>2. LastLayer(l) = l[Len(l)] /\ LastLayer(l) \in SUBSET States
  BY <1>1 DEF LastLayer
<1>3. InitRegion(f) \subseteq LastLayer(l) /\ LastLayer(l) \subseteq Reachable(f)
  BY <1>1, <1>2 DEF Between
<1>4. ForwardImage(f, LastLayer(l)) \subseteq ForwardImage(f, Reachable(f))
  BY <1>3, ImageMonotone
<1>5. ForwardImage(f, Reachable(f)) \subseteq Reachable(f)
  BY ReachableIsClosed DEF Closed
<1>6. InitRegion(f) \subseteq reached /\ reached \subseteq Reachable(f)
  BY <1>3, <1>4, <1>5
<1>7. reached \in SUBSET States
  BY <1>2, ImageType
<1> HIDE DEF reached
<1> DEFINE m == Append(l, reached)
<1>8. /\ Len(m) = Len(l) + 1 /\ m[Len(l) + 1] = reached
      /\ \A n \in 1 .. Len(l) : m[n] = l[n]
  BY <1>7
<1> HIDE DEF m
<1>9. ASSUME NEW n \in 1 .. Len(m)
      PROVE  InitRegion(f) \subseteq m[n] /\ m[n] \subseteq Reachable(f)
  <2>1. n = Len(l) + 1 \/ n \in 1 .. Len(l)
    BY <1>1, <1>8
  <2> QED
    BY <2>1, <1>6, <1>8 DEF Between
<1> QED
  BY <1>9 DEF Between, m, reached

-----------------------------------------------------------------------------
(* Without a layer there is nothing to violate.                            *)
LEMMA EmptyRings ==
  <<>> \in Seq(SUBSET States) /\ \A f : IsOnion(f, <<>>) /\ Between(f, <<>>)
<1>1. <<>> \in Seq(SUBSET States)
  OBVIOUS
<1> QED
  BY <1>1 DEF IsOnion, Between

(* The initial region by itself is a list of layers to start from.         *)
LEMMA OneRing ==
  ASSUME NEW S \in SUBSET States
  PROVE  /\ <<S>> \in Seq(SUBSET States) /\ Len(<<S>>) = 1 /\ <<S>>[1] = S
         /\ LastFrontier(<<S>>) = S /\ LastLayer(<<S>>) = S
         /\ \A f : InitRegion(f) = S => IsOnion(f, <<S>>)
<1>1. <<S>> \in Seq(SUBSET States) /\ Len(<<S>>) = 1 /\ <<S>>[1] = S
  OBVIOUS
<1> QED
  BY <1>1 DEF LastFrontier, LastLayer, IsOnion

(* A call starts from the cached layers or from the initial region.        *)
LEMMA StartKeepsInv ==
  ASSUME MachinesAssumption, BoundsAssumption, ReachInv, ComputeReachable
  PROVE  ReachInv'
<1> PICK k \in Bounds \cup {NoLimit}, limited \in BOOLEAN : StartExpand(k, limited)
  BY DEF ComputeReachable
<1>1. /\ pc = "idle" /\ pc' = "expand" /\ NeedsExpansion
      /\ rings' = IF Len(layers) > 0 THEN layers ELSE FirstRing
      /\ frontier' = LastFrontier(rings') /\ steps' = k /\ timed' = limited
      /\ fsm' = fsm /\ layers' = layers /\ computed' = computed
  BY DEF StartExpand, cache
<1>2. fsm \in FsmType /\ layers \in Seq(SUBSET States) /\ computed \in BOOLEAN
  BY DEF ReachInv, ReachTypeOK, DataTypeOK
<1>3. CASE layers # <<>>
  <2>1. Len(layers) \in Nat /\ Len(layers) > 0
    BY <1>2, <1>3
  <2>2. ~computed /\ rings' = layers
    BY <1>1, <2>1 DEF NeedsExpansion
  <2>3. frontier' # {}
    BY <1>1, <1>3, <2>2 DEF ReachInv, PartialHasFrontier
  <2>4. frontier' \in SUBSET States
    BY <1>1, <1>2, <2>1, <2>2 DEF LastFrontier, LastLayer
  <2>5. ReachTypeOK'
    BY <1>1, <1>2, <2>2, <2>4 DEF ReachTypeOK, DataTypeOK, BoundsAssumption, NoLimit
  <2>6. LayersAreOnion' /\ PartialHasFrontier' /\ Between(fsm', layers') /\ Between(fsm', rings')
    BY <1>1, <2>2 DEF ReachInv, LayersAreOnion, PartialHasFrontier, Between, IsOnion
  <2>7. LoopInv'
    BY <1>1, <1>3, <2>1, <2>2, <2>3 DEF LoopInv, RingsExtendLayers
  <2> QED
    BY <1>1, <2>5, <2>6, <2>7 DEF ReachInv, CompleteIsClosed, IdleIsClean
<1>4. CASE layers = <<>>
  <2>1. rings' = FirstRing /\ Len(layers) = 0
    BY <1>1, <1>4
  <2>2. CASE InitRegion(fsm) = {}
    <3>1. rings' = <<>> /\ frontier' = {}
      BY <1>1, <2>1, <2>2 DEF FirstRing, LastFrontier, LastLayer
    <3>2. ReachTypeOK'
      BY <1>1, <1>2, <3>1 DEF ReachTypeOK, DataTypeOK, BoundsAssumption, NoLimit
    <3>3. LayersAreOnion' /\ PartialHasFrontier' /\ Between(fsm', layers') /\ Between(fsm', rings')
      BY <1>1, <1>4, <3>1 DEF ReachInv, LayersAreOnion, PartialHasFrontier, Between, IsOnion
    <3>4. LoopInv'
      BY <1>1, <1>4, <2>2, <3>1 DEF LoopInv, RingsExtendLayers
    <3> QED
      BY <1>1, <3>2, <3>3, <3>4 DEF ReachInv, CompleteIsClosed, IdleIsClean
  <2>3. CASE InitRegion(fsm) # {}
    <3>1. /\ rings' = <<InitRegion(fsm)>> /\ Len(rings') = 1 /\ rings'[1] = InitRegion(fsm)
          /\ frontier' = InitRegion(fsm)
      BY <1>1, <2>1, <2>3 DEF FirstRing, LastFrontier, LastLayer
    <3>2. InitRegion(fsm) \in SUBSET States /\ InitRegion(fsm) \subseteq Reachable(fsm)
      BY <1>2, InitType, ReachableHasInit
    <3>3. ReachTypeOK'
      BY <1>1, <1>2, <3>1, <3>2, OneRing DEF ReachTypeOK, DataTypeOK, BoundsAssumption, NoLimit
    <3>4. LayersAreOnion' /\ PartialHasFrontier'
      BY <1>1, <1>4, <3>1, <3>2, OneRing DEF ReachInv, LayersAreOnion, PartialHasFrontier
    <3>5. Between(fsm', layers') /\ Between(fsm', rings')
      BY <1>1, <3>1, <3>2 DEF ReachInv, Between
    <3>6. ~computed
      BY <1>4, <2>3 DEF ReachInv, CompleteIsClosed, LastLayer
    <3>7. LoopInv'
      BY <1>1, <1>4, <2>1, <2>3, <3>1, <3>6 DEF LoopInv, RingsExtendLayers
    <3> QED
      BY <1>1, <3>3, <3>4, <3>5, <3>7 DEF ReachInv, CompleteIsClosed, IdleIsClean
  <2> QED
    BY <2>2, <2>3
<1> QED
  BY <1>3, <1>4

(* An iteration adds the next ball, and the new frontier is what it added. *)
LEMMA StepKeepsInv ==
  ASSUME ReachInv, ExpandStep
  PROVE  ReachInv'
<1> DEFINE reached == LastLayer(rings) \cup ForwardImage(fsm, frontier)
<1>1. /\ pc = "expand" /\ frontier # {} /\ steps # 0
      /\ steps' = IF steps > 0 THEN steps - 1 ELSE steps
      /\ rings' = Append(rings, reached) /\ frontier' = reached \ LastLayer(rings)
      /\ fsm' = fsm /\ layers' = layers /\ computed' = computed
      /\ pc' = pc /\ timed' = timed
  BY DEF ExpandStep, cache
<1>2. /\ fsm \in FsmType /\ layers \in Seq(SUBSET States) /\ rings \in Seq(SUBSET States)
      /\ steps \in Nat \cup {NoLimit} /\ timed \in BOOLEAN /\ computed \in BOOLEAN
  BY DEF ReachInv, ReachTypeOK, DataTypeOK
<1>3. frontier = LastFrontier(rings) /\ RingsExtendLayers
  BY <1>1 DEF ReachInv, LoopInv
<1>4. rings # <<>>
  BY <1>1, <1>3 DEF LastFrontier, LastLayer
<1>5. ~computed
  BY <1>1, <1>4 DEF ReachInv, LoopInv
<1>6. /\ reached = LastLayer(rings) \cup ForwardImage(fsm, LastLayer(rings))
      /\ reached \in SUBSET States
      /\ IsOnion(fsm, Append(rings, reached))
      /\ LastFrontier(Append(rings, reached)) = reached \ LastLayer(rings)
  BY <1>2, <1>3, <1>4, FrontierStep DEF ReachInv, LayersAreOnion
<1>7. Between(fsm, Append(rings, reached))
  BY <1>2, <1>4, <1>6, ExtendBetween DEF ReachInv
<1> HIDE DEF reached
<1>8. /\ rings' \in Seq(SUBSET States) /\ rings' # <<>>
      /\ Len(rings) \in Nat /\ Len(rings) > 0 /\ Len(rings') = Len(rings) + 1
      /\ \A n \in 1 .. Len(rings) : rings'[n] = rings[n]
  BY <1>1, <1>2, <1>4, <1>6
<1>9. steps' \in Nat \cup {NoLimit}
  BY <1>1, <1>2 DEF NoLimit
<1>10. ReachTypeOK'
  BY <1>1, <1>2, <1>6, <1>8, <1>9 DEF ReachInv, ReachTypeOK, DataTypeOK
<1>11. LayersAreOnion' /\ PartialHasFrontier'
  BY <1>1, <1>6 DEF ReachInv, LayersAreOnion, PartialHasFrontier
<1>12. Len(layers) \in Nat /\ Len(layers) <= Len(rings)
  BY <1>2, <1>3 DEF RingsExtendLayers
<1>13. Len(rings') > 1 /\ Len(layers') < Len(rings') /\ RingsExtendLayers'
  BY <1>1, <1>3, <1>8, <1>12 DEF RingsExtendLayers
<1>14. LoopInv'
  BY <1>1, <1>5, <1>6, <1>8, <1>13 DEF LoopInv
<1> QED
  BY <1>1, <1>7, <1>10, <1>11, <1>14 DEF ReachInv, CompleteIsClosed, IdleIsClean

(* The end of the loop publishes a list that is an onion, closed if it is  *)
(* marked complete, with a frontier if it is not.                          *)
LEMMA FinishKeepsInv ==
  ASSUME ReachInv, FinishExpand
  PROVE  ReachInv'
<1>1. /\ pc = "expand" /\ pc' = "idle" /\ fsm' = fsm
      /\ computed' = (frontier = {})
      /\ layers' = IF frontier = {} THEN WithoutLast(rings) ELSE rings
      /\ rings' = <<>> /\ frontier' = {} /\ steps' = 0 /\ timed' = FALSE
  BY DEF FinishExpand, Finish
<1>2. /\ fsm \in FsmType /\ layers \in Seq(SUBSET States) /\ rings \in Seq(SUBSET States)
      /\ IsOnion(fsm, rings) /\ Between(fsm, rings)
  BY DEF ReachInv, ReachTypeOK, DataTypeOK, LayersAreOnion
<1>3. frontier = LastFrontier(rings)
  BY <1>1 DEF ReachInv, LoopInv
<1>4. <<>> \in Seq(SUBSET States) /\ IsOnion(fsm, <<>>) /\ Between(fsm, <<>>)
  BY EmptyRings
<1>5. IsOnion(fsm', rings') /\ Between(fsm', rings') /\ IdleIsClean' /\ LoopInv'
  BY <1>1, <1>4 DEF IdleIsClean, LoopInv
<1>6. /\ layers' \in Seq(SUBSET States)
      /\ IsOnion(fsm', layers') /\ Between(fsm', layers')
      /\ PartialHasFrontier' /\ CompleteIsClosed'
  <2>1. CASE frontier # {}
    BY <1>1, <1>2, <1>3, <2>1 DEF PartialHasFrontier, CompleteIsClosed
  <2>2. CASE frontier = {} /\ rings = <<>>
    <3>1. layers' = <<>> /\ InitRegion(fsm) = {} /\ LastLayer(layers') = {}
      BY <1>1, <2>2 DEF WithoutLast, LastLayer, ReachInv, LoopInv
    <3>2. Closed(fsm, {})
      BY DEF Closed, ForwardImage
    <3> QED
      BY <1>1, <1>2, <1>4, <2>2, <3>1, <3>2 DEF PartialHasFrontier, CompleteIsClosed
  <2>3. CASE frontier = {} /\ rings # <<>>
    <3>1. Len(rings) > 1 /\ layers' = WithoutLast(rings) /\ computed'
      BY <1>1, <2>3 DEF ReachInv, LoopInv
    <3>2. /\ layers' \in Seq(SUBSET States) /\ Len(layers') = Len(rings) - 1
          /\ \A n \in 1 .. Len(rings) - 1 : layers'[n] = rings[n]
      BY <1>2, <2>3, <3>1, WithoutLastFacts
    <3>3. /\ IsOnion(fsm, layers') /\ LastLayer(layers') = rings[Len(rings) - 1]
          /\ Closed(fsm, rings[Len(rings) - 1])
      BY <1>2, <1>3, <2>3, <3>1, FixpointIsClosed
    <3>4. \A m \in Nat : m > 1 => m - 1 \in 1 .. m /\ \A n \in 1 .. m - 1 : n \in 1 .. m
      OBVIOUS
    <3>5. /\ Len(rings) - 1 \in 1 .. Len(rings)
          /\ \A n \in 1 .. Len(rings) - 1 : n \in 1 .. Len(rings)
      BY <1>2, <3>1, <3>4
    <3>6. Between(fsm, layers')
      BY <1>2, <3>2, <3>5 DEF Between
    <3>7. InitRegion(fsm) \subseteq LastLayer(layers')
      BY <1>2, <3>3, <3>5 DEF Between
    <3> QED
      BY <1>1, <3>1, <3>2, <3>3, <3>6, <3>7 DEF PartialHasFrontier, CompleteIsClosed
  <2> QED
    BY <2>1, <2>2, <2>3
<1>7. computed' \in BOOLEAN /\ 0 \in Nat /\ {} \in SUBSET States
  BY <1>1
<1>8. ReachTypeOK'
  BY <1>1, <1>2, <1>4, <1>6, <1>7 DEF ReachTypeOK, DataTypeOK
<1> QED
  BY <1>5, <1>6, <1>8 DEF ReachInv, LayersAreOnion

(* An interrupt loses the locals and leaves the cache as it was.           *)
LEMMA InterruptKeepsInv ==
  ASSUME ReachInv, InterruptExpand
  PROVE  ReachInv'
<1>1. /\ pc' = "idle" /\ fsm' = fsm /\ layers' = layers /\ computed' = computed
      /\ rings' = <<>> /\ frontier' = {} /\ steps' = 0 /\ timed' = FALSE
  BY DEF InterruptExpand, cache
<1>2. IsOnion(fsm, <<>>) /\ Between(fsm, <<>>)
  BY EmptyRings
<1>3. ReachTypeOK'
  BY <1>1, EmptyRings DEF ReachInv, ReachTypeOK, DataTypeOK
<1> QED
  BY <1>1, <1>2, <1>3 DEF ReachInv, LayersAreOnion, PartialHasFrontier, CompleteIsClosed,
                          IdleIsClean, LoopInv

(* A step of another component keeps the invariant.                        *)
LEMMA StutterKeepsInv ==
  ASSUME ReachInv, UNCHANGED reachVars
  PROVE  ReachInv'
BY DEF reachVars, ReachInv, ReachTypeOK, DataTypeOK, LayersAreOnion, PartialHasFrontier,
       CompleteIsClosed, IdleIsClean, LoopInv, RingsExtendLayers, Between, IsOnion

-----------------------------------------------------------------------------
(* ReachInv is inductive: what every run of the analysis keeps.            *)
THEOREM ReachInvariant == ReachSpec => []ReachInv
<1> USE MachinesAssumption, BoundsAssumption
<1>1. ReachInit => ReachInv
  <2> SUFFICES ASSUME ReachInit PROVE ReachInv
    OBVIOUS
  <2>1. /\ fsm \in FsmType /\ layers = <<>> /\ computed = FALSE /\ pc = "idle"
        /\ rings = <<>> /\ frontier = {} /\ steps = 0 /\ timed = FALSE
    BY DEF ReachInit, NoExpandLocals, MachinesAssumption
  <2>2. ReachTypeOK
    BY <2>1, EmptyRings DEF ReachTypeOK, DataTypeOK
  <2> QED
    BY <2>1, <2>2, EmptyRings DEF ReachInv, LayersAreOnion, PartialHasFrontier,
                      CompleteIsClosed, IdleIsClean, LoopInv
<1>2. ReachInv /\ [ReachNext]_reachVars => ReachInv'
  BY StartKeepsInv, StepKeepsInv, FinishKeepsInv, InterruptKeepsInv, StutterKeepsInv
     DEF ReachNext, ReportReady
<1> QED
  BY <1>1, <1>2, PTL DEF ReachSpec

(* Every variable keeps its type.                                          *)
THEOREM ReachTypeCorrect == ReachSpec => []ReachTypeOK
<1>1. ReachInv => ReachTypeOK
  BY DEF ReachInv
<1> QED
  BY <1>1, ReachInvariant, PTL

(* The cached layers and the rings under construction are the balls around *)
(* the initial region, for every machine and every way to cut the analysis *)
(* into calls.                                                             *)
THEOREM LayersAreOnionCorrect == ReachSpec => []LayersAreOnion
<1>1. ReachInv => LayersAreOnion
  BY DEF ReachInv
<1> QED
  BY <1>1, ReachInvariant, PTL

(* A partial cache can always be resumed.                                  *)
THEOREM PartialHasFrontierCorrect == ReachSpec => []PartialHasFrontier
<1>1. ReachInv => PartialHasFrontier
  BY DEF ReachInv
<1> QED
  BY <1>1, ReachInvariant, PTL

(* An analysis marked complete has found exactly the reachable states.     *)
THEOREM CompleteIsExactCorrect == ReachSpec => []CompleteIsExact
<1>1. ReachInv => CompleteIsExact
  <2> SUFFICES ASSUME ReachInv, computed PROVE ReachableStates = Reachable(fsm)
    BY DEF CompleteIsExact
  <2>1. /\ InitRegion(fsm) \subseteq LastLayer(layers) /\ Closed(fsm, LastLayer(layers))
        /\ layers \in Seq(SUBSET States) /\ Between(fsm, layers)
    BY DEF ReachInv, CompleteIsClosed, ReachTypeOK, DataTypeOK
  <2>2. layers # <<>> => Len(layers) \in 1 .. Len(layers)
    BY <2>1
  <2>3. LastLayer(layers) \in SUBSET States /\ LastLayer(layers) \subseteq Reachable(fsm)
    BY <2>1, <2>2 DEF LastLayer, Between
  <2>4. Reachable(fsm) \subseteq LastLayer(layers)
    BY <2>1, <2>3, ReachableIsLeast
  <2> QED
    BY <2>3, <2>4 DEF ReachableStates
<1> QED
  BY <1>1, ReachInvariant, PTL

-----------------------------------------------------------------------------
(* What a step does to the cache: it is left alone, or a loop that ran to  *)
(* its end publishes rings that extend it.                                 *)
LEMMA StepExtendsCache ==
  ASSUME ReachInv, [ReachNext]_reachVars
  PROVE  \/ UNCHANGED <<fsm, layers, computed>>
         \/ /\ Len(layers) <= Len(layers')
            /\ \A n \in 1 .. Len(layers) : layers'[n] = layers[n]
            /\ computed => layers = <<>> /\ computed'
            /\ fsm' = fsm
<1>1. CASE FinishExpand
  <2>1. /\ pc = "expand" /\ fsm' = fsm
        /\ computed' = (frontier = {})
        /\ layers' = IF frontier = {} THEN WithoutLast(rings) ELSE rings
    BY <1>1 DEF FinishExpand, Finish
  <2>2. /\ layers \in Seq(SUBSET States) /\ rings \in Seq(SUBSET States)
        /\ Len(layers) \in Nat /\ Len(rings) \in Nat
    BY DEF ReachInv, ReachTypeOK, DataTypeOK
  <2>3. /\ frontier = LastFrontier(rings) /\ RingsExtendLayers
        /\ computed => layers = <<>> /\ rings = <<>>
    BY <2>1 DEF ReachInv, LoopInv
  <2>4. computed => computed'
    <3>1. computed => frontier = {}
      BY <2>3 DEF LastFrontier, LastLayer
    <3> QED
      BY <2>1, <3>1
  <2>5. CASE frontier # {}
    BY <2>1, <2>3, <2>4, <2>5 DEF RingsExtendLayers
  <2>6. CASE frontier = {} /\ rings = <<>>
    <3>1. Len(rings) = 0 /\ layers' = rings
      BY <2>1, <2>6 DEF WithoutLast
    <3> QED
      BY <2>1, <2>3, <2>4, <3>1 DEF RingsExtendLayers
  <2>7. CASE frontier = {} /\ rings # <<>>
    <3>1. Len(layers) < Len(rings) /\ layers' = WithoutLast(rings)
      BY <2>1, <2>7 DEF ReachInv, LoopInv
    <3>2. /\ Len(layers') = Len(rings) - 1
          /\ \A n \in 1 .. Len(rings) - 1 : layers'[n] = rings[n]
      BY <2>2, <2>7, <3>1, WithoutLastFacts
    <3>3. \A x, y \in Nat : x < y => x <= y - 1 /\ \A n \in 1 .. x : n \in 1 .. y - 1
      OBVIOUS
    <3>4. /\ Len(layers) <= Len(rings) - 1
          /\ \A n \in 1 .. Len(layers) : n \in 1 .. Len(rings) - 1
      BY <2>2, <3>1, <3>3
    <3> QED
      BY <2>1, <2>3, <2>4, <3>2, <3>4 DEF RingsExtendLayers
  <2> QED
    BY <2>5, <2>6, <2>7
<1>2. CASE ComputeReachable
  BY <1>2 DEF ComputeReachable, StartExpand, cache
<1>3. CASE ExpandStep
  BY <1>3 DEF ExpandStep, cache
<1>4. CASE InterruptExpand
  BY <1>4 DEF InterruptExpand, cache
<1>5. CASE UNCHANGED reachVars
  BY <1>5 DEF reachVars
<1> QED
  BY <1>1, <1>2, <1>3, <1>4, <1>5 DEF ReachNext, ReportReady

(* Cached layers are never lost or changed.                                *)
THEOREM CacheOnlyGrowsCorrect == ReachSpec => CacheOnlyGrows
<1>1. ReachInv /\ [ReachNext]_reachVars => CacheGrows
  <2> SUFFICES ASSUME ReachInv, [ReachNext]_reachVars PROVE CacheGrows
    OBVIOUS
  <2>1. layers \in Seq(SUBSET States) /\ Len(layers) \in Nat
    BY DEF ReachInv, ReachTypeOK, DataTypeOK
  <2> QED
    BY <2>1, StepExtendsCache DEF CacheGrows, cache
<1> QED
  BY <1>1, ReachInvariant, PTL DEF ReachSpec, CacheOnlyGrows

(* A call without limits leaves the loop at the fixpoint only, so the      *)
(* analysis it publishes is complete.                                      *)
THEOREM UnlimitedCallCompletesCorrect == ReachSpec => UnlimitedCallCompletes
<1>1. [ReachNext]_reachVars => [FinishExpand /\ steps = NoLimit /\ ~timed => computed']_reachVars
  <2> SUFFICES ASSUME FinishExpand, steps = NoLimit, ~timed PROVE computed'
    OBVIOUS
  <2>1. frontier = {} \/ steps = 0
    BY DEF FinishExpand, Finish
  <2>2. computed' = (frontier = {})
    BY DEF FinishExpand, Finish
  <2>3. frontier = {}
    BY <2>1 DEF NoLimit
  <2> QED
    BY <2>2, <2>3
<1> QED
  BY <1>1, PTL DEF ReachSpec, UnlimitedCallCompletes

-----------------------------------------------------------------------------
(* No layer is repeated.  While the loop runs this holds of the rings but  *)
(* for the last two, which are equal at the fixpoint.                      *)
RingsDiffer == pc = "expand" => \A n \in 1 .. Len(rings) - 2 : rings[n] # rings[n + 1]

LEMMA FrontierTellsRingsApart ==
  ASSUME ReachInv, RingsDiffer, pc = "expand", frontier # {}
  PROVE  \A n \in 1 .. Len(rings) - 1 : rings[n] # rings[n + 1]
<1>1. rings \in Seq(SUBSET States) /\ Len(rings) \in Nat /\ frontier = LastFrontier(rings)
  BY DEF ReachInv, ReachTypeOK, DataTypeOK, LoopInv
<1>2. ASSUME Len(rings) > 1
      PROVE  rings[Len(rings) - 1] # rings[Len(rings)]
  BY <1>1, <1>2 DEF LastFrontier, LastLayer
<1>3. ASSUME NEW n \in 1 .. Len(rings) - 1
      PROVE  n \in 1 .. Len(rings) - 2 \/ (n = Len(rings) - 1 /\ n + 1 = Len(rings) /\ Len(rings) > 1)
  BY <1>1
<1> QED
  BY <1>2, <1>3 DEF RingsDiffer

LEMMA StepKeepsDifferent ==
  ASSUME ReachInv, NoRepeatedLayer, RingsDiffer, [ReachNext]_reachVars
  PROVE  NoRepeatedLayer' /\ RingsDiffer'
<1>1. /\ layers \in Seq(SUBSET States) /\ rings \in Seq(SUBSET States)
      /\ Len(layers) \in Nat /\ Len(rings) \in Nat
  BY DEF ReachInv, ReachTypeOK, DataTypeOK
<1>2. CASE ComputeReachable
  <2>1. /\ layers' = layers /\ rings' = IF Len(layers) > 0 THEN layers ELSE FirstRing
    BY <1>2 DEF ComputeReachable, StartExpand, cache
  <2>2. Len(FirstRing) \in {0, 1}
    BY DEF FirstRing
  <2>3. CASE Len(layers) > 0
    BY <1>1, <2>1, <2>3 DEF NoRepeatedLayer, RingsDiffer
  <2>4. CASE ~(Len(layers) > 0)
    <3>1. Len(rings') = 0 \/ Len(rings') = 1
      BY <2>1, <2>2, <2>4
    <3> QED
      BY <2>1, <3>1 DEF NoRepeatedLayer, RingsDiffer
  <2> QED
    BY <2>3, <2>4
<1>3. CASE ExpandStep
  <2> DEFINE reached == LastLayer(rings) \cup ForwardImage(fsm, frontier)
  <2>1. pc = "expand" /\ frontier # {} /\ layers' = layers /\ rings' = Append(rings, reached)
    BY <1>3 DEF ExpandStep, cache
  <2>2. \A n \in 1 .. Len(rings) - 1 : rings[n] # rings[n + 1]
    BY <2>1, FrontierTellsRingsApart
  <2>3. Len(rings') = Len(rings) + 1 /\ \A n \in 1 .. Len(rings) : rings'[n] = rings[n]
    BY <1>1, <2>1
  <2>4. \A n \in 1 .. Len(rings') - 2 : n \in 1 .. Len(rings) - 1 /\ n + 1 \in 1 .. Len(rings)
                                        /\ n \in 1 .. Len(rings)
    BY <1>1, <2>3
  <2> QED
    BY <2>1, <2>2, <2>3, <2>4 DEF NoRepeatedLayer, RingsDiffer
<1>4. CASE FinishExpand
  <2>1. /\ pc = "expand" /\ pc' = "idle"
        /\ layers' = IF frontier = {} THEN WithoutLast(rings) ELSE rings
    BY <1>4 DEF FinishExpand, Finish
  <2>2. CASE frontier # {}
    BY <2>1, <2>2, FrontierTellsRingsApart DEF NoRepeatedLayer, RingsDiffer
  <2>3. CASE frontier = {} /\ rings = <<>>
    <3>1. layers' = <<>>
      BY <2>1, <2>3 DEF WithoutLast
    <3> QED
      BY <2>1, <3>1 DEF NoRepeatedLayer, RingsDiffer
  <2>4. CASE frontier = {} /\ rings # <<>>
    <3>1. /\ Len(layers') = Len(rings) - 1
          /\ \A n \in 1 .. Len(rings) - 1 : layers'[n] = rings[n]
      BY <1>1, <2>1, <2>4, WithoutLastFacts
    <3>2. \A n \in 1 .. Len(layers') - 1 : n \in 1 .. Len(rings) - 2 /\ n \in 1 .. Len(rings) - 1
                                          /\ n + 1 \in 1 .. Len(rings) - 1
      BY <1>1, <3>1
    <3> QED
      BY <2>1, <3>1, <3>2 DEF NoRepeatedLayer, RingsDiffer
  <2> QED
    BY <2>2, <2>3, <2>4
<1>5. CASE InterruptExpand
  BY <1>5 DEF InterruptExpand, cache, NoRepeatedLayer, RingsDiffer
<1>6. CASE UNCHANGED reachVars
  BY <1>6 DEF reachVars, NoRepeatedLayer, RingsDiffer
<1> QED
  BY <1>2, <1>3, <1>4, <1>5, <1>6 DEF ReachNext, ReportReady

(* However the analysis is cut into calls, the diameter it reports counts  *)
(* no distance twice.                                                      *)
THEOREM NoRepeatedLayerCorrect == ReachSpec => []NoRepeatedLayer
<1>1. ReachInit => NoRepeatedLayer /\ RingsDiffer
  BY DEF ReachInit, NoRepeatedLayer, RingsDiffer
<1>2. ReachInv /\ NoRepeatedLayer /\ RingsDiffer /\ [ReachNext]_reachVars
        => NoRepeatedLayer' /\ RingsDiffer'
  BY StepKeepsDifferent
<1> QED
  BY <1>1, <1>2, ReachInvariant, PTL DEF ReachSpec

-----------------------------------------------------------------------------
(* Distances are lengths of shortest paths.  PathEnds(n) is where the      *)
(* paths of n steps end, Within(n) where those of at most n steps do.      *)
PathEnds(n) == {p[n] : p \in Paths(n)}
Within(n) == UNION {PathEnds(m) : m \in 0 .. n}

(* A path of no steps is an initial state.                                 *)
LEMMA PathEndsStart ==
  ASSUME fsm \in FsmType
  PROVE  PathEnds(0) = InitRegion(fsm)
<1>1. \A p \in Paths(0) : p[0] \in InitRegion(fsm)
  BY DEF Paths
<1>2. ASSUME NEW s \in InitRegion(fsm)
      PROVE  s \in PathEnds(0)
  <2> DEFINE q == [k \in 0 .. 0 |-> s]
  <2>1. s \in States
    BY InitType
  <2>2. q \in [0 .. 0 -> States] /\ q[0] = s /\ \A k \in 0 .. 0 - 1 : FALSE
    BY <2>1
  <2>3. q \in Paths(0)
    BY <2>2 DEF Paths
  <2> HIDE DEF q
  <2> QED
    BY <2>2, <2>3 DEF PathEnds
<1> QED
  BY <1>1, <1>2 DEF PathEnds

(* A path of n + 1 steps is one of n steps with one more.                  *)
LEMMA PathEndsStep ==
  ASSUME fsm \in FsmType, NEW n \in Nat
  PROVE  PathEnds(n + 1) = ForwardImage(fsm, PathEnds(n))
<1>1. ASSUME NEW t \in PathEnds(n + 1)
      PROVE  t \in ForwardImage(fsm, PathEnds(n))
  <2>1. PICK p \in Paths(n + 1) : t = p[n + 1]
    BY DEF PathEnds
  <2> DEFINE q == [k \in 0 .. n |-> p[k]]
  <2>2. /\ p \in [0 .. n + 1 -> States] /\ p[0] \in InitRegion(fsm)
        /\ \A k \in 0 .. (n + 1) - 1 : p[k + 1] \in ForwardImage(fsm, {p[k]})
    BY DEF Paths
  <2>3. q \in [0 .. n -> States] /\ q[0] = p[0] /\ q[n] = p[n]
    BY <2>2
  <2>4. ASSUME NEW k \in 0 .. n - 1
        PROVE  q[k + 1] \in ForwardImage(fsm, {q[k]})
    <3>1. k \in 0 .. (n + 1) - 1 /\ k \in 0 .. n /\ k + 1 \in 0 .. n
      OBVIOUS
    <3>2. q[k] = p[k] /\ q[k + 1] = p[k + 1]
      BY <3>1
    <3> QED
      BY <2>2, <3>1, <3>2
  <2>5. q \in Paths(n)
    BY <2>2, <2>3, <2>4 DEF Paths
  <2> HIDE DEF q
  <2>6. p[n] \in PathEnds(n)
    BY <2>3, <2>5 DEF PathEnds
  <2>7. n \in 0 .. (n + 1) - 1
    OBVIOUS
  <2>8. p[n + 1] \in ForwardImage(fsm, {p[n]})
    BY <2>2, <2>7
  <2> QED
    BY <2>1, <2>6, <2>8, ImageFromState
<1>2. ASSUME NEW t \in ForwardImage(fsm, PathEnds(n))
      PROVE  t \in PathEnds(n + 1)
  <2>1. PICK s \in PathEnds(n) : t \in ForwardImage(fsm, {s})
    BY ImageFromState
  <2>2. PICK p \in Paths(n) : s = p[n]
    BY DEF PathEnds
  <2>3. t \in States
    BY <2>1, ImageType
  <2> DEFINE q == [k \in 0 .. n + 1 |-> IF k <= n THEN p[k] ELSE t]
  <2>4. /\ p \in [0 .. n -> States] /\ p[0] \in InitRegion(fsm)
        /\ \A k \in 0 .. n - 1 : p[k + 1] \in ForwardImage(fsm, {p[k]})
    BY DEF Paths
  <2>5. q \in [0 .. n + 1 -> States] /\ q[0] = p[0] /\ q[n + 1] = t
    BY <2>3, <2>4
  <2>6. ASSUME NEW k \in 0 .. (n + 1) - 1
        PROVE  q[k + 1] \in ForwardImage(fsm, {q[k]})
    <3>1. k \in 0 .. n + 1 /\ k + 1 \in 0 .. n + 1 /\ q[k] = p[k]
      OBVIOUS
    <3>2. CASE k = n
      BY <2>1, <2>2, <2>5, <3>1, <3>2
    <3>3. CASE k # n
      <4>1. k \in 0 .. n - 1 /\ q[k + 1] = p[k + 1]
        BY <3>1, <3>3
      <4> QED
        BY <2>4, <3>1, <4>1
    <3> QED
      BY <3>2, <3>3
  <2>7. q \in Paths(n + 1)
    BY <2>4, <2>5, <2>6 DEF Paths
  <2> HIDE DEF q
  <2> QED
    BY <2>5, <2>7 DEF PathEnds
<1> QED
  BY <1>1, <1>2

(* The states within n + 1 steps are those within n steps and their image. *)
LEMMA WithinStep ==
  ASSUME fsm \in FsmType, NEW n \in Nat
  PROVE  Within(n + 1) = Within(n) \cup ForwardImage(fsm, Within(n))
<1>1. ASSUME NEW t \in Within(n + 1)
      PROVE  t \in Within(n) \cup ForwardImage(fsm, Within(n))
  <2>1. PICK m \in 0 .. n + 1 : t \in PathEnds(m)
    BY DEF Within
  <2>2. CASE m \in 0 .. n
    BY <2>1, <2>2 DEF Within
  <2>3. CASE m \notin 0 .. n
    <3>1. m = n + 1 /\ n \in 0 .. n
      BY <2>3
    <3>2. PathEnds(n) \subseteq Within(n)
      BY <3>1 DEF Within
    <3> QED
      BY <2>1, <3>1, <3>2, PathEndsStep, ImageMonotone
  <2> QED
    BY <2>2, <2>3
<1>2. Within(n) \subseteq Within(n + 1)
  <2>1. 0 .. n \subseteq 0 .. n + 1
    OBVIOUS
  <2> QED
    BY <2>1 DEF Within
<1>3. ASSUME NEW t \in ForwardImage(fsm, Within(n))
      PROVE  t \in Within(n + 1)
  <2>1. PICK s \in Within(n) : t \in ForwardImage(fsm, {s})
    BY ImageFromState
  <2>2. PICK m \in 0 .. n : s \in PathEnds(m)
    BY <2>1 DEF Within
  <2>3. m \in Nat /\ m + 1 \in 0 .. n + 1
    OBVIOUS
  <2>4. t \in ForwardImage(fsm, PathEnds(m))
    BY <2>1, <2>2, ImageFromState
  <2>5. t \in PathEnds(m + 1)
    BY <2>3, <2>4, PathEndsStep
  <2> QED
    BY <2>3, <2>5 DEF Within
<1> QED
  BY <1>1, <1>2, <1>3

(* Layer n + 1 has the states within n steps.                              *)
LEMMA LayersAreWithin ==
  ASSUME fsm \in FsmType, layers \in Seq(SUBSET States), IsOnion(fsm, layers)
  PROVE  \A n \in Distances : layers[n + 1] = Within(n)
<1> DEFINE D == {n \in Distances : layers[n + 1] # Within(n)}
<1> SUFFICES ASSUME D # {} PROVE FALSE
  OBVIOUS
<1>1. Len(layers) \in Nat /\ D \in SUBSET Nat
  BY DEF Distances
<1>2. PICK n \in D : \A m \in D : n <= m
  BY <1>1, LeastNat
<1>3. n \in Nat /\ n + 1 <= Len(layers) /\ layers[n + 1] # Within(n)
  BY <1>1, <1>2 DEF Distances
<1>4. CASE n = 0
  <2>1. Within(0) = PathEnds(0)
    <3>1. 0 .. 0 = {0}
      OBVIOUS
    <3> QED
      BY <3>1 DEF Within
  <2>2. layers # <<>>
    BY <1>3
  <2>3. layers[1] = InitRegion(fsm)
    BY <2>2 DEF IsOnion
  <2> QED
    BY <1>3, <1>4, <2>1, <2>3, PathEndsStart
<1>5. CASE n # 0
  <2> DEFINE k == n - 1
  <2>1. k \in Nat /\ n = k + 1 /\ ~(n <= k) /\ k \in Distances /\ n \in 1 .. Len(layers) - 1
    BY <1>1, <1>3, <1>5 DEF Distances
  <2> HIDE DEF k
  <2>2. layers[n] = Within(k)
    BY <1>2, <2>1
  <2>3. layers[n + 1] = layers[n] \cup ForwardImage(fsm, layers[n])
    BY <2>1 DEF IsOnion
  <2>4. Within(n) = Within(k) \cup ForwardImage(fsm, Within(k))
    BY <2>1, WithinStep
  <2> QED
    BY <1>3, <2>2, <2>3, <2>4
<1> QED
  BY <1>4, <1>5

(* Every path ends in a closed set that has the initial states.            *)
LEMMA PathsStayInside ==
  ASSUME fsm \in FsmType, NEW C, InitRegion(fsm) \subseteq C, Closed(fsm, C)
  PROVE  \A n \in Nat : PathEnds(n) \subseteq C
<1> DEFINE D == {n \in Nat : ~(PathEnds(n) \subseteq C)}
<1> SUFFICES ASSUME D # {} PROVE FALSE
  OBVIOUS
<1>1. PICK n \in D : \A m \in D : n <= m
  <2>1. D \in SUBSET Nat
    OBVIOUS
  <2> QED
    BY <2>1, LeastNat
<1>2. n # 0
  BY <1>1, PathEndsStart
<1> DEFINE k == n - 1
<1>3. k \in Nat /\ n = k + 1 /\ ~(n <= k)
  BY <1>1, <1>2
<1> HIDE DEF k
<1>4. PathEnds(k) \subseteq C
  BY <1>1, <1>3
<1>5. PathEnds(n) \subseteq C
  BY <1>3, <1>4, PathEndsStep, ImageMonotone DEF Closed
<1> QED
  BY <1>1, <1>5

(* The set at distance d has the ends of the paths of d steps to which no  *)
(* shorter path leads.                                                     *)
LEMMA AtDistanceIsLeast ==
  ASSUME fsm \in FsmType, layers \in Seq(SUBSET States), IsOnion(fsm, layers),
         NEW d \in Distances
  PROVE  AtDistance(d) = {s \in PathEnds(d) : \A m \in 0 .. d - 1 : s \notin PathEnds(m)}
<1>1. d \in Nat /\ Len(layers) \in Nat
  BY DEF Distances
<1>2. layers[d + 1] = Within(d)
  BY LayersAreWithin
<1>3. CASE d = 0
  <2>1. Within(0) = PathEnds(0) /\ 0 .. 0 - 1 = {}
    <3>1. 0 .. 0 = {0}
      OBVIOUS
    <3> QED
      BY <3>1 DEF Within
  <2>2. AtDistance(d) = layers[d + 1]
    BY <1>3 DEF AtDistance
  <2> QED
    BY <1>2, <1>3, <2>1, <2>2
<1>4. CASE d # 0
  <2> DEFINE k == d - 1
  <2>1. k \in Nat /\ d = k + 1 /\ k \in Distances /\ 0 .. d = (0 .. k) \cup {d}
    BY <1>1, <1>4 DEF Distances
  <2>2. layers[d] = Within(k)
    BY <2>1, LayersAreWithin
  <2>3. AtDistance(d) = layers[d + 1] \ layers[d]
    BY <1>1, <1>4 DEF AtDistance
  <2>4. Within(d) = Within(k) \cup PathEnds(d)
    BY <2>1 DEF Within
  <2>5. AtDistance(d) = PathEnds(d) \ Within(k)
    BY <1>2, <2>2, <2>3, <2>4
  <2> QED
    BY <2>5 DEF Within
<1> QED
  BY <1>3, <1>4

(* A cache or a list of rings that is not empty starts with initial states. *)
FirstIsInhabited == layers # <<>> \/ rings # <<>> => InitRegion(fsm) # {}

LEMMA StepKeepsInhabited ==
  ASSUME ReachInv, FirstIsInhabited, [ReachNext]_reachVars
  PROVE  FirstIsInhabited'
<1>1. /\ layers \in Seq(SUBSET States) /\ rings \in Seq(SUBSET States)
      /\ Len(layers) \in Nat /\ Len(rings) \in Nat
  BY DEF ReachInv, ReachTypeOK, DataTypeOK
<1>2. CASE ComputeReachable
  <2>1. /\ fsm' = fsm /\ layers' = layers
        /\ rings' = IF Len(layers) > 0 THEN layers ELSE FirstRing
    BY <1>2 DEF ComputeReachable, StartExpand, cache
  <2>2. rings' # <<>> => layers # <<>> \/ InitRegion(fsm) # {}
    BY <1>1, <2>1 DEF FirstRing
  <2>3. InitRegion(fsm)' = InitRegion(fsm)
    BY <2>1 DEF InitRegion
  <2> QED
    BY <2>1, <2>2, <2>3 DEF FirstIsInhabited
<1>3. CASE ExpandStep
  <2>1. fsm' = fsm /\ layers' = layers /\ frontier # {} /\ pc = "expand"
    BY <1>3 DEF ExpandStep, cache
  <2>2. rings # <<>>
    BY <1>1, <2>1 DEF ReachInv, LoopInv, LastFrontier, LastLayer
  <2>3. InitRegion(fsm)' = InitRegion(fsm)
    BY <2>1 DEF InitRegion
  <2> QED
    BY <2>1, <2>2, <2>3 DEF FirstIsInhabited
<1>4. CASE FinishExpand
  <2>1. fsm' = fsm /\ rings' = <<>> /\ layers' = IF frontier = {} THEN WithoutLast(rings) ELSE rings
    BY <1>4 DEF FinishExpand, Finish
  <2>2. rings = <<>> => layers' = <<>>
    BY <2>1 DEF WithoutLast
  <2>3. InitRegion(fsm)' = InitRegion(fsm)
    BY <2>1 DEF InitRegion
  <2> QED
    BY <2>1, <2>2, <2>3 DEF FirstIsInhabited
<1>5. CASE InterruptExpand
  <2>1. fsm' = fsm /\ layers' = layers /\ rings' = <<>>
    BY <1>5 DEF InterruptExpand, cache
  <2>2. InitRegion(fsm)' = InitRegion(fsm)
    BY <2>1 DEF InitRegion
  <2> QED
    BY <2>1, <2>2 DEF FirstIsInhabited
<1>6. CASE UNCHANGED reachVars
  BY <1>6 DEF reachVars, FirstIsInhabited, InitRegion
<1> QED
  BY <1>2, <1>3, <1>4, <1>5, <1>6 DEF ReachNext, ReportReady

(* Each distance has a state of its own, so that there are no more         *)
(* distances than states.                                                  *)
LEMMA FewDistances ==
  ASSUME ReachInv, NoRepeatedLayer, FirstIsInhabited, IsFiniteSet(States)
  PROVE  Len(layers) <= Cardinality(States) /\ Cardinality(States) \in Nat
<1>1. /\ fsm \in FsmType /\ layers \in Seq(SUBSET States) /\ Len(layers) \in Nat
      /\ IsOnion(fsm, layers)
  BY DEF ReachInv, ReachTypeOK, DataTypeOK, LayersAreOnion
<1>2. ASSUME NEW d \in Distances
      PROVE  /\ AtDistance(d) # {} /\ AtDistance(d) \subseteq States
  <2>1. d \in Nat /\ d + 1 \in 1 .. Len(layers)
    BY <1>1 DEF Distances
  <2>2. layers[d + 1] \in SUBSET States
    BY <1>1, <2>1
  <2>3. CASE d = 0
    <3>1. layers[1] = InitRegion(fsm) /\ layers # <<>>
      BY <1>1, <2>1 DEF IsOnion
    <3>2. AtDistance(d) = layers[1]
      BY <2>3 DEF AtDistance
    <3> QED
      BY <2>2, <2>3, <3>1, <3>2 DEF FirstIsInhabited
  <2>4. CASE d # 0
    <3>1. d \in 1 .. Len(layers) - 1
      BY <1>1, <2>1, <2>4
    <3>2. layers[d] # layers[d + 1] /\ layers[d + 1] = layers[d] \cup ForwardImage(fsm, layers[d])
      BY <1>1, <3>1 DEF NoRepeatedLayer, IsOnion
    <3>3. AtDistance(d) = layers[d + 1] \ layers[d]
      BY <2>1, <2>4 DEF AtDistance
    <3> QED
      BY <2>2, <3>2, <3>3
  <2> QED
    BY <2>3, <2>4
<1> DEFINE g == [d \in Distances |-> CHOOSE s \in States : s \in AtDistance(d)]
<1>3. \A d \in Distances : g[d] \in States /\ g[d] \in AtDistance(d)
  BY <1>2
<1>4. g \in [Distances -> States]
  BY <1>2
<1> HIDE DEF g
<1>5. ASSUME NEW d \in Distances, NEW e \in Distances, g[d] = g[e]
      PROVE  d = e
  <2>1. d \in Int /\ e \in Int /\ d >= 0 /\ e >= 0
    BY <1>1 DEF Distances
  <2>2. g[d] \in PathEnds(d) /\ \A m \in 0 .. d - 1 : g[d] \notin PathEnds(m)
    BY <1>1, <1>3, AtDistanceIsLeast
  <2>3. g[e] \in PathEnds(e) /\ \A m \in 0 .. e - 1 : g[e] \notin PathEnds(m)
    BY <1>1, <1>3, AtDistanceIsLeast
  <2>4. ~(d < e)
    BY <1>5, <2>1, <2>2, <2>3
  <2>5. ~(e < d)
    BY <1>5, <2>1, <2>2, <2>3
  <2> QED
    BY <2>1, <2>4, <2>5
<1>6. g \in Injection(Distances, States)
  BY <1>4, <1>5 DEF Injection, IsInjective
<1>7. Cardinality(Distances) <= Cardinality(States)
  BY <1>6, FS_Injection
<1>8. Cardinality(Distances) = Len(layers)
  <2>1. Len(layers) - 1 \in Int
    BY <1>1
  <2>2. Cardinality(0 .. Len(layers) - 1) =
          IF 0 > Len(layers) - 1 THEN 0 ELSE (Len(layers) - 1) - 0 + 1
    BY <2>1, FS_Interval
  <2> QED
    BY <1>1, <2>2 DEF Distances
<1>9. Cardinality(States) \in Nat
  BY FS_CardinalityType
<1> QED
  BY <1>7, <1>8, <1>9

(* The length of the shortest path to s is n.                              *)
IsShortest(s, n) == s \in PathEnds(n) /\ \A m \in 0 .. n - 1 : s \notin PathEnds(m)

LEMMA ShortestIsOne ==
  ASSUME NEW s, NEW n \in Nat, NEW m \in Nat, IsShortest(s, n), IsShortest(s, m)
  PROVE  n = m
<1>1. ~(n < m) /\ ~(m < n)
  BY DEF IsShortest
<1> QED
  BY <1>1

(* What ShortestPaths is, when there are not too few steps to look at.     *)
LEMMA ShortestPathsAre ==
  ASSUME NEW dist, dist = ShortestPaths, Cardinality(States) \in Nat
  PROVE  \A s : /\ s \in DOMAIN dist <=>
                     \E n \in 0 .. Cardinality(States) - 1 : s \in PathEnds(n)
                /\ s \in DOMAIN dist =>
                     /\ dist[s] \in 0 .. Cardinality(States) - 1
                     /\ IsShortest(s, dist[s])
<1> DEFINE L == Cardinality(States) - 1
           E == [n \in 0 .. L |-> PathEnds(n)]
           D == UNION {E[n] : n \in 0 .. L}
           Best(s, n) == s \in E[n] /\ \A m \in 0 .. n - 1 : s \notin E[m]
<1>1. dist = [s \in D |-> CHOOSE n \in 0 .. L : Best(s, n)]
  BY DEF ShortestPaths, PathEnds
<1>2. \A n \in 0 .. L : E[n] = PathEnds(n)
  OBVIOUS
<1>3. \A s : s \in D <=> \E n \in 0 .. L : s \in PathEnds(n)
  BY <1>2
<1>4. \A s : \A n \in 0 .. L : Best(s, n) <=> IsShortest(s, n)
  <2> SUFFICES ASSUME NEW s, NEW n \in 0 .. L PROVE Best(s, n) <=> IsShortest(s, n)
    OBVIOUS
  <2>1. \A m \in 0 .. n - 1 : m \in 0 .. L
    OBVIOUS
  <2>2. \A m \in 0 .. n - 1 : E[m] = PathEnds(m)
    BY <1>2, <2>1
  <2> HIDE DEF E
  <2> QED
    BY <1>2, <2>2 DEF IsShortest
<1>5. ASSUME NEW s \in D
      PROVE  \E n \in 0 .. L : Best(s, n)
  <2> DEFINE N == {n \in 0 .. L : s \in PathEnds(n)}
  <2>1. N # {} /\ N \in SUBSET Nat
    BY <1>3
  <2>2. PICK n \in N : \A m \in N : n <= m
    BY <2>1, LeastNat
  <2>3. n \in 0 .. L /\ s \in PathEnds(n) /\ \A m \in 0 .. n - 1 : m \in 0 .. L /\ ~(n <= m)
    BY <2>2
  <2>4. IsShortest(s, n)
    BY <2>2, <2>3 DEF IsShortest
  <2> QED
    BY <1>4, <2>3, <2>4
<1> HIDE DEF E, D, Best
<1>6. ASSUME NEW s \in D
      PROVE  dist[s] \in 0 .. L /\ Best(s, dist[s])
  <2>1. dist[s] = CHOOSE n \in 0 .. L : Best(s, n)
    BY <1>1
  <2> QED
    BY <1>5, <2>1
<1>7. DOMAIN dist = D
  BY <1>1
<1> QED
  BY <1>3, <1>4, <1>6, <1>7

(* What the readers of a complete cache return, from what the cache is.    *)
LEMMA CompleteCacheHasDistances ==
  ASSUME ReachInv, NoRepeatedLayer, FirstIsInhabited, IsFiniteSet(States)
  PROVE  DistancesAreShortestPaths
<1> SUFFICES ASSUME computed, pc = "idle", NEW dist, dist = ShortestPaths
             PROVE  /\ \A d \in Distances : AtDistance(d) = {s \in DOMAIN dist : dist[s] = d}
                    /\ \A s \in DOMAIN dist : dist[s] \in Distances
                    /\ \A S \in SUBSET States :
                         LET ds == {dist[s] : s \in S \cap DOMAIN dist}
                         IN  MinDistanceOf(S) =
                               IF ds = {} THEN -1 ELSE CHOOSE d \in ds : \A e \in ds : d <= e
  BY DEF DistancesAreShortestPaths, MinDistanceIsShortestPath, AtDistanceIsShortestPath
<1>1. /\ fsm \in FsmType /\ layers \in Seq(SUBSET States) /\ Len(layers) \in Nat
      /\ IsOnion(fsm, layers)
      /\ InitRegion(fsm) \subseteq LastLayer(layers) /\ Closed(fsm, LastLayer(layers))
  BY DEF ReachInv, ReachTypeOK, DataTypeOK, LayersAreOnion, CompleteIsClosed
<1>2. Len(layers) <= Cardinality(States) /\ Cardinality(States) \in Nat
  BY FewDistances
<1>3. /\ \A s : s \in DOMAIN dist <=>
                  \E n \in 0 .. Cardinality(States) - 1 : s \in PathEnds(n)
      /\ \A s \in DOMAIN dist : /\ dist[s] \in 0 .. Cardinality(States) - 1
                                /\ IsShortest(s, dist[s])
  BY <1>2, ShortestPathsAre
<1>4. \A d \in Distances : AtDistance(d) = {s \in PathEnds(d) : IsShortest(s, d)}
  BY <1>1, AtDistanceIsLeast DEF IsShortest
<1>5. \A d \in Distances : d \in Nat /\ d \in 0 .. Cardinality(States) - 1
  BY <1>1, <1>2 DEF Distances
<1>6. ASSUME NEW d \in Distances
      PROVE  AtDistance(d) = {s \in DOMAIN dist : dist[s] = d}
  <2>1. ASSUME NEW s \in AtDistance(d)
        PROVE  s \in DOMAIN dist /\ dist[s] = d
    <3>1. s \in PathEnds(d) /\ IsShortest(s, d)
      BY <1>4, <2>1
    <3>2. s \in DOMAIN dist
      BY <1>3, <1>5, <3>1
    <3>3. dist[s] \in Nat /\ IsShortest(s, dist[s])
      BY <1>2, <1>3, <3>2
    <3> QED
      BY <1>5, <3>1, <3>2, <3>3, ShortestIsOne
  <2>2. ASSUME NEW s \in DOMAIN dist, dist[s] = d
        PROVE  s \in AtDistance(d)
    <3>1. IsShortest(s, d)
      BY <1>3, <2>2
    <3> QED
      BY <1>4, <3>1 DEF IsShortest
  <2> QED
    BY <2>1, <2>2
<1>7. ASSUME NEW s \in DOMAIN dist
      PROVE  dist[s] \in Distances
  <2>1. dist[s] \in Nat /\ IsShortest(s, dist[s])
    BY <1>2, <1>3
  <2>2. s \in LastLayer(layers)
    BY <1>1, <2>1, PathsStayInside DEF IsShortest
  <2>3. Len(layers) > 0 /\ s \in layers[Len(layers)]
    BY <1>1, <2>2 DEF LastLayer
  <2> DEFINE k == Len(layers) - 1
  <2>4. k \in Distances /\ k \in Nat /\ k + 1 = Len(layers)
    BY <1>1, <2>3 DEF Distances
  <2> HIDE DEF k
  <2>5. s \in Within(k)
    BY <1>1, <2>3, <2>4, LayersAreWithin
  <2>6. PICK m \in 0 .. k : s \in PathEnds(m)
    BY <2>5 DEF Within
  <2>7. ~(m \in 0 .. dist[s] - 1)
    BY <2>1, <2>6 DEF IsShortest
  <2> QED
    BY <1>1, <2>1, <2>4, <2>6, <2>7 DEF Distances
<1>8. ASSUME NEW S \in SUBSET States
      PROVE  LET ds == {dist[s] : s \in S \cap DOMAIN dist}
             IN  MinDistanceOf(S) =
                   IF ds = {} THEN -1 ELSE CHOOSE d \in ds : \A e \in ds : d <= e
  <2> DEFINE ds == {dist[s] : s \in S \cap DOMAIN dist}
             at == {d \in Distances : S \cap fsm.invarStates \cap AtDistance(d) # {}}
  <2>1. \A d \in Distances : AtDistance(d) \subseteq fsm.invarStates
    <3> SUFFICES ASSUME NEW d \in Distances, NEW s \in AtDistance(d)
                 PROVE  s \in fsm.invarStates
      OBVIOUS
    <3>1. s \in PathEnds(d) /\ d \in Nat
      BY <1>4, <1>5
    <3>2. Closed(fsm, fsm.invarStates) /\ InitRegion(fsm) \subseteq fsm.invarStates
      BY DEF Closed, ForwardImage, InitRegion
    <3> QED
      BY <1>1, <3>1, <3>2, PathsStayInside
  <2>2. \A d \in ds : d \in at
    <3> SUFFICES ASSUME NEW s \in S \cap DOMAIN dist
                 PROVE  dist[s] \in at
      OBVIOUS
    <3>1. dist[s] \in Distances
      BY <1>7
    <3>2. s \in AtDistance(dist[s])
      BY <1>6, <3>1
    <3>3. s \in S \cap fsm.invarStates \cap AtDistance(dist[s])
      BY <2>1, <3>1, <3>2
    <3> QED
      BY <3>1, <3>3
  <2>3. \A d \in at : d \in ds
    BY <1>6
  <2>4. ds = at
    BY <2>2, <2>3
  <2>5. MinDistanceOf(S) = IF at = {} THEN -1 ELSE CHOOSE d \in at : \A e \in at : d <= e
    BY DEF MinDistanceOf
  <2> HIDE DEF ds, at
  <2>6. MinDistanceOf(S) = IF ds = {} THEN -1 ELSE CHOOSE d \in ds : \A e \in ds : d <= e
    BY <2>4, <2>5
  <2> QED
    BY <2>6 DEF ds
<1> QED
  BY <1>6, <1>7, <1>8

(* When the analysis is complete, the readers of the cache return the      *)
(* lengths of shortest paths, and the distances below the diameter are all *)
(* there are, for every machine with finitely many states.                 *)
THEOREM DistancesAreShortestPathsCorrect ==
  ASSUME IsFiniteSet(States)
  PROVE  ReachSpec => []DistancesAreShortestPaths
<1>1. ReachInit => FirstIsInhabited
  BY DEF ReachInit, NoExpandLocals, FirstIsInhabited
<1>2. ReachInv /\ FirstIsInhabited /\ [ReachNext]_reachVars => FirstIsInhabited'
  BY StepKeepsInhabited
<1>3. ReachInv /\ NoRepeatedLayer /\ FirstIsInhabited => DistancesAreShortestPaths
  BY CompleteCacheHasDistances
<1> QED
  BY <1>1, <1>2, <1>3, ReachInvariant, NoRepeatedLayerCorrect, PTL DEF ReachSpec

-----------------------------------------------------------------------------
(* OnionCache has its own copies of the operators on layers.               *)
LEMMA SameOperators ==
  /\ \A f, l : Onion!IsOnion(f, l) <=> IsOnion(f, l)
  /\ \A f, S : Onion!Closed(f, S) <=> Closed(f, S)
  /\ \A f : Onion!InitRegion(f) = InitRegion(f)
  /\ \A l : Onion!LastLayer(l) = LastLayer(l)
BY DEF Onion!IsOnion, IsOnion, Onion!Closed, Closed, Onion!InitRegion, InitRegion,
       Onion!LastLayer, LastLayer, Onion!ForwardImage, ForwardImage

(* The analysis implements the cache its readers rely on.                  *)
THEOREM ImplementsOnionCache == ReachSpec => OnionSpec
<1>1. ReachInit => Onion!Init
  BY DEF ReachInit, Onion!Init
<1>2. ReachInv /\ ReachInv' /\ [ReachNext]_reachVars => [Onion!Publish]_Onion!cacheVars
  <2> SUFFICES ASSUME ReachInv, ReachInv', [ReachNext]_reachVars,
                      ~UNCHANGED <<fsm, layers, computed>>
               PROVE  Onion!Publish
    BY DEF Onion!cacheVars
  <2>1. fsm' = fsm
    BY StepExtendsCache
  <2>2. /\ Len(layers) <= Len(layers')
        /\ \A n \in 1 .. Len(layers) : layers'[n] = layers[n]
    BY StepExtendsCache
  <2>3. computed => computed'
    BY StepExtendsCache
  <2>4. layers' \in Seq(SUBSET States) /\ computed' \in BOOLEAN
    BY DEF ReachInv, ReachTypeOK, DataTypeOK
  <2>5. Onion!IsOnion(fsm, layers')
    <3>1. IsOnion(fsm', layers')
      BY DEF ReachInv, LayersAreOnion
    <3> QED
      BY <2>1, <3>1, SameOperators
  <2>6. computed' => Onion!IsComplete(layers')
    <3>1. computed' => /\ InitRegion(fsm') \subseteq LastLayer(layers')
                       /\ Closed(fsm', LastLayer(layers'))
      BY DEF ReachInv, CompleteIsClosed
    <3> QED
      BY <2>1, <3>1, SameOperators DEF Onion!IsComplete
  <2> QED
    BY <2>1, <2>2, <2>3, <2>4, <2>5, <2>6 DEF Onion!Publish, Onion!Extends
<1> QED
  BY <1>1, <1>2, ReachInvariant, PTL DEF ReachSpec, OnionSpec, Onion!Spec
=============================================================================
