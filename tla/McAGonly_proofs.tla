-------------------------- MODULE McAGonly_proofs ---------------------------
(* Proofs about the AG shortcut: it is one more command on the machine and *)
(* its layer cache, its verdict is right, the walk back through the        *)
(* distances never gets stuck and yields a shortest path.                  *)
EXTENDS McAGonly, McInvar_proofs

(***************************************************************************)
(* The inductive invariant, on top of McInv.                               *)
(***************************************************************************)
AGTypeOK ==
  /\ agPc \in {"off", "check", "walk"}
  /\ agSpec \in Seq(Conjuncts) /\ agLeft \in Seq(Conjuncts)
  /\ agVerdict \in {"none", "true", "false"}
  /\ agPath \in Seq(States)
  /\ agLevel \in Int

(* No check of an invariant runs at the same time.                         *)
AGRunsAlone ==
  /\ agPc # "off" => ~Checking
  /\ agPc = "walk" => pc = "idle" /\ agPath # <<>>

(* While conjuncts are left, nothing has been answered; a specification    *)
(* that is one conjunct is still complete.                                 *)
ConjunctsLeft ==
  agPc = "check" =>
    /\ agLeft # <<>> /\ agVerdict = "none" /\ agPath = <<>>
    /\ Len(agSpec) = 1 => agLeft = agSpec

IsOneAG == Len(agSpec) = 1 /\ agSpec[1].op = "AG"

AnswerKept ==
  IsOneAG => /\ agVerdict = "true" => Reachable(fsm) \cap fsm.invarStates \subseteq agSpec[1].set
             /\ agVerdict = "false" => ~(Reachable(fsm) \cap fsm.invarStates \subseteq agSpec[1].set)

(* The path so far is as long as the least distance of a bad state, less   *)
(* what is still to go, and its first state is at exactly the distance the *)
(* walk has reached.                                                       *)
WalkInv ==
  agPath # <<>> =>
    /\ computed /\ layers # <<>>
    /\ agLevel + 1 \in Distances
    /\ agPath[1] \in AtDistance(agLevel + 1)
    /\ \A n \in 1 .. Len(agPath) - 1 : agPath[n + 1] \in ForwardImage(fsm, {agPath[n]})
    /\ agPath[Len(agPath)] \in AtDistance(MinDistanceOf(AGBad))
    /\ MinDistanceOf(AGBad) = agLevel + Len(agPath)
    /\ agPc = "off" => agLevel = -1

AGInv == AGTypeOK /\ AGRunsAlone /\ ConjunctsLeft /\ AnswerKept /\ WalkInv
-----------------------------------------------------------------------------
(* Every step is a step of the other commands, or leaves what they share   *)
(* alone.                                                                  *)
LEMMA AGStepIsStep ==
  ASSUME [AGNext]_allVars
  PROVE  [Next]_vars
<1>1. CASE ComputeForAG
  <2>1. ComputeReachable /\ UNCHANGED checkVars
    BY <1>1 DEF ComputeForAG, ComputeReachable
  <2> QED
    BY <2>1 DEF ReachNext, Reach, Next
<1>2. CASE RunForAG
  BY <1>2 DEF RunForAG, ReachNext, Reach, Next
<1>3. CASE InterruptAG
  <2>1. UNCHANGED checkVars /\ (InterruptExpand \/ UNCHANGED reachVars)
    BY <1>3 DEF InterruptAG
  <2> QED
    BY <2>1 DEF ReachNext, Reach, Next, vars
<1>4. CASE ConjunctHolds \/ SkipConjunct \/ ConjunctFails \/ WalkBack \/ EndWalk
  BY <1>4 DEF ConjunctHolds, SkipConjunct, ConjunctFails, WalkBack, EndWalk
<1>5. CASE \E spec \in Specs : CheckAGOnlySpec(spec)
  BY <1>5 DEF CheckAGOnlySpec
<1>6. CASE UNCHANGED allVars
  BY <1>6 DEF allVars
<1> QED
  BY <1>1, <1>2, <1>3, <1>4, <1>5, <1>6 DEF AGNext, AGStep

(* With the AG shortcut as one more command, the session is still one of   *)
(* the other commands: all that McInvar promises holds.                    *)
THEOREM AGImplementsSpec == AGSpec => Spec
<1>1. AGInit => Init
  BY DEF AGInit
<1>2. [AGNext]_allVars => [Next]_vars
  BY AGStepIsStep
<1> QED
  BY <1>1, <1>2, PTL DEF AGSpec, Spec

-----------------------------------------------------------------------------
(* Distances.                                                              *)

(* A complete analysis with layers stays as it is.                         *)
LEMMA CompleteStays ==
  ASSUME McInv, [Next]_vars, computed, layers # <<>>
  PROVE  UNCHANGED <<fsm, layers, computed>>
BY McStepExtendsCache

(* A complete analysis has exactly the reachable states.                   *)
LEMMA ExactReachable ==
  ASSUME McInv, computed
  PROVE  ReachableStates = Reachable(fsm) /\ layers \in Seq(SUBSET States)
         /\ Reachable(fsm) \subseteq fsm.invarStates
<1>1. /\ InitRegion(fsm) \subseteq LastLayer(layers) /\ Closed(fsm, LastLayer(layers))
      /\ layers \in Seq(SUBSET States) /\ Between(fsm, layers) /\ fsm \in FsmType
  BY DEF McInv, TypeOK, DataTypeOK, ReachCore, CompleteIsClosed
<1>2. LastLayer(layers) \in SUBSET States /\ LastLayer(layers) \subseteq Reachable(fsm)
  <2>1. CASE layers = <<>>
    BY <2>1 DEF LastLayer
  <2>2. CASE layers # <<>>
    BY <1>1, <2>2, BetweenLast, LastFacts
  <2> QED
    BY <2>1, <2>2
<1>3. Reachable(fsm) \subseteq LastLayer(layers)
  BY <1>1, <1>2, ReachableIsLeast
<1> QED
  BY <1>1, <1>2, <1>3, ReachableWithin DEF ReachableStates

(* Every state of the last layer has an exact distance.                    *)
LEMMA SomeDistance ==
  ASSUME NEW s, layers \in Seq(SUBSET States), s \in LastLayer(layers)
  PROVE  \E d \in Distances : s \in AtDistance(d)
<1>1. layers # <<>>
  BY DEF LastLayer
<1>2. Len(layers) \in Nat /\ Len(layers) > 0 /\ s \in layers[Len(layers)]
  BY <1>1, LastFacts
<1> DEFINE At == {n \in 1 .. Len(layers) : s \in layers[n]}
<1>3. At \in SUBSET Nat /\ At # {}
  BY <1>2
<1>4. PICK n \in At : \A m \in At : n <= m
  BY <1>3, LeastNat
<1>5. n \in 1 .. Len(layers) /\ s \in layers[n] /\ n - 1 \in Distances
  BY <1>2 DEF Distances
<1>6. CASE n = 1
  BY <1>5, <1>6 DEF AtDistance
<1>7. CASE n > 1
  <2>1. n - 1 \in 1 .. Len(layers) /\ ~(n <= n - 1)
    BY <1>2, <1>5, <1>7
  <2>2. s \notin layers[n - 1]
    BY <1>4, <2>1
  <2>3. AtDistance(n - 1) = layers[n - 1 + 1] \ layers[n - 1] /\ n - 1 + 1 = n
    BY <1>5, <1>7 DEF AtDistance
  <2> QED
    BY <1>5, <2>2, <2>3
<1> QED
  BY <1>5, <1>6, <1>7

(* Where a set has reachable states, its minimum distance is one at which  *)
(* there is one of them.                                                   *)
LEMMA MinDistanceIsTaken ==
  ASSUME NEW S, layers \in Seq(SUBSET States),
         S \subseteq fsm.invarStates, S \cap LastLayer(layers) # {}
  PROVE  MinDistanceOf(S) \in Distances /\ S \cap AtDistance(MinDistanceOf(S)) # {}
<1> DEFINE at == {d \in Distances : S \cap fsm.invarStates \cap AtDistance(d) # {}}
<1>1. PICK s \in S : s \in LastLayer(layers)
  OBVIOUS
<1>2. \E d \in Distances : s \in AtDistance(d)
  BY <1>1, SomeDistance
<1>3. at # {}
  BY <1>1, <1>2
<1>4. at \in SUBSET Nat
  BY DEF Distances
<1>5. \E d \in at : \A e \in at : d <= e
  BY <1>3, <1>4, LeastNat
<1>6. MinDistanceOf(S) = CHOOSE d \in at : \A e \in at : d <= e
  BY <1>3 DEF MinDistanceOf
<1>7. MinDistanceOf(S) \in at
  BY <1>5, <1>6
<1> QED
  BY <1>7

(* From a state at an exact distance a step leads back to one that is      *)
(* nearer by exactly one.                                                  *)
LEMMA OneStepNearer ==
  ASSUME IsOnion(fsm, layers), layers \in Seq(SUBSET States), NEW d \in Nat, d + 1 \in Distances,
         NEW t \in AtDistance(d + 1)
  PROVE  \E s \in AtDistance(d) : t \in ForwardImage(fsm, {s})
<1>1. Len(layers) \in Nat /\ d + 1 \in 1 .. Len(layers) - 1 /\ (d + 1) + 1 = d + 2
  BY DEF Distances
<1>2. t \in layers[d + 2] /\ t \notin layers[d + 1]
  BY <1>1 DEF AtDistance
<1>3. layers[d + 2] = layers[d + 1] \cup ForwardImage(fsm, layers[d + 1])
  BY <1>1 DEF IsOnion
<1>4. PICK s \in layers[d + 1] : t \in ForwardImage(fsm, {s})
  BY <1>2, <1>3, ImageFromState
<1>5. s \in AtDistance(d)
  <2>1. CASE d = 0
    BY <1>4, <2>1 DEF AtDistance
  <2>2. CASE d > 0
    <3>1. s \notin layers[d]
      <4> SUFFICES ASSUME s \in layers[d] PROVE FALSE
        OBVIOUS
      <4>1. d \in 1 .. Len(layers) - 1
        BY <1>1, <2>2
      <4>2. layers[d + 1] = layers[d] \cup ForwardImage(fsm, layers[d])
        BY <4>1 DEF IsOnion
      <4>3. t \in ForwardImage(fsm, layers[d])
        BY <1>4, ImageFromState
      <4> QED
        BY <1>2, <4>2, <4>3
    <3> QED
      BY <1>4, <2>2, <3>1 DEF AtDistance
  <2> QED
    BY <2>1, <2>2
<1> QED
  BY <1>4, <1>5
-----------------------------------------------------------------------------
(* One lemma per action.                                                   *)

(* Bad states of a conjunct, where there are any, are at some distance.    *)
LEMMA BadIsAtADistance ==
  ASSUME McInv, computed, AGBad # {}
  PROVE  /\ layers # <<>>
         /\ MinDistanceOf(AGBad) \in Distances
         /\ AGBad \cap AtDistance(MinDistanceOf(AGBad)) # {}
<1>1. layers \in Seq(SUBSET States)
  BY DEF McInv, TypeOK, DataTypeOK
<1>2. AGBad \subseteq fsm.invarStates /\ AGBad \subseteq LastLayer(layers)
  BY DEF AGBad, ReachableStates
<1>3. layers # <<>>
  BY <1>2 DEF LastLayer
<1>4. AGBad \cap LastLayer(layers) # {}
  BY <1>2
<1> HIDE DEF AGBad
<1> QED
  BY <1>1, <1>2, <1>3, <1>4, MinDistanceIsTaken

(* What the answer about one conjunct says of the reachable states.        *)
LEMMA BadIsReachable ==
  ASSUME McInv, computed
  PROVE  AGBad = {} <=> Reachable(fsm) \cap fsm.invarStates \subseteq conjunct.set
<1>1. ReachableStates = Reachable(fsm)
  BY ExactReachable
<1> QED
  BY <1>1 DEF AGBad

(* While the machine, the layers and the conjunct stay, so do distances.   *)
LEMMA DistancesStay ==
  ASSUME UNCHANGED <<fsm, layers, agLeft>>
  PROVE  /\ MinDistanceOf(AGBad)' = MinDistanceOf(AGBad)
         /\ Distances' = Distances
         /\ \A d : AtDistance(d)' = AtDistance(d)
<1>1. Distances' = Distances /\ \A d : AtDistance(d)' = AtDistance(d)
  BY DEF Distances, AtDistance
<1>2. AGBad' = AGBad
  BY DEF AGBad, ReachableStates, conjunct
<1> QED
  BY <1>1, <1>2 DEF MinDistanceOf, Distances, AtDistance, AGBad, ReachableStates, conjunct

LEMMA WalkStays ==
  ASSUME WalkInv, UNCHANGED <<fsm, layers, computed, agLeft, agPath, agLevel>>,
         agPc' = "off" => agPc = "off" \/ agLevel = -1
  PROVE  WalkInv'
<1>1. MinDistanceOf(AGBad)' = MinDistanceOf(AGBad) /\ Distances' = Distances
  BY DistancesStay
<1>2. (AtDistance(agLevel + 1))' = AtDistance(agLevel + 1)
  BY DEF AtDistance
<1>3. (AtDistance(MinDistanceOf(AGBad)))' = AtDistance(MinDistanceOf(AGBad))
  BY <1>1 DEF AtDistance
<1> QED
  BY <1>1, <1>2, <1>3 DEF WalkInv

LEMMA OtherCommandsKeepAG ==
  ASSUME McInv, AGInv, [Next]_vars, agPc = "off", UNCHANGED agVars
  PROVE  AGInv'
<1>1. UNCHANGED <<agPc, agSpec, agLeft, agVerdict, agPath, agInputs, agLevel>>
  BY DEF agVars
<1>2. fsm' = fsm
  BY McStepExtendsCache
<1>3. AGTypeOK'
  BY <1>1 DEF AGInv, AGTypeOK
<1>4. AGRunsAlone' /\ ConjunctsLeft'
  BY <1>1 DEF AGRunsAlone, ConjunctsLeft
<1>5. AnswerKept'
  BY <1>1, <1>2 DEF AGInv, AnswerKept, IsOneAG
<1>6. WalkInv'
  <2>1. CASE agPath = <<>>
    BY <1>1, <2>1 DEF WalkInv
  <2>2. CASE agPath # <<>>
    <3>1. computed /\ layers # <<>>
      BY <2>2 DEF AGInv, WalkInv
    <3>2. UNCHANGED <<fsm, layers, computed>>
      BY <3>1, CompleteStays
    <3> QED
      BY <1>1, <3>2, WalkStays DEF AGInv
  <2> QED
    BY <2>1, <2>2
<1> QED
  BY <1>3, <1>4, <1>5, <1>6 DEF AGInv

LEMMA CheckAGOnlySpecKeepsAG ==
  ASSUME SpecsAssumption, McInv, AGInv, NEW spec \in Specs, CheckAGOnlySpec(spec)
  PROVE  AGInv'
<1>1. /\ pc = "idle" /\ pc' = pc /\ agPc' = "check" /\ agSpec' = spec /\ agLeft' = spec
      /\ agVerdict' = "none" /\ agPath' = <<>> /\ agLevel' = 0
  BY DEF CheckAGOnlySpec, vars, reachVars
<1>2. spec \in Seq(Conjuncts) /\ spec # <<>>
  BY DEF SpecsAssumption
<1>3. AGTypeOK'
  <2>1. agPath' \in Seq(States)
    BY <1>1
  <2>2. agLevel' \in Int
    BY <1>1
  <2>3. agPc' \in {"off", "check", "walk"} /\ agVerdict' \in {"none", "true", "false"}
    BY <1>1
  <2> QED
    BY <1>1, <1>2, <2>1, <2>2, <2>3 DEF AGTypeOK
<1>4. AGRunsAlone'
  BY <1>1 DEF AGRunsAlone, Checking, CheckPcs
<1>5. ConjunctsLeft' /\ AnswerKept' /\ WalkInv'
  BY <1>1, <1>2 DEF ConjunctsLeft, AnswerKept, WalkInv
<1> QED
  BY <1>3, <1>4, <1>5 DEF AGInv

(* The analysis that runs for a check of AG leaves the check as it is.     *)
LEMMA AnalysisKeepsAG ==
  ASSUME McInv, AGInv, ComputeForAG \/ RunForAG
  PROVE  AGInv'
<1>1. agPc = "check" /\ UNCHANGED agVars /\ ReachNext
  BY DEF ComputeForAG, RunForAG, ReachNext, ComputeReachable
<1>2. UNCHANGED <<agPc, agSpec, agLeft, agVerdict, agPath, agInputs, agLevel>>
  BY <1>1 DEF agVars
<1>3. fsm' = fsm /\ ~Checking'
  BY <1>1, ReachRunsAlone DEF Checking, CheckPcs
<1>4. AGTypeOK' /\ AGRunsAlone' /\ ConjunctsLeft'
  BY <1>1, <1>2, <1>3 DEF AGInv, AGTypeOK, AGRunsAlone, ConjunctsLeft
<1>5. AnswerKept'
  BY <1>2, <1>3 DEF AGInv, AnswerKept, IsOneAG
<1>6. WalkInv'
  BY <1>1, <1>2 DEF AGInv, ConjunctsLeft, WalkInv
<1> QED
  BY <1>4, <1>5, <1>6 DEF AGInv

LEMMA ConjunctHoldsKeepsAG ==
  ASSUME McInv, AGInv, ConjunctHolds
  PROVE  AGInv'
<1>1. /\ agPc = "check" /\ pc = "idle" /\ computed /\ AGBad = {} /\ agLeft' = Tail(agLeft)
      /\ IF agLeft' = <<>> THEN agVerdict' = "true" /\ agPc' = "off"
         ELSE UNCHANGED <<agVerdict, agPc>>
      /\ pc' = pc /\ fsm' = fsm /\ UNCHANGED <<agSpec, agPath, agInputs, agLevel>>
  BY DEF ConjunctHolds, vars, reachVars
<1>2. /\ agSpec \in Seq(Conjuncts) /\ agLeft \in Seq(Conjuncts) /\ agLeft # <<>>
      /\ agVerdict = "none" /\ agPath = <<>> /\ (Len(agSpec) = 1 => agLeft = agSpec)
  BY <1>1 DEF AGInv, AGTypeOK, ConjunctsLeft
<1>3. agLeft' \in Seq(Conjuncts) /\ (Len(agLeft) = 1 => agLeft' = <<>>)
  BY <1>1, <1>2
<1>4. AGTypeOK'
  BY <1>1, <1>3 DEF AGInv, AGTypeOK
<1>5. AGRunsAlone'
  BY <1>1 DEF AGRunsAlone, Checking, CheckPcs
<1>6. ConjunctsLeft'
  BY <1>1, <1>2, <1>3 DEF ConjunctsLeft
<1>7. AnswerKept'
  <2>1. Len(agSpec) = 1 => Reachable(fsm) \cap fsm.invarStates \subseteq agSpec[1].set
    BY <1>1, <1>2, BadIsReachable DEF conjunct
  <2>2. agVerdict' # "false"
    BY <1>1, <1>2
  <2> QED
    BY <1>1, <2>1, <2>2 DEF AnswerKept, IsOneAG
<1>8. WalkInv'
  BY <1>1, <1>2 DEF WalkInv
<1> QED
  BY <1>4, <1>5, <1>6, <1>7, <1>8 DEF AGInv

LEMMA SkipConjunctKeepsAG ==
  ASSUME McInv, AGInv, SkipConjunct
  PROVE  AGInv'
<1>1. /\ agPc = "check" /\ conjunct.op # "AG" /\ agVerdict' = "false" /\ agPc' = "off"
      /\ UNCHANGED <<agSpec, agLeft, agPath, agInputs, agLevel>>
  BY DEF SkipConjunct
<1>2. agPath = <<>> /\ (Len(agSpec) = 1 => agLeft = agSpec)
  BY <1>1 DEF AGInv, ConjunctsLeft
<1>3. AGTypeOK' /\ AGRunsAlone' /\ ConjunctsLeft' /\ WalkInv'
  BY <1>1, <1>2 DEF AGInv, AGTypeOK, AGRunsAlone, ConjunctsLeft, WalkInv
<1>4. AnswerKept'
  BY <1>1, <1>2 DEF AnswerKept, IsOneAG, conjunct
<1> QED
  BY <1>3, <1>4 DEF AGInv

LEMMA ConjunctFailsKeepsAG ==
  ASSUME McInv, AGInv, ConjunctFails
  PROVE  AGInv'
<1> DEFINE distance == MinDistanceOf(AGBad)
<1>1. /\ agPc = "check" /\ pc = "idle" /\ computed /\ AGBad # {} /\ agVerdict' = "false"
      /\ \/ /\ \E s \in AGBad \cap AtDistance(distance) : agPath' = <<s>>
            /\ agLevel' = distance - 1
            /\ agPc' = "walk"
         \/ agPc' = "off" /\ UNCHANGED <<agPath, agLevel>>
      /\ pc' = pc /\ UNCHANGED <<fsm, layers, computed, agSpec, agLeft>>
  BY DEF ConjunctFails, vars, reachVars
<1>2. agPath = <<>> /\ (Len(agSpec) = 1 => agLeft = agSpec)
  BY <1>1 DEF AGInv, ConjunctsLeft
<1>3. layers # <<>> /\ distance \in Distances
  BY <1>1, BadIsAtADistance
<1>4. distance \in Int
  BY <1>3 DEF Distances
<1>5. AGBad \in SUBSET States
  <2>1. fsm \in FsmType
    BY DEF McInv, TypeOK, DataTypeOK
  <2> QED
    BY <2>1 DEF AGBad, FsmType
<1> HIDE DEF distance
<1>6. AnswerKept'
  <2>1. IsOneAG => ~(Reachable(fsm) \cap fsm.invarStates \subseteq agSpec[1].set)
    BY <1>1, <1>2, BadIsReachable DEF IsOneAG, conjunct
  <2> QED
    BY <1>1, <2>1 DEF AnswerKept, IsOneAG
<1>7. ConjunctsLeft'
  BY <1>1 DEF ConjunctsLeft
<1>8. CASE agPc' = "off" /\ UNCHANGED <<agPath, agLevel>>
  BY <1>1, <1>2, <1>6, <1>7, <1>8 DEF AGInv, AGTypeOK, AGRunsAlone, WalkInv
<1>9. ASSUME NEW s \in AGBad \cap AtDistance(distance), agPath' = <<s>>,
             agLevel' = distance - 1, agPc' = "walk"
      PROVE  AGInv'
  <2>1. /\ agPath' \in Seq(States) /\ Len(agPath') = 1 /\ agPath'[1] = s
    BY <1>5, <1>9
  <2>2. agLevel' \in Int /\ agLevel' + 1 = distance
    BY <1>4, <1>9
  <2>3. AGTypeOK'
    BY <1>1, <1>9, <2>1, <2>2 DEF AGInv, AGTypeOK
  <2>4. MinDistanceOf(AGBad)' = distance /\ Distances' = Distances
    BY <1>1, DistancesStay DEF distance
  <2>5. /\ (AtDistance(agLevel + 1))' = AtDistance(distance)
        /\ (AtDistance(MinDistanceOf(AGBad)))' = AtDistance(distance)
    BY <1>1, <2>2, <2>4 DEF AtDistance
  <2>6. \A n \in 1 .. Len(agPath') - 1 : FALSE
    BY <2>1
  <2>7. AGRunsAlone'
    BY <1>1, <2>1 DEF AGRunsAlone, Checking, CheckPcs
  <2>8. WalkInv'
    BY <1>1, <1>3, <1>9, <2>1, <2>2, <2>4, <2>5, <2>6 DEF WalkInv
  <2> QED
    BY <1>6, <1>7, <2>3, <2>7, <2>8 DEF AGInv
<1> QED
  BY <1>1, <1>8, <1>9
LEMMA WalkBackKeepsAG ==
  ASSUME McInv, AGInv, WalkBack
  PROVE  AGInv'
<1> DEFINE t == agPath[1]
<1>1. /\ agPc = "walk" /\ agLevel >= 0 /\ agLevel' = agLevel - 1
      /\ UNCHANGED <<fsm, layers, computed, pc, agPc, agSpec, agLeft, agVerdict>>
  BY DEF WalkBack, vars, reachVars
<1>2. PICK s \in NearerStates : agPath' = <<s>> \o agPath
  BY DEF WalkBack
<1>3. /\ agPath \in Seq(States) /\ agPath # <<>> /\ agLevel \in Int
      /\ computed /\ layers # <<>> /\ pc = "idle"
      /\ agLevel + 1 \in Distances
      /\ \A n \in 1 .. Len(agPath) - 1 : agPath[n + 1] \in ForwardImage(fsm, {agPath[n]})
      /\ agPath[Len(agPath)] \in AtDistance(MinDistanceOf(AGBad))
      /\ MinDistanceOf(AGBad) = agLevel + Len(agPath)
  BY <1>1 DEF AGInv, AGTypeOK, AGRunsAlone, WalkInv
<1>4. s \in AtDistance(agLevel) /\ t \in ForwardImage(fsm, {s}) /\ s \in States
  <2>1. s \in AtDistance(agLevel) /\ s \in BackwardImage(fsm, {t})
    BY DEF NearerStates
  <2>2. fsm \in FsmType
    BY DEF McInv, TypeOK, DataTypeOK
  <2>3. s \in States
    BY <2>1, <2>2 DEF BackwardImage, FsmType
  <2> QED
    BY <2>1, <2>3, PreImageFromState
<1>5. /\ agPath' \in Seq(States) /\ Len(agPath') = Len(agPath) + 1 /\ agPath'[1] = s
      /\ \A n \in 1 .. Len(agPath) : agPath'[n + 1] = agPath[n]
      /\ Len(agPath) \in Nat /\ Len(agPath) > 0
  BY <1>2, <1>3, <1>4
<1>6. \A n \in 1 .. Len(agPath') - 1 : agPath'[n + 1] \in ForwardImage(fsm, {agPath'[n]})
  <2> SUFFICES ASSUME NEW n \in 1 .. Len(agPath') - 1
               PROVE  agPath'[n + 1] \in ForwardImage(fsm, {agPath'[n]})
    OBVIOUS
  <2>1. n \in 1 .. Len(agPath) /\ agPath'[n + 1] = agPath[n]
    BY <1>5
  <2>2. CASE n = 1
    BY <1>4, <1>5, <2>1, <2>2
  <2>3. CASE n # 1
    <3> DEFINE m == n - 1
    <3>1. m \in 1 .. Len(agPath) - 1 /\ m \in 1 .. Len(agPath) /\ n = m + 1
      BY <1>5, <2>1, <2>3
    <3> HIDE DEF m
    <3>2. agPath'[n] = agPath[m] /\ agPath'[n + 1] = agPath[m + 1]
      BY <1>5, <2>1, <3>1
    <3> QED
      BY <1>3, <3>1, <3>2
  <2> QED
    BY <2>2, <2>3
<1>7. agPath'[Len(agPath')] = agPath[Len(agPath)]
  BY <1>5
<1>8. agLevel' \in Int /\ agLevel' + 1 = agLevel /\ agLevel \in Distances
  BY <1>1, <1>3 DEF Distances
<1>9. /\ MinDistanceOf(AGBad)' = MinDistanceOf(AGBad) /\ Distances' = Distances
      /\ (AtDistance(agLevel + 1))' = AtDistance(agLevel)
      /\ (AtDistance(MinDistanceOf(AGBad)))' = AtDistance(MinDistanceOf(AGBad))
  <2>1. MinDistanceOf(AGBad)' = MinDistanceOf(AGBad) /\ Distances' = Distances
    BY <1>1, DistancesStay
  <2> QED
    BY <1>1, <1>8, <2>1 DEF AtDistance
<1>10. agLevel' + Len(agPath') = agLevel + Len(agPath)
  BY <1>1, <1>3, <1>5
<1>11. WalkInv'
  BY <1>1, <1>3, <1>4, <1>5, <1>6, <1>7, <1>8, <1>9, <1>10 DEF WalkInv
<1>12. AGTypeOK'
  BY <1>1, <1>5, <1>8 DEF AGInv, AGTypeOK
<1>13. agPath' # <<>>
  BY <1>5
<1>14. AGRunsAlone' /\ ConjunctsLeft'
  BY <1>1, <1>3, <1>13 DEF AGRunsAlone, ConjunctsLeft, Checking, CheckPcs
<1>15. AnswerKept'
  BY <1>1 DEF AGInv, AnswerKept, IsOneAG
<1> QED
  BY <1>11, <1>12, <1>14, <1>15 DEF AGInv

LEMMA EndWalkKeepsAG ==
  ASSUME McInv, AGInv, EndWalk
  PROVE  AGInv'
<1>1. /\ agPc = "walk" /\ agLevel < 0 /\ agPc' = "off"
      /\ UNCHANGED <<fsm, layers, computed, agSpec, agLeft, agVerdict, agPath, agLevel>>
  BY DEF EndWalk, vars, reachVars
<1>2. agLevel = -1
  <2>1. agLevel + 1 \in Distances /\ agLevel \in Int
    BY <1>1 DEF AGInv, AGTypeOK, AGRunsAlone, WalkInv
  <2> QED
    BY <1>1, <2>1 DEF Distances
<1>3. WalkInv'
  BY <1>1, <1>2, WalkStays DEF AGInv
<1>4. AGTypeOK' /\ AGRunsAlone' /\ ConjunctsLeft' /\ AnswerKept'
  BY <1>1 DEF AGInv, AGTypeOK, AGRunsAlone, ConjunctsLeft, AnswerKept, IsOneAG
<1> QED
  BY <1>3, <1>4 DEF AGInv

LEMMA InterruptAGKeepsAG ==
  ASSUME McInv, AGInv, InterruptAG
  PROVE  AGInv'
<1>1. /\ agPc' = "off" /\ agVerdict' = "none" /\ agPath' = <<>>
      /\ UNCHANGED <<agSpec, agLeft, agLevel>>
  BY DEF InterruptAG
<1>2. agPath' \in Seq(States)
  BY <1>1
<1>3. AGTypeOK'
  BY <1>1, <1>2 DEF AGInv, AGTypeOK
<1> QED
  BY <1>1, <1>3 DEF AGInv, AGRunsAlone, ConjunctsLeft, AnswerKept, WalkInv

LEMMA NothingKeepsAG ==
  ASSUME AGInv, UNCHANGED allVars
  PROVE  AGInv'
<1>1. UNCHANGED <<fsm, layers, computed, pc, agPc, agSpec, agLeft, agVerdict, agPath, agLevel>>
  BY DEF allVars, vars, reachVars, agVars
<1>2. WalkInv'
  BY <1>1, WalkStays DEF AGInv
<1> QED
  BY <1>1, <1>2 DEF AGInv, AGTypeOK, AGRunsAlone, Checking, ConjunctsLeft, AnswerKept, IsOneAG

-----------------------------------------------------------------------------
(* AGInv is inductive together with McInv.                                 *)
THEOREM AGInvariant == AGSpec => [](McInv /\ AGInv)
<1> USE SpecsAssumption, MachinesAssumption
<1>1. AGInit => McInv /\ AGInv
  <2> SUFFICES ASSUME AGInit PROVE McInv /\ AGInv
    OBVIOUS
  <2>1. McInv
    BY InitKeepsInv DEF AGInit
  <2>2. /\ agPc = "off" /\ agSpec = <<>> /\ agLeft = <<>> /\ agVerdict = "none"
        /\ agPath = <<>> /\ agLevel = 0
    BY DEF AGInit
  <2>3. agSpec \in Seq(Conjuncts) /\ agLeft \in Seq(Conjuncts) /\ agPath \in Seq(States)
    BY <2>2
  <2>4. agLevel \in Int
    BY <2>2
  <2>5. AGTypeOK
    BY <2>2, <2>3, <2>4 DEF AGTypeOK
  <2> QED
    BY <2>1, <2>2, <2>5 DEF AGInv, AGRunsAlone, ConjunctsLeft, AnswerKept, WalkInv
<1>2. McInv /\ AGInv /\ [AGNext]_allVars => McInv' /\ AGInv'
  <2> SUFFICES ASSUME McInv, AGInv, [AGNext]_allVars PROVE McInv' /\ AGInv'
    OBVIOUS
  <2>1. McInv'
    BY AGStepIsStep, NextKeepsInv
  <2>2. CASE agPc = "off" /\ Next /\ UNCHANGED agVars
    BY <2>1, <2>2, OtherCommandsKeepAG
  <2>3. CASE \E spec \in Specs : CheckAGOnlySpec(spec)
    BY <2>1, <2>3, CheckAGOnlySpecKeepsAG
  <2>4. CASE AGStep
    BY <2>1, <2>4, AnalysisKeepsAG, ConjunctHoldsKeepsAG, SkipConjunctKeepsAG,
       ConjunctFailsKeepsAG, WalkBackKeepsAG, EndWalkKeepsAG
       DEF AGStep
  <2>5. CASE InterruptAG
    BY <2>1, <2>5, InterruptAGKeepsAG
  <2>6. CASE UNCHANGED allVars
    BY <2>1, <2>6, NothingKeepsAG
  <2> QED
    BY <2>2, <2>3, <2>4, <2>5, <2>6 DEF AGNext
<1> QED
  BY <1>1, <1>2, PTL DEF AGSpec

(* For a specification that is one AG the answer is right, whatever the    *)
(* cache held when the check began and whatever was interrupted before.    *)
THEOREM AGVerdictIsRightCorrect == AGSpec => []AGVerdictIsRight
<1>1. McInv /\ AGInv => AGVerdictIsRight
  <2> SUFFICES ASSUME AGInv, agVerdict # "none", Len(agSpec) = 1, agSpec[1].op = "AG"
               PROVE  (agVerdict = "true") = Holds(agSpec[1])
    BY DEF AGVerdictIsRight
  <2>1. Holds(agSpec[1]) <=> Reachable(fsm) \cap fsm.invarStates \subseteq agSpec[1].set
    BY DEF Holds
  <2>2. agVerdict = "true" \/ agVerdict = "false"
    BY DEF AGInv, AGTypeOK
  <2>3. /\ agVerdict = "true" => Reachable(fsm) \cap fsm.invarStates \subseteq agSpec[1].set
        /\ agVerdict = "false" => ~(Reachable(fsm) \cap fsm.invarStates \subseteq agSpec[1].set)
    BY DEF AGInv, AnswerKept, IsOneAG
  <2>4. agVerdict = "true" <=> Holds(agSpec[1])
    BY <2>1, <2>2, <2>3
  <2> QED
    BY <2>1, <2>4 DEF Holds
<1> QED
  BY <1>1, AGInvariant, PTL

(* The assertions of make_AG_counterexample: the walk back always has a    *)
(* state to step to and an input to step with, also when the cache holds a *)
(* repeated last layer.                                                    *)
THEOREM WalkNeverStuckCorrect == AGSpec => []WalkNeverStuck
<1>1. McInv /\ AGInv => WalkNeverStuck
  <2> SUFFICES ASSUME McInv, AGInv, agPc = "walk", agLevel >= 0
               PROVE  /\ NearerStates # {}
                      /\ StatesToStatesInputs(fsm, NearerStates, {agPath[1]}) # {}
    BY DEF WalkNeverStuck
  <2> DEFINE t == agPath[1]
  <2>1. agLevel \in Nat /\ agLevel + 1 \in Distances /\ t \in AtDistance(agLevel + 1)
    BY DEF AGInv, AGTypeOK, AGRunsAlone, WalkInv
  <2>2. IsOnion(fsm, layers) /\ layers \in Seq(SUBSET States)
    BY DEF McInv, TypeOK, DataTypeOK, ReachCore, LayersAreOnion
  <2> HIDE DEF t
  <2>3. PICK s \in AtDistance(agLevel) : t \in ForwardImage(fsm, {s})
    BY <2>1, <2>2, OneStepNearer
  <2>4. s \in NearerStates
    BY <2>3, PreImageFromState DEF NearerStates, t
  <2>5. PICK i : i \in StatesToStatesInputs(fsm, {s}, {t})
    BY <2>3, StepIsAllowed, LabelIsAllowed
  <2>6. i \in StatesToStatesInputs(fsm, NearerStates, {t})
    BY <2>4, <2>5 DEF StatesToStatesInputs
  <2> QED
    BY <2>4, <2>6 DEF t
<1> QED
  BY <1>1, AGInvariant, PTL

(* The states of the counterexample are a path of the machine from an      *)
(* initial state, exactly as long as the least distance of a bad state.    *)
THEOREM AGStatesAreShortestPathCorrect == AGSpec => []AGStatesAreShortestPath
<1>1. McInv /\ AGInv => AGStatesAreShortestPath
  <2> SUFFICES ASSUME McInv, AGInv, agPc = "off", agPath # <<>>
               PROVE  /\ agPath[1] \in InitRegion(fsm)
                      /\ \A n \in 1 .. Len(agPath) - 1 :
                           agPath[n + 1] \in ForwardImage(fsm, {agPath[n]})
                      /\ agPath[Len(agPath)] \in AtDistance(Len(agPath) - 1)
                      /\ MinDistanceOf(AGBad) = Len(agPath) - 1
    BY DEF AGStatesAreShortestPath, HasAGTrace
  <2>1. /\ layers # <<>> /\ agLevel = -1
        /\ agPath[1] \in AtDistance(agLevel + 1)
        /\ \A n \in 1 .. Len(agPath) - 1 : agPath[n + 1] \in ForwardImage(fsm, {agPath[n]})
        /\ agPath[Len(agPath)] \in AtDistance(MinDistanceOf(AGBad))
        /\ MinDistanceOf(AGBad) = agLevel + Len(agPath)
    BY DEF AGInv, WalkInv
  <2>2. agPath \in Seq(States)
    BY DEF AGInv, AGTypeOK
  <2>3. Len(agPath) \in Nat
    BY <2>2
  <2>4. MinDistanceOf(AGBad) = Len(agPath) - 1
    BY <2>1, <2>3
  <2>5. agPath[1] \in layers[1]
    <3>1. agLevel + 1 = 0
      BY <2>1
    <3> QED
      BY <2>1, <3>1 DEF AtDistance
  <2>6. layers[1] = InitRegion(fsm)
    BY <2>1 DEF McInv, ReachCore, LayersAreOnion, IsOnion
  <2> QED
    BY <2>1, <2>4, <2>5, <2>6
<1> QED
  BY <1>1, AGInvariant, PTL
=============================================================================
