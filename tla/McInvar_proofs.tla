--------------------------- MODULE McInvar_proofs ---------------------------
(* Proofs about invariant checking: type correctness, that a verdict is    *)
(* right and a counterexample an execution whatever the strategy and the   *)
(* cache, that no internal error is ever raised, and that the check keeps  *)
(* the promise of the layer cache it shares with the other commands.       *)
EXTENDS McInvar, BddReach_proofs, FiniteSetTheorems

(***************************************************************************)
(* The inductive invariant.                                                *)
(***************************************************************************)

(* What compute_reachable keeps, types aside.                              *)
ReachCore ==
  /\ LayersAreOnion
  /\ PartialHasFrontier
  /\ Between(fsm, layers) /\ Between(fsm, rings)
  /\ CompleteIsClosed
  /\ IdleIsClean
  /\ LoopInv

Checking == pc \in CheckPcs

(* The rings of a check extend the cached layers; when these are complete  *)
(* the check adds none to them.                                            *)
CheckRings ==
  Checking =>
    /\ rings # <<>>
    /\ frontier = LastFrontier(rings)
    /\ RingsExtendLayers
    /\ computed => Len(rings) <= Len(layers) + 1

(* A list of bad states that grows by whole backward images.               *)
IsBackOnion(f, l) ==
  \A n \in 1 .. Len(l) - 1 : l[n + 1] = l[n] \cup BackwardImage(f, l[n])

(* S holds the bad states, and meets the reachable states only if one of   *)
(* them is bad.                                                            *)
LeadsToBad(f, bad, S) ==
  bad \subseteq S /\ (Reachable(f) \cap S # {} => Reachable(f) \cap bad # {})

CheckBadRings ==
  Checking =>
    /\ badRings # <<>> /\ badRings[1] = Bad(inv)
    /\ IsBackOnion(fsm, badRings)
    /\ badFrontier = LastFrontier(badRings)
    /\ \A n \in 1 .. Len(badRings) : LeadsToBad(fsm, Bad(inv), badRings[n])

(* The lists met in their last elements, if at all: the element before the *)
(* last, on either side, is disjoint from the last of the other.           *)
ButLast(l) == IF Len(l) > 1 THEN l[Len(l) - 1] ELSE {}

SearchInv ==
  pc = "search" =>
    /\ target = LastLayer(rings) \cap LastLayer(badRings)
    /\ ButLast(rings) \cap LastLayer(badRings) = {}
    /\ LastLayer(rings) \cap ButLast(badRings) = {}
    /\ computed => Reachable(fsm) \cap Bad(inv) = {}

NoPathYet ==
  pc \in {"initBug", "bisect", "report", "search"} => path = <<>> /\ inputs = <<>>

(* In these places the invariant is known to be false.                     *)
KnownFalse ==
  /\ pc \in {"initBug", "bisect", "report", "forthPath", "backPath"}
       => Reachable(fsm) \cap Bad(inv) # {}
  /\ pc = "initBug" => InitRegion(fsm) \cap Bad(inv) # {}

BisectInv == BisectBrackets /\ (pc = "bisect" => rings = layers)

(* The list l of the sets a reconstruction still has to go through is a    *)
(* beginning of all, and s is in the next set after it and not before.     *)
ToGo(l, all, s) ==
  /\ Len(l) < Len(all) /\ \A n \in 1 .. Len(l) : l[n] = all[n]
  /\ s \in all[Len(l) + 1] \ LastLayer(l)

(* The inputs q allow the steps of p.                                      *)
Allows(f, s, i, t) ==
  i \in f.invarInputs /\ {s, t} \subseteq f.invarStates /\ <<s, i, t>> \in f.trans

Labelled(f, p, q) ==
  /\ p # <<>> /\ Len(q) = Len(p) - 1
  /\ \A n \in 1 .. Len(q) : Allows(f, p[n], q[n], p[n + 1])

PathInv ==
  pc \in {"forthPath", "backPath"} =>
    /\ Labelled(fsm, path, inputs)
    /\ ToGo(fList, rings, path[1])
    /\ pc = "forthPath" => ToGo(bList, badRings, path[Len(path)])
    /\ pc = "backPath" => path[Len(path)] \in Bad(inv)

(* A trace stays right as long as no other check begins.                   *)
TraceKept ==
  ~Checking /\ verdict = "false" /\ path # <<>> =>
    /\ Labelled(fsm, path, inputs)
    /\ path[1] \in InitRegion(fsm) /\ path[Len(path)] \in Bad(inv)

CheckInv ==
  /\ CheckRings /\ CheckBadRings
  /\ SearchInv /\ NoPathYet /\ KnownFalse /\ BisectInv /\ PathInv

AnswerInv == VerdictIsRight /\ TraceKept /\ NoInternalError

McInv == TypeOK /\ ReachCore /\ CheckInv /\ AnswerInv

-----------------------------------------------------------------------------
(* Lists of sets of states.                                                *)
LEMMA LastFacts ==
  ASSUME NEW l \in Seq(SUBSET States), l # <<>>
  PROVE  /\ Len(l) \in Nat /\ Len(l) > 0
         /\ LastLayer(l) = l[Len(l)]
         /\ LastLayer(l) \in SUBSET States /\ ButLast(l) \in SUBSET States
         /\ LastFrontier(l) = LastLayer(l) \ ButLast(l)
<1>1. Len(l) \in Nat /\ Len(l) > 0 /\ Len(l) \in 1 .. Len(l)
  OBVIOUS
<1>2. Len(l) > 1 => Len(l) - 1 \in 1 .. Len(l)
  BY <1>1
<1>3. LastLayer(l) = l[Len(l)] /\ l[Len(l)] \in SUBSET States
  BY <1>1 DEF LastLayer
<1>4. ButLast(l) \in SUBSET States
  BY <1>1, <1>2 DEF ButLast
<1> QED
  BY <1>1, <1>3, <1>4 DEF LastFrontier, ButLast

(* What appending one set changes.                                         *)
LEMMA AppendLast ==
  ASSUME NEW l \in Seq(SUBSET States), l # <<>>, NEW S \in SUBSET States
  PROVE  LET m == Append(l, S)
         IN  /\ m \in Seq(SUBSET States) /\ m # <<>>
             /\ Len(m) = Len(l) + 1 /\ m[Len(l) + 1] = S
             /\ \A n \in 1 .. Len(l) : m[n] = l[n]
             /\ LastLayer(m) = S /\ ButLast(m) = LastLayer(l)
             /\ LastFrontier(m) = S \ LastLayer(l)
<1> DEFINE m == Append(l, S)
<1>1. /\ m \in Seq(SUBSET States) /\ Len(m) = Len(l) + 1 /\ m[Len(l) + 1] = S
      /\ \A n \in 1 .. Len(l) : m[n] = l[n]
  OBVIOUS
<1>2. Len(l) \in Nat /\ Len(l) > 0 /\ LastLayer(l) = l[Len(l)]
  BY LastFacts
<1> HIDE DEF m
<1>3. m # <<>> /\ Len(m) > 1 /\ Len(m) - 1 = Len(l) /\ Len(l) \in 1 .. Len(l)
  BY <1>1, <1>2
<1>4. LastLayer(m) = S /\ ButLast(m) = LastLayer(l)
  BY <1>1, <1>2, <1>3, LastFacts DEF ButLast
<1>5. LastFrontier(m) = S \ LastLayer(l)
  BY <1>1, <1>3, <1>4, LastFacts
<1> QED
  BY <1>1, <1>3, <1>4, <1>5 DEF m

(* The first n elements of a list.                                         *)
LEMMA Beginning ==
  ASSUME NEW T, NEW l \in Seq(T), NEW k \in Nat, k <= Len(l)
  PROVE  /\ SubSeq(l, 1, k) \in Seq(T) /\ Len(SubSeq(l, 1, k)) = k
         /\ \A n \in 1 .. k : SubSeq(l, 1, k)[n] = l[n]
<1>1. \A n \in 1 .. k : l[n] \in T
  OBVIOUS
<1>2. /\ SubSeq(l, 1, k) \in Seq(T)
      /\ Len(SubSeq(l, 1, k)) = IF 1 <= k THEN k - 1 + 1 ELSE 0
      /\ \A n \in 1 .. k - 1 + 1 : SubSeq(l, 1, k)[n] = l[1 + n - 1]
  BY <1>1, SubSeqProperties
<1>3. Len(SubSeq(l, 1, k)) = k
  BY <1>2
<1>4. ASSUME NEW n \in 1 .. k
      PROVE  SubSeq(l, 1, k)[n] = l[n]
  <2>1. n \in 1 .. k - 1 + 1 /\ 1 + n - 1 = n
    OBVIOUS
  <2> QED
    BY <1>2, <2>1
<1> QED
  BY <1>2, <1>3, <1>4

-----------------------------------------------------------------------------
(* Steps of the machine: the images seen from one state.                   *)
LEMMA PreImageFromState ==
  ASSUME NEW f, NEW S, NEW s
  PROVE  s \in BackwardImage(f, S) <=> \E t \in S : t \in ForwardImage(f, {s})
BY DEF ForwardImage, BackwardImage

LEMMA StepIsAllowed ==
  ASSUME NEW f, NEW s, NEW t
  PROVE  t \in ForwardImage(f, {s}) <=> \E i \in f.invarInputs : Allows(f, s, i, t)
BY DEF ForwardImage, Allows

LEMMA LabelIsAllowed ==
  ASSUME NEW f, NEW s, NEW t, NEW i
  PROVE  i \in StatesToStatesInputs(f, {s}, {t}) <=> Allows(f, s, i, t)
<1>1. i \in StatesToStatesInputs(f, {s}, {t})
        <=> i \in f.invarInputs /\ <<s, i>> \in WeakBackwardImage(f, {t})
  BY DEF StatesToStatesInputs
<1>2. <<s, i>> \in WeakBackwardImage(f, {t})
        <=> /\ <<s, i>> \in f.invarStates \X f.invarInputs
            /\ t \in f.invarStates /\ <<s, i, t>> \in f.trans
  BY DEF WeakBackwardImage
<1> QED
  BY <1>1, <1>2 DEF Allows

(* Every reachable state satisfies the constraints.                        *)
LEMMA ReachableWithin ==
  ASSUME NEW f \in FsmType
  PROVE  Reachable(f) \subseteq f.invarStates /\ Reachable(f) \in SUBSET States
<1>1. f.invarStates \in SUBSET States
  BY DEF FsmType
<1>2. InitRegion(f) \subseteq f.invarStates /\ Closed(f, f.invarStates)
  BY DEF InitRegion, Closed, ForwardImage
<1> QED
  BY <1>1, <1>2, ReachableIsLeast

(* The last set of an onion holds the one before it and its image.         *)
LEMMA OnionLast ==
  ASSUME NEW f, NEW l \in Seq(SUBSET States), l # <<>>, IsOnion(f, l)
  PROVE  /\ ButLast(l) \subseteq LastLayer(l)
         /\ ForwardImage(f, ButLast(l)) \subseteq LastLayer(l)
<1>1. Len(l) \in Nat /\ Len(l) > 0 /\ LastLayer(l) = l[Len(l)]
  BY LastFacts
<1>2. CASE Len(l) > 1
  <2>1. Len(l) - 1 \in 1 .. Len(l) - 1 /\ (Len(l) - 1) + 1 = Len(l)
    BY <1>1, <1>2
  <2>2. l[Len(l)] = l[Len(l) - 1] \cup ForwardImage(f, l[Len(l) - 1])
    BY <2>1 DEF IsOnion
  <2> QED
    BY <1>1, <1>2, <2>2 DEF ButLast
<1>3. CASE ~(Len(l) > 1)
  BY <1>3 DEF ButLast, ForwardImage
<1> QED
  BY <1>2, <1>3

LEMMA BackOnionLast ==
  ASSUME NEW f, NEW l \in Seq(SUBSET States), l # <<>>, IsBackOnion(f, l)
  PROVE  /\ ButLast(l) \subseteq LastLayer(l)
         /\ BackwardImage(f, ButLast(l)) \subseteq LastLayer(l)
<1>1. Len(l) \in Nat /\ Len(l) > 0 /\ LastLayer(l) = l[Len(l)]
  BY LastFacts
<1>2. CASE Len(l) > 1
  <2>1. Len(l) - 1 \in 1 .. Len(l) - 1 /\ (Len(l) - 1) + 1 = Len(l)
    BY <1>1, <1>2
  <2>2. l[Len(l)] = l[Len(l) - 1] \cup BackwardImage(f, l[Len(l) - 1])
    BY <2>1 DEF IsBackOnion
  <2> QED
    BY <1>1, <1>2, <2>2 DEF ButLast
<1>3. CASE ~(Len(l) > 1)
  BY <1>3 DEF ButLast, BackwardImage
<1> QED
  BY <1>2, <1>3

(* Imaging the last backward frontier adds as much as imaging the whole    *)
(* last set.                                                               *)
LEMMA BackFrontierStep ==
  ASSUME NEW f \in FsmType, NEW l \in Seq(SUBSET States), l # <<>>, IsBackOnion(f, l)
  PROVE  LET more == LastLayer(l) \cup BackwardImage(f, LastFrontier(l))
         IN  /\ more = LastLayer(l) \cup BackwardImage(f, LastLayer(l))
             /\ more \in SUBSET States
             /\ IsBackOnion(f, Append(l, more))
<1> DEFINE more == LastLayer(l) \cup BackwardImage(f, LastFrontier(l))
<1>1. /\ Len(l) \in Nat /\ Len(l) > 0 /\ LastLayer(l) = l[Len(l)]
      /\ LastLayer(l) \in SUBSET States
      /\ LastFrontier(l) = LastLayer(l) \ ButLast(l)
  BY LastFacts
<1>2. more = LastLayer(l) \cup BackwardImage(f, LastLayer(l))
  <2>1. BackwardImage(f, ButLast(l)) \subseteq LastLayer(l)
    BY BackOnionLast
  <2>2. BackwardImage(f, LastLayer(l))
          \subseteq BackwardImage(f, LastFrontier(l)) \cup BackwardImage(f, ButLast(l))
    BY <1>1, ImageFromState, PreImageFromState
  <2>3. BackwardImage(f, LastFrontier(l)) \subseteq BackwardImage(f, LastLayer(l))
    BY <1>1, ImageFromState, PreImageFromState
  <2> QED
    BY <2>1, <2>2, <2>3
<1>3. more \in SUBSET States
  BY <1>1 DEF BackwardImage, FsmType
<1> HIDE DEF more
<1> DEFINE m == Append(l, more)
<1>4. Len(m) = Len(l) + 1 /\ m[Len(l) + 1] = more /\ \A n \in 1 .. Len(l) : m[n] = l[n]
  BY <1>3, AppendLast
<1>5. ASSUME NEW n \in 1 .. Len(m) - 1
      PROVE  m[n + 1] = m[n] \cup BackwardImage(f, m[n])
  <2> HIDE DEF m
  <2>1. CASE n = Len(l)
    BY <2>1, <1>1, <1>2, <1>4
  <2>2. CASE n \in 1 .. Len(l) - 1
    <3>1. n \in 1 .. Len(l) /\ n + 1 \in 1 .. Len(l)
      BY <2>2, <1>1
    <3>2. m[n] = l[n] /\ m[n + 1] = l[n + 1]
      BY <3>1, <1>4
    <3> QED
      BY <2>2, <3>2 DEF IsBackOnion
  <2> QED
    BY <2>1, <2>2, <1>1, <1>4
<1>6. IsBackOnion(f, m)
  BY <1>5 DEF IsBackOnion
<1> QED
  BY <1>2, <1>3, <1>6 DEF more
-----------------------------------------------------------------------------
(* Why the answers are right: facts about one machine f and the two lists. *)

(* An onion whose last step added nothing is closed.                       *)
LEMMA FixpointClosed ==
  ASSUME NEW f, NEW l \in Seq(SUBSET States), l # <<>>, IsOnion(f, l),
         LastFrontier(l) = {}
  PROVE  Closed(f, LastLayer(l))
<1>1. LastLayer(l) \subseteq ButLast(l)
  BY LastFacts
<1>2. ForwardImage(f, LastLayer(l)) \subseteq ForwardImage(f, ButLast(l))
  BY <1>1, ImageMonotone
<1> QED
  BY <1>2, OnionLast DEF Closed

(* Backwards: what cannot enter the bad states cannot be entered from the  *)
(* initial region.                                                         *)
LEMMA BackFixpointUnreached ==
  ASSUME NEW f \in FsmType, NEW l \in Seq(SUBSET States), l # <<>>, IsBackOnion(f, l),
         LastFrontier(l) = {}, InitRegion(f) \cap LastLayer(l) = {}
  PROVE  Reachable(f) \cap LastLayer(l) = {}
<1>1. BackwardImage(f, LastLayer(l)) \subseteq LastLayer(l)
  <2>1. LastLayer(l) \subseteq ButLast(l)
    BY LastFacts
  <2>2. BackwardImage(f, LastLayer(l)) \subseteq BackwardImage(f, ButLast(l))
    BY <2>1, ImageFromState, PreImageFromState
  <2> QED
    BY <2>2, BackOnionLast
<1> DEFINE C == States \ LastLayer(l)
<1>2. Closed(f, C)
  <2> SUFFICES ASSUME NEW t \in ForwardImage(f, C) PROVE t \in C
    BY DEF Closed
  <2>1. PICK s \in C : t \in ForwardImage(f, {s})
    BY DEF ForwardImage
  <2>2. t \in LastLayer(l) => s \in BackwardImage(f, LastLayer(l))
    BY <2>1, ImageFromState, PreImageFromState
  <2>3. t \in States
    BY ImageType
  <2> QED
    BY <1>1, <2>2, <2>3
<1>3. InitRegion(f) \subseteq C /\ C \in SUBSET States
  BY InitType
<1> QED
  BY <1>2, <1>3, ReachableIsLeast

(* The next backward set leads to the bad states if the last one does.     *)
LEMMA LeadsBack ==
  ASSUME NEW f \in FsmType, NEW bad, NEW S, LeadsToBad(f, bad, S)
  PROVE  LeadsToBad(f, bad, S \cup BackwardImage(f, S))
<1>1. ASSUME NEW s \in Reachable(f), s \in BackwardImage(f, S)
      PROVE  Reachable(f) \cap S # {}
  <2>1. PICK t \in S : t \in ForwardImage(f, {s})
    BY <1>1, ImageFromState, PreImageFromState
  <2>2. t \in ForwardImage(f, Reachable(f))
    BY <2>1, ImageFromState, PreImageFromState
  <2> QED
    BY <2>2, ReachableIsClosed DEF Closed
<1> QED
  BY <1>1 DEF LeadsToBad

(* Both lists grow without missing where they meet first: PR and R are the *)
(* last two sets of one, PB and B of the other.                            *)
LEMMA ForwardMeet ==
  ASSUME NEW f, NEW R, NEW B, NEW PB, BackwardImage(f, PB) \subseteq B,
         R \cap B = {}, PB \subseteq B
  PROVE  (R \cup ForwardImage(f, R)) \cap PB = {}
<1> SUFFICES ASSUME NEW t \in PB, t \in ForwardImage(f, R) PROVE FALSE
  OBVIOUS
<1>1. PICK s \in R : t \in ForwardImage(f, {s})
  BY DEF ForwardImage
<1>2. s \in BackwardImage(f, PB)
  BY <1>1, ImageFromState, PreImageFromState
<1> QED
  BY <1>1, <1>2

LEMMA BackwardMeet ==
  ASSUME NEW f, NEW R, NEW B, NEW PR, ForwardImage(f, PR) \subseteq R,
         R \cap B = {}, PR \subseteq R
  PROVE  PR \cap (B \cup BackwardImage(f, B)) = {}
<1> SUFFICES ASSUME NEW s \in PR, s \in BackwardImage(f, B) PROVE FALSE
  OBVIOUS
<1>1. PICK t \in B : t \in ForwardImage(f, {s})
  BY ImageFromState, PreImageFromState
<1>2. t \in ForwardImage(f, PR)
  BY <1>1, ImageFromState, PreImageFromState
<1> QED
  BY <1>1, <1>2

(* The machine BMC is given: it starts in the frontier and avoids explored *)
(* states.  If it cannot reach the bad frontier, no bad state is           *)
(* reachable: the last ring, with what that machine reaches outside the    *)
(* bad states, cannot be left.                                             *)
IsGap(f, R, PR, B, PB, g) ==
  /\ R \in SUBSET States /\ PR \subseteq R /\ ForwardImage(f, PR) \subseteq R
  /\ PB \subseteq B /\ BackwardImage(f, PB) \subseteq B
  /\ R \cap B = {} /\ InitRegion(f) \subseteq R /\ R \subseteq f.invarStates
  /\ g \in FsmType /\ g.init = R \ PR
  /\ f.invarStates \ (PR \cup PB) \subseteq g.invarStates
  /\ g.invarStates \subseteq f.invarStates
  /\ g.invarInputs = f.invarInputs /\ g.trans = f.trans

LEMMA GapIsClosed ==
  ASSUME NEW f \in FsmType, NEW R, NEW PR, NEW B, NEW PB, NEW g,
         IsGap(f, R, PR, B, PB, g), (B \ PB) \cap Reachable(g) = {}
  PROVE  Reachable(f) \cap B = {}
<1>1. /\ R \in SUBSET States /\ PR \subseteq R /\ ForwardImage(f, PR) \subseteq R
      /\ PB \subseteq B /\ BackwardImage(f, PB) \subseteq B
      /\ R \cap B = {} /\ InitRegion(f) \subseteq R /\ R \subseteq f.invarStates
      /\ g \in FsmType /\ g.init = R \ PR
      /\ f.invarStates \ (PR \cup PB) \subseteq g.invarStates
      /\ g.invarStates \subseteq f.invarStates
      /\ g.invarInputs = f.invarInputs /\ g.trans = f.trans
  BY DEF IsGap
<1>2. /\ Reachable(g) \in SUBSET States /\ Reachable(g) \subseteq g.invarStates
      /\ InitRegion(g) \subseteq Reachable(g) /\ Closed(g, Reachable(g))
  BY <1>1, ReachableWithin, ReachableHasInit, ReachableIsClosed
<1> DEFINE Q == Reachable(g) \ B
           C == R \cup Q
<1>3. R \ PR \subseteq Q
  <2>1. R \ PR \subseteq g.invarStates
    BY <1>1
  <2>2. R \ PR \subseteq InitRegion(g)
    BY <1>1, <2>1 DEF InitRegion
  <2> QED
    BY <1>1, <1>2, <2>2
<1>4. ASSUME NEW s \in Q, NEW t \in ForwardImage(f, {s}), t \notin R
      PROVE  t \in Q
  <2>1. t \notin PB
    <3>1. t \in PB => s \in BackwardImage(f, PB)
      BY PreImageFromState
    <3> QED
      BY <1>1, <3>1
  <2>2. t \notin PR
    BY <1>1, <1>4
  <2>3. t \in f.invarStates
    BY DEF ForwardImage
  <2>4. s \in Reachable(g) /\ s \in g.invarStates /\ t \in g.invarStates
    BY <1>1, <1>2, <2>1, <2>2, <2>3
  <2>5. t \in ForwardImage(g, {s})
    BY <1>1, <2>4 DEF ForwardImage
  <2>6. ForwardImage(g, {s}) \subseteq ForwardImage(g, Reachable(g))
    BY <2>4, ImageMonotone
  <2>7. t \in Reachable(g)
    BY <1>2, <2>5, <2>6 DEF Closed
  <2> QED
    BY <2>1, <2>7
<1>5. Closed(f, C)
  <2> SUFFICES ASSUME NEW t \in ForwardImage(f, C) PROVE t \in C
    BY DEF Closed
  <2>1. PICK s \in C : t \in ForwardImage(f, {s})
    BY DEF ForwardImage
  <2>2. CASE s \in PR
    <3>1. ForwardImage(f, {s}) \subseteq ForwardImage(f, PR)
      BY <2>2, ImageMonotone
    <3> QED
      BY <1>1, <2>1, <3>1
  <2>3. CASE s \in Q
    BY <1>4, <2>1, <2>3
  <2> QED
    BY <1>3, <2>2, <2>3
<1>6. C \in SUBSET States /\ InitRegion(f) \subseteq C
  BY <1>1, <1>2
<1>7. Reachable(f) \subseteq C
  BY <1>5, <1>6, ReachableIsLeast
<1>8. C \cap B = {}
  BY <1>1
<1> QED
  BY <1>7, <1>8

(* A walk from a reachable state stays in the reachable states.            *)
LEMMA WalkIsReachable ==
  ASSUME NEW f \in FsmType, NEW k \in Nat, NEW p, p[1] \in Reachable(f),
         \A n \in 1 .. k : p[n + 1] \in ForwardImage(f, {p[n]})
  PROVE  \A n \in 1 .. k + 1 : p[n] \in Reachable(f)
<1> DEFINE Out == {n \in 1 .. k + 1 : p[n] \notin Reachable(f)}
<1> SUFFICES ASSUME Out # {} PROVE FALSE
  OBVIOUS
<1>1. PICK n \in Out : \A m \in Out : n <= m
  <2>1. Out \in SUBSET Nat
    OBVIOUS
  <2> HIDE DEF Out
  <2> QED
    BY <2>1, LeastNat
<1>2. n \in 1 .. k + 1 /\ p[n] \notin Reachable(f)
  OBVIOUS
<1>3. n # 1
  BY <1>2
<1>4. n - 1 \in 1 .. k /\ n - 1 \in 1 .. k + 1 /\ (n - 1) + 1 = n /\ ~(n <= n - 1)
  BY <1>2, <1>3
<1>5. p[n - 1] \in Reachable(f)
  BY <1>1, <1>4
<1>6. p[n] \in ForwardImage(f, Reachable(f))
  <2>1. p[n] \in ForwardImage(f, {p[n - 1]})
    BY <1>4
  <2> QED
    BY <1>5, <2>1, ImageFromState
<1> QED
  BY <1>2, <1>6, ReachableIsClosed DEF Closed
-----------------------------------------------------------------------------
(* What a step that leaves the check has to show: the cache it leaves is   *)
(* good, and the answer it gives is right.                                 *)
CacheGood ==
  /\ layers \in Seq(SUBSET States) /\ computed \in BOOLEAN
  /\ IsOnion(fsm, layers) /\ Between(fsm, layers)
  /\ PartialHasFrontier /\ CompleteIsClosed

LEMMA BetweenLast ==
  ASSUME NEW f, NEW l \in Seq(SUBSET States), l # <<>>, Between(f, l)
  PROVE  InitRegion(f) \subseteq LastLayer(l) /\ LastLayer(l) \subseteq Reachable(f)
<1>1. Len(l) \in Nat /\ Len(l) > 0 /\ LastLayer(l) = l[Len(l)]
  BY LastFacts
<1>2. Len(l) \in 1 .. Len(l)
  BY <1>1
<1> QED
  BY <1>1, <1>2 DEF Between

LEMMA CacheKept ==
  ASSUME McInv, UNCHANGED <<fsm, cache>>
  PROVE  CacheGood'
<1>1. CacheGood
  BY DEF McInv, TypeOK, DataTypeOK, ReachCore, LayersAreOnion, CacheGood
<1> QED
  BY <1>1 DEF cache, CacheGood, PartialHasFrontier, CompleteIsClosed

(* Rings replace a shorter cache: they are complete exactly if the search  *)
(* ran dry forwards.                                                       *)
LEMMA CacheReplaced ==
  ASSUME McInv, Checking, CacheRings(frontier = {}), fsm' = fsm
  PROVE  CacheGood'
<1>1. CASE ~(forwardStep > diameter)
  BY <1>1, CacheKept DEF CacheRings, cache
<1>2. CASE forwardStep > diameter
  <2>1. layers' = rings /\ computed' = (frontier = {})
    BY <1>2 DEF CacheRings
  <2>2. /\ rings \in Seq(SUBSET States) /\ rings # <<>> /\ frontier = LastFrontier(rings)
        /\ IsOnion(fsm, rings) /\ Between(fsm, rings)
    BY DEF McInv, TypeOK, DataTypeOK, CheckInv, CheckRings, ReachCore, LayersAreOnion
  <2>3. frontier = {} => /\ InitRegion(fsm) \subseteq LastLayer(rings)
                         /\ Closed(fsm, LastLayer(rings))
    BY <2>2, BetweenLast, FixpointClosed
  <2> QED
    BY <2>1, <2>2, <2>3 DEF CacheGood, PartialHasFrontier, CompleteIsClosed
<1> QED
  BY <1>1, <1>2

LEMMA EndKeepsInv ==
  ASSUME McInv, LeaveCheck, CacheGood', UNCHANGED <<fsm, steps, timed, inv, failed>>,
         verdict' \in {"none", "true", "false", "unchecked"},
         path' \in Seq(States), inputs' \in Seq(Inputs),
         VerdictIsRight', TraceKept'
  PROVE  McInv'
<1>1. /\ pc' = "idle" /\ rings' = <<>> /\ frontier' = {}
      /\ strategy' = "none" /\ turn' = 0
      /\ badRings' = <<>> /\ badFrontier' = {} /\ target' = {}
      /\ lower' = 0 /\ upper' = 0 /\ bList' = <<>> /\ fList' = <<>>
  BY DEF LeaveCheck
<1>2. <<>> \in Seq(SUBSET States) /\ IsOnion(fsm, <<>>) /\ Between(fsm, <<>>)
  BY EmptyRings
<1>3. DataTypeOK'
  BY <1>1, <1>2 DEF McInv, TypeOK, DataTypeOK, CacheGood
<1>4. TypeOK'
  BY <1>1, <1>2, <1>3 DEF McInv, TypeOK
<1>5. ReachCore'
  BY <1>1, <1>2 DEF CacheGood, ReachCore, LayersAreOnion, IdleIsClean, LoopInv
<1>6. CheckInv'
  BY <1>1 DEF CheckInv, CheckRings, CheckBadRings, SearchInv, NoPathYet, KnownFalse,
              BisectInv, BisectBrackets, PathInv, Checking, CheckPcs
<1>7. NoInternalError'
  BY DEF McInv, AnswerInv, NoInternalError
<1> QED
  BY <1>4, <1>5, <1>6, <1>7 DEF McInv, AnswerInv

(* SIGINT during a check: an earlier conclusion stays, without its trace.  *)
LEMMA InterruptCheckKeepsInv ==
  ASSUME McInv, InterruptCheck
  PROVE  McInv'
<1>1. /\ LeaveCheck /\ path' = <<>> /\ inputs' = <<>>
      /\ UNCHANGED <<fsm, cache, steps, timed, inv, verdict, failed>>
  BY DEF InterruptCheck
<1>2. path' \in Seq(States) /\ inputs' \in Seq(Inputs)
  BY <1>1
<1>3. VerdictIsRight' /\ TraceKept'
  BY <1>1 DEF McInv, AnswerInv, VerdictIsRight, Bad, TraceKept
<1>4. verdict' \in {"none", "true", "false", "unchecked"}
  BY <1>1 DEF McInv, TypeOK
<1> QED
  BY <1>1, <1>2, <1>3, <1>4, CacheKept, EndKeepsInv

(* Two ways a conclusion without a trace is right.                         *)
LEMMA ConclusionKeepsInv ==
  ASSUME McInv, LeaveCheck, CacheGood', UNCHANGED <<fsm, steps, timed, inv, failed, inputs>>,
         verdict' \in {"true", "false", "unchecked"}, path' = <<>>,
         verdict' = "true" => Reachable(fsm) \cap Bad(inv) = {},
         verdict' = "false" => Reachable(fsm) \cap Bad(inv) # {}
  PROVE  McInv'
<1>1. path' \in Seq(States) /\ inputs' \in Seq(Inputs)
  BY DEF McInv, TypeOK
<1>2. VerdictIsRight' /\ TraceKept'
  BY DEF VerdictIsRight, Bad, TraceKept
<1> QED
  BY <1>1, <1>2, EndKeepsInv
-----------------------------------------------------------------------------
(* The two lists of a check and what they bound.                           *)
LEMMA BothLists ==
  ASSUME McInv, Checking
  PROVE  /\ fsm \in FsmType
         /\ rings \in Seq(SUBSET States) /\ rings # <<>> /\ IsOnion(fsm, rings)
         /\ Between(fsm, rings) /\ frontier = LastFrontier(rings)
         /\ InitRegion(fsm) \subseteq LastLayer(rings)
         /\ LastLayer(rings) \subseteq Reachable(fsm)
         /\ badRings \in Seq(SUBSET States) /\ badRings # <<>> /\ IsBackOnion(fsm, badRings)
         /\ badFrontier = LastFrontier(badRings)
         /\ LeadsToBad(fsm, Bad(inv), LastLayer(badRings))
<1>1. /\ fsm \in FsmType
      /\ rings \in Seq(SUBSET States) /\ rings # <<>> /\ IsOnion(fsm, rings)
      /\ Between(fsm, rings) /\ frontier = LastFrontier(rings)
  BY DEF McInv, TypeOK, DataTypeOK, ReachCore, LayersAreOnion, CheckInv, CheckRings
<1>2. /\ badRings \in Seq(SUBSET States) /\ badRings # <<>> /\ IsBackOnion(fsm, badRings)
      /\ badFrontier = LastFrontier(badRings)
      /\ \A n \in 1 .. Len(badRings) : LeadsToBad(fsm, Bad(inv), badRings[n])
  BY DEF McInv, TypeOK, CheckInv, CheckBadRings
<1>3. Len(badRings) \in 1 .. Len(badRings) /\ LastLayer(badRings) = badRings[Len(badRings)]
  BY <1>2, LastFacts
<1> QED
  BY <1>1, <1>2, <1>3, BetweenLast

(* The search never finds a path of the gap machine in vain.               *)
LEMMA GapPath ==
  ASSUME McInv, pc = "search", NEW k \in Nat, NEW p \in BmcPaths(k)
  PROVE  /\ p \in Seq(States) /\ Len(p) = k + 1
         /\ p[1] \in LastLayer(rings) \ ButLast(rings)
         /\ p[k + 1] \in LastLayer(badRings) \ ButLast(badRings)
         /\ Reachable(fsm) \cap Bad(inv) # {}
<1>1. /\ fsm \in FsmType /\ rings # <<>> /\ badRings # <<>>
      /\ rings \in Seq(SUBSET States) /\ badRings \in Seq(SUBSET States)
      /\ frontier = LastFrontier(rings) /\ badFrontier = LastFrontier(badRings)
      /\ LastLayer(rings) \subseteq Reachable(fsm)
      /\ LeadsToBad(fsm, Bad(inv), LastLayer(badRings))
  BY BothLists DEF Checking, CheckPcs
<1>2. /\ BmcMachine.init = frontier /\ BmcMachine.invarStates = fsm.invarStates \ Explored
      /\ BmcMachine.invarInputs = fsm.invarInputs /\ BmcMachine.trans = fsm.trans
  BY <1>1 DEF BmcMachine, FsmType
<1>3. /\ p \in [1 .. k + 1 -> BmcMachine.invarStates]
      /\ p[1] \in InitRegion(BmcMachine) /\ p[k + 1] \in badFrontier
      /\ \A n \in 1 .. k : p[n + 1] \in ForwardImage(BmcMachine, {p[n]})
  BY DEF BmcPaths
<1>4. p \in Seq(States) /\ Len(p) = k + 1
  <2>1. p \in [1 .. k + 1 -> States]
    BY <1>1, <1>2, <1>3 DEF FsmType
  <2> QED
    BY <2>1, SeqDef
<1>5. p[1] \in LastLayer(rings) \ ButLast(rings)
  <2>1. p[1] \in frontier
    BY <1>2, <1>3 DEF InitRegion
  <2> QED
    BY <1>1, <2>1, LastFacts
<1>6. p[k + 1] \in LastLayer(badRings) \ ButLast(badRings)
  BY <1>1, <1>3, LastFacts
<1>7. \A n \in 1 .. k : p[n + 1] \in ForwardImage(fsm, {p[n]})
  BY <1>2, <1>3 DEF ForwardImage
<1>8. \A n \in 1 .. k + 1 : p[n] \in Reachable(fsm)
  BY <1>1, <1>5, <1>7, WalkIsReachable
<1>9. p[k + 1] \in Reachable(fsm)
  BY <1>8
<1> QED
  BY <1>1, <1>4, <1>5, <1>6, <1>9 DEF LeadsToBad

(* While the gap machine is built the two lists are disjoint; if it cannot *)
(* reach the bad frontier the invariant holds.                             *)
LEMMA GapProves ==
  ASSUME McInv, pc = "search", target = {},
         badFrontier \cap Reachable(BmcMachine) = {}
  PROVE  Reachable(fsm) \cap Bad(inv) = {}
<1> DEFINE R == LastLayer(rings)     PR == ButLast(rings)
           B == LastLayer(badRings)  PB == ButLast(badRings)
<1>1. /\ fsm \in FsmType /\ rings # <<>> /\ badRings # <<>>
      /\ rings \in Seq(SUBSET States) /\ badRings \in Seq(SUBSET States)
      /\ IsOnion(fsm, rings) /\ IsBackOnion(fsm, badRings)
      /\ frontier = LastFrontier(rings) /\ badFrontier = LastFrontier(badRings)
      /\ InitRegion(fsm) \subseteq R /\ R \subseteq Reachable(fsm)
      /\ LeadsToBad(fsm, Bad(inv), B)
  BY BothLists DEF Checking, CheckPcs
<1>2. R \cap B = {}
  BY DEF McInv, CheckInv, SearchInv
<1>3. /\ R \in SUBSET States /\ PR \in SUBSET States /\ frontier = R \ PR
      /\ B \in SUBSET States /\ PB \in SUBSET States /\ badFrontier = B \ PB
  BY <1>1, LastFacts
<1>4. /\ PR \subseteq R /\ ForwardImage(fsm, PR) \subseteq R
      /\ PB \subseteq B /\ BackwardImage(fsm, PB) \subseteq B
  BY <1>1, OnionLast, BackOnionLast
<1>5. R \subseteq fsm.invarStates
  BY <1>1, ReachableWithin
<1>6. Explored \subseteq PR \cup PB
  <2>1. Len(rings) \in Nat /\ Len(badRings) \in Nat
    BY <1>1, LastFacts
  <2>2. forwardStep > 1 => rings[forwardStep] = PR
    BY <2>1 DEF forwardStep, ButLast
  <2>3. backwardStep > 1 => badRings[backwardStep] = PB
    BY <2>1 DEF backwardStep, ButLast
  <2> QED
    BY <2>2, <2>3 DEF Explored
<1>7. /\ BmcMachine \in FsmType
      /\ BmcMachine.init = R \ PR /\ BmcMachine.invarStates = fsm.invarStates \ Explored
      /\ BmcMachine.invarInputs = fsm.invarInputs /\ BmcMachine.trans = fsm.trans
  BY <1>1, <1>3 DEF BmcMachine, FsmType
<1>8. (B \ PB) \cap Reachable(BmcMachine) = {}
  BY <1>3
<1> HIDE DEF R, PR, B, PB
<1>9. IsGap(fsm, R, PR, B, PB, BmcMachine)
  <2>1. /\ fsm.invarStates \ (PR \cup PB) \subseteq BmcMachine.invarStates
        /\ BmcMachine.invarStates \subseteq fsm.invarStates
    BY <1>6, <1>7
  <2> QED
    BY <1>1, <1>2, <1>3, <1>4, <1>5, <1>7, <2>1 DEF IsGap
<1>10. Reachable(fsm) \cap B = {}
  BY <1>1, <1>8, <1>9, GapIsClosed
<1> QED
  BY <1>1, <1>10 DEF LeadsToBad
-----------------------------------------------------------------------------
(* The steps that end a check.                                             *)

(* A step that ends the check keeps the type of the cache's other parts:   *)
(* all that CacheRings looks at when the frontier is not empty.            *)
LEMMA PartialRings ==
  ASSUME frontier # {}, CacheRings(FALSE)
  PROVE  CacheRings(frontier = {})
BY DEF CacheRings

LEMMA BugInInitialStateKeepsInv ==
  ASSUME McInv, BugInInitialState
  PROVE  McInv'
<1>1. /\ pc = "initBug" /\ verdict' = "false" /\ LeaveCheck
      /\ UNCHANGED <<fsm, steps, timed, inv, inputs, failed>>
      /\ (\E s \in InitRegion(fsm) \cap Bad(inv) : path' = <<s>>) \/ path' = path
      /\ IF diameter <= 0 THEN layers' = <<InitRegion(fsm)>> /\ computed' = FALSE
         ELSE UNCHANGED cache
  BY DEF BugInInitialState
<1>2. path = <<>> /\ inputs = <<>> /\ InitRegion(fsm) \cap Bad(inv) # {}
  BY <1>1 DEF McInv, CheckInv, NoPathYet, KnownFalse
<1>3. fsm \in FsmType /\ InitRegion(fsm) \in SUBSET States
  BY InitType DEF McInv, TypeOK, DataTypeOK
<1>4. CacheGood'
  <2>1. CASE diameter <= 0
    <3>1. layers' = <<InitRegion(fsm)>> /\ computed' = FALSE /\ fsm' = fsm
      BY <1>1, <2>1
    <3>2. LastFrontier(layers') # {} /\ layers' \in Seq(SUBSET States) /\ IsOnion(fsm, layers')
      <4> DEFINE S == InitRegion(fsm)
      <4>1. S \in SUBSET States /\ S # {} /\ layers' = <<S>>
        BY <1>2, <1>3, <3>1
      <4>2. <<S>> \in Seq(SUBSET States) /\ LastFrontier(<<S>>) = S /\ IsOnion(fsm, <<S>>)
        BY <4>1, OneRing
      <4> HIDE DEF S
      <4> QED
        BY <4>1, <4>2
    <3>3. Between(fsm, layers')
      <4>1. Len(layers') = 1 /\ layers'[1] = InitRegion(fsm)
        BY <1>3, <3>1, OneRing
      <4> QED
        BY <1>3, <4>1, ReachableHasInit DEF Between
    <3> QED
      BY <3>1, <3>2, <3>3 DEF CacheGood, PartialHasFrontier, CompleteIsClosed
  <2>2. CASE ~(diameter <= 0)
    BY <1>1, <2>2, CacheKept
  <2> QED
    BY <2>1, <2>2
<1>5. path' \in Seq(States) /\ inputs' \in Seq(Inputs)
  <2>1. \A s \in InitRegion(fsm) : <<s>> \in Seq(States)
    BY <1>3
  <2>2. path \in Seq(States) /\ inputs \in Seq(Inputs)
    BY DEF McInv, TypeOK
  <2> QED
    BY <1>1, <2>1, <2>2
<1>6. VerdictIsRight'
  BY <1>1, <1>2, <1>3, ReachableHasInit DEF VerdictIsRight, Bad
<1>7. TraceKept'
  <2>1. CASE path' = path
    BY <1>2, <2>1 DEF TraceKept
  <2>2. ASSUME NEW s \in InitRegion(fsm) \cap Bad(inv), path' = <<s>>
        PROVE  TraceKept'
    <3>1. path' # <<>> /\ Len(path') = 1 /\ path'[1] = s /\ inputs' = <<>> /\ Len(inputs') = 0
      BY <1>1, <1>2, <2>2
    <3>2. Labelled(fsm', path', inputs')
      BY <3>1 DEF Labelled
    <3> QED
      BY <1>1, <2>2, <3>1, <3>2 DEF TraceKept, Bad
  <2> QED
    BY <1>1, <2>1, <2>2
<1> QED
  BY <1>1, <1>4, <1>5, <1>6, <1>7, EndKeepsInv

LEMMA CompleteAndSafeKeepsInv ==
  ASSUME McInv, CompleteAndSafe
  PROVE  McInv'
<1>1. /\ pc = "search" /\ computed /\ verdict' = "true" /\ LeaveCheck
      /\ UNCHANGED <<fsm, cache, steps, timed, inv, path, inputs, failed>>
  BY DEF CompleteAndSafe
<1>2. path' = <<>> /\ Reachable(fsm) \cap Bad(inv) = {}
  BY <1>1 DEF McInv, CheckInv, NoPathYet, SearchInv
<1> QED
  BY <1>1, <1>2, CacheKept, ConclusionKeepsInv

LEMMA ConcludeTrueKeepsInv ==
  ASSUME McInv, ConcludeTrue
  PROVE  McInv'
<1>1. /\ pc = "search" /\ target = {} /\ (badFrontier = {} \/ frontier = {})
      /\ verdict' = "true" /\ CacheRings(frontier = {}) /\ LeaveCheck
      /\ UNCHANGED <<fsm, steps, timed, inv, path, inputs, failed>>
  BY DEF ConcludeTrue
<1>2. path' = <<>> /\ LastLayer(rings) \cap LastLayer(badRings) = {}
  BY <1>1 DEF McInv, CheckInv, NoPathYet, SearchInv
<1>3. /\ fsm \in FsmType /\ rings # <<>> /\ badRings # <<>>
      /\ rings \in Seq(SUBSET States) /\ badRings \in Seq(SUBSET States)
      /\ IsOnion(fsm, rings) /\ IsBackOnion(fsm, badRings)
      /\ frontier = LastFrontier(rings) /\ badFrontier = LastFrontier(badRings)
      /\ InitRegion(fsm) \subseteq LastLayer(rings)
      /\ LastLayer(rings) \subseteq Reachable(fsm)
      /\ LeadsToBad(fsm, Bad(inv), LastLayer(badRings))
  BY <1>1, BothLists DEF Checking, CheckPcs
<1>4. Reachable(fsm) \cap LastLayer(badRings) = {}
  <2>1. CASE frontier = {}
    <3>1. Closed(fsm, LastLayer(rings)) /\ LastLayer(rings) \in SUBSET States
      BY <1>3, <2>1, FixpointClosed, LastFacts
    <3>2. Reachable(fsm) \subseteq LastLayer(rings)
      BY <1>3, <3>1, ReachableIsLeast
    <3> QED
      BY <1>2, <3>2
  <2>2. CASE badFrontier = {}
    <3>1. InitRegion(fsm) \cap LastLayer(badRings) = {}
      BY <1>2, <1>3
    <3> QED
      BY <1>3, <2>2, <3>1, BackFixpointUnreached
  <2> QED
    BY <1>1, <2>1, <2>2
<1>5. Reachable(fsm) \cap Bad(inv) = {}
  BY <1>3, <1>4 DEF LeadsToBad
<1>6. CacheGood'
  BY <1>1, CacheReplaced DEF Checking, CheckPcs
<1> QED
  BY <1>1, <1>2, <1>5, <1>6, ConclusionKeepsInv

LEMMA ReportFalseKeepsInv ==
  ASSUME McInv, ReportFalse
  PROVE  McInv'
<1>1. /\ pc = "report" \/ (pc = "search" /\ target # {})
      /\ verdict' = "false" /\ CacheRings(frontier = {}) /\ LeaveCheck
      /\ UNCHANGED <<fsm, steps, timed, inv, path, inputs, failed>>
  BY DEF ReportFalse
<1>2. path' = <<>>
  BY <1>1 DEF McInv, CheckInv, NoPathYet
<1>3. Checking
  BY <1>1 DEF Checking, CheckPcs
<1>4. Reachable(fsm) \cap Bad(inv) # {}
  <2>1. CASE pc = "report"
    BY <2>1 DEF McInv, CheckInv, KnownFalse
  <2>2. CASE pc = "search" /\ target # {}
    <3>1. target = LastLayer(rings) \cap LastLayer(badRings)
      BY <2>2 DEF McInv, CheckInv, SearchInv
    <3> QED
      BY <1>3, <2>2, <3>1, BothLists DEF LeadsToBad
  <2> QED
    BY <1>1, <2>1, <2>2
<1>5. CacheGood'
  BY <1>1, <1>3, CacheReplaced
<1> QED
  BY <1>1, <1>2, <1>4, <1>5, ConclusionKeepsInv

(* The three ways BMC ends a check without a trace.                        *)
LEMMA BmcEndKeepsInv ==
  ASSUME McInv, BmcProves \/ BmcGivesUp \/ BmcReportsFalse
  PROVE  McInv'
<1>1. /\ pc = "search" /\ frontier # {} /\ target = {}
      /\ CacheRings(FALSE) /\ LeaveCheck
      /\ UNCHANGED <<fsm, steps, timed, inv, path, inputs, failed>>
  BY DEF BmcProves, BmcGivesUp, BmcReportsFalse, SwitchToBmc, Searching
<1>2. path' = <<>> /\ CacheGood'
  <2>1. CacheRings(frontier = {})
    BY <1>1, PartialRings
  <2> QED
    BY <1>1, <2>1, CacheReplaced DEF McInv, CheckInv, NoPathYet, Checking, CheckPcs
<1>3. CASE BmcProves
  <2>1. verdict' = "true" /\ Reachable(fsm) \cap Bad(inv) = {}
    BY <1>1, <1>3, GapProves DEF BmcProves
  <2> QED
    BY <1>1, <1>2, <2>1, ConclusionKeepsInv
<1>4. CASE BmcGivesUp
  <2>1. verdict' = "unchecked"
    BY <1>4 DEF BmcGivesUp
  <2> QED
    BY <1>1, <1>2, <2>1, ConclusionKeepsInv
<1>5. CASE BmcReportsFalse
  <2>1. PICK k \in 0 .. MaxK : BmcPaths(k) # {}
    BY <1>5 DEF BmcReportsFalse, BmcFinds
  <2>2. k \in Nat
    BY MaxKAssumption DEF MaxKAssumption
  <2>3. verdict' = "false" /\ Reachable(fsm) \cap Bad(inv) # {}
    BY <1>1, <1>5, <2>1, <2>2, GapPath DEF BmcReportsFalse
  <2> QED
    BY <1>1, <1>2, <2>3, ConclusionKeepsInv
<1> QED
  BY <1>3, <1>4, <1>5

LEMMA ReturnTraceKeepsInv ==
  ASSUME McInv, ReturnTrace
  PROVE  McInv'
<1>1. /\ pc = "backPath" /\ fList = <<>> /\ verdict' = "false"
      /\ CacheRings(frontier = {}) /\ LeaveCheck
      /\ UNCHANGED <<fsm, steps, timed, inv, path, inputs, failed>>
  BY DEF ReturnTrace
<1>2. /\ Labelled(fsm, path, inputs) /\ ToGo(fList, rings, path[1])
      /\ path[Len(path)] \in Bad(inv) /\ Reachable(fsm) \cap Bad(inv) # {}
  BY <1>1 DEF McInv, CheckInv, PathInv, KnownFalse
<1>3. Checking
  BY <1>1 DEF Checking, CheckPcs
<1>4. path[1] \in InitRegion(fsm)
  <2>1. rings # <<>> /\ IsOnion(fsm, rings)
    BY <1>3, BothLists
  <2>2. Len(fList) = 0
    BY <1>1
  <2>3. path[1] \in rings[0 + 1]
    BY <1>2, <2>2 DEF ToGo
  <2> QED
    BY <2>1, <2>3 DEF IsOnion
<1>5. path' \in Seq(States) /\ inputs' \in Seq(Inputs)
  BY <1>1 DEF McInv, TypeOK
<1>6. VerdictIsRight' /\ TraceKept'
  BY <1>1, <1>2, <1>4 DEF VerdictIsRight, TraceKept, Bad
<1> QED
  BY <1>1, <1>3, <1>5, <1>6, CacheReplaced, EndKeepsInv
-----------------------------------------------------------------------------
(* compute_reachable runs only while no check does, and keeps the answer   *)
(* of the last check.                                                      *)
LEMMA CoreIsReachInv ==
  ASSUME McInv, ~Checking
  PROVE  ReachInv
BY DEF McInv, TypeOK, Checking, ReachInv, ReachCore, ReachTypeOK

LEMMA ReachRunsAlone ==
  ASSUME ReachNext
  PROVE  pc \in {"idle", "expand"} /\ pc' \in {"idle", "expand"} /\ fsm' = fsm
BY DEF ReachNext, ComputeReachable, ReportReady, StartExpand, ExpandStep, FinishExpand,
       Finish, InterruptExpand, reachVars

LEMMA ReachKeepsInv ==
  ASSUME McInv, Reach
  PROVE  McInv'
<1>1. ReachNext /\ UNCHANGED checkVars
  BY DEF Reach
<1>2. ~Checking /\ ~Checking' /\ fsm' = fsm /\ pc' \in {"idle", "expand"}
  BY <1>1, ReachRunsAlone DEF Checking, CheckPcs
<1>3. ReachInv'
  BY <1>1, <1>2, CoreIsReachInv, StartKeepsInv, StepKeepsInv, FinishKeepsInv, InterruptKeepsInv,
     StutterKeepsInv, MachinesAssumption, BoundsAssumption
     DEF ReachNext, ReportReady
<1>4. ReachCore' /\ DataTypeOK'
  BY <1>3 DEF ReachInv, ReachCore, ReachTypeOK
<1>5. TypeOK'
  BY <1>1, <1>2, <1>4 DEF McInv, TypeOK, checkVars
<1>6. CheckInv'
  BY <1>2 DEF CheckInv, CheckRings, CheckBadRings, SearchInv, NoPathYet, KnownFalse,
              BisectInv, BisectBrackets, PathInv, Checking, CheckPcs
<1>7. AnswerInv'
  BY <1>1, <1>2 DEF McInv, AnswerInv, VerdictIsRight, Bad, TraceKept, NoInternalError, checkVars
<1> QED
  BY <1>4, <1>5, <1>6, <1>7 DEF McInv

(* Steps inside a check that leave the cache and the rings alone.          *)
LEMMA CoreFrame ==
  ASSUME McInv, Checking', UNCHANGED <<fsm, cache, rings>>
  PROVE  ReachCore'
<1>1. pc' # "idle" /\ pc' # "expand"
  BY DEF Checking, CheckPcs
<1> QED
  BY <1>1 DEF McInv, ReachCore, LayersAreOnion, PartialHasFrontier, CompleteIsClosed,
              IdleIsClean, LoopInv, cache

LEMMA RingsFrame ==
  ASSUME McInv, Checking, UNCHANGED <<fsm, cache, rings, frontier>>
  PROVE  CheckRings'
BY DEF McInv, CheckInv, CheckRings, RingsExtendLayers, cache

LEMMA BadRingsFrame ==
  ASSUME McInv, Checking, UNCHANGED <<fsm, inv, badRings, badFrontier>>
  PROVE  CheckBadRings'
BY DEF McInv, CheckInv, CheckBadRings, Bad

(* Inside a check no trace is kept, and no step but the last changes the   *)
(* verdict to anything but false.                                          *)
LEMMA AnswerFrame ==
  ASSUME McInv, Checking', UNCHANGED <<fsm, inv, failed>>,
         \/ verdict' = verdict
         \/ verdict' = "none"
         \/ verdict' = "false" /\ Reachable(fsm) \cap Bad(inv) # {}
  PROVE  AnswerInv'
<1>1. VerdictIsRight'
  BY DEF McInv, AnswerInv, VerdictIsRight, Bad
<1>2. TraceKept' /\ NoInternalError'
  BY DEF TraceKept, NoInternalError, McInv, AnswerInv
<1> QED
  BY <1>1, <1>2 DEF AnswerInv

-----------------------------------------------------------------------------
(* A check begins with the cached layers, or with the initial region.      *)
LEMMA StartRings ==
  ASSUME McInv, NEW p, NEW s, StartCheck(p, s)
  PROVE  /\ rings' \in Seq(SUBSET States) /\ rings' # <<>>
         /\ IsOnion(fsm, rings') /\ Between(fsm, rings') /\ RingsExtendLayers'
         /\ Len(rings') <= Len(layers) + 1
         /\ frontier' \in SUBSET States
         /\ layers # <<>> => rings' = layers
         /\ layers = <<>> => LastLayer(rings') = InitRegion(fsm)
<1>1. /\ rings' = IF diameter > 0 THEN layers ELSE <<InitRegion(fsm)>>
      /\ frontier' = LastFrontier(rings') /\ layers' = layers
  BY DEF StartCheck, cache
<1>2. /\ fsm \in FsmType /\ layers \in Seq(SUBSET States)
      /\ IsOnion(fsm, layers) /\ Between(fsm, layers)
  BY DEF McInv, TypeOK, DataTypeOK, ReachCore, LayersAreOnion
<1>3. CASE layers # <<>>
  <2>1. Len(layers) \in Nat /\ Len(layers) > 0 /\ rings' = layers
    BY <1>1, <1>2, <1>3, LastFacts DEF diameter
  <2>2. frontier' \in SUBSET States
    <3>1. LastFrontier(layers) \in SUBSET States
      BY <1>2, <1>3, LastFacts
    <3> QED
      BY <1>1, <2>1, <3>1
  <2>3. RingsExtendLayers' /\ Len(rings') <= Len(layers) + 1
    <3>1. layers' = layers /\ rings' = layers /\ Len(layers) \in Nat
      BY <1>1, <2>1
    <3>2. Len(layers') = Len(layers) /\ Len(rings') = Len(layers)
      BY <3>1
    <3>3. Len(layers') <= Len(rings') /\ Len(rings') <= Len(layers) + 1
      BY <3>1, <3>2
    <3> QED
      BY <3>1, <3>3 DEF RingsExtendLayers
  <2> QED
    BY <1>2, <1>3, <2>1, <2>2, <2>3
<1>4. CASE layers = <<>>
  <2> DEFINE S == InitRegion(fsm)
  <2>1. Len(layers) = 0 /\ rings' = <<S>>
    BY <1>1, <1>4 DEF diameter
  <2>2. S \in SUBSET States /\ S \subseteq Reachable(fsm)
    BY <1>2, InitType, ReachableHasInit
  <2>3. /\ <<S>> \in Seq(SUBSET States) /\ Len(<<S>>) = 1 /\ <<S>>[1] = S
        /\ LastFrontier(<<S>>) = S /\ LastLayer(<<S>>) = S /\ IsOnion(fsm, <<S>>)
    BY <2>2, OneRing
  <2>4. Between(fsm, <<S>>)
    BY <2>2, <2>3 DEF Between
  <2> HIDE DEF S
  <2>5. <<S>> # <<>>
    OBVIOUS
  <2>6. RingsExtendLayers'
    <3>1. Len(layers') = 0 /\ Len(rings') = 1
      BY <1>1, <2>1, <2>3
    <3> QED
      BY <3>1 DEF RingsExtendLayers
  <2>7. frontier' = S
    BY <1>1, <2>1, <2>3
  <2>8. Len(rings') <= Len(layers) + 1
    BY <2>1, <2>3
  <2>9. /\ rings' \in Seq(SUBSET States) /\ rings' # <<>>
        /\ IsOnion(fsm, rings') /\ Between(fsm, rings') /\ LastLayer(rings') = S
    BY <2>1, <2>3, <2>4, <2>5
  <2> QED
    BY <1>4, <2>2, <2>6, <2>7, <2>8, <2>9 DEF S
<1> QED
  BY <1>3, <1>4
LEMMA StartCheckKeepsInv ==
  ASSUME McInv, NEW p \in Invariants, NEW s \in Strategies, StartCheck(p, s)
  PROVE  McInv'
<1> DEFINE B == Bad(p)
<1>1. /\ inv' = p /\ verdict' = "none" /\ frontier' = LastFrontier(rings')
      /\ badRings' = <<B>> /\ badFrontier' = B
      /\ target' = B \cap LastLayer(rings')
      /\ strategy' = s /\ turn' = 0 /\ path' = <<>> /\ inputs' = <<>>
      /\ lower' = 0 /\ upper' = IF pc' = "bisect" THEN diameter - 1 ELSE 0
      /\ fsm' = fsm /\ layers' = layers /\ computed' = computed
      /\ UNCHANGED <<steps, timed, bList, fList, failed>>
  BY DEF StartCheck, cache
<1>2. \/ target' = {} /\ pc' = "search"
      \/ target' # {} /\ InitRegion(fsm) \cap B # {} /\ pc' = "initBug"
      \/ target' # {} /\ InitRegion(fsm) \cap B = {} /\ pc' \in {"bisect", "report"}
  BY DEF StartCheck
<1>3. /\ fsm \in FsmType /\ layers \in Seq(SUBSET States)
      /\ IsOnion(fsm, layers) /\ CompleteIsClosed
  BY DEF McInv, TypeOK, DataTypeOK, ReachCore, LayersAreOnion
<1>4. /\ rings' \in Seq(SUBSET States) /\ rings' # <<>>
      /\ IsOnion(fsm, rings') /\ Between(fsm, rings') /\ RingsExtendLayers'
      /\ Len(rings') <= Len(layers) + 1
      /\ frontier' \in SUBSET States
      /\ layers # <<>> => rings' = layers
      /\ layers = <<>> => LastLayer(rings') = InitRegion(fsm)
  BY StartRings
<1>5. /\ B \in SUBSET States /\ Bad(inv)' = B
      /\ <<B>> \in Seq(SUBSET States) /\ <<B>> # <<>> /\ Len(<<B>>) = 1 /\ <<B>>[1] = B
      /\ LastFrontier(<<B>>) = B /\ LastLayer(<<B>>) = B
  <2>1. B \in SUBSET States /\ Bad(inv)' = B
    BY <1>1, <1>3 DEF Bad, FsmType
  <2> HIDE DEF B
  <2> QED
    BY <2>1, OneRing
<1> HIDE DEF B
<1>6. /\ ButLast(rings') \subseteq LastLayer(rings')
      /\ LastLayer(rings') \in SUBSET States
      /\ LastLayer(rings') \subseteq Reachable(fsm)
  BY <1>4, OnionLast, LastFacts, BetweenLast
<1>7. Checking' /\ pc' \in {"search", "initBug", "bisect", "report"}
  BY <1>2 DEF Checking, CheckPcs
<1>8. TypeOK'
  <2>1. inv' \in SUBSET States /\ strategy' \in AllStrategies \cup {"none"}
    BY <1>1, InvariantsAssumption, StrategiesAssumption
       DEF InvariantsAssumption, StrategiesAssumption
  <2>2. /\ badRings' \in Seq(SUBSET States) /\ badFrontier' \in SUBSET States
        /\ target' \in SUBSET States
    BY <1>1, <1>5
  <2>3. path' \in Seq(States) /\ inputs' \in Seq(Inputs)
    BY <1>1
  <2>4. lower' \in Int /\ upper' \in Int
    <3>1. diameter \in Nat
      BY <1>3 DEF diameter
    <3> QED
      BY <1>1, <3>1
  <2>5. DataTypeOK'
    BY <1>1, <1>4 DEF McInv, TypeOK, DataTypeOK
  <2>6. /\ verdict' \in {"none", "true", "false", "unchecked"} /\ turn' \in {0, 1}
        /\ pc' \in {"idle", "expand"} \cup CheckPcs
        /\ bList' \in Seq(SUBSET States) /\ fList' \in Seq(SUBSET States) /\ failed' \in BOOLEAN
    BY <1>1, <1>7 DEF McInv, TypeOK, Checking
  <2> QED
    BY <2>1, <2>2, <2>3, <2>4, <2>5, <2>6 DEF TypeOK
<1>9. ReachCore'
  <2>1. pc' # "idle" /\ pc' # "expand"
    BY <1>7
  <2> QED
    BY <1>1, <1>4, <2>1 DEF McInv, ReachCore, LayersAreOnion, PartialHasFrontier,
                            CompleteIsClosed, IdleIsClean, LoopInv
<1>10. CheckRings'
  BY <1>1, <1>4 DEF CheckRings
<1>11. CheckBadRings'
  <2>1. IsBackOnion(fsm, <<B>>)
    BY <1>5 DEF IsBackOnion
  <2>2. \A n \in 1 .. Len(<<B>>) : LeadsToBad(fsm, B, <<B>>[n])
    BY <1>5 DEF LeadsToBad
  <2> QED
    BY <1>1, <1>5, <2>1, <2>2 DEF CheckBadRings
<1>12. SearchInv'
  <2> SUFFICES ASSUME pc' = "search"
               PROVE  /\ target' = LastLayer(rings') \cap LastLayer(badRings')
                      /\ ButLast(rings') \cap LastLayer(badRings') = {}
                      /\ LastLayer(rings') \cap ButLast(badRings') = {}
                      /\ computed' => Reachable(fsm') \cap Bad(inv)' = {}
    BY DEF SearchInv
  <2>1. B \cap LastLayer(rings') = {}
    BY <1>1, <1>2
  <2>2. LastLayer(badRings') = B /\ ButLast(badRings') = {}
    BY <1>1, <1>5 DEF ButLast
  <2>3. computed => Reachable(fsm) \cap B = {}
    <3> SUFFICES ASSUME computed PROVE Reachable(fsm) \cap B = {}
      OBVIOUS
    <3>1. InitRegion(fsm) \subseteq LastLayer(layers) /\ Closed(fsm, LastLayer(layers))
      BY <1>3 DEF CompleteIsClosed
    <3>2. LastLayer(layers) \in SUBSET States /\ (layers = <<>> => LastLayer(layers) = {})
      BY <1>3, LastFacts DEF LastLayer
    <3>3. Reachable(fsm) \subseteq LastLayer(layers)
      BY <3>1, <3>2, ReachableIsLeast
    <3> QED
      BY <1>4, <2>1, <3>2, <3>3
  <2> QED
    BY <1>1, <1>5, <1>6, <2>1, <2>2, <2>3
<1>13. NoPathYet'
  BY <1>1 DEF NoPathYet
<1>14. KnownFalse'
  <2>1. pc' # "search" => Reachable(fsm) \cap B # {}
    BY <1>1, <1>2, <1>6
  <2> QED
    BY <1>1, <1>2, <1>5, <2>1 DEF KnownFalse
<1>15. BisectInv'
  <2> SUFFICES ASSUME pc' = "bisect"
               PROVE  /\ 0 <= lower' /\ lower' < upper' /\ upper' < Len(layers')
                      /\ layers'[upper' + 1] \cap Bad(inv)' # {}
                      /\ layers'[lower' + 1] \cap Bad(inv)' = {}
                      /\ rings' = layers'
    BY DEF BisectInv, BisectBrackets, diameter
  <2>1. target' # {} /\ InitRegion(fsm) \cap B = {}
    BY <1>2
  <2>2. layers # <<>> /\ rings' = layers
    BY <1>1, <1>4, <2>1
  <2>3. /\ Len(layers) \in Nat /\ Len(layers) > 0 /\ LastLayer(layers) = layers[Len(layers)]
        /\ layers[1] = InitRegion(fsm)
    BY <1>3, <2>2, LastFacts DEF IsOnion
  <2>4. layers[Len(layers)] \cap B # {} /\ layers[1] \cap B = {}
    BY <1>1, <2>1, <2>2, <2>3
  <2>5. Len(layers) > 1 /\ upper' = Len(layers) - 1 /\ upper' + 1 = Len(layers) /\ lower' + 1 = 1
    BY <1>1, <2>3, <2>4 DEF diameter
  <2> QED
    BY <1>1, <1>5, <2>2, <2>3, <2>4, <2>5
<1>16. PathInv'
  BY <1>7 DEF PathInv
<1>17. AnswerInv'
  BY <1>1, <1>7 DEF McInv, AnswerInv, VerdictIsRight, TraceKept, NoInternalError
<1> QED
  BY <1>8, <1>9, <1>10, <1>11, <1>12, <1>13, <1>14, <1>15, <1>16, <1>17 DEF McInv, CheckInv
-----------------------------------------------------------------------------
(* The reconstruction of a path.                                           *)

(* A path that starts in set k + 1 of a list, and not before, has the      *)
(* first k sets to go through.                                             *)
LEMMA StartToGo ==
  ASSUME NEW l \in Seq(SUBSET States), NEW k \in Nat, k < Len(l),
         NEW s \in l[k + 1], k > 0 => s \notin l[k]
  PROVE  SubSeq(l, 1, k) \in Seq(SUBSET States) /\ ToGo(SubSeq(l, 1, k), l, s)
<1> DEFINE m == SubSeq(l, 1, k)
<1>1. m \in Seq(SUBSET States) /\ Len(m) = k /\ \A n \in 1 .. k : m[n] = l[n]
  BY Beginning
<1> HIDE DEF m
<1>2. s \notin LastLayer(m)
  <2>1. CASE m = <<>>
    BY <2>1 DEF LastLayer
  <2>2. CASE m # <<>>
    <3>1. k > 0 /\ LastLayer(m) = m[k]
      BY <1>1, <2>2, LastFacts
    <3>2. m[k] = l[k]
      BY <1>1, <3>1
    <3> QED
      BY <3>1, <3>2
  <2> QED
    BY <2>1, <2>2
<1>3. ToGo(m, l, s)
  BY <1>1, <1>2 DEF ToGo
<1> QED
  BY <1>1, <1>3 DEF m

LEMMA StartFromLast ==
  ASSUME NEW l \in Seq(SUBSET States), l # <<>>, NEW s \in LastLayer(l) \ ButLast(l)
  PROVE  /\ SubSeq(l, 1, Len(l) - 1) \in Seq(SUBSET States)
         /\ ToGo(SubSeq(l, 1, Len(l) - 1), l, s)
<1>1. Len(l) \in Nat /\ Len(l) > 0 /\ LastLayer(l) = l[Len(l)]
  BY LastFacts
<1> DEFINE k == Len(l) - 1
<1>2. k \in Nat /\ k < Len(l) /\ k + 1 = Len(l)
  BY <1>1
<1>3. s \in l[k + 1] /\ (k > 0 => s \notin l[k])
  BY <1>1, <1>2 DEF ButLast
<1> HIDE DEF k
<1>4. SubSeq(l, 1, k) \in Seq(SUBSET States) /\ ToGo(SubSeq(l, 1, k), l, s)
  BY <1>2, <1>3, StartToGo
<1> QED
  BY <1>4 DEF k

(* What the last set to go through is, and what is left without it.        *)
LEMMA NextToGo ==
  ASSUME NEW l \in Seq(SUBSET States), NEW all \in Seq(SUBSET States), NEW s,
         ToGo(l, all, s), l # <<>>
  PROVE  /\ Len(l) \in 1 .. Len(all) - 1
         /\ LastLayer(l) = all[Len(l)] /\ s \in all[Len(l) + 1] /\ s \notin all[Len(l)]
         /\ WithoutLast(l) \in Seq(SUBSET States)
         /\ \A t : /\ t \in LastLayer(l)
                   /\ Len(l) > 1 => t \notin all[Len(l) - 1]
                   => ToGo(WithoutLast(l), all, t)
<1>1. Len(l) \in Nat /\ Len(l) > 0 /\ Len(all) \in Nat /\ LastLayer(l) = l[Len(l)]
  BY LastFacts
<1>2. /\ Len(l) < Len(all) /\ \A n \in 1 .. Len(l) : l[n] = all[n]
      /\ s \in all[Len(l) + 1] \ LastLayer(l)
  BY DEF ToGo
<1>3. Len(l) \in 1 .. Len(all) - 1 /\ Len(l) \in 1 .. Len(l)
  BY <1>1, <1>2
<1>4. LastLayer(l) = all[Len(l)]
  BY <1>1, <1>2, <1>3
<1> DEFINE m == WithoutLast(l)
<1>5. /\ m \in Seq(SUBSET States) /\ Len(m) = Len(l) - 1
      /\ \A n \in 1 .. Len(l) - 1 : m[n] = l[n]
  BY WithoutLastFacts
<1> HIDE DEF m
<1>6. Len(m) < Len(all) /\ Len(m) + 1 = Len(l) /\ \A n \in 1 .. Len(m) : m[n] = all[n]
  BY <1>1, <1>2, <1>5
<1>7. ASSUME NEW t, t \in LastLayer(l), Len(l) > 1 => t \notin all[Len(l) - 1]
      PROVE  ToGo(m, all, t)
  <2>1. t \notin LastLayer(m)
    <3>1. CASE m = <<>>
      BY <3>1 DEF LastLayer
    <3>2. CASE m # <<>>
      <4>1. Len(m) \in Nat /\ Len(m) > 0 /\ LastLayer(m) = m[Len(m)]
        BY <1>5, <3>2, LastFacts
      <4>2. Len(l) > 1 /\ LastLayer(m) = all[Len(l) - 1]
        BY <1>1, <1>5, <1>6, <4>1
      <4> QED
        BY <1>7, <4>2
    <3> QED
      BY <3>1, <3>2
  <2>2. t \in all[Len(m) + 1]
    BY <1>4, <1>6, <1>7
  <2> QED
    BY <1>6, <2>1, <2>2 DEF ToGo
<1> QED
  BY <1>2, <1>3, <1>4, <1>5, <1>7 DEF m

(* There is always a state to step back to, and the step leads one set     *)
(* closer: a state that first appears in set k + 1 has no predecessor      *)
(* before set k.                                                           *)
LEMMA BackIsPossible ==
  ASSUME NEW f, NEW l \in Seq(SUBSET States), NEW all \in Seq(SUBSET States), NEW s,
         IsOnion(f, all), ToGo(l, all, s), l # <<>>
  PROVE  /\ BackwardImage(f, {s}) \cap LastLayer(l) # {}
         /\ WithoutLast(l) \in Seq(SUBSET States)
         /\ \A r \in BackwardImage(f, {s}) \cap LastLayer(l) : ToGo(WithoutLast(l), all, r)
<1> DEFINE k == Len(l)
<1>1. /\ k \in 1 .. Len(all) - 1
      /\ LastLayer(l) = all[k] /\ s \in all[k + 1] /\ s \notin all[k]
      /\ WithoutLast(l) \in Seq(SUBSET States)
      /\ \A t : /\ t \in LastLayer(l)
                /\ k > 1 => t \notin all[k - 1]
                => ToGo(WithoutLast(l), all, t)
  BY NextToGo
<1>2. all[k + 1] = all[k] \cup ForwardImage(f, all[k])
  BY <1>1 DEF IsOnion
<1>3. k > 1 => all[k] = all[k - 1] \cup ForwardImage(f, all[k - 1])
  <2>1. k > 1 => k - 1 \in 1 .. Len(all) - 1 /\ (k - 1) + 1 = k
    BY <1>1
  <2> QED
    BY <2>1 DEF IsOnion
<1> HIDE DEF k
<1>4. PICK r \in all[k] : s \in ForwardImage(f, {r})
  <2>1. s \in ForwardImage(f, all[k])
    BY <1>1, <1>2
  <2> QED
    BY <2>1 DEF ForwardImage
<1>5. r \in BackwardImage(f, {s}) \cap LastLayer(l)
  BY <1>1, <1>4, PreImageFromState
<1>6. ASSUME NEW q \in BackwardImage(f, {s}) \cap LastLayer(l), k > 1
      PROVE  q \notin all[k - 1]
  <2>1. s \in ForwardImage(f, {q})
    BY PreImageFromState
  <2>2. ASSUME q \in all[k - 1] PROVE FALSE
    <3>1. ForwardImage(f, {q}) \subseteq ForwardImage(f, all[k - 1])
      BY <2>2, ImageMonotone
    <3> QED
      BY <1>1, <1>3, <1>6, <2>1, <3>1
  <2> QED
    BY <2>2
<1> QED
  BY <1>1, <1>5, <1>6

LEMMA ForthIsPossible ==
  ASSUME NEW f, NEW l \in Seq(SUBSET States), NEW all \in Seq(SUBSET States), NEW s,
         IsBackOnion(f, all), ToGo(l, all, s), l # <<>>
  PROVE  /\ ForwardImage(f, {s}) \cap LastLayer(l) # {}
         /\ WithoutLast(l) \in Seq(SUBSET States)
         /\ \A t \in ForwardImage(f, {s}) \cap LastLayer(l) : ToGo(WithoutLast(l), all, t)
<1> DEFINE k == Len(l)
<1>1. /\ k \in 1 .. Len(all) - 1
      /\ LastLayer(l) = all[k] /\ s \in all[k + 1] /\ s \notin all[k]
      /\ WithoutLast(l) \in Seq(SUBSET States)
      /\ \A t : /\ t \in LastLayer(l)
                /\ k > 1 => t \notin all[k - 1]
                => ToGo(WithoutLast(l), all, t)
  BY NextToGo
<1>2. all[k + 1] = all[k] \cup BackwardImage(f, all[k])
  BY <1>1 DEF IsBackOnion
<1>3. k > 1 => all[k] = all[k - 1] \cup BackwardImage(f, all[k - 1])
  <2>1. k > 1 => k - 1 \in 1 .. Len(all) - 1 /\ (k - 1) + 1 = k
    BY <1>1
  <2> QED
    BY <2>1 DEF IsBackOnion
<1> HIDE DEF k
<1>4. PICK t \in all[k] : t \in ForwardImage(f, {s})
  <2>1. s \in BackwardImage(f, all[k])
    BY <1>1, <1>2
  <2> QED
    BY <2>1, PreImageFromState
<1>5. t \in ForwardImage(f, {s}) \cap LastLayer(l)
  BY <1>1, <1>4
<1>6. ASSUME NEW q \in ForwardImage(f, {s}) \cap LastLayer(l), k > 1
      PROVE  q \notin all[k - 1]
  <2>1. ASSUME q \in all[k - 1] PROVE FALSE
    <3>1. s \in BackwardImage(f, all[k - 1])
      BY <2>1, PreImageFromState
    <3> QED
      BY <1>1, <1>3, <1>6, <3>1
  <2> QED
    BY <2>1
<1> QED
  BY <1>1, <1>5, <1>6

(* A labelled path grows at either end.                                    *)
LEMMA LabelledAppend ==
  ASSUME NEW f, NEW p \in Seq(States), NEW q \in Seq(Inputs), Labelled(f, p, q),
         NEW i \in Inputs, NEW t \in States, Allows(f, p[Len(p)], i, t)
  PROVE  /\ Append(p, t) \in Seq(States) /\ Append(q, i) \in Seq(Inputs)
         /\ Labelled(f, Append(p, t), Append(q, i))
         /\ Append(p, t)[1] = p[1] /\ Append(p, t)[Len(Append(p, t))] = t
<1> DEFINE pp == Append(p, t)
           qq == Append(q, i)
<1>1. /\ p # <<>> /\ Len(q) = Len(p) - 1
      /\ \A n \in 1 .. Len(q) : Allows(f, p[n], q[n], p[n + 1])
  BY DEF Labelled
<1>2. Len(p) \in Nat /\ Len(p) > 0 /\ Len(q) \in Nat
  BY <1>1
<1>3. /\ pp \in Seq(States) /\ Len(pp) = Len(p) + 1 /\ pp[Len(p) + 1] = t
      /\ \A n \in 1 .. Len(p) : pp[n] = p[n]
      /\ qq \in Seq(Inputs) /\ Len(qq) = Len(q) + 1 /\ qq[Len(q) + 1] = i
      /\ \A n \in 1 .. Len(q) : qq[n] = q[n]
  OBVIOUS
<1> HIDE DEF pp, qq
<1>4. ASSUME NEW n \in 1 .. Len(qq)
      PROVE  Allows(f, pp[n], qq[n], pp[n + 1])
  <2>1. CASE n = Len(q) + 1
    <3>1. n = Len(p) /\ n \in 1 .. Len(p)
      BY <1>1, <1>2, <2>1
    <3>2. pp[n] = p[Len(p)] /\ qq[n] = i /\ pp[n + 1] = t
      BY <1>3, <2>1, <3>1
    <3> QED
      BY <3>2
  <2>2. CASE n \in 1 .. Len(q)
    <3>1. n \in 1 .. Len(p) /\ n + 1 \in 1 .. Len(p)
      BY <1>1, <1>2, <2>2
    <3>2. pp[n] = p[n] /\ qq[n] = q[n] /\ pp[n + 1] = p[n + 1]
      BY <1>3, <2>2, <3>1
    <3> QED
      BY <1>1, <2>2, <3>2
  <2> QED
    BY <1>2, <1>3, <2>1, <2>2
<1>5. pp # <<>> /\ Len(qq) = Len(pp) - 1
  BY <1>1, <1>2, <1>3
<1>6. Labelled(f, pp, qq)
  BY <1>4, <1>5 DEF Labelled
<1>7. pp[1] = p[1] /\ pp[Len(pp)] = t
  BY <1>2, <1>3
<1> QED
  BY <1>3, <1>6, <1>7 DEF pp, qq

(* l is m with x before it.                                                *)
IsPrepended(l, x, m) == l = <<x>> \o m

LEMMA LabelledPrepend ==
  ASSUME NEW f, NEW p \in Seq(States), NEW q \in Seq(Inputs), Labelled(f, p, q),
         NEW i \in Inputs, NEW r \in States, Allows(f, r, i, p[1]),
         NEW pp, IsPrepended(pp, r, p), NEW qq, IsPrepended(qq, i, q)
  PROVE  /\ pp \in Seq(States) /\ qq \in Seq(Inputs) /\ Labelled(f, pp, qq)
         /\ pp[1] = r /\ pp[Len(pp)] = p[Len(p)]
<1>1. /\ p # <<>> /\ Len(q) = Len(p) - 1
      /\ \A n \in 1 .. Len(q) : Allows(f, p[n], q[n], p[n + 1])
  BY DEF Labelled
<1>2. Len(p) \in Nat /\ Len(p) > 0 /\ Len(q) \in Nat
  BY <1>1
<1>3. /\ pp \in Seq(States) /\ Len(pp) = Len(p) + 1 /\ pp[1] = r
      /\ \A n \in 1 .. Len(p) : pp[n + 1] = p[n]
      /\ qq \in Seq(Inputs) /\ Len(qq) = Len(q) + 1 /\ qq[1] = i
      /\ \A n \in 1 .. Len(q) : qq[n + 1] = q[n]
  BY DEF IsPrepended
<1>4. ASSUME NEW n \in 1 .. Len(qq)
      PROVE  Allows(f, pp[n], qq[n], pp[n + 1])
  <2>1. CASE n = 1
    BY <1>2, <1>3, <2>1
  <2>2. CASE n # 1
    <3> DEFINE m == n - 1
    <3>1. m \in 1 .. Len(q) /\ m \in 1 .. Len(p) /\ m + 1 \in 1 .. Len(p) /\ n = m + 1
      BY <1>1, <1>2, <1>3, <2>2
    <3>2. pp[n] = p[m] /\ qq[n] = q[m] /\ pp[n + 1] = p[m + 1]
      BY <1>3, <3>1
    <3> HIDE DEF m
    <3> QED
      BY <1>1, <3>1, <3>2
  <2> QED
    BY <2>1, <2>2
<1>5. pp # <<>> /\ Len(qq) = Len(pp) - 1
  BY <1>1, <1>2, <1>3
<1>6. Labelled(f, pp, qq)
  BY <1>4, <1>5 DEF Labelled
<1>7. pp[Len(pp)] = p[Len(p)]
  BY <1>2, <1>3
<1> QED
  BY <1>3, <1>6, <1>7
-----------------------------------------------------------------------------
(* The steps of the search.                                                *)
LEMMA ForwardStepKeepsInv ==
  ASSUME McInv, ForwardStep
  PROVE  McInv'
<1> DEFINE R == LastLayer(rings)     PR == ButLast(rings)
           B == LastLayer(badRings)  PB == ButLast(badRings)
           reached == R \cup ForwardImage(fsm, frontier)
<1>1. /\ pc = "search" /\ ~computed /\ target = {}
      /\ rings' = Append(rings, reached) /\ frontier' = reached \ R
      /\ target' = B \cap frontier' /\ turn' = 1 - turn
      /\ UNCHANGED <<fsm, cache, pc, steps, timed, inv, verdict, strategy, badRings,
                     badFrontier, boundVars, pathVars, failed>>
  BY DEF ForwardStep, Searching
<1>2. /\ fsm \in FsmType /\ rings # <<>> /\ badRings # <<>>
      /\ rings \in Seq(SUBSET States) /\ badRings \in Seq(SUBSET States)
      /\ IsOnion(fsm, rings) /\ IsBackOnion(fsm, badRings)
      /\ Between(fsm, rings) /\ frontier = LastFrontier(rings)
  BY <1>1, BothLists DEF Checking, CheckPcs
<1>3. /\ R \cap B = {} /\ R \cap PB = {}
      /\ RingsExtendLayers /\ PB \subseteq B /\ BackwardImage(fsm, PB) \subseteq B
  BY <1>1, <1>2, BackOnionLast DEF McInv, CheckInv, SearchInv, CheckRings, Checking, CheckPcs
<1>4. /\ reached = R \cup ForwardImage(fsm, R) /\ reached \in SUBSET States
      /\ IsOnion(fsm, Append(rings, reached))
  BY <1>2, FrontierStep
<1>5. Between(fsm, Append(rings, reached))
  BY <1>2, <1>4, ExtendBetween
<1>6. reached \cap PB = {}
  <2>1. (R \cup ForwardImage(fsm, R)) \cap PB = {}
    BY <1>3, ForwardMeet
  <2> QED
    BY <1>4, <2>1
<1>7. B \in SUBSET States /\ R \in SUBSET States
  BY <1>2, LastFacts
<1> HIDE DEF reached
<1>8. /\ rings' \in Seq(SUBSET States) /\ rings' # <<>>
      /\ Len(rings') = Len(rings) + 1 /\ \A n \in 1 .. Len(rings) : rings'[n] = rings[n]
      /\ LastLayer(rings') = reached /\ ButLast(rings') = R
      /\ frontier' = LastFrontier(rings')
  <2>1. LastFrontier(Append(rings, reached)) = reached \ R
    BY <1>2, <1>4, AppendLast
  <2> QED
    BY <1>1, <1>2, <1>4, <2>1, AppendLast
<1> HIDE DEF R, PR, B, PB
<1>9. Checking /\ Checking' /\ pc' = "search"
  BY <1>1 DEF Checking, CheckPcs
<1>10. TypeOK'
  <2>1. DataTypeOK'
    BY <1>1, <1>4, <1>8 DEF McInv, TypeOK, DataTypeOK, cache
  <2>2. target' \in SUBSET States /\ turn' \in {0, 1}
    BY <1>1, <1>7 DEF McInv, TypeOK
  <2> QED
    BY <1>1, <2>1, <2>2 DEF McInv, TypeOK, boundVars, pathVars
<1>11. ReachCore'
  <2>1. IsOnion(fsm, rings') /\ Between(fsm, rings')
    BY <1>1, <1>4, <1>5
  <2> QED
    BY <1>1, <2>1 DEF McInv, ReachCore, LayersAreOnion, PartialHasFrontier, CompleteIsClosed,
                      IdleIsClean, LoopInv, cache
<1>12. CheckRings'
  <2>1. Len(layers) \in Nat /\ Len(rings) \in Nat
    BY <1>2 DEF McInv, TypeOK, DataTypeOK
  <2>2. RingsExtendLayers'
    <3>1. layers' = layers
      BY <1>1 DEF cache
    <3> QED
      BY <1>3, <1>8, <2>1, <3>1 DEF RingsExtendLayers
  <2> QED
    BY <1>1, <1>8, <2>2 DEF CheckRings, cache
<1>13. CheckBadRings'
  BY <1>1, <1>9, BadRingsFrame
<1>14. SearchInv'
  <2>1. LastLayer(badRings') = B /\ ButLast(badRings') = PB
    BY <1>1 DEF B, PB
  <2>2. target' = reached \cap B
    BY <1>1, <1>3
  <2> QED
    BY <1>1, <1>3, <1>6, <1>8, <2>1, <2>2 DEF SearchInv, cache
<1>15. NoPathYet'
  BY <1>1 DEF McInv, CheckInv, NoPathYet, pathVars
<1>16. KnownFalse' /\ BisectInv' /\ PathInv'
  BY <1>9 DEF KnownFalse, BisectInv, BisectBrackets, PathInv
<1>17. AnswerInv'
  BY <1>1, <1>9, AnswerFrame
<1> QED
  BY <1>10, <1>11, <1>12, <1>13, <1>14, <1>15, <1>16, <1>17 DEF McInv, CheckInv

LEMMA BackwardStepKeepsInv ==
  ASSUME McInv, BackwardStep
  PROVE  McInv'
<1> DEFINE R == LastLayer(rings)     PR == ButLast(rings)
           B == LastLayer(badRings)  PB == ButLast(badRings)
           more == B \cup BackwardImage(fsm, badFrontier)
<1>1. /\ pc = "search" /\ ~computed /\ target = {}
      /\ badRings' = Append(badRings, more) /\ badFrontier' = more \ B
      /\ target' = more \cap R /\ turn' = 1 - turn
      /\ UNCHANGED <<reachVars, inv, verdict, strategy, boundVars, pathVars, failed>>
  BY DEF BackwardStep, Searching
<1>2. /\ fsm \in FsmType /\ rings # <<>> /\ badRings # <<>>
      /\ rings \in Seq(SUBSET States) /\ badRings \in Seq(SUBSET States)
      /\ IsOnion(fsm, rings) /\ IsBackOnion(fsm, badRings)
      /\ badFrontier = LastFrontier(badRings)
      /\ LeadsToBad(fsm, Bad(inv), B)
  BY <1>1, BothLists DEF Checking, CheckPcs
<1>3. /\ R \cap B = {} /\ PR \cap B = {}
      /\ PR \subseteq R /\ ForwardImage(fsm, PR) \subseteq R
      /\ badRings[1] = Bad(inv)
      /\ \A n \in 1 .. Len(badRings) : LeadsToBad(fsm, Bad(inv), badRings[n])
  BY <1>1, <1>2, OnionLast DEF McInv, CheckInv, SearchInv, CheckBadRings, Checking, CheckPcs
<1>4. /\ more = B \cup BackwardImage(fsm, B) /\ more \in SUBSET States
      /\ IsBackOnion(fsm, Append(badRings, more))
  BY <1>2, BackFrontierStep
<1>5. LeadsToBad(fsm, Bad(inv), more)
  BY <1>2, <1>4, LeadsBack
<1>6. PR \cap more = {}
  BY <1>3, <1>4, BackwardMeet
<1> HIDE DEF more
<1>7. /\ badRings' \in Seq(SUBSET States) /\ badRings' # <<>>
      /\ Len(badRings') = Len(badRings) + 1 /\ badRings'[Len(badRings) + 1] = more
      /\ \A n \in 1 .. Len(badRings) : badRings'[n] = badRings[n]
      /\ LastLayer(badRings') = more /\ ButLast(badRings') = B
      /\ badFrontier' = LastFrontier(badRings')
  <2>1. LastFrontier(Append(badRings, more)) = more \ B
    BY <1>2, <1>4, AppendLast
  <2> QED
    BY <1>1, <1>2, <1>4, <2>1, AppendLast
<1> HIDE DEF R, PR, B, PB
<1>8. /\ fsm' = fsm /\ layers' = layers /\ computed' = computed /\ pc' = pc /\ rings' = rings
      /\ frontier' = frontier /\ Bad(inv)' = Bad(inv)
  BY <1>1 DEF reachVars, Bad
<1>9. Checking /\ Checking' /\ pc' = "search"
  BY <1>1, <1>8 DEF Checking, CheckPcs
<1>10. TypeOK'
  <2>1. /\ target' \in SUBSET States /\ turn' \in {0, 1}
        /\ badFrontier' \in SUBSET States
    BY <1>1, <1>4 DEF McInv, TypeOK
  <2> QED
    BY <1>1, <1>7, <2>1 DEF McInv, TypeOK, DataTypeOK, reachVars, boundVars, pathVars
<1>11. ReachCore' /\ CheckRings'
  BY <1>8, <1>9, CoreFrame, RingsFrame DEF cache
<1>12. CheckBadRings'
  <2>1. badRings'[1] = Bad(inv)
    <3>1. 1 \in 1 .. Len(badRings)
      BY <1>2, LastFacts
    <3> QED
      BY <1>3, <1>7, <3>1
  <2>2. \A n \in 1 .. Len(badRings') : LeadsToBad(fsm, Bad(inv), badRings'[n])
    <3>1. Len(badRings) \in Nat
      BY <1>2
    <3>2. \A n \in 1 .. Len(badRings') : n \in 1 .. Len(badRings) \/ n = Len(badRings) + 1
      BY <1>7, <3>1
    <3> QED
      BY <1>3, <1>5, <1>7, <3>2
  <2>3. IsBackOnion(fsm, badRings')
    BY <1>1, <1>4
  <2> QED
    BY <1>7, <1>8, <2>1, <2>2, <2>3 DEF CheckBadRings
<1>13. SearchInv'
  <2>1. LastLayer(rings') = R /\ ButLast(rings') = PR
    BY <1>8 DEF R, PR
  <2> QED
    BY <1>1, <1>3, <1>6, <1>7, <1>8, <2>1 DEF SearchInv
<1>14. NoPathYet'
  BY <1>1, <1>8 DEF McInv, CheckInv, NoPathYet, pathVars
<1>15. KnownFalse' /\ BisectInv' /\ PathInv'
  BY <1>9 DEF KnownFalse, BisectInv, BisectBrackets, PathInv
<1>16. AnswerInv'
  BY <1>1, <1>8, <1>9, AnswerFrame
<1> QED
  BY <1>10, <1>11, <1>12, <1>13, <1>14, <1>15, <1>16 DEF McInv, CheckInv
-----------------------------------------------------------------------------
(* The binary search and the two ways into the reconstruction.             *)
LEMMA BisectKeepsInv ==
  ASSUME McInv, Bisect
  PROVE  McInv'
<1> DEFINE pos == Probe
<1>1. /\ pc = "bisect"
      /\ target' = layers[pos + 1] \cap Bad(inv)
      /\ failed' = (failed \/ upper - lower < 1)
      /\ UNCHANGED <<fsm, cache, rings, frontier, steps, timed, inv, verdict, strategy,
                     turn, badRings, badFrontier, inputs>>
      /\ \/ Buggy(pos) /\ upper' = pos /\ lower' = lower
         \/ ~Buggy(pos) /\ lower' = pos /\ upper' = upper
      /\ \/ /\ Buggy(pos) /\ ~Buggy(pos - 1) /\ pc' = "backPath"
            /\ \E s \in target' : path' = <<s>>
            /\ fList' = SubSeq(rings, 1, pos) /\ bList' = <<>>
         \/ UNCHANGED <<pc, path, fList, bList>>
  BY DEF Bisect, Narrow, FirstBuggy
<1>2. /\ fsm \in FsmType /\ layers \in Seq(SUBSET States) /\ Len(layers) \in Nat
      /\ path = <<>> /\ inputs = <<>> /\ ~failed
  BY <1>1 DEF McInv, TypeOK, DataTypeOK, CheckInv, NoPathYet, AnswerInv, NoInternalError
<1>3. /\ lower \in Int /\ upper \in Int
      /\ 0 <= lower /\ lower < upper /\ upper < Len(layers)
      /\ layers[upper + 1] \cap Bad(inv) # {} /\ layers[lower + 1] \cap Bad(inv) = {}
      /\ rings = layers /\ Reachable(fsm) \cap Bad(inv) # {}
  BY <1>1 DEF McInv, TypeOK, CheckInv, BisectInv, BisectBrackets, KnownFalse, diameter
<1>4. /\ pos \in Nat /\ lower < pos /\ pos <= upper
  BY <1>3 DEF Probe
<1>5. /\ \A n : Buggy(n) <=> layers[n + 1] \cap Bad(inv) # {}
      /\ pos = upper => Buggy(pos)
  BY <1>3 DEF Buggy
<1>6. pos < Len(layers) /\ pos + 1 \in 1 .. Len(layers)
  BY <1>2, <1>3, <1>4
<1> HIDE DEF pos
<1>7. Checking /\ Checking' /\ pc' \in {"bisect", "backPath"}
  BY <1>1 DEF Checking, CheckPcs
<1>8. /\ layers' = layers /\ computed' = computed /\ fsm' = fsm /\ inv' = inv /\ failed' = failed
      /\ Bad(inv)' = Bad(inv) /\ rings' = rings /\ inputs' = <<>>
  <2>1. ~(upper - lower < 1)
    BY <1>3
  <2>2. failed = FALSE
    BY <1>2 DEF McInv, TypeOK
  <2>3. failed' = failed
    BY <1>1, <2>1, <2>2
  <2> QED
    BY <1>1, <1>2, <2>3 DEF cache, Bad
<1>9. target' \in SUBSET States
  BY <1>1, <1>2, <1>6
<1>10. /\ path' \in Seq(States)
       /\ fList' \in Seq(SUBSET States) /\ bList' \in Seq(SUBSET States)
  <2>1. \A s \in target' : <<s>> \in Seq(States)
    BY <1>9
  <2>2. SubSeq(rings, 1, pos) \in Seq(SUBSET States)
    BY <1>2, <1>3, <1>4, <1>6, Beginning
  <2>3. <<>> \in Seq(SUBSET States)
    OBVIOUS
  <2>4. /\ path \in Seq(States)
        /\ fList \in Seq(SUBSET States) /\ bList \in Seq(SUBSET States)
    BY DEF McInv, TypeOK
  <2> QED
    BY <1>1, <2>1, <2>2, <2>3, <2>4
<1>11. TypeOK'
  <2>1. lower' \in Int /\ upper' \in Int
    BY <1>1, <1>3, <1>4
  <2>2. pc' \in {"idle", "expand"} \cup CheckPcs
    BY <1>7 DEF Checking
  <2>3. DataTypeOK'
    BY <1>1, <1>8 DEF McInv, TypeOK, DataTypeOK
  <2> QED
    BY <1>1, <1>8, <1>9, <1>10, <2>1, <2>2, <2>3 DEF McInv, TypeOK
<1>12. ReachCore' /\ CheckRings' /\ CheckBadRings'
  BY <1>1, <1>7, CoreFrame, RingsFrame, BadRingsFrame
<1>13. SearchInv'
  BY <1>7 DEF SearchInv
<1>14. KnownFalse'
  BY <1>3, <1>7, <1>8 DEF KnownFalse
<1>15. AnswerInv'
  BY <1>1, <1>7, <1>8, AnswerFrame
<1>16. CASE UNCHANGED <<pc, path, fList, bList>>
  <2>1. NoPathYet' /\ PathInv'
    BY <1>1, <1>2, <1>8, <1>16 DEF NoPathYet, PathInv
  <2>2. BisectInv'
    <3>1. CASE Buggy(pos) /\ upper' = pos /\ lower' = lower
      <4>1. 0 <= lower' /\ lower' < upper' /\ upper' < Len(layers)
        BY <1>3, <1>4, <1>6, <3>1
      <4> QED
        BY <1>3, <1>5, <1>8, <3>1, <4>1 DEF BisectInv, BisectBrackets, diameter
    <3>2. CASE ~Buggy(pos) /\ lower' = pos /\ upper' = upper
      <4>1. 0 <= lower' /\ lower' < upper' /\ upper' < Len(layers)
        BY <1>3, <1>4, <1>5, <3>2
      <4> QED
        BY <1>3, <1>5, <1>8, <3>2, <4>1 DEF BisectInv, BisectBrackets, diameter
    <3> QED
      BY <1>1, <3>1, <3>2
  <2> QED
    BY <1>11, <1>12, <1>13, <1>14, <1>15, <2>1, <2>2 DEF McInv, CheckInv
<1>17. CASE /\ Buggy(pos) /\ ~Buggy(pos - 1) /\ pc' = "backPath"
            /\ \E s \in target' : path' = <<s>>
            /\ fList' = SubSeq(rings, 1, pos) /\ bList' = <<>>
  <2>1. NoPathYet' /\ BisectInv'
    BY <1>17 DEF NoPathYet, BisectInv, BisectBrackets
  <2>2. PICK s \in target' : path' = <<s>>
    BY <1>17
  <2>3. s \in rings[pos + 1] /\ s \in Bad(inv)
    BY <1>1, <1>3
  <2>4. s \notin rings[pos]
    <3>1. (pos - 1) + 1 = pos
      BY <1>4
    <3>2. layers[(pos - 1) + 1] \cap Bad(inv) = {}
      BY <1>5, <1>17
    <3>3. layers[pos] \cap Bad(inv) = {}
      BY <3>1, <3>2
    <3> QED
      BY <1>3, <2>3, <3>3
  <2>5. ToGo(fList', rings', s)
    BY <1>2, <1>3, <1>4, <1>6, <1>8, <1>17, <2>3, <2>4, StartToGo
  <2>6. /\ path' # <<>> /\ Len(path') = 1 /\ path'[1] = s /\ path'[Len(path')] = s
        /\ Len(inputs') = 0
    BY <1>8, <2>2
  <2>7. Labelled(fsm', path', inputs')
    BY <2>6 DEF Labelled
  <2>8. PathInv'
    BY <1>8, <1>17, <2>3, <2>5, <2>6, <2>7 DEF PathInv
  <2> QED
    BY <1>11, <1>12, <1>13, <1>14, <1>15, <2>1, <2>8 DEF McInv, CheckInv
<1> QED
  BY <1>1, <1>16, <1>17
(* A step of the reconstruction touches the path and its lists only.       *)
LEMMA PathKeepsInv ==
  ASSUME McInv, Checking, pc' \in {"forthPath", "backPath"},
         UNCHANGED <<fsm, cache, rings, frontier, steps, timed, inv, searchVars, boundVars, failed>>,
         Reachable(fsm) \cap Bad(inv) # {}, verdict' = verdict \/ verdict' = "false",
         path' \in Seq(States), inputs' \in Seq(Inputs),
         bList' \in Seq(SUBSET States), fList' \in Seq(SUBSET States), PathInv'
  PROVE  McInv'
<1>1. Checking' /\ Bad(inv)' = Bad(inv) /\ pc' \notin {"idle", "expand", "search", "bisect"}
  BY DEF Checking, CheckPcs, Bad
<1>2. verdict' \in {"none", "true", "false", "unchecked"}
  BY DEF McInv, TypeOK
<1>3. TypeOK'
  BY <1>1, <1>2 DEF McInv, TypeOK, DataTypeOK, cache, searchVars, boundVars, Checking
<1>4. ReachCore' /\ CheckRings' /\ CheckBadRings'
  BY <1>1, CoreFrame, RingsFrame, BadRingsFrame DEF searchVars
<1>5. SearchInv' /\ NoPathYet' /\ KnownFalse' /\ BisectInv'
  BY <1>1 DEF SearchInv, NoPathYet, KnownFalse, BisectInv, BisectBrackets
<1>6. AnswerInv'
  BY <1>1, AnswerFrame
<1> QED
  BY <1>3, <1>4, <1>5, <1>6 DEF McInv, CheckInv

LEMMA ConcludeFalseKeepsInv ==
  ASSUME McInv, ConcludeFalse
  PROVE  McInv'
<1>1. /\ pc = "search" /\ verdict' = "false" /\ pc' = "forthPath"
      /\ bList' = SubSeq(badRings, 1, backwardStep) /\ fList' = SubSeq(rings, 1, forwardStep)
      /\ UNCHANGED <<fsm, cache, rings, frontier, steps, timed, inv, searchVars,
                     boundVars, inputs, failed>>
  BY DEF ConcludeFalse
<1>2. PICK s \in target : path' = <<s>>
  BY DEF ConcludeFalse
<1>3. /\ rings # <<>> /\ badRings # <<>>
      /\ rings \in Seq(SUBSET States) /\ badRings \in Seq(SUBSET States)
      /\ LastLayer(rings) \in SUBSET States /\ LastLayer(rings) \subseteq Reachable(fsm)
      /\ LeadsToBad(fsm, Bad(inv), LastLayer(badRings))
  BY <1>1, BothLists, LastFacts DEF Checking, CheckPcs
<1>4. s \in LastLayer(rings) \ ButLast(rings) /\ s \in LastLayer(badRings) \ ButLast(badRings)
  BY <1>1 DEF McInv, CheckInv, SearchInv
<1>5. /\ fList' \in Seq(SUBSET States) /\ ToGo(fList', rings, s)
      /\ bList' \in Seq(SUBSET States) /\ ToGo(bList', badRings, s)
  BY <1>1, <1>3, <1>4, StartFromLast DEF forwardStep, backwardStep
<1>6. s \in States /\ Reachable(fsm) \cap Bad(inv) # {}
  BY <1>3, <1>4 DEF LeadsToBad
<1>7. /\ path' \in Seq(States) /\ path' # <<>> /\ Len(path') = 1
      /\ path'[1] = s /\ path'[Len(path')] = s
  BY <1>2, <1>6
<1>8. inputs' = <<>> /\ Len(inputs') = 0 /\ inputs' \in Seq(Inputs)
  BY <1>1 DEF McInv, CheckInv, NoPathYet
<1>9. PathInv'
  <2>1. Labelled(fsm', path', inputs')
    BY <1>7, <1>8 DEF Labelled
  <2>2. rings' = rings /\ badRings' = badRings
    BY <1>1 DEF searchVars
  <2> QED
    BY <1>1, <1>5, <1>7, <2>1, <2>2 DEF PathInv
<1>10. Checking /\ pc' \in {"forthPath", "backPath"}
  BY <1>1 DEF Checking, CheckPcs
<1> QED
  BY <1>1, <1>5, <1>6, <1>7, <1>8, <1>9, <1>10, PathKeepsInv

LEMMA BmcRefutesKeepsInv ==
  ASSUME McInv, BmcRefutes
  PROVE  McInv'
<1>1. /\ pc = "search" /\ pc' = "forthPath"
      /\ bList' = SubSeq(badRings, 1, backwardStep) /\ fList' = SubSeq(rings, 1, forwardStep)
      /\ UNCHANGED <<fsm, cache, rings, frontier, steps, timed, inv, verdict, searchVars,
                     boundVars, failed>>
  BY DEF BmcRefutes, SwitchToBmc, Searching
<1>2. PICK k \in 0 .. MaxK : \E p \in BmcPaths(k) : path' = p /\ inputs' \in Labels(p)
  BY DEF BmcRefutes
<1>3. k \in Nat
  BY MaxKAssumption DEF MaxKAssumption
<1>4. path' \in BmcPaths(k) /\ inputs' \in Labels(path')
  BY <1>2
<1>5. /\ path' \in Seq(States) /\ Len(path') = k + 1
      /\ path'[1] \in LastLayer(rings) \ ButLast(rings)
      /\ path'[k + 1] \in LastLayer(badRings) \ ButLast(badRings)
      /\ Reachable(fsm) \cap Bad(inv) # {}
  <2>1. \A p \in BmcPaths(k) :
          /\ p \in Seq(States) /\ Len(p) = k + 1
          /\ p[1] \in LastLayer(rings) \ ButLast(rings)
          /\ p[k + 1] \in LastLayer(badRings) \ ButLast(badRings)
          /\ Reachable(fsm) \cap Bad(inv) # {}
    BY <1>1, <1>3, GapPath
  <2> QED
    BY <1>4, <2>1
<1>6. /\ rings # <<>> /\ badRings # <<>>
      /\ rings \in Seq(SUBSET States) /\ badRings \in Seq(SUBSET States)
  BY <1>1, BothLists DEF Checking, CheckPcs
<1>7. /\ fList' \in Seq(SUBSET States) /\ ToGo(fList', rings, path'[1])
      /\ bList' \in Seq(SUBSET States) /\ ToGo(bList', badRings, path'[k + 1])
  BY <1>1, <1>5, <1>6, StartFromLast DEF forwardStep, backwardStep
<1>8. /\ inputs' \in Seq(Inputs) /\ Len(inputs') = k
      /\ \A n \in 1 .. k : inputs'[n] \in StatesToStatesInputs(fsm, {path'[n]}, {path'[n + 1]})
  <2> DEFINE p == path'
             q == inputs'
  <2>1. /\ q \in [1 .. Len(p) - 1 -> Inputs]
        /\ \A n \in DOMAIN q : q[n] \in StatesToStatesInputs(fsm, {p[n]}, {p[n + 1]})
    BY <1>4 DEF Labels
  <2>2. Len(p) - 1 = k
    BY <1>3, <1>5
  <2> HIDE DEF p, q
  <2>3. q \in [1 .. k -> Inputs] /\ DOMAIN q = 1 .. k
    BY <2>1, <2>2
  <2>4. q \in Seq(Inputs) /\ Len(q) = k
    BY <1>3, <2>3, SeqDef
  <2> QED
    BY <2>1, <2>3, <2>4 DEF p, q
<1>9. Labelled(fsm, path', inputs')
  <2>1. \A n \in 1 .. Len(inputs') : Allows(fsm, path'[n], inputs'[n], path'[n + 1])
    BY <1>8, LabelIsAllowed
  <2>2. path' # <<>> /\ Len(inputs') = Len(path') - 1
    BY <1>3, <1>5, <1>8
  <2> QED
    BY <2>1, <2>2 DEF Labelled
<1>10. PathInv'
  <2>1. rings' = rings /\ badRings' = badRings /\ fsm' = fsm
    BY <1>1 DEF searchVars
  <2> QED
    BY <1>1, <1>5, <1>7, <1>9, <2>1 DEF PathInv
<1>11. Checking /\ pc' \in {"forthPath", "backPath"}
  BY <1>1 DEF Checking, CheckPcs
<1> QED
  BY <1>1, <1>5, <1>7, <1>8, <1>10, <1>11, PathKeepsInv

-----------------------------------------------------------------------------
(* The steps of the reconstruction.                                        *)
LEMMA StepForthKeepsInv ==
  ASSUME McInv, StepForth
  PROVE  McInv'
<1> DEFINE s == path[Len(path)]
           next == ForwardImage(fsm, {s}) \cap LastLayer(bList)
<1>1. /\ pc = "forthPath" /\ bList # <<>>
      /\ IF next = {} THEN InternalError
         ELSE /\ \E t \in next :
                   /\ path' = Append(path, t)
                   /\ \E i \in StatesToStatesInputs(fsm, {s}, {t}) :
                        inputs' = Append(inputs, i)
              /\ bList' = WithoutLast(bList)
              /\ UNCHANGED <<reachVars, inv, verdict, searchVars, boundVars,
                             fList, failed>>
  BY DEF StepForth
<1>2. /\ Checking /\ path \in Seq(States) /\ inputs \in Seq(Inputs)
      /\ bList \in Seq(SUBSET States) /\ fList \in Seq(SUBSET States)
      /\ Labelled(fsm, path, inputs) /\ ToGo(fList, rings, path[1])
      /\ ToGo(bList, badRings, s) /\ Reachable(fsm) \cap Bad(inv) # {}
  BY <1>1 DEF McInv, TypeOK, CheckInv, PathInv, KnownFalse, Checking, CheckPcs
<1>3. fsm \in FsmType /\ badRings \in Seq(SUBSET States) /\ IsBackOnion(fsm, badRings)
  BY <1>2, BothLists
<1>4. /\ next # {} /\ WithoutLast(bList) \in Seq(SUBSET States)
      /\ \A t \in next : ToGo(WithoutLast(bList), badRings, t)
  BY <1>1, <1>2, <1>3, ForthIsPossible
<1>5. /\ bList' = WithoutLast(bList)
      /\ UNCHANGED <<reachVars, inv, verdict, searchVars, boundVars, fList, failed>>
  BY <1>1, <1>4
<1>60. PICK t \in next :
         /\ path' = Append(path, t)
         /\ \E i \in StatesToStatesInputs(fsm, {s}, {t}) : inputs' = Append(inputs, i)
  BY <1>1, <1>4
<1>6. PICK i \in StatesToStatesInputs(fsm, {s}, {t}) :
        path' = Append(path, t) /\ inputs' = Append(inputs, i)
  BY <1>60
<1>7. t \in States /\ i \in Inputs /\ Allows(fsm, s, i, t)
  <2>1. Allows(fsm, s, i, t)
    BY LabelIsAllowed
  <2> QED
    BY <1>3, <2>1 DEF Allows, FsmType
<1> HIDE DEF next
<1>8. /\ path' \in Seq(States) /\ inputs' \in Seq(Inputs) /\ Labelled(fsm, path', inputs')
      /\ path'[1] = path[1] /\ path'[Len(path')] = t
  <2>1. /\ Append(path, t) \in Seq(States) /\ Append(inputs, i) \in Seq(Inputs)
        /\ Labelled(fsm, Append(path, t), Append(inputs, i))
        /\ Append(path, t)[1] = path[1] /\ Append(path, t)[Len(Append(path, t))] = t
    BY <1>2, <1>7, LabelledAppend
  <2> QED
    BY <1>6, <2>1
<1> HIDE DEF s
<1>9. PathInv'
  <2>1. fsm' = fsm /\ pc' = pc /\ rings' = rings /\ badRings' = badRings /\ fList' = fList
    BY <1>5 DEF reachVars, searchVars
  <2> QED
    BY <1>1, <1>2, <1>4, <1>5, <1>8, <2>1 DEF PathInv
<1>10. /\ pc' \in {"forthPath", "backPath"}
       /\ UNCHANGED <<fsm, cache, rings, frontier, steps, timed, inv, searchVars, boundVars, failed>>
       /\ bList' \in Seq(SUBSET States) /\ fList' \in Seq(SUBSET States)
  BY <1>1, <1>2, <1>4, <1>5 DEF reachVars, cache
<1> QED
  BY <1>2, <1>5, <1>8, <1>9, <1>10, PathKeepsInv

LEMMA TurnBackKeepsInv ==
  ASSUME McInv, TurnBack
  PROVE  McInv'
<1>1. /\ pc = "forthPath" /\ bList = <<>> /\ pc' = "backPath"
      /\ UNCHANGED <<fsm, cache, expandLocals, checkVars>>
  BY DEF TurnBack
<1>2. /\ Checking /\ path \in Seq(States) /\ inputs \in Seq(Inputs)
      /\ bList \in Seq(SUBSET States) /\ fList \in Seq(SUBSET States)
      /\ Labelled(fsm, path, inputs) /\ ToGo(fList, rings, path[1])
      /\ ToGo(bList, badRings, path[Len(path)]) /\ Reachable(fsm) \cap Bad(inv) # {}
      /\ badRings[1] = Bad(inv)
  BY <1>1 DEF McInv, TypeOK, CheckInv, CheckBadRings, PathInv, KnownFalse, Checking, CheckPcs
<1>3. path[Len(path)] \in Bad(inv)
  <2>1. Len(bList) + 1 = 1
    BY <1>1
  <2> QED
    BY <1>2, <2>1 DEF ToGo
<1>4. PathInv'
  BY <1>1, <1>2, <1>3 DEF PathInv, checkVars, expandLocals, Bad
<1> QED
  BY <1>1, <1>2, <1>4, PathKeepsInv DEF checkVars, expandLocals, searchVars, boundVars

LEMMA StepBackKeepsInv ==
  ASSUME McInv, StepBack
  PROVE  McInv'
<1> DEFINE s == path[1]
           prev == BackwardImage(fsm, {s}) \cap LastLayer(fList)
<1>1. /\ pc = "backPath" /\ fList # <<>>
      /\ IF prev = {} THEN InternalError
         ELSE /\ \E r \in prev :
                   /\ path' = <<r>> \o path
                   /\ \E i \in StatesToStatesInputs(fsm, {r}, {s}) :
                        inputs' = <<i>> \o inputs
              /\ fList' = WithoutLast(fList)
              /\ UNCHANGED <<reachVars, inv, verdict, searchVars, boundVars,
                             bList, failed>>
  BY DEF StepBack
<1>2. /\ Checking /\ path \in Seq(States) /\ inputs \in Seq(Inputs)
      /\ bList \in Seq(SUBSET States) /\ fList \in Seq(SUBSET States)
      /\ Labelled(fsm, path, inputs) /\ ToGo(fList, rings, s)
      /\ path[Len(path)] \in Bad(inv) /\ Reachable(fsm) \cap Bad(inv) # {}
  BY <1>1 DEF McInv, TypeOK, CheckInv, PathInv, KnownFalse, Checking, CheckPcs
<1>3. fsm \in FsmType /\ rings \in Seq(SUBSET States) /\ IsOnion(fsm, rings)
  BY <1>2, BothLists
<1>4. /\ prev # {} /\ WithoutLast(fList) \in Seq(SUBSET States)
      /\ \A r \in prev : ToGo(WithoutLast(fList), rings, r)
  BY <1>1, <1>2, <1>3, BackIsPossible
<1>5. /\ fList' = WithoutLast(fList)
      /\ UNCHANGED <<reachVars, inv, verdict, searchVars, boundVars, bList, failed>>
  BY <1>1, <1>4
<1>60. PICK r \in prev :
         /\ path' = <<r>> \o path
         /\ \E i \in StatesToStatesInputs(fsm, {r}, {s}) : inputs' = <<i>> \o inputs
  BY <1>1, <1>4
<1>6. PICK i \in StatesToStatesInputs(fsm, {r}, {s}) :
        path' = <<r>> \o path /\ inputs' = <<i>> \o inputs
  BY <1>60
<1>7. r \in States /\ i \in Inputs /\ Allows(fsm, r, i, s)
  <2>1. Allows(fsm, r, i, s)
    BY LabelIsAllowed
  <2> QED
    BY <1>3, <2>1 DEF Allows, FsmType
<1> HIDE DEF prev
<1>8. /\ path' \in Seq(States) /\ inputs' \in Seq(Inputs) /\ Labelled(fsm, path', inputs')
      /\ path'[1] = r /\ path'[Len(path')] = path[Len(path)]
  <2>1. IsPrepended(path', r, path) /\ IsPrepended(inputs', i, inputs)
    BY <1>6 DEF IsPrepended
  <2> QED
    BY <1>2, <1>7, <2>1, LabelledPrepend
<1> HIDE DEF s
<1>9. PathInv'
  <2>1. /\ fsm' = fsm /\ pc' = pc /\ rings' = rings /\ badRings' = badRings /\ bList' = bList
        /\ Bad(inv)' = Bad(inv)
    BY <1>5 DEF reachVars, searchVars, Bad
  <2> QED
    BY <1>1, <1>2, <1>4, <1>5, <1>8, <2>1 DEF PathInv
<1>10. /\ pc' \in {"forthPath", "backPath"}
       /\ UNCHANGED <<fsm, cache, rings, frontier, steps, timed, inv, searchVars, boundVars, failed>>
       /\ bList' \in Seq(SUBSET States) /\ fList' \in Seq(SUBSET States)
  BY <1>1, <1>2, <1>4, <1>5 DEF reachVars, cache
<1> QED
  BY <1>2, <1>5, <1>8, <1>9, <1>10, PathKeepsInv
-----------------------------------------------------------------------------
(* The inductive invariant.                                                *)
LEMMA InitKeepsInv ==
  ASSUME MachinesAssumption, Init
  PROVE  McInv
<1>1. /\ fsm \in FsmType /\ layers = <<>> /\ computed = FALSE /\ pc = "idle"
      /\ rings = <<>> /\ frontier = {} /\ steps = 0 /\ timed = FALSE
  BY DEF Init, ReachInit, NoExpandLocals, MachinesAssumption
<1>2. /\ inv = {} /\ verdict = "none" /\ strategy = "none" /\ turn = 0
      /\ badRings = <<>> /\ badFrontier = {} /\ target = {}
      /\ lower = 0 /\ upper = 0 /\ bList = <<>> /\ fList = <<>>
      /\ path = <<>> /\ inputs = <<>>
  BY DEF Init, NoSearch
<1>10. failed = FALSE
  BY DEF Init
<1>3. ~Checking
  BY <1>1 DEF Checking, CheckPcs
<1>4. path \in Seq(States) /\ inputs \in Seq(Inputs)
  BY <1>2
<1>5. DataTypeOK
  BY <1>1, EmptyRings DEF DataTypeOK
<1>6. TypeOK
  <2>1. /\ badRings \in Seq(SUBSET States) /\ bList \in Seq(SUBSET States)
        /\ fList \in Seq(SUBSET States)
    BY <1>2, EmptyRings
  <2>2. inv \in SUBSET States /\ badFrontier \in SUBSET States /\ target \in SUBSET States
    BY <1>2
  <2>3. turn \in {0, 1} /\ lower \in Int /\ upper \in Int
    BY <1>2
  <2>5. failed \in BOOLEAN
    BY <1>10
  <2>4. /\ pc \in {"idle", "expand"} \cup CheckPcs
        /\ verdict \in {"none", "true", "false", "unchecked"}
        /\ strategy \in AllStrategies \cup {"none"}
    BY <1>1, <1>2
  <2> QED
    BY <1>4, <1>5, <2>1, <2>2, <2>3, <2>4, <2>5 DEF TypeOK
<1>7. ReachCore
  BY <1>1, EmptyRings DEF ReachCore, LayersAreOnion, PartialHasFrontier, CompleteIsClosed,
                          IdleIsClean, LoopInv
<1>8. CheckInv
  BY <1>1, <1>3 DEF CheckInv, CheckRings, CheckBadRings, SearchInv, NoPathYet, KnownFalse,
                    BisectInv, BisectBrackets, PathInv
<1>9. AnswerInv
  BY <1>2, <1>10 DEF AnswerInv, VerdictIsRight, TraceKept, NoInternalError
<1> QED
  BY <1>6, <1>7, <1>8, <1>9 DEF McInv

(* Nothing happens.                                                        *)
LEMMA NothingKeepsInv ==
  ASSUME McInv, UNCHANGED vars
  PROVE  McInv'
<1>1. /\ UNCHANGED <<fsm, layers, computed, pc, rings, frontier, steps, timed>>
      /\ UNCHANGED <<inv, verdict, strategy, turn, badRings, badFrontier, target>>
      /\ UNCHANGED <<lower, upper, path, inputs, bList, fList, failed>>
  BY DEF vars, reachVars, checkVars
<1>2. TypeOK'
  BY <1>1 DEF McInv, TypeOK, DataTypeOK
<1>3. ReachCore'
  BY <1>1 DEF McInv, ReachCore, LayersAreOnion, PartialHasFrontier, CompleteIsClosed,
              IdleIsClean, LoopInv, RingsExtendLayers
<1>4. Checking' = Checking
  BY <1>1 DEF Checking
<1>5. CheckRings' /\ CheckBadRings' /\ SearchInv' /\ NoPathYet' /\ KnownFalse'
  BY <1>1, <1>4 DEF McInv, CheckInv, CheckRings, CheckBadRings, SearchInv, NoPathYet,
                    KnownFalse, RingsExtendLayers, Bad
<1>6. BisectInv' /\ PathInv'
  BY <1>1 DEF McInv, CheckInv, BisectInv, BisectBrackets, PathInv, Bad, diameter
<1>7. AnswerInv'
  BY <1>1, <1>4 DEF McInv, AnswerInv, VerdictIsRight, TraceKept, NoInternalError, Bad
<1> QED
  BY <1>2, <1>3, <1>5, <1>6, <1>7 DEF McInv, CheckInv

LEMMA CheckStepKeepsInv ==
  ASSUME McInv, CheckStep
  PROVE  McInv'
BY BugInInitialStateKeepsInv, BisectKeepsInv, CompleteAndSafeKeepsInv, ForwardStepKeepsInv,
   BackwardStepKeepsInv, ConcludeTrueKeepsInv, ConcludeFalseKeepsInv, ReportFalseKeepsInv,
   BmcEndKeepsInv, BmcRefutesKeepsInv, StepForthKeepsInv, TurnBackKeepsInv,
   StepBackKeepsInv, ReturnTraceKeepsInv
   DEF CheckStep

LEMMA NextKeepsInv ==
  ASSUME McInv, [Next]_vars
  PROVE  McInv'
BY StartCheckKeepsInv, CheckStepKeepsInv, InterruptCheckKeepsInv, ReachKeepsInv,
   NothingKeepsInv
   DEF Next, CheckInvar

(* McInv is inductive: what every run of the checks and of                 *)
(* compute_reachable keeps.                                                *)
THEOREM McInvariant == Spec => []McInv
<1> USE MachinesAssumption
<1>1. Init => McInv
  BY InitKeepsInv
<1>2. McInv /\ [Next]_vars => McInv'
  BY NextKeepsInv
<1> QED
  BY <1>1, <1>2, PTL DEF Spec

(* Every variable keeps its type.                                          *)
THEOREM McTypeCorrect == Spec => []TypeOK
<1>1. McInv => TypeOK
  BY DEF McInv
<1> QED
  BY <1>1, McInvariant, PTL

(* Whatever the strategy, whatever the cache held and whether BDDs or BMC  *)
(* answered: "true" is said only of an invariant no reachable state        *)
(* violates, "false" only of one some reachable state violates.            *)
THEOREM VerdictIsRightCorrect == Spec => []VerdictIsRight
<1>1. McInv => VerdictIsRight
  BY DEF McInv, AnswerInv
<1> QED
  BY <1>1, McInvariant, PTL

(* The search compares each new frontier with the other side only, and     *)
(* still knows all that the two sides have in common.                      *)
THEOREM TargetIsWholeMeetCorrect == Spec => []TargetIsWholeMeet
<1>1. McInv => TargetIsWholeMeet
  BY DEF McInv, CheckInv, SearchInv, TargetIsWholeMeet
<1> QED
  BY <1>1, McInvariant, PTL

(* The binary search keeps its bounds around the first buggy layer.        *)
THEOREM BisectBracketsCorrect == Spec => []BisectBrackets
<1>1. McInv => BisectBrackets
  BY DEF McInv, CheckInv, BisectInv
<1> QED
  BY <1>1, McInvariant, PTL

(* "The intersection MUST exist": the reconstruction never meets an empty  *)
(* one, and the binary search never finds its bounds in contradiction.     *)
THEOREM NoInternalErrorCorrect == Spec => []NoInternalError
<1>1. McInv => NoInternalError
  BY DEF McInv, AnswerInv
<1> QED
  BY <1>1, McInvariant, PTL

(* A counterexample is an execution from an initial to a bad state, each   *)
(* step labelled by an input that allows it.                               *)
THEOREM TraceIsExecutionCorrect == Spec => []TraceIsExecution
<1>1. McInv => TraceIsExecution
  <2> SUFFICES ASSUME McInv, HasTrace
               PROVE  IsExecution(path, inputs) /\ path[Len(path)] \in Bad(inv)
    BY DEF TraceIsExecution
  <2>1. ~Checking /\ verdict = "false" /\ path # <<>>
    BY DEF HasTrace, Checking, CheckPcs
  <2>2. /\ Labelled(fsm, path, inputs)
        /\ path[1] \in InitRegion(fsm) /\ path[Len(path)] \in Bad(inv)
    BY <2>1 DEF McInv, AnswerInv, TraceKept
  <2>3. DOMAIN inputs = 1 .. Len(inputs)
    BY DEF McInv, TypeOK
  <2>4. /\ Len(inputs) = Len(path) - 1
        /\ \A n \in DOMAIN inputs : Allows(fsm, path[n], inputs[n], path[n + 1])
    BY <2>2, <2>3 DEF Labelled
  <2> QED
    BY <2>2, <2>4 DEF IsExecution, Allows
<1> QED
  BY <1>1, McInvariant, PTL
-----------------------------------------------------------------------------
(* What a step does to the cache the check shares with the other commands. *)

(* new holds old, in place, and perhaps more.                              *)
Extended(new, old) ==
  Len(old) <= Len(new) /\ \A n \in 1 .. Len(old) : new[n] = old[n]

(* The rings of a check that replace the cached layers extend them, and    *)
(* they never replace a complete analysis.                                 *)
LEMMA CachingExtends ==
  ASSUME McInv, Checking, CacheRings(frontier = {})
  PROVE  \/ layers' = layers /\ computed' = computed
         \/ Extended(layers', layers) /\ ~computed
<1>1. CASE ~(forwardStep > diameter)
  BY <1>1 DEF CacheRings, cache
<1>2. CASE forwardStep > diameter
  <2>1. layers' = rings
    BY <1>2 DEF CacheRings
  <2>2. RingsExtendLayers /\ (computed => Len(rings) <= Len(layers) + 1)
    BY DEF McInv, CheckInv, CheckRings
  <2>3. Len(rings) \in Nat /\ Len(layers) \in Nat
    BY DEF McInv, TypeOK, DataTypeOK
  <2>4. ~(Len(rings) <= Len(layers) + 1)
    BY <1>2, <2>3 DEF forwardStep, diameter
  <2> QED
    BY <2>1, <2>2, <2>4 DEF RingsExtendLayers, Extended
<1> QED
  BY <1>1, <1>2

(* Without a cache the initial region becomes the first layer: there was   *)
(* no complete analysis, which would have found an initial state.          *)
LEMMA FirstLayerExtends ==
  ASSUME McInv, BugInInitialState
  PROVE  \/ layers' = layers /\ computed' = computed
         \/ Extended(layers', layers) /\ ~computed
<1>1. /\ pc = "initBug"
      /\ IF diameter <= 0 THEN layers' = <<InitRegion(fsm)>> /\ computed' = FALSE
         ELSE UNCHANGED cache
  BY DEF BugInInitialState
<1>2. CASE ~(diameter <= 0)
  BY <1>1, <1>2 DEF cache
<1>3. CASE diameter <= 0
  <2>1. layers \in Seq(SUBSET States)
    BY DEF McInv, TypeOK, DataTypeOK
  <2>2. Len(layers) = 0 /\ layers = <<>>
    BY <1>3, <2>1 DEF diameter
  <2>3. Len(layers') = 1
    BY <1>1, <1>3
  <2>4. InitRegion(fsm) # {}
    BY <1>1 DEF McInv, CheckInv, KnownFalse
  <2>5. ~computed
    BY <2>2, <2>4 DEF McInv, ReachCore, CompleteIsClosed, LastLayer
  <2> QED
    BY <2>2, <2>3, <2>5 DEF Extended
<1> QED
  BY <1>2, <1>3

LEMMA McStepExtendsCache ==
  ASSUME McInv, [Next]_vars
  PROVE  /\ fsm' = fsm
         /\ \/ layers' = layers /\ computed' = computed
            \/ /\ Extended(layers', layers)
               /\ computed => layers = <<>> /\ computed'
<1>1. CASE CheckInvar \/ InterruptCheck
  BY <1>1 DEF CheckInvar, StartCheck, InterruptCheck, cache
<1>2. CASE BugInInitialState
  <2>1. fsm' = fsm
    BY <1>2 DEF BugInInitialState
  <2> QED
    BY <1>2, <2>1, FirstLayerExtends
<1>3. CASE ConcludeTrue \/ ReportFalse \/ ReturnTrace
  <2>1. CacheRings(frontier = {}) /\ fsm' = fsm /\ Checking
    BY <1>3 DEF ConcludeTrue, ReportFalse, ReturnTrace, Checking, CheckPcs
  <2> QED
    BY <2>1, CachingExtends
<1>4. CASE BmcProves \/ BmcGivesUp \/ BmcReportsFalse
  <2>1. CacheRings(FALSE) /\ frontier # {} /\ fsm' = fsm /\ Checking
    BY <1>4 DEF BmcProves, BmcGivesUp, BmcReportsFalse, SwitchToBmc, Searching, Checking,
                CheckPcs
  <2>2. CacheRings(frontier = {})
    BY <2>1, PartialRings
  <2> QED
    BY <2>1, <2>2, CachingExtends
<1>5. CASE Bisect \/ CompleteAndSafe \/ ForwardStep \/ BackwardStep
  BY <1>5 DEF Bisect, CompleteAndSafe, ForwardStep, BackwardStep, cache, reachVars
<1>6. CASE ConcludeFalse \/ BmcRefutes \/ TurnBack
  BY <1>6 DEF ConcludeFalse, BmcRefutes, TurnBack, cache
<1>7. CASE StepForth \/ StepBack
  BY <1>7 DEF StepForth, StepBack, InternalError, cache, reachVars
<1>8. CASE Reach
  <2>1. ReachNext /\ fsm' = fsm /\ ReachInv
    <3>1. ReachNext
      BY <1>8 DEF Reach
    <3>2. ~Checking
      BY <3>1, ReachRunsAlone DEF Checking, CheckPcs
    <3> QED
      BY <3>1, <3>2, ReachRunsAlone, CoreIsReachInv
  <2> QED
    BY <2>1, StepExtendsCache DEF Extended
<1>9. CASE UNCHANGED vars
  BY <1>9 DEF vars, reachVars
<1> QED
  BY <1>1, <1>2, <1>3, <1>4, <1>5, <1>6, <1>7, <1>8, <1>9 DEF Next, CheckStep

(* Checks of invariants, compute_reachable and interrupts in any order     *)
(* keep what the cache promises its readers: onion layers, never lost or   *)
(* changed, marked complete only when no transition leaves them.           *)
THEOREM McImplementsOnionCache == Spec => OnionSpec
<1>1. Init => Onion!Init
  BY DEF Init, ReachInit, Onion!Init
<1>2. McInv /\ McInv' /\ [Next]_vars => [Onion!Publish]_Onion!cacheVars
  <2> SUFFICES ASSUME McInv, McInv', [Next]_vars,
                      ~UNCHANGED <<fsm, layers, computed>>
               PROVE  Onion!Publish
    BY DEF Onion!cacheVars
  <2>1. fsm' = fsm /\ Extended(layers', layers) /\ (computed => computed')
    BY McStepExtendsCache
  <2>2. layers' \in Seq(SUBSET States) /\ computed' \in BOOLEAN
    BY DEF McInv, TypeOK, DataTypeOK
  <2>3. Onion!IsOnion(fsm, layers')
    <3>1. IsOnion(fsm', layers')
      BY DEF McInv, ReachCore, LayersAreOnion
    <3> QED
      BY <2>1, <3>1, SameOperators
  <2>4. computed' => Onion!IsComplete(layers')
    <3>1. computed' => /\ InitRegion(fsm') \subseteq LastLayer(layers')
                       /\ Closed(fsm', LastLayer(layers'))
      BY DEF McInv, ReachCore, CompleteIsClosed
    <3> QED
      BY <2>1, <3>1, SameOperators DEF Onion!IsComplete
  <2> QED
    BY <2>1, <2>2, <2>3, <2>4 DEF Onion!Publish, Onion!Extends, Extended
<1> QED
  BY <1>1, <1>2, McInvariant, PTL DEF Spec, OnionSpec, Onion!Spec

(***************************************************************************)
(* A counterexample of check_invar is a shortest one: the searches from    *)
(* both ends, BMC in the gap between them and the binary search over the   *)
(* cache never take a longer way than there is.                            *)
(***************************************************************************)

(* Balls around the initial region.  That the recursive definition has a   *)
(* solution needs no induction: its values are the ends of walks that may  *)
(* pause.                                                                  *)
Walks(f, n) ==
  {p \in [0 .. n -> States] :
     /\ p[0] \in InitRegion(f)
     /\ \A k \in 0 .. n - 1 : p[k + 1] = p[k] \/ p[k + 1] \in ForwardImage(f, {p[k]})}

Ends(f) == [n \in Nat |-> {p[n] : p \in Walks(f, n)}]

IsBalls(f, b) ==
  b = [n \in Nat |-> IF n = 0 THEN InitRegion(f) ELSE b[n - 1] \cup ForwardImage(f, b[n - 1])]

LEMMA BallsAreChosen ==
  ASSUME NEW f
  PROVE  Balls(f) = CHOOSE b : IsBalls(f, b)
BY DEF Balls, IsBalls
(* A walk that is cut, goes on or pauses is a walk.                        *)
LEMMA WalkIsCut ==
  ASSUME NEW f, NEW n \in Nat, NEW p \in Walks(f, n), NEW m \in 0 .. n
  PROVE  [k \in 0 .. m |-> p[k]] \in Walks(f, m)
<1> DEFINE q == [k \in 0 .. m |-> p[k]]
<1>1. /\ p \in [0 .. n -> States] /\ p[0] \in InitRegion(f)
      /\ \A k \in 0 .. n - 1 : p[k + 1] = p[k] \/ p[k + 1] \in ForwardImage(f, {p[k]})
  BY DEF Walks
<1>2. q \in [0 .. m -> States] /\ q[0] = p[0]
  BY <1>1
<1>3. ASSUME NEW k \in 0 .. m - 1
      PROVE  q[k + 1] = q[k] \/ q[k + 1] \in ForwardImage(f, {q[k]})
  <2>1. k \in 0 .. n - 1 /\ k \in 0 .. m /\ k + 1 \in 0 .. m
    OBVIOUS
  <2>2. q[k] = p[k] /\ q[k + 1] = p[k + 1]
    BY <2>1
  <2> QED
    BY <1>1, <2>1, <2>2
<1> QED
  BY <1>1, <1>2, <1>3 DEF Walks

LEMMA WalkGoesOn ==
  ASSUME NEW f, NEW n \in Nat, NEW p \in Walks(f, n), NEW t \in States,
         t = p[n] \/ t \in ForwardImage(f, {p[n]})
  PROVE  \E q \in Walks(f, n + 1) : q[n + 1] = t
<1> DEFINE q == [k \in 0 .. n + 1 |-> IF k <= n THEN p[k] ELSE t]
<1>1. /\ p \in [0 .. n -> States] /\ p[0] \in InitRegion(f)
      /\ \A k \in 0 .. n - 1 : p[k + 1] = p[k] \/ p[k + 1] \in ForwardImage(f, {p[k]})
  BY DEF Walks
<1>2. q \in [0 .. n + 1 -> States] /\ q[0] = p[0] /\ q[n + 1] = t
  BY <1>1
<1>3. ASSUME NEW k \in 0 .. (n + 1) - 1
      PROVE  q[k + 1] = q[k] \/ q[k + 1] \in ForwardImage(f, {q[k]})
  <2>1. k \in 0 .. n + 1 /\ k + 1 \in 0 .. n + 1 /\ q[k] = p[k]
    OBVIOUS
  <2>2. CASE k = n
    BY <1>2, <2>1, <2>2
  <2>3. CASE k # n
    <3>1. k \in 0 .. n - 1 /\ q[k + 1] = p[k + 1]
      BY <2>1, <2>3
    <3> QED
      BY <1>1, <2>1, <3>1
  <2> QED
    BY <2>2, <2>3
<1>4. q \in Walks(f, n + 1)
  BY <1>1, <1>2, <1>3 DEF Walks
<1> HIDE DEF q
<1> QED
  BY <1>2, <1>4

LEMMA EndsStep ==
  ASSUME NEW f \in FsmType, NEW n \in Nat
  PROVE  Ends(f)[n + 1] = Ends(f)[n] \cup ForwardImage(f, Ends(f)[n])
<1>1. Ends(f)[n] = {p[n] : p \in Walks(f, n)}
  BY DEF Ends
<1>2. Ends(f)[n + 1] = {p[n + 1] : p \in Walks(f, n + 1)}
  BY DEF Ends
<1>3. ASSUME NEW t \in Ends(f)[n + 1]
      PROVE  t \in Ends(f)[n] \cup ForwardImage(f, Ends(f)[n])
  <2>1. PICK p \in Walks(f, n + 1) : t = p[n + 1]
    BY <1>2
  <2> DEFINE q == [k \in 0 .. n |-> p[k]]
  <2>2. q \in Walks(f, n)
    BY WalkIsCut
  <2>3. q[n] = p[n] /\ q[n] \in Ends(f)[n]
    BY <1>1, <2>2
  <2>4. p[n + 1] = p[n] \/ p[n + 1] \in ForwardImage(f, {p[n]})
    BY DEF Walks
  <2> QED
    BY <2>1, <2>3, <2>4, ImageFromState
<1>4. ASSUME NEW t \in Ends(f)[n] \cup ForwardImage(f, Ends(f)[n])
      PROVE  t \in Ends(f)[n + 1]
  <2>1. PICK s \in Ends(f)[n] : t = s \/ t \in ForwardImage(f, {s})
    BY ImageFromState
  <2>2. PICK p \in Walks(f, n) : s = p[n]
    BY <1>1
  <2>3. t \in States
    <3>1. s \in States
      BY <2>2 DEF Walks
    <3> QED
      BY <2>1, <3>1, ImageType
  <2>4. PICK q \in Walks(f, n + 1) : q[n + 1] = t
    BY <2>1, <2>2, <2>3, WalkGoesOn
  <2> QED
    BY <1>2, <2>4
<1> QED
  BY <1>3, <1>4

LEMMA EndsStart ==
  ASSUME NEW f \in FsmType
  PROVE  Ends(f)[0] = InitRegion(f)
<1>1. Ends(f)[0] = {p[0] : p \in Walks(f, 0)}
  BY DEF Ends
<1>2. \A p \in Walks(f, 0) : p[0] \in InitRegion(f)
  BY DEF Walks
<1>3. ASSUME NEW s \in InitRegion(f)
      PROVE  s \in Ends(f)[0]
  <2> DEFINE q == [k \in 0 .. 0 |-> s]
  <2>1. s \in States
    BY InitType
  <2>2. q \in [0 .. 0 -> States] /\ q[0] = s /\ \A k \in 0 .. 0 - 1 : FALSE
    BY <2>1
  <2>3. q \in Walks(f, 0)
    BY <2>2 DEF Walks
  <2> HIDE DEF q
  <2> QED
    BY <1>1, <2>2, <2>3
<1> QED
  BY <1>1, <1>2, <1>3

(* The recursive definition means what it says.                            *)
LEMMA BallsAreBalls ==
  ASSUME NEW f \in FsmType
  PROVE  /\ Balls(f)[0] = InitRegion(f)
         /\ \A n \in Nat : Balls(f)[n + 1] = Balls(f)[n] \cup ForwardImage(f, Balls(f)[n])
<1>1. IsBalls(f, Ends(f))
  <2> DEFINE b == Ends(f)
             c == [n \in Nat |-> IF n = 0 THEN InitRegion(f)
                                 ELSE b[n - 1] \cup ForwardImage(f, b[n - 1])]
  <2>1. b = [n \in Nat |-> b[n]]
    BY DEF Ends
  <2>2. ASSUME NEW n \in Nat
        PROVE  b[n] = c[n]
    <3>1. CASE n = 0
      BY <3>1, EndsStart
    <3>2. CASE n # 0
      <4> DEFINE m == n - 1
      <4>1. m \in Nat /\ n = m + 1
        BY <3>2
      <4>2. c[n] = b[m] \cup ForwardImage(f, b[m])
        BY <3>2
      <4> HIDE DEF m, b, c
      <4> QED
        BY <4>1, <4>2, EndsStep DEF b
    <3> QED
      BY <3>1, <3>2
  <2>3. c = [n \in Nat |-> c[n]]
    OBVIOUS
  <2> HIDE DEF b, c
  <2>4. b = c
    BY <2>1, <2>2, <2>3
  <2> QED
    BY <2>4 DEF IsBalls, b, c
<1>2. IsBalls(f, Balls(f))
  BY <1>1, BallsAreChosen
<1> DEFINE b == Balls(f)
<1>3. b = [n \in Nat |-> IF n = 0 THEN InitRegion(f) ELSE b[n - 1] \cup ForwardImage(f, b[n - 1])]
  BY <1>2 DEF IsBalls
<1> HIDE DEF b
<1>4. b[0] = InitRegion(f)
  BY <1>3
<1>5. ASSUME NEW n \in Nat
      PROVE  b[n + 1] = b[n] \cup ForwardImage(f, b[n])
  <2>1. n + 1 \in Nat /\ n + 1 # 0 /\ (n + 1) - 1 = n
    OBVIOUS
  <2> QED
    BY <1>3, <2>1
<1> QED
  BY <1>4, <1>5 DEF b
LEMMA BallsAreEnds ==
  ASSUME NEW f \in FsmType, NEW n \in Nat
  PROVE  Balls(f)[n] = {p[n] : p \in Walks(f, n)}
<1> DEFINE D == {m \in Nat : Balls(f)[m] # Ends(f)[m]}
<1>1. D = {}
  <2> SUFFICES ASSUME D # {} PROVE FALSE
    OBVIOUS
  <2>1. D \in SUBSET Nat
    OBVIOUS
  <2>2. PICK m \in D : \A k \in D : m <= k
    BY <2>1, LeastNat
  <2>3. m # 0
    BY <2>2, BallsAreBalls, EndsStart
  <2> DEFINE k == m - 1
  <2>4. k \in Nat /\ m = k + 1 /\ ~(m <= k)
    BY <2>3
  <2> HIDE DEF k
  <2>5. Balls(f)[k] = Ends(f)[k]
    BY <2>2, <2>4
  <2>6. Balls(f)[k + 1] = Ends(f)[k + 1]
    <3>1. Balls(f)[k + 1] = Balls(f)[k] \cup ForwardImage(f, Balls(f)[k])
      BY <2>4, BallsAreBalls
    <3>2. Ends(f)[k + 1] = Ends(f)[k] \cup ForwardImage(f, Ends(f)[k])
      BY <2>4, EndsStep
    <3> QED
      BY <2>5, <3>1, <3>2, Zenon
  <2> QED
    BY <2>4, <2>6
<1>2. Balls(f)[n] = Ends(f)[n]
  BY <1>1
<1> QED
  BY <1>2 DEF Ends

(* The layers of an onion are balls.                                       *)
LEMMA OnionIsBalls ==
  ASSUME NEW f \in FsmType, NEW l \in Seq(SUBSET States), IsOnion(f, l),
         NEW n \in Nat, n + 1 \in 1 .. Len(l)
  PROVE  l[n + 1] = Balls(f)[n]
<1> DEFINE D == {m \in Nat : m + 1 \in 1 .. Len(l) /\ l[m + 1] # Balls(f)[m]}
<1>1. D = {}
  <2> SUFFICES ASSUME D # {} PROVE FALSE
    OBVIOUS
  <2>1. D \in SUBSET Nat
    OBVIOUS
  <2>2. PICK m \in D : \A k \in D : m <= k
    BY <2>1, LeastNat
  <2>3. l # <<>> /\ Len(l) \in Nat
    BY <2>2
  <2>4. m # 0
    <3>1. l[1] = InitRegion(f)
      BY <2>3 DEF IsOnion
    <3> QED
      BY <2>2, <3>1, BallsAreBalls
  <2> DEFINE k == m - 1
  <2>5. k \in Nat /\ m = k + 1 /\ ~(m <= k) /\ m \in 1 .. Len(l) - 1
    BY <2>2, <2>3, <2>4
  <2> HIDE DEF k
  <2>6. k + 1 \in 1 .. Len(l) /\ l[m + 1] = l[m] \cup ForwardImage(f, l[m])
    BY <2>3, <2>5 DEF IsOnion
  <2>7. l[m] = Balls(f)[k]
    BY <2>2, <2>5, <2>6
  <2>8. l[m + 1] = Balls(f)[m]
    BY <2>5, <2>6, <2>7, BallsAreBalls
  <2> QED
    BY <2>2, <2>8
<1> QED
  BY <1>1

LEMMA BallsWithin ==
  ASSUME NEW f \in FsmType, NEW n \in Nat
  PROVE  Balls(f)[n] \subseteq f.invarStates
<1> DEFINE D == {m \in Nat : ~(Balls(f)[m] \subseteq f.invarStates)}
<1>1. D = {}
  <2> SUFFICES ASSUME D # {} PROVE FALSE
    OBVIOUS
  <2>1. D \in SUBSET Nat
    OBVIOUS
  <2>2. PICK m \in D : \A k \in D : m <= k
    BY <2>1, LeastNat
  <2>3. m # 0
    BY <2>2, BallsAreBalls DEF InitRegion
  <2> DEFINE k == m - 1
  <2>4. k \in Nat /\ m = k + 1 /\ ~(m <= k)
    BY <2>3
  <2> HIDE DEF k
  <2>5. Balls(f)[k] \subseteq f.invarStates
    BY <2>2, <2>4
  <2>6. Balls(f)[k + 1] = Balls(f)[k] \cup ForwardImage(f, Balls(f)[k])
    BY <2>4, BallsAreBalls
  <2>7. ForwardImage(f, Balls(f)[k]) \subseteq f.invarStates
    BY DEF ForwardImage
  <2>8. Balls(f)[m] \subseteq f.invarStates
    BY <2>4, <2>5, <2>6, <2>7
  <2> QED
    BY <2>2, <2>8
<1> QED
  BY <1>1

LEMMA BallsGrow ==
  ASSUME NEW f \in FsmType, NEW m \in Nat, NEW d \in Nat
  PROVE  Balls(f)[m] \subseteq Balls(f)[m + d]
<1> DEFINE D == {e \in Nat : ~(Balls(f)[m] \subseteq Balls(f)[m + e])}
<1>1. D = {}
  <2> SUFFICES ASSUME D # {} PROVE FALSE
    OBVIOUS
  <2>1. D \in SUBSET Nat
    OBVIOUS
  <2>2. PICK e \in D : \A k \in D : e <= k
    BY <2>1, LeastNat
  <2>3. e # 0
    BY <2>2
  <2> DEFINE k == e - 1
  <2>4. k \in Nat /\ m + e = (m + k) + 1 /\ ~(e <= k) /\ m + k \in Nat
    BY <2>3
  <2> HIDE DEF k
  <2>5. Balls(f)[m] \subseteq Balls(f)[m + k]
    BY <2>2, <2>4
  <2>6. Balls(f)[(m + k) + 1] = Balls(f)[m + k] \cup ForwardImage(f, Balls(f)[m + k])
    BY <2>4, BallsAreBalls
  <2>7. Balls(f)[m] \subseteq Balls(f)[m + e]
    BY <2>4, <2>5, <2>6
  <2> QED
    BY <2>2, <2>7
<1> QED
  BY <1>1

(* What a ball of states does not meet of the sets that lead to the bad    *)
(* states, a larger ball does not meet of the bad states.                  *)
LEMMA MeetMoves ==
  ASSUME NEW f \in FsmType, NEW l \in Seq(SUBSET States), IsBackOnion(f, l),
         NEW a \in Nat, NEW m \in 1 .. Len(l), Balls(f)[a] \cap l[m] = {}
  PROVE  Balls(f)[a + (m - 1)] \cap l[1] = {}
<1>1. Len(l) \in Nat
  OBVIOUS
<1> DEFINE D == {j \in Nat : j \in 0 .. m - 1 /\ Balls(f)[a + j] \cap l[m - j] # {}}
<1>2. D = {}
  <2> SUFFICES ASSUME D # {} PROVE FALSE
    OBVIOUS
  <2>1. D \in SUBSET Nat
    OBVIOUS
  <2>2. PICK j \in D : \A k \in D : j <= k
    BY <2>1, LeastNat
  <2>3. j # 0
    BY <2>2
  <2> DEFINE k == j - 1
             n == m - j
             r == a + k
  <2>4. /\ k \in Nat /\ k \in 0 .. m - 1 /\ ~(j <= k) /\ m - k = n + 1
        /\ n \in 1 .. Len(l) - 1 /\ r \in Nat /\ a + j = r + 1
    BY <1>1, <2>2, <2>3
  <2> HIDE DEF k, n, r
  <2>5. Balls(f)[r] \cap l[n + 1] = {}
    <3>1. Balls(f)[a + k] \cap l[m - k] = {}
      BY <2>2, <2>4
    <3> QED
      BY <2>4, <3>1 DEF r
  <2>6. l[n + 1] = l[n] \cup BackwardImage(f, l[n])
    BY <2>4 DEF IsBackOnion
  <2>7. (Balls(f)[r] \cup ForwardImage(f, Balls(f)[r])) \cap l[n] = {}
    <3> DEFINE R == Balls(f)[r]
               B == l[n + 1]
               PB == l[n]
    <3>1. BackwardImage(f, PB) \subseteq B /\ PB \subseteq B
      BY <2>6
    <3>2. R \cap B = {}
      BY <2>5
    <3> HIDE DEF R, B, PB
    <3>3. (R \cup ForwardImage(f, R)) \cap PB = {}
      BY <3>1, <3>2, ForwardMeet
    <3> QED
      BY <3>3 DEF R, PB
  <2>8. Balls(f)[r + 1] = Balls(f)[r] \cup ForwardImage(f, Balls(f)[r])
    BY <2>4, BallsAreBalls
  <2>9. Balls(f)[a + j] \cap l[m - j] = {}
    BY <2>4, <2>7, <2>8 DEF n
  <2> QED
    BY <2>2, <2>9
<1>3. m - 1 \in Nat /\ m - 1 \in 0 .. m - 1 /\ m - (m - 1) = 1
  BY <1>1
<1>4. Balls(f)[a + (m - 1)] \cap l[m - (m - 1)] = {}
  BY <1>2, <1>3
<1> QED
  BY <1>3, <1>4
-----------------------------------------------------------------------------
(* What a check keeps about the length of its counterexample.              *)

(* No bad state is reached by fewer than n states.                         *)
NoneCloser(n) == n > 1 => Balls(fsm)[n - 2] \cap Bad(inv) = {}

(* The states of the trace, with one for each set the reconstruction still *)
(* has to go through, are no more than any execution to a bad state has.   *)
ShortInv ==
  /\ pc \in {"forthPath", "backPath"} => NoneCloser(Len(path) + Len(bList) + Len(fList))
  /\ pc = "backPath" => bList = <<>>
  /\ ~Checking /\ verdict = "false" /\ path # <<>> => NoneCloser(Len(path))
(* A walk that arrives anywhere earlier than it could arrives early at its *)
(* end.                                                                    *)
LEMMA EarlyStaysEarly ==
  ASSUME NEW f \in FsmType, NEW n \in Nat, NEW p \in Walks(f, n), NEW i \in 1 .. n,
         p[i] \in Balls(f)[i - 1]
  PROVE  p[n] \in Balls(f)[n - 1]
<1> DEFINE D == {e \in Nat : e \in 0 .. n - i /\ p[i + e] \notin Balls(f)[i + e - 1]}
<1>1. D = {}
  <2> SUFFICES ASSUME D # {} PROVE FALSE
    OBVIOUS
  <2>1. D \in SUBSET Nat
    OBVIOUS
  <2>2. PICK e \in D : \A k \in D : e <= k
    BY <2>1, LeastNat
  <2>3. e # 0
    BY <2>2
  <2> DEFINE k == e - 1
             m == i + k - 1
  <2>4. /\ k \in Nat /\ k \in 0 .. n - i /\ ~(e <= k) /\ i + e = (i + k) + 1
        /\ m \in Nat /\ i + k = m + 1 /\ i + e - 1 = m + 1 /\ i + k \in 0 .. n - 1
    BY <2>2, <2>3
  <2>5. p[i + k] \in Balls(f)[m]
    BY <2>2, <2>4
  <2> HIDE DEF k, m
  <2>6. p[i + e] = p[i + k] \/ p[i + e] \in ForwardImage(f, {p[i + k]})
    BY <2>4 DEF Walks
  <2>7. p[i + e] \in Balls(f)[m] \cup ForwardImage(f, Balls(f)[m])
    BY <2>5, <2>6, ImageFromState
  <2>8. p[i + e] \in Balls(f)[m + 1]
    BY <2>4, <2>7, BallsAreBalls
  <2> QED
    BY <2>2, <2>4, <2>8
<1>2. n - i \in Nat /\ n - i \in 0 .. n - i /\ i + (n - i) = n /\ i + (n - i) - 1 = n - 1
  OBVIOUS
<1>3. p[i + (n - i)] \in Balls(f)[i + (n - i) - 1]
  BY <1>1, <1>2
<1> QED
  BY <1>2, <1>3

LEMMA WalkInBalls ==
  ASSUME NEW f \in FsmType, NEW n \in Nat, NEW p \in Walks(f, n), NEW i \in 0 .. n
  PROVE  p[i] \in Balls(f)[i]
<1> DEFINE q == [k \in 0 .. i |-> p[k]]
<1>1. q \in Walks(f, i) /\ q[i] = p[i] /\ i \in Nat
  BY WalkIsCut
<1> HIDE DEF q
<1>2. q[i] \in {w[i] : w \in Walks(f, i)}
  BY <1>1
<1>3. Balls(f)[i] = {w[i] : w \in Walks(f, i)}
  BY <1>1, BallsAreEnds
<1> QED
  BY <1>1, <1>2, <1>3

(* A walk that arrives as early as any never pauses and never turns back.  *)
LEMMA FirstArrivalHurries ==
  ASSUME NEW f \in FsmType, NEW n \in Nat, NEW p \in Walks(f, n), n > 0,
         p[n] \notin Balls(f)[n - 1]
  PROVE  \A i \in 1 .. n : /\ p[i] \notin Balls(f)[i - 1]
                           /\ p[i] \in ForwardImage(f, {p[i - 1]})
<1> SUFFICES ASSUME NEW i \in 1 .. n
             PROVE  /\ p[i] \notin Balls(f)[i - 1]
                    /\ p[i] \in ForwardImage(f, {p[i - 1]})
  OBVIOUS
<1>1. p[i] \notin Balls(f)[i - 1]
  BY EarlyStaysEarly
<1> DEFINE k == i - 1
<1>2. k \in 0 .. n /\ k \in 0 .. n - 1 /\ i = k + 1
  OBVIOUS
<1> HIDE DEF k
<1>3. p[k] \in Balls(f)[k]
  BY <1>2, WalkInBalls
<1>4. p[k + 1] = p[k] \/ p[k + 1] \in ForwardImage(f, {p[k]})
  BY <1>2 DEF Walks
<1> QED
  BY <1>1, <1>2, <1>3, <1>4 DEF k
(* The rings of a search in terms of balls.                                *)
LEMMA RingsAreBalls ==
  ASSUME McInv, Checking
  PROVE  /\ Len(rings) \in Nat /\ Len(rings) > 0
         /\ LastLayer(rings) = Balls(fsm)[Len(rings) - 1]
         /\ Len(rings) > 1 => ButLast(rings) = Balls(fsm)[Len(rings) - 2]
<1> DEFINE n == Len(rings)
<1>1. /\ fsm \in FsmType /\ rings \in Seq(SUBSET States) /\ rings # <<>>
      /\ IsOnion(fsm, rings)
  BY BothLists
<1>2. n \in Nat /\ n > 0 /\ LastLayer(rings) = rings[n]
  BY <1>1, LastFacts
<1>3. rings[n] = Balls(fsm)[n - 1]
  <2> DEFINE m == n - 1
  <2>1. m \in Nat /\ m + 1 \in 1 .. Len(rings) /\ m + 1 = n
    BY <1>2
  <2> HIDE DEF m
  <2>2. rings[m + 1] = Balls(fsm)[m]
    BY <1>1, <2>1, OnionIsBalls
  <2> QED
    BY <2>1, <2>2 DEF m
<1>4. ASSUME n > 1
      PROVE  rings[n - 1] = Balls(fsm)[n - 2]
  <2> DEFINE m == n - 2
  <2>1. m \in Nat /\ m + 1 \in 1 .. Len(rings) /\ m + 1 = n - 1
    BY <1>2, <1>4
  <2> HIDE DEF m
  <2>2. rings[m + 1] = Balls(fsm)[m]
    BY <1>1, <2>1, OnionIsBalls
  <2> QED
    BY <2>1, <2>2 DEF m
<1> QED
  BY <1>2, <1>3, <1>4 DEF ButLast

(* What a search has explored keeps the bad states away from the initial   *)
(* region: an execution to one has a state for each set on either side,    *)
(* the two sides sharing one at most.                                      *)
LEMMA SearchIsShort ==
  ASSUME McInv, pc = "search"
  PROVE  NoneCloser(Len(rings) + Len(badRings) - 1)
<1> DEFINE F == Len(rings)
           B == Len(badRings)
<1>1. Checking
  BY DEF Checking, CheckPcs
<1>2. /\ fsm \in FsmType /\ badRings \in Seq(SUBSET States) /\ badRings # <<>>
      /\ IsBackOnion(fsm, badRings)
  BY <1>1, BothLists
<1>3. /\ B \in Nat /\ B > 0 /\ LastLayer(badRings) = badRings[B]
  BY <1>2, LastFacts
<1>4. /\ ButLast(rings) \cap LastLayer(badRings) = {}
      /\ LastLayer(rings) \cap ButLast(badRings) = {}
      /\ badRings[1] = Bad(inv)
  BY <1>1 DEF McInv, CheckInv, SearchInv, CheckBadRings
<1>5. /\ F \in Nat /\ F > 0 /\ LastLayer(rings) = Balls(fsm)[F - 1]
      /\ F > 1 => ButLast(rings) = Balls(fsm)[F - 2]
  BY <1>1, RingsAreBalls
<1>6. CASE F > 1
  <2> DEFINE a == F - 2
  <2>1. a \in Nat /\ B \in 1 .. Len(badRings) /\ a + (B - 1) = F + B - 1 - 2
    BY <1>3, <1>5, <1>6
  <2>2. Balls(fsm)[a] \cap badRings[B] = {}
    BY <1>3, <1>4, <1>5, <1>6
  <2> HIDE DEF a
  <2>3. Balls(fsm)[a + (B - 1)] \cap badRings[1] = {}
    BY <1>2, <2>1, <2>2, MeetMoves
  <2> QED
    BY <1>4, <2>1, <2>3 DEF NoneCloser
<1>7. CASE F = 1 /\ B > 1
  <2> DEFINE m == B - 1
  <2>1. m \in 1 .. Len(badRings) /\ 0 \in Nat /\ 0 + (m - 1) = F + B - 1 - 2
    BY <1>3, <1>7
  <2>2. Balls(fsm)[0] \cap badRings[m] = {}
    <3>1. ButLast(badRings) = badRings[m] /\ F - 1 = 0
      BY <1>7 DEF ButLast
    <3> QED
      BY <1>4, <1>5, <3>1
  <2> HIDE DEF m
  <2>3. Balls(fsm)[0 + (m - 1)] \cap badRings[1] = {}
    BY <1>2, <2>1, <2>2, MeetMoves
  <2> QED
    BY <1>4, <2>1, <2>3 DEF NoneCloser
<1>8. CASE F = 1 /\ B = 1
  BY <1>8 DEF NoneCloser
<1>9. F > 1 \/ (F = 1 /\ B > 1) \/ (F = 1 /\ B = 1)
  <2>1. F \in Nat /\ F > 0 /\ B \in Nat /\ B > 0
    BY <1>3, <1>5
  <2> HIDE DEF F, B
  <2> QED
    BY <2>1
<1> QED
  BY <1>6, <1>7, <1>8, <1>9
(* A bad frontier that is reached within the gap machine's lengths and not *)
(* before: the walk that reaches it first is a path of the gap machine.    *)
LEMMA FirstMeetIsGapPath ==
  ASSUME McInv, Searching, NEW j \in Nat, j > 0,
         \A e \in 0 .. j - 1 : Balls(fsm)[Len(rings) - 1 + e] \cap LastLayer(badRings) = {},
         Balls(fsm)[Len(rings) - 1 + j] \cap LastLayer(badRings) # {}
  PROVE  BmcPaths(j) # {}
<1> DEFINE F == Len(rings)
           N == F - 1 + j
           PR == ButLast(rings)
           PB == ButLast(badRings)
           LB == LastLayer(badRings)
<1>1. pc = "search" /\ Checking
  BY DEF Searching, Checking, CheckPcs
<1>2. /\ fsm \in FsmType /\ rings \in Seq(SUBSET States) /\ rings # <<>>
      /\ badRings \in Seq(SUBSET States) /\ badRings # <<>> /\ IsBackOnion(fsm, badRings)
      /\ frontier = LastFrontier(rings) /\ badFrontier = LastFrontier(badRings)
  BY <1>1, BothLists
<1>3. /\ F \in Nat /\ F > 0 /\ LastLayer(rings) = Balls(fsm)[F - 1]
      /\ F > 1 => PR = Balls(fsm)[F - 2]
  BY <1>1, RingsAreBalls
<1>4. /\ frontier = LastLayer(rings) \ PR /\ badFrontier = LB \ PB
  BY <1>2, LastFacts
<1>5. PB \subseteq LB /\ BackwardImage(fsm, PB) \subseteq LB
  BY <1>2, BackOnionLast
<1>6. N \in Nat /\ N > 0 /\ N - 1 = F - 1 + (j - 1) /\ j - 1 \in 0 .. j - 1
  BY <1>3
<1>7. Balls(fsm)[N - 1] \cap LB = {}
  <2>1. Balls(fsm)[F - 1 + (j - 1)] \cap LB = {}
    BY <1>6
  <2> QED
    BY <1>6, <2>1
<1>8. PICK t \in Balls(fsm)[N] : t \in LB
  OBVIOUS
<1>9. PICK p \in Walks(fsm, N) : p[N] = t
  <2>1. Balls(fsm)[N] = {w[N] : w \in Walks(fsm, N)}
    BY <1>2, <1>6, BallsAreEnds
  <2> QED
    BY <1>8, <2>1
<1> HIDE DEF N
<1>10. \A i \in 0 .. N : p[i] \in Balls(fsm)[i] /\ p[i] \in fsm.invarStates
  <2> TAKE i \in 0 .. N
  <2>1. p[i] \in Balls(fsm)[i] /\ i \in Nat
    BY <1>2, <1>6, WalkInBalls
  <2> QED
    BY <1>2, <2>1, BallsWithin
<1>11. \A i \in 1 .. N : /\ p[i] \notin Balls(fsm)[i - 1]
                         /\ p[i] \in ForwardImage(fsm, {p[i - 1]})
  <2>1. p[N] \notin Balls(fsm)[N - 1]
    BY <1>7, <1>8, <1>9
  <2> QED
    BY <1>2, <1>6, <2>1, FirstArrivalHurries
<1>12. \A e \in 0 .. j - 1 : p[F - 1 + e] \notin LB
  <2> TAKE e \in 0 .. j - 1
  <2>1. F - 1 + e \in 0 .. N
    BY <1>3 DEF N
  <2>2. p[F - 1 + e] \in Balls(fsm)[F - 1 + e]
    BY <1>10, <2>1
  <2> QED
    BY <2>2
<1>13. p[N] \notin PB
  <2>1. p[N] \in ForwardImage(fsm, {p[N - 1]})
    <3>1. N \in 1 .. N
      BY <1>6
    <3> QED
      BY <1>11, <3>1
  <2>2. p[N - 1] \notin LB
    BY <1>6, <1>12
  <2>3. p[N] \in PB => p[N - 1] \in BackwardImage(fsm, PB)
    BY <2>1, PreImageFromState
  <2> QED
    BY <1>5, <2>2, <2>3
<1>14. \A e \in 0 .. j : p[F - 1 + e] \notin PR
  <2> TAKE e \in 0 .. j
  <2>1. CASE F > 1
    <3> DEFINE i == F - 1 + e
    <3>1. i \in 1 .. N /\ F - 2 \in Nat /\ e \in Nat /\ i - 1 = F - 2 + e
      BY <1>3, <2>1 DEF N
    <3>2. Balls(fsm)[F - 2] \subseteq Balls(fsm)[F - 2 + e]
      BY <1>2, <3>1, BallsGrow
    <3>3. p[i] \notin Balls(fsm)[i - 1]
      BY <1>11, <3>1
    <3> QED
      BY <1>3, <2>1, <3>1, <3>2, <3>3
  <2>2. CASE ~(F > 1)
    BY <2>2 DEF ButLast
  <2> QED
    BY <2>1, <2>2
<1>15. \A e \in 0 .. j : p[F - 1 + e] \in fsm.invarStates /\ p[F - 1 + e] \notin PB
  <2> TAKE e \in 0 .. j
  <2>1. F - 1 + e \in 0 .. N
    BY <1>3 DEF N
  <2>2. CASE e = j
    BY <1>10, <1>13, <2>1, <2>2 DEF N
  <2>3. CASE e # j
    <3>1. e \in 0 .. j - 1
      BY <2>3
    <3> QED
      BY <1>5, <1>10, <1>12, <2>1, <3>1
  <2> QED
    BY <2>2, <2>3
<1>16. /\ BmcMachine.init = frontier /\ BmcMachine.invarStates = fsm.invarStates \ Explored
       /\ BmcMachine.invarInputs = fsm.invarInputs /\ BmcMachine.trans = fsm.trans
  BY <1>2 DEF BmcMachine, FsmType
<1>17. Explored \subseteq PR \cup PB
  <2>1. (forwardStep > 1 => F > 1) /\ F - 1 = forwardStep
    BY <1>3 DEF forwardStep
  <2>2. Len(badRings) \in Nat
    BY <1>2
  <2>3. backwardStep > 1 => Len(badRings) > 1
    BY <2>2 DEF backwardStep
  <2>4. (IF forwardStep > 1 THEN rings[forwardStep] ELSE {}) \subseteq PR
    BY <2>1 DEF ButLast
  <2>5. (IF backwardStep > 1 THEN badRings[backwardStep] ELSE {}) \subseteq PB
    BY <2>3 DEF ButLast, backwardStep
  <2> QED
    BY <2>4, <2>5 DEF Explored
<1>18. \A e \in 0 .. j : p[F - 1 + e] \in BmcMachine.invarStates
  BY <1>14, <1>15, <1>16, <1>17
<1> DEFINE q == [n \in 1 .. j + 1 |-> p[F - 1 + (n - 1)]]
<1>19. q \in [1 .. j + 1 -> BmcMachine.invarStates]
  <2>1. \A n \in 1 .. j + 1 : n - 1 \in 0 .. j
    OBVIOUS
  <2> QED
    BY <1>18, <2>1
<1>20. q[1] \in InitRegion(BmcMachine)
  <2>1. 1 \in 1 .. j + 1 /\ 0 \in 0 .. j /\ F - 1 + (1 - 1) = F - 1 /\ F - 1 + 0 = F - 1
        /\ F - 1 \in 0 .. N
    BY <1>3 DEF N
  <2>2. q[1] = p[F - 1]
    BY <2>1
  <2>3. p[F - 1] \in LastLayer(rings) /\ p[F - 1] \notin PR
    BY <1>3, <1>10, <1>14, <2>1
  <2>4. p[F - 1] \in BmcMachine.invarStates
    BY <1>18, <2>1
  <2> QED
    BY <1>4, <1>16, <2>2, <2>3, <2>4 DEF InitRegion
<1>21. ASSUME NEW n \in 1 .. j
       PROVE  q[n] \notin badFrontier /\ q[n + 1] \in ForwardImage(BmcMachine, {q[n]})
  <2> DEFINE e == n - 1
  <2>1. /\ e \in 0 .. j - 1 /\ e \in 0 .. j /\ n \in 0 .. j /\ n \in 1 .. j + 1
        /\ n + 1 \in 1 .. j + 1 /\ (n + 1) - 1 = n
        /\ F - 1 + n \in 1 .. N /\ F - 1 + n - 1 = F - 1 + e
    BY <1>3 DEF N
  <2>2. q[n] = p[F - 1 + e] /\ q[n + 1] = p[F - 1 + n]
    BY <2>1
  <2> HIDE DEF q, e
  <2>3. q[n] \notin LB
    BY <1>12, <2>1, <2>2
  <2>4. p[F - 1 + n] \in ForwardImage(fsm, {p[F - 1 + e]})
    BY <1>11, <2>1
  <2>5. q[n] \in BmcMachine.invarStates /\ q[n + 1] \in BmcMachine.invarStates
    BY <1>18, <2>1, <2>2
  <2>6. q[n + 1] \in ForwardImage(fsm, {q[n]})
    BY <2>2, <2>4
  <2>7. q[n + 1] \in ForwardImage(BmcMachine, {q[n]})
    BY <1>16, <2>5, <2>6 DEF ForwardImage
  <2> QED
    BY <1>4, <2>3, <2>7
<1>22. q[j + 1] \in badFrontier
  <2>1. j + 1 \in 1 .. j + 1 /\ F - 1 + ((j + 1) - 1) = N
    BY DEF N
  <2>2. q[j + 1] = p[N]
    BY <2>1
  <2> QED
    BY <1>4, <1>8, <1>9, <1>13, <2>2
<1> HIDE DEF q
<1>23. q \in BmcPaths(j)
  BY <1>19, <1>20, <1>21, <1>22 DEF BmcPaths
<1> QED
  BY <1>23
(* So a shortest path of the gap machine is a piece of a shortest          *)
(* execution.                                                              *)
LEMMA GapIsShort ==
  ASSUME McInv, Searching, NEW k \in Nat, BmcFinds(k)
  PROVE  NoneCloser(Len(rings) + Len(badRings) + k - 1)
<1> DEFINE F == Len(rings)
           B == Len(badRings)
           LB == LastLayer(badRings)
<1>1. /\ pc = "search" /\ Checking /\ target = {}
      /\ BmcPaths(k) # {} /\ \A m \in 0 .. k - 1 : BmcPaths(m) = {}
  BY DEF Searching, Checking, CheckPcs, BmcFinds
<1>2. /\ fsm \in FsmType /\ badRings \in Seq(SUBSET States) /\ badRings # <<>>
      /\ IsBackOnion(fsm, badRings)
  BY <1>1, BothLists
<1>3. /\ B \in Nat /\ B > 0 /\ LB = badRings[B]
  BY <1>2, LastFacts
<1>4. /\ target = LastLayer(rings) \cap LB /\ badRings[1] = Bad(inv)
  BY <1>1 DEF McInv, CheckInv, SearchInv, CheckBadRings
<1>5. /\ F \in Nat /\ F > 0 /\ LastLayer(rings) = Balls(fsm)[F - 1]
  BY <1>1, RingsAreBalls
<1>6. k > 0
  <2> SUFFICES ASSUME k = 0 PROVE FALSE
    OBVIOUS
  <2>1. PICK p \in BmcPaths(k) : TRUE
    BY <1>1
  <2>2. p[1] \in LastLayer(rings) /\ p[k + 1] \in LB
    BY <1>1, GapPath
  <2>3. k + 1 = 1
    OBVIOUS
  <2> QED
    BY <1>1, <1>4, <2>2, <2>3
<1> DEFINE D == {e \in Nat : e \in 0 .. k - 1 /\ Balls(fsm)[F - 1 + e] \cap LB # {}}
<1>7. D = {}
  <2> SUFFICES ASSUME D # {} PROVE FALSE
    OBVIOUS
  <2>1. D \in SUBSET Nat
    OBVIOUS
  <2>2. PICK j \in D : \A e \in D : j <= e
    BY <2>1, LeastNat
  <2>3. j \in Nat /\ j \in 0 .. k - 1 /\ Balls(fsm)[F - 1 + j] \cap LB # {}
    OBVIOUS
  <2>4. j # 0
    <3>1. F - 1 + 0 = F - 1
      BY <1>5
    <3> QED
      BY <1>1, <1>4, <1>5, <2>3, <3>1
  <2>5. \A e \in 0 .. j - 1 : Balls(fsm)[F - 1 + e] \cap LB = {}
    <3> TAKE e \in 0 .. j - 1
    <3>1. e \in Nat /\ e \in 0 .. k - 1 /\ ~(j <= e)
      BY <2>3
    <3> QED
      BY <2>2, <3>1
  <2>6. j > 0
    BY <2>3, <2>4
  <2>7. BmcPaths(j) # {}
    BY <2>3, <2>5, <2>6, FirstMeetIsGapPath
  <2> QED
    BY <1>1, <2>3, <2>7
<1>8. Balls(fsm)[F - 1 + (k - 1)] \cap badRings[B] = {}
  <2>1. k - 1 \in Nat /\ k - 1 \in 0 .. k - 1
    BY <1>6
  <2> QED
    BY <1>3, <1>7, <2>1
<1> DEFINE a == F - 1 + (k - 1)
<1>9. a \in Nat /\ B \in 1 .. Len(badRings) /\ a + (B - 1) = F + B + k - 1 - 2
  BY <1>3, <1>5, <1>6
<1> HIDE DEF a
<1>10. Balls(fsm)[a + (B - 1)] \cap badRings[1] = {}
  BY <1>2, <1>8, <1>9, MeetMoves DEF a
<1> QED
  BY <1>4, <1>9, <1>10 DEF NoneCloser

(* Of the cached layers, the one before the first buggy one is a ball.     *)
LEMMA BisectIsShort ==
  ASSUME McInv, pc = "bisect", NEW n \in Nat, n > 0, n <= Len(layers), ~Buggy(n - 1)
  PROVE  NoneCloser(n + 1)
<1>1. fsm \in FsmType /\ layers \in Seq(SUBSET States) /\ IsOnion(fsm, layers)
  BY DEF McInv, TypeOK, DataTypeOK, ReachCore, LayersAreOnion
<1> DEFINE m == n - 1
<1>2. m \in Nat /\ m + 1 \in 1 .. Len(layers) /\ n + 1 - 2 = m
  BY <1>1
<1>3. layers[m + 1] \cap Bad(inv) = {}
  BY DEF Buggy
<1> HIDE DEF m
<1>4. layers[m + 1] = Balls(fsm)[m]
  BY <1>1, <1>2, OnionIsBalls
<1> QED
  BY <1>2, <1>3, <1>4 DEF NoneCloser
-----------------------------------------------------------------------------
(* The steps.                                                              *)

(* A trace that is begun.                                                  *)
LEMMA BegunKeepsShort ==
  ASSUME Checking', NEW n \in Nat, NoneCloser(n), UNCHANGED <<fsm, inv>>,
         Len(path') + Len(bList') + Len(fList') = n, pc' = "backPath" => bList' = <<>>
  PROVE  ShortInv'
<1>1. NoneCloser(Len(path) + Len(bList) + Len(fList))'
  BY DEF NoneCloser, Bad
<1> QED
  BY <1>1 DEF ShortInv

(* No trace is kept, or one that was complete before.                      *)
LEMMA EndedKeepsShort ==
  ASSUME ~Checking', verdict' # "false" \/ path' = <<>> \/ Len(path') = 1
  PROVE  ShortInv'
<1>1. pc' \notin {"forthPath", "backPath"}
  BY DEF Checking, CheckPcs
<1>2. ASSUME Len(path') = 1
      PROVE  NoneCloser(Len(path))'
  <2>1. ~(Len(path') > 1)
    BY <1>2
  <2> QED
    BY <2>1 DEF NoneCloser
<1>3. verdict' = "false" /\ path' # <<>> => NoneCloser(Len(path))'
  BY <1>2
<1> QED
  BY <1>1, <1>3 DEF ShortInv

LEMMA LeaveEnds ==
  ASSUME LeaveCheck
  PROVE  ~Checking'
BY DEF LeaveCheck, Checking, CheckPcs

LEMMA ConcludeFalseKeepsShort ==
  ASSUME McInv, McInv', ConcludeFalse
  PROVE  ShortInv'
<1>1. /\ pc = "search" /\ pc' = "forthPath" /\ UNCHANGED <<fsm, inv>>
      /\ bList' = SubSeq(badRings, 1, backwardStep) /\ fList' = SubSeq(rings, 1, forwardStep)
      /\ \E s \in target : path' = <<s>>
  BY DEF ConcludeFalse
<1>2. Checking /\ Checking'
  BY <1>1 DEF Checking, CheckPcs
<1>3. NoneCloser(Len(rings) + Len(badRings) - 1)
  BY <1>1, SearchIsShort
<1>4. /\ rings \in Seq(SUBSET States) /\ Len(rings) \in Nat /\ Len(rings) > 0
      /\ badRings \in Seq(SUBSET States) /\ Len(badRings) \in Nat /\ Len(badRings) > 0
  BY <1>2, BothLists, LastFacts
<1>5. Len(path') = 1
  BY <1>1
<1>6. Len(bList') = backwardStep /\ Len(fList') = forwardStep
  <2>1. /\ backwardStep \in Nat /\ backwardStep <= Len(badRings)
        /\ forwardStep \in Nat /\ forwardStep <= Len(rings)
    BY <1>4 DEF backwardStep, forwardStep
  <2> QED
    BY <1>1, <1>4, <2>1, Beginning
<1>7. /\ Len(rings) + Len(badRings) - 1 \in Nat
      /\ Len(path') + Len(bList') + Len(fList') = Len(rings) + Len(badRings) - 1
  BY <1>4, <1>5, <1>6 DEF backwardStep, forwardStep
<1> QED
  BY <1>1, <1>2, <1>3, <1>7, BegunKeepsShort

LEMMA BmcRefutesKeepsShort ==
  ASSUME McInv, McInv', BmcRefutes
  PROVE  ShortInv'
<1>1. /\ pc = "search" /\ pc' = "forthPath" /\ UNCHANGED <<fsm, inv>> /\ Searching
      /\ bList' = SubSeq(badRings, 1, backwardStep) /\ fList' = SubSeq(rings, 1, forwardStep)
  BY DEF BmcRefutes, SwitchToBmc, Searching
<1>2. PICK k \in 0 .. MaxK : BmcFinds(k) /\ path' \in BmcPaths(k)
  BY DEF BmcRefutes
<1>3. k \in Nat
  BY MaxKAssumption DEF MaxKAssumption
<1>4. Checking /\ Checking'
  BY <1>1 DEF Checking, CheckPcs
<1>5. NoneCloser(Len(rings) + Len(badRings) + k - 1)
  BY <1>1, <1>2, <1>3, GapIsShort
<1>6. /\ rings \in Seq(SUBSET States) /\ Len(rings) \in Nat /\ Len(rings) > 0
      /\ badRings \in Seq(SUBSET States) /\ Len(badRings) \in Nat /\ Len(badRings) > 0
  BY <1>4, BothLists, LastFacts
<1>7. Len(path') = k + 1
  BY <1>1, <1>2, <1>3, GapPath
<1>8. Len(bList') = backwardStep /\ Len(fList') = forwardStep
  <2>1. /\ backwardStep \in Nat /\ backwardStep <= Len(badRings)
        /\ forwardStep \in Nat /\ forwardStep <= Len(rings)
    BY <1>6 DEF backwardStep, forwardStep
  <2> QED
    BY <1>1, <1>6, <2>1, Beginning
<1>9. /\ Len(rings) + Len(badRings) + k - 1 \in Nat
      /\ Len(path') + Len(bList') + Len(fList') = Len(rings) + Len(badRings) + k - 1
  BY <1>3, <1>6, <1>7, <1>8 DEF backwardStep, forwardStep
<1> QED
  BY <1>1, <1>4, <1>5, <1>9, BegunKeepsShort

LEMMA BisectKeepsShort ==
  ASSUME McInv, McInv', Bisect
  PROVE  ShortInv'
<1> DEFINE n == Probe
<1>1. /\ pc = "bisect" /\ UNCHANGED <<fsm, inv, layers>>
      /\ \/ /\ ~Buggy(n - 1) /\ pc' = "backPath" /\ \E s \in target' : path' = <<s>>
            /\ fList' = SubSeq(rings, 1, n) /\ bList' = <<>>
         \/ pc' = "bisect"
  BY DEF Bisect, FirstBuggy, cache
<1>2. /\ layers \in Seq(SUBSET States) /\ Len(layers) \in Nat /\ rings = layers
      /\ lower \in Int /\ upper \in Int
      /\ 0 <= lower /\ lower < upper /\ upper < Len(layers)
  BY <1>1 DEF McInv, TypeOK, DataTypeOK, CheckInv, BisectInv, BisectBrackets, diameter
<1>3. n \in Nat /\ n > 0 /\ n <= Len(layers)
  BY <1>2 DEF Probe
<1> HIDE DEF n
<1>4. CASE pc' = "bisect"
  BY <1>4 DEF ShortInv, Checking, CheckPcs
<1>5. CASE pc' # "bisect"
  <2>1. Checking' /\ Len(path') = 1 /\ Len(bList') = 0
    BY <1>1, <1>5 DEF Checking, CheckPcs
  <2>2. Len(fList') = n
    BY <1>1, <1>2, <1>3, <1>5, Beginning
  <2>3. NoneCloser(n + 1) /\ n + 1 \in Nat
    BY <1>1, <1>3, <1>5, BisectIsShort
  <2>4. Len(path') + Len(bList') + Len(fList') = n + 1
    BY <1>3, <2>1, <2>2
  <2> QED
    BY <1>1, <1>5, <2>1, <2>3, <2>4, BegunKeepsShort
<1> QED
  BY <1>4, <1>5

LEMMA StepForthKeepsShort ==
  ASSUME McInv, McInv', ShortInv, StepForth
  PROVE  ShortInv'
<1>1. ~InternalError
  BY DEF InternalError, McInv, AnswerInv, NoInternalError
<1>2. /\ pc = "forthPath" /\ bList # <<>> /\ bList' = WithoutLast(bList)
      /\ \E t : path' = Append(path, t)
      /\ pc' = pc /\ fList' = fList /\ UNCHANGED <<fsm, inv>>
  BY <1>1 DEF StepForth, reachVars
<1>3. /\ bList \in Seq(SUBSET States) /\ fList \in Seq(SUBSET States) /\ path \in Seq(States)
      /\ path' \in Seq(States)
  BY DEF McInv, TypeOK
<1>4. Len(path') = Len(path) + 1 /\ Len(path) \in Nat /\ Len(fList) \in Nat
  BY <1>2, <1>3
<1>5. Len(bList) \in Nat /\ Len(bList') = Len(bList) - 1 /\ Len(bList) > 0
  BY <1>2, <1>3, WithoutLastFacts
<1>6. NoneCloser(Len(path) + Len(bList) + Len(fList))
  BY <1>2 DEF ShortInv
<1>7. /\ Len(path) + Len(bList) + Len(fList) \in Nat
      /\ Len(path') + Len(bList') + Len(fList') = Len(path) + Len(bList) + Len(fList)
  BY <1>2, <1>4, <1>5
<1>8. Checking' /\ pc' # "backPath"
  BY <1>2 DEF Checking, CheckPcs
<1> QED
  BY <1>2, <1>6, <1>7, <1>8, BegunKeepsShort

LEMMA StepBackKeepsShort ==
  ASSUME McInv, McInv', ShortInv, StepBack
  PROVE  ShortInv'
<1>1. ~InternalError
  BY DEF InternalError, McInv, AnswerInv, NoInternalError
<1>2. /\ pc = "backPath" /\ fList # <<>> /\ fList' = WithoutLast(fList)
      /\ \E r \in fsm.invarStates : path' = <<r>> \o path
      /\ pc' = pc /\ bList' = bList /\ UNCHANGED <<fsm, inv>>
  BY <1>1 DEF StepBack, reachVars, BackwardImage
<1>3. /\ bList \in Seq(SUBSET States) /\ fList \in Seq(SUBSET States) /\ path \in Seq(States)
      /\ fsm \in FsmType
  BY DEF McInv, TypeOK, DataTypeOK
<1>4. Len(path') = Len(path) + 1 /\ Len(path) \in Nat /\ Len(bList) \in Nat
  BY <1>2, <1>3
<1>5. Len(fList) \in Nat /\ Len(fList') = Len(fList) - 1 /\ Len(fList) > 0
  BY <1>2, <1>3, WithoutLastFacts
<1>6. NoneCloser(Len(path) + Len(bList) + Len(fList)) /\ bList = <<>>
  BY <1>2 DEF ShortInv
<1>7. /\ Len(path) + Len(bList) + Len(fList) \in Nat
      /\ Len(path') + Len(bList') + Len(fList') = Len(path) + Len(bList) + Len(fList)
  BY <1>2, <1>4, <1>5
<1>8. Checking' /\ bList' = <<>>
  BY <1>2, <1>6 DEF Checking, CheckPcs
<1> QED
  BY <1>2, <1>6, <1>7, <1>8, BegunKeepsShort

LEMMA TurnBackKeepsShort ==
  ASSUME McInv, ShortInv, TurnBack
  PROVE  ShortInv'
<1>1. /\ pc = "forthPath" /\ pc' = "backPath" /\ bList = <<>>
      /\ UNCHANGED <<fsm, inv, path, bList, fList>>
  BY DEF TurnBack, checkVars
<1>2. NoneCloser(Len(path) + Len(bList) + Len(fList))
  BY <1>1 DEF ShortInv
<1>3. Len(path) + Len(bList) + Len(fList) \in Nat
  BY DEF McInv, TypeOK
<1>4. Checking'
  BY <1>1 DEF Checking, CheckPcs
<1> QED
  BY <1>1, <1>2, <1>3, <1>4, BegunKeepsShort

LEMMA ReturnTraceKeepsShort ==
  ASSUME McInv, ShortInv, ReturnTrace
  PROVE  ShortInv'
<1>1. pc = "backPath" /\ fList = <<>> /\ pc' = "idle" /\ UNCHANGED <<fsm, inv, path>>
  BY DEF ReturnTrace, LeaveCheck
<1>2. NoneCloser(Len(path) + Len(bList) + Len(fList)) /\ bList = <<>>
  BY <1>1 DEF ShortInv
<1>3. Len(path) + Len(bList) + Len(fList) = Len(path)
  BY <1>1, <1>2 DEF McInv, TypeOK
<1>4. NoneCloser(Len(path))'
  BY <1>1, <1>2, <1>3 DEF NoneCloser, Bad
<1> QED
  BY <1>1, <1>4 DEF ShortInv
(* The trace of a check outlives it: other commands do not touch it.       *)
LEMMA OutsideKeepsShort ==
  ASSUME McInv, ShortInv, ~Checking, ~Checking', UNCHANGED <<fsm, inv, verdict, path>>
  PROVE  ShortInv'
<1>1. verdict' = "false" /\ path' # <<>> => NoneCloser(Len(path))'
  BY DEF ShortInv, NoneCloser, Bad
<1>2. pc' \notin {"forthPath", "backPath"}
  BY DEF Checking, CheckPcs
<1> QED
  BY <1>1, <1>2 DEF ShortInv

LEMMA NextKeepsShort ==
  ASSUME McInv, McInv', ShortInv, [Next]_vars
  PROVE  ShortInv'
<1>1. CASE CheckInvar
  <2>1. pc' \in {"search", "initBug", "bisect", "report"}
    BY <1>1 DEF CheckInvar, StartCheck
  <2> QED
    BY <2>1 DEF ShortInv, Checking, CheckPcs
<1>2. CASE BugInInitialState
  <2>1. /\ pc = "initBug" /\ LeaveCheck
        /\ (\E s \in InitRegion(fsm) \cap Bad(inv) : path' = <<s>>) \/ path' = path
    BY <1>2 DEF BugInInitialState
  <2>2. path = <<>>
    BY <2>1 DEF McInv, CheckInv, NoPathYet
  <2>3. path' = <<>> \/ Len(path') = 1
    BY <2>1, <2>2
  <2> QED
    BY <2>1, <2>3, LeaveEnds, EndedKeepsShort
<1>3. CASE CompleteAndSafe \/ ConcludeTrue \/ BmcProves \/ BmcGivesUp
  <2>1. verdict' # "false" /\ LeaveCheck
    BY <1>3 DEF CompleteAndSafe, ConcludeTrue, BmcProves, BmcGivesUp
  <2> QED
    BY <2>1, LeaveEnds, EndedKeepsShort
<1>4. CASE ReportFalse \/ BmcReportsFalse
  <2>1. pc \in {"report", "search"} /\ LeaveCheck /\ path' = path
    BY <1>4 DEF ReportFalse, BmcReportsFalse, SwitchToBmc, Searching
  <2>2. path' = <<>>
    BY <2>1 DEF McInv, CheckInv, NoPathYet
  <2> QED
    BY <2>1, <2>2, LeaveEnds, EndedKeepsShort
<1>5. CASE InterruptCheck
  <2>1. path' = <<>> /\ LeaveCheck
    BY <1>5 DEF InterruptCheck
  <2> QED
    BY <2>1, LeaveEnds, EndedKeepsShort
<1>6. CASE ForwardStep \/ BackwardStep
  <2>1. pc' = "search"
    BY <1>6 DEF ForwardStep, BackwardStep, Searching, reachVars
  <2> QED
    BY <2>1 DEF ShortInv, Checking, CheckPcs
<1>7. CASE Reach
  <2>1. ~Checking /\ ~Checking' /\ UNCHANGED <<fsm, inv, verdict, path>>
    BY <1>7, ReachRunsAlone DEF Reach, checkVars, Checking, CheckPcs
  <2> QED
    BY <2>1, OutsideKeepsShort
<1>8. CASE UNCHANGED vars
  <2>1. UNCHANGED <<fsm, inv, verdict, path, bList, fList, pc>>
    BY <1>8 DEF vars, reachVars, checkVars
  <2> QED
    BY <2>1 DEF ShortInv, NoneCloser, Bad, Checking
<1> QED
  BY <1>1, <1>2, <1>3, <1>4, <1>5, <1>6, <1>7, <1>8, ConcludeFalseKeepsShort,
     BmcRefutesKeepsShort, BisectKeepsShort, StepForthKeepsShort, StepBackKeepsShort,
     TurnBackKeepsShort, ReturnTraceKeepsShort
     DEF Next, CheckStep

(* check_invar.tex promises a shortest counterexample.  With Een-Sorensson *)
(* BMC, which tries the lengths in order, every strategy keeps it: no      *)
(* execution with fewer states than the trace reaches a bad state.         *)
THEOREM TraceIsShortestCorrect == Spec => []TraceIsShortest
<1>1. McInv /\ Init => ShortInv
  BY DEF Init, ReachInit, ShortInv
<1>2. McInv /\ McInv' /\ ShortInv /\ [Next]_vars => ShortInv'
  BY NextKeepsShort
<1>3. McInv /\ ShortInv => TraceIsShortest
  <2> SUFFICES ASSUME McInv, ShortInv, HasTrace, Len(path) > 1
               PROVE  Balls(fsm)[Len(path) - 2] \cap Bad(inv) = {}
    BY DEF TraceIsShortest
  <2> QED
    BY DEF ShortInv, HasTrace, NoneCloser, Checking, CheckPcs
<1> QED
  BY <1>1, <1>2, <1>3, McInvariant, PTL DEF Spec
=============================================================================
