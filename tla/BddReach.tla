------------------------------ MODULE BddReach ------------------------------
(***************************************************************************)
(* Reachability analysis of a BddFsm and the cache of its layers           *)
(* (core/fsm/bdd/BddFsm.c, BddFsmCache.c; command compute_reachable).      *)
(*                                                                         *)
(* BddFsm_expand_cached_reachable_states resumes from the cached layers,   *)
(* adds one layer per iteration, stops at the fixpoint, after k steps or   *)
(* when the time is up, and only then replaces the cache.  In interactive  *)
(* mode SIGINT leaves the command by a long jump (shell/cmd/cmd.c), which  *)
(* loses the locals and keeps the cache.                                   *)
(***************************************************************************)
EXTENDS Fsm, FiniteSets

CONSTANTS Machines,   \* the machines the model may describe
          Bounds      \* the values of option -k of compute_reachable

ASSUME MachinesAssumption == Machines \subseteq FsmType
ASSUME BoundsAssumption == Bounds \subseteq Nat \ {0}

NoLimit == -1         \* k = -1: until the fixpoint

VARIABLES
  fsm,          \* the machine; no command changes it
  layers,       \* reachable.layers; its length is reachable.diameter
  computed,     \* reachable.computed
  pc,           \* "idle", or "expand" inside the while loop of expand
  rings,        \* reachable_states_layers, oldest first
  frontier,     \* from_lower_bound
  steps,        \* k, counted down
  timed         \* max_seconds # -1

cache == <<layers, computed>>
expandLocals == <<rings, frontier, steps, timed>>
reachVars == <<fsm, layers, computed, pc, rings, frontier, steps, timed>>

(* The locals of a function that is not running.                           *)
NoExpandLocals == rings = <<>> /\ frontier = {} /\ steps = 0 /\ timed = FALSE

ReachInit ==
  /\ fsm \in Machines
  /\ layers = <<>> /\ computed = FALSE
  /\ pc = "idle"
  /\ NoExpandLocals

(* A complete analysis with layers is returned at once ("already ready").  *)
NeedsExpansion == ~(Len(layers) > 0 /\ computed)

(* Mutant: the state constraints are not applied to the initial states.    *)
FirstRing_NoInvar == IF fsm.init = {} THEN <<>> ELSE <<fsm.init>>

(* The first ring of a traversal that starts from scratch: none when the   *)
(* initial region is empty.                                                *)
FirstRing == IF InitRegion(fsm) = {} THEN <<>> ELSE <<InitRegion(fsm)>>

(* Mutant: the cached layers are not reloaded.                             *)
StartExpand_Anew(k, limited) ==
  /\ pc = "idle" /\ NeedsExpansion
  /\ pc' = "expand"
  /\ rings' = FirstRing /\ frontier' = LastFrontier(rings')
  /\ steps' = k /\ timed' = limited
  /\ UNCHANGED <<fsm, cache>>

StartExpand(k, limited) ==
  /\ pc = "idle" /\ NeedsExpansion
  /\ pc' = "expand"
  /\ rings' = IF Len(layers) > 0 THEN layers ELSE FirstRing
  /\ frontier' = LastFrontier(rings')
  /\ steps' = k
  /\ timed' = limited
  /\ UNCHANGED <<fsm, cache>>

(* Mutant: k is decremented although there is no limit.                    *)
ExpandStep_CountsDown ==
  /\ pc = "expand" /\ frontier # {} /\ steps # 0
  /\ steps' = steps - 1
  /\ rings' = Append(rings, LastLayer(rings) \cup ForwardImage(fsm, frontier))
  /\ frontier' = LastFrontier(rings')
  /\ UNCHANGED <<fsm, cache, pc, timed>>

(* One iteration of the while loop.                                        *)
ExpandStep ==
  /\ pc = "expand"
  /\ frontier # {} /\ steps # 0
  /\ steps' = IF steps > 0 THEN steps - 1 ELSE steps
  /\ LET reached == LastLayer(rings) \cup ForwardImage(fsm, frontier)
     IN  /\ rings' = Append(rings, reached)
         /\ frontier' = reached \ LastLayer(rings)
  /\ UNCHANGED <<fsm, cache, pc, timed>>

(* The end of the loop.  At the fixpoint the last ring repeats the one     *)
(* before it and is dropped.  BddFsmCache_set_reachables then replaces the *)
(* cache.                                                                  *)
WithoutLast(l) == IF l = <<>> THEN l ELSE SubSeq(l, 1, Len(l) - 1)

Finish(complete, published) ==
  /\ pc = "expand"
  /\ frontier = {} \/ steps = 0 \/ timed
  /\ computed' = complete /\ layers' = published
  /\ pc' = "idle"
  /\ rings' = <<>> /\ frontier' = {} /\ steps' = 0 /\ timed' = FALSE
  /\ UNCHANGED fsm

(* Mutants: the last ring is kept; the fixpoint is not noticed when k runs *)
(* out with it; a time-out is taken for the fixpoint; an empty initial     *)
(* region is never complete.                                               *)
FinishExpand_KeepsLast == Finish(frontier = {}, rings)

FinishExpand_LateFixpoint ==
  Finish(frontier = {} /\ steps # 0,
         IF frontier = {} /\ steps # 0 THEN WithoutLast(rings) ELSE rings)

FinishExpand_TimeoutCompletes ==
  Finish(steps # 0, IF frontier = {} THEN WithoutLast(rings) ELSE rings)

FinishExpand_EmptyIsPartial ==
  Finish(frontier = {} /\ rings # <<>>, IF frontier = {} THEN WithoutLast(rings) ELSE rings)

FinishExpand ==
  Finish(frontier = {}, IF frontier = {} THEN WithoutLast(rings) ELSE rings)

(* Mutant: the interrupt commits the rings and calls them complete.        *)
InterruptExpand_Commits ==
  /\ pc = "expand"
  /\ layers' = rings /\ computed' = TRUE
  /\ pc' = "idle"
  /\ rings' = <<>> /\ frontier' = {} /\ steps' = 0 /\ timed' = FALSE
  /\ UNCHANGED fsm

(* SIGINT while the loop runs.                                             *)
InterruptExpand ==
  /\ pc = "expand"
  /\ pc' = "idle"
  /\ rings' = <<>> /\ frontier' = {} /\ steps' = 0 /\ timed' = FALSE
  /\ UNCHANGED <<fsm, cache>>

(* Command compute_reachable [-k n] [-t s].                                *)
ComputeReachable ==
  \E k \in Bounds \cup {NoLimit}, limited \in BOOLEAN : StartExpand(k, limited)

(* "already ready": the command only reports.                              *)
ReportReady == pc = "idle" /\ ~NeedsExpansion /\ UNCHANGED reachVars

ReachNext ==
  ComputeReachable \/ ReportReady \/ ExpandStep \/ FinishExpand \/ InterruptExpand

ReachSpec == ReachInit /\ [][ReachNext]_reachVars

-----------------------------------------------------------------------------
(* What the functions that read the complete cache return.                 *)

(* BddFsm_get_reachable_states, once the analysis is complete.             *)
ReachableStates == LastLayer(layers)

(* BddFsm_get_reachable_states_at_distance; asserts d < diameter.          *)
AtDistance(d) ==
  IF d < 0 THEN {}
  ELSE IF d = 0 THEN layers[1]
  ELSE layers[d + 1] \ layers[d]

Distances == 0 .. Len(layers) - 1

(* BddFsm_get_distance_of_states: the first distance whose exact-distance  *)
(* set contains the (constrained) argument, or -1.                         *)
DistanceOf(S) ==
  LET at == {d \in Distances : S \cap fsm.invarStates \subseteq AtDistance(d)}
  IN  IF at = {} THEN -1 ELSE CHOOSE d \in at : \A e \in at : d <= e

(* Mutant: inclusion is tested instead of intersection.                    *)
MinDistanceOf_Included(S) == DistanceOf(S)

(* BddFsm_get_minimum_distance_of_states.                                  *)
MinDistanceOf(S) ==
  LET at == {d \in Distances : S \cap fsm.invarStates \cap AtDistance(d) # {}}
  IN  IF at = {} THEN -1 ELSE CHOOSE d \in at : \A e \in at : d <= e

-----------------------------------------------------------------------------
(* The types of the variables; pc has more values where other commands     *)
(* extend this module.                                                     *)
DataTypeOK ==
  /\ fsm \in FsmType
  /\ layers \in Seq(SUBSET States)
  /\ computed \in BOOLEAN
  /\ rings \in Seq(SUBSET States)
  /\ frontier \in SUBSET States
  /\ steps \in Nat \cup {NoLimit}
  /\ timed \in BOOLEAN

ReachTypeOK == DataTypeOK /\ pc \in {"idle", "expand"}

(* Both the cached layers and the rings under construction are the balls   *)
(* around the initial region, although each step images only the frontier  *)
(* and a call may resume what an earlier, cut-off call left.               *)
LayersAreOnion == IsOnion(fsm, layers) /\ IsOnion(fsm, rings)

(* A cache that is not marked complete still has a frontier to resume      *)
(* from: dropping the last ring at the fixpoint never drops a layer the    *)
(* cache already had.                                                      *)
PartialHasFrontier == ~computed /\ layers # <<>> => LastFrontier(layers) # {}

(* When the analysis is marked complete, the last layer is exactly the set *)
(* of the reachable states (BddFsm_get_reachable_states).                  *)
CompleteIsExact == computed => ReachableStates = Reachable(fsm)

(* However the analysis was cut into calls, the complete cache of this     *)
(* command has no repeated layer: the diameter it reports is the number of *)
(* distinct distances.                                                     *)
NoRepeatedLayer ==
  \A i \in 1 .. Len(layers) - 1 : layers[i] # layers[i + 1]

(* Distances defined by paths alone: the executions of n steps, and the    *)
(* length of the shortest one that ends in s.                              *)
Paths(n) ==
  {p \in [0 .. n -> States] :
     /\ p[0] \in InitRegion(fsm)
     /\ \A k \in 0 .. n - 1 : p[k + 1] \in ForwardImage(fsm, {p[k]})}

ShortestPaths ==
  LET Longest == Cardinality(States) - 1
      Ends == [n \in 0 .. Longest |-> {p[n] : p \in Paths(n)}]
  IN  [s \in UNION {Ends[n] : n \in 0 .. Longest} |->
         CHOOSE n \in 0 .. Longest :
           s \in Ends[n] /\ \A m \in 0 .. n - 1 : s \notin Ends[m]]

(* The minimum distance the complete cache yields is the length of the     *)
(* shortest path to the nearest state of the set, and -1 for a set with no *)
(* reachable state (BddFsm_get_minimum_distance_of_states).                *)
MinDistanceIsShortestPath ==
  computed /\ pc = "idle" =>
    LET dist == ShortestPaths
    IN  \A S \in SUBSET States :
          LET ds == {dist[s] : s \in S \cap DOMAIN dist}
          IN  MinDistanceOf(S) =
                IF ds = {} THEN -1 ELSE CHOOSE d \in ds : \A e \in ds : d <= e

(* The set at distance d is the states whose shortest path has d steps     *)
(* (BddFsm_get_reachable_states_at_distance), and the distances below the  *)
(* diameter are all there are.                                             *)
AtDistanceIsShortestPath ==
  computed /\ pc = "idle" =>
    LET dist == ShortestPaths
    IN  /\ \A d \in Distances : AtDistance(d) = {s \in DOMAIN dist : dist[s] = d}
        /\ \A s \in DOMAIN dist : dist[s] \in Distances

(* What the readers of a complete cache return agrees with the paths.      *)
DistancesAreShortestPaths == MinDistanceIsShortestPath /\ AtDistanceIsShortestPath

(* Cached layers are never lost or changed: calls, cut-offs and interrupts *)
(* only extend the list, and a complete analysis stays as it is.           *)
CacheGrows ==
  /\ Len(layers) <= Len(layers')
  /\ \A n \in 1 .. Len(layers) : layers'[n] = layers[n]
  /\ computed /\ layers # <<>> => UNCHANGED cache

CacheOnlyGrows == [][CacheGrows]_reachVars

(* A call without limits leaves the loop at the fixpoint only: it          *)
(* completes the analysis, whatever an earlier call with limits left.      *)
UnlimitedCallCompletes ==
  [][FinishExpand /\ steps = NoLimit /\ ~timed => computed']_reachVars

-----------------------------------------------------------------------------
(* The analysis, with its loops, cut-offs and interrupts, keeps what the   *)
(* cache promises its readers.                                             *)
Onion == INSTANCE OnionCache WITH
  States <- States, Inputs <- Inputs, Machines <- Machines,
  fsm <- fsm, layers <- layers, computed <- computed
OnionSpec == Onion!Spec
=============================================================================
