------------------------------ MODULE McInvar ------------------------------
(***************************************************************************)
(* Invariant checking with BDDs (core/mc/mcInvar.c), on a machine whose    *)
(* layer cache other commands extend too (BddReach).                       *)
(*                                                                         *)
(* check_invariant_forward_backward_with_break starts from the cached      *)
(* layers.  It grows rings of reachable states forwards and rings of bad   *)
(* states backwards, in an order a heuristic chooses, until the two meet   *)
(* (false), one side has nothing to add (true) or, with strategy bdd-bmc,  *)
(* it hands the gap between the two frontiers to BMC.  A counterexample is *)
(* rebuilt from the rings, step by step; rings that are longer than the    *)
(* cache replace it.                                                       *)
(*                                                                         *)
(* The invariant has no next and no input expressions, so that             *)
(* Prop_Rewriter returns it unchanged and its fsm is the cached one.  A    *)
(* check reads option counter_examples once, where it matters.             *)
(***************************************************************************)
EXTENDS BddReach, FiniteSets

CONSTANTS Invariants,   \* the sets of states the checked invariants denote
          Strategies,   \* values of option -s, with the heuristic of -e
          MaxK,         \* bmc_length, the bound of the BMC fallback
          CounterExamples   \* values of option counter_examples

AllStrategies == {"forward", "backward", "zigzag", "smallest", "bdd-bmc"}

ASSUME InvariantsAssumption == Invariants \subseteq SUBSET States
ASSUME StrategiesAssumption == Strategies \subseteq AllStrategies
ASSUME MaxKAssumption == MaxK \in Nat
ASSUME CounterExamplesAssumption == CounterExamples \subseteq BOOLEAN

VARIABLES
  inv,          \* the invariant of the current or the last check
  verdict,      \* Prop status the check has set, "none" before it
  strategy,     \* strategy and heuristic of the check
  turn,         \* turn % 2
  badRings,     \* backward_reachable_list, oldest first
  badFrontier,  \* bad_frontier
  target,       \* target_states
  lower, upper, \* the binary search for the first buggy layer
  path,         \* the states of the counterexample under construction
  inputs,       \* its inputs; inputs[n] labels the step from path[n]
  bList, fList, \* rings the reconstruction still has to go through
  failed        \* an internal error or an assertion was raised

checkVars == <<inv, verdict, strategy, turn, badRings, badFrontier, target,
               lower, upper, path, inputs, bList, fList, failed>>
pathVars == <<path, inputs, bList, fList>>
searchVars == <<strategy, turn, badRings, badFrontier, target>>
boundVars == <<lower, upper>>
vars == <<reachVars, checkVars>>

NoSearch == /\ strategy = "none" /\ turn = 0
            /\ badRings = <<>> /\ badFrontier = {} /\ target = {}
            /\ lower = 0 /\ upper = 0 /\ bList = <<>> /\ fList = <<>>

Init ==
  /\ ReachInit
  /\ inv = {} /\ verdict = "none"
  /\ NoSearch
  /\ path = <<>> /\ inputs = <<>>
  /\ failed = FALSE

(* The bad states of an invariant p: its complement within the state       *)
(* constraints.                                                            *)
Bad(p) == fsm.invarStates \ p

diameter == Len(layers)
forwardStep == Len(rings) - 1
backwardStep == Len(badRings) - 1

(* The locals of the check are released on every way out.  The             *)
(* counterexample stays, it is the trace the check returns.                *)
LeaveCheck ==
  /\ pc' = "idle"
  /\ rings' = <<>> /\ frontier' = {}
  /\ strategy' = "none" /\ turn' = 0
  /\ badRings' = <<>> /\ badFrontier' = {} /\ target' = {}
  /\ lower' = 0 /\ upper' = 0 /\ bList' = <<>> /\ fList' = <<>>

(* A check that adds layers to the ones cached caches its rings; unlike    *)
(* expand it keeps the ring that repeats the last one at the fixpoint.     *)
CacheRings(complete) ==
  IF forwardStep > diameter
  THEN layers' = rings /\ computed' = complete
  ELSE UNCHANGED cache

-----------------------------------------------------------------------------
(* Command check_invar: load or start the rings, look for bad states in    *)
(* what is already known to be reachable.                                  *)
StartCheck(p, s) ==
  /\ pc = "idle"
  /\ inv' = p /\ verdict' = "none"
  /\ rings' = IF diameter > 0 THEN layers ELSE <<InitRegion(fsm)>>
  /\ frontier' = LastFrontier(rings')
  /\ badRings' = <<Bad(p)>> /\ badFrontier' = Bad(p)
  /\ target' = Bad(p) \cap LastLayer(rings')
  /\ strategy' = s /\ turn' = 0
  /\ path' = <<>> /\ inputs' = <<>>
  /\ pc' \in IF target' = {} THEN {"search"}
             ELSE IF InitRegion(fsm) \cap Bad(p) # {} THEN {"initBug"}
             ELSE {IF traced THEN "bisect" ELSE "report" : traced \in CounterExamples}
  /\ lower' = 0 /\ upper' = IF pc' = "bisect" THEN diameter - 1 ELSE 0
  /\ UNCHANGED <<fsm, cache, steps, timed, bList, fList, failed>>

(* Mutants: the trace starts from the whole set instead of one state; the  *)
(* initial region replaces whatever is cached.                             *)
BugInInitialState_NoPick ==
  /\ pc = "initBug" /\ verdict' = "false"
  /\ path' = <<InitRegion(fsm) \cap Bad(inv)>>
  /\ LeaveCheck
  /\ UNCHANGED <<fsm, cache, steps, timed, inv, inputs, failed>>

BugInInitialState_Recaches ==
  /\ pc = "initBug" /\ verdict' = "false"
  /\ layers' = <<InitRegion(fsm)>> /\ computed' = FALSE
  /\ LeaveCheck
  /\ UNCHANGED <<fsm, steps, timed, inv, path, inputs, failed>>

(* An initial state is bad: the counterexample is that state, and without  *)
(* a cache the initial region becomes the first cached layer.              *)
BugInInitialState ==
  /\ pc = "initBug"
  /\ verdict' = "false"
  /\ \/ TRUE \in CounterExamples /\ \E s \in InitRegion(fsm) \cap Bad(inv) : path' = <<s>>
     \/ FALSE \in CounterExamples /\ UNCHANGED path
  /\ IF diameter <= 0 THEN layers' = <<InitRegion(fsm)>> /\ computed' = FALSE
     ELSE UNCHANGED cache
  /\ LeaveCheck
  /\ UNCHANGED <<fsm, steps, timed, inv, inputs, failed>>

(* Mutants: the adjacency case is not told apart; a safe layer is excluded *)
(* from the bounds; any buggy layer ends the search.                       *)
Probe_NoAdjacency == (upper + lower) \div 2

Narrow_PastSafe(pos) ==
  IF layers[pos + 1] \cap Bad(inv) # {} THEN upper' = pos /\ lower' = lower
  ELSE lower' = pos + 1 /\ upper' = upper

FirstBuggy_Any(pos) == layers[pos + 1] \cap Bad(inv) # {}

(* The binary search for the first buggy cached layer: where it looks      *)
(* next, and how an answer narrows the bounds.                             *)
Probe == IF upper - lower >= 2 THEN (upper + lower) \div 2 ELSE upper

Buggy(n) == layers[n + 1] \cap Bad(inv) # {}

Narrow(pos) ==
  IF Buggy(pos) THEN upper' = pos /\ lower' = lower ELSE lower' = pos /\ upper' = upper

FirstBuggy(pos) == Buggy(pos) /\ ~Buggy(pos - 1)

(* One iteration; the first buggy layer becomes the target of the path.    *)
Bisect ==
  /\ pc = "bisect"
  /\ target' = layers[Probe + 1] \cap Bad(inv)
  /\ failed' = (failed \/ upper - lower < 1)
  /\ Narrow(Probe)
  /\ IF FirstBuggy(Probe)
     THEN /\ pc' = "backPath"
          /\ \E s \in target' : path' = <<s>>
          /\ fList' = SubSeq(rings, 1, Probe) /\ bList' = <<>>
     ELSE UNCHANGED <<pc, path, fList, bList>>
  /\ UNCHANGED <<fsm, cache, rings, frontier, steps, timed, inv, verdict, strategy,
                 turn, badRings, badFrontier, inputs>>

(* No bad state is known to be reachable and the cache is complete.        *)
CompleteAndSafe ==
  /\ pc = "search" /\ computed
  /\ verdict' = "true"
  /\ LeaveCheck
  /\ UNCHANGED <<fsm, cache, steps, timed, inv, path, inputs, failed>>

(* The while loop of the search.                                           *)
Searching ==
  /\ pc = "search" /\ ~computed
  /\ badFrontier # {} /\ frontier # {} /\ target = {}

(* The directions the heuristic allows; "smallest" compares BDD sizes,     *)
(* which this model does not have.                                         *)
MayStepForward == strategy \in {"forward", "smallest"} \/
                  (strategy \in {"zigzag", "bdd-bmc"} /\ turn = 0)
MayStepBackward == strategy \in {"backward", "smallest"} \/
                   (strategy \in {"zigzag", "bdd-bmc"} /\ turn = 1)

(* Mutants: the new ring is the image alone; the bad states are compared   *)
(* with the frontier before it moves.                                      *)
ForwardStep_To(reached, meet) ==
  /\ Searching /\ MayStepForward
  /\ rings' = Append(rings, reached)
  /\ frontier' = reached \ LastLayer(rings)
  /\ target' = meet
  /\ turn' = 1 - turn
  /\ UNCHANGED <<fsm, cache, pc, steps, timed, inv, verdict, strategy, badRings,
                 badFrontier, boundVars, pathVars, failed>>

ForwardStep_ImageOnly ==
  ForwardStep_To(ForwardImage(fsm, frontier), LastLayer(badRings) \cap frontier')

ForwardStep_OldFrontier ==
  ForwardStep_To(LastLayer(rings) \cup ForwardImage(fsm, frontier),
                 LastLayer(badRings) \cap frontier)

ForwardStep ==
  /\ Searching /\ MayStepForward
  /\ LET reached == LastLayer(rings) \cup ForwardImage(fsm, frontier)
     IN  /\ rings' = Append(rings, reached)
         /\ frontier' = reached \ LastLayer(rings)
         /\ target' = LastLayer(badRings) \cap frontier'
  /\ turn' = 1 - turn
  /\ UNCHANGED <<fsm, cache, pc, steps, timed, inv, verdict, strategy, badRings,
                 badFrontier, boundVars, pathVars, failed>>

BackwardStep ==
  /\ Searching /\ MayStepBackward
  /\ LET bad == LastLayer(badRings) \cup BackwardImage(fsm, badFrontier)
     IN  /\ badRings' = Append(badRings, bad)
         /\ badFrontier' = bad \ LastLayer(badRings)
         /\ target' = bad \cap LastLayer(rings)
  /\ turn' = 1 - turn
  /\ UNCHANGED <<reachVars, inv, verdict, strategy, boundVars, pathVars, failed>>

(* Mutants: a forward fixpoint is cached as partial; a search that ran dry *)
(* backwards is cached as complete.                                        *)
ConcludeTrue_Caching(complete) ==
  /\ pc = "search" /\ ~computed
  /\ target = {} /\ (badFrontier = {} \/ frontier = {})
  /\ verdict' = "true"
  /\ CacheRings(complete)
  /\ LeaveCheck
  /\ UNCHANGED <<fsm, steps, timed, inv, path, inputs, failed>>

ConcludeTrue_Partial == ConcludeTrue_Caching(FALSE)
ConcludeTrue_Complete == ConcludeTrue_Caching(TRUE)

(* One side ran dry: the invariant is true.                                *)
ConcludeTrue ==
  /\ pc = "search" /\ ~computed
  /\ target = {} /\ (badFrontier = {} \/ frontier = {})
  /\ verdict' = "true"
  /\ CacheRings(frontier = {})
  /\ LeaveCheck
  /\ UNCHANGED <<fsm, steps, timed, inv, path, inputs, failed>>

(* Mutant: the ring the path already ends in is kept.                      *)
ConcludeFalse_WholeList ==
  /\ pc = "search" /\ ~computed /\ target # {} /\ TRUE \in CounterExamples
  /\ verdict' = "false" /\ pc' = "forthPath"
  /\ \E s \in target : path' = <<s>>
  /\ bList' = badRings /\ fList' = SubSeq(rings, 1, forwardStep)
  /\ UNCHANGED <<fsm, cache, rings, frontier, steps, timed, inv, searchVars,
                 boundVars, inputs, failed>>

(* The two sides met: the invariant is false, compute_path_fb picks one of *)
(* the common states.                                                      *)
ConcludeFalse ==
  /\ pc = "search" /\ ~computed /\ target # {} /\ TRUE \in CounterExamples
  /\ verdict' = "false"
  /\ pc' = "forthPath"
  /\ \E s \in target : path' = <<s>>
  /\ bList' = SubSeq(badRings, 1, backwardStep)
  /\ fList' = SubSeq(rings, 1, forwardStep)
  /\ UNCHANGED <<fsm, cache, rings, frontier, steps, timed, inv, searchVars,
                 boundVars, inputs, failed>>

(* Without counterexamples a met target, or a bug in the cached layers, is *)
(* only reported.                                                          *)
ReportFalse ==
  /\ \/ pc = "report"
     \/ FALSE \in CounterExamples /\ pc = "search" /\ ~computed /\ target # {}
  /\ verdict' = "false"
  /\ CacheRings(frontier = {})
  /\ LeaveCheck
  /\ UNCHANGED <<fsm, steps, timed, inv, path, inputs, failed>>

-----------------------------------------------------------------------------
(* Mutant: the frontier itself is excluded from the BMC problem.           *)
Explored_WithFrontier == LastLayer(rings)

(* Strategy bdd-bmc: at a turn the stopping heuristic chooses, the gap     *)
(* between the frontiers becomes a BMC problem, on the machine that starts *)
(* in the frontier and avoids what both sides explored before it.          *)
Explored ==
  (IF forwardStep > 1 THEN rings[forwardStep] ELSE {}) \cup
  (IF backwardStep > 1 THEN badRings[backwardStep] ELSE {})

BmcMachine ==
  [fsm EXCEPT !.init = frontier, !.invarStates = fsm.invarStates \ Explored]

(* The executions of k steps of the BMC machine that end in its first bad  *)
(* state.                                                                  *)
BmcPaths(k) ==
  {p \in [1 .. k + 1 -> BmcMachine.invarStates] :
     /\ p[1] \in InitRegion(BmcMachine)
     /\ \A n \in 1 .. k : /\ p[n] \notin badFrontier
                          /\ p[n + 1] \in ForwardImage(BmcMachine, {p[n]})
     /\ p[k + 1] \in badFrontier}

(* The inputs a solver may assign along p.                                 *)
Labels(p) ==
  {q \in [1 .. Len(p) - 1 -> Inputs] :
     \A n \in DOMAIN q : q[n] \in StatesToStatesInputs(fsm, {p[n]}, {p[n + 1]})}

SwitchToBmc == Searching /\ strategy = "bdd-bmc"

(* The induction step, classic or with unique states, proves the invariant *)
(* of the BMC machine only if it holds there.                              *)
BmcProves ==
  /\ SwitchToBmc
  /\ badFrontier \cap Reachable(BmcMachine) = {}
  /\ verdict' = "true"
  /\ CacheRings(FALSE)
  /\ LeaveCheck
  /\ UNCHANGED <<fsm, steps, timed, inv, path, inputs, failed>>

(* Mutant: the analysis is cached as complete.                             *)
BmcGivesUp_Complete ==
  /\ SwitchToBmc /\ verdict' = "unchecked"
  /\ CacheRings(TRUE)
  /\ LeaveCheck
  /\ UNCHANGED <<fsm, steps, timed, inv, path, inputs, failed>>

(* Classic induction fails, or every length up to MaxK is exhausted.       *)
BmcGivesUp ==
  /\ SwitchToBmc
  /\ verdict' = "unchecked"
  /\ CacheRings(FALSE)
  /\ LeaveCheck
  /\ UNCHANGED <<fsm, steps, timed, inv, path, inputs, failed>>

(* Een-Sorensson tries the lengths in order, so that the first path it     *)
(* finds is a shortest one; complete_bmc_trace_with_bdd extends it at both *)
(* ends through the rings.                                                 *)
BmcFinds(k) == BmcPaths(k) # {} /\ \A m \in 0 .. k - 1 : BmcPaths(m) = {}

BmcRefutes ==
  /\ SwitchToBmc /\ TRUE \in CounterExamples
  /\ \E k \in 0 .. MaxK :
       /\ BmcFinds(k)
       /\ \E p \in BmcPaths(k) : path' = p /\ inputs' \in Labels(p)
  /\ pc' = "forthPath"
  /\ bList' = SubSeq(badRings, 1, backwardStep)
  /\ fList' = SubSeq(rings, 1, forwardStep)
  /\ UNCHANGED <<fsm, cache, rings, frontier, steps, timed, inv, verdict, searchVars,
                 boundVars, failed>>

BmcReportsFalse ==
  /\ SwitchToBmc /\ FALSE \in CounterExamples
  /\ \E k \in 0 .. MaxK : BmcFinds(k)
  /\ verdict' = "false"
  /\ CacheRings(FALSE)
  /\ LeaveCheck
  /\ UNCHANGED <<fsm, steps, timed, inv, path, inputs, failed>>

-----------------------------------------------------------------------------
(* compute_and_complete_path: from the last state towards the bad states,  *)
(* then from the first state back to the initial ones.  "The intersection  *)
(* MUST exist": otherwise an internal error leaves the command.            *)
InternalError ==
  /\ failed' = TRUE
  /\ LeaveCheck
  /\ UNCHANGED <<fsm, cache, steps, timed, inv, verdict, path, inputs>>

StepForth ==
  /\ pc = "forthPath" /\ bList # <<>>
  /\ LET s == path[Len(path)]
         next == ForwardImage(fsm, {s}) \cap LastLayer(bList)
     IN  IF next = {} THEN InternalError
         ELSE /\ \E t \in next :
                   /\ path' = Append(path, t)
                   /\ \E i \in StatesToStatesInputs(fsm, {s}, {t}) :
                        inputs' = Append(inputs, i)
              /\ bList' = WithoutLast(bList)
              /\ UNCHANGED <<reachVars, inv, verdict, searchVars, boundVars,
                             fList, failed>>

TurnBack ==
  /\ pc = "forthPath" /\ bList = <<>>
  /\ pc' = "backPath"
  /\ UNCHANGED <<fsm, cache, expandLocals, checkVars>>

(* Mutant: the input leads to the last state from any state of the ring.   *)
StepBack_AnyInput ==
  /\ pc = "backPath" /\ fList # <<>>
  /\ LET prev == BackwardImage(fsm, {path[1]}) \cap LastLayer(fList)
     IN  /\ \E r \in prev : path' = <<r>> \o path
         /\ \E i \in StatesToStatesInputs(fsm, prev, {path[1]}) : inputs' = <<i>> \o inputs
  /\ fList' = WithoutLast(fList)
  /\ UNCHANGED <<reachVars, inv, verdict, searchVars, boundVars, bList, failed>>

StepBack ==
  /\ pc = "backPath" /\ fList # <<>>
  /\ LET s == path[1]
         prev == BackwardImage(fsm, {s}) \cap LastLayer(fList)
     IN  IF prev = {} THEN InternalError
         ELSE /\ \E r \in prev :
                   /\ path' = <<r>> \o path
                   /\ \E i \in StatesToStatesInputs(fsm, {r}, {s}) :
                        inputs' = <<i>> \o inputs
              /\ fList' = WithoutLast(fList)
              /\ UNCHANGED <<reachVars, inv, verdict, searchVars, boundVars,
                             bList, failed>>

(* Mutant: the walk stops one ring before the initial region.              *)
ReturnTrace_Early ==
  /\ pc = "backPath" /\ Len(fList) <= 1 /\ verdict' = "false"
  /\ CacheRings(frontier = {})
  /\ LeaveCheck
  /\ UNCHANGED <<fsm, steps, timed, inv, path, inputs, failed>>

(* The trace is complete.  Only a search that met its target had set the   *)
(* status before it built the trace.                                       *)
ReturnTrace ==
  /\ pc = "backPath" /\ fList = <<>>
  /\ verdict' = "false"
  /\ CacheRings(frontier = {})
  /\ LeaveCheck
  /\ UNCHANGED <<fsm, steps, timed, inv, path, inputs, failed>>

(* SIGINT during a check: nothing is cached; a status that is already set  *)
(* stays, without a trace.                                                 *)
CheckPcs == {"initBug", "bisect", "report", "search", "forthPath", "backPath"}

InterruptCheck ==
  /\ pc \in CheckPcs
  /\ LeaveCheck
  /\ path' = <<>> /\ inputs' = <<>>
  /\ UNCHANGED <<fsm, cache, steps, timed, inv, verdict, failed>>

-----------------------------------------------------------------------------
CheckInvar == \E p \in Invariants, s \in Strategies : StartCheck(p, s)

CheckStep ==
  \/ BugInInitialState \/ Bisect \/ CompleteAndSafe
  \/ ForwardStep \/ BackwardStep \/ ConcludeTrue \/ ConcludeFalse \/ ReportFalse
  \/ BmcProves \/ BmcGivesUp \/ BmcRefutes \/ BmcReportsFalse
  \/ StepForth \/ TurnBack \/ StepBack \/ ReturnTrace

Reach == ReachNext /\ UNCHANGED checkVars

Next == CheckInvar \/ CheckStep \/ InterruptCheck \/ Reach

Spec == Init /\ [][Next]_vars

(* A command goes on until it ends or is interrupted: the code runs one    *)
(* thread, and nothing in a step waits.                                    *)
FairSpec ==
  /\ Spec
  /\ WF_vars(CheckStep)
  /\ WF_vars((ExpandStep \/ FinishExpand) /\ UNCHANGED checkVars)

-----------------------------------------------------------------------------
(* The types of the variables.                                             *)
TypeOK ==
  /\ DataTypeOK
  /\ pc \in {"idle", "expand"} \cup CheckPcs
  /\ inv \in SUBSET States
  /\ verdict \in {"none", "true", "false", "unchecked"}
  /\ strategy \in AllStrategies \cup {"none"}
  /\ turn \in {0, 1}
  /\ badRings \in Seq(SUBSET States)
  /\ badFrontier \in SUBSET States
  /\ target \in SUBSET States
  /\ lower \in Int /\ upper \in Int
  /\ path \in Seq(States)
  /\ inputs \in Seq(Inputs)
  /\ bList \in Seq(SUBSET States)
  /\ fList \in Seq(SUBSET States)
  /\ failed \in BOOLEAN

(* A verdict is right: true only if no reachable state is bad, false only  *)
(* if one is, whatever the strategy, whatever part of the rings came from  *)
(* the cache, and whether BDDs or BMC answered.                            *)
VerdictIsRight ==
  /\ verdict = "true" => Reachable(fsm) \cap Bad(inv) = {}
  /\ verdict = "false" => Reachable(fsm) \cap Bad(inv) # {}

(* The search intersects the bad states with the new frontier only, or the *)
(* reachable states with the new bad states, and misses nothing: target is *)
(* all that the two sides have in common.                                  *)
TargetIsWholeMeet ==
  pc = "search" => target = LastLayer(rings) \cap LastLayer(badRings)

(* The invariant stated in the comment of the binary search.               *)
BisectBrackets ==
  pc = "bisect" =>
    /\ 0 <= lower /\ lower < upper /\ upper < diameter
    /\ layers[upper + 1] \cap Bad(inv) # {}
    /\ layers[lower + 1] \cap Bad(inv) = {}

(* The reconstruction never meets an empty intersection, and the binary    *)
(* search never finds its bounds in contradiction.                         *)
NoInternalError == ~failed

(* A counterexample is an execution from an initial to a bad state, each   *)
(* step labelled by an input that allows it.                               *)
IsExecution(p, q) ==
  /\ p[1] \in InitRegion(fsm)
  /\ Len(q) = Len(p) - 1
  /\ \A n \in DOMAIN q :
       /\ q[n] \in fsm.invarInputs
       /\ {p[n], p[n + 1]} \subseteq fsm.invarStates
       /\ <<p[n], q[n], p[n + 1]>> \in fsm.trans

HasTrace == pc = "idle" /\ verdict = "false" /\ path # <<>>

TraceIsExecution ==
  HasTrace => IsExecution(path, inputs) /\ path[Len(path)] \in Bad(inv)

(* check_invar.tex: the counterexample is a shortest path to a bad state.  *)
(* No bad state is closer to the initial region than its last state: none  *)
(* is in the ball one step smaller.                                        *)
Balls(f) ==
  LET ball[n \in Nat] ==
        IF n = 0 THEN InitRegion(f) ELSE ball[n - 1] \cup ForwardImage(f, ball[n - 1])
  IN  ball

TraceIsShortest ==
  HasTrace /\ Len(path) > 1 => Balls(fsm)[Len(path) - 2] \cap Bad(inv) = {}

(* Every command ends: the search, the binary search over the cached       *)
(* layers, the reconstruction, compute_reachable.                          *)
CheckTerminates == (pc # "idle") ~> (pc = "idle")
=============================================================================
