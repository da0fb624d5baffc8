----------------------------- MODULE FairStates -----------------------------
(***************************************************************************)
(* Fair states of a BddFsm with justice constraints: the Emerson-Lei       *)
(* fixpoint, backward and forward (core/fsm/bdd/BddFsm.c), its cache, and  *)
(* the commands that read it: language emptiness (core/mc/mcLE.c), the     *)
(* operators EG and AF of CTL (core/mc/mcMc.c), print_fair_transitions.    *)
(*                                                                         *)
(* The fixpoint has three nested loops.  The outer one shrinks res until   *)
(* it repeats, the middle one goes through the justice constraints, the    *)
(* inner one computes E[subspace U res /\ justice] from a frontier.        *)
(* mcMc.c has a copy of these loops for EG; the model has them once.       *)
(*                                                                         *)
(* Option use_reachable_states restricts every image to the reachable      *)
(* states.  It may change between commands while the cache stays.          *)
(* BddFsm_get_reachable_states is Reachable here: BddReach shows that it   *)
(* completes the layer cache, and that a complete cache is exact.          *)
(***************************************************************************)
EXTENDS Lassos

CONSTANTS Machines,   \* the machines the model may describe
          Justices,   \* lists of justice constraints
          CtlSpecs    \* the specifications EG and AF of a set of states

ASSUME FairAssumption ==
  /\ Machines \subseteq FsmType
  /\ Justices \subseteq Seq(SUBSET Pairs)
  /\ CtlSpecs \subseteq [op : {"EG", "AF"}, set : SUBSET States]

Directions == {"bwd", "fwd"}
CtlOperators == {"EG", "AF"}
Commands ==
  {"print_fair_transitions", "emptiness", "emptiness_all"} \cup CtlOperators

VARIABLES
  fsm, justice,   \* the machine
  useReach,       \* option use_reachable_states
  cachedPairs,    \* fair_states_inputs and revfair_states_inputs: no BDD or one
  cachedStates,   \* fair_states and revfair_states
  pc,             \* "idle", "run", or the loop "gfp", "justice", "until"
  cmd, arg,       \* the command that runs and its formula
  dir,            \* the direction of its fixpoint
  saved,          \* use_reachable_states before el_fwd sets it
  eg,             \* the result of eg, once there is one
  answer,         \* what the last command printed
  goal,           \* "fair" or "eg": for whom the fixpoint runs
  subspace, res, old,    \* bdd_fsm_compute_EL_SI_subset
  just, partial,         \* bdd_fsm_compute_EL_SI_subset_aux
  resY, newY             \* bdd_fsm_EUorES_SI

caches == <<cachedPairs, cachedStates>>
command == <<cmd, arg, dir, saved>>
elLocals == <<goal, subspace, res, old, just, partial, resY, newY>>
fairVars == <<fsm, justice, useReach, caches, pc, command, eg, answer, elLocals>>

NoElLocals ==
  /\ goal = "none" /\ subspace = {} /\ res = {} /\ old = {}
  /\ just = 0 /\ partial = {} /\ resY = {} /\ newY = {}

NoCommand ==
  /\ cmd = "none" /\ arg = {} /\ dir = "bwd" /\ saved = FALSE /\ eg = {}

FairInit ==
  /\ fsm \in Machines /\ justice \in Justices /\ useReach \in BOOLEAN
  /\ cachedPairs = [d \in Directions |-> {}]
  /\ cachedStates = [d \in Directions |-> {}]
  /\ pc = "idle" /\ answer = "none"
  /\ NoCommand /\ NoElLocals

(***************************************************************************)
(* Images of a machine f.  r stands for option use_reachable_states.       *)
(***************************************************************************)
Within(f, r, SI) == IF r THEN SI \cap (Reachable(f) \X Inputs) ELSE SI

StatesOf(SI) == {si[1] : si \in SI}

EXorEY(f, d, r, SI) ==
  Within(f, r, IF d = "bwd" THEN WeakBackwardImage(f, StatesOf(SI))
                            ELSE ForwardImageStatesInputs(f, SI))

(* BddFsm_get_states_inputs_constraints: pairs with a successor, or with a *)
(* predecessor.  Backward it is the bare transition relation, with neither *)
(* kind of invariants.                                                     *)
StatesInputsConstraints(f, d, r) ==
  IF d = "bwd"
    THEN {si \in Within(f, r, Pairs) :
            \E t \in States : <<si[1], si[2], t>> \in f.trans}
    ELSE ForwardImageStatesInputs(f, Within(f, r, Pairs))

(* The subspace of get_fair_or_revfair_states_inputs.                      *)
Space(f, d, r) == Within(f, r, StatesInputsConstraints(f, d, r))

(***************************************************************************)
(* Commands.                                                               *)
(***************************************************************************)

(* set and unset use_reachable_states.                                     *)
SetUseReachableStates ==
  /\ pc = "idle"
  /\ useReach' = ~useReach
  /\ UNCHANGED <<fsm, justice, caches, pc, command, eg, answer, elLocals>>

(* Mutant: the forward algorithm leaves the option alone.                  *)
Start_KeepsOption(c, d, g) ==
  /\ pc = "idle"
  /\ d = "fwd" => c = "emptiness"
  /\ pc' = "run" /\ cmd' = c /\ dir' = d /\ arg' = g
  /\ saved' = useReach
  /\ eg' = {} /\ answer' = "none"
  /\ UNCHANGED <<fsm, justice, useReach, caches, elLocals>>

(* The forward algorithm sets use_reachable_states while it runs and       *)
(* cannot say whether all initial states are fair.                         *)
Start(c, d, g) ==
  /\ pc = "idle"
  /\ d = "fwd" => c = "emptiness"
  /\ pc' = "run" /\ cmd' = c /\ dir' = d /\ arg' = g
  /\ saved' = useReach /\ useReach' = (useReach \/ d = "fwd")
  /\ eg' = {} /\ answer' = "none"
  /\ UNCHANGED <<fsm, justice, caches, elLocals>>

LanguageEmptiness(d) ==
  \E c \in {"emptiness", "emptiness_all"} : Start(c, d, {})

PrintFairTransitions == Start("print_fair_transitions", "bwd", {})

CheckCtlSpec == \E spec \in CtlSpecs : Start(spec.op, "bwd", spec.set)

IsCtl == cmd \in CtlOperators
EgArgument == IF cmd = "AF" THEN States \ arg ELSE arg
NeedsEg == IsCtl /\ eg = {}
EgOfTrue == EgArgument = States          \* lazy evaluation of EG true

(* The command is about to call BddFsm_get_fair_states or get_revfair_...  *)
WantsStates ==
  /\ cmd # "print_fair_transitions"
  /\ NeedsEg => EgOfTrue

StartFixpoint(for, space) ==
  /\ pc' = "gfp" /\ goal' = for /\ subspace' = space
  /\ res' = Pairs /\ old' = {}
  /\ UNCHANGED <<fsm, justice, useReach, caches, command, eg, answer,
                 just, partial, resY, newY>>

(* get_fair_or_revfair_states_inputs with nothing in the cache.            *)
StartFair ==
  /\ pc = "run" /\ cachedPairs[dir] = {}
  /\ StartFixpoint("fair", Space(fsm, dir, useReach))

(* Mutants: the inputs are not quantified away; the states with a step are *)
(* taken for the fair ones.                                                *)
ProjectStates_KeepsInputs ==
  /\ pc = "run" /\ WantsStates
  /\ cachedPairs[dir] # {} /\ cachedStates[dir] = {}
  /\ cachedStates' = [cachedStates EXCEPT ![dir] = cachedPairs[dir]]
  /\ UNCHANGED <<fsm, justice, useReach, cachedPairs, pc, command, eg, answer,
                 elLocals>>

ProjectStates_Constraints ==
  /\ pc = "run" /\ WantsStates
  /\ cachedPairs[dir] # {} /\ cachedStates[dir] = {}
  /\ cachedStates' = [cachedStates EXCEPT ![dir] = {StatesOf(Space(fsm, dir, useReach))}]
  /\ UNCHANGED <<fsm, justice, useReach, cachedPairs, pc, command, eg, answer,
                 elLocals>>

(* BddFsm_get_fair_states, BddFsm_get_revfair_states.                      *)
ProjectStates ==
  /\ pc = "run" /\ WantsStates
  /\ cachedPairs[dir] # {} /\ cachedStates[dir] = {}
  /\ cachedStates' = [cachedStates EXCEPT ![dir] = {StatesOf(UNION cachedPairs[dir])}]
  /\ UNCHANGED <<fsm, justice, useReach, cachedPairs, pc, command, eg, answer,
                 elLocals>>

(* eg: EG true is the set of the fair states; for any other argument the   *)
(* fixpoint runs again within the fair pairs that satisfy it.              *)
EvalEgTrue ==
  /\ pc = "run" /\ NeedsEg /\ EgOfTrue /\ cachedStates[dir] # {}
  /\ eg' = cachedStates[dir]
  /\ UNCHANGED <<fsm, justice, useReach, caches, pc, command, answer, elLocals>>

EgSpace ==
  Within(fsm, useReach,
         StatesInputsConstraints(fsm, dir, useReach)
           \cap (UNION cachedPairs[dir]) \cap (EgArgument \X Inputs))

StartEg ==
  /\ pc = "run" /\ NeedsEg /\ ~EgOfTrue /\ cachedPairs[dir] # {}
  /\ StartFixpoint("eg", EgSpace)

(***************************************************************************)
(* The fixpoint.                                                           *)
(***************************************************************************)
GfpStep ==
  /\ pc = "gfp" /\ res # old
  /\ pc' = "justice" /\ old' = res /\ just' = 1 /\ partial' = res
  /\ UNCHANGED <<fsm, justice, useReach, caches, command, eg, answer,
                 goal, subspace, res, resY, newY>>

NextJustice ==
  /\ pc = "justice" /\ just <= Len(justice)
  /\ pc' = "until"
  /\ resY' = Within(fsm, useReach, res \cap justice[just]) /\ newY' = resY'
  /\ UNCHANGED <<fsm, justice, useReach, caches, command, eg, answer,
                 goal, subspace, res, old, just, partial>>

(* Mutant: the frontier keeps what has been added before.                  *)
UntilStep_WholeImage ==
  /\ pc = "until" /\ newY # {}
  /\ resY' = resY \cup (EXorEY(fsm, dir, useReach, newY) \cap subspace)
  /\ newY' = EXorEY(fsm, dir, useReach, newY) \cap subspace
  /\ UNCHANGED <<fsm, justice, useReach, caches, pc, command, eg, answer,
                 goal, subspace, res, old, just, partial>>

UntilStep ==
  /\ pc = "until" /\ newY # {}
  /\ resY' = resY \cup (EXorEY(fsm, dir, useReach, newY) \cap subspace)
  /\ newY' = resY' \ resY
  /\ UNCHANGED <<fsm, justice, useReach, caches, pc, command, eg, answer,
                 goal, subspace, res, old, just, partial>>

(* Mutant: the result of the last constraint replaces the others'.         *)
UntilEnd_Replaces ==
  /\ pc = "until" /\ newY = {}
  /\ pc' = "justice" /\ partial' = res \cap resY /\ just' = just + 1
  /\ resY' = {}
  /\ UNCHANGED <<fsm, justice, useReach, caches, command, eg, answer,
                 goal, subspace, res, old, newY>>

UntilEnd ==
  /\ pc = "until" /\ newY = {}
  /\ pc' = "justice" /\ partial' = partial \cap resY /\ just' = just + 1
  /\ resY' = {}
  /\ UNCHANGED <<fsm, justice, useReach, caches, command, eg, answer,
                 goal, subspace, res, old, newY>>

JusticeEnd ==
  /\ pc = "justice" /\ just > Len(justice)
  /\ pc' = "gfp"
  /\ res' = res \cap EXorEY(fsm, dir, useReach, partial) \cap subspace
  /\ just' = 0 /\ partial' = {}
  /\ UNCHANGED <<fsm, justice, useReach, caches, command, eg, answer,
                 goal, subspace, old, resY, newY>>

GfpEnd ==
  /\ pc = "gfp" /\ res = old
  /\ pc' = "run"
  /\ IF goal = "fair"
       THEN cachedPairs' = [cachedPairs EXCEPT ![dir] = {res}] /\ UNCHANGED eg
       ELSE eg' = {StatesOf(res)} /\ UNCHANGED cachedPairs
  /\ goal' = "none" /\ subspace' = {} /\ res' = {} /\ old' = {}
  /\ UNCHANGED <<fsm, justice, useReach, cachedStates, command, answer,
                 just, partial, resY, newY>>

(***************************************************************************)
(* Ends of a command.                                                      *)
(***************************************************************************)
EndCommand ==
  /\ pc' = "idle"
  /\ cmd' = "none" /\ arg' = {} /\ dir' = "bwd" /\ saved' = FALSE /\ eg' = {}

(* mc_check_language_emptiness_el_bwd, ..._fwd.                            *)
IsEmptyLanguage(c, d, fair) ==
  CASE d = "fwd"            -> fair = {}
    [] c = "emptiness_all"  -> ~(InitRegion(fsm) \subseteq fair \cap fsm.invarStates)
    [] OTHER                -> InitRegion(fsm) \cap fair = {}

(* Mc_CheckCTLSpec: the initial states that are fair and do not satisfy    *)
(* the formula.                                                            *)
Violations(sat, fair) == (InitRegion(fsm) \cap fair) \ sat

Report(fair) ==
  answer' =
    IF IsCtl
      THEN LET sat == IF cmd = "AF" THEN States \ UNION eg ELSE UNION eg
           IN  IF Violations(sat, fair) = {} THEN "true" ELSE "false"
      ELSE IF IsEmptyLanguage(cmd, dir, fair) THEN "empty" ELSE "not empty"

FinishCheck ==
  /\ pc = "run" /\ cmd # "print_fair_transitions"
  /\ ~NeedsEg /\ cachedStates[dir] # {}
  /\ Report(UNION cachedStates[dir])
  /\ useReach' = IF dir = "fwd" THEN saved ELSE useReach
  /\ EndCommand
  /\ UNCHANGED <<fsm, justice, caches, elLocals>>

FinishPrint ==
  /\ pc = "run" /\ cmd = "print_fair_transitions" /\ cachedPairs[dir] # {}
  /\ EndCommand
  /\ UNCHANGED <<fsm, justice, useReach, caches, answer, elLocals>>

(* SIGINT: the locals are lost, the caches stay, and so does the option    *)
(* that the forward algorithm has set.                                     *)
Interrupt ==
  /\ pc # "idle"
  /\ EndCommand
  /\ goal' = "none" /\ subspace' = {} /\ res' = {} /\ old' = {}
  /\ just' = 0 /\ partial' = {} /\ resY' = {} /\ newY' = {}
  /\ UNCHANGED <<fsm, justice, useReach, caches, answer>>

Command ==
  \/ SetUseReachableStates
  \/ \E d \in Directions : LanguageEmptiness(d)
  \/ PrintFairTransitions
  \/ CheckCtlSpec

(* A step of the command that runs.                                        *)
RunStep ==
  \/ StartFair \/ ProjectStates \/ EvalEgTrue \/ StartEg
  \/ GfpStep \/ NextJustice \/ UntilStep \/ UntilEnd \/ JusticeEnd \/ GfpEnd
  \/ FinishCheck \/ FinishPrint

FairNext == Command \/ RunStep \/ Interrupt

FairSpec == FairInit /\ [][FairNext]_fairVars

(* A command that runs is never left alone.                                *)
FairLiveSpec == FairSpec /\ WF_fairVars(RunStep)

(***************************************************************************)
(* What the fixpoint computes.                                             *)
(***************************************************************************)

(* E[F U G] as the least set that contains G and, with a set, the pairs of *)
(* F one image away from it.                                               *)
Until(f, d, r, F, G) ==
  {si \in Pairs : \A C \in SUBSET Pairs :
     Within(f, r, G) \subseteq C /\ EXorEY(f, d, r, C) \cap F \subseteq C => si \in C}

(* The pairs of X from which every justice constraint holds again within X *)
(* after a way through space.                                              *)
Recurring(f, js, d, r, space, X) ==
  {si \in X : \A n \in DOMAIN js : si \in Until(f, d, r, space, X \cap js[n])}

(* X is closed under "one step, then every constraint again".              *)
SelfFair(f, js, d, r, space, X) ==
  X \subseteq space \cap EXorEY(f, d, r, Recurring(f, js, d, r, space, X))

(* The fair pairs of a machine, whatever the option.                       *)
FairPairs(f, js) ==
  UNION {X \in SUBSET Pairs : SelfFair(f, js, "bwd", FALSE, Space(f, "bwd", FALSE), X)}

(***************************************************************************)
(* Properties.                                                             *)
(***************************************************************************)

FairTypeOK ==
  /\ fsm \in FsmType /\ justice \in Seq(SUBSET Pairs) /\ useReach \in BOOLEAN
  /\ cachedPairs \in [Directions -> SUBSET SUBSET Pairs]
  /\ cachedStates \in [Directions -> SUBSET SUBSET States]
  /\ pc \in {"idle", "run", "gfp", "justice", "until"}
  /\ cmd \in Commands \cup {"none"} /\ arg \in SUBSET States
  /\ dir \in Directions /\ saved \in BOOLEAN /\ eg \in SUBSET SUBSET States
  /\ answer \in {"none", "empty", "not empty", "true", "false"}
  /\ goal \in {"none", "fair", "eg"} /\ just \in Nat
  /\ subspace \subseteq Pairs /\ res \subseteq Pairs /\ old \subseteq Pairs
  /\ partial \subseteq Pairs /\ resY \subseteq Pairs /\ newY \subseteq Pairs

(* What BddFsm_get_fair_states_inputs finds in the cache is right although *)
(* the option may have changed since it was computed: no pair that is not  *)
(* fair, and every fair pair whose state is reachable.                     *)
CachedPairsAreFair ==
  pc = "idle" => \A X \in cachedPairs["bwd"] :
                   /\ X \subseteq FairPairs(fsm, justice)
                   /\ FairPairs(fsm, justice) \cap (Reachable(fsm) \X Inputs)
                        \subseteq X

(* The table of the states with a fair path in EG's argument.              *)
FairTable ==
  [f \in Machines |-> [js \in Justices |->
     [S \in SUBSET States |-> FairWithin(f, js, S)]]]

RightAnswer ==
  LET fair == FairTable[fsm][justice]
      initFair == InitRegion(fsm) \cap fair[States]
      sat == IF cmd = "AF" THEN States \ fair[States \ arg] ELSE fair[arg]
  IN  CASE cmd = "emptiness"     -> IF initFair = {} THEN "empty" ELSE "not empty"
        [] cmd = "emptiness_all" -> IF initFair = InitRegion(fsm)
                                      THEN "not empty" ELSE "empty"
        [] cmd \in CtlOperators  -> IF initFair \subseteq sat THEN "true" ELSE "false"

(* Every answer is that of the definition by lassos, whichever algorithm   *)
(* runs, whatever an earlier command left in the cache under whatever      *)
(* option (mc_check_language_emptiness_el_bwd, _el_fwd, Mc_CheckCTLSpec).  *)
AnswersAreRight == [][FinishCheck => answer' = RightAnswer]_fairVars

(* The reachable fair cycles and all that lies behind them.                *)
ReverseTable ==
  [f \in Machines |-> [js \in Justices |->
     LET E == Edges(f, Reachable(f) \X Inputs)
         loops == FairLoops(js, E)
     IN  loops \cup UNION {After(E, p) : p \in loops}]]

(* The reverse fair pairs are the reachable ones to which a reachable fair *)
(* cycle leads, and no others (ltl.c:1125-1128: "the set of states that    *)
(* can be reached from a rechable cycle through all Buechi fairness        *)
(* constraints").                                                          *)
ReverseFairIsBehindFairCycle ==
  pc = "idle" => \A X \in cachedPairs["fwd"] : X = ReverseTable[fsm][justice]

(* A command that runs comes to its end, or is interrupted: the nested     *)
(* loops terminate (BddFsm.c, bdd_fsm_compute_EL_SI_subset).               *)
CommandEnds == pc # "idle" ~> pc = "idle"
=============================================================================
