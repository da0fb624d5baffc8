------------------------------ MODULE McAGonly ------------------------------
(***************************************************************************)
(* CTL checking restricted to AG (core/mc/mcAGonly.c, check_ctlspec with   *)
(* option ag_only_search), on the same layer cache as McInvar: the         *)
(* reachable states are computed if they are not, the verdict is one       *)
(* intersection, and the counterexample walks back through the sets of     *)
(* states at each exact distance.                                          *)
(*                                                                         *)
(* A specification is the list of its conjuncts, left to right, each an    *)
(* AG of a state formula, a negated AG, or a state formula by itself.      *)
(***************************************************************************)
EXTENDS McInvar

CONSTANT Specs   \* the specifications that may be checked

Conjuncts == [op : {"AG", "notAG", "state"}, set : SUBSET States]
ASSUME SpecsAssumption == Specs \subseteq Seq(Conjuncts) \ {<<>>}

VARIABLES
  agPc,       \* "off", "check" a conjunct, "walk" back from a bad state
  agSpec,     \* the specification of the current or the last check
  agLeft,     \* the conjuncts that are still to be checked
  agVerdict,  \* what check_AG_only returned, as a Prop status
  agPath,     \* the states of the counterexample, extended at the front
  agInputs,   \* its inputs
  agLevel     \* i: the distance the walk goes to next

agVars == <<agPc, agSpec, agLeft, agVerdict, agPath, agInputs, agLevel>>
allVars == <<vars, agVars>>

AGInit ==
  /\ Init
  /\ agPc = "off" /\ agSpec = <<>> /\ agLeft = <<>> /\ agVerdict = "none"
  /\ agPath = <<>> /\ agInputs = <<>> /\ agLevel = 0

(* is_AG_only_formula: at most one AG, under whatever Boolean connective.  *)
IsAGOnly(spec) == Cardinality({n \in DOMAIN spec : spec[n].op # "state"}) <= 1

(* Mc_CheckAGOnlySpec; any other formula only gets a warning.              *)
CheckAGOnlySpec(spec) ==
  /\ agPc = "off" /\ pc = "idle"
  /\ IsAGOnly(spec)
  /\ agPc' = "check" /\ agSpec' = spec /\ agLeft' = spec
  /\ agVerdict' = "none"
  /\ agPath' = <<>> /\ agInputs' = <<>> /\ agLevel' = 0
  /\ UNCHANGED vars

conjunct == agLeft[1]

(* BddFsm_get_reachable_states: without a complete cache, an expansion     *)
(* without limits runs first.                                              *)
ComputeForAG ==
  /\ agPc = "check" /\ conjunct.op = "AG" /\ ~computed
  /\ StartExpand(NoLimit, FALSE)
  /\ UNCHANGED <<checkVars, agVars>>

RunForAG ==
  /\ agPc = "check"
  /\ (ExpandStep \/ FinishExpand) /\ UNCHANGED <<checkVars, agVars>>

(* The reachable bad states of an AG conjunct.                             *)
AGBad == (ReachableStates \cap fsm.invarStates) \ conjunct.set

(* Mutant: a cache with layers is taken for a complete one.                *)
ConjunctHolds_Partial ==
  /\ agPc = "check" /\ pc = "idle" /\ conjunct.op = "AG" /\ layers # <<>>
  /\ ReachableStates \cap fsm.invarStates \subseteq conjunct.set
  /\ agLeft' = Tail(agLeft)
  /\ IF agLeft' = <<>> THEN agVerdict' = "true" /\ agPc' = "off"
     ELSE UNCHANGED <<agVerdict, agPc>>
  /\ UNCHANGED <<vars, agSpec, agPath, agInputs, agLevel>>

(* The conjunct holds: on with the next one.                               *)
ConjunctHolds ==
  /\ agPc = "check" /\ pc = "idle" /\ conjunct.op = "AG" /\ computed
  /\ AGBad = {}
  /\ agLeft' = Tail(agLeft)
  /\ IF agLeft' = <<>> THEN agVerdict' = "true" /\ agPc' = "off"
     ELSE UNCHANGED <<agVerdict, agPc>>
  /\ UNCHANGED <<vars, agSpec, agPath, agInputs, agLevel>>

(* Any other conjunct is skipped, with the result false.                   *)
SkipConjunct ==
  /\ agPc = "check" /\ conjunct.op # "AG"
  /\ agVerdict' = "false" /\ agPc' = "off"
  /\ UNCHANGED <<vars, agSpec, agLeft, agPath, agInputs, agLevel>>

(* Mutant: the walk starts one level too far.                              *)
ConjunctFails_SameLevel ==
  /\ agPc = "check" /\ pc = "idle" /\ conjunct.op = "AG" /\ computed
  /\ AGBad # {} /\ agVerdict' = "false"
  /\ \E s \in AGBad \cap AtDistance(MinDistanceOf(AGBad)) : agPath' = <<s>>
  /\ agLevel' = MinDistanceOf(AGBad) /\ agPc' = "walk"
  /\ UNCHANGED <<vars, agSpec, agLeft, agInputs>>

(* The conjunct fails: the counterexample ends in a bad state at the least *)
(* distance.                                                               *)
ConjunctFails ==
  /\ agPc = "check" /\ pc = "idle" /\ conjunct.op = "AG" /\ computed
  /\ AGBad # {}
  /\ agVerdict' = "false"
  /\ \/ /\ TRUE \in CounterExamples
        /\ LET distance == MinDistanceOf(AGBad)
           IN  /\ \E s \in AGBad \cap AtDistance(distance) : agPath' = <<s>>
               /\ agLevel' = distance - 1
        /\ agPc' = "walk"
     \/ /\ FALSE \in CounterExamples
        /\ agPc' = "off" /\ UNCHANGED <<agPath, agLevel>>
  /\ UNCHANGED <<vars, agSpec, agLeft, agInputs>>

(* One iteration of make_AG_counterexample.  The input is picked from the  *)
(* ones that lead from any state of the reachable pre-image to the current *)
(* state, and then the previous state from the same pre-image.             *)
NearerStates == BackwardImage(fsm, {agPath[1]}) \cap AtDistance(agLevel)

WalkBack ==
  /\ agPc = "walk" /\ agLevel >= 0
  /\ \E i \in StatesToStatesInputs(fsm, NearerStates, {agPath[1]}) :
       agInputs' = <<i>> \o agInputs
  /\ \E s \in NearerStates : agPath' = <<s>> \o agPath
  /\ agLevel' = agLevel - 1
  /\ UNCHANGED <<vars, agPc, agSpec, agLeft, agVerdict>>

(* Mutant: the walk ends before distance 0.                                *)
EndWalk_Early ==
  /\ agPc = "walk" /\ agLevel <= 0
  /\ agPc' = "off"
  /\ UNCHANGED <<vars, agSpec, agLeft, agVerdict, agPath, agInputs, agLevel>>

EndWalk ==
  /\ agPc = "walk" /\ agLevel < 0
  /\ agPc' = "off"
  /\ UNCHANGED <<vars, agSpec, agLeft, agVerdict, agPath, agInputs, agLevel>>

(* SIGINT: the property keeps its status.                                  *)
InterruptAG ==
  /\ agPc # "off"
  /\ agPc' = "off" /\ agVerdict' = "none" /\ agPath' = <<>> /\ agInputs' = <<>>
  /\ InterruptExpand \/ (pc = "idle" /\ UNCHANGED reachVars)
  /\ UNCHANGED <<checkVars, agSpec, agLeft, agLevel>>

AGStep ==
  \/ ComputeForAG \/ RunForAG \/ ConjunctHolds \/ SkipConjunct \/ ConjunctFails
  \/ WalkBack \/ EndWalk

AGNext ==
  \/ agPc = "off" /\ Next /\ UNCHANGED agVars
  \/ \E spec \in Specs : CheckAGOnlySpec(spec)
  \/ AGStep
  \/ InterruptAG

AGSpec == AGInit /\ [][AGNext]_allVars

-----------------------------------------------------------------------------
(* What a conjunct means.                                                  *)
Holds(con) ==
  LET ag == Reachable(fsm) \cap fsm.invarStates \subseteq con.set
  IN  CASE con.op = "AG" -> ag
        [] con.op = "notAG" -> ~ag
        [] con.op = "state" -> InitRegion(fsm) \subseteq con.set

(* For a specification that is one AG, the verdict is right whatever the   *)
(* cache held when the check began.                                        *)
AGVerdictIsRight ==
  agPc = "off" /\ agVerdict # "none" /\ Len(agSpec) = 1 /\ agSpec[1].op = "AG" =>
    (agVerdict = "true") = Holds(agSpec[1])

(* The assertions of make_AG_counterexample: there always is a state to    *)
(* step back to, and an input to step with, although the cache may hold a  *)
(* repeated last layer.                                                    *)
WalkNeverStuck ==
  agPc = "walk" /\ agLevel >= 0 =>
    /\ NearerStates # {}
    /\ StatesToStatesInputs(fsm, NearerStates, {agPath[1]}) # {}

(* The states of the counterexample are a path of the machine, the inputs  *)
(* left aside, and a shortest one.                                         *)
HasAGTrace == agPc = "off" /\ agPath # <<>>

AGStatesAreShortestPath ==
  HasAGTrace =>
    /\ agPath[1] \in InitRegion(fsm)
    /\ \A n \in 1 .. Len(agPath) - 1 : agPath[n + 1] \in ForwardImage(fsm, {agPath[n]})
    /\ agPath[Len(agPath)] \in AtDistance(Len(agPath) - 1)
    /\ MinDistanceOf(AGBad) = Len(agPath) - 1

(* The counterexample is printed as an execution sequence: each input      *)
(* allows the step it labels.                                              *)
AGTraceIsExecution == HasAGTrace => IsExecution(agPath, agInputs)
=============================================================================
