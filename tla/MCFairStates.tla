---------------------------- MODULE MCFairStates ----------------------------
(* Instances of FairStates for TLC.                                        *)
EXTENDS FairStates

CONSTANTS a, b, c, i, j

Three == {a, b, c}
TwoInputs == {i, j}

(* Three states and one allowed input: c has a cycle of its own and may be *)
(* out of reach, or excluded by a state constraint.                        *)
ThreeStateMachines ==
  [init : {{a}}, invarStates : {Three}, invarInputs : {{i}},
   trans : {T \cup {<<c, i, b>>, <<c, i, c>>} :
              T \in SUBSET ({a, b} \X {i} \X Three)}]
  \cup
  [init : {{a}}, invarStates : {{a, b}}, invarInputs : {{i}},
   trans : {T \cup {<<a, i, c>>, <<c, i, c>>} : T \in SUBSET ({a, b} \X {i} \X {a, b})}]

(* Two states and two inputs, of which one may be forbidden.               *)
TwoStateMachines ==
  [init : {{a}}, invarStates : {{a, b}}, invarInputs : {{i}, TwoInputs},
   trans : {T \cup {<<b, i, b>>} :
              T \in SUBSET (({a, b} \X TwoInputs \X {a, b}) \ {<<a, i, b>>, <<b, j, b>>})}]

AllMachines == ThreeStateMachines \cup TwoStateMachines

(* No justice; two constraints that no single state satisfies; two that a  *)
(* state satisfies with one input and not with the other.                  *)
AllJustices ==
  {<<>>, <<{<<a, i>>}, {<<b, i>>, <<c, i>>}>>, <<{<<a, i>>, <<b, j>>}, {<<a, j>>}>>}

AllSpecs ==
  {[op |-> "AF", set |-> {b}], [op |-> "EG", set |-> Three]}
=============================================================================
