----------------------------- MODULE MCBddReach -----------------------------
(* Instances of BddReach for TLC: every machine over three states and one  *)
(* input, and every machine over two states and two inputs.                *)
EXTENDS BddReach

CONSTANTS a, b, c, i, j

MCStates == {a, b, c}
MCInputs == {i, j}

OneInputMachines ==
  [init : SUBSET MCStates, invarStates : SUBSET MCStates, invarInputs : {{i}},
   trans : SUBSET (MCStates \X {i} \X MCStates)]

TwoInputMachines ==
  [init : {{a}}, invarStates : {{a, b}}, invarInputs : SUBSET MCInputs,
   trans : SUBSET ({a, b} \X MCInputs \X {a, b})]

MCMachines == OneInputMachines \cup TwoInputMachines
=============================================================================
