----------------------------- MODULE MCMcAGonly -----------------------------
(* Instances of McAGonly for TLC.                                          *)
EXTENDS McAGonly

CONSTANTS a, b, c, d, i, j

Four == {a, b, c, d}
TwoInputs == {i, j}

(* Two ways from a to d, with inputs that tell them apart.                 *)
DiamondMachines ==
  [init : {{a}}, invarStates : {Four, {a, b, d}}, invarInputs : {{i}, {i, j}},
   trans : {{<<a, x, b>>, <<a, y, c>>, <<b, u, d>>, <<c, v, w>>, <<d, i, z>>} :
              x \in {i, j}, y \in {i, j}, u \in {i, j}, v \in {i, j},
              w \in {c, d}, z \in {a, d}}]

AG(S) == [op |-> "AG", set |-> S]
State(S) == [op |-> "state", set |-> S]

(* Single AGs and the conjunctions that is_AG_only_formula accepts.        *)
AGSpecs ==
  {<<AG(Four)>>, <<AG(Four \ {d})>>, <<AG({a})>>, <<AG({b})>>,
   <<AG(Four), AG({a})>>, <<AG(Four), State({a})>>}

AGInvariants == {Four, Four \ {d}, {a}}
=============================================================================
