----------------------------- MODULE MCMcInvar -----------------------------
(* Instances of McInvar for TLC.                                           *)
EXTENDS McInvar

CONSTANTS a, b, c, d, e, f, i, j

(* Every graph over three states, with one input; c forbidden in some, and *)
(* some that have no initial state.                                        *)
Three == {a, b, c}
OneInput == {i}
GraphMachines ==
  [init : {{a}}, invarStates : {Three}, invarInputs : {{i}},
   trans : SUBSET (Three \X {i} \X Three)]
  \cup
  [init : {{a}, {}}, invarStates : {{a, b}}, invarInputs : {{i}},
   trans : {T \cup {<<a, i, c>>, <<c, i, b>>} : T \in SUBSET ({a, b} \X {i} \X {a, b})}]

ThreeInvariants == SUBSET Three

(* Four states, each with at most two successors towards d: long paths,    *)
(* branches of different lengths, and two inputs.                          *)
Six == {a, b, c, d, e, f}
TwoInputs == {i, j}
BranchMachines ==
  [init : {{a}, {a, b}}, invarStates : {{a, b, c, d}}, invarInputs : {{i}, {i, j}},
   trans : {{<<a, i, x>>, <<b, i, y>>, <<c, i, z>>, <<a, j, u>>, <<c, j, v>>} :
              x \in {b, c}, y \in {c, d}, z \in {a, d}, u \in {a, c, d}, v \in {b, d}}]

(* A chain of six states with shortcuts: caches of up to six layers, for   *)
(* the binary search.                                                      *)
ChainMachines ==
  [init : {{a}}, invarStates : {Six}, invarInputs : {{i}},
   trans : {{<<a, i, b>>, <<b, i, c>>, <<c, i, d>>, <<d, i, e>>, <<e, i, f>>} \cup more :
              more \in SUBSET {<<a, i, c>>, <<b, i, d>>, <<c, i, f>>, <<f, i, b>>}}]

LongMachines == BranchMachines \cup ChainMachines
LongInvariants ==
  {Six \ bad : bad \in {{}, {d}, {f}, {c, d}, {b, c}, {b, e, f}, {d, e}, Six \ {a}, Six}}
=============================================================================
