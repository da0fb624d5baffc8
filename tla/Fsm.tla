-------------------------------- MODULE Fsm --------------------------------
(***************************************************************************)
(* The BDD finite state machine (core/fsm/bdd/BddFsm.c) as data: a record  *)
(* of the four components the images are computed from, and the image      *)
(* operators.  A BDD over state variables is the set of the states it      *)
(* holds in, a BDD over state and input variables a set of pairs, the      *)
(* transition relation a set of triples <<state, input, next state>>.      *)
(* Reference counting, variable cubes and the masks of unused boolean      *)
(* codes are below this level.                                             *)
(***************************************************************************)
EXTENDS Integers, Sequences

CONSTANTS States,   \* the assignments to the state and frozen variables
          Inputs    \* the assignments to the input variables

Pairs == States \X Inputs

(* BddFsm: init, invar_states, invar_inputs and trans.                     *)
FsmType == [init        : SUBSET States,
            invarStates : SUBSET States,
            invarInputs : SUBSET Inputs,
            trans       : SUBSET (States \X Inputs \X States)]

(* The initial region of every traversal: init /\ invar_states.            *)
InitRegion(f) == f.init \cap f.invarStates

(* BddFsm_get_forward_image: the constrained image of BDD "true".          *)
ForwardImage(f, S) ==
  {t \in f.invarStates :
     \E s \in S \cap f.invarStates, i \in f.invarInputs : <<s, i, t>> \in f.trans}

(* BddFsm_get_forward_image_states_inputs: the next input is only required *)
(* to satisfy the input constraint.                                        *)
ForwardImageStatesInputs(f, SI) ==
  {t \in f.invarStates :
     \E s \in f.invarStates, i \in f.invarInputs :
        <<s, i>> \in SI /\ <<s, i, t>> \in f.trans} \X f.invarInputs

(* BddFsm_get_backward_image.                                              *)
BackwardImage(f, S) ==
  {s \in f.invarStates :
     \E t \in S \cap f.invarStates, i \in f.invarInputs : <<s, i, t>> \in f.trans}

(* BddFsm_get_weak_backward_image: state/input pairs with a successor in S. *)
WeakBackwardImage(f, S) ==
  {si \in f.invarStates \X f.invarInputs :
     \E t \in S \cap f.invarStates : <<si[1], si[2], t>> \in f.trans}

(* BddFsm_states_to_states_get_inputs: the inputs that label a transition  *)
(* from some state of Cur to some state of Next.                           *)
StatesToStatesInputs(f, Cur, Nxt) ==
  {i \in f.invarInputs : \E s \in Cur : <<s, i>> \in WeakBackwardImage(f, Nxt)}

(***************************************************************************)
(* Onion rings.  Every traversal builds a list of layers: the first is the *)
(* initial region, each next one adds the forward image.  The code images  *)
(* only the frontier, the states the last step added.                      *)
(***************************************************************************)
LastLayer(l) == IF l = <<>> THEN {} ELSE l[Len(l)]

(* The states added by the last step; with one layer, all of them.         *)
LastFrontier(l) ==
  IF Len(l) > 1 THEN l[Len(l)] \ l[Len(l) - 1] ELSE LastLayer(l)

(* What the code intends a list of layers to be: layer i+1 is the set of   *)
(* the states at distance at most i from the initial region.               *)
IsOnion(f, l) ==
  /\ l # <<>> => l[1] = InitRegion(f)
  /\ \A i \in 1 .. Len(l) - 1 : l[i + 1] = l[i] \cup ForwardImage(f, l[i])

(* S cannot be left by a transition.                                       *)
Closed(f, S) == ForwardImage(f, S) \subseteq S

(* The reference definition of reachability: the states of every closed    *)
(* superset of the initial region.                                         *)
Reachable(f) ==
  {s \in States : \A C \in SUBSET States :
                     InitRegion(f) \subseteq C /\ Closed(f, C) => s \in C}
=============================================================================
