----------------------------- MODULE OnionCache -----------------------------
(***************************************************************************)
(* What the layer cache of a BddFsm promises to the commands that read it, *)
(* whatever command fills it: the layers are the balls around the initial  *)
(* region, a command only ever adds layers, and a cache that is marked     *)
(* complete has a last layer no transition leaves.  BddReach and McInvar   *)
(* implement this specification (core/fsm/bdd/BddFsm.h, the functions on   *)
(* reachable states).                                                      *)
(***************************************************************************)
EXTENDS Fsm

CONSTANT Machines

VARIABLES fsm, layers, computed

cacheVars == <<fsm, layers, computed>>

Init == fsm \in Machines /\ layers = <<>> /\ computed = FALSE

(* new holds old, in place, and perhaps more layers.                       *)
Extends(new, old) ==
  /\ Len(old) <= Len(new)
  /\ \A n \in 1 .. Len(old) : new[n] = old[n]

(* A complete cache has every state the initial region can reach.          *)
IsComplete(l) == InitRegion(fsm) \subseteq LastLayer(l) /\ Closed(fsm, LastLayer(l))

Publish ==
  /\ layers' \in Seq(SUBSET States)
  /\ IsOnion(fsm, layers') /\ Extends(layers', layers)
  /\ computed' \in BOOLEAN
  /\ computed' => IsComplete(layers')
  /\ computed => computed'
  /\ UNCHANGED fsm

Spec == Init /\ [][Publish]_cacheVars
=============================================================================
