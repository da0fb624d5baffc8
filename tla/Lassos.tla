------------------------------- MODULE Lassos -------------------------------
(* The reference definition of fairness, by paths: a path that visits      *)
(* every justice constraint for ever is a way into a loop that visits them *)
(* all.  The algorithms of the code are compared with it.                  *)
EXTENDS Fsm, FiniteSets

(* A step of an execution, from a state and its input to the next ones.    *)
Edges(f, within) ==
  {e \in within \X within :
     /\ {e[1][1], e[2][1]} \subseteq f.invarStates
     /\ {e[1][2], e[2][2]} \subseteq f.invarInputs
     /\ <<e[1][1], e[1][2], e[2][1]>> \in f.trans}

(* The pairs one edge away from those of P.                                *)
Direct(E, P) == {e[2] : e \in {e \in E : e[1] \in P}}

(* The pairs that can be reached from p by at least one edge.              *)
After(E, p) ==
  LET Grow[n \in 0 .. Cardinality(Pairs)] ==
        IF n = 0 THEN Direct(E, {p})
                 ELSE LET before == Grow[n - 1] IN before \cup Direct(E, before)
  IN  Grow[Cardinality(Pairs)]

(* The pairs on a cycle that visits every constraint.                      *)
FairLoops(js, E) ==
  LET after == [p \in Pairs |-> After(E, p)]
  IN  {p \in Pairs :
         /\ p \in after[p]
         /\ \A n \in DOMAIN js : \E q \in js[n] : q \in after[p] /\ p \in after[q]}

(* The states with a fair path within a set of states.                     *)
FairWithin(f, js, S) ==
  LET E == Edges(f, S \X Inputs)
      loops == FairLoops(js, E)
  IN  {p[1] : p \in {p \in Pairs : p \in loops \/ After(E, p) \cap loops # {}}}

(* The walks of n steps through allowed states.                            *)
Walks(f, n) ==
  {w \in [0 .. n -> f.invarStates] :
     \A k \in 0 .. n - 1 : \E i \in f.invarInputs : <<w[k], i, w[k + 1]>> \in f.trans}
=============================================================================
