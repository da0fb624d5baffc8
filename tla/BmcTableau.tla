----------------------------- MODULE BmcTableau -----------------------------
(***************************************************************************)
(* The tableaux of bounded model checking (core/bmc/bmcTableau*.c): what   *)
(* a formula in negation normal form asks of the first k + 1 states of a   *)
(* path, without a loop or with a loop from state k back to state l.  A    *)
(* boolean expression over the variables of times 0 .. k is the set of the *)
(* words it holds of.  Values are kept in a memo table that all checks of  *)
(* a session share; it is a function from <<formula, time, k, l>>.         *)
(*                                                                         *)
(* A formula is a tuple of its operator and arguments; <<"atom", S>> holds *)
(* in the states of S.  "V" is RELEASES, "T" is TRIGGERED.                 *)
(***************************************************************************)
EXTENDS Fsm, FiniteSetsExt, TLC

CONSTANT NoLoop    \* BMC_NO_LOOP

Words(k) == [0 .. k -> States]

Args(f) == {f[n] : n \in 2 .. Len(f)}
LastArg(f) == f[Len(f)]
PastOps == {"Y", "Z", "O", "H", "S", "T"}
TimeOps == PastOps \cup {"X", "F", "G", "U", "V"}
Binary == {"AND", "OR", "U", "V", "S", "T"}

(* Wff2Nnf.                                                                *)
Dual == [AND |-> "OR", OR |-> "AND", X |-> "X", F |-> "G", G |-> "F", U |-> "V",
         V |-> "U", Y |-> "Z", Z |-> "Y", O |-> "H", H |-> "O", S |-> "T", T |-> "S"]

RECURSIVE Nnf(_, _)
Nnf(f, positive) ==
  LET op == IF positive THEN f[1] ELSE Dual[f[1]]
  IN  CASE f[1] = "atom" -> <<"atom", IF positive THEN f[2] ELSE States \ f[2]>>
        [] f[1] = "NOT" -> Nnf(f[2], ~positive)
        [] f[1] = "IMPLIES" -> <<IF positive THEN "OR" ELSE "AND",
                                 Nnf(f[2], ~positive), Nnf(f[3], positive)>>
        [] f[1] \in Binary -> <<op, Nnf(f[2], positive), Nnf(f[3], positive)>>
        [] OTHER -> <<op, Nnf(f[2], positive)>>

(* Wff_get_depth.                                                          *)
RECURSIVE Depth(_)
Depth(f) ==
  IF f[1] = "atom" THEN 0
  ELSE Max({Depth(g) : g \in Args(f)}) + (IF f[1] \in TimeOps THEN 1 ELSE 0)

RECURSIVE isPureFuture(_)
isPureFuture(f) ==
  \/ f[1] = "atom"
  \/ f[1] \notin PastOps /\ \A g \in Args(f) : isPureFuture(g)

(* Mutant: no past operator reaches back.                                  *)
tau_Flat(f) == 0

(* The nesting of past operators.                                          *)
RECURSIVE tau(_)
tau(f) ==
  IF f[1] = "atom" THEN 0
  ELSE Max({tau(g) : g \in Args(f)}) + (IF f[1] \in PastOps THEN 1 ELSE 0)

-----------------------------------------------------------------------------
(* The value of an argument at a time: the PLTL tableau answers false      *)
(* outside the path, and for every G without a loop, before it looks in    *)
(* the memo table.                                                         *)
rho(t, k, l) == IF t < k THEN t ELSE l + ((t - l) % (k - l))

Outside(pltl, f, t, k, l) ==
  pltl /\ (t < 0 \/ (l = NoLoop /\ (f[1] = "G" \/ t > k)))

At(memo, pltl, f, t, k, l) ==
  IF Outside(pltl, f, t, k, l) THEN {}
  ELSE IF f[1] = "atom"
    THEN {w \in Words(k) : w[IF l = NoLoop THEN t ELSE rho(t, k, l)] \in f[2]}
    ELSE memo[f, t, k, l]

(* The LTL tableau (bmcTableauLTLformula.c).                               *)
SuccTime(t, k, l) ==
  IF l = NoLoop THEN IF t < k THEN t + 1 ELSE NoLoop
                ELSE IF t < k - 1 THEN t + 1 ELSE l

(* The times an operator unrolls to, in order.                             *)
Round(t, k, l) ==
  IF l = NoLoop THEN [n \in 1 .. k - t + 1 |-> t + n - 1]
  ELSE [n \in 1 .. k - Min({t, l}) |-> IF t + n - 1 < k THEN t + n - 1 ELSE l + (t + n - 1 - k)]

(* The arguments a tableau is built from, with their times.                *)
LtlNeeds(f, t, k, l) ==
  LET round == Round(t, k, l)
      Over(g, last) == {<<g, round[n]>> : n \in 1 .. last}
  IN  CASE f[1] = "X" -> {<<f[2], u>> : u \in {SuccTime(t, k, l)} \ {NoLoop}}
        [] f[1] = "F" -> Over(f[2], Len(round))
        [] f[1] = "G" -> IF l = NoLoop THEN {} ELSE Over(f[2], Len(round))
        [] f[1] = "U" -> Over(f[3], Len(round)) \cup Over(f[2], Len(round) - 1)
        [] f[1] = "V" -> Over(f[3], Len(round)) \cup Over(f[2], Len(round))
        [] OTHER -> {<<g, t>> : g \in Args(f)}

(* Releases without a loop needs the state that releases.                  *)
LtlValue(memo, f, t, k, l) ==
  LET round == Round(t, k, l)
      Has(w, g, u) == w \in At(memo, FALSE, g, u, k, l)
      Ns == 1 .. Len(round)
  IN  {w \in Words(k) :
        CASE f[1] = "AND" -> Has(w, f[2], t) /\ Has(w, f[3], t)
          [] f[1] = "OR"  -> Has(w, f[2], t) \/ Has(w, f[3], t)
          [] f[1] = "X"   -> \E u \in {SuccTime(t, k, l)} \ {NoLoop} : Has(w, f[2], u)
          [] f[1] = "F"   -> \E n \in Ns : Has(w, f[2], round[n])
          [] f[1] = "G"   -> l # NoLoop /\ \A n \in Ns : Has(w, f[2], round[n])
          [] f[1] = "U"   -> \E n \in Ns : /\ Has(w, f[3], round[n])
                                           /\ \A m \in 1 .. n - 1 : Has(w, f[2], round[m])
          [] f[1] = "V"   ->
               \/ /\ l # NoLoop
                  /\ \A n \in Ns : Has(w, f[3], round[n])
               \/ \E n \in Ns : /\ Has(w, f[2], round[n])
                                /\ \A m \in 1 .. n : Has(w, f[3], round[m])}

-----------------------------------------------------------------------------
(* The PLTL tableau (bmcTableauPLTLformula.c).                             *)
INF == 2147483646   \* INT_MAX - 1

(* projectOntoMainDomain: the times of the main domain of f that stand for *)
(* the times from a to b, b left out when the interval is open.  After     *)
(* l_f + p a formula whose past operators nest tau deep repeats itself     *)
(* with period p.                                                          *)
projectOntoMainDomain(f, a, b, k, l, open, backward) ==
  LET out == IF open THEN 1 ELSE 0
      p == k - l
      l_f == l + p * tau(f)
      k_f == k + p * tau(f)
      b_f == IF b >= a THEN b ELSE b + p * ((a - b + p - 1) \div p)
      steps == Min({p, b_f - a + 1 - out})
  IN  CASE backward -> b + out .. a
        [] ~backward /\ l = NoLoop -> IF b = INF THEN a .. k - out ELSE a .. b - out
        [] ~backward /\ l # NoLoop /\ a < l_f -> a .. Min({k_f - 1, b_f - out})
        [] OTHER -> {l_f + ((a - l_f + n) % p) : n \in 0 .. steps - 1}

(* The times of the last argument of a time operator, and the times of the *)
(* first one that lie between.                                             *)
Towards(f, t) == CASE f[1] = "X" -> <<t + 1, t + 1>>
                   [] f[1] \in {"Y", "Z"} -> <<t - 1, t - 1>>
                   [] f[1] \in {"O", "H", "S", "T"} -> <<t, 0>>
                   [] OTHER -> <<t, INF>>

Backward(f) == f[1] \in {"O", "H", "S", "T"}

Targets(f, t, k, l) ==
  projectOntoMainDomain(LastArg(f), Towards(f, t)[1], Towards(f, t)[2], k, l, FALSE, Backward(f))

Between(f, t, j, k, l) ==
  IF f[1] \in Binary THEN projectOntoMainDomain(f[2], t, j, k, l, TRUE, Backward(f)) ELSE {}

PltlNeeds(f, t, k, l) ==
  CASE f[1] \notin TimeOps -> {<<g, t>> : g \in Args(f)}
    [] f[1] = "Z" /\ t = 0 -> {}
    [] OTHER -> {<<LastArg(f), j>> : j \in Targets(f, t, k, l)}
                  \cup UNION {{<<f[2], q>> : q \in Between(f, t, j, k, l)} :
                                j \in Targets(f, t, k, l)}

(* evaluateOn.                                                             *)
PltlValue(memo, f, t, k, l) ==
  LET Has(w, g, u) == w \in At(memo, TRUE, g, u, k, l)
      targets == Targets(f, t, k, l)
      between == [j \in targets |-> Between(f, t, j, k, l)]
  IN  {w \in Words(k) :
        CASE f[1] = "AND" -> Has(w, f[2], t) /\ Has(w, f[3], t)
          [] f[1] = "OR"  -> Has(w, f[2], t) \/ Has(w, f[3], t)
          [] f[1] = "Z" /\ t = 0 -> TRUE
          [] f[1] \in {"F", "U", "O", "S"} ->
               \E j \in targets : /\ Has(w, LastArg(f), j)
                                  /\ \A q \in between[j] : Has(w, f[2], q)
          [] OTHER ->
               \A j \in targets : \/ Has(w, LastArg(f), j)
                                  \/ \E q \in between[j] : Has(w, f[2], q)}

-----------------------------------------------------------------------------
(* Fills the memo table with the value of f at time t, arguments first.    *)
(* What it holds already is not computed again, whichever of the two       *)
(* tableaux put it there.                                                  *)
RECURSIVE Memoise(_, _, _, _, _, _)
Memoise(memo, pltl, f, t, k, l) ==
  IF Outside(pltl, f, t, k, l) \/ f[1] = "atom" \/ <<f, t, k, l>> \in DOMAIN memo
  THEN memo
  ELSE LET needs == IF pltl THEN PltlNeeds(f, t, k, l) ELSE LtlNeeds(f, t, k, l)
           Add(need, m) == Memoise(m, pltl, need[1], need[2], k, l)
           below == FoldSet(Add, memo, needs)
           value == IF pltl THEN PltlValue(below, f, t, k, l) ELSE LtlValue(below, f, t, k, l)
       IN  below @@ (<<f, t, k, l>> :> value)
=============================================================================
