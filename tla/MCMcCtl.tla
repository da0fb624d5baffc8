------------------------------ MODULE MCMcCtl ------------------------------
(* Instances of McCtl for TLC, and what formulas mean, by walks and lassos.*)
EXTENDS McCtl, Lassos

CONSTANTS a, b, c, i, j

Three == {a, b, c}
TwoInputs == {i, j}

(* Three states, one of them perhaps forbidden, and one allowed input.     *)
ThreeStateMachines ==
  [init : {{a}}, invarStates : {Three}, invarInputs : {{i}},
   trans : {T \cup {<<c, i, c>>} : T \in SUBSET ({a, b} \X {i} \X Three)}]
  \cup
  [init : {Three}, invarStates : {{a, b}}, invarInputs : {{i}},
   trans : {T \cup {<<a, i, c>>, <<c, i, a>>} : T \in SUBSET ({a, b} \X {i} \X {a, b})}]

(* Two states and two inputs, of which one may be forbidden.               *)
TwoStateMachines ==
  [init : {{a}}, invarStates : {{a, b}}, invarInputs : {{i}, TwoInputs},
   trans : {T \cup {<<b, i, b>>} :
              T \in SUBSET {<<a, i, a>>, <<a, j, b>>, <<b, i, a>>, <<b, j, a>>}}]

(* Machines in which c leads back to a.                                    *)
ReturningMachines ==
  [init : {{a}}, invarStates : {Three}, invarInputs : {{i}},
   trans : {T \cup {<<c, i, a>>} : T \in SUBSET ({a, b} \X {i} \X Three)}]

AllMachines == ThreeStateMachines \cup TwoStateMachines

AllJustices ==
  {<<>>, <<{<<a, i>>}, {<<b, i>>, <<c, i>>}>>, <<{<<a, i>>, <<b, j>>}, {<<a, j>>}>>}

isA == <<"atom", {a}>>
isB == <<"atom", {b}>>
isC == <<"atom", {c}>>
notB == <<"NOT", isB>>
notC == <<"NOT", isC>>

(* Every operator, some nested, ranges that are empty or start late.       *)
PlainSpecs ==
  {<<"AX", isA>>, <<"EX", isB>>, <<"NOT", <<"EX", notC>>>>, <<"AG", notC>>, <<"EF", isC>>,
   <<"AF", isB>>, <<"EG", notB>>, <<"AU", notC, isB>>, <<"EU", isA, isC>>}

NestedSpecs ==
  {<<"AG", <<"IMPLIES", isA, <<"AF", isB>>>>>>,
   <<"AG", <<"EF", isB>>>>,
   <<"AX", <<"AG", notC>>>>,
   <<"NOT", <<"EX", <<"AND", isB, <<"EG", notC>>>>>>>>,
   <<"NOT", <<"EF", <<"AND", <<"EX", isA>>, <<"EX", isC>>>>>>>>,
   <<"OR", <<"AG", notB>>, <<"AX", <<"AX", isB>>>>>>,
   <<"AND", <<"AG", notB>>, <<"AG", notC>>>>}

BoundedSpecs ==
  {<<"ABF", isB, 0, 2>>, <<"ABG", notC, 1, 2>>, <<"ABU", notC, isB, 1, 2>>,
   <<"ABU", isA, isB, 0, 1>>, <<"EBU", notC, isB, 1, 2>>, <<"EBF", isB, 2, 1>>,
   <<"NOT", <<"EBG", notB, 1, 3>>>>, <<"NOT", <<"EBU", isA, isC, 0, 2>>>>,
   <<"NOT", <<"EBG", isC, 2, 2>>>>, <<"EBG", isC, 1, 2>>, <<"AG", <<"EBG", notC, 1, 2>>>>}

EmptyRangeSpecs ==
  {<<"EBG", notB, 2, 1>>, <<"ABF", <<"atom", {}>>, 2, 1>>, <<"ABU", notC, isB, 2, 1>>,
   <<"EBU", isA, isB, 2, 1>>, <<"ABG", isB, 2, 1>>}

EquivalenceSpecs ==
  {<<"IFF", <<"EX", isB>>, <<"AX", isB>>>>, <<"XOR", <<"EX", isC>>, <<"AX", isB>>>>,
   <<"AG", <<"XNOR", isA, <<"EX", isB>>>>>>, <<"AX", <<"IFF", isC, <<"EX", isA>>>>>>}

AllSpecs ==
  PlainSpecs \cup NestedSpecs \cup BoundedSpecs \cup EmptyRangeSpecs \cup EquivalenceSpecs

(* A specification whose explanation goes wrong.                           *)
BoundedUntilSpecs == {<<"NOT", <<"EBU", <<"NOT", isC>>, isA, 1, 2>>>>}

(* Others: with these as Specs ExplanationIsExecution fails, for there may *)
(* be no fair state of the argument where the range starts.                *)
BoundedGloballySpecs ==
  {<<"EBG", isC, 2, 2>>, <<"AG", <<"EBG", isC, 2, 2>>>>, <<"ABF", isB, 2, 1>>}

AllComputes ==
  {<<"MINU", isA, isC>>, <<"MAXU", isA, isB>>, <<"MAXU", notC, <<"EX", isC>>>>}

(* What a formula means.  A path quantifier ranges over the paths that     *)
(* visit every justice constraint for ever.                                *)
Fair == [m \in Machines, js \in Justices |-> FairWithin(m, js, States)]

RECURSIVE Means(_, _, _)
Means(m, js, f) ==
  LET fair == Fair[m, js]
      S == Means(m, js, f[2])
      T == Means(m, js, f[3])
      From(W) == {w[0] : w \in W}
      Until(P, Q, range) ==
        From(UNION {{w \in Walks(m, n) : /\ w[n] \in Q \cap fair
                                         /\ \A k \in 0 .. n - 1 : w[k] \in P}
                      : n \in range})
      Always(P, inf, sup) ==
        IF inf > sup THEN States
        ELSE From({w \in Walks(m, sup) : w[sup] \in fair /\ \A k \in inf .. sup : w[k] \in P})
      Misses(P, Q, inf, sup) ==
        IF inf > sup THEN States
        ELSE From({w \in Walks(m, sup) :
          /\ w[sup] \in fair
          /\ \A k \in inf .. sup : w[k] \in Q => \E l \in 0 .. k - 1 : w[l] \notin P})
      Some == 0 .. Cardinality(States)
  IN  CASE f[1] = "atom"    -> f[2]
        [] f[1] = "NOT"     -> States \ S
        [] f[1] = "AND"     -> S \cap T
        [] f[1] = "OR"      -> S \cup T
        [] f[1] = "IMPLIES" -> (States \ S) \cup T
        [] f[1] = "XOR"     -> {s \in States : s \in S <=> s \notin T}
        [] f[1] \in {"IFF", "XNOR"} -> {s \in States : s \in S <=> s \in T}
        [] f[1] = "EX"  -> Until(States, S, {1})
        [] f[1] = "AX"  -> States \ Until(States, States \ S, {1})
        [] f[1] = "EF"  -> Until(States, S, Some)
        [] f[1] = "AG"  -> States \ Until(States, States \ S, Some)
        [] f[1] = "EG"  -> FairWithin(m, js, S)
        [] f[1] = "AF"  -> States \ FairWithin(m, js, States \ S)
        [] f[1] = "EU"  -> Until(S, T, Some)
        [] f[1] = "AU"  -> States \ (Until(States \ T, States \ (S \cup T), Some)
                                     \cup FairWithin(m, js, States \ T))
        [] f[1] = "EBU" -> Until(S, T, f[4] .. f[5])
        [] f[1] = "ABU" -> States \ Misses(S, T, f[4], f[5])
        [] f[1] = "EBF" -> Until(States, S, f[3] .. f[4])
        [] f[1] = "ABG" -> States \ Until(States, States \ S, f[3] .. f[4])
        [] f[1] = "EBG" -> Always(S, f[3], f[4])
        [] f[1] = "ABF" -> States \ Always(States \ S, f[3], f[4])

(* The least length of a way from F to G, the greatest length of one that  *)
(* starts in F and stays out of G, among fair reachable states.            *)
Number(m, js, op, F, G) ==
  LET usable == Fair[m, js] \cap Reachable(m)
      Lengths == 0 .. Cardinality(States)
      to == {n \in Lengths : \E w \in Walks(m, n) :
               w[0] \in F \cap usable /\ w[n] \in G \cap usable}
      around == {n \in Lengths : \E w \in Walks(m, n) :
                   w[0] \in F /\ \A k \in 0 .. n : w[k] \in usable \ G}
      Least(N) == CHOOSE n \in N : \A k \in N : n <= k
  IN  IF op = "MINU" THEN IF to = {} THEN -1 ELSE Least(to)
      ELSE IF F \cap usable = {} \/ G \cap usable = {} THEN -2
      ELSE IF around = Lengths THEN -1
      ELSE Cardinality(around)

meaning == Means(fsm, justice, prop)

(* The verdict of check_ctlspec and the number of check_compute are those  *)
(* of the definition by walks and lassos, for every operator, with and     *)
(* without use_reachable_states (eval_ctl_spec_recur, ex, eu, eg, ebu,     *)
(* ebg, abu, minu, maxu; maxu warns and says nothing useful where no state *)
(* is fair).                                                               *)
CtlAnswersAreRight ==
  LET fair == Fair[fsm, justice]
  IN  /\ status = "True"  => InitRegion(fsm) \cap fair \subseteq meaning
      /\ status = "False" => ~(InitRegion(fsm) \cap fair \subseteq meaning)
      /\ status = "Number" =>
           \/ prop[1] = "MAXU" /\ context.fair = {}
           \/ number = Number(fsm, justice, prop[1],
                 Means(fsm, justice, prop[2]), Means(fsm, justice, prop[3]))

steps == (Len(trace) - 1) \div 2
At(k, S) == trace[2 * k + 1] \subseteq S
Taken(k) == trace[2 * k + 1] \X trace[2 * k + 2]

(* The trace is evidence about f from its place k on: a witness of the     *)
(* existential operator it comes down to, continued by one about an        *)
(* argument or ended there.                                                *)
RECURSIVE Shows(_, _)
Shows(f, k) ==
  LET Sat(n) == Means(fsm, justice, f[n])
      Goes(P, Q, next, range) ==
        \E n \in k .. steps :
           /\ n - k \in range /\ At(n, Q)
           /\ \A l \in k .. n - 1 : At(l, P)
           /\ n = steps \/ Shows(next, n)
  IN  CASE f[1] \in {"atom", "XOR", "XNOR"} -> FALSE
        [] f[1] = "NOT"  -> Shows(f[2], k)
        [] f[1] \in {"OR", "IMPLIES", "IFF"} -> Shows(f[2], k) \/ Shows(f[3], k)
        [] f[1] = "AND"  -> At(k, Sat(2) \cap Sat(3)) /\ (Shows(f[2], k) \/ Shows(f[3], k))
        [] f[1] = "EX"   -> Goes(States, Sat(2), f[2], {1})
        [] f[1] = "EU"   -> Goes(Sat(2), Sat(3), f[3], 0 .. steps)
        [] f[1] = "EBU"  -> Goes(Sat(2), Sat(3), f[3], f[4] .. f[5])
        [] f[1] = "EBG"  -> \/ f[3] > f[4]
                            \/ /\ steps - k = f[4]
                               /\ \A n \in k + f[3] .. steps : At(n, Sat(2))
        [] f[1] = "EG"   ->
             /\ \A n \in k .. steps : At(n, Sat(2))
             /\ \E n \in k .. steps - 1 :
                   /\ trace[2 * n + 1] = trace[Len(trace)]
                   /\ \A J \in {justice[x] : x \in DOMAIN justice} :
                         \E l \in n .. steps - 1 : Taken(l) \subseteq J
        [] OTHER -> Shows(Rewritten(f), k)

Universal == {"AX", "AG", "AF", "AU", "ABF", "ABG", "ABU"}

(* What a trace is printed for, "as demonstrated by the following          *)
(* execution sequence" (mcMc.c:190): it refutes a universal operator, the  *)
(* loop of a violated AF visits every justice constraint, and it ends in a *)
(* state from which it can be continued fairly.  A trace of one state need *)
(* not show anything where the formula is of another kind.                 *)
ExplanationShowsViolation ==
  trace # Nil =>
    /\ trace[Len(trace)] \subseteq Fair[fsm, justice]
    /\ Shows(prop, 0) \/ (steps = 0 /\ prop[1] \notin Universal)
=============================================================================
