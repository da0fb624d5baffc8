-------------------------------- MODULE MCBmc --------------------------------
(* Instances of Bmc for TLC, and what an LTL formula means on a lasso.      *)
EXTENDS Bmc, Lassos

CONSTANTS a, b, c, i

Three == {a, b, c}
OneInput == {i}

AllLoopOptions == {AllLoops, NoLoop, 1, -1, -2}

Machine(edges) ==
  [init |-> {a}, invarStates |-> Three, invarInputs |-> {i},
   trans |-> {<<e[1], i, e[2]>> : e \in edges}]

(* A loop after the first state, which no bound below 3 closes.  c is       *)
(* always reached.                                                          *)
LateLoop == Machine({<<a, b>>, <<b, c>>, <<c, b>>})

(* A choice at every state, and a loop that is left for ever.               *)
EarlyLoops ==
  {Machine({<<a, a>>, <<a, b>>, <<b, a>>, <<b, c>>, <<c, c>>}),
   [Machine({<<a, b>>, <<b, a>>, <<b, b>>, <<a, c>>}) EXCEPT !.invarStates = {a, b}]}

AllJustices == {<<>>, <<{<<b, i>>}>>, <<{<<a, i>>}, {<<b, i>>, <<c, i>>}>>}

isA == <<"atom", {a}>>
isB == <<"atom", {b}>>
isC == <<"atom", {c}>>
notB == <<"NOT", isB>>
notC == <<"NOT", isC>>

Not(f) == <<"NOT", f>>
Un(op, f) == <<op, f>>
Bin(f, op, g) == <<op, f, g>>
Always(f, g) == <<"G", <<"IMPLIES", f, g>>>>

OneOfEach ==
  {isB, Un("G", notC), Un("F", isC), Un("X", isA), Not(Bin(isA, "U", isC)),
   Un("G", Un("F", isA)), Un("F", Un("G", isC)), Bin(isA, "IMPLIES", Un("X", Un("X", isC))),
   Not(Un("F", Bin(isB, "AND", Un("X", Un("G", notC))))),
   Always(isC, Un("Y", isB)), Always(isC, Un("O", isA)), Un("F", Un("G", Un("Z", isB))),
   Un("G", Un("F", Bin(isB, "AND", Un("Y", Un("Y", isB))))), Always(isB, Un("H", notC)),
   Un("G", Bin(notC, "S", isA)), Un("G", Not(Bin(isA, "T", notC))),
   Not(Bin(Not(Un("Y", isB)), "U", Un("O", isC)))}

(* Until, whose negation is a Releases.                                     *)
Untils ==
  {Bin(isA, "U", isB), Bin(notC, "U", isC), Un("G", Bin(notC, "U", isB)),
   Bin(Bin(isA, "U", isB), "AND", Un("F", isC))}

On(b1, b2) == [optimized |-> b1, forcePltl |-> b2]

(* One check of each specification, with length k.                          *)
Checks(specs, opts, k) ==
  {[specs |-> {f}, opts |-> opts, lengths |-> {k}, checks |-> 1] : f \in specs}

LtlTableauOnly == {On(TRUE, FALSE), On(FALSE, FALSE)}

EarlySessions ==
  Checks(OneOfEach, Options, 2) \cup Checks(Untils, LtlTableauOnly, 2)
  \cup
  {[specs |-> {Un("F", isC), Un("F", Bin(isC, "AND", Un("O", isB)))},
    opts |-> {On(TRUE, FALSE), On(FALSE, TRUE)}, lengths |-> {2}, checks |-> 2],
   [specs |-> {Bin(isA, "U", isB), Always(isB, Bin(isB, "U", isC))},
    opts |-> {On(TRUE, FALSE)}, lengths |-> {2}, checks |-> 2]}

(* What a loop that leaves the first state behind may get wrong.            *)
LateSpecs ==
  {Un("G", Un("F", isA)), Un("F", Un("G", isC)), Always(isC, Un("X", Un("X", isB))),
   Not(Un("F", Bin(isC, "AND", Un("X", Un("F", isB))))), Always(isC, Un("Y", isB)),
   Un("F", Un("G", Un("Z", isB))), Always(isB, Un("H", notC)), Un("G", Bin(notC, "S", isA)),
   Not(Un("F", Bin(isB, "AND", Un("Y", Un("Y", isB)))))}

LateUntils == {Always(isB, Bin(isB, "U", isC)), Un("G", Bin(isC, "U", isB))}

LateSessions == Checks(LateSpecs, Options, 3) \cup Checks(LateUntils, LtlTableauOnly, 3)

AllModels ==
  [fsm : EarlyLoops, justice : AllJustices, session : EarlySessions]
  \cup [fsm : {LateLoop}, justice : AllJustices, session : LateSessions]

(* A release in a formula with past operators, which has a tableau of its   *)
(* own.                                                                     *)
PastModels ==
  [fsm : {LateLoop}, justice : AllJustices,
   session : Checks({Bin(Un("O", isA), "IMPLIES", Bin(notC, "U", isC))}, {On(TRUE, FALSE)}, 2)]

-----------------------------------------------------------------------------
(* The meaning of a formula at position n of the path that runs through w   *)
(* and then for ever through the loop from k to l.  The formula repeats     *)
(* itself after its past operators have seen the loop.                      *)
RECURSIVE Holds(_, _, _, _, _)
Holds(f, w, k, l, n) ==
  LET At_n(g, m) == Holds(g, w, k, l, m)
      future == n .. n + k + (k - l) * (Depth(f) + 1)
      past == 0 .. n
  IN  CASE f[1] = "atom" -> w[IF n < k THEN n ELSE l + ((n - l) % (k - l))] \in f[2]
        [] f[1] = "NOT" -> ~At_n(f[2], n)
        [] f[1] = "AND" -> At_n(f[2], n) /\ At_n(f[3], n)
        [] f[1] = "OR" -> At_n(f[2], n) \/ At_n(f[3], n)
        [] f[1] = "IMPLIES" -> At_n(f[2], n) => At_n(f[3], n)
        [] f[1] = "X" -> At_n(f[2], n + 1)
        [] f[1] = "Y" -> n > 0 /\ At_n(f[2], n - 1)
        [] f[1] = "Z" -> n = 0 \/ At_n(f[2], n - 1)
        [] f[1] = "F" -> \E m \in future : At_n(f[2], m)
        [] f[1] = "G" -> \A m \in future : At_n(f[2], m)
        [] f[1] = "O" -> \E m \in past : At_n(f[2], m)
        [] f[1] = "H" -> \A m \in past : At_n(f[2], m)
        [] f[1] = "U" -> \E m \in future : /\ At_n(f[3], m)
                                           /\ \A q \in n .. m - 1 : At_n(f[2], q)
        [] f[1] = "V" -> \A m \in future : \/ At_n(f[3], m)
                                           \/ \E q \in n .. m - 1 : At_n(f[2], q)
        [] f[1] = "S" -> \E m \in past : /\ At_n(f[3], m)
                                         /\ \A q \in m + 1 .. n : At_n(f[2], q)
        [] f[1] = "T" -> \A m \in past : \/ At_n(f[3], m)
                                         \/ \E q \in m + 1 .. n : At_n(f[2], q)

(* The lassos of n steps that violate a specification.                      *)
Violating ==
  [f \in Specs, n \in 1 .. Max(Lengths) + 3 |->
     {lasso \in UNION {{w \in Words(n) : w[n] = w[l]} \X {l} : l \in 0 .. n - 1} :
        ~Holds(f, lasso[1], n, lasso[2], 0)}]

Visits(path, k, l) ==
  \A n \in DOMAIN justice : \E t \in l .. k - 1 : path[t] \in justice[n]

Executions(n) ==
  {path \in [0 .. n -> Pairs] :
     /\ path[0][1] \in fsm.init \cap fsm.invarStates
     /\ \A t \in 0 .. n - 1 : <<path[t], path[t + 1]>> \in Edges(fsm, Pairs)}

Lasso(path, k, l) == <<[n \in 0 .. k |-> path[n][1]], l>>

(* The lassos that go on from a path by three more steps and loop back.       *)
Continuations(path, k) ==
  {lasso \in {w \in Words(k + 3) : /\ \A n \in 0 .. k : w[n] = path[n][1]
                                   /\ \A n \in k .. k + 2 : w[n + 1] \in ForwardImage(fsm, {w[n]})}
             \X (0 .. k + 2) : lasso[1][k + 3] = lasso[1][lasso[2]]}

(* The path that is reported is an execution of the model, and a            *)
(* counterexample: it loops back, fairly, where the user allows it, and     *)
(* violates the specification, or there are no justice constraints and      *)
(* every way to go on violates it.  Checks that share the memo table, in    *)
(* any order, do not disturb each other.                                    *)
CounterexamplesAreReal ==
  pc = "report" =>
    LET k == increasingK
        f == call.spec
    IN  /\ found \in Executions(k)
        /\ \/ \E l \in 0 .. k - 1 :
                /\ loopback \in {AllLoops, l} /\ Visits(found, k, l)
                /\ Lasso(found, k, l) \in Violating[f, k]
           \/ /\ justice = <<>> /\ loopback \in {AllLoops, NoLoop}
              /\ \A lasso \in Continuations(found, k) : lasso \in Violating[f, k + 3]

(* When no counterexample is reported for a bound, no execution of that     *)
(* length loops back where the user allows it, fairly, and violates the     *)
(* specification: the shortcuts for shallow formulas lose nothing.          *)
NoCounterexampleMissed ==
  [][Unsatisfiable =>
       \A path \in Executions(increasingK), l \in 0 .. increasingK - 1 :
         loopback \in {AllLoops, l} /\ Visits(path, increasingK, l)
           => Lasso(path, increasingK, l) \notin Violating[call.spec, increasingK]]_bmcVars
=============================================================================
