------------------------------- MODULE McCtl -------------------------------
(***************************************************************************)
(* check_ctlspec and check_compute: the evaluation of a CTL formula        *)
(* (core/mc/mcEval.c, core/mc/mcMc.c) and the construction of a            *)
(* counterexample (core/mc/mcExplain.c).                                   *)
(*                                                                         *)
(* A formula is a tuple: <<"atom", S>>, <<"AND", f, g>>, <<"EX", f>>,      *)
(* <<"EU", f, g>>, <<"EBU", f, g, inf, sup>>, <<"EBG", f, inf, sup>>, ...; *)
(* a propositional formula is the set of the states it holds in.  The      *)
(* evaluation needs a context c: the machine, its justice constraints, its *)
(* fair pairs and states and, under use_reachable_states, the reachable    *)
(* states that every image is cut to.                                      *)
(*                                                                         *)
(* A path of mcExplain.c alternates sets of states and sets of inputs, the *)
(* newest state last (the code conses at the head); the sets are meant to  *)
(* be singletons in the end.  Picking a minterm is a free choice, so an    *)
(* explanation is the SET of the paths that may come out of it.  Nil says  *)
(* that there is none, Broken that an internal error or an assertion ends  *)
(* the command.  Option use_fair_states has its default, on.               *)
(***************************************************************************)
EXTENDS Fsm

CONSTANTS Machines, Justices,
          Specs,     \* the specifications: CTL formulas
          Computes   \* <<"MINU", f, g>> and <<"MAXU", f, g>>

VARIABLES
  fsm, justice, useReach,
  prop,      \* the property the command checks
  status,    \* its Prop status
  number,    \* its number: -1 is infinity, -2 undefined
  pc,        \* "idle", or "explain" between the verdict and the trace
  s0,        \* the initial states that violate the property
  trace      \* the trace of the property

ctlVars == <<fsm, justice, useReach, prop, status, number, pc, s0, trace>>

StatesOf(SI) == {si[1] : si \in SI}
InputsOf(SI) == {si[2] : si \in SI}

(***************************************************************************)
(* The operators of mcMc.c.                                                *)
(***************************************************************************)

Ex(c, g) == BackwardImage(c.fsm, g \cap c.fair \cap c.reach) \cap c.reach

RECURSIVE EuLoop(_, _, _, _)
EuLoop(c, f, Y, new) ==
  IF new = {} THEN Y
  ELSE LET bigger == Y \cup (f \cap Ex(c, new))
       IN  EuLoop(c, f, bigger, bigger \ Y)

Eu(c, f, g) ==
  LET start == g \cap c.fair \cap c.reach IN EuLoop(c, f, start, start)

ExSi(c, SI) == WeakBackwardImage(c.fsm, StatesOf(SI)) \cap (c.reach \X Inputs)

RECURSIVE EuSiLoop(_, _, _, _)
EuSiLoop(c, f, Y, new) ==
  IF new = {} THEN Y
  ELSE LET bigger == Y \cup (ExSi(c, new) \cap f)
       IN  EuSiLoop(c, f, bigger, bigger \ Y)

EuSi(c, f, g) ==
  LET start == g \cap (c.reach \X Inputs) IN EuSiLoop(c, f, start, start)

(* Mc_fair_si_iteration: from SI every constraint can be reached again.    *)
FairSiIteration(c, SI, space) ==
  ExSi(c, {p \in SI : \A n \in DOMAIN c.js : p \in EuSi(c, space, SI \cap c.js[n])})

RECURSIVE FairSiLoop(_, _, _)
FairSiLoop(c, SI, space) ==
  LET smaller == SI \cap FairSiIteration(c, SI, space) \cap space
  IN  IF smaller = SI THEN SI ELSE FairSiLoop(c, smaller, space)

(* Mc_get_fair_si_subset: the greatest fixpoint.                           *)
FairSiSubset(c, space) == FairSiLoop(c, Pairs, space)

(* Pairs with a successor; the constraint carries no invariants.           *)
Legal(c) ==
  {si \in c.reach \X Inputs : \E t \in States : <<si[1], si[2], t>> \in c.fsm.trans}

(* eg_si                                                                   *)
EgSi(c, SI) == FairSiSubset(c, Legal(c) \cap SI)

Eg(c, g) ==
  IF g = States THEN c.fair
                ELSE StatesOf(EgSi(c, c.fairSI \cap (g \X Inputs)))

Au(c, f, g) ==
  States \ (Eu(c, States \ g, States \ (f \cup g)) \cup Eg(c, States \ g))

(* Y after at most n rounds of Y := Round(Y); a fixpoint ends them early   *)
(* without a change.                                                       *)
Rounds(n, Y, Round(_)) ==
  LET after[k \in 0 .. n] == IF k = 0 THEN Y ELSE Round(after[k - 1])
  IN  after[n]

BadRange(inf, sup) == inf > sup \/ inf < 0

(* Mutant: the rounds before the range are one too few.                    *)
Ebu_OneRoundLess(c, f, g, inf, sup) ==
  LET Within(Y) == Y \cup (f \cap Ex(c, Y))
      Before(Y) == f \cap Ex(c, Y)
      start == g \cap c.fair \cap c.reach
  IN  IF BadRange(inf, sup) THEN {}
      ELSE Rounds(IF inf = 0 THEN 0 ELSE inf - 1,
                  Rounds(sup - inf, start, Within), Before)

(* ebu: first the rounds within the range, then those before it.           *)
Ebu(c, f, g, inf, sup) ==
  LET Within(Y) == Y \cup (f \cap Ex(c, Y))
      Before(Y) == f \cap Ex(c, Y)
      start == g \cap c.fair \cap c.reach
  IN  IF BadRange(inf, sup) THEN {}
      ELSE Rounds(inf, Rounds(sup - inf, start, Within), Before)

Ebg(c, g, inf, sup) ==
  LET Within(Y) == Y \cap Ex(c, Y)
      Before(Y) == Ex(c, Y)
      start == g \cap c.fair \cap c.reach
  IN  IF BadRange(inf, sup) THEN States
      ELSE Rounds(inf, Rounds(sup - inf, start, Within), Before)

Abu(c, f, g, inf, sup) ==
  LET Ax(Y) == States \ Ex(c, States \ Y)
      Within(Y) == Y \cup (f \cap Ax(Y))
      Before(Y) == f \cap Ax(Y)
      start == g \cap c.fair \cap c.reach
  IN  IF BadRange(inf, sup) THEN {}
      ELSE Rounds(inf, Rounds(sup - inf, start, Within), Before)

(* eval_ctl_spec_recur: the universal operators, but AU and ABU, are       *)
(* existential ones with both signs flipped.                               *)
RECURSIVE EvalCtl(_, _)
EvalCtl(c, f) ==
  LET op == f[1]
      Arg(n) == EvalCtl(c, f[n])
      Not(S) == States \ S
      Differ(S, T) == (S \ T) \cup (T \ S)
  IN  CASE op = "atom"    -> f[2]
        [] op = "NOT"     -> Not(Arg(2))
        [] op = "AND"     -> Arg(2) \cap Arg(3)
        [] op = "OR"      -> Arg(2) \cup Arg(3)
        [] op = "IMPLIES" -> Not(Arg(2)) \cup Arg(3)
        [] op = "XOR"     -> Differ(Arg(2), Arg(3))
        [] op = "XNOR"    -> Differ(Arg(2), Not(Arg(3)))
        [] op = "IFF"     -> Not(Differ(Arg(2), Arg(3)))
        [] op = "EX"  -> Ex(c, Arg(2))
        [] op = "AX"  -> Not(Ex(c, Not(Arg(2))))
        [] op = "EF"  -> Eu(c, States, Arg(2))
        [] op = "AG"  -> Not(Eu(c, States, Not(Arg(2))))
        [] op = "EG"  -> Eg(c, Arg(2))
        [] op = "AF"  -> Not(Eg(c, Not(Arg(2))))
        [] op = "EU"  -> Eu(c, Arg(2), Arg(3))
        [] op = "AU"  -> Au(c, Arg(2), Arg(3))
        [] op = "EBU" -> Ebu(c, Arg(2), Arg(3), f[4], f[5])
        [] op = "ABU" -> Abu(c, Arg(2), Arg(3), f[4], f[5])
        [] op = "EBF" -> Ebu(c, States, Arg(2), f[3], f[4])
        [] op = "ABG" -> Not(Ebu(c, States, Not(Arg(2)), f[3], f[4]))
        [] op = "EBG" -> Ebg(c, Arg(2), f[3], f[4])
        [] op = "ABF" -> Not(Ebg(c, Not(Arg(2)), f[3], f[4]))

(* minu: forward from f, among the fair reachable states, until g.         *)
RECURSIVE MinuLoop(_, _, _, _)
MinuLoop(c, R, g, n) ==
  LET bigger == R \cup (ForwardImage(c.fsm, R) \cap c.fair)
  IN  CASE R \cap g # {} -> n
        [] R \cap g = {} /\ bigger = R -> -1
        [] OTHER -> MinuLoop(c, bigger, g, n + 1)

Minu(c, f, g) ==
  LET usable == c.fair \cap Reachable(c.fsm)
  IN  MinuLoop(c, f \cap usable \cap c.fsm.invarStates, g \cap usable, 0)

(* maxu: backward within !g until no state of f is left; R repeats when    *)
(* paths stay out of g for ever.                                           *)
RECURSIVE MaxuLoop(_, _, _, _, _)
MaxuLoop(c, f, notg, R, n) ==
  LET smaller == BackwardImage(c.fsm, R) \cap notg
  IN  CASE R \cap f = {} -> n
        [] R \cap f # {} /\ smaller = R -> -1
        [] OTHER -> MaxuLoop(c, f, notg, smaller, n + 1)

Maxu(c, f, g) ==
  LET usable == Reachable(c.fsm) \cap c.fsm.invarStates
                \cap (IF c.fair = {} THEN States ELSE c.fair)
  IN  IF f \cap usable = {} \/ g \cap usable = {} THEN -2
      ELSE LET notg == (usable \cap c.fair) \ g IN MaxuLoop(c, f, notg, notg, 0)

(***************************************************************************)
(* mcExplain.c: paths.                                                     *)
(***************************************************************************)
Nil == <<>>
Broken == <<{}>>
NoPath(path) == path = Nil \/ path = Broken

Car(path) == path[Len(path)]      \* car(path)

(* BddEnc_pick_one_state and _input: nothing is picked from nothing.       *)
PickOne(S) == IF S = {} THEN {{}} ELSE {{x} : x \in S}

InputsBetween(c, Cur, Nxt) == StatesToStatesInputs(c.fsm, Cur, Nxt)

(* BddFsm_get_constrained_backward_image and _forward_image.               *)
BackBy(c, S, I) ==
  {s \in c.fsm.invarStates : \E i \in I \cap c.fsm.invarInputs,
      t \in S \cap c.fsm.invarStates : <<s, i, t>> \in c.fsm.trans}
ForthBy(c, S, I) ==
  {t \in c.fsm.invarStates : \E i \in I \cap c.fsm.invarInputs,
      s \in S \cap c.fsm.invarStates : <<s, i, t>> \in c.fsm.trans}

(* Mutant: the input may lead to another one of the next states.           *)
ExtendOne_AnyInput(c, path, from, next) ==
  UNION {{path \o <<input, state>> : input \in PickOne(InputsBetween(c, from, next))}
           : state \in PickOne(next)}

(* Extend_trace_with_state_input_pair                                      *)
ExtendOne(c, path, from, next) ==
  UNION {{path \o <<input, state>> : input \in PickOne(InputsBetween(c, from, state))}
           : state \in PickOne(next)}

(* Extend_trace_with_states_inputs_pair                                    *)
ExtendAll(c, path, next) ==
  path \o <<InputsBetween(c, Car(path), next), next>>

(* Pick one state and input per place, from place k back to place keep;    *)
(* cut[n] is what the state of place n must also satisfy.                  *)
RECURSIVE Minterms(_, _, _, _, _, _)
Minterms(c, path, k, keep, cut, checked) ==
  IF k = keep THEN {path}
  ELSE IF checked /\ path[k] \cap c.reach = {} THEN {Broken}
  ELSE UNION {
    UNION {Minterms(c, [path EXCEPT ![k - 2] = prev, ![k - 1] = input],
                    k - 2, keep, cut, checked)
             : input \in PickOne(InputsBetween(c, prev, path[k]))}
      : prev \in PickOne(BackBy(c, path[k], path[k - 1]) \cap path[k - 2] \cap cut[k - 2])}

WithHead(path, S) == [path EXCEPT ![Len(path)] = S]
NoCut(path) == [n \in DOMAIN path |-> States]

(* The assertion on the starting state is one on its fairness.             *)
ExExplain(c, path, f) ==
  LET start == Car(path)
      acc == f \cap c.fair \cap ForwardImage(c.fsm, start)
  IN  CASE NoPath(path) -> {path}
        [] ~NoPath(path) /\ ~(start \subseteq c.fair) -> {Broken}
        [] ~NoPath(path) /\ start \subseteq c.fair /\ acc = {} -> {Nil}
        [] OTHER -> ExtendOne(c, path, start, acc)

(* eu_explain.  The layers of the search are appended as sets; when one    *)
(* meets the goal they are cut back to single states.                      *)
RECURSIVE EuSearch(_, _, _, _, _, _, _)
EuSearch(c, path, wit, f, acc, new, Z) ==
  LET image == ForwardImage(c.fsm, new)
      fresh == (image \cap f) \ Z
      found == {ExtendAll(c, wit, state) : state \in PickOne(image \cap acc)}
  IN  CASE image \cap acc # {} ->
             UNION {Minterms(c, w, Len(w), Len(path), NoCut(w), TRUE) : w \in found}
        [] image \cap acc = {} /\ fresh = {} -> {Nil}
        [] OTHER -> EuSearch(c, path, ExtendAll(c, wit, fresh), f, acc,
                             fresh, Z \cup (image \cap f))

EuExplain(c, path, f, g) ==
  LET acc == g \cap c.fair
      start == Car(path)
  IN  IF NoPath(path) THEN {path}
      ELSE IF start \cap acc # {}
             THEN {WithHead(path, state) : state \in PickOne(start \cap acc)}
      ELSE IF start \cap f = {} THEN {Nil}
      ELSE EuSearch(c, path, path, f, acc, start \cap f, start \cap f)

(* eu_si_explain: reach a state of the goal, then take a step with an      *)
(* input of the goal, unless the goal is a set of states or the pair needs *)
(* no input.                                                               *)
EuSiExplain(c, path, f, gSI, hulk) ==
  LET g == StatesOf(gSI)
      Step(p) ==
        LET here == gSI \cap (Car(p) \X Inputs)
        IN  IF NoPath(p) \/ g \X Inputs = gSI \/ here = Car(p) \X Inputs THEN {p}
            ELSE UNION {
              {p \o <<input, next>> : next \in PickOne(ForthBy(c, Car(p), input) \cap hulk)}
                : input \in PickOne(InputsOf(here))}
  IN  UNION {Step(p) : p \in EuExplain(c, path, f, g)}

(* Mutant: the last constraint is not visited.                             *)
FairnessExplain_SkipsLast(c, path, hulkSI) ==
  LET hulk == StatesOf(hulkSI)
      visited[n \in 0 .. Len(c.js)] ==
        IF n = 0 THEN {path}
        ELSE UNION {EuSiExplain(c, p, hulk, hulkSI \cap c.js[n] \cap c.fairSI, hulk)
                      : p \in visited[n - 1]}
  IN  visited[IF Len(c.js) = 0 THEN 0 ELSE Len(c.js) - 1]

(* fairness_explain: one constraint after the other.                       *)
FairnessExplain(c, path, hulkSI) ==
  LET hulk == StatesOf(hulkSI)
      visited[n \in 0 .. Len(c.js)] ==
        IF n = 0 THEN {path}
        ELSE UNION {EuSiExplain(c, p, hulk, hulkSI \cap c.js[n] \cap c.fairSI, hulk)
                      : p \in visited[n - 1]}
  IN  visited[Len(c.js)]

(* eg_explain: visit the constraints, then close the loop; where that is   *)
(* impossible take one more step and try again from there.                 *)
RECURSIVE EgLoop(_, _, _, _)
EgLoop(c, path, egSI, egG) ==
  LET start == Car(path)
      closing == egG \cap Ex(c, start)
      Close(p) == UNION {ExExplain(c, q, start) : q \in EuExplain(c, p, egG, closing)}
      Retry(p) == UNION {IF q = Nil THEN {Broken} ELSE EgLoop(c, q, egSI, egG)
                           : q \in ExExplain(c, p, egG)}
  IN  IF NoPath(path) THEN {Broken}
      ELSE UNION {
        UNION {IF q = Nil THEN Retry(p) ELSE {q} : q \in Close(p)}
          : p \in FairnessExplain(c, path, egSI)}

EgExplain(c, path, g) ==
  LET egSI == EgSi(c, g \X Inputs)
      egG == Eg(c, g)
  IN  IF NoPath(path) THEN {path}
      ELSE IF ~(Car(path) \subseteq egG) THEN {Nil}
      ELSE EgLoop(c, path, egSI, egG)

(* The layers n rounds further; a layer Y is followed by Step(Y).  An      *)
(* empty layer ends the search, a repeated one fills the list.             *)
Layers(c, path, n, Step(_)) ==
  LET after[k \in 0 .. n] ==
        IF k = 0 THEN path
        ELSE LET Y == Step(Car(after[k - 1]))
             IN  IF after[k - 1] = Nil \/ Y = {} THEN Nil
                 ELSE ExtendAll(c, after[k - 1], Y)
  IN  after[n]

(* ebu_explain: inf layers through f, then a shortest way to g, which must *)
(* not be longer than sup - inf; then single states for the inf layers.    *)
EbuExplain(c, path, f, g, inf, sup) ==
  LET Step(Y) == ForwardImage(c.fsm, Y \cap f)
      wit == Layers(c, path, inf, Step)
      InTime(w) == (Len(w) - Len(wit)) \div 2 <= sup - inf
      Cut(w) == [n \in DOMAIN w |-> f]
      Checked(w) ==
        IF NoPath(w) \/ w[Len(path)] \cap c.reach # {} THEN w ELSE Broken
      Instantiate(w) ==
        UNION {{Checked(q) : q \in Minterms(c, [w EXCEPT ![Len(wit)] = x],
                                            Len(wit), Len(path), Cut(w), TRUE)}
                 : x \in PickOne(w[Len(wit)])}
  IN  IF NoPath(path) THEN {path}
      ELSE IF wit = Nil THEN {Nil}
      ELSE UNION {CASE NoPath(w) -> {w}
                    [] ~NoPath(w) /\ ~InTime(w) -> {Nil}
                    [] OTHER -> Instantiate(w)
                    : w \in EuExplain(c, wit, f, g)}

(* ebg_explain: inf layers of any states, sup - inf layers of fair states  *)
(* of g, then single states, of g and fair from place inf on.  Where       *)
(* sup <= inf nobody looks whether the last layer has such a state.        *)
EbgExplain(c, path, g, inf, sup) ==
  LET fairG == g \cap c.fair
      AnyStep(Y) == ForwardImage(c.fsm, Y)
      GStep(Y) == ForwardImage(c.fsm, Y \cap fairG) \cap fairG
      prefix == Layers(c, path, inf, AnyStep)
      wit == Layers(c, prefix, IF sup > inf THEN sup - inf ELSE 0, GStep)
      Cut(w) == [n \in DOMAIN w |-> IF n >= Len(prefix) THEN fairG ELSE States]
  IN  IF NoPath(path) THEN {path}
      ELSE IF prefix = Nil \/ wit = Nil THEN {Nil}
      ELSE UNION {Minterms(c, WithHead(wit, x), Len(wit), Len(path), Cut(wit), FALSE)
                    : x \in PickOne(Car(wit) \cap fairG)}

(***************************************************************************)
(* explain_recur: the sign of a subformula plays no part; a universal      *)
(* operator is explained as the negation of an existential one.            *)
(***************************************************************************)
ExprNot(f) ==
  CASE f[1] = "NOT"  -> f[2]
    [] f = <<"atom", States>> -> <<"atom", {}>>
    [] f = <<"atom", {}>> -> <<"atom", States>>
    [] OTHER -> <<"NOT", f>>

Truth == <<"atom", States>>

(* The formula a case of explain_recur hands over to another one.          *)
Rewritten(f) ==
  CASE f[1] = "AX"  -> ExprNot(<<"EX", ExprNot(f[2])>>)
    [] f[1] = "EF"  -> <<"EU", Truth, f[2]>>
    [] f[1] = "AG"  -> ExprNot(<<"EU", Truth, ExprNot(f[2])>>)
    [] f[1] = "AF"  -> ExprNot(<<"EG", ExprNot(f[2])>>)
    [] f[1] = "AU"  -> ExprNot(<<"OR",
         <<"EU", ExprNot(f[3]), <<"AND", ExprNot(f[2]), ExprNot(f[3])>>>>,
         <<"EG", ExprNot(f[3])>>>>)
    [] f[1] = "ABU" -> ExprNot(<<"OR",
         <<"EBF", ExprNot(f[2]), 0, f[4] - 1>>,
         <<"EBG", <<"OR",
             <<"EBG", ExprNot(f[3]), 0, f[5] - f[4]>>,
             <<"EBU", ExprNot(f[3]), <<"AND", ExprNot(f[2]), ExprNot(f[3])>>,
               0, f[5] - f[4]>>>>,
           f[4], f[4]>>>>)
    [] f[1] = "EBF" -> <<"EBU", Truth, f[2], f[3], f[4]>>
    [] f[1] = "ABG" -> ExprNot(<<"EBF", ExprNot(f[2]), f[3], f[4]>>)
    [] f[1] = "ABF" -> ExprNot(<<"EBG", ExprNot(f[2]), f[3], f[4]>>)

Extends(p, path) == Len(p) > Len(path)

RECURSIVE ExplainRecur(_, _, _)

(* Continue an explanation with one of the argument, where there is one.   *)
Continue(c, path, f) ==
  IF NoPath(path) THEN {path}
  ELSE {IF q = Nil THEN path ELSE q : q \in ExplainRecur(c, path, f)}

(* explain_and: it insists that the conjunction holds; if both conjuncts   *)
(* extend the path, or one does and the other has no explanation, the      *)
(* right one wins.                                                         *)
ExplainAnd(c, path, f) ==
  LET start == Car(path) \cap EvalCtl(c, f)
      path2 == WithHead(path, start)
      Same(p) == p = path2
      Chosen(l, r) ==
        CASE Same(l) /\ Same(r) -> path2
          [] Same(r) /\ l # Nil -> l
          [] OTHER -> r
  IN  IF path = Nil \/ start = {} THEN {Nil}
      ELSE {Chosen(l, r) : l \in ExplainRecur(c, path2, f[2]),
                           r \in ExplainRecur(c, path2, f[3])}

ExplainRecur(c, path, f) ==
  LET Val(n) == EvalCtl(c, f[n])
      First ==
        UNION {IF p # Nil THEN {p} ELSE ExplainRecur(c, path, f[3])
                 : p \in ExplainRecur(c, path, f[2])}
      Then(paths, n) == UNION {Continue(c, p, f[n]) : p \in paths}
  IN  CASE f[1] \in {"atom", "XOR", "XNOR"} -> {Nil}
        [] f[1] = "NOT"  -> ExplainRecur(c, path, f[2])
        [] f[1] = "AND"  -> ExplainAnd(c, path, f)
        [] f[1] \in {"OR", "IMPLIES", "IFF"} -> First
        [] f[1] = "EX"   -> Then(ExExplain(c, path, Val(2)), 2)
        [] f[1] = "EG"   -> EgExplain(c, path, Val(2))
        [] f[1] = "EU"   -> Then(EuExplain(c, path, Val(2), Val(3)), 3)
        [] f[1] = "EBU"  -> Then(EbuExplain(c, path, Val(2), Val(3), f[4], f[5]), 3)
        [] f[1] = "EBG"  -> EbgExplain(c, path, Val(2), f[3], f[4])
        [] OTHER -> ExplainRecur(c, path, Rewritten(f))

(***************************************************************************)
(* The commands.                                                           *)
(***************************************************************************)
Context(m, js, r) ==
  LET bare == [fsm |-> m, js |-> js, reach |-> IF r THEN Reachable(m) ELSE States]
      fairSI == FairSiSubset(bare, Legal(bare))
  IN  [fsm |-> m, js |-> js, reach |-> bare.reach,
       fairSI |-> fairSI, fair |-> StatesOf(fairSI)]

(* A constant, so that TLC evaluates each context once.                    *)
Contexts == [m \in Machines, js \in Justices, r \in BOOLEAN |-> Context(m, js, r)]
context == Contexts[fsm, justice, useReach]

CtlInit ==
  /\ fsm \in Machines /\ justice \in Justices /\ useReach \in BOOLEAN
  /\ prop \in Specs \cup Computes
  /\ status = "Unchecked" /\ number = 0 /\ pc = "idle" /\ s0 = {} /\ trace = Nil

(* Mc_CheckCTLSpec: the initial states, fair ones only, that do not        *)
(* satisfy the formula.                                                    *)
CtlViolations == (InitRegion(fsm) \cap context.fair) \ EvalCtl(context, prop)

CheckCtlSpec ==
  /\ pc = "idle" /\ status = "Unchecked" /\ prop \in Specs
  /\ s0' = CtlViolations
  /\ status' = IF s0' = {} THEN "True" ELSE "False"
  /\ \E counterExamples \in BOOLEAN :
        pc' = IF s0' # {} /\ counterExamples THEN "explain" ELSE "idle"
  /\ UNCHANGED <<fsm, justice, useReach, prop, number, trace>>

(* The explanation starts from one of those states, which is the whole     *)
(* trace if there is no explanation.                                       *)
Explain ==
  /\ pc = "explain"
  /\ \E start \in PickOne(s0) :
        \E p \in ExplainRecur(context, <<start>>, prop) :
           trace' = IF p = Nil THEN <<start>> ELSE p
  /\ pc' = "idle"
  /\ UNCHANGED <<fsm, justice, useReach, prop, status, number, s0>>

CheckCompute ==
  /\ pc = "idle" /\ status = "Unchecked" /\ prop \in Computes
  /\ LET f == EvalCtl(context, prop[2])
         g == EvalCtl(context, prop[3])
     IN  number' = IF prop[1] = "MINU" THEN Minu(context, f, g)
                                       ELSE Maxu(context, f, g)
  /\ status' = "Number"
  /\ UNCHANGED <<fsm, justice, useReach, prop, pc, s0, trace>>

(* sigterm between the verdict and the trace: the status stays.            *)
Interrupt ==
  /\ pc = "explain" /\ pc' = "idle"
  /\ UNCHANGED <<fsm, justice, useReach, prop, status, number, s0, trace>>

(* prop_verify does not check a property that has a status.                *)
CheckAgain == pc = "idle" /\ status # "Unchecked" /\ UNCHANGED ctlVars

CtlNext == CheckCtlSpec \/ Explain \/ CheckCompute \/ Interrupt \/ CheckAgain

CtlSpec == CtlInit /\ [][CtlNext]_ctlVars

(***************************************************************************)
(* Properties.                                                             *)
(***************************************************************************)

(* Every trace is an execution of the machine: one state at every place,   *)
(* an input that labels a transition between two of them, an initial state *)
(* that violates the specification in front (ebg_explain: "transform       *)
(* witness_path from a list of sets of states into a list of states").     *)
ExplanationIsExecution ==
  trace # Nil =>
    /\ trace[1] \subseteq s0
    /\ \A n \in DOMAIN trace : \E x \in States \cup Inputs : trace[n] = {x}
    /\ \A n \in DOMAIN trace : n % 2 = 1 /\ n < Len(trace) =>
          /\ trace[n + 1] \subseteq fsm.invarInputs
          /\ trace[n + 2] \subseteq fsm.invarStates
          /\ trace[n] \X trace[n + 1] \X trace[n + 2] \subseteq fsm.trans
=============================================================================
