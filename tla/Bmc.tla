-------------------------------- MODULE Bmc --------------------------------
(***************************************************************************)
(* check_ltlspec_bmc, check_ltlspec_bmc_onepb, their incremental variants  *)
(* and gen_ltlspec_bmc (core/bmc/bmcBmcNonInc.c, bmcBmcInc.c): one         *)
(* satisfiability problem per bound, whose solutions are counterexamples   *)
(* of that length, with or without a loop.  A check never proves a         *)
(* property; what it leaves behind is the status of the property and the   *)
(* memo table of the tableaux, which the next check reads.                 *)
(*                                                                         *)
(* The solver is external: it answers with any path that satisfies the     *)
(* problem.  Specifications are over state variables: Prop_Rewriter has    *)
(* replaced inputs and next by then.                                       *)
(***************************************************************************)
EXTENDS BmcTableau

CONSTANTS Models,     \* [fsm, justice, session]: the machine a model describes,
                      \* its justice constraints, and the session with it,
                      \* [specs, opts, lengths, checks]: its LTL specifications,
                      \* the settings of the two tableau options, the values of
                      \* option -k and a bound on the number of checks
          AllLoops,   \* BMC_ALL_LOOPS
          Loops       \* the values of option -l

Options == [optimized : BOOLEAN, forcePltl : BOOLEAN]
Specs == UNION {m.session.specs : m \in Models}
Lengths == UNION {m.session.lengths : m \in Models}
Calls == [spec : Specs, kMax : Lengths, loop : Loops,
          incLength : BOOLEAN, solve : BOOLEAN, incSat : BOOLEAN, opts : Options]

VARIABLES
  fsm, justice, session,
  checks,      \* how many checks were started
  status,      \* Prop_ptr: the status of every specification
  memo,        \* ST_BMC_TABLEAU_LTL_HASH of the symbol table
  pc,          \* where the check is, "idle" between two commands
  call,        \* the arguments of the check
  increasingK,
  unrolled,    \* how many transitions the solver has
  groups,      \* the tableaux the solver has, as <<bound, loop>>
  found        \* the path of the counterexample, the empty sequence if none

problem == <<call, increasingK, unrolled, groups, found>>
bmcVars == <<fsm, justice, session, checks, status, memo, pc, problem>>

NoCall == <<>>
NoPath == <<>>

Forget ==
  /\ call' = NoCall /\ increasingK' = 0 /\ unrolled' = 0 /\ groups' = {} /\ found' = NoPath

BmcInit ==
  /\ \E m \in Models : fsm = m.fsm /\ justice = m.justice /\ session = m.session
  /\ status = [f \in session.specs |-> "Unchecked"]
  /\ memo = [key \in {} |-> {}]
  /\ checks = 0 /\ pc = "idle"
  /\ call = NoCall /\ increasingK = 0 /\ unrolled = 0 /\ groups = {} /\ found = NoPath

-----------------------------------------------------------------------------
(* Bmc_Utils_RelLoop2AbsLoop: a negative loop is relative to the bound.    *)
RelLoop2AbsLoop(loop, k) ==
  IF loop \in {NoLoop, AllLoops} THEN loop ELSE IF loop >= 0 THEN loop ELSE k + loop

Check_k_l(k, l) == l \in {NoLoop, AllLoops} \/ l \in 0 .. k - 1

loopback == RelLoop2AbsLoop(call.loop, increasingK)

(* The formula of the tableau, and which of the two tableaux is built.     *)
negated == Nnf(call.spec, FALSE)
pltl == ~isPureFuture(negated) \/ call.opts.forcePltl

(* Mutant: nested formulas are taken for shallow ones.                     *)
shortcut_Nested == call.opts.optimized /\ justice = <<>> /\ Depth(negated) <= 2

(* The shortcuts of option bmc_optimized_tableau, on paths with a loop.    *)
shortcut == call.opts.optimized /\ justice = <<>> /\ Depth(negated) <= 1

-----------------------------------------------------------------------------
(* The tableau of length k as a predicate on paths of states and inputs.   *)
States_of(path, k) == [n \in 0 .. k |-> path[n][1]]

Satisfies(path, f, t, k, l) == States_of(path, k) \in At(memo, pltl, f, t, k, l)

LoopCondition(path, k, l) == path[k][1] = path[l][1]
AnyLoop(path, k) == \E l \in 0 .. k - 1 : LoopCondition(path, k, l)

(* Bmc_Model_GetFairness on a loop.                                        *)
Fairness(path, k, l) ==
  \A n \in DOMAIN justice : \E t \in l .. k - 1 : path[t] \in justice[n]

NoLoopTableau(path, k) == justice = <<>> /\ Satisfies(path, negated, 0, k, NoLoop)

SingleLoopTableau(path, k, l) ==
  /\ LoopCondition(path, k, l) /\ Fairness(path, k, l) /\ Satisfies(path, negated, 0, k, l)

(* Loops that add nothing to the problem without a loop, and those where   *)
(* the loop matters but not the state it goes back to.                     *)
ShortcutTableau(path, k) ==
  CASE Depth(negated) = 0 \/ negated[1] \in {"F", "U"} -> FALSE
    [] Depth(negated) = 1 /\ negated[1] = "X" -> pltl /\ k = 1 /\ SingleLoopTableau(path, k, 0)
    [] Depth(negated) = 1 /\ negated[1] = "V" /\ ~pltl ->
         AnyLoop(path, k) /\ \A t \in 0 .. k - 1 : Satisfies(path, negated[3], t, k, 0)
    [] OTHER -> AnyLoop(path, k) /\ Satisfies(path, negated, 0, k, 0)

AllLoopsTableau(path, k) ==
  IF shortcut THEN ShortcutTableau(path, k)
              ELSE \E l \in 0 .. k - 1 : SingleLoopTableau(path, k, l)

(* Bmc_Tableau_GetLtlTableau.                                              *)
LtlTableau(path, k, l) ==
  CASE l = AllLoops -> NoLoopTableau(path, k) \/ (k > 0 /\ AllLoopsTableau(path, k))
    [] l = NoLoop -> NoLoopTableau(path, k)
    [] OTHER -> SingleLoopTableau(path, k, l)

(* The values that building it asks for, as <<formula, time, loop>>.       *)
ShortcutKeys(k) ==
  CASE Depth(negated) = 0 \/ negated[1] \in {"F", "U"} -> {}
    [] Depth(negated) = 1 /\ negated[1] = "X" -> {<<negated, 0, 0>> : n \in {1} \cap {k}}
    [] Depth(negated) = 1 /\ negated[1] = "V" /\ ~pltl ->
         {<<negated[3], t, 0>> : t \in 0 .. k - 1}
    [] OTHER -> {<<negated, 0, 0>>}

LoopKeys(k) ==
  IF k = 0 THEN {} ELSE IF shortcut THEN ShortcutKeys(k)
  ELSE {<<negated, 0, l>> : l \in 0 .. k - 1}

NoLoopKeys == IF justice = <<>> THEN {<<negated, 0, NoLoop>>} ELSE {}

Keys(k, l) ==
  CASE l = AllLoops -> NoLoopKeys \cup LoopKeys(k)
    [] l = NoLoop -> NoLoopKeys
    [] OTHER -> {<<negated, 0, l>>}

-----------------------------------------------------------------------------
(* The command checks its arguments; a specification that is not Unchecked *)
(* is left alone.                                                          *)
StartCheck(c) ==
  /\ pc = "idle"
  /\ c.spec \in session.specs /\ c.opts \in session.opts /\ c.kMax \in session.lengths
  /\ c.incSat => c.solve
  /\ Check_k_l(c.kMax, RelLoop2AbsLoop(c.loop, c.kMax))
  /\ status[c.spec] = "Unchecked"
  /\ checks < session.checks /\ checks' = checks + 1
  /\ call' = c /\ pc' = "generate"
  /\ increasingK' = IF c.incLength THEN 0 ELSE c.kMax
  /\ UNCHANGED <<fsm, justice, session, status, memo, unrolled, groups, found>>

(* A bound that is too short for the loop.                                 *)
SkipBound ==
  /\ pc = "generate" /\ increasingK <= call.kMax
  /\ ~Check_k_l(increasingK, loopback)
  /\ increasingK' = increasingK + 1
  /\ UNCHANGED <<fsm, justice, session, checks, status, memo, pc, call, unrolled, groups, found>>

(* Generates the problem.  An incremental solver keeps the transitions it  *)
(* has and gets the tableau in a group of its own; the other one is new.   *)
Generate ==
  /\ pc = "generate" /\ increasingK <= call.kMax
  /\ Check_k_l(increasingK, loopback)
  /\ memo' = LET Add(key, m) == Memoise(m, pltl, key[1], key[2], increasingK, key[3])
             IN  FoldSet(Add, memo, Keys(increasingK, loopback))
  /\ IF call.solve
       THEN /\ unrolled' = IF call.incSat THEN Max({unrolled, increasingK}) ELSE increasingK
            /\ groups' = (IF call.incSat THEN groups ELSE {}) \cup {<<increasingK, loopback>>}
            /\ pc' = "solve" /\ UNCHANGED increasingK
       ELSE increasingK' = increasingK + 1 /\ UNCHANGED <<pc, unrolled, groups>>
  /\ UNCHANGED <<fsm, justice, session, checks, status, call, found>>

(* Init0 and the unrolling of the transition relation, with the invariant. *)
Paths(n) ==
  {path \in [0 .. n -> Pairs] :
     /\ path[0][1] \in InitRegion(fsm)
     /\ \A t \in 0 .. n - 1 :
          /\ <<path[t][1], path[t][2], path[t + 1][1]>> \in fsm.trans
          /\ path[t + 1][1] \in fsm.invarStates}

Solutions == {path \in Paths(unrolled) : \A g \in groups : LtlTableau(path, g[1], g[2])}

(* The specification is reported false.                                    *)
Satisfiable ==
  /\ pc = "solve"
  /\ found' \in Solutions
  /\ pc' = "report"
  /\ UNCHANGED <<fsm, justice, session, checks, status, memo, call, increasingK, unrolled, groups>>

(* "no counterexample found with bound k".                                 *)
Unsatisfiable ==
  /\ pc = "solve"
  /\ Solutions = {}
  /\ groups' = groups \ {<<increasingK, loopback>>}
  /\ increasingK' = increasingK + 1
  /\ pc' = "generate"
  /\ UNCHANGED <<fsm, justice, session, checks, status, memo, call, unrolled, found>>

(* Prop_Rewriter_update_original_property, at the end of the check.        *)
EndCheck ==
  /\ pc = "report" \/ (pc = "generate" /\ increasingK > call.kMax)
  /\ status' = IF pc = "report" THEN [status EXCEPT ![call.spec] = "False"] ELSE status
  /\ pc' = "idle"
  /\ Forget
  /\ UNCHANGED <<fsm, justice, session, checks, memo>>

(* SIGINT while a check runs: what was memoised stays, a verdict that has  *)
(* not been copied to the specification is lost.                           *)
InterruptCheck ==
  /\ pc # "idle"
  /\ pc' = "idle"
  /\ Forget
  /\ UNCHANGED <<fsm, justice, session, checks, status, memo>>

BmcNext ==
  \/ \E c \in Calls : StartCheck(c)
  \/ SkipBound \/ Generate \/ Satisfiable \/ Unsatisfiable \/ EndCheck \/ InterruptCheck

BmcSpec == BmcInit /\ [][BmcNext]_bmcVars
=============================================================================
