# A verification project for NuSMV

NuSMV (src/) reads a finite state machine in the SMV language and checks
invariants, CTL, LTL and PSL properties of it with BDDs and with SAT. This
directory holds TLA+ models of its model-checking core, TLC configurations that
check them on small instances, and TLAPS proofs of the most important theorems.

All line numbers are in `src/`; `core/` stands for `src/code/nusmv/core/`.
PROJECT.json maps every definition to the lines it models.

## 1. Inventory

| component | state | operations | interacts with |
|---|---|---|---|
| BDD machine, `core/fsm/bdd` | init, state and input constraints, transition relation, justice; a cache shared by the copies of a machine: layers, `computed`, fair states, deadlock states | images, `expand_cached_reachable_states`, distances, fair states, product, copy | encoders, every BDD check, `compute_reachable` |
| Invariant check, `core/mc/mcInvar.c` | rings forward and backward, frontiers, target, trace lists | `check_invar` with five strategies | reads and replaces the layer cache; BMC for the gap; traces; property status |
| AG-only, `core/mc/mcAGonly.c` | conjunct, verdict, trace | `check_ctlspec` with `ag_only_search` | completes the layer cache |
| CTL, `core/mc/mcMc.c, mcEval.c, mcExplain.c` | fixpoint sets, the path of an explanation | `check_ctlspec`, `compute` | fair states, reachable states, traces |
| Language emptiness, `core/mc/mcLE.c`, `core/fsm/bdd/bddMisc.c` | options saved while the forward algorithm runs | `_language_emptyness`, `check_ltlspec` on the product | fair and reverse fair states |
| LTL, `core/ltl` | tableau module, product machine | `check_ltlspec` | symbol layers, a copy of the machine and its cache |
| BMC, `core/bmc`, `core/bmc/sbmc` | bound, solver, unrolled problem, memo table of the tableaux | bounded and inductive loops, simulation | time-indexed encoder, SAT solver, traces |
| SAT, `core/sat` | groups, permanent clauses, model, conflict | add, solve, groups | Minisat or zchaff (external) |
| Boolean expressions, `core/rbc, dag, be` | shared graph, variable indices | build, CNF, substitute | time-indexed encoder |
| Encoders, `core/enc` | committed layers, variables, cache of encodings | commit and remove a layer, shift | symbol table, DD manager |
| Symbols, `core/compile/symb_table` | symbols, layers, sharing between encoders | declare, add, remove | encoders, FSM builder |
| Compiler, `core/compile` | flags of the phases that were performed, hierarchy, flattened expressions, types | flatten, check, build, cone | parser, symbol table |
| Properties, `core/prob/prop` | status, trace number, FSMs per property | add, verify, set status | all checks |
| Traces, `core/trace` | registered traces, current trace, frozen flag | register, print, execute | checks, simulator |
| Simulation, `core/simulate` | current state and trace | pick, simulate, goto | machine, traces |
| Options, `core/opt` | value, default and triggers per option | set, reset, register | everywhere |
| Errors, `core/utils/ErrorMgr.c` | stack of jump buffers | CATCH, FAIL, long jump | everywhere |
| Shell, `src/code/nusmv/shell` | aliases, history, flags for what has been built | read, dispatch, SIGINT | all of the above |

The rest (parser, printers, normalizers, HRC dumps, automata library,
predicate normalisation, compass, watchdog, profiler, doc, examples) does text
or is not reached by the commands; PROJECT.json lists it with its reason.

### How the parts modelled here interact

A command runs to its end before the next one starts: there is one thread. Four
things make the histories of a session hard all the same.

* *Shared caches.* `compute_reachable`, `check_invar`, `check_ctlspec` and the
  functions on distances read and write one list of layers. A command may stop
  early (`-k`, `-t`) and leave a partial list that another command resumes. The
  fair states are cached too, under an option that may change between commands.
* *Phases.* A model is read, flattened, encoded and built by commands that set
  flags (`core/compile/compileStruct.c`), fill the environment and commit layers
  to encoders. Each checks flags of others, may fail half-way with a long jump,
  be forced to run twice, or be followed by `reset`. With a cone of influence a
  property makes machines of its own on the way.
* *Interrupts.* In interactive mode SIGINT leaves the command by a long jump
  (`shell/cmd/cmd.c:883-901`) between any two steps. Locals are lost, the
  objects reachable from the environment stay as they are.
* *Choices.* The heuristics that order forward and backward steps depend on BDD
  sizes or on thresholds, and picks of a state or an input depend on variable
  order: to the properties all of them are nondeterministic.

### Hard behaviours and what makes each component correct

* *Reachability.* The layers are the balls around the initial region although
  each iteration images only the frontier and a call may resume what an earlier
  one left; `computed` is set only for the exact set; no cut-off or interrupt
  loses a layer; a call without limits ends.
* *Invariant check.* The verdict is right whatever is cached and whichever
  strategy runs; the two searches cannot pass each other; the reconstruction
  never fails, and yields an execution of minimal length; what is cached
  afterwards is what other commands rely on; the check ends.
* *Fair states.* Three nested fixpoints end and compute exactly the pairs from
  which a fair path starts (or which lie behind a fair cycle), in a cache that
  outlives a change of the option it was computed under.
* *CTL.* Every operator, nested, has its meaning over fair paths; an explanation
  should be an execution of the machine and show what it is printed for, although
  it is first a path of sets, from which states are picked backwards.
* *BMC.* A problem is satisfiable exactly when a counterexample of that length
  and loop exists: the two tableaux, the shortcuts for shallow formulas, the
  memo table, the loop options and the incremental groups all agree on that.
* *Session.* A flag that is set means that what it stands for exists; no
  assertion of the code fails; encoders use layers that exist; a jump buffer
  belongs to a frame that is active; after `reset` nothing is left.
* *AG-only.* The verdict is that of the formula, the walk back through the
  distances never gets stuck, its states are a shortest path and its inputs fit.

`hazards` in PROJECT.json has the list by source line.

## 2. Modules

| module | models | state and actions |
|---|---|---|
| `Fsm` | `BddFsm` as data, the images (`core/fsm/bdd/BddFsm.c`) | a record of sets; no state |
| `BddReach` | `BddFsm_expand_cached_reachable_states`, the layer cache, `compute_reachable`, distances | `layers`, `computed` are the cache; `rings`, `frontier`, `steps`, `timed` the locals. `StartExpand` is the prologue, `ExpandStep` one iteration, `FinishExpand` the epilogue, `InterruptExpand` SIGINT |
| `OnionCache` | abstract: what the cache promises its readers, whoever writes it | `Publish`: add layers that are balls, mark complete only what is closed |
| `McInvar` | `check_invariant_forward_backward_with_break`, `compute_and_complete_path` | `StartCheck` is the prologue, one action per branch; the reconstruction is `StepForth`, `TurnBack`, `StepBack`, `ReturnTrace`. It EXTENDS `BddReach`, so both commands run on one cache |
| `McAGonly` | `Mc_CheckAGOnlySpec` | the conjunct walk and the counterexample walk, over the actions of `BddReach` and `McInvar` |
| `FairStates` | the Emerson-Lei fixpoint with its cache, `_language_emptyness`, `check_ctlspec` on EG and AF, `print_fair_transitions` | `cachedPairs`, `cachedStates` are the four fields of `BddFsmCache`; `res`, `old`, `just`, `partial`, `resY`, `newY` the locals of the three loops. `GfpStep`, `NextJustice`, `UntilStep`, `UntilEnd`, `JusticeEnd`, `GfpEnd` are the loop heads and bodies; `StartFair`, `ProjectStates` the functions that fill the cache; `StartEg`, `EvalEgTrue` are `eg` |
| `McCtl` | `eval_ctl_spec` with all of `mcMc.c`, `check_ctlspec`, `check_compute`, the explanations of `mcExplain.c` | operators named after the functions (`Eu`, `Ebu`, `Abu`, `EgExplain`, ...); `pc` separates the verdict from the trace, an interrupt may come between |
| `BmcTableau` | `wff2nnf.c`, depth, `bmcTableauLTLformula.c`, `bmcTableauPLTLformula.c`, loop conditions and fairness | operators; the memo table is an argument and a result |
| `Bmc` | `bmcBmcNonInc.c`, `bmcBmcInc.c`, `bmcTableau.c` and `bmcUtils.c` (shallow formulas, loops), `bmcModel.c` | `memo`, `status` outlive a check; `increasingK`, `unrolled`, `groups` are the loop and the solver |
| `Session` | the commands that read, flatten, encode, build, check and reset, with `ErrorMgr`, the environment and its assertions, symbol layers and encoders, machines kept by a property | `flags`, `env`, `layers`, `committed`, `prop`, `coi`; `todo` is what the running command has left to do, `pos` the number of jump buffers |
| `Phases` | abstract: what the flags of `cmps` promise | perform a phase after those it needs, discard, quit |
| `Lassos` | reference: fair paths as ways into loops | no state; the fair-state commands are compared with it by TLC and in `FairStates_proofs`, CTL and BMC by TLC |
| `MC*` | instances for TLC | constants, reference definitions that only TLC needs |
| `*_proofs` | theorems | see section 6 |

A BDD over state variables is the set of states it denotes, one over state and
input variables a set of pairs, the transition relation a set of triples.
Reference counts, cubes and masks are left out, and so is logging.

Operators whose names end in a suffix (`ExpandStep_CountsDown`) are altered
copies of the definition that follows them, each with one plausible bug; they
are not used by any specification. Each property of a run has one that breaks it.

### What the modules abstract from

`FairStates` stands on `Fsm` and not on `BddReach`: with option
`use_reachable_states` its images call `BddFsm_get_reachable_states`, which is
`Reachable(fsm)` there because `BddReach_proofs` shows that a complete cache is
exact and that a call without limits completes it. `mcMc.c:443-525, 1285-1379`
repeats the three loops for `eg`; they differ from those of `BddFsm.c` in the
names of the locals only, and the model has them once, with `goal` to say for
whom they run.

`McCtl` evaluates a formula in one step, since nothing it does is seen from
outside before the verdict; the steps of the fair states, which other commands
see, are in `FairStates`. A path under construction is a list of sets of states
and inputs, as in the code, and the explanation is the *set* of paths that the
picks may yield: `mcExplain.c` picks with a BDD operation whose result depends on
the variable order. One property is checked at a time; `use_fair_states` has its
default value.

`BmcTableau` takes a propositional problem for the set of words over states that
satisfy it, and an atom for the set of states it holds in: `Prop_Rewriter` has
replaced inputs and `next` by then. `<->`, `xor` and `case` are expanded before
negation normal form and left out. `Bmc` takes the solver for external: any path
that satisfies the problem may be its answer. The permanent group of the
incremental solver is the transitions unrolled so far, the other group the
tableau of one bound and loop. The memo table is one function from formula, time,
bound and loop to words, for the session, since both tableaux write the one
table of the symbol table. A loop equates state variables only. A check never
sets a status to true. An interrupt before the verdict has been copied by
`Prop_Rewriter_update_original_property` loses it.

`Session` takes a command for the sequence of its effects on what commands share:
setting a flag, storing or reading an object of the environment, creating,
committing or removing a layer, a CATCH, a point where an error may jump. Each
effect is a step, so that an interrupt or an error can come between any two, and
each assertion of the code is checked where the code has it. `reset` has steps
too, with the gap in which there is no `cmps`. The model that is read has
nondeterministic assignments, so a determinization layer has variables; it may
have processes, syntax errors, and a property that fails to type. One property is
followed. Assertions are enabled: without them what follows is undefined.

## 3. Runs

| run | instance | shows |
|---|---|---|
| `reach` | every machine over 3 states and one input with every choice of initial region and state constraint, and every one over 2 states and 2 inputs; limits 1, 2, none | layers, partial and complete caches, growth, implementation of `OnionCache`; distances are the lengths of shortest paths, which `BddReach` defines by paths; an unlimited call completes |
| `invar` | every 3-state graph, all 8 invariants, heuristics `smallest` (any order of steps) and `bdd-bmc` (BMC up to length 2), `counter_examples` on and off | verdict, cache, meeting of the searches, counterexample, implementation of `OnionCache`; every check ends, from whatever cache |
| `long_invar` | 4-state graphs with branches of different lengths and two inputs, 6-state chains with shortcuts, all strategies but `smallest`, BMC up to length 3 | the same on longer paths and inputs that matter, and the binary search, for which a cache needs at least four layers |
| `ag_only` | 4-state diamonds with two inputs, after every history of the other commands | the AG shortcut |
| `fair` | 3-state machines where one state has a cycle of its own and may be out of reach, 2-state machines with two inputs, one of which may be forbidden; none, one or two justice constraints; EG and AF specifications, every order of commands, option changes and SIGINT | the cached pairs are fair and miss no reachable fair pair; the reverse ones lie behind a reachable fair cycle; every answer is the one that lassos give (`RightAnswer`); every command ends |
| `ctl` | 3-state machines with one input and all choices of transitions from two states, 2-state machines with two inputs; two justice lists and none; 36 specifications with all operators and connectives, nested and bounded, with ranges that start late and with empty ones; three MIN/MAX computations | `CtlAnswersAreRight` compares with `Means`, over walks and lassos; `ExplanationIsExecution` and `ExplanationShowsViolation` compare the trace with the machine and with the formula. The two kinds of bounded formula whose explanation goes wrong are left out and described in section 4: some of the until (`bounded_until`), and EBG and ABF with a range of one length, or none, where no fair state at its start satisfies what is looked for |
| `bmc` | two 3-state machines with early loops (a choice at every state, a loop left for ever), 21 specifications with one check each under the tableau options, and sessions of two checks that share the memo table, at length 2; a machine that goes from `a` round `b` and `c`, 11 specifications about what recurs, what came before and what the loop comes back to, at length 3; three justice lists, all loop options, both solvers, fixed and increasing length | a reported path is an execution and a counterexample; none within the bound is missed |
| `session` | 21 commands and forms of commands in every order, the option, errors and SIGINT | flags and objects agree; the assertions that can fail are the seven of `KnownFailures`; layers of encoders exist; jump buffers balance; machines of a property have their layers; `reset` leaves nothing; the flags implement `Phases` |

### Bounds, and why they are enough

Three states are enough for a resumed cache (one layer, then two), a fixpoint
that coincides with a limit, an empty initial region, a machine whose transitions
leave the constraints, and forward and backward searches that meet in the middle;
four and six states add the cases that need longer paths (two non-trivial
frontiers for BMC with explored states on both sides, and a binary search of more
than one probe). `Bounds` holds the values of `-k`; larger ones behave like no
limit on these machines. `MaxK`, the BMC length of `check_invar`, is 2 or 3;
longer paths do not exist in the gap of these machines. For the fair states, two
constraints that no single state satisfies need a cycle through several states
and several turns of all three loops, a cycle out of reach tells the two values
of the option apart, and a constraint that holds with one input and not with the
other tells pairs from states.

The value of `-k` in a session of `Bmc` is 2 on the machines with early loops:
with loops to 0 and 1, none and all, a past operator that looks across the loop
occurs. It is 3 on the machine whose loop of two states leaves the first state of
the path behind: times wrap round to the middle of the path, and a constraint
met only before the loop does not count. The problem without a loop is compared
with all its continuations by three more steps.
`checks` bounds the number of checks in a session of `Bmc`, two where the memo
table matters. `MaxJmp` is 20 in `Session`, as in the code (`ErrorMgr.c:66`); five
buffers nest at most, and the run shows that none is leaked. All commands of
`Session` may be repeated for ever.

### Fairness

A command that runs is never left alone, so the steps of a running command are
weakly fair in `FairSpec` (`invar`) and `FairLiveSpec` (`fair`); starting a
command, changing an option and SIGINT are the user's choice and are not fair.
A check that is interrupted has ended, and `CheckTerminates` and `CommandEnds`
hold with interrupts. `BddReach`, `McCtl`, `Bmc` and `Session` are checked for
safety only: their specifications have no fairness.

## 4. Runs that show a disagreement

| run | what it shows |
|---|---|
| `ag_trace` | `mcAGonly.c:182-192` picks the input of a step from those of the whole pre-image and the state on its own, so the printed "execution sequence" may have an input its state does not allow |
| `bounded_until` | `mcExplain.c:574`: the state in which the layers of a bounded until end is picked without regard to `f`. The counterexample of `! E [!c BU 1..2 a]` may pass through `c` |
| `bmc_past` | `bmcTableauPLTLformula.c:293`: without a loop, a release is evaluated over the finite prefix. `O a -> (!c U c)` holds in a model where `c` is always reached, and is reported false. Only formulas with past operators, or option `bmc_force_pltl_tableau`, use this tableau |
| `jump_buffers` | `print_reachable_states -o` with a file that cannot be opened returns inside a CATCH (`bddCmd.c:517`). `ErrorMgr.h:124` warns of this. The run `session` is without this command |

None of these makes a verdict of BDD-based checking wrong: `VerdictIsRight`,
`AGVerdictIsRight`, `AnswersAreRight` and `CtlAnswersAreRight` hold in every run.

More places read differently from what is written about them; no run is about
them.

* The explanation of a bounded globally has no execution to show when
  `sup <= inf` and no fair state of its argument is `inf` steps away. The second
  counting loop of `ebg_explain`, which looks at the argument, does not run, the
  state to end in is picked from the empty set (`mcExplain.c:841-842`), and the
  path is overwritten with empty sets back to its first state. That is so for
  `EBG 2..2 c`, `AG EBG 2..2 c` and `ABF 2..1 b` when they are false for that
  reason (`BoundedGloballySpecs` in `MCMcCtl`; with `Specs` set to it,
  `ExplanationIsExecution` fails with `<<{}, {}, {}, {}, {}>>`); the trace is
  announced as an "execution sequence" all the same. A true `EBG n..n`, explained
  below a negation, and a false `EBG m..n` with `m < n`, which has no explanation,
  are fine and in the run `ctl`. The verdicts are right: `CtlAnswersAreRight`
  holds of these formulas too.
* A forward `check_invar` that reaches the fixpoint caches the last ring twice
  (`mcInvar.c:1327`), `compute_reachable` drops it, so the diameter depends on
  who computed it. After a resumed partial cache, `forwardStep > diameter`
  (`mcInvar.c:1322`) is off by one and a single new ring is not cached.
* `check_AG_only` makes the result false for a conjunct that is not an AG
  (`mcAGonly.c:298`), while formulas with at most one AG under any connective
  are accepted. `BddFsm_get_distance_of_states` tests inclusion in one
  exact-distance set, its header promises the maximum.
* An interrupt of the forward language emptiness leaves option
  `use_reachable_states` set, which `bddMisc.c:205` calls temporary; the model
  has this, and every later answer is still right.
* `maxu` warns and answers 0 when no state is fair (`mcMc.c:953`).
* The seven assertions of `KnownFailures` in `Session` fail in sequences of
  commands without any interrupt: `read_trace` under a cone of influence without
  a flat model; flattening a model with processes again after an error in a
  property; `encode_variables` again after an error in the ordering file;
  `build_model -f` and `build_boolean_model -f` on what is built; checking again
  a property whose machines were left half-built; `bmc_setup` with a
  determinization layer made after the encoder. An assertion says that its
  author did not expect the sequence; in each case the command could have
  refused with a message. The list is a property (`OnlyKnownAssertionsFail`), so
  an eighth would be noticed.
* `convert_property_to_invar` (`propCmd.c:957`) and the constraint parser of the
  simulator (`simulate.c:675, 686`) leave a CATCH in the same way as
  `print_reachable_states`.

## 5. What is only model-checked

The properties of `McCtl` and `Bmc`; of `Session`, `OnlyKnownAssertionsFail`; all
liveness.

* `McCtl`, `BmcTableau` and the modules on them use RECURSIVE operators, which the
  prover cannot take, and what they compute needs induction over formulas
  (`CtlAnswersAreRight`, `ExplanationIsExecution`, `ExplanationShowsViolation`,
  `CounterexamplesAreReal`).
* `OnlyKnownAssertionsFail` is not true for every value of the constants: with a
  stack of few jump buffers, or with `print_reachable_states`, which leaks one in
  each failure, the assertion on the size of the stack fails too
  (`ErrorMgr.c:66`). For `MaxJmp` as in the code it would need that each object a
  command asserts to be *absent* is absent, which the facts of `Promises_proofs`
  (what is present) do not say.

## 6. Proofs

`Fsm_proofs` has the facts on images: they are monotone, `Reachable` is the
least closed set around the initial region, and imaging the frontier adds as
much as imaging the whole last layer (`FrontierStep`), which is why the code may
do so.

`BddReach_proofs` proves, from `MachinesAssumption` and `BoundsAssumption` alone
and for every set of states and inputs, finite or not (but for the distances):
`ReachTypeOK`, `LayersAreOnion`, `PartialHasFrontier`, `CompleteIsExact`,
`CacheOnlyGrows`, `UnlimitedCallCompletes`, `NoRepeatedLayer`, and that
`ReachSpec` implements `OnionCache` (`OnionSpec`).

The inductive invariant is `ReachInv`. `CompleteIsExact` is not inductive: that
the last layer is exact needs that it is closed and lies between the initial
region and `Reachable` (`CompleteIsClosed`, `Between`). That dropping the last
ring loses nothing needs three facts about the running loop (`LoopInv`): the
frontier is the difference of the last two rings, the rings extend the cached
layers, and an empty frontier means that there is a ring the cache does not have;
the last follows from `PartialHasFrontier`, since a partial cache was left with a
frontier. There is one lemma per action, and the theorems follow from `ReachInv`.
`UnlimitedCallCompletes` uses that a loop without limits ends with an empty
frontier only. `NoRepeatedLayer` needs a second invariant (`RingsDiffer`):
neighbouring rings of a running loop differ, but perhaps for the last two. These
differ exactly while the frontier is not empty (`FrontierTellsRingsApart`), and
when it is empty `FinishExpand` drops the last.

`DistancesAreShortestPathsCorrect` assumes in addition that there are finitely many
states, as in the code. A layer is the set of states that end a path of at most so
many steps (`PathEndsStep`; the induction is a least counterexample, `LeastNat` in
`Fsm_proofs`). A distance that the operation answers is the first layer that meets
the set, which gives the shortest path; conversely a path that stays among the
states of a complete cache has no more steps than layers, and there are no more
layers than states, since each adds a state (`NoRepeatedLayer`) and the first has
one (`FirstIsInhabited`).

`FairStates_proofs` proves every safety property of the run `fair`, for every
machine, every list of justice constraints and every order of commands, option
changes and interrupts: `FairTypeOK` and `CachedPairsAreFair` from
`FairAssumption` alone, `AnswersAreRight` and `ReverseFairIsBehindFairCycle` for
finitely many states and inputs, which the code has because every variable has a
finite range.

The inductive invariant is `FairInv`: types, what the loops keep (`LoopInv`), and
`CacheInv`, that a cached set is the greatest self-fair set of pairs, in its
direction and under some value of the option. A set is self-fair when every pair
has a step to a pair of the set from which each constraint holds again within
the set, after a way through the subspace; `Until` states "after a way" as a
least set, without recursion. `KeptInv` says that every self-fair set is still
within `res`. `TurnInv` says that `partial` is what recurs up to the current
constraint, `UntilInv` that the inner set lies between its target and `Until` and
only its frontier has not been imaged, so that an empty frontier makes it equal
to `Until` (`EXAdditive`: the image of a union is the union of the images).
`GfpInv` then makes the final `res` self-fair. The step from `CacheInv` to
`CachedPairsAreFair` is about the option: what is self-fair within the reachable
states is self-fair (`ReachableFairIsFair`), and the reachable part of a self-fair
set is self-fair within the reachable states, since no transition leaves them
(`ReachablePartIsFair`).

The two other properties speak of paths, as `Lassos` defines them. `After`, what
can be reached by at least one edge, is a recursive function over the number of
steps; it is met by the ends of walks that may pause (`PauseEnds`), hence has a
value that obeys its recursion, and it has stopped growing after as many steps as
there are pairs (`GrowthStops`): this is where finiteness is needed. Then

* the pairs of a self-fair set can reach a loop through all constraints
  (`SelfFairIsFair`): a pair of the set from which least can be reached has the
  same pairs after it as any pair it leads to, so it comes back from wherever a
  constraint holds (`FairLoopIsReached`);
* the pairs from which such a loop can be reached are self-fair
  (`FairIsSelfFair`), so the greatest self-fair set is exactly those pairs;
* forward, both hold with every edge turned round (`Back`, `FairLoopsTurnRound`),
  and what lies "before" a loop then lies behind it (`FairFromTurnedRound`).

`ReadInv` carries this to the commands: a cache holds at most one set, the cached
states are those of the cached pairs (`OneInv`); the forward algorithm only runs
with the option set, whatever it was before, so that its cache is cut down to the
reachable pairs (`CmdInv`, `ReverseInv`); while `eg` runs, the cache it computes
within stays (`SpaceInv`); and the result of `eg` has the right initial states
(`EgInv`), although it may lack fair states that are not reachable, which no
answer looks at (`EgIsRight`). Forward emptiness looks for a reachable fair loop
instead of an initial state with a fair path; `FairLoopIsBehindInit` says that
one exists exactly when the other does.

`McInvar_proofs` proves every safety property of `check_invar` that the runs
check, and that checks, `compute_reachable` and SIGINT in any order implement
`OnionCache`. It assumes `MachinesAssumption`, `BoundsAssumption` and the four
assumptions of `McInvar`: the states and inputs may be infinite, the strategies,
invariants and the BMC bound are any.

The inductive invariant is `McInv`. `VerdictIsRight` alone is not inductive: why
a verdict is right lies in the two lists of sets that a search builds.

* `CheckRings` and `CheckBadRings` say what the lists are: rings that extend the
  cached layers, and backward images of the bad states, every one of which meets
  the reachable states only if a bad state is reachable (`LeadsToBad`, kept by
  `LeadsBack`).
* `SearchInv` says that the search looks at enough although it compares new
  frontiers only: `target` is all the two last sets have in common, and the set
  before the last on either side is disjoint from the last of the other
  (`ForwardMeet`, `BackwardMeet`). An empty frontier then closes one side
  (`FixpointClosed`, `BackFixpointUnreached`).
* For strategy bdd-bmc, `GapIsClosed` shows that the machine BMC is given, which
  starts in the frontier and avoids what was explored, is enough: if it cannot
  reach the bad frontier, the last ring together with what it reaches is closed
  and has no bad state.
* `PathInv` is why the reconstruction never fails: the lists still to go through
  are beginnings of the rings (`ToGo`), and the end of the path is in the next
  set and not in the one after it, so that its image or pre-image must meet the
  latter (`BackIsPossible`, `ForthIsPossible`). `Labelled` carries the inputs.
* `TraceKept` keeps the trace right until the next check, whatever other commands
  do to the cache in between.

There is one lemma per action, and `McInvariant` combines them. Where a proof
needs induction, on the length of a path or a list, it takes the least number
for which the claim fails and refutes it; `LeastNat`, that there is one, follows
from the library's theorem on finite sets ordered by inclusion.

Its last part proves `TraceIsShortest`. The reference, `Balls`, is a recursive
function; `BallsAreBalls` shows that it satisfies its equation, since the ends of
walks that may pause do (`EndsStep`). `MeetMoves`: what a ball does not meet of a
backward set, a larger ball does not meet of the bad states, so `SearchInv` bounds
the length from below. `GapIsShort` does the same for BMC: the first walk that
meets the bad states' last set never pauses or turns back
(`FirstArrivalHurries`), hence it is a path of the gap machine
(`FirstMeetIsGapPath`), and the loop over lengths would have found it earlier. The
invariant, `ShortInv`, counts the states of the path and of the lists still to go
through, a sum the reconstruction does not change.

`McAGonly_proofs` first shows that every step of an AG-only check is, for the
rest, a step of the other commands (`AGImplementsSpec`), so that all the above
holds in such sessions too. `AGInv` adds what the two walks keep: nothing has been
answered while conjuncts are left, and the first state of the path is at the
distance the walk has reached, below the least distance of a violation
(`WalkInv`). `AGVerdictIsRight`, `WalkNeverStuck` and `AGStatesAreShortestPath`
follow.

`Session_proofs` is about sessions of any length with any of the commands and any
size of the stack of jump buffers (`CommandsAssumption`, `MaxJmpAssumption`). The
inductive invariant is `SessInv`. Its part `TodoInv` says what the list of what
is left to do is made of: effects that the commands have (`Effects`; one lemma per
function says that its body consists of them), with one buffer on the stack for
each CATCH that is being executed (`Stacked`). `SessionTypeCorrect` follows.
`print_reachable_states` may return from inside its CATCH and leave a buffer
behind, so that `pos` may exceed what the list accounts for; the guard on `MaxJmp`
still bounds it. `JumpBuffersBalanceCorrect` is for sessions without that command,
as the run is; the run `jump_buffers` shows what happens with it.
`ResetIsFresh` needs an invariant of its own, `ResetInv`: the last effect of a
reset stands behind exactly those of the reset that are left (`ResetShape`), and
each one that has been done leaves what it is there for (`ResetFacts`: no
property, no layer, no encoder, no machine). An interrupt drops the whole list, so
that the last effect is only reached after all the others.

`Phases_proofs` shows that sessions implement `Phases` (`PhasesCorrect`), under the
same two assumptions. That the flags keep their order now is not inductive: the
order is kept because of what a running command still has to do. `PhInv` says,
beside that the flags are closed under what they need (`Closed`; but for
`bmc_init`, which quitting takes back before the others), three things of that
list. `Covered`: the flags an effect needs are set, or set by an effect before it,
and nothing before it loses a flag; or an effect before it leaves the list, so that
it is never reached. `Fresher`: what belongs to the flattening of a model, the
handler that discards `read_model` included, only stands in the list while no
later flag is set and behind no effect that sets one. `AllRight`: the effects are
of the forms that the commands have. There is one lemma per function for its body
(`...Fits`, `...Tame`) and lemmas on catenation, on what is left when the first
effect is done, and on jumps: the handlers to which an error or an interrupt goes
consist of effects that need and set nothing (`Calm`). TLC checked the invariant on
the instance of the run `session` before it was proved.

`Promises_proofs` proves `FlagsKeepTheirPromise`, `CommittedLayersExist` and
`OwnMachineHasLayer`, for every set of commands and size of the stack of jump
buffers. None is inductive: a command checks at its start that an object exists and
uses it many effects later. The proof speaks of *facts* (`Facts`): an object is in
the environment, a layer exists, a layer is committed to an encoder. An effect
wants facts (`Wants`: setting a flag wants what the flag promises) and yields facts
(`Yield`). The invariant `PromInv`, beside those of the two modules before, has
three parts.

* `Safe` is about the list of what is left to do. Nothing is wanted between an
  effect that loses facts and one that leaves the list (`Cut`); what undoes a
  flattening is followed by the unsetting of `read_model`, and what wrecks the
  objects by the end of a reset (`Followed`), so that the time in which a flag is
  set and its object is gone ends before the next command; and no reset stands
  behind a command that another one runs (`Ordered`).
* `Unarmed` is about interrupts: one that comes while a reset may still follow is
  warned of, after which the promises are off until the next reset.
* `Kept` says that, unless the session is between a loss and its repair or has been
  warned, every effect left finds what it wants among the facts or yielded by an
  effect before it, or the list is left before (`Supplied`), and that the promises
  and the two other properties hold (`Sound`).

`Phases` is needed here: a phase whose guard looks at one flag relies on the promises
of the flags under it, which are set because the flags are closed (`Encoded` gives
`Basics`). For each function there is a lemma that its body, in a state in which its
guard lets it start, is supplied and safe; for each effect, one that it yields what
it should and loses only what it may (`Secures`); and lemmas on catenation and on
the lists that jumps and interrupts leave.

Out of the prover's reach and left to TLC: liveness (`CheckTerminates`,
`CommandEnds`), and what recursive operators compute over formulas (section 5).

## 7. Not modelled, and why

* *LTL with BDDs* (`core/ltl`): `ltl2smv` writes a module as text, which is
  parsed, flattened and multiplied with the model. What it ends in, emptiness of
  a machine with justice, is `FairStates`. Compassion, `core/ltl/ltlCompassion.c`,
  is not reached by a model without compassion constraints.
* *Simple BMC* (`core/bmc/sbmc`) is a second encoding of the same question, with
  loop variables; `Bmc` has the first. k-induction as a command of its own and
  BMC simulation are left out; the strategy of `check_invar` that uses induction
  is in `McInvar`.
* *Data structures below the sets*: decision diagrams (an external library),
  `rbc`, `dag` and CNF conversion, the index arithmetic of `BeEnc`, clusters and
  early quantification. They must not change a result; their correctness is
  about data of a size that says nothing in a small instance.
* *Walks over expressions*: flattening, type checking, dependencies, predicate
  normalisation, printers, parser, HRC. `Session` has when they run, what they
  leave and where they may fail. Most of the source lines are of this kind.
* *Traces, simulation*: registration of traces, their plug-ins, and the choice of
  a path by the user have no verdict.
* *Options*: those whose change between commands affects what is cached are in
  the models; triggers are not.
* *Automata library, compass, watchdog, profiler*: not reached from the shell, or
  output of other formats, or empty in this build.

Smaller gaps in what is modelled: copies of a machine that share a cache
(`BddFsmCache.c:100-190`); expressions with `next` or inputs in `check_invar`;
the writing of a cache interrupted half-way, which leaves freed memory
(`BddFsmCache.c:220`); dynamic reordering, which stays off after an error in
`build_boolean_model` (`compile.c:448`).

What would be next: what a command asserts to be absent (`OnlyKnownAssertionsFail`);
the product of a machine with a tableau and the cache it inherits; `sbmc`.
