------------------------------ MODULE Session ------------------------------
(***************************************************************************)
(* A session of the interactive shell: the commands that read, flatten,    *)
(* encode and build a model, check a property and reset the system, in any *)
(* order, with user errors, parse and build errors and the interrupt key.  *)
(*                                                                         *)
(* A command is the sequence of what it does to the state of the session:  *)
(* the flags of cmps, the objects of the environment, the layers of the    *)
(* symbol table and the encoders they are committed to, and the machines a *)
(* property keeps.  Each such effect is a step, so that an interrupt can   *)
(* come between any two, and each assertion of the code is checked where   *)
(* the code checks it.  The model has nondeterministic assignments, so a   *)
(* determinization layer has variables.                                    *)
(***************************************************************************)
EXTENDS Integers, Sequences, FiniteSets

CONSTANTS Commands,   \* the commands the user may give at the prompt
          MaxJmp      \* MAXJMP, the size of the stack of jump buffers

(* The commands that are modelled, with the options that change what they  *)
(* do.                                                                     *)
UserCommands ==
  {"read_model", "flatten_hierarchy", "encode_variables", "build_flat_model",
   "build_model", "build_model -f", "build_boolean_model", "build_boolean_model -f",
   "bmc_setup", "bmc_setup -f", "go", "go_bmc", "check_ctlspec", "check_ltlspec_bmc",
   "compute_reachable", "write_order", "write_flat_model", "write_boolean_model",
   "bmc_pick_state", "read_trace", "print_reachable_states", "reset"}

ASSUME CommandsAssumption == Commands \subseteq UserCommands
ASSUME MaxJmpAssumption == MaxJmp \in Nat \ {0}

VARIABLES
  flags,       \* cmps: the phases that were performed
  env,         \* the keys that have a value in the environment
  layers,      \* the layers of the symbol table
  committed,   \* the layers committed to each encoder
  coi,         \* option cone_of_influence
  prop,        \* the machines a property of the model keeps, and its status
  todo,        \* what the running command has left to do; <<>> at the prompt
  pos,         \* ErrorMgr: the number of jump buffers on the stack
  armed,       \* an interrupt jumps instead of being ignored
  reentrant,   \* the environment flag the interrupt handler reads
  warned,      \* the handler has warned of an inconsistent state since a reset
  aborted      \* the assertion that failed; <<>> while the program runs

vars == <<flags, env, layers, committed, coi, prop, todo, pos, armed,
          reentrant, warned, aborted>>

Flags == {"read_model", "hrc_built", "flatten_hrc", "encode_variables",
          "build_flat_model", "build_bool_model", "build_model", "bmc_init",
          "bmc_setup"}
Encoders == {"bool", "bdd", "be"}
EncoderKey == [bool |-> "bool_enc", bdd |-> "bdd_enc", be |-> "be_enc"]
Keys == {"cmps", "hrc", "flattener", "flat_hierarchy", "sexp_fsm", "bool_fsm", "bdd_fsm",
         "be_fsm", "bool_enc", "bdd_enc", "be_enc"}
Layers == {"model", "determ", "determ_p"}
Machines == {"scalar", "bool", "bdd", "be"}
MachineKey == [scalar |-> "sexp_fsm", bool |-> "bool_fsm", bdd |-> "bdd_fsm",
               be |-> "be_fsm"]

(* A property that is not in the database, and one that was just added.    *)
NoProp == [status |-> "absent", fsm |-> [m \in Machines |-> "none"]]
NewProp == [NoProp EXCEPT !.status = "unchecked"]

Init ==
  /\ flags = {} /\ env = {"cmps", "hrc"} /\ layers = {}
  /\ committed = [e \in Encoders |-> {}]
  /\ coi \in BOOLEAN /\ prop = NoProp
  /\ todo = <<>> /\ pos = 1 /\ armed = FALSE /\ reentrant = TRUE
  /\ warned = FALSE /\ aborted = <<>>

-----------------------------------------------------------------------------
(* The preconditions of the commands: TRUE when the command must refuse.   *)

(* Compile_check_if_flattening_was_built.                                  *)
FlatteningMissing == "flatten_hrc" \notin flags

(* Compile_check_if_encoding_was_built.                                    *)
EncodingMissing == "encode_variables" \notin flags

(* Compile_check_if_model_was_built.                                       *)
ModelMissing(forced) ==
  /\ "build_model" \notin flags
  /\ EncodingMissing \/ ~coi \/ forced

(* Compile_check_if_bool_model_was_built.                                  *)
BoolModelMissing(forced) ==
  /\ "build_bool_model" \notin flags
  /\ EncodingMissing \/ ~coi \/ forced

(* Bmc_check_if_model_was_built: the boolean model is asked for only to    *)
(* choose the message.                                                     *)
BmcMissing(forced) ==
  /\ "bmc_setup" \notin flags
  /\ "bmc_init" \notin flags \/ ~coi \/ forced

-----------------------------------------------------------------------------
(* The commands and the functions they call, as sequences of effects.  An  *)
(* effect is a tuple: its kind and what it is about.                       *)
Fail == << <<"return 1">> >>
Do(p) == <<"do", p>>           \* call the function p
May(e) == <<"may", e>>         \* the effect e, or nothing
CanThrow == <<"can throw">>    \* a long jump, or nothing
Unless(f, c) == <<"unless", f, c>>   \* run command c if flag f is not set

(* CATCH(errmgr) { body } FAIL(errmgr) { Handler(h) }                      *)
Catch(h, body) == << <<"catch", h, body>> >>

(* Parser_read_model: a syntax error jumps.                                *)
ReadModel ==
  IF "read_model" \in flags THEN Fail ELSE <<CanThrow, <<"set", "read_model">> >>

FlattenHierarchy ==
  IF "read_model" \notin flags \/ {"flatten_hrc", "hrc_built"} \cap flags # {}
  THEN Fail
  ELSE Catch("flatten_hierarchy", <<Do("flatten_smv")>>)

(* CompileFlatten_flatten_smv: a model with processes loses its HRC, one   *)
(* with syntax errors that a lax parser accepted is not flattened.         *)
FlattenSmv ==
  << <<"put", "flattener">>, <<"get", "hrc">>, <<"create", "model">>,
     <<"absent", "flat_hierarchy">> >>
  \o Catch("hierarchy", <<CanThrow>>)
  \o <<May(<<"remove", "hrc">>)>>
  \o Catch("fill", << <<"new property">>, CanThrow>>)
  \o << <<"put", "flat_hierarchy">>, <<"set", "hrc_built">>,
        May(<<"set", "flatten_hrc">>)>>

(* Mutant: the flattener is left in the environment.                       *)
FlatteningFailed_KeepsFlattener ==
  << <<"drop layer", "model">>, <<"no properties">>, <<"unset", "read_model">> >> \o Fail

(* Its label flattening_failed, with the removal of the layer before it.   *)
FlatteningFailed ==
  << <<"drop layer", "model">>, <<"no properties">>, <<"remove", "flattener">>,
     <<"unset", "read_model">> >> \o Fail

(* Option -n commits to the BDD encoder only if the model has enumerations *)
(* or constants.                                                           *)
EncodeVariables ==
  IF FlatteningMissing \/ "encode_variables" \in flags THEN Fail
  ELSE << <<"ensure", "bool_enc">>, <<"commit", "bool", "model">>,
          <<"absent", "bdd_enc">>, CanThrow, <<"put", "bdd_enc">>,
          May(<<"commit", "bdd", "model">>), <<"set", "encode_variables">> >>

CreateFlatModel ==
  << <<"get", "flat_hierarchy">>, <<"put", "sexp_fsm">>, <<"set", "build_flat_model">> >>

(* Mutant: any hierarchy will do.                                          *)
BuildFlatModel_NoCheck ==
  IF "flat_hierarchy" \notin env \/ "build_flat_model" \in flags THEN Fail
  ELSE <<Do("create_flat_model")>>

BuildFlatModel ==
  IF FlatteningMissing \/ "build_flat_model" \in flags THEN Fail
  ELSE <<Do("create_flat_model")>>

FlatModelIfNone ==
  IF "sexp_fsm" \in env THEN <<>> ELSE <<Do("create_flat_model")>>

BuildModel(forced) ==
  IF EncodingMissing \/ (~forced /\ "build_model" \in flags) THEN Fail
  ELSE IF coi /\ ~forced THEN <<>>
  ELSE Catch("build_model",
         <<Do("flat_model_if_none"), <<"get", "sexp_fsm">>, <<"lazy commit", "model">>,
           CanThrow, <<"put", "bdd_fsm">>, <<"set", "build_model">> >>)

BuildBooleanModel(forced) ==
  IF EncodingMissing \/ (~forced /\ "build_bool_model" \in flags) THEN Fail
  ELSE IF coi /\ ~forced THEN <<>>
  ELSE <<Do("flat_model_if_none"), Do("create_boolean_model")>>

(* Mutant: the determinization layer is not committed to the BDD encoder.  *)
CreateBooleanModel_NoCommit ==
  << <<"get", "bdd_enc">>, <<"create", "determ">>, <<"get", "sexp_fsm">> >>
  \o Catch("boolean_fsm", <<CanThrow>>)
  \o << <<"put", "bool_fsm">>, <<"commit", "bool", "determ">>, <<"set", "build_bool_model">> >>

CreateBooleanModel ==
  << <<"get", "bdd_enc">>, <<"create", "determ">>, <<"get", "sexp_fsm">> >>
  \o Catch("boolean_fsm", <<CanThrow>>)
  \o << <<"put", "bool_fsm">>, <<"commit", "bool", "determ">>,
        <<"commit", "bdd", "determ">>, <<"set", "build_bool_model">> >>

BmcSetup(forced) ==
  IF BoolModelMissing(forced) \/ ("bmc_setup" \in flags /\ ~forced) THEN Fail
  ELSE <<Do("Bmc_Init")>> \o
       (IF coi /\ ~forced THEN <<>>
        ELSE << <<"get", "bool_fsm">>, <<"be fsm", "determ">>, <<"replace", "be_fsm">>,
                <<"get", "bdd_enc">>, <<"set", "bmc_setup">> >>)

(* Bmc_Init commits the layers of the default class: model and determ.     *)
BmcInit ==
  IF "bmc_init" \in flags THEN <<>>
  ELSE << <<"get", "bool_enc">>, <<"put", "be_enc">>, <<"commit", "be", "model">> >>
       \o (IF "determ" \in layers THEN << <<"commit", "be", "determ">> >> ELSE <<>>)
       \o << <<"set", "bmc_init">> >>

Go == <<Unless("read_model", "read_model"), Unless("flatten_hrc", "flatten_hierarchy"),
        Unless("build_flat_model", "build_flat_model"),
        Unless("encode_variables", "encode_variables"),
        Unless("build_model", "build_model")>>

GoBmc == <<Unless("read_model", "read_model"),
           Unless("flatten_hrc", "flatten_hierarchy"),
           Unless("encode_variables", "encode_variables"),
           Unless("build_bool_model", "build_boolean_model"),
           Unless("bmc_setup", "bmc_setup")>>

(* Mc_CheckCTLSpec on the machine Prop_compute_ground_bdd_fsm finds.       *)
CheckCtlspec ==
  IF ModelMissing(FALSE) THEN Fail
  ELSE IF prop.status # "unchecked" THEN <<>>
  ELSE (IF coi THEN <<Do("apply_coi_for_bdd")>> ELSE <<>>)
       \o <<Do("environment_fsms_if_no_bdd"), <<"has machine", "bdd">>, <<"verdict">> >>

(* Bmc_GenSolveLtl: no counterexample up to the bound is no verdict.       *)
CheckLtlspecBmc ==
  IF BmcMissing(FALSE) THEN Fail
  ELSE IF prop.status # "unchecked" THEN <<>>
  ELSE (IF coi THEN <<Do("apply_coi_for_bmc")>> ELSE <<>>)
       \o <<Do("environment_fsms_if_no_be"), <<"has machine", "be">>,
            Do("rewriter"), May(<<"verdict">>)>>

(* Prop_apply_coi_for_scalar.                                              *)
ApplyCoiForScalar == << <<"get", "flat_hierarchy">>, <<"own", "scalar">> >>

ApplyCoiForBdd ==
  (IF prop.fsm["scalar"] = "none" THEN <<Do("apply_coi_for_scalar")>> ELSE <<>>)
  \o (IF prop.fsm["bdd"] = "none"
      THEN << <<"get", "bdd_enc">>, <<"lazy commit", "model">>, <<"own", "bdd">> >>
      ELSE <<>>)

(* Mutant: the machine is kept before the layer is committed everywhere.   *)
ApplyCoiForBmc_Early ==
  << <<"get", "be_enc">> >> \o
  IF prop.fsm["bool"] = "none"
  THEN << <<"get", "flat_hierarchy">>, <<"create", "determ_p">>, <<"get", "bdd_enc">>,
          CanThrow, <<"own", "bool">>, <<"commit", "bool", "determ_p">>,
          <<"commit", "be", "determ_p">>, <<"commit", "bdd", "determ_p">>,
          <<"no machine", "be">>, <<"be fsm", "determ_p">>, <<"own", "be">> >>
  ELSE <<>>

(* The layer determ_p has the determinization variables of the cone.       *)
ApplyCoiForBmc ==
  << <<"get", "be_enc">> >> \o
  IF prop.fsm["bool"] = "none"
  THEN << <<"get", "flat_hierarchy">>, <<"create", "determ_p">>, <<"get", "bdd_enc">>,
          CanThrow, <<"commit", "bool", "determ_p">>, <<"commit", "be", "determ_p">>,
          <<"commit", "bdd", "determ_p">>, <<"own", "bool">>, <<"no machine", "be">>,
          <<"be fsm", "determ_p">>, <<"own", "be">> >>
  ELSE IF prop.fsm["be"] = "none"
  THEN << <<"be fsm", IF prop.fsm["bool"] = "own" THEN "determ_p" ELSE "determ">>,
          <<"own", "be">> >>
  ELSE <<>>

(* Prop_set_environment_fsms, called when machine m is missing.            *)
EnvironmentFsms(m) ==
  IF prop.fsm[m] = "none" THEN << <<"copy machines">> >> ELSE <<>>

(* prop_rewriter_init for FSM_TYPE_BE.                                     *)
RewriterInit ==
  (IF prop.fsm["scalar"] # "none" THEN <<>>
   ELSE IF coi THEN <<Do("apply_coi_for_scalar")>> ELSE << <<"copy if any", "scalar">> >>)
  \o (IF prop.fsm["bool"] # "none" THEN <<>>
      ELSE IF coi THEN <<Do("apply_coi_for_bmc")>> ELSE << <<"copy if any", "bool">> >>)
  \o << <<"has machine", "be">>, <<"has machine", "bool">> >>

(* The commands that only read what others built.                          *)
Reader(missing, keys) ==
  IF missing THEN Fail ELSE [i \in DOMAIN keys |-> <<"get", keys[i]>>]

ComputeReachable == Reader(ModelMissing(TRUE), <<"bdd_fsm">>)
WriteOrder == Reader(EncodingMissing, <<"bdd_enc">>)
WriteFlatModel == Reader(FlatteningMissing, <<"flat_hierarchy">>)
WriteBooleanModel == Reader(BoolModelMissing(TRUE), <<"bool_enc", "bdd_enc", "bool_fsm">>)
BmcPickState == Reader(BmcMissing(TRUE), <<"be_enc", "bdd_enc", "be_fsm">>)

(* Compile_check_if_flat_model_was_built does not ask for a model at all   *)
(* when the cone of influence is used.                                     *)
ReadTrace == Reader("build_flat_model" \notin flags /\ ~coi, <<"sexp_fsm">>)

(* print_reachable_states -o with a file that cannot be opened returns     *)
(* between CATCH and FAIL.                                                 *)
PrintReachableStates ==
  IF ModelMissing(TRUE) THEN Fail
  ELSE Catch("print_reachable_states",
             << <<"may return in catch">>, <<"get", "bdd_fsm">> >>)

(* Mutants: the encoder of the BMC variables survives; so does the flat    *)
(* machine.                                                                *)
Reset_KeepsBeEnc ==
  << <<"no properties">>, <<"remove", "be_fsm">>, <<"unset", "bmc_init">>,
     <<"destroy encoder", "bdd">>, <<"destroy encoder", "bool">>,
     <<"remove", "bdd_fsm">>, <<"remove", "bool_fsm">>, <<"remove", "sexp_fsm">>,
     <<"remove", "flat_hierarchy">>, <<"quit compiler">>,
     <<"remove", "hrc">>, <<"put", "hrc">>, <<"init compiler">> >>
Reset_KeepsFsm ==
  << <<"no properties">>, <<"remove", "be_fsm">>, <<"unset", "bmc_init">>,
     <<"destroy encoder", "bdd">>, <<"destroy encoder", "be">>,
     <<"destroy encoder", "bool">>, <<"remove", "bdd_fsm">>, <<"remove", "bool_fsm">>,
     <<"remove", "flat_hierarchy">>, <<"quit compiler">>,
     <<"remove", "hrc">>, <<"put", "hrc">>, <<"init compiler">> >>

(* NuSMVCore_reset: quits the packages, then starts them again.            *)
Reset ==
  << <<"no properties">>, <<"remove", "be_fsm">>, <<"unset", "bmc_init">>,
     <<"destroy encoder", "bdd">>, <<"destroy encoder", "be">>,
     <<"destroy encoder", "bool">>, <<"remove", "bdd_fsm">>, <<"remove", "bool_fsm">>,
     <<"remove", "sexp_fsm">>, <<"remove", "flat_hierarchy">>, <<"quit compiler">>,
     <<"remove", "hrc">>, <<"put", "hrc">>, <<"init compiler">> >>

Body(p) ==
  CASE p = "read_model" -> ReadModel
    [] p = "flatten_hierarchy" -> FlattenHierarchy
    [] p = "flatten_smv" -> FlattenSmv
    [] p = "encode_variables" -> EncodeVariables
    [] p = "build_flat_model" -> BuildFlatModel
    [] p = "create_flat_model" -> CreateFlatModel
    [] p = "flat_model_if_none" -> FlatModelIfNone
    [] p = "build_model" -> BuildModel(FALSE)
    [] p = "build_model -f" -> BuildModel(TRUE)
    [] p = "build_boolean_model" -> BuildBooleanModel(FALSE)
    [] p = "build_boolean_model -f" -> BuildBooleanModel(TRUE)
    [] p = "create_boolean_model" -> CreateBooleanModel
    [] p = "bmc_setup" -> BmcSetup(FALSE)
    [] p = "bmc_setup -f" -> BmcSetup(TRUE)
    [] p = "Bmc_Init" -> BmcInit
    [] p = "go" -> Go
    [] p = "go_bmc" -> GoBmc
    [] p = "check_ctlspec" -> CheckCtlspec
    [] p = "check_ltlspec_bmc" -> CheckLtlspecBmc
    [] p = "apply_coi_for_scalar" -> ApplyCoiForScalar
    [] p = "apply_coi_for_bdd" -> ApplyCoiForBdd
    [] p = "apply_coi_for_bmc" -> ApplyCoiForBmc
    [] p = "environment_fsms_if_no_bdd" -> EnvironmentFsms("bdd")
    [] p = "environment_fsms_if_no_be" -> EnvironmentFsms("be")
    [] p = "rewriter" -> RewriterInit
    [] p = "compute_reachable" -> ComputeReachable
    [] p = "write_order" -> WriteOrder
    [] p = "write_flat_model" -> WriteFlatModel
    [] p = "write_boolean_model" -> WriteBooleanModel
    [] p = "bmc_pick_state" -> BmcPickState
    [] p = "read_trace" -> ReadTrace
    [] p = "print_reachable_states" -> PrintReachableStates
    [] p = "reset" -> Reset

(* The commands registered as reentrant (Cmd_CommandAdd).                  *)
Reentrant == {"read_model", "check_ctlspec", "check_ltlspec_bmc", "write_order",
              "write_flat_model", "write_boolean_model", "bmc_pick_state",
              "read_trace", "print_reachable_states"}

(* What FAIL(errmgr) does after a jump to the buffer of CATCH h.           *)
Handler(h) ==
  CASE h = "hierarchy" -> Reset \o Fail
    [] h = "fill" -> FlatteningFailed
    [] h = "boolean_fsm" -> << <<"drop layer", "determ">>, <<"throw">> >>
    [] OTHER -> Fail

-----------------------------------------------------------------------------
(* The machinery: jump buffers, dispatch, interrupts.                      *)

Effect == todo[1]
Kind == Effect[1]
On == Effect[2]
Rest == Tail(todo)

IsEnd(e) == e[1] = "end"
Buffers(s) == Cardinality({i \in DOMAIN s : IsEnd(s[i])})

(* Mutant: the buffer that is used is popped twice.                        *)
Jump_PopsTwice(s) ==
  LET n == CHOOSE i \in DOMAIN s : IsEnd(s[i]) /\ \A j \in 1 .. i - 1 : ~IsEnd(s[j])
  IN  IF Buffers(s) = 0 THEN todo' = <<>> /\ UNCHANGED pos
      ELSE /\ todo' = Handler(s[n][2]) \o SubSeq(s, n + 1, Len(s))
           /\ pos' = pos - 2

(* ErrorMgr_long_jmp: to the innermost CATCH of the running commands.  The *)
(* one of "source", which reads the prompt, is below them: main dispatches *)
(* it again when it has been used.                                         *)
Jump(s) ==
  LET n == CHOOSE i \in DOMAIN s : IsEnd(s[i]) /\ \A j \in 1 .. i - 1 : ~IsEnd(s[j])
  IN  IF Buffers(s) = 0 THEN todo' = <<>> /\ UNCHANGED pos
      ELSE /\ todo' = Handler(s[n][2]) \o SubSeq(s, n + 1, Len(s))
           /\ pos' = pos - 1

(* nusmv_assert(c).                                                        *)
Assert(c) ==
  IF c THEN todo' = Rest /\ UNCHANGED aborted
  ELSE todo' = <<>> /\ aborted' = Effect

machineVars == <<pos, armed, reentrant, warned>>
dataVars == <<flags, env, layers, committed, coi, prop>>

(* com_dispatch, with its caller Cmd_CommandExecute.                       *)
Dispatch(c, rest) ==
  /\ IF pos < MaxJmp
     THEN /\ todo' = << Do(c), <<"end", "dispatch">> >> \o rest
          /\ pos' = pos + 1 /\ UNCHANGED aborted
     ELSE todo' = <<>> /\ aborted' = <<"jump buffers">> /\ UNCHANGED pos
  /\ armed' = TRUE
  /\ reentrant' = (c \in Reentrant)
  /\ UNCHANGED <<dataVars, warned>>

Command(c) == todo = <<>> /\ aborted = <<>> /\ Dispatch(c, <<>>)

(* set or unset cone_of_influence.                                         *)
SetCoi ==
  /\ todo = <<>> /\ aborted = <<>>
  /\ coi' = ~coi
  /\ UNCHANGED <<flags, env, layers, committed, prop, todo, machineVars, aborted>>

(* sigterm: the key is ignored in the rest of a command that has run       *)
(* another one.  At the prompt it changes nothing that is modelled: it is  *)
(* ignored or, after a jump, it makes main dispatch "source" again.        *)
Interrupt ==
  /\ todo # <<>> /\ armed
  /\ warned' = (warned \/ ~reentrant)
  /\ Jump(todo)
  /\ UNCHANGED <<dataVars, armed, reentrant, aborted>>

-----------------------------------------------------------------------------
(* One step of the running command.                                        *)

(* A function is entered: what it does depends on the state it finds, and  *)
(* the functions of cmps assert that there is one.                         *)
CallFunction ==
  /\ Kind = "do"
  /\ IF "cmps" \in env THEN todo' = Body(On) \o Rest /\ UNCHANGED aborted
     ELSE todo' = <<>> /\ aborted' = <<"cmps">>
  /\ UNCHANGED <<dataVars, machineVars>>

Subcommand ==
  /\ Kind = "unless"
  /\ IF On \in flags THEN todo' = Rest /\ UNCHANGED <<dataVars, machineVars, aborted>>
     ELSE Dispatch(Effect[3], Rest)

EnterCatch ==
  /\ Kind = "catch"
  /\ IF pos < MaxJmp
     THEN /\ todo' = Effect[3] \o << <<"end", On>> >> \o Rest
          /\ pos' = pos + 1 /\ UNCHANGED aborted
     ELSE todo' = <<>> /\ aborted' = <<"jump buffers">> /\ UNCHANGED pos
  /\ UNCHANGED <<dataVars, armed, reentrant, warned>>

(* ErrorMgr_cancel_long_jmp; com_dispatch also disarms the handler.        *)
LeaveCatch ==
  /\ Kind = "end"
  /\ todo' = Rest /\ pos' = pos - 1
  /\ IF On = "dispatch" THEN armed' = FALSE /\ reentrant' = TRUE
     ELSE UNCHANGED <<armed, reentrant>>
  /\ UNCHANGED <<dataVars, warned, aborted>>

GoesOn ==
  /\ Kind \in {"can throw", "may", "may return in catch"}
  /\ todo' = IF Kind = "may" THEN <<On>> \o Rest ELSE Rest
  /\ UNCHANGED <<dataVars, machineVars, aborted>>

SkipsEffect ==
  /\ Kind = "may"
  /\ todo' = Rest
  /\ UNCHANGED <<dataVars, machineVars, aborted>>

Throws ==
  /\ Kind \in {"can throw", "throw"}
  /\ Jump(Rest)
  /\ UNCHANGED <<dataVars, armed, reentrant, warned, aborted>>

(* Mutant: the commands above the one that fails stay on the stack.        *)
Returns_PopsOne ==
  /\ Kind \in {"return 1", "may return in catch"}
  /\ todo' = <<>> /\ armed' = FALSE
  /\ pos' = IF Buffers(Rest) > 0 THEN pos - 1 ELSE pos
  /\ UNCHANGED <<dataVars, reentrant, warned, aborted>>

(* return 1, from a function or, wrongly, from inside a CATCH: the buffer  *)
(* of that CATCH stays on the stack.  The commands that called the one     *)
(* that fails return 1 in turn.                                            *)
Returns ==
  /\ Kind \in {"return 1", "may return in catch"}
  /\ todo' = <<>> /\ armed' = FALSE
  /\ pos' = pos - Buffers(Rest) + (IF Kind = "return 1" THEN 0 ELSE 1)
  /\ UNCHANGED <<dataVars, reentrant, warned, aborted>>

SetFlag ==
  /\ Kind \in {"set", "unset"}
  /\ Assert("cmps" \in env)
  /\ flags' = IF "cmps" \notin env THEN flags
              ELSE IF Kind = "set" THEN flags \cup {On} ELSE flags \ {On}
  /\ UNCHANGED <<env, layers, committed, coi, prop, machineVars>>

(* NuSMVEnv_get_value and NuSMVEnv_has_value assert what they are asked.   *)
ReadEnv ==
  /\ Kind \in {"get", "absent"}
  /\ Assert((On \in env) <=> (Kind = "get"))
  /\ UNCHANGED <<dataVars, machineVars>>

(* NuSMVEnv_set_value asserts that the key has no value.                   *)
PutEnv ==
  /\ Kind \in {"put", "replace", "ensure"}
  /\ Assert(Kind = "put" => On \notin env)
  /\ env' = env \cup {On}
  /\ UNCHANGED <<flags, layers, committed, coi, prop, machineVars>>

RemoveEnv ==
  /\ Kind = "remove"
  /\ env' = env \ {On} /\ todo' = Rest
  /\ UNCHANGED <<flags, layers, committed, coi, prop, machineVars, aborted>>

(* SymbTable_create_layer.                                                 *)
CreateLayer ==
  /\ Kind = "create"
  /\ Assert(On \notin layers)
  /\ layers' = layers \cup {On}
  /\ UNCHANGED <<flags, env, committed, coi, prop, machineVars>>

(* SymbTable_remove_layer, of a layer that no encoder uses.                *)
DropLayer ==
  /\ Kind = "drop layer"
  /\ Assert(On \in layers /\ \A e \in Encoders : On \notin committed[e])
  /\ layers' = layers \ {On}
  /\ UNCHANGED <<flags, env, committed, coi, prop, machineVars>>

(* base_enc_commit_layer.                                                  *)
CommitLayer ==
  /\ Kind = "commit"
  /\ Assert(Effect[3] \in layers \ committed[On])
  /\ committed' = [committed EXCEPT ![On] = @ \cup {Effect[3]}]
  /\ UNCHANGED <<flags, env, layers, coi, prop, machineVars>>

(* The BDD encoder commits the layer of a variable it does not know.       *)
LazyCommit ==
  /\ Kind = "lazy commit"
  /\ todo' = Rest
  /\ committed' = [committed EXCEPT !["bdd"] = @ \cup {On}]
  /\ UNCHANGED <<flags, env, layers, coi, prop, machineVars, aborted>>

DestroyEncoder ==
  /\ Kind = "destroy encoder"
  /\ todo' = Rest
  /\ env' = env \ {EncoderKey[On]}
  /\ committed' = [committed EXCEPT ![On] = {}]
  /\ UNCHANGED <<flags, layers, coi, prop, machineVars, aborted>>

(* Compile_quit and Compile_init, with the symbol table.                   *)
Compiler ==
  /\ Kind \in {"quit compiler", "init compiler"}
  /\ todo' = Rest
  /\ flags' = {} /\ layers' = {}
  /\ env' = IF Kind = "quit compiler" THEN env \ {"flattener", "cmps"}
            ELSE env \cup {"cmps"}
  /\ warned' = (warned /\ Kind = "quit compiler")
  /\ UNCHANGED <<committed, coi, prop, pos, armed, reentrant, aborted>>

(* BeEnc_name_to_untimed asserts that the encoder knows every variable of  *)
(* the boolean machine it converts.                                        *)
BuildBeFsm ==
  /\ Kind = "be fsm"
  /\ Assert({"model", On} \subseteq committed["be"])
  /\ UNCHANGED <<dataVars, machineVars>>

ChangeProperty ==
  /\ todo' = Rest
  /\ \/ Kind = "new property" /\ prop' = NewProp
     \/ Kind = "no properties" /\ prop' = NoProp
     \/ Kind = "verdict" /\ prop' = [prop EXCEPT !.status = "checked"]
     \/ Kind = "own" /\ prop' = [prop EXCEPT !.fsm[On] = "own"]
     \/ /\ Kind = "copy machines"
        /\ prop' = [prop EXCEPT !.fsm =
             [m \in Machines |-> IF MachineKey[m] \in env THEN "env" ELSE @[m]]]
     \/ /\ Kind = "copy if any"
        /\ prop' = IF MachineKey[On] \in env THEN [prop EXCEPT !.fsm[On] = "env"] ELSE prop
  /\ UNCHANGED <<flags, env, layers, committed, coi, machineVars, aborted>>

(* The assertions on the machines of a property.                           *)
CheckMachine ==
  /\ Kind \in {"has machine", "no machine"}
  /\ Assert((prop.fsm[On] # "none") <=> (Kind = "has machine"))
  /\ UNCHANGED <<dataVars, machineVars>>

Step ==
  /\ todo # <<>>
  /\ \/ CallFunction \/ Subcommand \/ EnterCatch \/ LeaveCatch \/ GoesOn \/ SkipsEffect
     \/ Throws \/ Returns \/ SetFlag \/ ReadEnv \/ PutEnv \/ RemoveEnv \/ CreateLayer
     \/ DropLayer \/ CommitLayer \/ LazyCommit \/ DestroyEncoder \/ Compiler
     \/ BuildBeFsm \/ ChangeProperty \/ CheckMachine

Next == (\E c \in Commands : Command(c)) \/ SetCoi \/ Step \/ Interrupt

Spec == Init /\ [][Next]_vars

-----------------------------------------------------------------------------
(* Types and bounds of the state.                                          *)
SessionTypeOK ==
  /\ flags \subseteq Flags /\ env \subseteq Keys /\ layers \subseteq Layers
  /\ committed \in [Encoders -> SUBSET Layers]
  /\ coi \in BOOLEAN /\ armed \in BOOLEAN /\ reentrant \in BOOLEAN /\ warned \in BOOLEAN
  /\ prop \in [status : {"absent", "unchecked", "checked"},
               fsm : [Machines -> {"none", "own", "env"}]]
  /\ pos \in 0 .. MaxJmp

Resetting == \E i \in DOMAIN todo : todo[i] = <<"init compiler">>
Consistent == aborted = <<>> /\ ~warned /\ ~Resetting

(* A flag stands for what it promises: the commands that check it find the *)
(* objects and the committed layers they use.  Whatever commands and       *)
(* errors came before, while no warning of an inconsistent state was given *)
(* (the checks of core/compile/compile.c).                                 *)
Promises ==
  [read_model |-> TRUE, hrc_built |-> "flat_hierarchy" \in env,
   flatten_hrc |-> {"flat_hierarchy", "flattener"} \subseteq env /\ "model" \in layers,
   encode_variables |-> {"bool_enc", "bdd_enc"} \subseteq env /\ "model" \in committed["bool"],
   build_flat_model |-> "sexp_fsm" \in env,
   build_model |-> {"bdd_fsm", "sexp_fsm"} \subseteq env /\ "model" \in committed["bdd"],
   build_bool_model |-> /\ {"bool_fsm", "sexp_fsm"} \subseteq env
                        /\ "determ" \in committed["bool"] \cap committed["bdd"],
   bmc_init |-> "be_enc" \in env /\ "model" \in committed["be"],
   bmc_setup |-> "be_fsm" \in env /\ "determ" \in committed["be"]]

FlagsKeepTheirPromise == Consistent => \A f \in flags : Promises[f]

(* The assertions that fail without an interrupt having been warned of are *)
(* these and no other: read_trace without a flat model under cone of       *)
(* influence; flattening again a model with processes after an error in a  *)
(* property; encoding again after an error in the ordering file; a forced  *)
(* build of what is built; checking again a property whose check was left  *)
(* before its boolean machine was kept; a determinization layer made after *)
(* the encoder of the BMC variables.                                       *)
KnownFailures ==
  {<<"get", "sexp_fsm">>, <<"get", "hrc">>, <<"commit", "bool", "model">>,
   <<"put", "bdd_fsm">>, <<"create", "determ">>, <<"create", "determ_p">>,
   <<"be fsm", "determ">>}

OnlyKnownAssertionsFail == aborted # <<>> /\ ~warned => aborted \in KnownFailures

(* An encoder never uses a layer that the symbol table has destroyed, and  *)
(* only an encoder that exists has layers, with or without interrupts,     *)
(* from one reset to the next (SymbLayer counts its encoders).             *)
CommittedLayersExist ==
  Consistent => \A e \in Encoders :
    /\ committed[e] \subseteq layers
    /\ committed[e] # {} => EncoderKey[e] \in env

(* The stack of jump buffers holds one buffer for the loop that reads the  *)
(* prompt and one for each CATCH that is being executed: a long jump finds *)
(* the frame it belongs to, and no error or interrupt leaks a buffer       *)
(* (ErrorMgr_new_long_jmp, MAXJMP).                                        *)
JumpBuffersBalance == aborted = <<>> => pos = 1 + Buffers(todo)

(* A property keeps a boolean machine of its own only with the layer that  *)
(* has its variables, committed wherever the machine is used.              *)
OwnMachineHasLayer ==
  Consistent /\ prop.fsm["bool"] = "own" =>
    \A e \in Encoders : "determ_p" \in committed[e]

(* After a reset nothing is left of the model: the next one is read by a   *)
(* system as it starts, whatever the interrupts before (NuSMVCore_reset).  *)
Fresh ==
  /\ env = {"cmps", "hrc"} /\ flags = {} /\ layers = {} /\ prop = NoProp
  /\ \A e \in Encoders : committed[e] = {}
ResetIsFresh == []["cmps" \in env' \ env => Fresh']_vars

(* The flags, with the phases that each needs.                             *)
NeededPhases ==
  [read_model |-> {}, hrc_built |-> {"read_model"}, flatten_hrc |-> {"hrc_built"},
   encode_variables |-> {"flatten_hrc"}, build_flat_model |-> {"flatten_hrc"},
   build_model |-> {"encode_variables"}, build_bool_model |-> {"encode_variables"},
   bmc_init |-> {"encode_variables"},
   bmc_setup |-> {"bmc_init", "build_bool_model"}]

(* The commands, with all they do in between, keep the order of the phases. *)
P == INSTANCE Phases WITH done <- flags, Phase <- Flags, Needs <- NeededPhases
PhasesSpec == P!Spec
=============================================================================
