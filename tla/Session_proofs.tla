--------------------------- MODULE Session_proofs ----------------------------
(* Proofs about sessions of the shell: types, the stack of jump buffers,   *)
(* and that reset leaves nothing of a model.                               *)
EXTENDS Session, FunctionTheorems, FiniteSetTheorems, SequenceTheorems,
        WellFoundedInduction, TLAPS

(***************************************************************************)
(* What a running command may still have to do.                            *)
(***************************************************************************)

(* The commands that run: print_reachable_states only if the user gives it, *)
(* no other command calls it.                                              *)
Leaky == "print_reachable_states"
Given == {c \in UserCommands : c = Leaky => c \in Commands}

Procs == Given \cup
  {"flatten_smv", "create_flat_model", "flat_model_if_none", "create_boolean_model",
   "Bmc_Init", "apply_coi_for_scalar", "apply_coi_for_bdd", "apply_coi_for_bmc",
   "environment_fsms_if_no_bdd", "environment_fsms_if_no_be", "rewriter"}

Alone == {<<"return 1">>, <<"can throw">>, <<"throw">>, <<"new property">>,
          <<"no properties">>, <<"verdict">>, <<"copy machines">>, <<"quit compiler">>}

Simple ==
  ({"do"} \X Procs)
  \cup ({"set", "unset"} \X Flags)
  \cup ({"get", "absent", "remove"} \X Keys)
  \cup ({"put", "replace", "ensure"} \X (Keys \ {"cmps"}))
  \cup ({"create", "drop layer", "lazy commit", "be fsm"} \X Layers)
  \cup ({"commit"} \X Encoders \X Layers)
  \cup ({"destroy encoder"} \X Encoders)
  \cup ({"own", "copy if any", "has machine", "no machine"} \X Machines)
  \cup ({"unless"} \X Flags \X (UserCommands \ {Leaky}))
  \cup Alone

Straight == Simple \cup ({"may"} \X Simple)

(* A return from inside a CATCH.                                           *)
Leaks == {e \in {<<"may return in catch">>} : Leaky \in Commands}

Catches == {"flatten_hierarchy", "hierarchy", "fill", "build_model", "boolean_fsm", Leaky}
Code == Straight \cup ({"catch"} \X Catches \X Seq(Straight \cup Leaks))
Ends == {"end"} \X (Catches \cup {"dispatch"})

(* The last effect of a reset.                                             *)
Last == <<"init compiler">>
Pieces == Code \cup Leaks \cup Ends
Effects == Pieces \cup {Last}

(* The kinds of effects and what they are about.                           *)
LEMMA Kind1 ==
  /\ <<"return 1">>[1] = "return 1" /\ <<"can throw">>[1] = "can throw"
  /\ <<"throw">>[1] = "throw" /\ <<"new property">>[1] = "new property"
  /\ <<"no properties">>[1] = "no properties" /\ <<"verdict">>[1] = "verdict"
  /\ <<"copy machines">>[1] = "copy machines" /\ <<"quit compiler">>[1] = "quit compiler"
  /\ <<"init compiler">>[1] = "init compiler"
  /\ <<"may return in catch">>[1] = "may return in catch"
OBVIOUS

LEMMA SimpleKinds ==
  ASSUME NEW e \in Simple
  PROVE  /\ e[1] = "do" => e[2] \in Procs
         /\ e[1] \in {"set", "unset"} => e[2] \in Flags
         /\ e[1] \in {"get", "absent", "remove"} => e[2] \in Keys
         /\ e[1] \in {"put", "replace", "ensure"} => e[2] \in Keys \ {"cmps"}
         /\ e[1] \in {"create", "drop layer", "lazy commit", "be fsm"} => e[2] \in Layers
         /\ e[1] = "commit" => e[2] \in Encoders /\ e[3] \in Layers
         /\ e[1] = "destroy encoder" => e[2] \in Encoders
         /\ e[1] \in {"own", "copy if any", "has machine", "no machine"} => e[2] \in Machines
         /\ e[1] = "unless" => e[2] \in Flags /\ e[3] \in UserCommands \ {Leaky}
         /\ e[1] \notin {"may", "catch", "end", "may return in catch", "init compiler"}
<1>1. CASE e \in {"do"} \X Procs
  BY <1>1
<1>2. CASE e \in {"set", "unset"} \X Flags
  BY <1>2
<1>3. CASE \/ e \in {"get", "absent", "remove"} \X Keys
           \/ e \in {"put", "replace", "ensure"} \X (Keys \ {"cmps"})
  BY <1>3
<1>4. CASE e \in {"create", "drop layer", "lazy commit", "be fsm"} \X Layers
  BY <1>4
<1>5. CASE e \in {"commit"} \X Encoders \X Layers
  BY <1>5
<1>6. CASE e \in {"destroy encoder"} \X Encoders
  BY <1>6
<1>7. CASE e \in {"own", "copy if any", "has machine", "no machine"} \X Machines
  BY <1>7
<1>8. CASE e \in {"unless"} \X Flags \X (UserCommands \ {Leaky})
  BY <1>8
<1>9. CASE e \in Alone
  <2>1. e[1] \in {"return 1", "can throw", "throw", "new property", "no properties",
                   "verdict", "copy machines", "quit compiler"}
    BY <1>9, Kind1 DEF Alone
  <2> QED
    BY <2>1
<1> QED
  BY <1>1, <1>2, <1>3, <1>4, <1>5, <1>6, <1>7, <1>8, <1>9 DEF Simple

LEMMA Kinds ==
  ASSUME NEW e \in Effects
  PROVE  /\ e[1] = "may" => e[2] \in Simple
         /\ e[1] = "catch" => e[2] \in Catches /\ e[3] \in Seq(Straight \cup Leaks)
         /\ e[1] = "end" => e[2] \in Catches \cup {"dispatch"}
         /\ (e[1] = "end") <=> (e \in Ends)
         /\ (e[1] = "may return in catch") <=> (e \in Leaks)
         /\ (e[1] = "init compiler") <=> (e = Last)
         /\ e[1] \notin {"may", "catch", "end", "may return in catch", "init compiler"}
              => e \in Simple
<1>1. e \in Simple
        => e[1] \notin {"may", "catch", "end", "may return in catch", "init compiler"}
  BY SimpleKinds
<1>2. e \in {"may"} \X Simple => e[1] = "may" /\ e[2] \in Simple
  OBVIOUS
<1>3. e \in {"catch"} \X Catches \X Seq(Straight \cup Leaks)
        => e[1] = "catch" /\ e[2] \in Catches /\ e[3] \in Seq(Straight \cup Leaks)
  OBVIOUS
<1>4. e \in Ends => e[1] = "end" /\ e[2] \in Catches \cup {"dispatch"}
  BY DEF Ends
<1>5. e \in Leaks => e[1] = "may return in catch"
  BY Kind1 DEF Leaks
<1>6. e = Last => e[1] = "init compiler"
  BY Kind1 DEF Last
<1>7. \/ e \in Simple \/ e \in {"may"} \X Simple
      \/ e \in {"catch"} \X Catches \X Seq(Straight \cup Leaks)
      \/ e \in Ends \/ e \in Leaks \/ e = Last
  BY DEF Effects, Pieces, Code, Straight
<1> QED
  BY <1>1, <1>2, <1>3, <1>4, <1>5, <1>6, <1>7

LEMMA Members ==
  /\ \A p \in Procs : Do(p) \in Simple
  /\ \A f \in Flags : <<"set", f>> \in Simple /\ <<"unset", f>> \in Simple
  /\ \A k \in Keys : /\ <<"get", k>> \in Simple /\ <<"absent", k>> \in Simple
                     /\ <<"remove", k>> \in Simple
  /\ \A k \in Keys \ {"cmps"} : /\ <<"put", k>> \in Simple /\ <<"replace", k>> \in Simple
                                 /\ <<"ensure", k>> \in Simple
  /\ \A l \in Layers : /\ <<"create", l>> \in Simple /\ <<"drop layer", l>> \in Simple
                       /\ <<"lazy commit", l>> \in Simple /\ <<"be fsm", l>> \in Simple
  /\ \A x \in Encoders, l \in Layers : <<"commit", x, l>> \in Simple
  /\ \A x \in Encoders : <<"destroy encoder", x>> \in Simple
  /\ \A m \in Machines : /\ <<"own", m>> \in Simple /\ <<"copy if any", m>> \in Simple
                         /\ <<"has machine", m>> \in Simple /\ <<"no machine", m>> \in Simple
  /\ \A f \in Flags, c \in UserCommands \ {Leaky} : Unless(f, c) \in Simple
  /\ Alone \subseteq Simple
<1>1. \A p \in Procs : Do(p) \in Simple
  BY DEF Simple, Do
<1>2. \A f \in Flags : <<"set", f>> \in Simple /\ <<"unset", f>> \in Simple
  BY DEF Simple
<1>3. \A k \in Keys : /\ <<"get", k>> \in Simple /\ <<"absent", k>> \in Simple
                      /\ <<"remove", k>> \in Simple
  BY DEF Simple
<1>10. \A k \in Keys \ {"cmps"} : /\ <<"put", k>> \in Simple /\ <<"replace", k>> \in Simple
                                  /\ <<"ensure", k>> \in Simple
  BY DEF Simple
<1>4. \A l \in Layers : /\ <<"create", l>> \in Simple /\ <<"drop layer", l>> \in Simple
                        /\ <<"lazy commit", l>> \in Simple /\ <<"be fsm", l>> \in Simple
  BY DEF Simple
<1>5. \A x \in Encoders, l \in Layers : <<"commit", x, l>> \in Simple
  BY DEF Simple
<1>6. \A x \in Encoders : <<"destroy encoder", x>> \in Simple
  BY DEF Simple
<1>7. \A m \in Machines : /\ <<"own", m>> \in Simple /\ <<"copy if any", m>> \in Simple
                          /\ <<"has machine", m>> \in Simple /\ <<"no machine", m>> \in Simple
  BY DEF Simple
<1>8. \A f \in Flags, c \in UserCommands \ {Leaky} : Unless(f, c) \in Simple
  BY DEF Simple, Unless
<1>9. Alone \subseteq Simple
  BY DEF Simple
<1> QED
  BY <1>1, <1>2, <1>3, <1>4, <1>5, <1>6, <1>7, <1>8, <1>9, <1>10

(***************************************************************************)
(* What the functions do is in the sets above.                             *)
(***************************************************************************)

(* Lists with members of a set are sequences over the set.                 *)
LEMMA List1 ==
  ASSUME NEW S, NEW a \in S
  PROVE  <<a>> \in Seq(S)
OBVIOUS

LEMMA List2 ==
  ASSUME NEW S, NEW a \in S, NEW b \in S
  PROVE  <<a, b>> \in Seq(S)
OBVIOUS

LEMMA List3 ==
  ASSUME NEW S, NEW a \in S, NEW b \in S, NEW c \in S
  PROVE  <<a, b, c>> \in Seq(S)
OBVIOUS

LEMMA List4 ==
  ASSUME NEW S, NEW a \in S, NEW b \in S, NEW c \in S, NEW d \in S
  PROVE  <<a, b, c, d>> \in Seq(S)
OBVIOUS

LEMMA List5 ==
  ASSUME NEW S, NEW a \in S, NEW b \in S, NEW c \in S, NEW d \in S, NEW e \in S
  PROVE  <<a, b, c, d, e>> \in Seq(S)
OBVIOUS

LEMMA List6 ==
  ASSUME NEW S, NEW a \in S, NEW b \in S, NEW c \in S, NEW d \in S, NEW e \in S, NEW f \in S
  PROVE  <<a, b, c, d, e, f>> \in Seq(S)
OBVIOUS

LEMMA List7 ==
  ASSUME NEW S, NEW a \in S, NEW b \in S, NEW c \in S, NEW d \in S, NEW e \in S, NEW f \in S, NEW g \in S
  PROVE  <<a, b, c, d, e, f, g>> \in Seq(S)
OBVIOUS

LEMMA List11 ==
  ASSUME NEW S, NEW a \in S, NEW b \in S, NEW c \in S, NEW d \in S, NEW e \in S, NEW f \in S, NEW g \in S, NEW h \in S, NEW i \in S, NEW j \in S, NEW k \in S
  PROVE  <<a, b, c, d, e, f, g, h, i, j, k>> \in Seq(S)
OBVIOUS

LEMMA List14 ==
  ASSUME NEW S, NEW a \in S, NEW b \in S, NEW c \in S, NEW d \in S, NEW e \in S, NEW f \in S, NEW g \in S,
         NEW h \in S, NEW i \in S, NEW j \in S, NEW k \in S, NEW l \in S, NEW m \in S, NEW n \in S
  PROVE  <<a, b, c, d, e, f, g, h, i, j, k, l, m, n>> \in Seq(S)
OBVIOUS

LEMMA Catenation ==
  ASSUME NEW S, NEW s \in Seq(S), NEW t \in Seq(S)
  PROVE  s \o t \in Seq(S)
OBVIOUS

LEMMA Indices ==
  ASSUME NEW S, NEW s \in Seq(S), NEW t \in Seq(S)
  PROVE  /\ Len(t) \in Nat /\ DOMAIN t = 1 .. Len(t)
         /\ DOMAIN (s \o t) = 1 .. (Len(s) + Len(t))
         /\ \A i \in 1 .. Len(s) : (s \o t)[i] = s[i]
         /\ \A i \in 1 .. Len(t) : (s \o t)[i + Len(s)] = t[i]
OBVIOUS

LEMMA Codes ==
  /\ Simple \subseteq Straight /\ Straight \subseteq Code /\ Code \subseteq Pieces
  /\ \A e \in Simple : May(e) \in Straight
  /\ \A h \in Catches, b \in Seq(Straight \cup Leaks) : Catch(h, b) \in Seq(Code)
  /\ <<>> \in Seq(Code)
<1>1. Simple \subseteq Straight /\ Straight \subseteq Code /\ Code \subseteq Pieces
  BY DEF Straight, Code, Pieces
<1>2. \A e \in Simple : May(e) \in Straight
  BY DEF Straight, May
<1>3. \A h \in Catches, b \in Seq(Straight \cup Leaks) : <<"catch", h, b>> \in Code
  BY DEF Code
<1>4. \A h \in Catches, b \in Seq(Straight \cup Leaks) : Catch(h, b) \in Seq(Code)
  BY <1>3, List1, Zenon DEF Catch
<1>5. <<>> \in Seq(Code)
  OBVIOUS
<1> QED
  BY <1>1, <1>2, <1>4, <1>5

LEMMA AloneIsCode ==
  /\ <<"return 1">> \in Code /\ CanThrow \in Straight /\ <<"throw">> \in Code
  /\ <<"new property">> \in Straight /\ <<"no properties">> \in Simple
  /\ <<"verdict">> \in Simple /\ <<"copy machines">> \in Code
  /\ <<"quit compiler">> \in Simple /\ Fail \in Seq(Code)
<1>1. /\ <<"return 1">> \in Alone /\ CanThrow \in Alone /\ <<"throw">> \in Alone
      /\ <<"new property">> \in Alone /\ <<"no properties">> \in Alone
      /\ <<"verdict">> \in Alone /\ <<"copy machines">> \in Alone
      /\ <<"quit compiler">> \in Alone
  BY DEF Alone, CanThrow
<1>2. /\ <<"return 1">> \in Simple /\ CanThrow \in Simple /\ <<"throw">> \in Simple
      /\ <<"new property">> \in Simple /\ <<"no properties">> \in Simple
      /\ <<"verdict">> \in Simple /\ <<"copy machines">> \in Simple
      /\ <<"quit compiler">> \in Simple
  BY <1>1, Members
<1>3. Fail \in Seq(Code)
  BY <1>2, Codes, List1, Zenon DEF Fail
<1> QED
  BY <1>2, <1>3, Codes
LEMMA ReadModelIsCode == ReadModel \in Seq(Code)
<1>1. /\ <<"set", "read_model">> \in Simple
  BY Members DEF Flags
<1>2. /\ CanThrow \in Code /\ <<"set", "read_model">> \in Code
  BY <1>1, AloneIsCode, Codes
<1>3. <<CanThrow, <<"set", "read_model">> >> \in Seq(Code)
  BY <1>2, List2, Zenon
<1> QED
  BY <1>3, AloneIsCode DEF ReadModel

LEMMA FlattenHierarchyIsCode == FlattenHierarchy \in Seq(Code)
<1>1. /\ Do("flatten_smv") \in Simple
  BY Members DEF Given, Leaky, Procs, UserCommands
<1>2. /\ Do("flatten_smv") \in (Straight \cup Leaks)
  BY <1>1, AloneIsCode, Codes
<1>3. <<Do("flatten_smv")>> \in Seq(Straight \cup Leaks)
  BY <1>2, List1, Zenon
<1>4. Catch("flatten_hierarchy", <<Do("flatten_smv")>>) \in Seq(Code)
  BY <1>3, Codes DEF Catches
<1> QED
  BY <1>3, <1>4, AloneIsCode DEF FlattenHierarchy

LEMMA FlattenSmvIsCode == FlattenSmv \in Seq(Code)
<1>1. /\ <<"put", "flattener">> \in Simple /\ <<"get", "hrc">> \in Simple
      /\ <<"create", "model">> \in Simple /\ <<"absent", "flat_hierarchy">> \in Simple
  BY Members DEF Keys, Layers
<1>2. /\ <<"put", "flattener">> \in Code /\ <<"get", "hrc">> \in Code
      /\ <<"create", "model">> \in Code /\ <<"absent", "flat_hierarchy">> \in Code
  BY <1>1, AloneIsCode, Codes
<1>3. << <<"put", "flattener">>, <<"get", "hrc">>, <<"create", "model">>,
        <<"absent", "flat_hierarchy">> >> \in Seq(Code)
  BY <1>2, List4, Zenon
<1>4. /\ CanThrow \in (Straight \cup Leaks)
  BY AloneIsCode, Codes
<1>5. <<CanThrow>> \in Seq(Straight \cup Leaks)
  BY <1>4, List1, Zenon
<1>6. Catch("hierarchy", <<CanThrow>>) \in Seq(Code)
  BY <1>5, Codes DEF Catches
<1>7. /\ <<"remove", "hrc">> \in Simple
  BY Members DEF Keys
<1>8. /\ May(<<"remove", "hrc">>) \in Code
  BY <1>7, AloneIsCode, Codes
<1>9. <<May(<<"remove", "hrc">>)>> \in Seq(Code)
  BY <1>8, List1, Zenon
<1>10. /\ <<"new property">> \in (Straight \cup Leaks)
      /\ CanThrow \in (Straight \cup Leaks)
  BY AloneIsCode, Codes
<1>11. << <<"new property">>, CanThrow>> \in Seq(Straight \cup Leaks)
  BY <1>10, List2, Zenon
<1>12. Catch("fill", << <<"new property">>, CanThrow>>) \in Seq(Code)
  BY <1>11, Codes DEF Catches
<1>13. /\ <<"put", "flat_hierarchy">> \in Simple /\ <<"set", "hrc_built">> \in Simple
      /\ <<"set", "flatten_hrc">> \in Simple
  BY Members DEF Flags, Keys
<1>14. /\ <<"put", "flat_hierarchy">> \in Code /\ <<"set", "hrc_built">> \in Code
      /\ May(<<"set", "flatten_hrc">>) \in Code
  BY <1>13, AloneIsCode, Codes
<1>15. << <<"put", "flat_hierarchy">>, <<"set", "hrc_built">>,
        May(<<"set", "flatten_hrc">>)>> \in Seq(Code)
  BY <1>14, List3, Zenon
<1> QED
  BY <1>3, <1>5, <1>6, <1>9, <1>11, <1>12, <1>15, Catenation, Zenon DEF FlattenSmv

LEMMA FlatteningFailedIsCode == FlatteningFailed \in Seq(Code)
<1>1. /\ <<"drop layer", "model">> \in Simple /\ <<"remove", "flattener">> \in Simple
      /\ <<"unset", "read_model">> \in Simple
  BY Members DEF Flags, Keys, Layers
<1>2. /\ <<"drop layer", "model">> \in Code /\ <<"no properties">> \in Code
      /\ <<"remove", "flattener">> \in Code /\ <<"unset", "read_model">> \in Code
  BY <1>1, AloneIsCode, Codes
<1>3. << <<"drop layer", "model">>, <<"no properties">>, <<"remove", "flattener">>,
        <<"unset", "read_model">> >> \in Seq(Code)
  BY <1>2, List4, Zenon
<1> QED
  BY <1>3, AloneIsCode, Catenation, Zenon DEF FlatteningFailed

LEMMA EncodeVariablesIsCode == EncodeVariables \in Seq(Code)
<1>1. /\ <<"ensure", "bool_enc">> \in Simple
      /\ <<"commit", "bool", "model">> \in Simple
      /\ <<"absent", "bdd_enc">> \in Simple /\ <<"put", "bdd_enc">> \in Simple
      /\ <<"commit", "bdd", "model">> \in Simple
      /\ <<"set", "encode_variables">> \in Simple
  BY Members DEF Encoders, Flags, Keys, Layers
<1>2. /\ <<"ensure", "bool_enc">> \in Code /\ <<"commit", "bool", "model">> \in Code
      /\ <<"absent", "bdd_enc">> \in Code /\ CanThrow \in Code
      /\ <<"put", "bdd_enc">> \in Code /\ May(<<"commit", "bdd", "model">>) \in Code
      /\ <<"set", "encode_variables">> \in Code
  BY <1>1, AloneIsCode, Codes
<1>3. << <<"ensure", "bool_enc">>, <<"commit", "bool", "model">>,
        <<"absent", "bdd_enc">>, CanThrow, <<"put", "bdd_enc">>,
        May(<<"commit", "bdd", "model">>), <<"set", "encode_variables">> >> \in Seq(Code)
  BY <1>2, List7, Zenon
<1> QED
  BY <1>3, AloneIsCode DEF EncodeVariables

LEMMA CreateFlatModelIsCode == CreateFlatModel \in Seq(Code)
<1>1. /\ <<"get", "flat_hierarchy">> \in Simple /\ <<"put", "sexp_fsm">> \in Simple
      /\ <<"set", "build_flat_model">> \in Simple
  BY Members DEF Flags, Keys
<1>2. /\ <<"get", "flat_hierarchy">> \in Code /\ <<"put", "sexp_fsm">> \in Code
      /\ <<"set", "build_flat_model">> \in Code
  BY <1>1, AloneIsCode, Codes
<1>3. << <<"get", "flat_hierarchy">>, <<"put", "sexp_fsm">>,
        <<"set", "build_flat_model">> >> \in Seq(Code)
  BY <1>2, List3, Zenon
<1> QED
  BY <1>3, Zenon DEF CreateFlatModel

LEMMA BuildFlatModelIsCode == BuildFlatModel \in Seq(Code) /\ FlatModelIfNone \in Seq(Code)
<1>1. /\ Do("create_flat_model") \in Simple
  BY Members DEF Given, Leaky, Procs, UserCommands
<1>2. /\ Do("create_flat_model") \in Code
  BY <1>1, AloneIsCode, Codes
<1>3. <<Do("create_flat_model")>> \in Seq(Code)
  BY <1>2, List1, Zenon
<1> QED
  BY <1>3, AloneIsCode, Codes DEF BuildFlatModel, FlatModelIfNone

LEMMA BuildModelIsCode == \A forced \in BOOLEAN : BuildModel(forced) \in Seq(Code)
<1>1. /\ <<"get", "sexp_fsm">> \in Simple /\ <<"lazy commit", "model">> \in Simple
      /\ <<"put", "bdd_fsm">> \in Simple /\ <<"set", "build_model">> \in Simple
  BY Members DEF Flags, Keys, Layers
<1>2. /\ Do("flat_model_if_none") \in Simple
  BY Members DEF Given, Leaky, Procs, UserCommands
<1>3. /\ Do("flat_model_if_none") \in (Straight \cup Leaks)
      /\ <<"get", "sexp_fsm">> \in (Straight \cup Leaks)
      /\ <<"lazy commit", "model">> \in (Straight \cup Leaks)
      /\ CanThrow \in (Straight \cup Leaks)
      /\ <<"put", "bdd_fsm">> \in (Straight \cup Leaks)
      /\ <<"set", "build_model">> \in (Straight \cup Leaks)
  BY <1>1, <1>2, AloneIsCode, Codes
<1>4. <<Do("flat_model_if_none"), <<"get", "sexp_fsm">>, <<"lazy commit", "model">>,
        CanThrow, <<"put", "bdd_fsm">>, <<"set", "build_model">> >> \in Seq(Straight \cup Leaks)
  BY <1>3, List6, Zenon
<1>5. Catch("build_model",
           <<Do("flat_model_if_none"), <<"get", "sexp_fsm">>, <<"lazy commit", "model">>,
             CanThrow, <<"put", "bdd_fsm">>, <<"set", "build_model">> >>) \in Seq(Code)
  BY <1>4, Codes DEF Catches
<1> QED
  BY <1>4, <1>5, AloneIsCode, Codes DEF BuildModel

LEMMA BuildBooleanModelIsCode == \A forced \in BOOLEAN : BuildBooleanModel(forced) \in Seq(Code)
<1>1. /\ Do("flat_model_if_none") \in Simple /\ Do("create_boolean_model") \in Simple
  BY Members DEF Given, Leaky, Procs, UserCommands
<1>2. /\ Do("flat_model_if_none") \in Code /\ Do("create_boolean_model") \in Code
  BY <1>1, AloneIsCode, Codes
<1>3. <<Do("flat_model_if_none"), Do("create_boolean_model")>> \in Seq(Code)
  BY <1>2, List2, Zenon
<1> QED
  BY <1>3, AloneIsCode, Codes DEF BuildBooleanModel

LEMMA CreateBooleanModelIsCode == CreateBooleanModel \in Seq(Code)
<1>1. /\ <<"get", "bdd_enc">> \in Simple /\ <<"create", "determ">> \in Simple
      /\ <<"get", "sexp_fsm">> \in Simple
  BY Members DEF Keys, Layers
<1>2. /\ <<"get", "bdd_enc">> \in Code /\ <<"create", "determ">> \in Code
      /\ <<"get", "sexp_fsm">> \in Code
  BY <1>1, AloneIsCode, Codes
<1>3. << <<"get", "bdd_enc">>, <<"create", "determ">>, <<"get", "sexp_fsm">> >> \in Seq(Code)
  BY <1>2, List3, Zenon
<1>4. /\ CanThrow \in (Straight \cup Leaks)
  BY AloneIsCode, Codes
<1>5. <<CanThrow>> \in Seq(Straight \cup Leaks)
  BY <1>4, List1, Zenon
<1>6. Catch("boolean_fsm", <<CanThrow>>) \in Seq(Code)
  BY <1>5, Codes DEF Catches
<1>7. /\ <<"put", "bool_fsm">> \in Simple /\ <<"commit", "bool", "determ">> \in Simple
      /\ <<"commit", "bdd", "determ">> \in Simple
      /\ <<"set", "build_bool_model">> \in Simple
  BY Members DEF Encoders, Flags, Keys, Layers
<1>8. /\ <<"put", "bool_fsm">> \in Code /\ <<"commit", "bool", "determ">> \in Code
      /\ <<"commit", "bdd", "determ">> \in Code
      /\ <<"set", "build_bool_model">> \in Code
  BY <1>7, AloneIsCode, Codes
<1>9. << <<"put", "bool_fsm">>, <<"commit", "bool", "determ">>,
        <<"commit", "bdd", "determ">>, <<"set", "build_bool_model">> >> \in Seq(Code)
  BY <1>8, List4, Zenon
<1> QED
  BY <1>3, <1>5, <1>6, <1>9, Catenation, Zenon DEF CreateBooleanModel

LEMMA BmcSetupIsCode == \A forced \in BOOLEAN : BmcSetup(forced) \in Seq(Code)
<1>1. /\ Do("Bmc_Init") \in Simple
  BY Members DEF Given, Leaky, Procs, UserCommands
<1>2. /\ Do("Bmc_Init") \in Code
  BY <1>1, AloneIsCode, Codes
<1>3. <<Do("Bmc_Init")>> \in Seq(Code)
  BY <1>2, List1, Zenon
<1>4. /\ <<"get", "bool_fsm">> \in Simple /\ <<"be fsm", "determ">> \in Simple
      /\ <<"replace", "be_fsm">> \in Simple /\ <<"get", "bdd_enc">> \in Simple
      /\ <<"set", "bmc_setup">> \in Simple
  BY Members DEF Flags, Keys, Layers
<1>5. /\ <<"get", "bool_fsm">> \in Code /\ <<"be fsm", "determ">> \in Code
      /\ <<"replace", "be_fsm">> \in Code /\ <<"get", "bdd_enc">> \in Code
      /\ <<"set", "bmc_setup">> \in Code
  BY <1>4, AloneIsCode, Codes
<1>6. << <<"get", "bool_fsm">>, <<"be fsm", "determ">>, <<"replace", "be_fsm">>,
        <<"get", "bdd_enc">>, <<"set", "bmc_setup">> >> \in Seq(Code)
  BY <1>5, List5, Zenon
<1> QED
  BY <1>3, <1>6, AloneIsCode, Codes, Catenation DEF BmcSetup

LEMMA BmcInitIsCode == BmcInit \in Seq(Code)
<1>1. /\ <<"get", "bool_enc">> \in Simple /\ <<"put", "be_enc">> \in Simple
      /\ <<"commit", "be", "model">> \in Simple
  BY Members DEF Encoders, Keys, Layers
<1>2. /\ <<"get", "bool_enc">> \in Code /\ <<"put", "be_enc">> \in Code
      /\ <<"commit", "be", "model">> \in Code
  BY <1>1, AloneIsCode, Codes
<1>3. << <<"get", "bool_enc">>, <<"put", "be_enc">>, <<"commit", "be", "model">> >> \in Seq(Code)
  BY <1>2, List3, Zenon
<1>4. /\ <<"commit", "be", "determ">> \in Simple
  BY Members DEF Encoders, Layers
<1>5. /\ <<"commit", "be", "determ">> \in Code
  BY <1>4, AloneIsCode, Codes
<1>6. << <<"commit", "be", "determ">> >> \in Seq(Code)
  BY <1>5, List1, Zenon
<1>7. /\ <<"set", "bmc_init">> \in Simple
  BY Members DEF Flags
<1>8. /\ <<"set", "bmc_init">> \in Code
  BY <1>7, AloneIsCode, Codes
<1>9. << <<"set", "bmc_init">> >> \in Seq(Code)
  BY <1>8, List1, Zenon
<1> QED
  BY <1>3, <1>6, <1>9, AloneIsCode, Codes, Catenation DEF BmcInit

LEMMA GoIsCode == Go \in Seq(Code)
<1>1. /\ Unless("read_model", "read_model") \in Simple
      /\ Unless("flatten_hrc", "flatten_hierarchy") \in Simple
      /\ Unless("build_flat_model", "build_flat_model") \in Simple
      /\ Unless("encode_variables", "encode_variables") \in Simple
      /\ Unless("build_model", "build_model") \in Simple
  BY Members DEF Flags, Leaky, UserCommands
<1>2. /\ Unless("read_model", "read_model") \in Code
      /\ Unless("flatten_hrc", "flatten_hierarchy") \in Code
      /\ Unless("build_flat_model", "build_flat_model") \in Code
      /\ Unless("encode_variables", "encode_variables") \in Code
      /\ Unless("build_model", "build_model") \in Code
  BY <1>1, AloneIsCode, Codes
<1>3. <<Unless("read_model", "read_model"), Unless("flatten_hrc",
        "flatten_hierarchy"), Unless("build_flat_model", "build_flat_model"),
        Unless("encode_variables", "encode_variables"), Unless("build_model",
        "build_model")>> \in Seq(Code)
  BY <1>2, List5, Zenon
<1> QED
  BY <1>3, Zenon DEF Go

LEMMA GoBmcIsCode == GoBmc \in Seq(Code)
<1>1. /\ Unless("read_model", "read_model") \in Simple
      /\ Unless("flatten_hrc", "flatten_hierarchy") \in Simple
      /\ Unless("encode_variables", "encode_variables") \in Simple
      /\ Unless("build_bool_model", "build_boolean_model") \in Simple
      /\ Unless("bmc_setup", "bmc_setup") \in Simple
  BY Members DEF Flags, Leaky, UserCommands
<1>2. /\ Unless("read_model", "read_model") \in Code
      /\ Unless("flatten_hrc", "flatten_hierarchy") \in Code
      /\ Unless("encode_variables", "encode_variables") \in Code
      /\ Unless("build_bool_model", "build_boolean_model") \in Code
      /\ Unless("bmc_setup", "bmc_setup") \in Code
  BY <1>1, AloneIsCode, Codes
<1>3. <<Unless("read_model", "read_model"), Unless("flatten_hrc",
        "flatten_hierarchy"), Unless("encode_variables", "encode_variables"),
        Unless("build_bool_model", "build_boolean_model"), Unless("bmc_setup",
        "bmc_setup")>> \in Seq(Code)
  BY <1>2, List5, Zenon
<1> QED
  BY <1>3, Zenon DEF GoBmc

LEMMA CheckCtlspecIsCode == CheckCtlspec \in Seq(Code)
<1>1. /\ Do("apply_coi_for_bdd") \in Simple
  BY Members DEF Given, Leaky, Procs, UserCommands
<1>2. /\ Do("apply_coi_for_bdd") \in Code
  BY <1>1, AloneIsCode, Codes
<1>3. <<Do("apply_coi_for_bdd")>> \in Seq(Code)
  BY <1>2, List1, Zenon
<1>4. /\ <<"has machine", "bdd">> \in Simple
  BY Members DEF Machines
<1>5. /\ Do("environment_fsms_if_no_bdd") \in Simple
  BY Members DEF Given, Leaky, Procs, UserCommands
<1>6. /\ Do("environment_fsms_if_no_bdd") \in Code
      /\ <<"has machine", "bdd">> \in Code /\ <<"verdict">> \in Code
  BY <1>4, <1>5, AloneIsCode, Codes
<1>7. <<Do("environment_fsms_if_no_bdd"), <<"has machine", "bdd">>, <<"verdict">> >> \in Seq(Code)
  BY <1>6, List3, Zenon
<1> QED
  BY <1>3, <1>7, AloneIsCode, Codes, Catenation DEF CheckCtlspec

LEMMA CheckLtlspecBmcIsCode == CheckLtlspecBmc \in Seq(Code)
<1>1. /\ Do("apply_coi_for_bmc") \in Simple
  BY Members DEF Given, Leaky, Procs, UserCommands
<1>2. /\ Do("apply_coi_for_bmc") \in Code
  BY <1>1, AloneIsCode, Codes
<1>3. <<Do("apply_coi_for_bmc")>> \in Seq(Code)
  BY <1>2, List1, Zenon
<1>4. /\ <<"has machine", "be">> \in Simple /\ <<"verdict">> \in Simple
  BY Members, AloneIsCode DEF Machines
<1>5. /\ Do("environment_fsms_if_no_be") \in Simple /\ Do("rewriter") \in Simple
  BY Members DEF Given, Leaky, Procs, UserCommands
<1>6. /\ Do("environment_fsms_if_no_be") \in Code /\ <<"has machine", "be">> \in Code
      /\ Do("rewriter") \in Code /\ May(<<"verdict">>) \in Code
  BY <1>4, <1>5, AloneIsCode, Codes
<1>7. <<Do("environment_fsms_if_no_be"), <<"has machine", "be">>, Do("rewriter"),
        May(<<"verdict">>)>> \in Seq(Code)
  BY <1>6, List4, Zenon
<1> QED
  BY <1>3, <1>7, AloneIsCode, Codes, Catenation DEF CheckLtlspecBmc

LEMMA ApplyCoiForScalarIsCode == ApplyCoiForScalar \in Seq(Code)
<1>1. /\ <<"get", "flat_hierarchy">> \in Simple /\ <<"own", "scalar">> \in Simple
  BY Members DEF Keys, Machines
<1>2. /\ <<"get", "flat_hierarchy">> \in Code /\ <<"own", "scalar">> \in Code
  BY <1>1, AloneIsCode, Codes
<1>3. << <<"get", "flat_hierarchy">>, <<"own", "scalar">> >> \in Seq(Code)
  BY <1>2, List2, Zenon
<1> QED
  BY <1>3, Zenon DEF ApplyCoiForScalar

LEMMA ApplyCoiForBddIsCode == ApplyCoiForBdd \in Seq(Code)
<1>1. /\ Do("apply_coi_for_scalar") \in Simple
  BY Members DEF Given, Leaky, Procs, UserCommands
<1>2. /\ Do("apply_coi_for_scalar") \in Code
  BY <1>1, AloneIsCode, Codes
<1>3. <<Do("apply_coi_for_scalar")>> \in Seq(Code)
  BY <1>2, List1, Zenon
<1>4. /\ <<"get", "bdd_enc">> \in Simple /\ <<"lazy commit", "model">> \in Simple
      /\ <<"own", "bdd">> \in Simple
  BY Members DEF Keys, Layers, Machines
<1>5. /\ <<"get", "bdd_enc">> \in Code /\ <<"lazy commit", "model">> \in Code
      /\ <<"own", "bdd">> \in Code
  BY <1>4, AloneIsCode, Codes
<1>6. << <<"get", "bdd_enc">>, <<"lazy commit", "model">>, <<"own", "bdd">> >> \in Seq(Code)
  BY <1>5, List3, Zenon
<1> QED
  BY <1>3, <1>6, Codes, Catenation DEF ApplyCoiForBdd

LEMMA ApplyCoiForBmcIsCode == ApplyCoiForBmc \in Seq(Code)
<1>1. /\ <<"get", "be_enc">> \in Simple
  BY Members DEF Keys
<1>2. /\ <<"get", "be_enc">> \in Code
  BY <1>1, AloneIsCode, Codes
<1>3. << <<"get", "be_enc">> >> \in Seq(Code)
  BY <1>2, List1, Zenon
<1>4. /\ <<"get", "flat_hierarchy">> \in Simple /\ <<"create", "determ_p">> \in Simple
      /\ <<"get", "bdd_enc">> \in Simple
      /\ <<"commit", "bool", "determ_p">> \in Simple
      /\ <<"commit", "be", "determ_p">> \in Simple
      /\ <<"commit", "bdd", "determ_p">> \in Simple /\ <<"own", "bool">> \in Simple
      /\ <<"no machine", "be">> \in Simple /\ <<"be fsm", "determ_p">> \in Simple
      /\ <<"own", "be">> \in Simple
  BY Members DEF Encoders, Keys, Layers, Machines
<1>5. /\ <<"get", "flat_hierarchy">> \in Code /\ <<"create", "determ_p">> \in Code
      /\ <<"get", "bdd_enc">> \in Code /\ CanThrow \in Code
      /\ <<"commit", "bool", "determ_p">> \in Code
      /\ <<"commit", "be", "determ_p">> \in Code
      /\ <<"commit", "bdd", "determ_p">> \in Code /\ <<"own", "bool">> \in Code
      /\ <<"no machine", "be">> \in Code /\ <<"be fsm", "determ_p">> \in Code
      /\ <<"own", "be">> \in Code
  BY <1>4, AloneIsCode, Codes
<1>6. << <<"get", "flat_hierarchy">>, <<"create", "determ_p">>,
        <<"get", "bdd_enc">>, CanThrow, <<"commit", "bool", "determ_p">>,
        <<"commit", "be", "determ_p">>, <<"commit", "bdd", "determ_p">>,
        <<"own", "bool">>, <<"no machine", "be">>, <<"be fsm", "determ_p">>,
        <<"own", "be">> >> \in Seq(Code)
  BY <1>5, List11, Zenon
<1>7. /\ <<"be fsm", "determ_p">> \in Simple /\ <<"own", "be">> \in Simple
  BY Members DEF Layers, Machines
<1>8. /\ <<"be fsm", "determ_p">> \in Code /\ <<"own", "be">> \in Code
  BY <1>7, AloneIsCode, Codes
<1>9. << <<"be fsm", "determ_p">>, <<"own", "be">> >> \in Seq(Code)
  BY <1>8, List2, Zenon
<1>10. /\ <<"be fsm", "determ">> \in Simple /\ <<"own", "be">> \in Simple
  BY Members DEF Layers, Machines
<1>11. /\ <<"be fsm", "determ">> \in Code /\ <<"own", "be">> \in Code
  BY <1>10, AloneIsCode, Codes
<1>12. << <<"be fsm", "determ">>, <<"own", "be">> >> \in Seq(Code)
  BY <1>11, List2, Zenon
<1> QED
  BY <1>3, <1>6, <1>9, <1>12, Codes, Catenation DEF ApplyCoiForBmc

LEMMA EnvironmentFsmsIsCode == \A m \in Machines : EnvironmentFsms(m) \in Seq(Code)
<1>1. /\ <<"copy machines">> \in Code
  BY AloneIsCode, Codes
<1>2. << <<"copy machines">> >> \in Seq(Code)
  BY <1>1, List1, Zenon
<1> QED
  BY <1>2, Codes DEF EnvironmentFsms

LEMMA RewriterInitIsCode == RewriterInit \in Seq(Code)
<1>1. /\ Do("apply_coi_for_scalar") \in Simple
  BY Members DEF Given, Leaky, Procs, UserCommands
<1>2. /\ Do("apply_coi_for_scalar") \in Code
  BY <1>1, AloneIsCode, Codes
<1>3. <<Do("apply_coi_for_scalar")>> \in Seq(Code)
  BY <1>2, List1, Zenon
<1>4. /\ <<"copy if any", "scalar">> \in Simple
  BY Members DEF Machines
<1>5. /\ <<"copy if any", "scalar">> \in Code
  BY <1>4, AloneIsCode, Codes
<1>6. << <<"copy if any", "scalar">> >> \in Seq(Code)
  BY <1>5, List1, Zenon
<1>7. /\ Do("apply_coi_for_bmc") \in Simple
  BY Members DEF Given, Leaky, Procs, UserCommands
<1>8. /\ Do("apply_coi_for_bmc") \in Code
  BY <1>7, AloneIsCode, Codes
<1>9. <<Do("apply_coi_for_bmc")>> \in Seq(Code)
  BY <1>8, List1, Zenon
<1>10. /\ <<"copy if any", "bool">> \in Simple
  BY Members DEF Machines
<1>11. /\ <<"copy if any", "bool">> \in Code
  BY <1>10, AloneIsCode, Codes
<1>12. << <<"copy if any", "bool">> >> \in Seq(Code)
  BY <1>11, List1, Zenon
<1>13. /\ <<"has machine", "be">> \in Simple /\ <<"has machine", "bool">> \in Simple
  BY Members DEF Machines
<1>14. /\ <<"has machine", "be">> \in Code /\ <<"has machine", "bool">> \in Code
  BY <1>13, AloneIsCode, Codes
<1>15. << <<"has machine", "be">>, <<"has machine", "bool">> >> \in Seq(Code)
  BY <1>14, List2, Zenon
<1> QED
  BY <1>3, <1>6, <1>9, <1>12, <1>15, Codes, Catenation DEF RewriterInit
LEMMA ReaderIsCode ==
  ASSUME NEW missing \in BOOLEAN, NEW keys \in Seq(Keys)
  PROVE  Reader(missing, keys) \in Seq(Code)
<1>1. \A k \in Keys : <<"get", k>> \in Code
  BY Members, Codes
<1>2. \A i \in DOMAIN keys : <<"get", keys[i]>> \in Code
  BY <1>1
<1>3. DOMAIN keys = 1 .. Len(keys) /\ Len(keys) \in Nat
  OBVIOUS
<1>4. [i \in DOMAIN keys |-> <<"get", keys[i]>>] \in [1 .. Len(keys) -> Code]
  BY <1>2, <1>3
<1>5. [i \in DOMAIN keys |-> <<"get", keys[i]>>] \in Seq(Code)
  BY <1>3, <1>4, SeqDef
<1> QED
  BY <1>5, AloneIsCode DEF Reader

LEMMA ReadersAreCode ==
  /\ ComputeReachable \in Seq(Code) /\ WriteOrder \in Seq(Code)
  /\ WriteFlatModel \in Seq(Code) /\ WriteBooleanModel \in Seq(Code)
  /\ BmcPickState \in Seq(Code) /\ ReadTrace \in Seq(Code)
<1>1. /\ <<"bdd_fsm">> \in Seq(Keys) /\ <<"bdd_enc">> \in Seq(Keys)
      /\ <<"flat_hierarchy">> \in Seq(Keys) /\ <<"sexp_fsm">> \in Seq(Keys)
      /\ <<"bool_enc", "bdd_enc", "bool_fsm">> \in Seq(Keys)
      /\ <<"be_enc", "bdd_enc", "be_fsm">> \in Seq(Keys)
  BY DEF Keys
<1>2. /\ ModelMissing(TRUE) \in BOOLEAN /\ EncodingMissing \in BOOLEAN
      /\ FlatteningMissing \in BOOLEAN /\ BoolModelMissing(TRUE) \in BOOLEAN
      /\ BmcMissing(TRUE) \in BOOLEAN /\ ("build_flat_model" \notin flags /\ ~coi) \in BOOLEAN
  BY Zenon DEF ModelMissing, EncodingMissing, FlatteningMissing, BoolModelMissing, BmcMissing
<1> QED
  BY <1>1, <1>2, ReaderIsCode, Zenon
     DEF ComputeReachable, WriteOrder, WriteFlatModel, WriteBooleanModel, BmcPickState, ReadTrace

LEMMA PrintReachableStatesIsCode ==
  ASSUME Leaky \in Commands
  PROVE  PrintReachableStates \in Seq(Code)
<1>1. <<"get", "bdd_fsm">> \in Simple
  BY Members DEF Keys
<1>2. <<"may return in catch">> \in Leaks
  BY DEF Leaks
<1>3. <<"may return in catch">> \in Straight \cup Leaks /\ <<"get", "bdd_fsm">> \in Straight \cup Leaks
  BY <1>1, <1>2, Codes
<1>4. << <<"may return in catch">>, <<"get", "bdd_fsm">> >> \in Seq(Straight \cup Leaks)
  BY <1>3, List2, Zenon
<1>5. "print_reachable_states" \in Catches
  BY DEF Catches, Leaky
<1>6. Catch("print_reachable_states", << <<"may return in catch">>, <<"get", "bdd_fsm">> >>)
        \in Seq(Code)
  BY <1>4, <1>5, Codes, Zenon
<1> QED
  BY <1>6, AloneIsCode DEF PrintReachableStates

(* What a function does is code, and what runs after a jump is code or a reset. *)
LEMMA BodyIsCode ==
  ASSUME NEW p \in Procs, p # "reset"
  PROVE  Body(p) \in Seq(Code)
<1>1. ASSUME p \in {"read_model", "flatten_hierarchy", "flatten_smv", "encode_variables", "build_flat_model", "create_flat_model", "flat_model_if_none", "build_model"}
      PROVE  Body(p) \in Seq(Code)
  <2>1. CASE p = "read_model"
    <3>1. Body(p) = ReadModel
      BY <2>1 DEF Body
    <3> QED
      BY <3>1, ReadModelIsCode
  <2>2. CASE p = "flatten_hierarchy"
    <3>1. Body(p) = FlattenHierarchy
      BY <2>2 DEF Body
    <3> QED
      BY <3>1, FlattenHierarchyIsCode
  <2>3. CASE p = "flatten_smv"
    <3>1. Body(p) = FlattenSmv
      BY <2>3 DEF Body
    <3> QED
      BY <3>1, FlattenSmvIsCode
  <2>4. CASE p = "encode_variables"
    <3>1. Body(p) = EncodeVariables
      BY <2>4 DEF Body
    <3> QED
      BY <3>1, EncodeVariablesIsCode
  <2>5. CASE p = "build_flat_model"
    <3>1. Body(p) = BuildFlatModel
      BY <2>5 DEF Body
    <3> QED
      BY <3>1, BuildFlatModelIsCode
  <2>6. CASE p = "create_flat_model"
    <3>1. Body(p) = CreateFlatModel
      BY <2>6 DEF Body
    <3> QED
      BY <3>1, CreateFlatModelIsCode
  <2>7. CASE p = "flat_model_if_none"
    <3>1. Body(p) = FlatModelIfNone
      BY <2>7 DEF Body
    <3> QED
      BY <3>1, BuildFlatModelIsCode
  <2>8. CASE p = "build_model"
    <3>1. Body(p) = BuildModel(FALSE)
      BY <2>8 DEF Body
    <3> QED
      BY <3>1, BuildModelIsCode
  <2> QED
    BY <1>1, <2>1, <2>2, <2>3, <2>4, <2>5, <2>6, <2>7, <2>8
<1>2. ASSUME p \in {"build_model -f", "build_boolean_model", "build_boolean_model -f", "create_boolean_model", "bmc_setup", "bmc_setup -f", "Bmc_Init", "go", "go_bmc"}
      PROVE  Body(p) \in Seq(Code)
  <2>1. CASE p = "build_model -f"
    <3>1. Body(p) = BuildModel(TRUE)
      BY <2>1 DEF Body
    <3> QED
      BY <3>1, BuildModelIsCode
  <2>2. CASE p = "build_boolean_model"
    <3>1. Body(p) = BuildBooleanModel(FALSE)
      BY <2>2 DEF Body
    <3> QED
      BY <3>1, BuildBooleanModelIsCode
  <2>3. CASE p = "build_boolean_model -f"
    <3>1. Body(p) = BuildBooleanModel(TRUE)
      BY <2>3 DEF Body
    <3> QED
      BY <3>1, BuildBooleanModelIsCode
  <2>4. CASE p = "create_boolean_model"
    <3>1. Body(p) = CreateBooleanModel
      BY <2>4 DEF Body
    <3> QED
      BY <3>1, CreateBooleanModelIsCode
  <2>5. CASE p = "bmc_setup"
    <3>1. Body(p) = BmcSetup(FALSE)
      BY <2>5 DEF Body
    <3> QED
      BY <3>1, BmcSetupIsCode
  <2>6. CASE p = "bmc_setup -f"
    <3>1. Body(p) = BmcSetup(TRUE)
      BY <2>6 DEF Body
    <3> QED
      BY <3>1, BmcSetupIsCode
  <2>7. CASE p = "Bmc_Init"
    <3>1. Body(p) = BmcInit
      BY <2>7 DEF Body
    <3> QED
      BY <3>1, BmcInitIsCode
  <2>8. CASE p = "go"
    <3>1. Body(p) = Go
      BY <2>8 DEF Body
    <3> QED
      BY <3>1, GoIsCode
  <2>9. CASE p = "go_bmc"
    <3>1. Body(p) = GoBmc
      BY <2>9 DEF Body
    <3> QED
      BY <3>1, GoBmcIsCode
  <2> QED
    BY <1>2, <2>1, <2>2, <2>3, <2>4, <2>5, <2>6, <2>7, <2>8, <2>9
<1>3. ASSUME p \in {"check_ctlspec", "check_ltlspec_bmc", "apply_coi_for_scalar", "apply_coi_for_bdd", "apply_coi_for_bmc", "environment_fsms_if_no_bdd", "environment_fsms_if_no_be", "rewriter"}
      PROVE  Body(p) \in Seq(Code)
  <2>1. CASE p = "check_ctlspec"
    <3>1. Body(p) = CheckCtlspec
      BY <2>1 DEF Body
    <3> QED
      BY <3>1, CheckCtlspecIsCode
  <2>2. CASE p = "check_ltlspec_bmc"
    <3>1. Body(p) = CheckLtlspecBmc
      BY <2>2 DEF Body
    <3> QED
      BY <3>1, CheckLtlspecBmcIsCode
  <2>3. CASE p = "apply_coi_for_scalar"
    <3>1. Body(p) = ApplyCoiForScalar
      BY <2>3 DEF Body
    <3> QED
      BY <3>1, ApplyCoiForScalarIsCode
  <2>4. CASE p = "apply_coi_for_bdd"
    <3>1. Body(p) = ApplyCoiForBdd
      BY <2>4 DEF Body
    <3> QED
      BY <3>1, ApplyCoiForBddIsCode
  <2>5. CASE p = "apply_coi_for_bmc"
    <3>1. Body(p) = ApplyCoiForBmc
      BY <2>5 DEF Body
    <3> QED
      BY <3>1, ApplyCoiForBmcIsCode
  <2>6. CASE p = "environment_fsms_if_no_bdd"
    <3>1. Body(p) = EnvironmentFsms("bdd")
      BY <2>6 DEF Body
    <3> QED
      BY <3>1, EnvironmentFsmsIsCode DEF Machines
  <2>7. CASE p = "environment_fsms_if_no_be"
    <3>1. Body(p) = EnvironmentFsms("be")
      BY <2>7 DEF Body
    <3> QED
      BY <3>1, EnvironmentFsmsIsCode DEF Machines
  <2>8. CASE p = "rewriter"
    <3>1. Body(p) = RewriterInit
      BY <2>8 DEF Body
    <3> QED
      BY <3>1, RewriterInitIsCode
  <2> QED
    BY <1>3, <2>1, <2>2, <2>3, <2>4, <2>5, <2>6, <2>7, <2>8
<1>4. ASSUME p \in {"compute_reachable", "write_order", "write_flat_model", "write_boolean_model", "bmc_pick_state", "read_trace"}
      PROVE  Body(p) \in Seq(Code)
  <2>1. CASE p = "compute_reachable"
    <3>1. Body(p) = ComputeReachable
      BY <2>1 DEF Body
    <3> QED
      BY <3>1, ReadersAreCode
  <2>2. CASE p = "write_order"
    <3>1. Body(p) = WriteOrder
      BY <2>2 DEF Body
    <3> QED
      BY <3>1, ReadersAreCode
  <2>3. CASE p = "write_flat_model"
    <3>1. Body(p) = WriteFlatModel
      BY <2>3 DEF Body
    <3> QED
      BY <3>1, ReadersAreCode
  <2>4. CASE p = "write_boolean_model"
    <3>1. Body(p) = WriteBooleanModel
      BY <2>4 DEF Body
    <3> QED
      BY <3>1, ReadersAreCode
  <2>5. CASE p = "bmc_pick_state"
    <3>1. Body(p) = BmcPickState
      BY <2>5 DEF Body
    <3> QED
      BY <3>1, ReadersAreCode
  <2>6. CASE p = "read_trace"
    <3>1. Body(p) = ReadTrace
      BY <2>6 DEF Body
    <3> QED
      BY <3>1, ReadersAreCode
  <2> QED
    BY <1>4, <2>1, <2>2, <2>3, <2>4, <2>5, <2>6
<1>5. CASE p = "print_reachable_states"
  <2>1. Body(p) = PrintReachableStates
    BY <1>5 DEF Body
  <2>2. Leaky \in Commands
    BY <1>5 DEF Procs, Given, Leaky
  <2> QED
    BY <2>1, <2>2, PrintReachableStatesIsCode
<1> QED
  BY <1>1, <1>2, <1>3, <1>4, <1>5 DEF Procs, Given, UserCommands

(* The effects of a reset one by one.                                      *)
LEMMA ResetSteps ==
  /\ Reset[1] = <<"no properties">> /\ Reset[2] = <<"remove", "be_fsm">>
  /\ Reset[3] = <<"unset", "bmc_init">> /\ Reset[4] = <<"destroy encoder", "bdd">>
  /\ Reset[5] = <<"destroy encoder", "be">> /\ Reset[6] = <<"destroy encoder", "bool">>
  /\ Reset[7] = <<"remove", "bdd_fsm">> /\ Reset[8] = <<"remove", "bool_fsm">>
  /\ Reset[9] = <<"remove", "sexp_fsm">> /\ Reset[10] = <<"remove", "flat_hierarchy">>
  /\ Reset[11] = <<"quit compiler">> /\ Reset[12] = <<"remove", "hrc">>
  /\ Reset[13] = <<"put", "hrc">> /\ Reset[14] = Last
BY DEF Reset, Last

LEMMA ResetIsEffects ==
  /\ Reset \in Seq(Simple \cup {Last})
  /\ Len(Reset) = 14
  /\ \A i \in 1 .. 13 : Reset[i] \in Simple
<1>1. /\ <<"remove", "be_fsm">> \in Simple /\ <<"unset", "bmc_init">> \in Simple
      /\ <<"remove", "bdd_fsm">> \in Simple /\ <<"remove", "bool_fsm">> \in Simple
      /\ <<"remove", "sexp_fsm">> \in Simple /\ <<"remove", "flat_hierarchy">> \in Simple
      /\ <<"remove", "hrc">> \in Simple /\ <<"put", "hrc">> \in Simple
  BY Members DEF Keys, Flags
<1>2. /\ <<"destroy encoder", "bdd">> \in Simple /\ <<"destroy encoder", "be">> \in Simple
      /\ <<"destroy encoder", "bool">> \in Simple
  BY Members DEF Encoders
<1>3. Last \in {Last}
  OBVIOUS
<1>4. Reset \in Seq(Simple \cup {Last})
  <2> DEFINE S == Simple \cup {Last}
  <2>1. /\ <<"remove", "be_fsm">> \in S /\ <<"unset", "bmc_init">> \in S
        /\ <<"remove", "bdd_fsm">> \in S /\ <<"remove", "bool_fsm">> \in S
        /\ <<"remove", "sexp_fsm">> \in S /\ <<"remove", "flat_hierarchy">> \in S
        /\ <<"remove", "hrc">> \in S /\ <<"put", "hrc">> \in S
        /\ <<"destroy encoder", "bdd">> \in S /\ <<"destroy encoder", "be">> \in S
        /\ <<"destroy encoder", "bool">> \in S
    BY <1>1, <1>2
  <2>2. <<"no properties">> \in S /\ <<"quit compiler">> \in S /\ Last \in S
    BY AloneIsCode
  <2> HIDE DEF S
  <2>3. Reset \in Seq(S)
    BY <2>1, <2>2, List14, Zenon DEF Reset, Last
  <2> QED
    BY <2>3 DEF S
<1>5. Len(Reset) = 14
  BY DEF Reset
<1>6. ASSUME NEW i \in 1 .. 13
      PROVE  Reset[i] \in Simple
  <2>1. \/ i = 1 \/ i = 2 \/ i = 3 \/ i = 4 \/ i = 5 \/ i = 6 \/ i = 7
        \/ i = 8 \/ i = 9 \/ i = 10 \/ i = 11 \/ i = 12 \/ i = 13
    BY <1>6
  <2> QED
    BY <2>1, <1>1, <1>2, AloneIsCode, ResetSteps
<1> QED
  BY <1>4, <1>5, <1>6

LEMMA HandlerIsEffects ==
  ASSUME NEW h \in Catches \cup {"dispatch"}
  PROVE  /\ Handler("hierarchy") = Reset \o Fail
         /\ Handler(h) \in Seq(Code \cup {Last})
         /\ h # "hierarchy" => Handler(h) \in Seq(Code)
<1>0. Handler("hierarchy") = Reset \o Fail
  BY DEF Handler
<1>1. CASE h = "hierarchy"
  <2>1. Simple \cup {Last} \subseteq Code \cup {Last}
    BY Codes
  <2>2. Reset \in Seq(Code \cup {Last}) /\ Fail \in Seq(Code \cup {Last})
    BY <2>1, ResetIsEffects, AloneIsCode, SeqMonotonic
  <2>3. Reset \o Fail \in Seq(Code \cup {Last})
    BY <2>2, Catenation, Zenon
  <2> QED
    BY <1>0, <1>1, <2>3
<1>2. CASE h = "fill"
  <2>1. Handler(h) = FlatteningFailed
    BY <1>2 DEF Handler
  <2>2. Handler(h) \in Seq(Code)
    BY <2>1, FlatteningFailedIsCode
  <2> QED
    BY <1>0, <1>2, <2>2, SeqMonotonic
<1>3. CASE h = "boolean_fsm"
  <2>1. Handler(h) = << <<"drop layer", "determ">>, <<"throw">> >>
    BY <1>3 DEF Handler
  <2>2. <<"drop layer", "determ">> \in Code
    BY Members, Codes DEF Layers
  <2>3. Handler(h) \in Seq(Code)
    BY <2>1, <2>2, AloneIsCode, List2, Zenon
  <2> QED
    BY <1>0, <1>3, <2>3, SeqMonotonic
<1>4. CASE h \notin {"hierarchy", "fill", "boolean_fsm"}
  <2>1. Handler(h) = Fail
    BY <1>4 DEF Handler
  <2>2. Handler(h) \in Seq(Code)
    BY <2>1, AloneIsCode
  <2> QED
    BY <1>0, <1>4, <2>2, SeqMonotonic
<1> QED
  BY <1>1, <1>2, <1>3, <1>4

(***************************************************************************)
(* The jump buffers of a list of effects.                                  *)
(***************************************************************************)
EndsOf(s) == {i \in DOMAIN s : IsEnd(s[i])}

LEMMA BuffersType ==
  ASSUME NEW S, NEW s \in Seq(S)
  PROVE  IsFiniteSet(EndsOf(s)) /\ Buffers(s) \in Nat /\ Buffers(s) = Cardinality(EndsOf(s))
<1>1. DOMAIN s = 1 .. Len(s) /\ Len(s) \in Nat
  OBVIOUS
<1>2. IsFiniteSet(1 .. Len(s))
  BY <1>1, FS_Interval
<1>3. EndsOf(s) \in SUBSET (1 .. Len(s))
  BY <1>1 DEF EndsOf
<1>4. IsFiniteSet(EndsOf(s))
  BY <1>2, <1>3, FS_Subset
<1> QED
  BY <1>4, FS_CardinalityType DEF Buffers, EndsOf

LEMMA BuffersNone ==
  ASSUME NEW S, NEW s \in Seq(S), \A e \in S : ~IsEnd(e)
  PROVE  Buffers(s) = 0
<1>1. EndsOf(s) = {}
  BY DEF EndsOf
<1> QED
  BY <1>1, FS_EmptySet DEF Buffers, EndsOf

LEMMA BuffersOne ==
  ASSUME NEW e
  PROVE  Buffers(<<e>>) = IF IsEnd(e) THEN 1 ELSE 0
<1>1. DOMAIN <<e>> = {1} /\ <<e>>[1] = e
  OBVIOUS
<1>2. EndsOf(<<e>>) = IF IsEnd(e) THEN {1} ELSE {}
  BY <1>1 DEF EndsOf
<1> QED
  BY <1>2, FS_EmptySet, FS_Singleton DEF Buffers, EndsOf

LEMMA BuffersCat ==
  ASSUME NEW S, NEW s \in Seq(S), NEW t \in Seq(S)
  PROVE  Buffers(s \o t) = Buffers(s) + Buffers(t)
<1> DEFINE n == Len(s)
           High == {i + n : i \in EndsOf(t)}
           f == [i \in EndsOf(t) |-> i + n]
<1>1. n \in Nat /\ Len(t) \in Nat /\ DOMAIN s = 1 .. n /\ DOMAIN t = 1 .. Len(t)
  OBVIOUS
<1>2. DOMAIN (s \o t) = 1 .. (n + Len(t))
  OBVIOUS
<1>3. \A i \in 1 .. n : (s \o t)[i] = s[i]
  OBVIOUS
<1>4. \A i \in 1 .. Len(t) : (s \o t)[i + n] = t[i]
  OBVIOUS
<1> HIDE DEF n
<1>5. \A i \in 1 .. (n + Len(t)) : i \in 1 .. n \/ i - n \in 1 .. Len(t)
  BY <1>1
<1>6. EndsOf(s \o t) = EndsOf(s) \cup High
  <2>1. EndsOf(s) \subseteq EndsOf(s \o t)
    BY <1>1, <1>2, <1>3 DEF EndsOf
  <2>2. High \subseteq EndsOf(s \o t)
    BY <1>1, <1>2, <1>4 DEF EndsOf
  <2>3. ASSUME NEW i \in EndsOf(s \o t)
        PROVE  i \in EndsOf(s) \cup High
    <3>1. i \in 1 .. (n + Len(t)) /\ IsEnd((s \o t)[i])
      BY <1>2 DEF EndsOf
    <3>2. CASE i \in 1 .. n
      BY <3>1, <3>2, <1>1, <1>3 DEF EndsOf
    <3>3. CASE i - n \in 1 .. Len(t)
      <4>1. (i - n) + n = i
        BY <3>1, <1>1
      <4>2. IsEnd(t[i - n])
        BY <4>1, <3>1, <3>3, <1>4
      <4>3. i - n \in EndsOf(t)
        BY <4>2, <3>3, <1>1 DEF EndsOf
      <4> QED
        BY <4>1, <4>3
    <3> QED
      BY <3>1, <3>2, <3>3, <1>5
  <2> QED
    BY <2>1, <2>2, <2>3
<1>7. EndsOf(s) \cap High = {}
  BY <1>1 DEF EndsOf
<1>8. f \in Bijection(EndsOf(t), High)
  <2>1. EndsOf(t) \subseteq Nat
    BY <1>1 DEF EndsOf
  <2>2. \A x, y \in EndsOf(t) : f[x] = f[y] => x = y
    BY <2>1, <1>1
  <2> QED
    BY <2>2, Fun_IsBij
<1>9. IsFiniteSet(High) /\ Cardinality(High) = Cardinality(EndsOf(t))
  BY <1>8, BuffersType, FS_Bijection DEF ExistsBijection
<1>10. Cardinality(EndsOf(s) \cap High) = 0
  BY <1>7, FS_EmptySet
<1>11. Cardinality(EndsOf(s \o t))
         = Cardinality(EndsOf(s)) + Cardinality(High) - Cardinality(EndsOf(s) \cap High)
  BY <1>6, <1>9, BuffersType, FS_Union
<1>12. Buffers(s \o t) = Cardinality(EndsOf(s \o t))
  BY DEF Buffers, EndsOf
<1> QED
  BY <1>9, <1>10, <1>11, <1>12, BuffersType
(* A return from inside a CATCH is followed by the end of that CATCH.      *)
Guarded(s) == \A i \in DOMAIN s : s[i] \in Leaks => \E j \in DOMAIN s : j > i /\ IsEnd(s[j])

LEMMA EffectsAreTuples ==
  ASSUME NEW e \in Effects
  PROVE  e # <<>> /\ (IsEnd(e) => e \notin Leaks)
<1>1. \A a : <<a>> # <<>>
  OBVIOUS
<1>2. \A A, B : e \in A \X B => e # <<>>
  OBVIOUS
<1>3. \A A, B, C : e \in A \X B \X C => e # <<>>
  OBVIOUS
<1>4. e \in Alone \cup Leaks \cup {Last} => e # <<>>
  BY <1>1, Zenon DEF Alone, Leaks, Last
<1>5. e \in Simple => e # <<>>
  BY <1>2, <1>3, <1>4, Zenon DEF Simple
<1>6. e \in Code \cup Ends => e # <<>>
  BY <1>2, <1>3, <1>5, Zenon DEF Code, Straight, Ends
<1>7. e # <<>>
  BY <1>4, <1>6 DEF Effects, Pieces
<1> QED
  BY <1>7, Kinds DEF IsEnd

LEMMA GuardedNoLeak ==
  ASSUME NEW S, NEW s \in Seq(S), S \cap Leaks = {}
  PROVE  Guarded(s)
BY DEF Guarded

LEMMA GuardedEnd ==
  ASSUME NEW s \in Seq(Effects), NEW e \in Effects, IsEnd(e)
  PROVE  Guarded(s \o <<e>>)
<1>1. s \o <<e>> \in Seq(Effects) /\ Len(s \o <<e>>) = Len(s) + 1 /\ Len(s) \in Nat
  OBVIOUS
<1>2. (s \o <<e>>)[Len(s) + 1] = e
  OBVIOUS
<1>3. DOMAIN (s \o <<e>>) = 1 .. (Len(s) + 1)
  OBVIOUS
<1>4. e \notin Leaks
  BY EffectsAreTuples
<1> QED
  BY <1>1, <1>2, <1>3, <1>4 DEF Guarded

LEMMA GuardedCat ==
  ASSUME NEW s \in Seq(Effects), NEW t \in Seq(Effects), Guarded(s), Guarded(t)
  PROVE  Guarded(s \o t)
<1> DEFINE n == Len(s)
<1>1. n \in Nat /\ Len(t) \in Nat /\ DOMAIN s = 1 .. n /\ DOMAIN t = 1 .. Len(t)
  OBVIOUS
<1>2. DOMAIN (s \o t) = 1 .. (n + Len(t))
  OBVIOUS
<1>3. \A i \in 1 .. n : (s \o t)[i] = s[i]
  OBVIOUS
<1>4. \A i \in 1 .. Len(t) : (s \o t)[i + n] = t[i]
  OBVIOUS
<1> HIDE DEF n
<1> SUFFICES ASSUME NEW i \in DOMAIN (s \o t), (s \o t)[i] \in Leaks
             PROVE  \E j \in DOMAIN (s \o t) : j > i /\ IsEnd((s \o t)[j])
  BY DEF Guarded
<1>5. CASE i \in 1 .. n
  <2>1. PICK j \in 1 .. n : j > i /\ IsEnd(s[j])
    BY <1>1, <1>3, <1>5 DEF Guarded
  <2>2. j \in DOMAIN (s \o t) /\ IsEnd((s \o t)[j])
    BY <2>1, <1>1, <1>2, <1>3
  <2> QED
    BY <2>1, <2>2
<1>6. CASE i - n \in 1 .. Len(t)
  <2>1. t[i - n] \in Leaks
    <3>1. (i - n) + n = i
      BY <1>1, <1>2
    <3> QED
      BY <3>1, <1>4, <1>6
  <2>2. PICK j \in 1 .. Len(t) : j > i - n /\ IsEnd(t[j])
    BY <2>1, <1>1, <1>6 DEF Guarded
  <2>3. j + n \in DOMAIN (s \o t) /\ IsEnd((s \o t)[j + n]) /\ j + n > i
    BY <2>2, <1>1, <1>2, <1>4
  <2> QED
    BY <2>3
<1> QED
  BY <1>1, <1>2, <1>5, <1>6

LEMMA GuardedSuffix ==
  ASSUME NEW s \in Seq(Effects), Guarded(s), NEW m \in 1 .. Len(s) + 1
  PROVE  Guarded(SubSeq(s, m, Len(s)))
<1> DEFINE t == SubSeq(s, m, Len(s))
<1>1. Len(s) \in Nat /\ DOMAIN s = 1 .. Len(s)
  OBVIOUS
<1>2. DOMAIN t = 1 .. (Len(s) - m + 1)
  BY <1>1
<1>3. \A i \in 1 .. (Len(s) - m + 1) : t[i] = s[i + m - 1]
  BY <1>1
<1> HIDE DEF t
<1>4. ASSUME NEW i \in DOMAIN t, t[i] \in Leaks
      PROVE  \E j \in DOMAIN t : j > i /\ IsEnd(t[j])
  <2>0. i \in 1 .. (Len(s) - m + 1)
    BY <1>2
  <2>1. s[i + m - 1] \in Leaks /\ i + m - 1 \in 1 .. Len(s)
    <3>1. s[i + m - 1] \in Leaks
      BY <2>0, <1>3, <1>4
    <3>2. i + m - 1 \in 1 .. Len(s)
      BY <2>0, <1>1
    <3> QED
      BY <3>1, <3>2
  <2>2. PICK j \in 1 .. Len(s) : j > i + m - 1 /\ IsEnd(s[j])
    BY <2>1, <1>1 DEF Guarded
  <2>3. j - m + 1 \in DOMAIN t /\ j - m + 1 > i
    BY <2>2, <1>1, <1>2
  <2>4. t[j - m + 1] = s[j]
    <3>1. (j - m + 1) + m - 1 = j
      BY <2>2, <1>1
    <3> QED
      BY <3>1, <2>3, <1>2, <1>3
  <2> QED
    BY <2>2, <2>3, <2>4
<1> QED
  BY <1>4 DEF Guarded, t

(* What is left after the first effect.                                    *)
LEMMA RestOf ==
  ASSUME NEW s \in Seq(Effects), s # <<>>, Guarded(s)
  PROVE  /\ s[1] \in Effects /\ Tail(s) \in Seq(Effects) /\ Guarded(Tail(s))
         /\ Buffers(s) = Buffers(Tail(s)) + (IF IsEnd(s[1]) THEN 1 ELSE 0)
         /\ Buffers(Tail(s)) \in Nat
         /\ s[1] \in Leaks => Buffers(Tail(s)) > 0
<1>1. s[1] \in Effects /\ Tail(s) \in Seq(Effects) /\ s = <<s[1]>> \o Tail(s)
  BY HeadTailProperties
<1>2. Tail(s) = SubSeq(s, 2, Len(s)) /\ Len(s) \in Nat /\ Len(s) >= 1
  BY TailIsSubSeq
<1>3. Guarded(Tail(s))
  <2>1. 2 \in 1 .. Len(s) + 1
    BY <1>2
  <2> QED
    BY <1>2, <2>1, GuardedSuffix
<1>4. <<s[1]>> \in Seq(Effects)
  BY <1>1
<1>5. Buffers(s) = Buffers(<<s[1]>>) + Buffers(Tail(s))
  BY <1>1, <1>4, BuffersCat, Zenon
<1>6. Buffers(Tail(s)) \in Nat
  BY <1>1, BuffersType
<1>7. Buffers(<<s[1]>>) = IF IsEnd(s[1]) THEN 1 ELSE 0
  BY BuffersOne
<1>8. ASSUME s[1] \in Leaks
      PROVE  Buffers(Tail(s)) > 0
  <2>1. PICK j \in DOMAIN s : j > 1 /\ IsEnd(s[j])
    BY <1>2, <1>8 DEF Guarded
  <2>2. j - 1 \in DOMAIN Tail(s) /\ Tail(s)[j - 1] = s[j]
    BY <2>1
  <2>3. EndsOf(Tail(s)) # {}
    BY <2>1, <2>2 DEF EndsOf
  <2> QED
    <3>1. IsFiniteSet(EndsOf(Tail(s))) /\ Buffers(Tail(s)) = Cardinality(EndsOf(Tail(s)))
      BY <1>1, BuffersType
    <3>2. Cardinality(EndsOf(Tail(s))) # 0
      BY <2>3, <3>1, FS_EmptySet
    <3> QED
      BY <3>1, <3>2, <1>6
<1> QED
  BY <1>1, <1>3, <1>5, <1>6, <1>7, <1>8

(* Every set of numbers that is not empty has a least element.  The        *)
(* library's induction takes a predicate as a parameter, which the provers *)
(* cannot instantiate: here the segments 0 .. n are a well-founded family  *)
(* of finite sets.                                                         *)
LEMMA LeastNat ==
  ASSUME NEW S \in SUBSET Nat, S # {}
  PROVE  \E n \in S : \A m \in S : n <= m
<1> DEFINE R == StrictSubsetOrdering(Nat)
           T == {0 .. n : n \in S}
<1>1. IsWellFoundedOn(R, FiniteSubsetsOf(Nat))
  BY FS_StrictSubsetOrderingWellFounded
<1>2. T \subseteq FiniteSubsetsOf(Nat)
  <2>1. \A n \in S : IsFiniteSet(0 .. n) /\ 0 .. n \subseteq Nat
    BY FS_Interval
  <2> QED
    BY <2>1 DEF FiniteSubsetsOf
<1>3. T # {}
  OBVIOUS
<1>4. \E x \in T : \A y \in T : ~(<<y, x>> \in R)
  <2> HIDE DEF R, T
  <2> QED
    BY <1>1, <1>2, <1>3, WFMin
<1>5. PICK n \in S : \A y \in T : ~(<<y, 0 .. n>> \in R)
  BY <1>4
<1>6. ASSUME NEW m \in S, ~(n <= m)
      PROVE  FALSE
  <2>1. 0 .. m \subseteq 0 .. n /\ n \in 0 .. n /\ n \notin 0 .. m
    BY <1>6
  <2>2. 0 .. m \in SUBSET Nat /\ 0 .. n \in SUBSET Nat
    OBVIOUS
  <2>3. 0 .. m # 0 .. n
    BY <2>1
  <2>4. <<0 .. m, 0 .. n>> \in R
    BY <2>1, <2>2, <2>3 DEF StrictSubsetOrdering
  <2> QED
    BY <1>5, <2>4
<1> QED
  BY <1>6

(* What is left after the innermost CATCH.                                 *)
LEMMA FirstEnd ==
  ASSUME NEW s \in Seq(Effects), Guarded(s), Buffers(s) # 0,
         NEW n, n = CHOOSE i \in DOMAIN s :
                      IsEnd(s[i]) /\ \A j \in 1 .. i - 1 : ~IsEnd(s[j])
  PROVE  /\ n \in DOMAIN s /\ IsEnd(s[n]) /\ s[n] \in Effects
         /\ \A j \in 1 .. n - 1 : ~IsEnd(s[j])
         /\ SubSeq(s, n + 1, Len(s)) \in Seq(Effects) /\ Guarded(SubSeq(s, n + 1, Len(s)))
         /\ Buffers(s) = Buffers(SubSeq(s, n + 1, Len(s))) + 1
<1>1. DOMAIN s = 1 .. Len(s) /\ Len(s) \in Nat
  OBVIOUS
<1>2. \E i \in DOMAIN s : IsEnd(s[i])
  <2>1. EndsOf(s) # {}
    BY BuffersType, FS_EmptySet
  <2> QED
    BY <2>1 DEF EndsOf
<1>3. n \in DOMAIN s /\ IsEnd(s[n]) /\ \A j \in 1 .. n - 1 : ~IsEnd(s[j])
  <2>1. EndsOf(s) \in SUBSET Nat /\ EndsOf(s) # {}
    BY <1>1, <1>2 DEF EndsOf
  <2>2. PICK i \in EndsOf(s) : \A j \in EndsOf(s) : i <= j
    BY <2>1, LeastNat
  <2>3. i \in DOMAIN s /\ IsEnd(s[i])
    BY DEF EndsOf
  <2>4. \A j \in 1 .. i - 1 : ~IsEnd(s[j])
    <3>1. \A j \in 1 .. i - 1 : j \in DOMAIN s /\ ~(i <= j)
      BY <1>1, <2>3
    <3> QED
      BY <2>2, <3>1 DEF EndsOf
  <2> QED
    BY <2>3, <2>4
<1> DEFINE u == SubSeq(s, 1, n - 1)
           t == SubSeq(s, n + 1, Len(s))
<1>4. n \in Nat /\ n >= 1 /\ n <= Len(s)
  BY <1>1, <1>3
<1>5. s = SubSeq(s, 1, n) \o t
  <2>1. 1 \in 1 .. Len(s) + 1 /\ n \in 1 - 1 .. Len(s) /\ Len(s) \in n .. Len(s)
    BY <1>1, <1>4
  <2>2. SubSeq(s, 1, n) \o SubSeq(s, n + 1, Len(s)) = SubSeq(s, 1, Len(s))
    BY <2>1, ConcatAdjacentSubSeq, Zenon
  <2> QED
    BY <2>2, SubSeqFull, Zenon
<1>6. SubSeq(s, 1, n) = u \o <<s[n]>>
  <2>1. 1 \in 1 .. Len(s) /\ n \in 1 .. Len(s)
    BY <1>1, <1>4
  <2> QED
    BY <2>1, SubSeqRecursiveSecond, Zenon
<1>7. s[n] \in Effects
  BY <1>3, <1>1, ElementOfSeq
<1>8. t \in Seq(Effects)
  <2>0. \A i \in 1 .. Len(s) : s[i] \in Effects
    BY ElementOfSeq
  <2>1. n + 1 \in Int /\ Len(s) \in Int /\ \A i \in n + 1 .. Len(s) : i \in 1 .. Len(s)
    <3>1. n \in Nat /\ Len(s) \in Nat
      BY <1>1, <1>4
    <3>2. ASSUME NEW m \in Nat, NEW l \in Nat
          PROVE  m + 1 \in Int /\ l \in Int /\ \A i \in m + 1 .. l : i \in 1 .. l
      OBVIOUS
    <3> QED
      BY <3>1, <3>2, Zenon
  <2> QED
    BY <2>0, <2>1, SubSeqProperties, Zenon
<1>9. u \in Seq({e \in Effects : ~IsEnd(e)})
  <2>1. 1 \in Int /\ n - 1 \in Int /\ \A i \in 1 .. n - 1 : s[i] \in Effects /\ ~IsEnd(s[i])
    BY <1>1, <1>3, <1>4, ElementOfSeq
  <2>2. \A i \in 1 .. n - 1 : s[i] \in {e \in Effects : ~IsEnd(e)}
    BY <2>1
  <2> QED
    BY <2>1, <2>2, SubSeqProperties, Zenon
<1>10. u \in Seq(Effects) /\ <<s[n]>> \in Seq(Effects)
  BY <1>7, <1>9, SeqMonotonic
<1>11. u \o <<s[n]>> \in Seq(Effects)
  BY <1>10, Catenation
<1>12. Guarded(t)
  <2>1. n + 1 \in 1 .. Len(s) + 1
    BY <1>1, <1>4
  <2> QED
    BY <2>1, GuardedSuffix
<1>13. Buffers(u) = 0
  <2>1. \A e \in {e \in Effects : ~IsEnd(e)} : ~IsEnd(e)
    OBVIOUS
  <2> QED
    BY <1>9, <2>1, BuffersNone, Zenon
<1>14. Buffers(<<s[n]>>) = 1
  BY <1>3, BuffersOne
<1>15. Buffers(t) \in Nat
  BY <1>8, BuffersType
<1> HIDE DEF u, t
<1>16. Buffers(u \o <<s[n]>>) = 1
  <2>1. Buffers(u \o <<s[n]>>) = Buffers(u) + Buffers(<<s[n]>>)
    BY <1>10, BuffersCat, Zenon
  <2> QED
    BY <2>1, <1>13, <1>14
<1>17. Buffers(s) = 1 + Buffers(t)
  <2>1. s = (u \o <<s[n]>>) \o t
    BY <1>5, <1>6
  <2>2. Buffers((u \o <<s[n]>>) \o t) = Buffers(u \o <<s[n]>>) + Buffers(t)
    BY <1>8, <1>11, BuffersCat, Zenon
  <2> QED
    BY <2>1, <2>2, <1>16
<1>18. Buffers(s) = Buffers(t) + 1
  BY <1>15, <1>17
<1> QED
  BY <1>3, <1>7, <1>8, <1>12, <1>18 DEF t
-----------------------------------------------------------------------------
(* What a step puts in front of what is left.                              *)
LEMMA PlainCode ==
  \A e \in Code \cup {Last} : ~IsEnd(e) /\ e \notin Leaks
<1> SUFFICES ASSUME NEW e \in Code \cup {Last} PROVE ~IsEnd(e) /\ e \notin Leaks
  OBVIOUS
<1>1. e \in Simple => e[1] \notin {"end", "may return in catch"}
  BY SimpleKinds
<1>2. e \in {"may"} \X Simple => e[1] = "may"
  OBVIOUS
<1>3. e \in {"catch"} \X Catches \X Seq(Straight \cup Leaks) => e[1] = "catch"
  OBVIOUS
<1>4. e = Last => e[1] = "init compiler"
  BY Kind1 DEF Last
<1>5. e[1] \notin {"end", "may return in catch"}
  BY <1>1, <1>2, <1>3, <1>4 DEF Code, Straight
<1>6. e \in Leaks => e[1] = "may return in catch"
  BY Kind1 DEF Leaks
<1> QED
  BY <1>5, <1>6 DEF IsEnd

LEMMA PlainList ==
  ASSUME NEW s \in Seq(Code \cup {Last})
  PROVE  s \in Seq(Effects) /\ Guarded(s) /\ Buffers(s) = 0
<1>1. Code \cup {Last} \subseteq Effects
  BY Codes DEF Effects
<1>2. (Code \cup {Last}) \cap Leaks = {}
  BY PlainCode
<1>3. Guarded(s)
  BY <1>2, GuardedNoLeak
<1>4. Buffers(s) = 0
  BY PlainCode, BuffersNone, Zenon
<1> QED
  BY <1>1, <1>3, <1>4, SeqMonotonic

LEMMA PutPlain ==
  ASSUME NEW s \in Seq(Code \cup {Last}), NEW t \in Seq(Effects), Guarded(t)
  PROVE  s \o t \in Seq(Effects) /\ Guarded(s \o t) /\ Buffers(s \o t) = Buffers(t)
<1>1. s \in Seq(Effects) /\ Guarded(s) /\ Buffers(s) = 0
  BY PlainList
<1>2. s \o t \in Seq(Effects) /\ Guarded(s \o t)
  BY <1>1, Catenation, GuardedCat
<1>3. Buffers(s \o t) = Buffers(s) + Buffers(t)
  BY <1>1, BuffersCat, Zenon
<1>4. Buffers(t) \in Nat
  BY BuffersType
<1> QED
  BY <1>1, <1>2, <1>3, <1>4

LEMMA PutCatch ==
  ASSUME NEW b \in Seq(Straight \cup Leaks), NEW e \in Ends, NEW t \in Seq(Effects), Guarded(t)
  PROVE  /\ b \o <<e>> \o t \in Seq(Effects) /\ Guarded(b \o <<e>> \o t)
         /\ Buffers(b \o <<e>> \o t) = Buffers(t) + 1
<1>1. Straight \cup Leaks \subseteq Effects
  BY Codes DEF Effects, Pieces
<1>2. b \in Seq(Effects)
  BY <1>1, SeqMonotonic
<1>3. e \in Effects /\ IsEnd(e)
  BY DEF Ends, Effects, Pieces, IsEnd
<1>4. <<e>> \in Seq(Effects)
  BY <1>3
<1>5. b \o <<e>> \in Seq(Effects) /\ Guarded(b \o <<e>>)
  BY <1>2, <1>3, <1>4, Catenation, GuardedEnd
<1>6. (b \o <<e>>) \o t \in Seq(Effects) /\ Guarded((b \o <<e>>) \o t)
  BY <1>5, Catenation, GuardedCat
<1>7. \A x \in Straight \cup Leaks : ~IsEnd(x)
  <2>1. \A x \in Straight : ~IsEnd(x)
    BY PlainCode, Codes
  <2>2. \A x \in Leaks : x[1] = "may return in catch"
    BY Kind1 DEF Leaks
  <2> QED
    BY <2>1, <2>2 DEF IsEnd
<1>8. Buffers(b) = 0
  BY <1>7, BuffersNone, Zenon
<1>9. Buffers(<<e>>) = 1
  BY <1>3, BuffersOne
<1>10. Buffers(b \o <<e>>) = Buffers(b) + Buffers(<<e>>)
  BY <1>2, <1>4, BuffersCat, Zenon
<1>11. Buffers((b \o <<e>>) \o t) = Buffers(b \o <<e>>) + Buffers(t)
  BY <1>5, BuffersCat, Zenon
<1>12. Buffers(t) \in Nat
  BY BuffersType
<1>13. Buffers((b \o <<e>>) \o t) = Buffers(t) + 1
  BY <1>8, <1>9, <1>10, <1>11, <1>12
<1> QED
  BY <1>6, <1>13

(***************************************************************************)
(* The inductive invariant.  What is left to do is made of effects; the    *)
(* stack holds a buffer for each CATCH that is being executed.  A return   *)
(* from inside a CATCH leaves one more.                                    *)
(***************************************************************************)
Stacked(s, p) ==
  /\ s \in Seq(Effects) /\ Guarded(s)
  /\ p \in 0 .. MaxJmp /\ 1 + Buffers(s) <= p
  /\ Leaky \notin Commands => p = 1 + Buffers(s)

TodoInv ==
  /\ aborted = <<>> => Stacked(todo, pos)
  /\ aborted # <<>> => todo = <<>> /\ pos \in 0 .. MaxJmp

(* What a step that checks or changes data does to what is left to do.     *)
Passes ==
  /\ pos' = pos
  /\ \/ todo' = Rest /\ UNCHANGED aborted
     \/ todo' = <<>> /\ aborted' = Effect

LEMMA StackedRest ==
  ASSUME NEW s, NEW p, Stacked(s, p), s # <<>>
  PROVE  /\ s[1] \in Effects
         /\ s[1] \notin Ends => Stacked(Tail(s), p)
         /\ s[1] \in Ends => Stacked(Tail(s), p - 1)
         /\ Buffers(Tail(s)) \in Nat /\ Tail(s) \in Seq(Effects) /\ Guarded(Tail(s))
<1>1. /\ s[1] \in Effects /\ Tail(s) \in Seq(Effects) /\ Guarded(Tail(s))
      /\ Buffers(s) = Buffers(Tail(s)) + (IF IsEnd(s[1]) THEN 1 ELSE 0)
      /\ Buffers(Tail(s)) \in Nat
  BY RestOf DEF Stacked
<1>2. IsEnd(s[1]) <=> s[1] \in Ends
  BY <1>1, Kinds DEF IsEnd
<1>3. s[1] \notin Ends => Buffers(s) = Buffers(Tail(s))
  BY <1>1, <1>2
<1>4. s[1] \in Ends => Buffers(s) = Buffers(Tail(s)) + 1
  BY <1>1, <1>2
<1>5. p \in 0 .. MaxJmp /\ 1 + Buffers(s) <= p /\ (Leaky \notin Commands => p = 1 + Buffers(s))
  BY DEF Stacked
<1>6. s[1] \notin Ends => Stacked(Tail(s), p)
  BY <1>1, <1>3, <1>5 DEF Stacked
<1>7. ASSUME s[1] \in Ends
      PROVE  Stacked(Tail(s), p - 1)
  <2>1. Buffers(s) = Buffers(Tail(s)) + 1
    BY <1>4, <1>7
  <2>2. p - 1 \in 0 .. MaxJmp /\ 1 + Buffers(Tail(s)) <= p - 1
    BY <2>1, <1>1, <1>5, MaxJmpAssumption
  <2>3. Leaky \notin Commands => p - 1 = 1 + Buffers(Tail(s))
    BY <2>1, <1>1, <1>5, MaxJmpAssumption
  <2> QED
    BY <1>1, <2>2, <2>3 DEF Stacked
<1> QED
  BY <1>1, <1>6, <1>7

LEMMA StackedNothing ==
  Buffers(<<>>) = 0 /\ <<>> \in Seq(Effects) /\ Guarded(<<>>)
<1>1. <<>> \in Seq({}) /\ <<>> \in Seq(Effects)
  OBVIOUS
<1>2. Buffers(<<>>) = 0
  <2>1. EndsOf(<<>>) = {}
    BY DEF EndsOf
  <2> QED
    BY <2>1, FS_EmptySet DEF Buffers, EndsOf
<1>3. Guarded(<<>>)
  BY <1>1, GuardedNoLeak
<1> QED
  BY <1>1, <1>2, <1>3
LEMMA JumpKeeps ==
  ASSUME NEW s, Stacked(s, pos), Jump(s)
  PROVE  Stacked(todo', pos')
<1>1. s \in Seq(Effects) /\ Guarded(s) /\ Buffers(s) \in Nat /\ pos \in 0 .. MaxJmp
  BY BuffersType DEF Stacked
<1>2. CASE Buffers(s) = 0
  <2>1. todo' = <<>> /\ pos' = pos
    BY <1>2 DEF Jump
  <2>2. Stacked(<<>>, pos)
    BY <1>2, StackedNothing DEF Stacked
  <2> QED
    BY <2>1, <2>2
<1>3. CASE Buffers(s) # 0
  <2> DEFINE n == CHOOSE i \in DOMAIN s : IsEnd(s[i]) /\ \A j \in 1 .. i - 1 : ~IsEnd(s[j])
             t == SubSeq(s, n + 1, Len(s))
             h == s[n][2]
  <2>1. todo' = Handler(h) \o t /\ pos' = pos - 1
    BY <1>3 DEF Jump
  <2>2. PICK m : m = n
    OBVIOUS
  <2>3. /\ IsEnd(s[m]) /\ s[m] \in Effects
        /\ SubSeq(s, m + 1, Len(s)) \in Seq(Effects) /\ Guarded(SubSeq(s, m + 1, Len(s)))
        /\ Buffers(s) = Buffers(SubSeq(s, m + 1, Len(s))) + 1
    BY <1>1, <1>3, <2>2, FirstEnd
  <2>4. /\ IsEnd(s[n]) /\ s[n] \in Effects /\ t \in Seq(Effects) /\ Guarded(t)
        /\ Buffers(s) = Buffers(t) + 1
    BY <2>2, <2>3
  <2> HIDE DEF n
  <2>5. h \in Catches \cup {"dispatch"}
    BY <2>4, Kinds DEF IsEnd
  <2> HIDE DEF t, h
  <2>6. Handler(h) \in Seq(Code \cup {Last})
    BY <2>5, HandlerIsEffects
  <2>7. /\ Handler(h) \o t \in Seq(Effects) /\ Guarded(Handler(h) \o t)
        /\ Buffers(Handler(h) \o t) = Buffers(t)
    BY <2>4, <2>6, PutPlain
  <2>8. Buffers(t) \in Nat
    BY <2>4, BuffersType
  <2>9. 1 + Buffers(s) <= pos /\ (Leaky \notin Commands => pos = 1 + Buffers(s))
    BY DEF Stacked
  <2>10. pos - 1 \in 0 .. MaxJmp /\ 1 + Buffers(t) <= pos - 1
    BY <1>1, <2>4, <2>8, <2>9, MaxJmpAssumption
  <2>11. Leaky \notin Commands => pos - 1 = 1 + Buffers(t)
    BY <1>1, <2>4, <2>8, <2>9, MaxJmpAssumption
  <2>12. Stacked(Handler(h) \o t, pos - 1)
    BY <2>7, <2>10, <2>11 DEF Stacked
  <2> QED
    BY <2>1, <2>12
<1> QED
  BY <1>2, <1>3

(* A running command: what its first effect is.                            *)
LEMMA Running ==
  ASSUME TodoInv, todo # <<>>
  PROVE  /\ aborted = <<>> /\ Stacked(todo, pos) /\ Effect \in Effects /\ Effect # <<>>
         /\ Kind # "end" => Stacked(Rest, pos)
         /\ Kind = "end" => Stacked(Rest, pos - 1)
         /\ Rest \in Seq(Effects) /\ Guarded(Rest) /\ Buffers(Rest) \in Nat
<1>1. aborted = <<>> /\ Stacked(todo, pos)
  BY DEF TodoInv
<1>2. /\ Effect \in Effects
      /\ Effect \notin Ends => Stacked(Rest, pos)
      /\ Effect \in Ends => Stacked(Rest, pos - 1)
      /\ Rest \in Seq(Effects) /\ Guarded(Rest) /\ Buffers(Rest) \in Nat
  BY <1>1, StackedRest DEF Effect, Rest
<1>3. (Kind = "end") <=> (Effect \in Ends)
  BY <1>2, Kinds DEF Kind
<1>4. Effect # <<>>
  BY <1>2, EffectsAreTuples
<1> QED
  BY <1>1, <1>2, <1>3, <1>4

LEMMA PassesKeeps ==
  ASSUME TodoInv, todo # <<>>, Kind # "end", Passes
  PROVE  TodoInv'
<1>1. aborted = <<>> /\ Stacked(Rest, pos) /\ Effect # <<>> /\ pos \in 0 .. MaxJmp
  BY Running DEF Stacked
<1>2. pos' = pos
  BY DEF Passes
<1>3. CASE todo' = Rest /\ UNCHANGED aborted
  <2>1. aborted' = <<>> /\ Stacked(todo', pos')
    BY <1>1, <1>2, <1>3
  <2> QED
    BY <2>1 DEF TodoInv, Stacked
<1>4. CASE todo' = <<>> /\ aborted' = Effect
  <2>1. aborted' # <<>> /\ todo' = <<>> /\ pos' \in 0 .. MaxJmp
    BY <1>1, <1>2, <1>4
  <2> QED
    BY <2>1 DEF TodoInv
<1> QED
  BY <1>3, <1>4 DEF Passes

(* The conclusion of a step, from what it assigns.                         *)
LEMMA Keeps ==
  ASSUME aborted' = <<>>, Stacked(todo', pos')
  PROVE  TodoInv'
BY DEF TodoInv, Stacked

LEMMA Stops ==
  ASSUME aborted' # <<>>, todo' = <<>>, pos' \in 0 .. MaxJmp
  PROVE  TodoInv'
BY DEF TodoInv

LEMMA DispatchKeeps ==
  ASSUME NEW c \in Given, NEW rest, Stacked(rest, pos), aborted = <<>>, Dispatch(c, rest)
  PROVE  TodoInv'
<1>1. pos \in 0 .. MaxJmp /\ rest \in Seq(Effects) /\ Guarded(rest) /\ Buffers(rest) \in Nat
      /\ 1 + Buffers(rest) <= pos /\ (Leaky \notin Commands => pos = 1 + Buffers(rest))
  BY BuffersType DEF Stacked
<1>2. CASE pos < MaxJmp
  <2> DEFINE e == <<"end", "dispatch">>
  <2>1. /\ todo' = << Do(c), e >> \o rest
        /\ pos' = pos + 1 /\ aborted' = <<>>
    BY <1>2 DEF Dispatch
  <2>2. e \in Ends
    BY DEF Ends
  <2> HIDE DEF e
  <2>3. << Do(c), e >> = <<Do(c)>> \o <<e>>
    OBVIOUS
  <2>4. Do(c) \in Straight \cup Leaks
    BY Members, Codes DEF Procs
  <2>5. <<Do(c)>> \in Seq(Straight \cup Leaks)
    BY <2>4, List1, Zenon
  <2>6. /\ <<Do(c)>> \o <<e>> \o rest \in Seq(Effects) /\ Guarded(<<Do(c)>> \o <<e>> \o rest)
        /\ Buffers(<<Do(c)>> \o <<e>> \o rest) = Buffers(rest) + 1
    BY <1>1, <2>2, <2>5, PutCatch
  <2>7. todo' = <<Do(c)>> \o <<e>> \o rest
    BY <2>1, <2>3
  <2>8. pos + 1 \in 0 .. MaxJmp /\ 1 + (Buffers(rest) + 1) <= pos + 1
        /\ (Leaky \notin Commands => pos + 1 = 1 + (Buffers(rest) + 1))
    BY <1>1, <1>2, MaxJmpAssumption
  <2>9. Stacked(<<Do(c)>> \o <<e>> \o rest, pos + 1)
    BY <2>6, <2>8 DEF Stacked
  <2> QED
    BY <2>1, <2>7, <2>9, Keeps
<1>3. CASE ~(pos < MaxJmp)
  <2>1. todo' = <<>> /\ aborted' = <<"jump buffers">> /\ pos' = pos
    BY <1>3 DEF Dispatch
  <2>2. <<"jump buffers">> # <<>>
    OBVIOUS
  <2> QED
    BY <2>1, <2>2, <1>1, Stops
<1> QED
  BY <1>2, <1>3
LEMMA CallFunctionKeeps ==
  ASSUME TodoInv, todo # <<>>, CallFunction
  PROVE  TodoInv'
<1>1. /\ aborted = <<>> /\ Stacked(Rest, pos) /\ Effect \in Effects /\ Kind = "do"
      /\ pos' = pos
  BY Running DEF CallFunction, machineVars
<1>2. pos \in 0 .. MaxJmp /\ Rest \in Seq(Effects) /\ Guarded(Rest)
  BY <1>1 DEF Stacked
<1>3. CASE "cmps" \in env
  <2>1. todo' = Body(On) \o Rest /\ aborted' = <<>>
    BY <1>1, <1>3 DEF CallFunction
  <2>2. Effect \in Simple /\ Effect[1] = "do"
    BY <1>1, Kinds DEF Kind
  <2>3. On \in Procs
    BY <2>2, SimpleKinds DEF On
  <2>4. Body(On) \in Seq(Code \cup {Last})
    <3>1. CASE On = "reset"
      <4>1. Body(On) = Reset
        BY <3>1 DEF Body
      <4>2. Simple \cup {Last} \subseteq Code \cup {Last}
        BY Codes
      <4> QED
        BY <4>1, <4>2, ResetIsEffects, SeqMonotonic
    <3>2. CASE On # "reset"
      <4>1. Body(On) \in Seq(Code)
        BY <2>3, <3>2, BodyIsCode
      <4> QED
        BY <4>1, SeqMonotonic
    <3> QED
      BY <3>1, <3>2
  <2>5. /\ Body(On) \o Rest \in Seq(Effects) /\ Guarded(Body(On) \o Rest)
        /\ Buffers(Body(On) \o Rest) = Buffers(Rest)
    BY <1>2, <2>4, PutPlain
  <2>6. Stacked(Body(On) \o Rest, pos)
    BY <1>1, <2>5 DEF Stacked
  <2> QED
    BY <1>1, <2>1, <2>6, Keeps
<1>4. CASE "cmps" \notin env
  <2>1. todo' = <<>> /\ aborted' = <<"cmps">>
    BY <1>1, <1>4 DEF CallFunction
  <2>2. <<"cmps">> # <<>>
    OBVIOUS
  <2> QED
    BY <1>1, <1>2, <2>1, <2>2, Stops
<1> QED
  BY <1>3, <1>4

LEMMA EnterCatchKeeps ==
  ASSUME TodoInv, todo # <<>>, EnterCatch
  PROVE  TodoInv'
<1>1. aborted = <<>> /\ Stacked(Rest, pos) /\ Effect \in Effects /\ Kind = "catch"
  BY Running DEF EnterCatch
<1>2. /\ pos \in 0 .. MaxJmp /\ Rest \in Seq(Effects) /\ Guarded(Rest) /\ Buffers(Rest) \in Nat
      /\ 1 + Buffers(Rest) <= pos /\ (Leaky \notin Commands => pos = 1 + Buffers(Rest))
  BY <1>1, BuffersType DEF Stacked
<1>3. CASE pos < MaxJmp
  <2> DEFINE e == <<"end", On>>
  <2>1. todo' = Effect[3] \o <<e>> \o Rest /\ pos' = pos + 1 /\ aborted' = <<>>
    BY <1>1, <1>3 DEF EnterCatch
  <2>2. On \in Catches /\ Effect[3] \in Seq(Straight \cup Leaks)
    BY <1>1, Kinds DEF On, Kind
  <2>3. e \in Ends
    BY <2>2 DEF Ends
  <2> HIDE DEF e
  <2>4. /\ Effect[3] \o <<e>> \o Rest \in Seq(Effects) /\ Guarded(Effect[3] \o <<e>> \o Rest)
        /\ Buffers(Effect[3] \o <<e>> \o Rest) = Buffers(Rest) + 1
    BY <1>2, <2>2, <2>3, PutCatch
  <2>5. pos + 1 \in 0 .. MaxJmp /\ 1 + (Buffers(Rest) + 1) <= pos + 1
        /\ (Leaky \notin Commands => pos + 1 = 1 + (Buffers(Rest) + 1))
    BY <1>2, <1>3, MaxJmpAssumption
  <2>6. Stacked(Effect[3] \o <<e>> \o Rest, pos + 1)
    BY <2>4, <2>5 DEF Stacked
  <2> QED
    BY <2>1, <2>6, Keeps
<1>4. CASE ~(pos < MaxJmp)
  <2>1. todo' = <<>> /\ aborted' = <<"jump buffers">> /\ pos' = pos
    BY <1>4 DEF EnterCatch
  <2>2. <<"jump buffers">> # <<>>
    OBVIOUS
  <2> QED
    BY <1>2, <2>1, <2>2, Stops
<1> QED
  BY <1>3, <1>4

LEMMA GoesOnKeeps ==
  ASSUME TodoInv, todo # <<>>, GoesOn
  PROVE  TodoInv'
<1>1. /\ aborted = <<>> /\ Effect \in Effects /\ pos' = pos /\ aborted' = aborted
      /\ Kind \in {"can throw", "may", "may return in catch"}
  BY Running DEF GoesOn, machineVars
<1>2. Stacked(Rest, pos)
  BY <1>1, Running
<1>3. CASE Kind = "may"
  <2>1. todo' = <<On>> \o Rest
    BY <1>3 DEF GoesOn
  <2>2. On \in Code \cup {Last}
    BY <1>1, <1>3, Kinds, Codes DEF Kind, On
  <2>3. <<On>> \in Seq(Code \cup {Last})
    BY <2>2, List1, Zenon
  <2>4. Rest \in Seq(Effects) /\ Guarded(Rest)
    BY <1>2 DEF Stacked
  <2>5. /\ <<On>> \o Rest \in Seq(Effects) /\ Guarded(<<On>> \o Rest)
        /\ Buffers(<<On>> \o Rest) = Buffers(Rest)
    BY <2>3, <2>4, PutPlain
  <2>6. Stacked(<<On>> \o Rest, pos)
    BY <1>2, <2>5 DEF Stacked
  <2> QED
    BY <1>1, <2>1, <2>6, Keeps
<1>4. CASE Kind # "may"
  <2>1. todo' = Rest
    BY <1>4 DEF GoesOn
  <2> QED
    BY <1>1, <1>2, <2>1, Keeps
<1> QED
  BY <1>3, <1>4

LEMMA ReturnsKeeps ==
  ASSUME TodoInv, todo # <<>>, Returns
  PROVE  TodoInv'
<1>1. /\ aborted = <<>> /\ Effect \in Effects /\ aborted' = aborted /\ todo' = <<>>
      /\ Kind \in {"return 1", "may return in catch"}
      /\ pos' = pos - Buffers(Rest) + (IF Kind = "return 1" THEN 0 ELSE 1)
  BY Running DEF Returns
<1>2. Stacked(Rest, pos) /\ Buffers(Rest) \in Nat
  BY <1>1, Running
<1>3. pos \in 0 .. MaxJmp /\ 1 + Buffers(Rest) <= pos
      /\ (Leaky \notin Commands => pos = 1 + Buffers(Rest))
  BY <1>2 DEF Stacked
<1>4. CASE Kind = "return 1"
  <2>1. pos' = pos - Buffers(Rest) + 0
    BY <1>1, <1>4
  <2>2. pos' \in 0 .. MaxJmp /\ 1 + 0 <= pos' /\ (Leaky \notin Commands => pos' = 1 + 0)
    BY <2>1, <1>2, <1>3, MaxJmpAssumption
  <2>3. Stacked(<<>>, pos')
    BY <2>2, StackedNothing DEF Stacked
  <2> QED
    BY <1>1, <2>3, Keeps
<1>5. CASE Kind = "may return in catch"
  <2>1. pos' = pos - Buffers(Rest) + 1
    BY <1>1, <1>5
  <2>2. Effect \in Leaks
    BY <1>1, <1>5, Kinds DEF Kind
  <2>3. Leaky \in Commands
    BY <2>2 DEF Leaks
  <2>4. Buffers(Rest) > 0
    <3>1. todo \in Seq(Effects) /\ Guarded(todo)
      BY Running DEF Stacked
    <3> QED
      BY <3>1, <2>2, RestOf DEF Effect, Rest
  <2>5. pos' \in 0 .. MaxJmp /\ 1 + 0 <= pos'
    BY <2>1, <2>4, <1>2, <1>3, MaxJmpAssumption
  <2>6. Stacked(<<>>, pos')
    BY <2>3, <2>5, StackedNothing DEF Stacked
  <2> QED
    BY <1>1, <2>6, Keeps
<1> QED
  BY <1>1, <1>4, <1>5

(* Every action keeps the invariant.                                       *)
LEMMA TodoInvStep ==
  ASSUME TodoInv, todo # <<>>, Step
  PROVE  TodoInv'
<1>0. pos \in 0 .. MaxJmp /\ aborted = <<>> /\ Effect \in Effects
  BY Running DEF Stacked
<1>1. CASE CallFunction \/ EnterCatch \/ GoesOn \/ Returns
  BY <1>1, CallFunctionKeeps, EnterCatchKeeps, GoesOnKeeps, ReturnsKeeps
<1>2. CASE Subcommand
  <2>1. Kind = "unless" /\ Stacked(Rest, pos)
    BY <1>2, Running DEF Subcommand
  <2>2. CASE On \in flags
    <3>1. todo' = Rest /\ pos' = pos /\ aborted' = <<>>
      BY <1>0, <1>2, <2>2 DEF Subcommand, machineVars
    <3> QED
      BY <2>1, <3>1, Keeps
  <2>3. CASE On \notin flags
    <3>1. Dispatch(Effect[3], Rest)
      BY <1>2, <2>3 DEF Subcommand
    <3>2. Effect \in Simple /\ Effect[1] = "unless"
      BY <1>0, <2>1, Kinds DEF Kind
    <3>3. Effect[3] \in UserCommands \ {Leaky}
      BY <3>2, SimpleKinds
    <3>4. Effect[3] \in Given
      BY <3>3 DEF Given
    <3> QED
      BY <1>0, <2>1, <3>1, <3>4, DispatchKeeps
  <2> QED
    BY <2>2, <2>3
<1>3. CASE LeaveCatch
  <2>1. Stacked(Rest, pos - 1) /\ todo' = Rest /\ pos' = pos - 1 /\ aborted' = <<>>
    BY <1>0, <1>3, Running DEF LeaveCatch
  <2> QED
    BY <2>1, Keeps
<1>4. CASE Throws
  <2>1. Stacked(Rest, pos) /\ Jump(Rest) /\ aborted' = <<>>
    BY <1>0, <1>4, Running DEF Throws
  <2> QED
    BY <2>1, JumpKeeps, Keeps
<1>5. CASE SkipsEffect \/ RemoveEnv \/ LazyCommit \/ DestroyEncoder \/ Compiler
  <2>1. Kind # "end" /\ Passes
    BY <1>5 DEF SkipsEffect, RemoveEnv, LazyCommit, DestroyEncoder, Compiler, Passes, machineVars
  <2> QED
    BY <2>1, PassesKeeps
<1>6. CASE ChangeProperty
  <2>1. Kind # "end" /\ Passes
    BY <1>6 DEF ChangeProperty, Passes, machineVars
  <2> QED
    BY <2>1, PassesKeeps
<1>7. CASE SetFlag \/ ReadEnv \/ PutEnv \/ CreateLayer
  <2>1. Kind # "end" /\ Passes
    BY <1>7 DEF SetFlag, ReadEnv, PutEnv, CreateLayer, Assert, Passes, machineVars
  <2> QED
    BY <2>1, PassesKeeps
<1>8. CASE DropLayer \/ CommitLayer \/ BuildBeFsm \/ CheckMachine
  <2>1. Kind # "end" /\ Passes
    BY <1>8 DEF DropLayer, CommitLayer, BuildBeFsm, CheckMachine, Assert, Passes, machineVars
  <2> QED
    BY <2>1, PassesKeeps
<1> QED
  BY <1>1, <1>2, <1>3, <1>4, <1>5, <1>6, <1>7, <1>8 DEF Step

LEMMA TodoInvNext ==
  ASSUME TodoInv, [Next]_vars
  PROVE  TodoInv'
<1>1. ASSUME NEW c \in Commands, Command(c)
      PROVE  TodoInv'
  <2>1. todo = <<>> /\ aborted = <<>> /\ Dispatch(c, <<>>)
    BY <1>1 DEF Command
  <2>2. Stacked(<<>>, pos)
    BY <2>1 DEF TodoInv
  <2>3. c \in Given
    BY CommandsAssumption DEF Given, Leaky
  <2> QED
    BY <2>1, <2>2, <2>3, DispatchKeeps
<1>2. CASE SetCoi
  BY <1>2 DEF SetCoi, machineVars, TodoInv, Stacked
<1>3. CASE Step
  BY <1>3, TodoInvStep DEF Step
<1>4. CASE Interrupt
  <2>1. Stacked(todo, pos) /\ Jump(todo) /\ aborted' = aborted /\ aborted = <<>>
    BY <1>4, Running DEF Interrupt
  <2> QED
    BY <2>1, JumpKeeps, Keeps
<1>5. CASE UNCHANGED vars
  BY <1>5 DEF vars, TodoInv, Stacked
<1> QED
  BY <1>1, <1>2, <1>3, <1>4, <1>5 DEF Next
(***************************************************************************)
(* Types.                                                                  *)
(***************************************************************************)
DataOK ==
  /\ flags \subseteq Flags /\ env \subseteq Keys /\ layers \subseteq Layers
  /\ committed \in [Encoders -> SUBSET Layers]
  /\ coi \in BOOLEAN /\ armed \in BOOLEAN /\ reentrant \in BOOLEAN /\ warned \in BOOLEAN
  /\ prop \in [status : {"absent", "unchecked", "checked"},
               fsm : [Machines -> {"none", "own", "env"}]]

SessInv == DataOK /\ TodoInv

LEMMA PropsAreTyped ==
  LET PropType == [status : {"absent", "unchecked", "checked"},
                   fsm : [Machines -> {"none", "own", "env"}]]
  IN  NoProp \in PropType /\ NewProp \in PropType
BY DEF NoProp, NewProp

LEMMA SessInvInit == Init => SessInv
<1> SUFFICES ASSUME Init PROVE SessInv
  OBVIOUS
<1>1. DataOK
  <2>1. flags \subseteq Flags /\ layers \subseteq Layers /\ committed \in [Encoders -> SUBSET Layers]
    BY DEF Init
  <2>2. env \subseteq Keys
    BY DEF Init, Keys
  <2>3. coi \in BOOLEAN /\ armed \in BOOLEAN /\ reentrant \in BOOLEAN /\ warned \in BOOLEAN
    BY DEF Init
  <2> QED
    BY <2>1, <2>2, <2>3, PropsAreTyped DEF Init, DataOK
<1>2. Stacked(todo, pos)
  <2>1. todo = <<>> /\ pos = 1 /\ 1 \in 0 .. MaxJmp /\ 1 = 1 + 0
    BY MaxJmpAssumption DEF Init
  <2> QED
    BY <2>1, StackedNothing DEF Stacked
<1> QED
  BY <1>1, <1>2 DEF Init, SessInv, TodoInv

LEMMA DataOKStep ==
  ASSUME SessInv, todo # <<>>, Step
  PROVE  DataOK'
<1>0. Effect \in Effects /\ DataOK
  BY Running DEF SessInv
<1>s. ASSUME Kind \notin {"may", "catch", "end", "may return in catch", "init compiler"}
      PROVE  Effect \in Simple
  BY <1>0, <1>s, Kinds DEF Kind
<1>1. CASE CallFunction \/ EnterCatch \/ GoesOn \/ SkipsEffect \/ Throws \/ ReadEnv
           \/ BuildBeFsm \/ CheckMachine
  <2>1. UNCHANGED <<dataVars, armed, reentrant, warned>>
    BY <1>1, Zenon DEF CallFunction, EnterCatch, GoesOn, SkipsEffect, Throws, ReadEnv,
       BuildBeFsm, CheckMachine, dataVars, machineVars
  <2> QED
    BY <1>0, <2>1 DEF DataOK, dataVars
<1>2. CASE Subcommand \/ LeaveCatch \/ Returns
  <2>1. UNCHANGED <<dataVars, warned>>
    BY <1>2, Zenon DEF Subcommand, Dispatch, LeaveCatch, Returns, dataVars, machineVars
  <2>2. \/ UNCHANGED <<armed, reentrant>>
        \/ armed' = TRUE /\ reentrant' = (Effect[3] \in Reentrant)
        \/ armed' = FALSE /\ (reentrant' = TRUE \/ reentrant' = reentrant)
    BY <1>2, Zenon DEF Subcommand, Dispatch, LeaveCatch, Returns, machineVars
  <2>3. armed' \in BOOLEAN /\ reentrant' \in BOOLEAN
    <3>1. armed \in BOOLEAN /\ reentrant \in BOOLEAN
      BY <1>0 DEF DataOK
    <3>2. ASSUME armed' = TRUE, reentrant' = (Effect[3] \in Reentrant)
          PROVE  armed' \in BOOLEAN /\ reentrant' \in BOOLEAN
      BY <3>2
    <3>3. ASSUME armed' = FALSE, reentrant' = TRUE \/ reentrant' = reentrant
          PROVE  armed' \in BOOLEAN /\ reentrant' \in BOOLEAN
      BY <3>1, <3>3
    <3>4. ASSUME UNCHANGED <<armed, reentrant>>
          PROVE  armed' \in BOOLEAN /\ reentrant' \in BOOLEAN
      BY <3>1, <3>4
    <3> QED
      BY <2>2, <3>2, <3>3, <3>4
  <2> QED
    BY <1>0, <2>1, <2>3 DEF DataOK, dataVars
<1>3. CASE SetFlag
  <2>1. On \in Flags
    BY <1>3, <1>s, SimpleKinds DEF SetFlag, Kind, On
  <2>2. flags' \subseteq Flags
    BY <1>0, <1>3, <2>1 DEF SetFlag, DataOK
  <2> QED
    BY <1>0, <1>3, <2>2 DEF SetFlag, DataOK, machineVars
<1>4. CASE PutEnv \/ RemoveEnv
  <2>1. On \in Keys
    BY <1>4, <1>s, SimpleKinds DEF PutEnv, RemoveEnv, Kind, On
  <2>2. env' \subseteq Keys
    BY <1>0, <1>4, <2>1 DEF PutEnv, RemoveEnv, DataOK
  <2> QED
    BY <1>0, <1>4, <2>2 DEF PutEnv, RemoveEnv, DataOK, machineVars
<1>5. CASE CreateLayer \/ DropLayer
  <2>1. On \in Layers
    BY <1>5, <1>s, SimpleKinds DEF CreateLayer, DropLayer, Kind, On
  <2>2. layers' \subseteq Layers
    BY <1>0, <1>5, <2>1 DEF CreateLayer, DropLayer, DataOK
  <2> QED
    BY <1>0, <1>5, <2>2 DEF CreateLayer, DropLayer, DataOK, machineVars
<1>6. CASE CommitLayer
  <2>1. On \in Encoders /\ Effect[3] \in Layers
    BY <1>6, <1>s, SimpleKinds DEF CommitLayer, Kind, On
  <2>2. committed' \in [Encoders -> SUBSET Layers]
    BY <1>0, <1>6, <2>1 DEF CommitLayer, DataOK
  <2> QED
    BY <1>0, <1>6, <2>2 DEF CommitLayer, DataOK, machineVars
<1>7. CASE LazyCommit
  <2>1. On \in Layers
    BY <1>7, <1>s, SimpleKinds DEF LazyCommit, Kind, On
  <2>2. committed' \in [Encoders -> SUBSET Layers]
    BY <1>0, <1>7, <2>1 DEF LazyCommit, DataOK, Encoders
  <2> QED
    BY <1>0, <1>7, <2>2 DEF LazyCommit, DataOK, machineVars
<1>8. CASE DestroyEncoder
  <2>1. env' \subseteq Keys /\ committed' \in [Encoders -> SUBSET Layers]
    BY <1>0, <1>8 DEF DestroyEncoder, DataOK
  <2> QED
    BY <1>0, <1>8, <2>1 DEF DestroyEncoder, DataOK, machineVars
<1>9. CASE Compiler
  <2>1. env' \subseteq Keys /\ flags' \subseteq Flags /\ layers' \subseteq Layers
    BY <1>0, <1>9 DEF Compiler, DataOK, Keys
  <2>2. warned' \in BOOLEAN
    BY <1>0, <1>9 DEF Compiler, DataOK
  <2> QED
    BY <1>0, <1>9, <2>1, <2>2 DEF Compiler, DataOK
<1>10. CASE ChangeProperty
  <2> DEFINE PropType == [status : {"absent", "unchecked", "checked"},
                          fsm : [Machines -> {"none", "own", "env"}]]
  <2>0. prop \in PropType
    BY <1>0 DEF DataOK
  <2>1. prop' = NewProp \/ prop' = NoProp => prop' \in PropType
    BY PropsAreTyped
  <2>2. prop' = [prop EXCEPT !.status = "checked"] => prop' \in PropType
    BY <2>0
  <2>3. prop' = [prop EXCEPT !.fsm[On] = "own"] => prop' \in PropType
    BY <2>0
  <2>4. prop' = [prop EXCEPT !.fsm =
                  [m \in Machines |-> IF MachineKey[m] \in env THEN "env" ELSE @[m]]]
          => prop' \in PropType
    BY <2>0
  <2>5. prop' = (IF MachineKey[On] \in env THEN [prop EXCEPT !.fsm[On] = "env"] ELSE prop)
          => prop' \in PropType
    BY <2>0
  <2>7. prop' \in PropType
    BY <1>10, <2>1, <2>2, <2>3, <2>4, <2>5, Zenon DEF ChangeProperty
  <2> QED
    BY <1>0, <1>10, <2>7 DEF ChangeProperty, DataOK, machineVars
<1> QED
  BY <1>1, <1>2, <1>3, <1>4, <1>5, <1>6, <1>7, <1>8, <1>9, <1>10 DEF Step

LEMMA SessInvNext ==
  ASSUME SessInv, [Next]_vars
  PROVE  SessInv'
<1>1. TodoInv'
  BY TodoInvNext DEF SessInv
<1> SUFFICES DataOK'
  BY <1>1 DEF SessInv
<1>2. ASSUME NEW c \in Commands, Command(c)
      PROVE  DataOK'
  <2>1. armed' = TRUE /\ reentrant' = (c \in Reentrant) /\ UNCHANGED <<dataVars, warned>>
    BY <1>2, Zenon DEF Command, Dispatch
  <2> QED
    BY <2>1 DEF SessInv, DataOK, dataVars
<1>3. CASE SetCoi
  <2>1. coi' \in BOOLEAN
    BY <1>3 DEF SetCoi
  <2> QED
    BY <1>3, <2>1 DEF SetCoi, SessInv, DataOK, machineVars
<1>4. CASE Step
  BY <1>4, DataOKStep DEF Step
<1>5. CASE Interrupt
  <2>1. UNCHANGED <<dataVars, armed, reentrant>> /\ warned' = (warned \/ ~reentrant)
    BY <1>5 DEF Interrupt
  <2> QED
    BY <2>1 DEF SessInv, DataOK, dataVars
<1>6. CASE UNCHANGED vars
  BY <1>6 DEF vars, SessInv, DataOK
<1> QED
  BY <1>2, <1>3, <1>4, <1>5, <1>6 DEF Next

(* The invariant holds in every session.                                   *)
THEOREM SessionInvariant == Spec => []SessInv
<1>1. SessInv /\ [Next]_vars => SessInv'
  BY SessInvNext
<1> QED
  BY <1>1, SessInvInit, PTL DEF Spec

(* Flags, keys, layers and machines are the ones there are, and the stack  *)
(* of jump buffers never runs over MAXJMP, whatever commands the user      *)
(* gives, with the leak of print_reachable_states too.                     *)
THEOREM SessionTypeCorrect == Spec => []SessionTypeOK
<1>1. SessInv => SessionTypeOK
  BY DEF SessInv, DataOK, TodoInv, Stacked, SessionTypeOK
<1> QED
  BY <1>1, SessionInvariant, PTL

(* Without print_reachable_states the stack has one buffer for the prompt  *)
(* and one for each CATCH that is being executed, whatever was thrown,     *)
(* returned from or interrupted: with it, JumpBuffersBalance fails.        *)
THEOREM JumpBuffersBalanceCorrect ==
  ASSUME "print_reachable_states" \notin Commands
  PROVE  Spec => []JumpBuffersBalance
<1>1. SessInv => JumpBuffersBalance
  BY DEF SessInv, TodoInv, Stacked, JumpBuffersBalance, Leaky
<1> QED
  BY <1>1, SessionInvariant, PTL
(***************************************************************************)
(* After a reset nothing is left of the model.                             *)
(***************************************************************************)

(* Only one action performs an effect of each kind.                        *)
LEMMA KindsOfActions ==
  /\ CallFunction => Kind = "do"
  /\ Subcommand => Kind = "unless"
  /\ EnterCatch => Kind = "catch"
  /\ LeaveCatch => Kind = "end"
  /\ GoesOn \/ Returns \/ Throws \/ SkipsEffect
       => Kind \in {"can throw", "may", "may return in catch", "throw", "return 1"}
  /\ SetFlag => Kind \in {"set", "unset"}
  /\ ReadEnv => Kind \in {"get", "absent"}
  /\ PutEnv => Kind \in {"put", "replace", "ensure"}
  /\ RemoveEnv => Kind = "remove"
  /\ CreateLayer => Kind = "create"
  /\ DropLayer => Kind = "drop layer"
  /\ CommitLayer => Kind = "commit"
  /\ LazyCommit => Kind = "lazy commit"
  /\ DestroyEncoder => Kind = "destroy encoder"
  /\ Compiler => Kind \in {"quit compiler", "init compiler"}
  /\ BuildBeFsm => Kind = "be fsm"
  /\ ChangeProperty => Kind \in {"new property", "no properties", "verdict", "own",
                                  "copy machines", "copy if any"}
  /\ CheckMachine => Kind \in {"has machine", "no machine"}
<1>1. CallFunction => Kind = "do"
  BY DEF CallFunction
<1>2. Subcommand => Kind = "unless"
  BY DEF Subcommand
<1>3. EnterCatch => Kind = "catch"
  BY DEF EnterCatch
<1>4. LeaveCatch => Kind = "end"
  BY DEF LeaveCatch
<1>5. GoesOn \/ Returns \/ Throws \/ SkipsEffect
        => Kind \in {"can throw", "may", "may return in catch", "throw", "return 1"}
  BY DEF GoesOn, Returns, Throws, SkipsEffect
<1>6. (SetFlag => Kind \in {"set", "unset"}) /\ (ReadEnv => Kind \in {"get", "absent"})
  BY DEF SetFlag, ReadEnv
<1>7. (PutEnv => Kind \in {"put", "replace", "ensure"}) /\ (RemoveEnv => Kind = "remove")
  BY DEF PutEnv, RemoveEnv
<1>8. (CreateLayer => Kind = "create") /\ (DropLayer => Kind = "drop layer")
  BY DEF CreateLayer, DropLayer
<1>9. (CommitLayer => Kind = "commit") /\ (LazyCommit => Kind = "lazy commit")
  BY DEF CommitLayer, LazyCommit
<1>10. /\ DestroyEncoder => Kind = "destroy encoder"
       /\ Compiler => Kind \in {"quit compiler", "init compiler"}
  BY DEF DestroyEncoder, Compiler
<1>11. BuildBeFsm => Kind = "be fsm"
  BY DEF BuildBeFsm
<1>12. ChangeProperty => Kind \in {"new property", "no properties", "verdict", "own",
                                    "copy machines", "copy if any"}
  BY DEF ChangeProperty
<1>13. CheckMachine => Kind \in {"has machine", "no machine"}
  BY DEF CheckMachine
<1> QED
  BY <1>1, <1>2, <1>3, <1>4, <1>5, <1>6, <1>7, <1>8, <1>9, <1>10, <1>11, <1>12, <1>13

LEMMA StepOfKind ==
  ASSUME Step
  PROVE  /\ Kind = "unset" => SetFlag
         /\ Kind = "remove" => RemoveEnv
         /\ Kind = "put" => PutEnv
         /\ Kind = "destroy encoder" => DestroyEncoder
         /\ Kind \in {"quit compiler", "init compiler"} => Compiler
         /\ Kind = "no properties" => ChangeProperty
         /\ Kind = "do" => CallFunction
         /\ Kind = "end" => LeaveCatch
BY KindsOfActions DEF Step

(* What holds before each effect of a reset: what the ones before it did.  *)
ResetFacts(k) ==
  /\ k > 1 => prop = NoProp
  /\ k > 2 => "be_fsm" \notin env
  /\ k > 4 => "bdd_enc" \notin env /\ committed["bdd"] = {}
  /\ k > 5 => "be_enc" \notin env /\ committed["be"] = {}
  /\ k > 6 => "bool_enc" \notin env /\ committed["bool"] = {}
  /\ k > 7 => "bdd_fsm" \notin env
  /\ k > 8 => "bool_fsm" \notin env
  /\ k > 9 => "sexp_fsm" \notin env
  /\ k > 10 => "flat_hierarchy" \notin env
  /\ k > 11 => "flattener" \notin env /\ "cmps" \notin env
  /\ k > 13 => "hrc" \in env

(* The last effect of a reset stands behind the others that are left.      *)
ResetShape(s) ==
  \A i \in DOMAIN s : s[i] = Last => i <= 14 /\ \A j \in 1 .. i : s[j] = Reset[14 - i + j]

ResetInv == ResetShape(todo) /\ \A i \in DOMAIN todo : todo[i] = Last => ResetFacts(15 - i)

NoLast(s) == \A i \in DOMAIN s : s[i] # Last

LEMMA ResetKinds ==
  /\ Reset[2][1] = "remove" /\ Reset[2][2] = "be_fsm"
  /\ Reset[3][1] = "unset" /\ Reset[3][2] = "bmc_init"
  /\ Reset[4][1] = "destroy encoder" /\ Reset[4][2] = "bdd"
  /\ Reset[5][1] = "destroy encoder" /\ Reset[5][2] = "be"
  /\ Reset[6][1] = "destroy encoder" /\ Reset[6][2] = "bool"
  /\ Reset[7][1] = "remove" /\ Reset[7][2] = "bdd_fsm"
  /\ Reset[8][1] = "remove" /\ Reset[8][2] = "bool_fsm"
  /\ Reset[9][1] = "remove" /\ Reset[9][2] = "sexp_fsm"
  /\ Reset[10][1] = "remove" /\ Reset[10][2] = "flat_hierarchy"
  /\ Reset[12][1] = "remove" /\ Reset[12][2] = "hrc"
  /\ Reset[13][1] = "put" /\ Reset[13][2] = "hrc"
<1>2. Reset[2][1] = "remove" /\ Reset[2][2] = "be_fsm"
  BY DEF Reset
<1>3. Reset[3][1] = "unset" /\ Reset[3][2] = "bmc_init"
  BY DEF Reset
<1>4. Reset[4][1] = "destroy encoder" /\ Reset[4][2] = "bdd"
  BY DEF Reset
<1>5. Reset[5][1] = "destroy encoder" /\ Reset[5][2] = "be"
  BY DEF Reset
<1>6. Reset[6][1] = "destroy encoder" /\ Reset[6][2] = "bool"
  BY DEF Reset
<1>7. Reset[7][1] = "remove" /\ Reset[7][2] = "bdd_fsm"
  BY DEF Reset
<1>8. Reset[8][1] = "remove" /\ Reset[8][2] = "bool_fsm"
  BY DEF Reset
<1>9. Reset[9][1] = "remove" /\ Reset[9][2] = "sexp_fsm"
  BY DEF Reset
<1>10. Reset[10][1] = "remove" /\ Reset[10][2] = "flat_hierarchy"
  BY DEF Reset
<1>12. Reset[12][1] = "remove" /\ Reset[12][2] = "hrc"
  BY DEF Reset
<1>13. Reset[13][1] = "put" /\ Reset[13][2] = "hrc"
  BY DEF Reset
<1> QED
  BY <1>2, <1>3, <1>4, <1>5, <1>6, <1>7, <1>8, <1>9, <1>10, <1>12, <1>13

LEMMA ResetFactsStep ==
  ASSUME NEW k \in 1 .. 13, DataOK, todo # <<>>, Step, Effect = Reset[k], ResetFacts(k)
  PROVE  ResetFacts(k + 1)'
<1>0. committed \in [Encoders -> SUBSET Layers]
  BY DEF DataOK
<1>1. CASE k = 1
  <2>1. ChangeProperty /\ Kind = "no properties"
    BY <1>1, ResetSteps, StepOfKind, Kind1 DEF Kind
  <2>2. prop' = NoProp
    BY <2>1 DEF ChangeProperty
  <2> QED
    BY <2>2, <1>1 DEF ResetFacts
<1>2. CASE k \in {2, 7, 8, 9, 10, 12}
  <2>1. Kind = "remove" /\ RemoveEnv
    BY <1>2, ResetKinds, StepOfKind DEF Kind
  <2>2. env' = env \ {On} /\ prop' = prop /\ committed' = committed
    BY <2>1 DEF RemoveEnv
  <2>3. /\ k = 2 => On = "be_fsm"
        /\ k = 7 => On = "bdd_fsm"
        /\ k = 8 => On = "bool_fsm"
        /\ k = 9 => On = "sexp_fsm"
        /\ k = 10 => On = "flat_hierarchy"
        /\ k = 12 => On = "hrc"
    BY ResetKinds DEF On
  <2> QED
    BY <1>2, <2>2, <2>3 DEF ResetFacts
<1>3. CASE k = 3
  <2>1. Kind = "unset" /\ SetFlag
    BY <1>3, ResetKinds, StepOfKind DEF Kind
  <2>2. env' = env /\ prop' = prop
    BY <2>1 DEF SetFlag
  <2> QED
    BY <1>3, <2>2 DEF ResetFacts
<1>4. CASE k \in {4, 5, 6}
  <2>1. Kind = "destroy encoder" /\ DestroyEncoder
    BY <1>4, ResetKinds, StepOfKind DEF Kind
  <2>2. /\ env' = env \ {EncoderKey[On]} /\ prop' = prop
        /\ committed' = [committed EXCEPT ![On] = {}]
    BY <2>1 DEF DestroyEncoder
  <2>3. /\ k = 4 => On = "bdd"
        /\ k = 5 => On = "be"
        /\ k = 6 => On = "bool"
    BY ResetKinds DEF On
  <2>4. /\ k = 4 => env' = env \ {"bdd_enc"}
        /\ k = 5 => env' = env \ {"be_enc"}
        /\ k = 6 => env' = env \ {"bool_enc"}
    BY <2>2, <2>3 DEF EncoderKey
  <2>5. /\ k = 4 => committed'["bdd"] = {}
        /\ k = 5 => committed'["bdd"] = committed["bdd"] /\ committed'["be"] = {}
        /\ k = 6 => /\ committed'["bdd"] = committed["bdd"]
                    /\ committed'["be"] = committed["be"] /\ committed'["bool"] = {}
    BY <1>0, <2>2, <2>3 DEF Encoders
  <2> QED
    BY <1>4, <2>2, <2>4, <2>5 DEF ResetFacts
<1>5. CASE k = 11
  <2>1. Kind = "quit compiler" /\ Compiler
    BY <1>5, ResetSteps, StepOfKind, Kind1 DEF Kind
  <2>2. env' = env \ {"flattener", "cmps"} /\ prop' = prop /\ committed' = committed
    BY <2>1 DEF Compiler
  <2> QED
    BY <1>5, <2>2 DEF ResetFacts
<1>6. CASE k = 13
  <2>1. Kind = "put" /\ On = "hrc" /\ PutEnv
    BY <1>6, ResetKinds, StepOfKind DEF Kind, On
  <2>2. env' = env \cup {"hrc"} /\ prop' = prop /\ committed' = committed
    BY <2>1 DEF PutEnv
  <2> QED
    BY <1>6, <2>2 DEF ResetFacts
<1> QED
  BY <1>1, <1>2, <1>3, <1>4, <1>5, <1>6
LEMMA NoLastInCode ==
  ASSUME NEW s \in Seq(Code \cup Leaks \cup Ends)
  PROVE  NoLast(s)
<1>1. \A e \in Simple : e[1] # "init compiler"
  BY SimpleKinds
<1>2. \A e \in {"may"} \X Simple : e[1] = "may"
  OBVIOUS
<1>3. \A e \in {"catch"} \X Catches \X Seq(Straight \cup Leaks) : e[1] = "catch"
  OBVIOUS
<1>4. \A e \in Leaks : e[1] = "may return in catch"
  BY Kind1 DEF Leaks
<1>5. \A e \in Ends : e[1] = "end"
  BY DEF Ends
<1>6. \A e \in Code \cup Leaks \cup Ends : e[1] # "init compiler"
  BY <1>1, <1>2, <1>3, <1>4, <1>5 DEF Code, Straight
<1>7. Last[1] = "init compiler"
  BY Kind1 DEF Last
<1>8. \A e \in Code \cup Leaks \cup Ends : e # Last
  BY <1>6, <1>7
<1> QED
  BY <1>8 DEF NoLast

LEMMA NoLastCat ==
  ASSUME NEW S, NEW s \in Seq(S), NEW t \in Seq(S), NoLast(s), NoLast(t)
  PROVE  NoLast(s \o t)
<1> DEFINE n == Len(s)
<1>1. n \in Nat /\ Len(t) \in Nat /\ DOMAIN s = 1 .. n /\ DOMAIN t = 1 .. Len(t)
  OBVIOUS
<1>2. DOMAIN (s \o t) = 1 .. (n + Len(t))
  OBVIOUS
<1>3. \A i \in 1 .. n : (s \o t)[i] = s[i]
  OBVIOUS
<1>4. \A i \in 1 .. Len(t) : (s \o t)[i + n] = t[i]
  OBVIOUS
<1> HIDE DEF n
<1>5. ASSUME NEW i \in 1 .. (n + Len(t))
      PROVE  (s \o t)[i] # Last
  <2>1. CASE i \in 1 .. n
    BY <1>1, <1>3, <2>1 DEF NoLast
  <2>2. CASE i - n \in 1 .. Len(t)
    <3>1. (i - n) + n = i
      BY <1>1
    <3>2. (s \o t)[i] = t[i - n]
      BY <3>1, <2>2, <1>4
    <3> QED
      BY <3>2, <2>2, <1>1 DEF NoLast
  <2> QED
    BY <1>1, <2>1, <2>2
<1> QED
  BY <1>2, <1>5 DEF NoLast

LEMMA NoLastKeeps ==
  ASSUME NEW s, NoLast(s)
  PROVE  ResetShape(s) /\ \A i \in DOMAIN s : s[i] = Last => ResetFacts(15 - i)
BY DEF NoLast, ResetShape

(* A reset that has not begun.                                             *)
LEMMA ResetBegins ==
  ASSUME NEW t \in Seq(Effects), NoLast(t)
  PROVE  /\ ResetShape(Reset \o t)
         /\ \A i \in DOMAIN (Reset \o t) : (Reset \o t)[i] = Last => i = 14
<1>1. Reset \in Seq(Effects) /\ Len(Reset) = 14
  <2>1. Simple \cup {Last} \subseteq Effects
    BY Codes DEF Effects
  <2> QED
    BY <2>1, ResetIsEffects, SeqMonotonic
<1>i. /\ DOMAIN (Reset \o t) = 1 .. (Len(Reset) + Len(t))
      /\ \A i \in 1 .. Len(Reset) : (Reset \o t)[i] = Reset[i]
      /\ \A i \in 1 .. Len(t) : (Reset \o t)[i + Len(Reset)] = t[i]
  <2>1. \A r \in Seq(Effects) :
           /\ DOMAIN (r \o t) = 1 .. (Len(r) + Len(t))
           /\ \A i \in 1 .. Len(r) : (r \o t)[i] = r[i]
           /\ \A i \in 1 .. Len(t) : (r \o t)[i + Len(r)] = t[i]
    BY Indices
  <2> QED
    BY <1>1, <2>1, Zenon
<1>2. Len(t) \in Nat /\ DOMAIN t = 1 .. Len(t) /\ DOMAIN (Reset \o t) = 1 .. (14 + Len(t))
  BY <1>1, <1>i
<1>3. \A i \in 1 .. 14 : (Reset \o t)[i] = Reset[i]
  BY <1>1, <1>i, Zenon
<1>4. \A i \in 1 .. Len(t) : (Reset \o t)[i + 14] = t[i]
  BY <1>1, <1>i, Zenon
<1>5. ASSUME NEW i \in DOMAIN (Reset \o t), (Reset \o t)[i] = Last
      PROVE  i = 14
  <2>1. CASE i \in 1 .. 13
    <3>1. Reset[i] \in Simple /\ Reset[i] = Last
      <4>1. Reset[i] \in Simple
        BY <2>1, ResetIsEffects
      <4>2. i \in 1 .. 14
        BY <2>1
      <4> QED
        BY <4>1, <4>2, <1>3, <1>5
    <3>2. Last[1] = "init compiler"
      BY Kind1 DEF Last
    <3> QED
      BY <3>1, <3>2, SimpleKinds
  <2>2. CASE i - 14 \in 1 .. Len(t)
    <3>1. (i - 14) + 14 = i
      BY <1>2
    <3>2. t[i - 14] = Last
      BY <3>1, <2>2, <1>4, <1>5
    <3> QED
      BY <3>2, <2>2, <1>2 DEF NoLast
  <2> QED
    BY <1>2, <2>1, <2>2
<1>6. \A i \in DOMAIN (Reset \o t) : (Reset \o t)[i] = Last =>
         i <= 14 /\ \A j \in 1 .. i : (Reset \o t)[j] = Reset[14 - i + j]
  <2> SUFFICES ASSUME NEW i \in DOMAIN (Reset \o t), (Reset \o t)[i] = Last, NEW j \in 1 .. i
               PROVE  i <= 14 /\ (Reset \o t)[j] = Reset[14 - i + j]
    BY <1>5
  <2>1. i = 14
    BY <1>5
  <2>2. 14 - i + j = j /\ j \in 1 .. 14
    BY <2>1
  <2>3. (Reset \o t)[j] = Reset[j] /\ Reset[14 - i + j] = Reset[j]
    BY <2>2, <1>3, Zenon
  <2> QED
    BY <2>1, <2>3
<1> QED
  BY <1>5, <1>6 DEF ResetShape

(* The kinds of the effects of a reset but the last.                       *)
OfReset == {"no properties", "remove", "unset", "destroy encoder", "quit compiler", "put"}

LEMMA ResetIsOfReset == \A k \in 1 .. 13 : Reset[k][1] \in OfReset
<1> SUFFICES ASSUME NEW k \in 1 .. 13 PROVE Reset[k][1] \in OfReset
  OBVIOUS
<1>1. k \in {1, 2, 3, 4, 5, 6, 7, 8, 9, 10, 11, 12, 13}
  OBVIOUS
<1>2. Reset[1][1] = "no properties" /\ Reset[11][1] = "quit compiler"
  BY ResetSteps, Kind1
<1> QED
  BY <1>1, <1>2, ResetKinds DEF OfReset

(* Behind an effect that is none of a reset there is no end of a reset.    *)
LEMMA NoLastBehind ==
  ASSUME NEW s \in Seq(Effects), ResetShape(s), NEW m \in DOMAIN s, s[m][1] \notin OfReset
  PROVE  NoLast(SubSeq(s, m + 1, Len(s)))
<1> DEFINE t == SubSeq(s, m + 1, Len(s))
<1>1. Len(s) \in Nat /\ DOMAIN s = 1 .. Len(s) /\ m \in Nat
  OBVIOUS
<1>2. DOMAIN t = 1 .. (Len(s) - m) /\ \A i \in 1 .. (Len(s) - m) : t[i] = s[m + i]
  BY <1>1
<1> HIDE DEF t
<1>3. ASSUME NEW i \in DOMAIN t, t[i] = Last
      PROVE  FALSE
  <2>1. m + i \in DOMAIN s /\ s[m + i] = Last /\ i \in Nat /\ i >= 1
    BY <1>1, <1>2, <1>3
  <2>2. m + i <= 14 /\ \A j \in 1 .. (m + i) : s[j] = Reset[14 - (m + i) + j]
    BY <2>1 DEF ResetShape
  <2>3. m \in 1 .. (m + i) /\ 14 - (m + i) + m = 14 - i /\ 14 - i \in 1 .. 13
    <3>1. m \in Nat /\ m >= 1 /\ i \in Nat /\ i >= 1 /\ m + i <= 14
      BY <1>1, <2>1, <2>2
    <3>2. \A a, b \in Nat : a >= 1 /\ b >= 1 /\ a + b <= 14 =>
             a \in 1 .. (a + b) /\ 14 - (a + b) + a = 14 - b /\ 14 - b \in 1 .. 13
      OBVIOUS
    <3> QED
      BY <3>1, <3>2, Zenon
  <2>4. s[m] = Reset[14 - i]
    BY <2>2, <2>3
  <2> QED
    BY <2>3, <2>4, ResetIsOfReset
<1> QED
  BY <1>3 DEF NoLast, t

LEMMA NoLastRest ==
  ASSUME NEW s \in Seq(Effects), s # <<>>, ResetShape(s), s[1][1] \notin OfReset
  PROVE  NoLast(Tail(s))
<1>1. Tail(s) = SubSeq(s, 1 + 1, Len(s)) /\ 1 \in DOMAIN s
  BY TailIsSubSeq
<1> QED
  BY <1>1, NoLastBehind

LEMMA ShapeOfRest ==
  ASSUME NEW s \in Seq(Effects), s # <<>>, ResetShape(s), NEW i \in DOMAIN Tail(s),
         Tail(s)[i] = Last
  PROVE  /\ i \in 1 .. 13 /\ i + 1 \in DOMAIN s /\ s[i + 1] = Last /\ s[1] = Reset[14 - i]
         /\ \A j \in 1 .. i : Tail(s)[j] = Reset[14 - i + j]
<1>1. Len(s) \in Nat /\ DOMAIN s = 1 .. Len(s) /\ Len(s) >= 1
  BY EmptySeq
<1>2. DOMAIN Tail(s) = 1 .. (Len(s) - 1) /\ \A j \in 1 .. (Len(s) - 1) : Tail(s)[j] = s[j + 1]
  BY HeadTailProperties
<1>3. i \in Nat /\ i >= 1 /\ i + 1 \in DOMAIN s /\ s[i + 1] = Last
  BY <1>1, <1>2
<1>4. i + 1 <= 14 /\ \A j \in 1 .. (i + 1) : s[j] = Reset[14 - (i + 1) + j]
  BY <1>3 DEF ResetShape
<1>5. 1 \in 1 .. (i + 1) /\ 14 - (i + 1) + 1 = 14 - i
  BY <1>3
<1>6. s[1] = Reset[14 - i]
  BY <1>4, <1>5
<1>7. ASSUME NEW j \in 1 .. i
      PROVE  Tail(s)[j] = Reset[14 - i + j]
  <2>1. j + 1 \in 1 .. (i + 1) /\ 14 - (i + 1) + (j + 1) = 14 - i + j
    BY <1>3
  <2>2. j \in 1 .. (Len(s) - 1)
    BY <1>1, <1>2, <1>3
  <2>3. s[j + 1] = Reset[14 - i + j]
    BY <1>4, <2>1
  <2> QED
    BY <1>2, <2>2, <2>3
<1> QED
  BY <1>3, <1>4, <1>6, <1>7

LEMMA NoLastThen ==
  ASSUME NoLast(todo')
  PROVE  ResetInv'
BY DEF NoLast, ResetInv, ResetShape

LEMMA ResetThen ==
  ASSUME NEW t \in Seq(Effects), NoLast(t), todo' = Reset \o t
  PROVE  ResetInv'
<1>1. ResetShape(todo') /\ \A i \in DOMAIN todo' : todo'[i] = Last => i = 14
  BY ResetBegins
<1>2. ASSUME NEW i \in DOMAIN todo', todo'[i] = Last
      PROVE  ResetFacts(15 - i)'
  <2>1. i = 14
    BY <1>1, <1>2
  <2>2. 15 - i = 1
    BY <2>1
  <2> QED
    BY <2>2 DEF ResetFacts
<1> QED
  BY <1>1, <1>2 DEF ResetInv, ResetShape

LEMMA RestThen ==
  ASSUME SessInv, ResetInv, todo # <<>>, Step, todo' = Rest
  PROVE  ResetInv'
<1>1. todo \in Seq(Effects) /\ ResetShape(todo)
  BY Running DEF SessInv, Stacked, ResetInv
<1>2. ASSUME NEW i \in DOMAIN Rest, Rest[i] = Last
      PROVE  /\ i <= 14 /\ \A j \in 1 .. i : Rest[j] = Reset[14 - i + j]
             /\ ResetFacts(15 - i)'
  <2>1. /\ i \in 1 .. 13 /\ i + 1 \in DOMAIN todo /\ todo[i + 1] = Last
        /\ todo[1] = Reset[14 - i] /\ \A j \in 1 .. i : Rest[j] = Reset[14 - i + j]
    BY <1>1, <1>2, ShapeOfRest DEF Rest
  <2>2. 15 - (i + 1) = 14 - i /\ 14 - i \in 1 .. 13 /\ (14 - i) + 1 = 15 - i /\ i <= 14
    BY <2>1
  <2>3. ResetFacts(14 - i)
    <3>1. ResetFacts(15 - (i + 1))
      BY <2>1 DEF ResetInv
    <3> QED
      BY <2>2, <3>1
  <2> DEFINE k == 14 - i
  <2>4. k \in 1 .. 13 /\ Effect = Reset[k] /\ ResetFacts(k)
    BY <2>1, <2>2, <2>3 DEF Effect
  <2>5. k + 1 = 15 - i
    BY <2>2
  <2> HIDE DEF k
  <2>6. ResetFacts(k + 1)'
    BY <2>4, ResetFactsStep DEF SessInv
  <2> QED
    BY <2>1, <2>2, <2>5, <2>6
<1>3. ResetShape(todo')
  BY <1>2 DEF ResetShape
<1> QED
  BY <1>2, <1>3 DEF ResetInv, ResetShape
LEMMA CatchThen ==
  ASSUME NEW b \in Seq(Straight \cup Leaks), NEW e \in Ends, NEW t \in Seq(Effects), NoLast(t),
         todo' = b \o <<e>> \o t
  PROVE  ResetInv'
<1>1. Straight \cup Leaks \subseteq Code \cup Leaks \cup Ends
  BY Codes
<1>2. b \in Seq(Code \cup Leaks \cup Ends) /\ <<e>> \in Seq(Code \cup Leaks \cup Ends)
  BY <1>1, SeqMonotonic
<1>3. b \o <<e>> \in Seq(Code \cup Leaks \cup Ends)
  BY <1>2, Catenation
<1>4. Code \cup Leaks \cup Ends \subseteq Effects
  BY DEF Effects, Pieces
<1>5. b \o <<e>> \in Seq(Effects) /\ NoLast(b \o <<e>>)
  BY <1>3, <1>4, NoLastInCode, SeqMonotonic
<1>6. NoLast((b \o <<e>>) \o t)
  BY <1>5, NoLastCat
<1> QED
  BY <1>6, NoLastThen

LEMMA DispatchThen ==
  ASSUME NEW c \in Procs, NEW t \in Seq(Effects), NoLast(t),
         todo' = << Do(c), <<"end", "dispatch">> >> \o t
  PROVE  ResetInv'
<1> DEFINE e == <<"end", "dispatch">>
<1>1. e \in Ends
  BY DEF Ends
<1>2. todo' = << Do(c), e >> \o t
  OBVIOUS
<1> HIDE DEF e
<1>3. << Do(c), e >> = <<Do(c)>> \o <<e>>
  OBVIOUS
<1>4. Do(c) \in Straight \cup Leaks
  BY Members, Codes
<1>5. <<Do(c)>> \in Seq(Straight \cup Leaks)
  BY <1>4, List1, Zenon
<1>6. todo' = <<Do(c)>> \o <<e>> \o t
  BY <1>2, <1>3
<1> QED
  BY <1>1, <1>5, <1>6, CatchThen

LEMMA CodeThen ==
  ASSUME NEW b \in Seq(Code), NEW t \in Seq(Effects), NoLast(t), todo' = b \o t
  PROVE  ResetInv'
<1>1. Code \subseteq Code \cup Leaks \cup Ends /\ Code \subseteq Effects
  BY Codes DEF Effects
<1>2. b \in Seq(Code \cup Leaks \cup Ends) /\ b \in Seq(Effects)
  BY <1>1, SeqMonotonic
<1>3. NoLast(b \o t)
  BY <1>2, NoLastInCode, NoLastCat
<1> QED
  BY <1>3, NoLastThen

LEMMA NothingThen ==
  ASSUME todo' = <<>>
  PROVE  ResetInv'
<1>1. NoLast(<<>>)
  BY DEF NoLast
<1> QED
  BY <1>1, NoLastThen

LEMMA JumpThen ==
  ASSUME NEW s \in Seq(Effects), Guarded(s), ResetShape(s), Jump(s)
  PROVE  ResetInv'
<1>1. CASE Buffers(s) = 0
  BY <1>1, NothingThen DEF Jump
<1>2. CASE Buffers(s) # 0
  <2> DEFINE n == CHOOSE i \in DOMAIN s : IsEnd(s[i]) /\ \A j \in 1 .. i - 1 : ~IsEnd(s[j])
             t == SubSeq(s, n + 1, Len(s))
             h == s[n][2]
  <2>1. todo' = Handler(h) \o t
    BY <1>2 DEF Jump
  <2>2. PICK m : m = n
    OBVIOUS
  <2>3. m \in DOMAIN s /\ IsEnd(s[m]) /\ s[m] \in Effects /\ SubSeq(s, m + 1, Len(s)) \in Seq(Effects)
    BY <1>2, <2>2, FirstEnd
  <2>4. s[m][1] \notin OfReset
    BY <2>3 DEF IsEnd, OfReset
  <2>5. NoLast(SubSeq(s, m + 1, Len(s)))
    BY <2>3, <2>4, NoLastBehind
  <2>6. IsEnd(s[n]) /\ s[n] \in Effects /\ t \in Seq(Effects) /\ NoLast(t)
    BY <2>2, <2>3, <2>5
  <2> HIDE DEF n
  <2>7. h \in Catches \cup {"dispatch"}
    BY <2>6, Kinds DEF IsEnd
  <2> HIDE DEF t, h
  <2>8. CASE h = "hierarchy"
    <3>1. Handler(h) = Reset \o Fail
      BY <2>7, <2>8, HandlerIsEffects
    <3>2. Simple \cup {Last} \subseteq Effects /\ Code \subseteq Effects
      BY Codes DEF Effects
    <3>3. Reset \in Seq(Effects) /\ Fail \in Seq(Effects)
      BY <3>2, ResetIsEffects, AloneIsCode, SeqMonotonic
    <3>4. todo' = Reset \o (Fail \o t)
      BY <2>1, <2>6, <3>1, <3>3, ConcatAssociative
    <3>5. Code \subseteq Code \cup Leaks \cup Ends
      OBVIOUS
    <3>6. Fail \in Seq(Code \cup Leaks \cup Ends)
      BY <3>5, AloneIsCode, SeqMonotonic
    <3>7. Fail \o t \in Seq(Effects) /\ NoLast(Fail \o t)
      BY <2>6, <3>3, <3>6, NoLastInCode, NoLastCat, Catenation
    <3> QED
      BY <3>4, <3>7, ResetThen
  <2>9. CASE h # "hierarchy"
    <3>1. Handler(h) \in Seq(Code)
      BY <2>7, <2>9, HandlerIsEffects
    <3> QED
      BY <2>1, <2>6, <3>1, CodeThen
  <2> QED
    BY <2>8, <2>9
<1> QED
  BY <1>1, <1>2

LEMMA ResetInvStep ==
  ASSUME SessInv, ResetInv, todo # <<>>, Step
  PROVE  ResetInv'
<1>0. /\ todo \in Seq(Effects) /\ Guarded(todo) /\ ResetShape(todo) /\ Effect \in Effects
      /\ Rest \in Seq(Effects) /\ Guarded(Rest)
  BY Running DEF SessInv, Stacked, ResetInv
<1>n. ASSUME Kind \notin OfReset PROVE NoLast(Rest)
  BY <1>0, <1>n, NoLastRest DEF Kind, Effect, Rest
<1>1. CASE todo' = Rest
  BY <1>1, RestThen
<1>2. CASE todo' = <<>>
  BY <1>2, NothingThen
<1>3. CASE CallFunction /\ "cmps" \in env
  <2>1. todo' = Body(On) \o Rest /\ Kind = "do"
    BY <1>3 DEF CallFunction
  <2>2. NoLast(Rest)
    BY <1>n, <2>1 DEF OfReset
  <2>3. CASE On = "reset"
    <3>1. Body(On) = Reset
      BY <2>3 DEF Body
    <3> QED
      BY <1>0, <2>1, <2>2, <3>1, ResetThen
  <2>4. CASE On # "reset"
    <3>1. Effect \in Simple
      BY <1>0, <2>1, Kinds DEF Kind
    <3>2. On \in Procs
      BY <2>1, <3>1, SimpleKinds DEF On, Kind
    <3>3. Body(On) \in Seq(Code)
      BY <2>4, <3>2, BodyIsCode
    <3> QED
      BY <1>0, <2>1, <2>2, <3>3, CodeThen
  <2> QED
    BY <2>3, <2>4
<1>4. CASE Subcommand /\ On \notin flags /\ pos < MaxJmp
  <2>1. todo' = << Do(Effect[3]), <<"end", "dispatch">> >> \o Rest /\ Kind = "unless"
    BY <1>4 DEF Subcommand, Dispatch
  <2>2. Effect \in Simple
    BY <1>0, <2>1, Kinds DEF Kind
  <2>3. Effect[3] \in Procs
    BY <2>1, <2>2, SimpleKinds DEF Kind, Procs, Given
  <2>4. NoLast(Rest)
    BY <1>n, <2>1 DEF OfReset
  <2> QED
    BY <1>0, <2>1, <2>3, <2>4, DispatchThen
<1>5. CASE EnterCatch /\ pos < MaxJmp
  <2>1. todo' = Effect[3] \o << <<"end", On>> >> \o Rest /\ Kind = "catch"
    BY <1>5 DEF EnterCatch
  <2>2. On \in Catches /\ Effect[3] \in Seq(Straight \cup Leaks)
    BY <1>0, <2>1, Kinds DEF On, Kind
  <2>3. <<"end", On>> \in Ends
    BY <2>2 DEF Ends
  <2>4. NoLast(Rest)
    BY <1>n, <2>1 DEF OfReset
  <2> QED
    BY <1>0, <2>1, <2>2, <2>3, <2>4, CatchThen
<1>6. CASE GoesOn /\ Kind = "may"
  <2>1. todo' = <<On>> \o Rest
    BY <1>6 DEF GoesOn
  <2>2. On \in Code
    BY <1>0, <1>6, Kinds, Codes DEF Kind, On
  <2>3. <<On>> \in Seq(Code)
    BY <2>2, List1, Zenon
  <2>4. NoLast(Rest)
    BY <1>n, <1>6 DEF OfReset
  <2> QED
    BY <1>0, <2>1, <2>3, <2>4, CodeThen
<1>7. CASE Throws
  <2>1. Jump(Rest) /\ Kind \in {"can throw", "throw"}
    BY <1>7 DEF Throws
  <2>2. ResetShape(Rest)
    BY <1>n, <2>1, NoLastKeeps DEF OfReset
  <2> QED
    BY <1>0, <2>1, <2>2, JumpThen
<1>8. \/ todo' = Rest \/ todo' = <<>> \/ Throws
      \/ CallFunction /\ "cmps" \in env
      \/ Subcommand /\ On \notin flags /\ pos < MaxJmp
      \/ EnterCatch /\ pos < MaxJmp
      \/ GoesOn /\ Kind = "may"
  <2>1. CallFunction => todo' = <<>> \/ "cmps" \in env
    BY DEF CallFunction
  <2>2. Subcommand => \/ todo' = Rest
                      \/ todo' = <<>>
                      \/ (On \notin flags) /\ (pos < MaxJmp)
    BY DEF Subcommand, Dispatch
  <2>3. EnterCatch => todo' = <<>> \/ pos < MaxJmp
    BY DEF EnterCatch
  <2>4. GoesOn => todo' = Rest \/ Kind = "may"
    BY DEF GoesOn
  <2>5. LeaveCatch \/ SkipsEffect \/ Returns \/ RemoveEnv \/ LazyCommit \/ DestroyEncoder \/ Compiler
          => todo' = Rest \/ todo' = <<>>
    BY DEF LeaveCatch, SkipsEffect, Returns, RemoveEnv, LazyCommit, DestroyEncoder, Compiler
  <2>6. SetFlag \/ ReadEnv \/ PutEnv \/ CreateLayer => todo' = Rest \/ todo' = <<>>
    BY DEF SetFlag, ReadEnv, PutEnv, CreateLayer, Assert
  <2>7. DropLayer \/ CommitLayer \/ BuildBeFsm \/ CheckMachine => todo' = Rest \/ todo' = <<>>
    BY DEF DropLayer, CommitLayer, BuildBeFsm, CheckMachine, Assert
  <2>8. ChangeProperty => todo' = Rest
    BY DEF ChangeProperty
  <2> QED
    BY <2>1, <2>2, <2>3, <2>4, <2>5, <2>6, <2>7, <2>8 DEF Step
<1> QED
  BY <1>1, <1>2, <1>3, <1>4, <1>5, <1>6, <1>7, <1>8

LEMMA ResetInvNext ==
  ASSUME SessInv, ResetInv, [Next]_vars
  PROVE  ResetInv'
<1>1. ASSUME NEW c \in Commands, Command(c)
      PROVE  ResetInv'
  <2>1. CASE pos < MaxJmp
    <3>1. todo' = << Do(c), <<"end", "dispatch">> >> \o <<>>
      BY <1>1, <2>1 DEF Command, Dispatch
    <3>2. <<>> \in Seq(Effects) /\ NoLast(<<>>)
      BY DEF NoLast
    <3>3. c \in Procs
      BY CommandsAssumption DEF Procs, Given, Leaky
    <3> QED
      BY <3>1, <3>2, <3>3, DispatchThen
  <2>2. CASE ~(pos < MaxJmp)
    BY <1>1, <2>2, NothingThen DEF Command, Dispatch
  <2> QED
    BY <2>1, <2>2
<1>2. CASE SetCoi
  <2>1. todo' = <<>>
    BY <1>2 DEF SetCoi
  <2> QED
    BY <2>1, NothingThen
<1>3. CASE Step
  BY <1>3, ResetInvStep DEF Step
<1>4. CASE Interrupt
  <2>1. Jump(todo) /\ todo \in Seq(Effects) /\ Guarded(todo) /\ ResetShape(todo)
    BY <1>4, Running DEF Interrupt, SessInv, Stacked, ResetInv
  <2> QED
    BY <2>1, JumpThen
<1>5. CASE UNCHANGED vars
  BY <1>5 DEF vars, ResetInv, ResetShape, ResetFacts
<1> QED
  BY <1>1, <1>2, <1>3, <1>4, <1>5 DEF Next

(* Only the end of a reset gives the environment a new cmps, and then      *)
(* nothing else is left.                                                   *)
LEMMA ResetEnds ==
  ASSUME SessInv, ResetInv, [Next]_vars, "cmps" \in env' \ env
  PROVE  Fresh'
<1>1. todo # <<>> /\ Step
  <2>1. ASSUME NEW c \in Commands, Command(c) PROVE env' = env
    BY <2>1 DEF Command, Dispatch, dataVars
  <2>2. SetCoi \/ Interrupt \/ UNCHANGED vars => env' = env
    BY DEF SetCoi, Interrupt, vars, dataVars
  <2> QED
    BY <2>1, <2>2 DEF Next, Step
<1>2. Effect \in Effects /\ todo \in Seq(Effects)
  BY <1>1, Running DEF SessInv, Stacked
<1>3. Compiler /\ Kind = "init compiler"
  <2>1. CallFunction \/ Subcommand \/ EnterCatch \/ LeaveCatch \/ GoesOn \/ SkipsEffect \/ Throws
        \/ Returns => env' = env
    BY DEF CallFunction, Subcommand, Dispatch, EnterCatch, LeaveCatch, GoesOn, SkipsEffect, Throws,
       Returns, dataVars
  <2>2. SetFlag \/ ReadEnv \/ CreateLayer \/ DropLayer \/ CommitLayer \/ LazyCommit \/ BuildBeFsm
        \/ ChangeProperty \/ CheckMachine => env' = env
    BY DEF SetFlag, ReadEnv, CreateLayer, DropLayer, CommitLayer, LazyCommit, BuildBeFsm,
       ChangeProperty, CheckMachine, dataVars
  <2>3. RemoveEnv \/ DestroyEncoder => env' \subseteq env
    BY DEF RemoveEnv, DestroyEncoder
  <2>4. ~PutEnv
    <3>1. SUFFICES ASSUME PutEnv PROVE FALSE
      OBVIOUS
    <3>2. env' = env \cup {On} /\ Kind \in {"put", "replace", "ensure"}
      BY <3>1 DEF PutEnv
    <3>3. Effect \in Simple
      BY <1>2, <3>2, Kinds DEF Kind
    <3>4. On \in Keys \ {"cmps"}
      BY <3>2, <3>3, SimpleKinds DEF Kind, On
    <3> QED
      BY <3>2, <3>4
  <2>5. Compiler
    BY <1>1, <2>1, <2>2, <2>3, <2>4 DEF Step
  <2> QED
    BY <2>5 DEF Compiler
<1>4. Effect = Last
  BY <1>2, <1>3, Kinds DEF Kind
<1>5. ResetFacts(14)
  <2>1. 1 \in DOMAIN todo /\ todo[1] = Last /\ 15 - 1 = 14
    BY <1>1, <1>2, <1>4 DEF Effect
  <2>2. ResetFacts(15 - 1)
    BY <2>1 DEF ResetInv
  <2> QED
    BY <2>1, <2>2
<1>6. /\ env' = env \cup {"cmps"} /\ flags' = {} /\ layers' = {}
      /\ committed' = committed /\ prop' = prop
  BY <1>3 DEF Compiler
<1>7. env \subseteq Keys /\ env \cap (Keys \ {"hrc"}) = {} /\ "hrc" \in env
  BY <1>5 DEF ResetFacts, SessInv, DataOK, Keys
<1>8. env' = {"cmps", "hrc"}
  BY <1>6, <1>7
<1>9. prop' = NoProp /\ \A e \in Encoders : committed'[e] = {}
  BY <1>5, <1>6 DEF ResetFacts, Encoders
<1> QED
  BY <1>6, <1>8, <1>9 DEF Fresh

(* A reset, by the command or after an error in the hierarchy, leaves the  *)
(* session as it starts.                                                   *)
THEOREM ResetIsFreshCorrect == Spec => ResetIsFresh
<1>1. Init => ResetInv
  BY NoLastKeeps DEF Init, NoLast, ResetInv
<1>2. SessInv /\ ResetInv /\ [Next]_vars => ResetInv'
  BY ResetInvNext
<1>3. SessInv /\ ResetInv /\ [Next]_vars => ["cmps" \in env' \ env => Fresh']_vars
  BY ResetEnds
<1> QED
  BY <1>1, <1>2, <1>3, SessionInvariant, PTL DEF Spec, ResetIsFresh
=============================================================================
