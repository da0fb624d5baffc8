---------------------------- MODULE Phases_proofs ----------------------------
(* Proofs about the flags of a session: the commands, with all they call   *)
(* and whatever interrupts them, keep the order of the phases.             *)
EXTENDS Session_proofs

(***************************************************************************)
(* What an effect has to do with the flags.                                *)
(***************************************************************************)

(* The flags that must be set before an effect.                            *)
NeededBy(e) ==
  IF e[1] = "set" THEN NeededPhases[e[2]]
  ELSE IF e[1] = "may" THEN (IF e[2][1] = "set" THEN NeededPhases[e[2][2]] ELSE {})
  ELSE IF e[1] = "do"
  THEN (IF e[2] = "flatten_smv" THEN {"read_model"}
        ELSE IF e[2] \in {"create_flat_model", "flat_model_if_none"} THEN {"flatten_hrc"}
        ELSE IF e[2] \in {"create_boolean_model", "Bmc_Init"} THEN {"encode_variables"}
        ELSE {})
  ELSE IF e[1] = "catch"
  THEN (IF e[2] = "flatten_hierarchy" THEN {"read_model"}
        ELSE IF e[2] = "build_model" THEN {"flatten_hrc", "encode_variables"}
        ELSE {})
  ELSE {}

(* The flag that is set after it.                                          *)
Gives(e, f) == \/ e[1] = "set" /\ e[2] = f
               \/ e[1] = "do" /\ e[2] = "Bmc_Init" /\ f = "bmc_init"

(* Nothing behind it in the list is done.                                  *)
Leaves(e) == e[1] \in {"return 1", "throw"}

(* Flags may be lost.                                                      *)
Clears(e) == \/ e[1] \in {"unset", "quit compiler", "init compiler"}
             \/ e[1] = "do" /\ e[2] = "reset"

(* It belongs to the flattening of a model of which nothing is made yet.   *)
Early(e) == \/ e[1] = "do" /\ e[2] = "flatten_smv"
            \/ e[1] = "catch" /\ e[2] \in {"flatten_hierarchy", "fill"}
            \/ e[1] = "end" /\ e[2] = "fill"
            \/ e[1] = "unset" /\ e[2] = "read_model"

(* No flag is set by it.                                                   *)
Quiet(e) == /\ e[1] \notin {"set", "do", "unless"}
            /\ e[1] = "may" => e[2][1] # "set"
            /\ e[1] = "catch" => e[2] \notin {"flatten_hierarchy", "build_model"}

CatchBody(h) ==
  IF h = "flatten_hierarchy" THEN <<Do("flatten_smv")>>
  ELSE IF h = "fill" THEN << <<"new property">>, CanThrow>>
  ELSE IF h = "build_model"
  THEN <<Do("flat_model_if_none"), <<"get", "sexp_fsm">>, <<"lazy commit", "model">>,
         CanThrow, <<"put", "bdd_fsm">>, <<"set", "build_model">> >>
  ELSE IF h = "print_reachable_states"
  THEN << <<"may return in catch">>, <<"get", "bdd_fsm">> >>
  ELSE <<CanThrow>>

(* The commands have no other effects of these kinds.                      *)
Right(e) ==
  /\ e[1] = "catch" => e[3] = CatchBody(e[2])
  /\ e[1] = "unless" => e[3] # "reset"
  /\ e[1] = "unset" => e[2] \in {"read_model", "bmc_init"}
  /\ e[1] = "may" => e[2][1] \in {"set", "remove", "commit", "verdict"}

Covered(s, F) ==
  \A i \in DOMAIN s : \A f \in NeededBy(s[i]) :
    \/ \E j \in 1 .. i - 1 : Leaves(s[j])
    \/ /\ f \in F \/ \E j \in 1 .. i - 1 : Gives(s[j], f)
       /\ \A j \in 1 .. i - 1 : ~Clears(s[j])

Fresher(s, F) ==
  \A i \in DOMAIN s : Early(s[i]) => F \subseteq {"read_model"} /\ \A j \in 1 .. i - 1 : Quiet(s[j])

Closed(F) == \A f \in F : NeededPhases[f] \ {"bmc_init"} \subseteq F

(***************************************************************************)
(* Effects that may come at any time but for the flags F they need.        *)
(***************************************************************************)
Fits(e, F) == Right(e) /\ ~Early(e) /\ ~Clears(e) /\ NeededBy(e) \subseteq F
Fit(F) == {e \in Effects : Fits(e, F)}

(* Kinds that have nothing to do with flags.                               *)
Neutral == {"get", "absent", "remove", "put", "replace", "ensure", "create", "drop layer",
            "lazy commit", "be fsm", "commit", "destroy encoder", "own", "copy if any",
            "has machine", "no machine", "return 1", "can throw", "throw", "new property",
            "no properties", "verdict", "copy machines", "may return in catch"}

(* An effect of a neutral kind fits everywhere.                            *)
LEMMA NeutralFits ==
  ASSUME NEW e, NEW F, e[1] \in Neutral
  PROVE  Fits(e, F) /\ Quiet(e) /\ NeededBy(e) = {} /\ \A f : ~Gives(e, f)
<1>1. e[1] \notin {"set", "do", "catch", "unless", "may", "end", "unset", "quit compiler",
                   "init compiler"}
  BY DEF Neutral
<1>2. NeededBy(e) = {} /\ ~Early(e) /\ ~Clears(e)
  BY <1>1, Zenon DEF NeededBy, Early, Clears
<1>3. Right(e) /\ Quiet(e)
  BY <1>1, Zenon DEF Right, Quiet
<1>4. \A f : ~Gives(e, f)
  BY <1>1, Zenon DEF Gives
<1> QED
  BY <1>2, <1>3, <1>4 DEF Fits

(* The parts of an effect.                                                 *)
LEMMA Parts ==
  /\ \A a, b : <<a, b>>[1] = a /\ <<a, b>>[2] = b
  /\ \A a, b, c : <<a, b, c>>[1] = a /\ <<a, b, c>>[2] = b /\ <<a, b, c>>[3] = c
<1>1. \A a, b : <<a, b>>[1] = a /\ <<a, b>>[2] = b
  OBVIOUS
<1>2. \A a, b, c : <<a, b, c>>[1] = a /\ <<a, b, c>>[2] = b /\ <<a, b, c>>[3] = c
  OBVIOUS
<1> QED
  BY <1>1, <1>2

(* Code, its bodies of CATCHes and single effects are effects.             *)
LEMMA EffectsAre == Code \subseteq Effects /\ Straight \subseteq Effects /\ Simple \subseteq Effects
BY Codes DEF Effects

(* The neutral effects, one kind after the other.                          *)
LEMMA NeutralMembers ==
  ASSUME NEW F
  PROVE  /\ \A k \in Keys : /\ <<"get", k>> \in Fit(F) /\ <<"absent", k>> \in Fit(F)
                            /\ <<"remove", k>> \in Fit(F)
         /\ \A k \in Keys \ {"cmps"} : /\ <<"put", k>> \in Fit(F) /\ <<"replace", k>> \in Fit(F)
                                        /\ <<"ensure", k>> \in Fit(F)
         /\ \A l \in Layers : /\ <<"create", l>> \in Fit(F) /\ <<"lazy commit", l>> \in Fit(F)
                              /\ <<"be fsm", l>> \in Fit(F)
         /\ \A x \in Encoders, l \in Layers : <<"commit", x, l>> \in Fit(F)
         /\ \A m \in Machines : /\ <<"own", m>> \in Fit(F) /\ <<"copy if any", m>> \in Fit(F)
                                /\ <<"has machine", m>> \in Fit(F)
                                /\ <<"no machine", m>> \in Fit(F)
<1>1. \A e \in Simple : e[1] \in Neutral => e \in Fit(F)
  BY EffectsAre, NeutralFits DEF Fit
<1>2. \A a, b : a \in Neutral /\ <<a, b>> \in Simple => <<a, b>> \in Fit(F)
  BY <1>1, Parts, Zenon
<1>3. \A a, b, c : a \in Neutral /\ <<a, b, c>> \in Simple => <<a, b, c>> \in Fit(F)
  BY <1>1, Parts, Zenon
<1>4. /\ "get" \in Neutral /\ "absent" \in Neutral /\ "remove" \in Neutral /\ "put" \in Neutral
      /\ "replace" \in Neutral /\ "ensure" \in Neutral /\ "create" \in Neutral
      /\ "lazy commit" \in Neutral /\ "be fsm" \in Neutral /\ "commit" \in Neutral
      /\ "own" \in Neutral /\ "copy if any" \in Neutral /\ "has machine" \in Neutral
      /\ "no machine" \in Neutral
  BY DEF Neutral
<1> QED
  BY <1>2, <1>3, <1>4, Members

(* Those without an operand.                                               *)
LEMMA AloneFits ==
  ASSUME NEW F
  PROVE  /\ <<"return 1">> \in Fit(F) /\ CanThrow \in Fit(F) /\ <<"new property">> \in Fit(F)
         /\ <<"verdict">> \in Fit(F) /\ <<"copy machines">> \in Fit(F)
         /\ Fail \in Seq(Fit(F)) /\ <<>> \in Seq(Fit(F))
<1>1. \A e \in Effects : e[1] \in Neutral => e \in Fit(F)
  BY NeutralFits DEF Fit
<1>2. /\ <<"return 1">> \in Effects /\ CanThrow \in Effects /\ <<"new property">> \in Effects
      /\ <<"verdict">> \in Effects /\ <<"copy machines">> \in Effects
  BY AloneIsCode, EffectsAre
<1>3. /\ <<"return 1">>[1] \in Neutral /\ CanThrow[1] \in Neutral
      /\ <<"new property">>[1] \in Neutral /\ <<"verdict">>[1] \in Neutral
      /\ <<"copy machines">>[1] \in Neutral
  BY Kind1 DEF Neutral, CanThrow
<1>4. /\ <<"return 1">> \in Fit(F) /\ CanThrow \in Fit(F) /\ <<"new property">> \in Fit(F)
      /\ <<"verdict">> \in Fit(F) /\ <<"copy machines">> \in Fit(F)
  BY <1>1, <1>2, <1>3
<1>5. Fail \in Seq(Fit(F))
  BY <1>4, List1, Zenon DEF Fail
<1>6. <<>> \in Seq(Fit(F))
  OBVIOUS
<1> QED
  BY <1>4, <1>5, <1>6

(* The functions that ask for the flags they need themselves.              *)
Asking == Procs \ {"reset", "flatten_smv", "create_flat_model", "flat_model_if_none",
                   "create_boolean_model", "Bmc_Init"}

(* A call fits where the flags its first effects need are set.             *)
LEMMA CallFits ==
  ASSUME NEW F
  PROVE  /\ \A p \in Asking : Do(p) \in Fit(F)
         /\ "flatten_hrc" \in F => /\ Do("create_flat_model") \in Fit(F)
                                   /\ Do("flat_model_if_none") \in Fit(F)
         /\ "encode_variables" \in F => /\ Do("create_boolean_model") \in Fit(F)
                                        /\ Do("Bmc_Init") \in Fit(F)
<1>1. \A p \in Procs : Do(p) \in Effects /\ Do(p)[1] = "do" /\ Do(p)[2] = p
  BY Members, EffectsAre, Parts DEF Do
<1>2. ASSUME NEW e, e[1] = "do", e[2] \notin {"reset", "flatten_smv"}
      PROVE  Right(e) /\ ~Early(e) /\ ~Clears(e)
  BY <1>2 DEF Right, Early, Clears
<1>3. ASSUME NEW p \in Asking
      PROVE  Do(p) \in Fit(F)
  <2>1. Do(p) \in Effects /\ Do(p)[1] = "do" /\ Do(p)[2] = p
    BY <1>1 DEF Asking
  <2>2. NeededBy(Do(p)) = {}
    BY <2>1 DEF NeededBy, Asking
  <2> QED
    BY <1>2, <2>1, <2>2 DEF Asking, Fit, Fits
<1>4. ASSUME NEW p \in {"create_flat_model", "flat_model_if_none"}, "flatten_hrc" \in F
      PROVE  Do(p) \in Fit(F)
  <2>1. Do(p) \in Effects /\ Do(p)[1] = "do" /\ Do(p)[2] = p
    BY <1>1 DEF Procs
  <2>2. NeededBy(Do(p)) = {"flatten_hrc"}
    BY <2>1 DEF NeededBy
  <2> QED
    BY <1>2, <1>4, <2>1, <2>2 DEF Fit, Fits
<1>5. ASSUME NEW p \in {"create_boolean_model", "Bmc_Init"}, "encode_variables" \in F
      PROVE  Do(p) \in Fit(F)
  <2>1. Do(p) \in Effects /\ Do(p)[1] = "do" /\ Do(p)[2] = p
    BY <1>1 DEF Procs
  <2>2. NeededBy(Do(p)) = {"encode_variables"}
    BY <2>1 DEF NeededBy
  <2> QED
    BY <1>2, <1>5, <2>1, <2>2 DEF Fit, Fits
<1> QED
  BY <1>3, <1>4, <1>5

(* So does setting a flag.                                                 *)
LEMMA SetFits ==
  ASSUME NEW F, NEW f \in Flags, NeededPhases[f] \subseteq F
  PROVE  <<"set", f>> \in Fit(F)
<1> DEFINE e == <<"set", f>>
<1>1. e \in Effects
  BY Members, EffectsAre
<1>2. e[1] = "set" /\ e[2] = f
  BY Parts
<1> HIDE DEF e
<1>3. NeededBy(e) = NeededPhases[f]
  BY <1>2 DEF NeededBy
<1>4. Right(e) /\ ~Early(e) /\ ~Clears(e)
  BY <1>2 DEF Right, Early, Clears
<1>5. e \in Fit(F)
  BY <1>1, <1>3, <1>4 DEF Fit, Fits
<1> QED
  BY <1>5 DEF e

(* "if not done, run the command" needs nothing.                           *)
LEMMA UnlessFits ==
  ASSUME NEW F, NEW f \in Flags, NEW c \in UserCommands \ {Leaky, "reset"}
  PROVE  Unless(f, c) \in Fit(F)
<1> DEFINE e == <<"unless", f, c>>
<1>0. Unless(f, c) = e
  BY DEF Unless
<1>1. e \in Effects
  BY <1>0, Members, EffectsAre
<1>2. e[1] = "unless" /\ e[3] = c
  BY Parts
<1> HIDE DEF e
<1>3. NeededBy(e) = {}
  BY <1>2 DEF NeededBy
<1>4. Right(e) /\ ~Early(e) /\ ~Clears(e)
  BY <1>2 DEF Right, Early, Clears
<1> QED
  BY <1>0, <1>1, <1>3, <1>4 DEF Fit, Fits

(* What may be skipped.                                                    *)
LEMMA MayFits ==
  ASSUME NEW F, NEW e \in Simple, e[1] \in {"remove", "commit", "verdict"}
  PROVE  May(e) \in Fit(F) /\ Quiet(May(e))
<1> DEFINE m == <<"may", e>>
<1>0. May(e) = m
  BY DEF May
<1>1. m \in Effects
  BY <1>0, Codes, EffectsAre
<1>2. m[1] = "may" /\ m[2] = e
  BY Parts
<1> HIDE DEF m
<1>3. NeededBy(m) = {}
  BY <1>2 DEF NeededBy
<1>4. Right(m) /\ ~Early(m) /\ ~Clears(m) /\ Quiet(m)
  BY <1>2 DEF Right, Early, Clears, Quiet
<1> QED
  BY <1>0, <1>1, <1>3, <1>4 DEF Fit, Fits

(* The parts of a CATCH.                                                   *)
LEMMA CatchIs ==
  ASSUME NEW h \in Catches, NEW b \in Seq(Straight \cup Leaks)
  PROVE  /\ <<"catch", h, b>> \in Effects
         /\ <<"catch", h, b>>[1] = "catch" /\ <<"catch", h, b>>[2] = h
         /\ <<"catch", h, b>>[3] = b
<1>1. <<"catch", h, b>> \in Code
  BY DEF Code
<1> QED
  BY <1>1, EffectsAre, Parts

(* A CATCH other than the two of flattening.                               *)
LEMMA CatchFits ==
  ASSUME NEW F, NEW h \in Catches, CatchBody(h) \in Seq(Straight \cup Leaks),
         h \notin {"flatten_hierarchy", "fill"},
         h = "build_model" => {"flatten_hrc", "encode_variables"} \subseteq F
  PROVE  Catch(h, CatchBody(h)) \in Seq(Fit(F))
<1> DEFINE b == CatchBody(h)
           e == <<"catch", h, b>>
<1>1. e \in Effects /\ e[1] = "catch" /\ e[2] = h /\ e[3] = b
  BY CatchIs
<1>2. Catch(h, b) = <<e>>
  BY DEF Catch
<1> HIDE DEF e, b
<1>3. NeededBy(e) \subseteq F
  BY <1>1 DEF NeededBy
<1>4. ~Early(e) /\ ~Clears(e)
  BY <1>1 DEF Early, Clears
<1>5. Right(e)
  BY <1>1 DEF Right, b
<1>6. e \in Fit(F)
  BY <1>1, <1>3, <1>4, <1>5 DEF Fit, Fits
<1>7. <<e>> \in Seq(Fit(F))
  BY <1>6, List1, Zenon
<1> QED
  BY <1>2, <1>7 DEF b

(***************************************************************************)
(* What the functions do fits, if the flags they need are set.             *)
(***************************************************************************)
LEMMA ReadModelFits == ReadModel \in Seq(Fit(flags))
<1>1. CanThrow \in Fit(flags)
  BY AloneFits
<1>2. <<"set", "read_model">> \in Fit(flags)
  BY SetFits DEF Flags, NeededPhases
<1>3. << CanThrow, <<"set", "read_model">> >> \in Seq(Fit(flags))
  BY <1>1, <1>2, List2, Zenon
<1> QED
  BY <1>3, AloneFits, Catenation DEF ReadModel

(* The functions fit where the flags they rely on are set.                 *)
LEMMA EncodeVariablesFits ==
  ASSUME "flatten_hrc" \in flags
  PROVE  EncodeVariables \in Seq(Fit(flags))
<1>1. /\ <<"ensure", "bool_enc">> \in Fit(flags)
      /\ <<"commit", "bool", "model">> \in Fit(flags)
      /\ <<"absent", "bdd_enc">> \in Fit(flags) /\ <<"put", "bdd_enc">> \in Fit(flags)
  BY NeutralMembers DEF Encoders, Keys, Layers
<1>2. CanThrow \in Fit(flags)
  BY AloneFits
<1>3. <<"commit", "bdd", "model">> \in Simple /\ <<"commit", "bdd", "model">>[1] = "commit"
  BY Members, Parts DEF Encoders, Layers
<1>4. May(<<"commit", "bdd", "model">>) \in Fit(flags)
  BY <1>3, MayFits
<1>5. <<"set", "encode_variables">> \in Fit(flags)
  BY SetFits DEF Flags, NeededPhases
<1>6. << <<"ensure", "bool_enc">>, <<"commit", "bool", "model">>,
        <<"absent", "bdd_enc">>, CanThrow, <<"put", "bdd_enc">>,
        May(<<"commit", "bdd", "model">>),
        <<"set", "encode_variables">> >> \in Seq(Fit(flags))
  BY <1>1, <1>2, <1>4, <1>5, List7, Zenon
<1> QED
  BY <1>6, AloneFits, Catenation DEF EncodeVariables

LEMMA CreateFlatModelFits ==
  ASSUME "flatten_hrc" \in flags
  PROVE  CreateFlatModel \in Seq(Fit(flags))
<1>1. /\ <<"get", "flat_hierarchy">> \in Fit(flags) /\ <<"put", "sexp_fsm">> \in Fit(flags)
  BY NeutralMembers DEF Keys
<1>2. <<"set", "build_flat_model">> \in Fit(flags)
  BY SetFits DEF Flags, NeededPhases
<1>3. << <<"get", "flat_hierarchy">>, <<"put", "sexp_fsm">>,
        <<"set", "build_flat_model">> >> \in Seq(Fit(flags))
  BY <1>1, <1>2, List3, Zenon
<1> QED
  BY <1>3, AloneFits, Catenation, Zenon DEF CreateFlatModel

LEMMA FlatModelFits ==
  ASSUME "flatten_hrc" \in flags
  PROVE  BuildFlatModel \in Seq(Fit(flags)) /\ FlatModelIfNone \in Seq(Fit(flags))
<1>1. Do("create_flat_model") \in Fit(flags)
  BY CallFits DEF Asking, Given, Leaky, Procs, UserCommands
<1>2. << Do("create_flat_model") >> \in Seq(Fit(flags))
  BY <1>1, List1, Zenon
<1> QED
  BY <1>2, AloneFits, Catenation DEF BuildFlatModel, FlatModelIfNone

LEMMA BuildBooleanModelFits ==
  ASSUME {"flatten_hrc", "encode_variables"} \subseteq flags
  PROVE  \A forced \in BOOLEAN : BuildBooleanModel(forced) \in Seq(Fit(flags))
<1>1. /\ Do("flat_model_if_none") \in Fit(flags)
      /\ Do("create_boolean_model") \in Fit(flags)
  BY CallFits DEF Asking, Given, Leaky, Procs, UserCommands
<1>2. << Do("flat_model_if_none"), Do("create_boolean_model") >> \in Seq(Fit(flags))
  BY <1>1, List2, Zenon
<1> QED
  BY <1>2, AloneFits, Catenation DEF BuildBooleanModel

LEMMA CreateBooleanModelFits ==
  ASSUME "encode_variables" \in flags
  PROVE  CreateBooleanModel \in Seq(Fit(flags))
<1>1. /\ <<"get", "bdd_enc">> \in Fit(flags) /\ <<"create", "determ">> \in Fit(flags)
      /\ <<"get", "sexp_fsm">> \in Fit(flags)
  BY NeutralMembers DEF Keys, Layers
<1>2. << <<"get", "bdd_enc">>, <<"create", "determ">>, <<"get", "sexp_fsm">> >> \in Seq(Fit(flags))
  BY <1>1, List3, Zenon
<1>3. <<CanThrow>> \in Seq(Straight \cup Leaks)
  <2>1. CanThrow \in Straight \cup Leaks
    BY AloneIsCode, Codes
  <2> QED
    BY <2>1, List1, Zenon
<1>4. CatchBody("boolean_fsm") = <<CanThrow>>
  BY DEF CatchBody
<1>5. Catch("boolean_fsm", <<CanThrow>>) \in Seq(Fit(flags))
  BY <1>3, <1>4, CatchFits DEF Catches
<1>6. /\ <<"put", "bool_fsm">> \in Fit(flags)
      /\ <<"commit", "bool", "determ">> \in Fit(flags)
      /\ <<"commit", "bdd", "determ">> \in Fit(flags)
  BY NeutralMembers DEF Encoders, Keys, Layers
<1>7. <<"set", "build_bool_model">> \in Fit(flags)
  BY SetFits DEF Flags, NeededPhases
<1>8. << <<"put", "bool_fsm">>, <<"commit", "bool", "determ">>,
        <<"commit", "bdd", "determ">>, <<"set", "build_bool_model">> >> \in Seq(Fit(flags))
  BY <1>6, <1>7, List4, Zenon
<1> QED
  BY <1>2, <1>5, <1>8, AloneFits, Catenation, Zenon DEF CreateBooleanModel

LEMMA BmcInitFits ==
  ASSUME "encode_variables" \in flags
  PROVE  BmcInit \in Seq(Fit(flags))
<1>1. /\ <<"get", "bool_enc">> \in Fit(flags) /\ <<"put", "be_enc">> \in Fit(flags)
      /\ <<"commit", "be", "model">> \in Fit(flags)
  BY NeutralMembers DEF Encoders, Keys, Layers
<1>2. << <<"get", "bool_enc">>, <<"put", "be_enc">>,
        <<"commit", "be", "model">> >> \in Seq(Fit(flags))
  BY <1>1, List3, Zenon
<1>3. <<"commit", "be", "determ">> \in Fit(flags)
  BY NeutralMembers DEF Encoders, Layers
<1>4. << <<"commit", "be", "determ">> >> \in Seq(Fit(flags))
  BY <1>3, List1, Zenon
<1>5. <<"set", "bmc_init">> \in Fit(flags)
  BY SetFits DEF Flags, NeededPhases
<1>6. << <<"set", "bmc_init">> >> \in Seq(Fit(flags))
  BY <1>5, List1, Zenon
<1> QED
  BY <1>2, <1>4, <1>6, AloneFits, Catenation DEF BmcInit

(* The commands that check for themselves need none.                       *)
LEMMA GoFits == Go \in Seq(Fit(flags))
<1>1. /\ Unless("read_model", "read_model") \in Fit(flags)
      /\ Unless("flatten_hrc", "flatten_hierarchy") \in Fit(flags)
      /\ Unless("build_flat_model", "build_flat_model") \in Fit(flags)
      /\ Unless("encode_variables", "encode_variables") \in Fit(flags)
      /\ Unless("build_model", "build_model") \in Fit(flags)
  BY UnlessFits DEF Flags, Leaky, UserCommands
<1>2. << Unless("read_model", "read_model"),
        Unless("flatten_hrc", "flatten_hierarchy"),
        Unless("build_flat_model", "build_flat_model"),
        Unless("encode_variables", "encode_variables"),
        Unless("build_model", "build_model") >> \in Seq(Fit(flags))
  BY <1>1, List5, Zenon
<1> QED
  BY <1>2, AloneFits, Catenation, Zenon DEF Go

LEMMA GoBmcFits == GoBmc \in Seq(Fit(flags))
<1>1. /\ Unless("read_model", "read_model") \in Fit(flags)
      /\ Unless("flatten_hrc", "flatten_hierarchy") \in Fit(flags)
      /\ Unless("encode_variables", "encode_variables") \in Fit(flags)
      /\ Unless("build_bool_model", "build_boolean_model") \in Fit(flags)
      /\ Unless("bmc_setup", "bmc_setup") \in Fit(flags)
  BY UnlessFits DEF Flags, Leaky, UserCommands
<1>2. << Unless("read_model", "read_model"),
        Unless("flatten_hrc", "flatten_hierarchy"),
        Unless("encode_variables", "encode_variables"),
        Unless("build_bool_model", "build_boolean_model"),
        Unless("bmc_setup", "bmc_setup") >> \in Seq(Fit(flags))
  BY <1>1, List5, Zenon
<1> QED
  BY <1>2, AloneFits, Catenation, Zenon DEF GoBmc

LEMMA CheckCtlspecFits == CheckCtlspec \in Seq(Fit(flags))
<1>1. Do("apply_coi_for_bdd") \in Fit(flags)
  BY CallFits DEF Asking, Given, Leaky, Procs, UserCommands
<1>2. << Do("apply_coi_for_bdd") >> \in Seq(Fit(flags))
  BY <1>1, List1, Zenon
<1>3. Do("environment_fsms_if_no_bdd") \in Fit(flags)
  BY CallFits DEF Asking, Given, Leaky, Procs, UserCommands
<1>4. <<"has machine", "bdd">> \in Fit(flags)
  BY NeutralMembers DEF Machines
<1>5. <<"verdict">> \in Fit(flags)
  BY AloneFits
<1>6. << Do("environment_fsms_if_no_bdd"), <<"has machine", "bdd">>,
        <<"verdict">> >> \in Seq(Fit(flags))
  BY <1>3, <1>4, <1>5, List3, Zenon
<1> QED
  BY <1>2, <1>6, AloneFits, Catenation DEF CheckCtlspec

LEMMA CheckLtlspecBmcFits == CheckLtlspecBmc \in Seq(Fit(flags))
<1>1. Do("apply_coi_for_bmc") \in Fit(flags)
  BY CallFits DEF Asking, Given, Leaky, Procs, UserCommands
<1>2. << Do("apply_coi_for_bmc") >> \in Seq(Fit(flags))
  BY <1>1, List1, Zenon
<1>3. /\ Do("environment_fsms_if_no_be") \in Fit(flags) /\ Do("rewriter") \in Fit(flags)
  BY CallFits DEF Asking, Given, Leaky, Procs, UserCommands
<1>4. <<"has machine", "be">> \in Fit(flags)
  BY NeutralMembers DEF Machines
<1>5. <<"verdict">> \in Simple /\ <<"verdict">>[1] = "verdict"
  BY AloneIsCode, Kind1
<1>6. May(<<"verdict">>) \in Fit(flags)
  BY <1>5, MayFits
<1>7. << Do("environment_fsms_if_no_be"), <<"has machine", "be">>,
        Do("rewriter"), May(<<"verdict">>) >> \in Seq(Fit(flags))
  BY <1>3, <1>4, <1>6, List4, Zenon
<1> QED
  BY <1>2, <1>7, AloneFits, Catenation DEF CheckLtlspecBmc

LEMMA ApplyCoiForScalarFits == ApplyCoiForScalar \in Seq(Fit(flags))
<1>1. /\ <<"get", "flat_hierarchy">> \in Fit(flags) /\ <<"own", "scalar">> \in Fit(flags)
  BY NeutralMembers DEF Keys, Machines
<1>2. << <<"get", "flat_hierarchy">>, <<"own", "scalar">> >> \in Seq(Fit(flags))
  BY <1>1, List2, Zenon
<1> QED
  BY <1>2, AloneFits, Catenation, Zenon DEF ApplyCoiForScalar

LEMMA ApplyCoiForBddFits == ApplyCoiForBdd \in Seq(Fit(flags))
<1>1. Do("apply_coi_for_scalar") \in Fit(flags)
  BY CallFits DEF Asking, Given, Leaky, Procs, UserCommands
<1>2. << Do("apply_coi_for_scalar") >> \in Seq(Fit(flags))
  BY <1>1, List1, Zenon
<1>3. /\ <<"get", "bdd_enc">> \in Fit(flags) /\ <<"lazy commit", "model">> \in Fit(flags)
      /\ <<"own", "bdd">> \in Fit(flags)
  BY NeutralMembers DEF Keys, Layers, Machines
<1>4. << <<"get", "bdd_enc">>, <<"lazy commit", "model">>, <<"own", "bdd">> >> \in Seq(Fit(flags))
  BY <1>3, List3, Zenon
<1> QED
  BY <1>2, <1>4, AloneFits, Catenation DEF ApplyCoiForBdd

LEMMA ApplyCoiForBmcFits == ApplyCoiForBmc \in Seq(Fit(flags))
<1>1. <<"get", "be_enc">> \in Fit(flags)
  BY NeutralMembers DEF Keys
<1>2. << <<"get", "be_enc">> >> \in Seq(Fit(flags))
  BY <1>1, List1, Zenon
<1>3. /\ <<"get", "flat_hierarchy">> \in Fit(flags)
      /\ <<"create", "determ_p">> \in Fit(flags) /\ <<"get", "bdd_enc">> \in Fit(flags)
      /\ <<"commit", "bool", "determ_p">> \in Fit(flags)
      /\ <<"commit", "be", "determ_p">> \in Fit(flags)
      /\ <<"commit", "bdd", "determ_p">> \in Fit(flags) /\ <<"own", "bool">> \in Fit(flags)
      /\ <<"no machine", "be">> \in Fit(flags) /\ <<"be fsm", "determ_p">> \in Fit(flags)
      /\ <<"own", "be">> \in Fit(flags)
  BY NeutralMembers DEF Encoders, Keys, Layers, Machines
<1>4. CanThrow \in Fit(flags)
  BY AloneFits
<1>5. << <<"get", "flat_hierarchy">>, <<"create", "determ_p">>,
        <<"get", "bdd_enc">>, CanThrow, <<"commit", "bool", "determ_p">>,
        <<"commit", "be", "determ_p">>, <<"commit", "bdd", "determ_p">>,
        <<"own", "bool">>, <<"no machine", "be">>,
        <<"be fsm", "determ_p">>, <<"own", "be">> >> \in Seq(Fit(flags))
  BY <1>3, <1>4, List11, Zenon
<1>6. /\ <<"be fsm", "determ_p">> \in Fit(flags) /\ <<"own", "be">> \in Fit(flags)
  BY NeutralMembers DEF Layers, Machines
<1>7. << <<"be fsm", "determ_p">>, <<"own", "be">> >> \in Seq(Fit(flags))
  BY <1>6, List2, Zenon
<1>8. /\ <<"be fsm", "determ">> \in Fit(flags) /\ <<"own", "be">> \in Fit(flags)
  BY NeutralMembers DEF Layers, Machines
<1>9. << <<"be fsm", "determ">>, <<"own", "be">> >> \in Seq(Fit(flags))
  BY <1>8, List2, Zenon
<1> QED
  BY <1>2, <1>5, <1>7, <1>9, AloneFits, Catenation DEF ApplyCoiForBmc

LEMMA EnvironmentFsmsFits == \A m \in Machines : EnvironmentFsms(m) \in Seq(Fit(flags))
<1>1. <<"copy machines">> \in Fit(flags)
  BY AloneFits
<1>2. << <<"copy machines">> >> \in Seq(Fit(flags))
  BY <1>1, List1, Zenon
<1> QED
  BY <1>2, AloneFits, Catenation DEF EnvironmentFsms

LEMMA RewriterInitFits == RewriterInit \in Seq(Fit(flags))
<1>1. Do("apply_coi_for_scalar") \in Fit(flags)
  BY CallFits DEF Asking, Given, Leaky, Procs, UserCommands
<1>2. << Do("apply_coi_for_scalar") >> \in Seq(Fit(flags))
  BY <1>1, List1, Zenon
<1>3. <<"copy if any", "scalar">> \in Fit(flags)
  BY NeutralMembers DEF Machines
<1>4. << <<"copy if any", "scalar">> >> \in Seq(Fit(flags))
  BY <1>3, List1, Zenon
<1>5. Do("apply_coi_for_bmc") \in Fit(flags)
  BY CallFits DEF Asking, Given, Leaky, Procs, UserCommands
<1>6. << Do("apply_coi_for_bmc") >> \in Seq(Fit(flags))
  BY <1>5, List1, Zenon
<1>7. <<"copy if any", "bool">> \in Fit(flags)
  BY NeutralMembers DEF Machines
<1>8. << <<"copy if any", "bool">> >> \in Seq(Fit(flags))
  BY <1>7, List1, Zenon
<1>9. /\ <<"has machine", "be">> \in Fit(flags) /\ <<"has machine", "bool">> \in Fit(flags)
  BY NeutralMembers DEF Machines
<1>10. << <<"has machine", "be">>, <<"has machine", "bool">> >> \in Seq(Fit(flags))
  BY <1>9, List2, Zenon
<1> QED
  BY <1>2, <1>4, <1>6, <1>8, <1>10, AloneFits, Catenation DEF RewriterInit

LEMMA BuildModelFits ==
  ASSUME {"flatten_hrc", "encode_variables"} \subseteq flags
  PROVE  \A forced \in BOOLEAN : BuildModel(forced) \in Seq(Fit(flags))
<1> DEFINE b == <<Do("flat_model_if_none"), <<"get", "sexp_fsm">>, <<"lazy commit", "model">>,
                  CanThrow, <<"put", "bdd_fsm">>, <<"set", "build_model">> >>
<1>1. /\ <<"get", "sexp_fsm">> \in Simple /\ <<"lazy commit", "model">> \in Simple
      /\ <<"put", "bdd_fsm">> \in Simple /\ <<"set", "build_model">> \in Simple
  BY Members DEF Flags, Keys, Layers
<1>2. Do("flat_model_if_none") \in Simple
  BY Members DEF Given, Leaky, Procs, UserCommands
<1>3. /\ Do("flat_model_if_none") \in (Straight \cup Leaks)
      /\ <<"get", "sexp_fsm">> \in (Straight \cup Leaks)
      /\ <<"lazy commit", "model">> \in (Straight \cup Leaks)
      /\ CanThrow \in (Straight \cup Leaks)
      /\ <<"put", "bdd_fsm">> \in (Straight \cup Leaks)
      /\ <<"set", "build_model">> \in (Straight \cup Leaks)
  BY <1>1, <1>2, AloneIsCode, Codes
<1>4. b \in Seq(Straight \cup Leaks)
  BY <1>3, List6, Zenon
<1>5. CatchBody("build_model") = b
  BY DEF CatchBody
<1> HIDE DEF b
<1>6. Catch("build_model", b) \in Seq(Fit(flags))
  BY <1>4, <1>5, CatchFits DEF Catches
<1> QED
  BY <1>6, AloneFits DEF BuildModel, b

LEMMA ReadersFit ==
  /\ ComputeReachable \in Seq(Fit(flags)) /\ WriteOrder \in Seq(Fit(flags))
  /\ WriteFlatModel \in Seq(Fit(flags)) /\ WriteBooleanModel \in Seq(Fit(flags))
  /\ BmcPickState \in Seq(Fit(flags)) /\ ReadTrace \in Seq(Fit(flags))
<1>1. /\ <<"bdd_fsm">> \in Seq(Keys) /\ <<"bdd_enc">> \in Seq(Keys)
      /\ <<"flat_hierarchy">> \in Seq(Keys) /\ <<"sexp_fsm">> \in Seq(Keys)
      /\ <<"bool_enc", "bdd_enc", "bool_fsm">> \in Seq(Keys)
      /\ <<"be_enc", "bdd_enc", "be_fsm">> \in Seq(Keys)
  BY DEF Keys
<1>2. /\ ModelMissing(TRUE) \in BOOLEAN /\ EncodingMissing \in BOOLEAN
      /\ FlatteningMissing \in BOOLEAN /\ BoolModelMissing(TRUE) \in BOOLEAN
      /\ BmcMissing(TRUE) \in BOOLEAN /\ ("build_flat_model" \notin flags /\ ~coi) \in BOOLEAN
  BY Zenon DEF ModelMissing, EncodingMissing, FlatteningMissing, BoolModelMissing, BmcMissing
<1>3. ASSUME NEW missing \in BOOLEAN, NEW keys \in Seq(Keys)
      PROVE  Reader(missing, keys) \in Seq(Fit(flags))
  <2>0. \A k \in Keys : <<"get", k>> \in Fit(flags)
    BY NeutralMembers
  <2>1. \A i \in DOMAIN keys : <<"get", keys[i]>> \in Fit(flags)
    BY <2>0
  <2>2. DOMAIN keys = 1 .. Len(keys) /\ Len(keys) \in Nat
    OBVIOUS
  <2>3. [i \in DOMAIN keys |-> <<"get", keys[i]>>] \in [1 .. Len(keys) -> Fit(flags)]
    BY <2>1, <2>2
  <2>4. [i \in DOMAIN keys |-> <<"get", keys[i]>>] \in Seq(Fit(flags))
    BY <2>2, <2>3, SeqDef
  <2> QED
    BY <2>4, AloneFits DEF Reader
<1> QED
  BY <1>1, <1>2, <1>3, Zenon
     DEF ComputeReachable, WriteOrder, WriteFlatModel, WriteBooleanModel, BmcPickState, ReadTrace

LEMMA PrintReachableStatesFits ==
  ASSUME Leaky \in Commands
  PROVE  PrintReachableStates \in Seq(Fit(flags))
<1> DEFINE b == << <<"may return in catch">>, <<"get", "bdd_fsm">> >>
<1>1. <<"get", "bdd_fsm">> \in Straight
  BY Members, Codes DEF Keys
<1>2. <<"may return in catch">> \in Leaks
  BY DEF Leaks
<1>3. b \in Seq(Straight \cup Leaks)
  <2>1. /\ <<"may return in catch">> \in Straight \cup Leaks
        /\ <<"get", "bdd_fsm">> \in Straight \cup Leaks
    BY <1>1, <1>2
  <2> QED
    BY <2>1, List2, Zenon
<1>4. CatchBody("print_reachable_states") = b
  BY DEF CatchBody
<1> HIDE DEF b
<1>5. "print_reachable_states" \in Catches
  BY DEF Catches, Leaky
<1>6. Catch("print_reachable_states", b) \in Seq(Fit(flags))
  BY <1>3, <1>4, <1>5, CatchFits
<1> QED
  BY <1>6, AloneFits DEF PrintReachableStates, b

(* Bodies whose effects all have their flags when the function is entered. *)
Chained == {"reset", "flatten_hierarchy", "flatten_smv", "bmc_setup", "bmc_setup -f"}

(* All functions but those of flattening, reset and bmc_setup.             *)
LEMMA BodyFits ==
  ASSUME NEW p \in Procs \ Chained, NeededBy(Do(p)) \subseteq flags, Closed(flags)
  PROVE  Body(p) \in Seq(Fit(flags))
<1>0. Do(p)[1] = "do" /\ Do(p)[2] = p
  BY Parts DEF Do
<1>1. /\ p \in {"create_flat_model", "flat_model_if_none"} => "flatten_hrc" \in flags
      /\ p \in {"create_boolean_model", "Bmc_Init"} => "encode_variables" \in flags
  BY <1>0 DEF NeededBy
<1>2. "encode_variables" \in flags => "flatten_hrc" \in flags
  BY DEF Closed, NeededPhases
<1>3. CASE p \in {"read_model", "encode_variables", "build_flat_model", "create_flat_model",
                  "flat_model_if_none"}
  <2>1. p = "read_model" => Body(p) = ReadModel
    BY DEF Body
  <2>2. p = "encode_variables" => Body(p) = EncodeVariables
    BY DEF Body
  <2>3. p = "build_flat_model" => Body(p) = BuildFlatModel
    BY DEF Body
  <2>4. p = "create_flat_model" => Body(p) = CreateFlatModel
    BY DEF Body
  <2>5. p = "flat_model_if_none" => Body(p) = FlatModelIfNone
    BY DEF Body
  <2>6. "flatten_hrc" \notin flags => EncodeVariables = Fail /\ BuildFlatModel = Fail
    BY DEF EncodeVariables, BuildFlatModel, FlatteningMissing
  <2> QED
    BY <1>1, <1>3, <2>1, <2>2, <2>3, <2>4, <2>5, <2>6, AloneFits, ReadModelFits,
       EncodeVariablesFits, CreateFlatModelFits, FlatModelFits
<1>4. CASE p \in {"build_model", "build_model -f", "build_boolean_model", "build_boolean_model -f",
                  "create_boolean_model", "Bmc_Init"}
  <2>1. /\ p = "build_model" => Body(p) = BuildModel(FALSE)
        /\ p = "build_model -f" => Body(p) = BuildModel(TRUE)
    BY DEF Body
  <2>2. /\ p = "build_boolean_model" => Body(p) = BuildBooleanModel(FALSE)
        /\ p = "build_boolean_model -f" => Body(p) = BuildBooleanModel(TRUE)
    BY DEF Body
  <2>3. /\ p = "create_boolean_model" => Body(p) = CreateBooleanModel
        /\ p = "Bmc_Init" => Body(p) = BmcInit
    BY DEF Body
  <2>4. ASSUME "encode_variables" \notin flags, NEW forced \in BOOLEAN
        PROVE  BuildModel(forced) = Fail /\ BuildBooleanModel(forced) = Fail
    BY <2>4 DEF BuildModel, BuildBooleanModel, EncodingMissing
  <2> QED
    BY <1>1, <1>2, <1>4, <2>1, <2>2, <2>3, <2>4, AloneFits, BuildModelFits, BuildBooleanModelFits,
       CreateBooleanModelFits, BmcInitFits
<1>5. CASE p \in {"go", "go_bmc", "check_ctlspec", "check_ltlspec_bmc", "apply_coi_for_scalar",
                  "apply_coi_for_bdd", "apply_coi_for_bmc"}
  <2>1. p = "go" => Body(p) = Go
    BY DEF Body
  <2>2. p = "go_bmc" => Body(p) = GoBmc
    BY DEF Body
  <2>3. p = "check_ctlspec" => Body(p) = CheckCtlspec
    BY DEF Body
  <2>4. p = "check_ltlspec_bmc" => Body(p) = CheckLtlspecBmc
    BY DEF Body
  <2>5. p = "apply_coi_for_scalar" => Body(p) = ApplyCoiForScalar
    BY DEF Body
  <2>6. p = "apply_coi_for_bdd" => Body(p) = ApplyCoiForBdd
    BY DEF Body
  <2>7. p = "apply_coi_for_bmc" => Body(p) = ApplyCoiForBmc
    BY DEF Body
  <2> QED
    BY <1>5, <2>1, <2>2, <2>3, <2>4, <2>5, <2>6, <2>7, GoFits, GoBmcFits, CheckCtlspecFits,
       CheckLtlspecBmcFits, ApplyCoiForScalarFits, ApplyCoiForBddFits, ApplyCoiForBmcFits
<1>6. CASE p \in {"environment_fsms_if_no_bdd", "environment_fsms_if_no_be", "rewriter"}
  <2>1. p = "environment_fsms_if_no_bdd" => Body(p) = EnvironmentFsms("bdd")
    BY DEF Body
  <2>2. p = "environment_fsms_if_no_be" => Body(p) = EnvironmentFsms("be")
    BY DEF Body
  <2>3. p = "rewriter" => Body(p) = RewriterInit
    BY DEF Body
  <2> QED
    BY <1>6, <2>1, <2>2, <2>3, EnvironmentFsmsFits, RewriterInitFits DEF Machines
<1>7. CASE p \in {"compute_reachable", "write_order", "write_flat_model", "write_boolean_model",
                  "bmc_pick_state", "read_trace"}
  <2>1. p = "compute_reachable" => Body(p) = ComputeReachable
    BY DEF Body
  <2>2. p = "write_order" => Body(p) = WriteOrder
    BY DEF Body
  <2>3. p = "write_flat_model" => Body(p) = WriteFlatModel
    BY DEF Body
  <2>4. p = "write_boolean_model" => Body(p) = WriteBooleanModel
    BY DEF Body
  <2>5. p = "bmc_pick_state" => Body(p) = BmcPickState
    BY DEF Body
  <2>6. p = "read_trace" => Body(p) = ReadTrace
    BY DEF Body
  <2> QED
    BY <1>7, <2>1, <2>2, <2>3, <2>4, <2>5, <2>6, ReadersFit
<1>8. CASE p = "print_reachable_states"
  <2>1. Body(p) = PrintReachableStates
    BY <1>8 DEF Body
  <2>2. Leaky \in Commands
    BY <1>8 DEF Procs, Given, Leaky
  <2> QED
    BY <2>1, <2>2, PrintReachableStatesFits
<1> QED
  BY <1>3, <1>4, <1>5, <1>6, <1>7, <1>8 DEF Procs, Given, UserCommands, Chained

(***************************************************************************)
(* Lists of effects.                                                       *)
(***************************************************************************)
AllRight(s) == \A i \in DOMAIN s : Right(s[i])

(* What a running command keeps of the flags.                              *)
Orderly(s, F) == Covered(s, F) /\ Fresher(s, F) /\ AllRight(s)

(* A list of effects that fit one by one is orderly.                       *)
LEMMA FitIsOrderly ==
  ASSUME NEW F, NEW s \in Seq(Fit(F))
  PROVE  Orderly(s, F) /\ (\A i \in DOMAIN s : ~Clears(s[i]) /\ ~Early(s[i]))
<1>1. \A i \in DOMAIN s : s[i] \in Fit(F)
  OBVIOUS
<1>2. \A i \in DOMAIN s : Right(s[i]) /\ ~Early(s[i]) /\ ~Clears(s[i]) /\ NeededBy(s[i]) \subseteq F
  BY <1>1 DEF Fit, Fits
<1>3. ASSUME NEW i \in DOMAIN s
      PROVE  \A j \in 1 .. i - 1 : j \in DOMAIN s
  OBVIOUS
<1>4. Covered(s, F)
  BY <1>2, <1>3, Zenon DEF Covered
<1>5. Fresher(s, F)
  BY <1>2 DEF Fresher
<1> QED
  BY <1>2, <1>4, <1>5 DEF Orderly, AllRight

(* Positions in a list put before another: in the first, with those before *)
(* them; in the second, behind all of the first.                           *)
Before(b, t, i) ==
  /\ i \in DOMAIN b /\ (b \o t)[i] = b[i]
  /\ \A j \in 1 .. i - 1 : j \in DOMAIN b /\ (b \o t)[j] = b[j]
Behind(b, t, i, k) ==
  /\ (b \o t)[i] = t[k]
  /\ \A j \in DOMAIN b : j \in 1 .. i - 1 /\ (b \o t)[j] = b[j]
  /\ \A j \in 1 .. k - 1 : \E m \in 1 .. i - 1 : (b \o t)[m] = t[j]
  /\ \A m \in 1 .. i - 1 : \/ m \in DOMAIN b /\ (b \o t)[m] = b[m]
                           \/ \E j \in 1 .. k - 1 : (b \o t)[m] = t[j]

(* A position of a catenation is one of the first list or of the second.   *)
LEMMA Positions ==
  ASSUME NEW S, NEW b \in Seq(S), NEW t \in Seq(S)
  PROVE  \A i \in DOMAIN (b \o t) : Before(b, t, i) \/ \E k \in DOMAIN t : Behind(b, t, i, k)
<1> SUFFICES ASSUME NEW i \in DOMAIN (b \o t)
             PROVE  Before(b, t, i) \/ \E k \in DOMAIN t : Behind(b, t, i, k)
  OBVIOUS
<1> DEFINE n == Len(b)
           l == Len(t)
           c == b \o t
<1>1. /\ n \in Nat /\ l \in Nat /\ DOMAIN b = 1 .. n /\ DOMAIN t = 1 .. l
      /\ DOMAIN c = 1 .. (n + l)
      /\ \A j \in 1 .. n : c[j] = b[j]
      /\ \A j \in 1 .. l : c[j + n] = t[j]
  BY Indices
<1>0. i \in DOMAIN c
  OBVIOUS
<1> HIDE DEF n, l, c
<1>2. CASE i <= n
  <2>1. i \in 1 .. n /\ \A j \in 1 .. i - 1 : j \in 1 .. n
    BY <1>0, <1>1, <1>2
  <2> QED
    BY <1>1, <2>1 DEF c, Before
<1>3. CASE ~(i <= n)
  <2> DEFINE k == i - n
  <2>1. k \in 1 .. l /\ k + n = i /\ i \in Nat
    BY <1>0, <1>1, <1>3
  <2> HIDE DEF k
  <2>2. c[i] = t[k]
    BY <1>1, <2>1
  <2>3. \A j \in 1 .. n : j \in 1 .. i - 1 /\ c[j] = b[j]
    BY <1>1, <2>1
  <2>4. ASSUME NEW j \in 1 .. k - 1
        PROVE  \E m \in 1 .. i - 1 : c[m] = t[j]
    <3>1. j + n \in 1 .. i - 1 /\ j \in 1 .. l
      BY <1>1, <2>1
    <3> QED
      BY <1>1, <3>1
  <2>5. ASSUME NEW m \in 1 .. i - 1, ~(m <= n)
        PROVE  \E j \in 1 .. k - 1 : c[m] = t[j]
    <3>1. m - n \in 1 .. k - 1 /\ m - n \in 1 .. l /\ (m - n) + n = m
      BY <1>1, <2>1, <2>5
    <3>2. c[m] = t[m - n]
      BY <1>1, <3>1
    <3> QED
      BY <3>1, <3>2
  <2>6. ASSUME NEW m \in 1 .. i - 1, m <= n
        PROVE  m \in 1 .. n /\ c[m] = b[m]
    <3>1. m \in 1 .. n
      BY <1>1, <2>6
    <3> QED
      BY <1>1, <3>1
  <2>7. \A m \in 1 .. i - 1 : \/ m \in 1 .. n /\ c[m] = b[m]
                              \/ \E j \in 1 .. k - 1 : c[m] = t[j]
    BY <2>5, <2>6
  <2>8. k \in DOMAIN t
    BY <1>1, <2>1
  <2> QED
    BY <1>1, <2>2, <2>3, <2>4, <2>7, <2>8 DEF c, Behind
<1> QED
  BY <1>2, <1>3

(* What is right, fresh and covered in two lists is so in their catenation. *)
LEMMA RightCat ==
  ASSUME NEW S, NEW b \in Seq(S), NEW t \in Seq(S), AllRight(b), AllRight(t)
  PROVE  AllRight(b \o t)
<1>1. ASSUME NEW i \in DOMAIN (b \o t)
      PROVE  \/ \E k \in DOMAIN b : (b \o t)[i] = b[k]
             \/ \E k \in DOMAIN t : (b \o t)[i] = t[k]
  BY Positions DEF Before, Behind
<1> QED
  BY <1>1 DEF AllRight

LEMMA FresherCat ==
  ASSUME NEW S, NEW b \in Seq(S), NEW t \in Seq(S), NEW F, Fresher(b, F), Fresher(t, F),
         (\A i \in DOMAIN b : Quiet(b[i])) \/ (\A i \in DOMAIN t : ~Early(t[i]))
  PROVE  Fresher(b \o t, F)
<1> SUFFICES ASSUME NEW i \in DOMAIN (b \o t), Early((b \o t)[i])
             PROVE  F \subseteq {"read_model"} /\ \A j \in 1 .. i - 1 : Quiet((b \o t)[j])
  BY DEF Fresher
<1>1. Before(b, t, i) \/ \E k \in DOMAIN t : Behind(b, t, i, k)
  BY Positions, Zenon
<1>2. CASE Before(b, t, i)
  <2>1. F \subseteq {"read_model"} /\ \A j \in 1 .. i - 1 : Quiet(b[j])
    BY <1>2, Zenon DEF Before, Fresher
  <2> QED
    BY <1>2, <2>1, Zenon DEF Before
<1>3. ASSUME NEW k \in DOMAIN t, Behind(b, t, i, k)
      PROVE  F \subseteq {"read_model"} /\ \A j \in 1 .. i - 1 : Quiet((b \o t)[j])
  <2>2. Early(t[k])
    BY <1>3, Zenon DEF Behind
  <2>3. F \subseteq {"read_model"} /\ \A j \in 1 .. k - 1 : Quiet(t[j])
    BY <2>2, Zenon DEF Fresher
  <2>4. \A j \in DOMAIN b : Quiet(b[j])
    BY <2>2, Zenon
  <2> QED
    BY <1>3, <2>3, <2>4, Zenon DEF Behind
<1> QED
  BY <1>1, <1>2, <1>3, Zenon

(* Every need is behind an effect that leaves the list.                    *)
Dead(s) == \A i \in DOMAIN s : NeededBy(s[i]) # {} => \E j \in 1 .. i - 1 : Leaves(s[j])

(* More flags cover what fewer do.                                         *)
LEMMA CoveredMore ==
  ASSUME NEW s, NEW F, NEW G, F \subseteq G, Covered(s, F) \/ Dead(s)
  PROVE  Covered(s, G)
BY DEF Covered, Dead

(* What is put before the list leaves it, or what is needed behind it      *)
(* is given by it or there already.                                        *)
LEMMA CoveredCat ==
  ASSUME NEW S, NEW b \in Seq(S), NEW t \in Seq(S), NEW F, Covered(b, F),
         \/ \E j \in DOMAIN b : Leaves(b[j])
         \/ Dead(t)
         \/ /\ \A j \in DOMAIN b : ~Clears(b[j])
            /\ \E G : /\ Covered(t, G)
                      /\ \A f \in G : f \in F \/ \E j \in DOMAIN b : Gives(b[j], f)
  PROVE  Covered(b \o t, F)
<1> SUFFICES ASSUME NEW i \in DOMAIN (b \o t), NEW f \in NeededBy((b \o t)[i])
             PROVE  \/ \E j \in 1 .. i - 1 : Leaves((b \o t)[j])
                    \/ /\ f \in F \/ \E j \in 1 .. i - 1 : Gives((b \o t)[j], f)
                       /\ \A j \in 1 .. i - 1 : ~Clears((b \o t)[j])
  BY DEF Covered
<1> DEFINE Goal == \/ \E j \in 1 .. i - 1 : Leaves((b \o t)[j])
                   \/ /\ f \in F \/ \E j \in 1 .. i - 1 : Gives((b \o t)[j], f)
                      /\ \A j \in 1 .. i - 1 : ~Clears((b \o t)[j])
<1>1. Before(b, t, i) \/ \E k \in DOMAIN t : Behind(b, t, i, k)
  BY Positions, Zenon
<1>2. ASSUME Before(b, t, i) PROVE Goal
  <2>1. f \in NeededBy(b[i])
    BY <1>2, Zenon DEF Before
  <2>2. \/ \E j \in 1 .. i - 1 : Leaves(b[j])
        \/ /\ f \in F \/ \E j \in 1 .. i - 1 : Gives(b[j], f)
           /\ \A j \in 1 .. i - 1 : ~Clears(b[j])
    BY <1>2, <2>1, Zenon DEF Before, Covered
  <2> QED
    BY <1>2, <2>2, Zenon DEF Before
<1>3. ASSUME NEW k \in DOMAIN t, Behind(b, t, i, k) PROVE Goal
  <2>1. f \in NeededBy(t[k])
    BY <1>3, Zenon DEF Behind
  <2>2. CASE \E j \in DOMAIN b : Leaves(b[j])
    BY <1>3, <2>2, Zenon DEF Behind
  <2>3. CASE \E j \in 1 .. k - 1 : Leaves(t[j])
    BY <1>3, <2>3, Zenon DEF Behind
  <2>4. CASE Dead(t)
    <3>1. \E j \in 1 .. k - 1 : Leaves(t[j])
      BY <2>1, <2>4 DEF Dead
    <3> QED
      BY <2>3, <3>1, Zenon
  <2>5. CASE /\ \A j \in DOMAIN b : ~Clears(b[j])
             /\ \E G : /\ Covered(t, G)
                       /\ \A g \in G : g \in F \/ \E j \in DOMAIN b : Gives(b[j], g)
    <3>1. PICK G : /\ Covered(t, G)
                   /\ \A g \in G : g \in F \/ \E j \in DOMAIN b : Gives(b[j], g)
      BY <2>5, Zenon
    <3>2. \/ \E j \in 1 .. k - 1 : Leaves(t[j])
          \/ /\ f \in G \/ \E j \in 1 .. k - 1 : Gives(t[j], f)
             /\ \A j \in 1 .. k - 1 : ~Clears(t[j])
      BY <2>1, <3>1, Zenon DEF Covered
    <3>3. ASSUME \A j \in 1 .. k - 1 : ~Clears(t[j])
          PROVE  \A j \in 1 .. i - 1 : ~Clears((b \o t)[j])
      BY <1>3, <2>5, <3>3, Zenon DEF Behind
    <3>4. ASSUME f \in G \/ \E j \in 1 .. k - 1 : Gives(t[j], f)
          PROVE  f \in F \/ \E j \in 1 .. i - 1 : Gives((b \o t)[j], f)
      <4>1. f \in F \/ (\E j \in DOMAIN b : Gives(b[j], f)) \/ (\E j \in 1 .. k - 1 : Gives(t[j], f))
        BY <3>1, <3>4, Zenon
      <4> QED
        BY <1>3, <4>1, Zenon DEF Behind
    <3> QED
      BY <2>3, <3>2, <3>3, <3>4, Zenon
  <2> QED
    BY <2>2, <2>4, <2>5, Zenon
<1> QED
  BY <1>1, <1>2, <1>3, Zenon

(* The first effect of a list, and what is left after it.                  *)
LEMMA HeadIs ==
  ASSUME NEW S, NEW s \in Seq(S), s # <<>>, NEW F, Orderly(s, F)
  PROVE  /\ NeededBy(s[1]) \subseteq F /\ Right(s[1])
         /\ Early(s[1]) => F \subseteq {"read_model"}
<1>1. 1 \in DOMAIN s /\ \A j \in 1 .. 1 - 1 : FALSE
  OBVIOUS
<1>2. Covered(s, F) /\ Fresher(s, F) /\ AllRight(s)
  BY DEF Orderly
<1>3. NeededBy(s[1]) \subseteq F
  BY <1>1, <1>2, Zenon DEF Covered
<1>4. Right(s[1]) /\ (Early(s[1]) => F \subseteq {"read_model"})
  BY <1>1, <1>2, Zenon DEF Fresher, AllRight
<1> QED
  BY <1>3, <1>4

(* A position of the rest of a list, seen in the list.                     *)
LEMMA TailIs ==
  ASSUME NEW S, NEW s \in Seq(S), s # <<>>, NEW k \in DOMAIN Tail(s)
  PROVE  \E i \in DOMAIN s :
           /\ Tail(s)[k] = s[i] /\ 1 \in 1 .. i - 1
           /\ \A j \in 1 .. i - 1 : j = 1 \/ \E m \in 1 .. k - 1 : Tail(s)[m] = s[j]
           /\ \A m \in 1 .. k - 1 : \E j \in 1 .. i - 1 : Tail(s)[m] = s[j]
<1>1. /\ Len(s) \in Nat /\ Len(s) >= 1 /\ DOMAIN s = 1 .. Len(s)
      /\ k \in 1 .. Len(s) - 1
      /\ \A m \in 1 .. Len(s) - 1 : Tail(s)[m] = s[m + 1]
  OBVIOUS
<1> DEFINE i == k + 1
<1>2. i \in DOMAIN s /\ i - 1 = k /\ Tail(s)[k] = s[i] /\ 1 \in 1 .. i - 1
  BY <1>1
<1> HIDE DEF i
<1>3. ASSUME NEW j \in 1 .. i - 1, j # 1
      PROVE  \E m \in 1 .. k - 1 : Tail(s)[m] = s[j]
  <2>1. j - 1 \in 1 .. k - 1 /\ j - 1 \in 1 .. Len(s) - 1 /\ (j - 1) + 1 = j
    BY <1>1, <1>2, <1>3
  <2>2. Tail(s)[j - 1] = s[j]
    BY <1>1, <2>1
  <2> QED
    BY <2>1, <2>2
<1>4. ASSUME NEW m \in 1 .. k - 1
      PROVE  \E j \in 1 .. i - 1 : Tail(s)[m] = s[j]
  <2>1. m + 1 \in 1 .. i - 1 /\ m \in 1 .. Len(s) - 1
    BY <1>1, <1>2
  <2> QED
    BY <1>1, <2>1
<1> QED
  BY <1>2, <1>3, <1>4

(* When an effect is done the rest stays covered and fresh.                *)
LEMMA CoveredTail ==
  ASSUME NEW S, NEW s \in Seq(S), s # <<>>, NEW F, Covered(s, F), ~Leaves(s[1])
  PROVE  /\ Clears(s[1]) => Dead(Tail(s))
         /\ \A G : F \subseteq G /\ (\A f : Gives(s[1], f) => f \in G) /\ ~Clears(s[1])
                     => Covered(Tail(s), G)
<1>1. ASSUME NEW k \in DOMAIN Tail(s), NEW f \in NeededBy(Tail(s)[k])
      PROVE  \/ \E m \in 1 .. k - 1 : Leaves(Tail(s)[m])
             \/ /\ f \in F \/ Gives(s[1], f) \/ \E m \in 1 .. k - 1 : Gives(Tail(s)[m], f)
                /\ ~Clears(s[1]) /\ \A m \in 1 .. k - 1 : ~Clears(Tail(s)[m])
  <2>1. PICK i \in DOMAIN s :
             /\ Tail(s)[k] = s[i] /\ 1 \in 1 .. i - 1
             /\ \A j \in 1 .. i - 1 : j = 1 \/ \E m \in 1 .. k - 1 : Tail(s)[m] = s[j]
             /\ \A m \in 1 .. k - 1 : \E j \in 1 .. i - 1 : Tail(s)[m] = s[j]
    BY TailIs
  <2>2. \/ \E j \in 1 .. i - 1 : Leaves(s[j])
        \/ /\ f \in F \/ \E j \in 1 .. i - 1 : Gives(s[j], f)
           /\ \A j \in 1 .. i - 1 : ~Clears(s[j])
    <3>1. f \in NeededBy(s[i])
      BY <2>1, Zenon
    <3> QED
      BY <3>1, Zenon DEF Covered
  <2>3. ASSUME NEW j \in 1 .. i - 1, Leaves(s[j])
        PROVE  \E m \in 1 .. k - 1 : Leaves(Tail(s)[m])
    BY <2>1, <2>3, Zenon
  <2>4. ASSUME NEW j \in 1 .. i - 1, Gives(s[j], f)
        PROVE  Gives(s[1], f) \/ \E m \in 1 .. k - 1 : Gives(Tail(s)[m], f)
    BY <2>1, <2>4, Zenon
  <2>5. ASSUME \A j \in 1 .. i - 1 : ~Clears(s[j])
        PROVE  ~Clears(s[1]) /\ \A m \in 1 .. k - 1 : ~Clears(Tail(s)[m])
    BY <2>1, <2>5, Zenon
  <2> QED
    BY <2>2, <2>3, <2>4, <2>5, Zenon
<1>2. Clears(s[1]) => Dead(Tail(s))
  BY <1>1, Zenon DEF Dead
<1>3. ASSUME NEW G, F \subseteq G, \A f : Gives(s[1], f) => f \in G
      PROVE  ~Clears(s[1]) => Covered(Tail(s), G)
  BY <1>1, <1>3, Zenon DEF Covered
<1> QED
  BY <1>2, <1>3

LEMMA FresherTail ==
  ASSUME NEW S, NEW s \in Seq(S), s # <<>>, NEW F, Fresher(s, F)
  PROVE  /\ \A G : G \subseteq F \/ ~Quiet(s[1]) => Fresher(Tail(s), G)
         /\ ~Quiet(s[1]) => \A k \in DOMAIN Tail(s) : ~Early(Tail(s)[k])
<1>1. ASSUME NEW k \in DOMAIN Tail(s), Early(Tail(s)[k])
      PROVE  /\ F \subseteq {"read_model"} /\ Quiet(s[1])
             /\ \A m \in 1 .. k - 1 : Quiet(Tail(s)[m])
  <2>1. PICK i \in DOMAIN s :
             /\ Tail(s)[k] = s[i] /\ 1 \in 1 .. i - 1
             /\ \A m \in 1 .. k - 1 : \E j \in 1 .. i - 1 : Tail(s)[m] = s[j]
    BY TailIs
  <2>2. F \subseteq {"read_model"} /\ \A j \in 1 .. i - 1 : Quiet(s[j])
    <3>1. Early(s[i])
      BY <1>1, <2>1, Zenon
    <3> QED
      BY <3>1, Zenon DEF Fresher
  <2> QED
    BY <2>1, <2>2, Zenon
<1>2. ASSUME NEW G, G \subseteq F \/ ~Quiet(s[1])
      PROVE  Fresher(Tail(s), G)
  BY <1>1, <1>2 DEF Fresher
<1> QED
  BY <1>1, <1>2

(* What is left after the n-th effect.                                     *)
LEMMA FresherSuffix ==
  ASSUME NEW S, NEW s \in Seq(S), NEW n \in DOMAIN s, NEW F, Fresher(s, F), AllRight(s)
  PROVE  Fresher(SubSeq(s, n + 1, Len(s)), F) /\ AllRight(SubSeq(s, n + 1, Len(s)))
<1> DEFINE t == SubSeq(s, n + 1, Len(s))
<1>1. /\ Len(s) \in Nat /\ DOMAIN s = 1 .. Len(s)
      /\ DOMAIN t = 1 .. Len(s) - n
      /\ \A k \in 1 .. Len(s) - n : t[k] = s[n + k]
  OBVIOUS
<1> HIDE DEF t
<1>2. \A k \in DOMAIN t : n + k \in DOMAIN s /\ t[k] = s[n + k]
  BY <1>1
<1>3. AllRight(t)
  BY <1>2 DEF AllRight
<1>4. ASSUME NEW k \in DOMAIN t, Early(t[k])
      PROVE  F \subseteq {"read_model"} /\ \A m \in 1 .. k - 1 : Quiet(t[m])
  <2>1. F \subseteq {"read_model"} /\ \A j \in 1 .. (n + k) - 1 : Quiet(s[j])
    BY <1>2, <1>4 DEF Fresher
  <2>2. \A m \in 1 .. k - 1 : n + m \in 1 .. (n + k) - 1 /\ m \in 1 .. Len(s) - n
    BY <1>1
  <2> QED
    BY <1>1, <2>1, <2>2
<1>5. Fresher(t, F)
  BY <1>4 DEF Fresher
<1> QED
  BY <1>3, <1>5 DEF t

(***************************************************************************)
(* What a step does to the list.                                           *)
(***************************************************************************)
LEMMA OrderlyCat ==
  ASSUME NEW S, NEW b \in Seq(S), NEW t \in Seq(S), NEW F, Orderly(b, F),
         Fresher(t, F), AllRight(t),
         (\A i \in DOMAIN b : Quiet(b[i])) \/ (\A i \in DOMAIN t : ~Early(t[i])),
         \/ \E j \in DOMAIN b : Leaves(b[j])
         \/ Dead(t)
         \/ /\ \A j \in DOMAIN b : ~Clears(b[j])
            /\ \E G : /\ Covered(t, G)
                      /\ \A f \in G : f \in F \/ \E j \in DOMAIN b : Gives(b[j], f)
  PROVE  Orderly(b \o t, F)
<1>1. Covered(b \o t, F)
  BY CoveredCat, Zenon DEF Orderly
<1>2. Fresher(b \o t, F)
  BY FresherCat, Zenon DEF Orderly
<1>3. AllRight(b \o t)
  BY RightCat, Zenon DEF Orderly
<1> QED
  BY <1>1, <1>2, <1>3 DEF Orderly

(* The first effect has been done, and the flags are G.                    *)
LEMMA RestOrderly ==
  ASSUME NEW s \in Seq(Effects), s # <<>>, NEW F, Orderly(s, F), NEW G, ~Leaves(s[1]),
         G \subseteq F \/ ~Quiet(s[1]),
         Clears(s[1]) \/ (F \subseteq G /\ \A f : Gives(s[1], f) => f \in G)
  PROVE  Orderly(Tail(s), G)
<1>1. Covered(s, F) /\ Fresher(s, F) /\ AllRight(s)
  BY DEF Orderly
<1>2. Fresher(Tail(s), G)
  BY <1>1, FresherTail
<1>3. Covered(Tail(s), G)
  <2>1. CASE Clears(s[1])
    <3>1. Dead(Tail(s))
      BY <1>1, <2>1, CoveredTail
    <3> QED
      BY <3>1 DEF Dead, Covered
  <2>2. CASE ~Clears(s[1])
    BY <1>1, <2>2, CoveredTail
  <2> QED
    BY <2>1, <2>2
<1>4. AllRight(Tail(s))
  <2>1. \A k \in DOMAIN Tail(s) : \E i \in DOMAIN s : Tail(s)[k] = s[i]
    BY TailIs
  <2> QED
    BY <1>1, <2>1 DEF AllRight
<1> QED
  BY <1>2, <1>3, <1>4 DEF Orderly

(* The list b takes the place of the first effect.                         *)
LEMMA PutOrderly ==
  ASSUME NEW s \in Seq(Effects), s # <<>>, NEW F, Orderly(s, F), ~Leaves(s[1]),
         NEW b \in Seq(Effects), Orderly(b, F),
         (\A i \in DOMAIN b : Quiet(b[i])) \/ ~Quiet(s[1]),
         \/ Clears(s[1])
         \/ /\ \A j \in DOMAIN b : ~Clears(b[j])
            /\ \A f : Gives(s[1], f) => f \in F \/ \E j \in DOMAIN b : Gives(b[j], f)
  PROVE  Orderly(b \o Tail(s), F)
<1> DEFINE t == Tail(s)
           G == F \cup {f \in {"bmc_init", s[1][2]} : Gives(s[1], f)}
<1>0. t \in Seq(Effects)
  OBVIOUS
<1>1. Covered(s, F) /\ Fresher(s, F) /\ AllRight(s)
  BY DEF Orderly
<1>2. Fresher(t, F) /\ (~Quiet(s[1]) => \A i \in DOMAIN t : ~Early(t[i]))
  BY <1>1, FresherTail
<1>3. AllRight(t)
  <2>1. \A k \in DOMAIN Tail(s) : \E i \in DOMAIN s : Tail(s)[k] = s[i]
    BY TailIs
  <2> QED
    BY <1>1, <2>1 DEF AllRight
<1>4. Clears(s[1]) => Dead(t)
  BY <1>1, CoveredTail
<1>5. ~Clears(s[1]) => Covered(t, G)
  <2>1. \A f : Gives(s[1], f) => f \in {"bmc_init", s[1][2]}
    BY DEF Gives
  <2>2. F \subseteq G /\ \A f : Gives(s[1], f) => f \in G
    BY <2>1
  <2> HIDE DEF G
  <2> QED
    BY <1>1, <2>2, CoveredTail
<1>6. \A f \in G : f \in F \/ Gives(s[1], f)
  OBVIOUS
<1> HIDE DEF t, G
<1>7. \/ Dead(t)
      \/ /\ \A j \in DOMAIN b : ~Clears(b[j])
         /\ \E H : /\ Covered(t, H)
                   /\ \A f \in H : f \in F \/ \E j \in DOMAIN b : Gives(b[j], f)
  BY <1>4, <1>5, <1>6
<1>8. Orderly(b \o t, F)
  BY <1>0, <1>2, <1>3, <1>7, OrderlyCat
<1> QED
  BY <1>8 DEF t

(***************************************************************************)
(* Effects that need no flag and set none: the handlers are made of them.  *)
(***************************************************************************)
Calm(F) == {e \in Effects : /\ NeededBy(e) = {} /\ Right(e) /\ Quiet(e)
                            /\ Early(e) => F \subseteq {"read_model"}}

(* Effects that need and set nothing are orderly for all flags.            *)
LEMMA CalmList ==
  ASSUME NEW F, NEW s \in Seq(Calm(F))
  PROVE  Orderly(s, F) /\ s \in Seq(Effects) /\ \A i \in DOMAIN s : Quiet(s[i])
<1>1. \A i \in DOMAIN s : s[i] \in Calm(F)
  OBVIOUS
<1>2. Calm(F) \subseteq Effects
  BY DEF Calm
<1>3. s \in Seq(Effects)
  BY <1>2, SeqMonotonic
<1>4. \A i \in DOMAIN s : /\ NeededBy(s[i]) = {} /\ Right(s[i]) /\ Quiet(s[i])
                          /\ Early(s[i]) => F \subseteq {"read_model"}
  BY <1>1 DEF Calm
<1> QED
  <2>1. \A i \in DOMAIN s : \A j \in 1 .. i - 1 : j \in DOMAIN s
    OBVIOUS
  <2>2. Covered(s, F) /\ AllRight(s)
    BY <1>4 DEF Covered, AllRight
  <2>3. Fresher(s, F)
    BY <1>4, <2>1 DEF Fresher
  <2> QED
    BY <1>3, <1>4, <2>2, <2>3 DEF Orderly

(* Which effects these are.                                                *)
LEMMA CalmEffects ==
  ASSUME NEW F
  PROVE  /\ \A e \in Effects : e[1] \in Neutral => e \in Calm(F)
         /\ \A e \in Effects : e[1] \in {"no properties", "destroy encoder", "quit compiler",
                                         "init compiler", "drop layer", "remove"} => e \in Calm(F)
         /\ \A e \in Effects : e[1] = "unset" /\ e[2] = "bmc_init" => e \in Calm(F)
         /\ F \subseteq {"read_model"} =>
              \A e \in Effects : e[1] = "unset" /\ e[2] = "read_model" => e \in Calm(F)
<1>1. ASSUME NEW e \in Effects, e[1] \in Neutral
      PROVE  e \in Calm(F)
  BY <1>1, NeutralFits DEF Calm, Fits
<1>2. ASSUME NEW e \in Effects,
             e[1] \in {"no properties", "destroy encoder", "quit compiler", "init compiler",
                       "drop layer", "remove"}
      PROVE  e \in Calm(F)
  <2>1. NeededBy(e) = {} /\ ~Early(e)
    BY <1>2 DEF NeededBy, Early
  <2>2. Right(e) /\ Quiet(e)
    BY <1>2 DEF Right, Quiet
  <2> QED
    BY <2>1, <2>2 DEF Calm
<1>3. ASSUME NEW e \in Effects, e[1] = "unset", e[2] \in {"bmc_init", "read_model"},
             e[2] = "read_model" => F \subseteq {"read_model"}
      PROVE  e \in Calm(F)
  <2>1. NeededBy(e) = {} /\ (Early(e) => F \subseteq {"read_model"})
    BY <1>3 DEF NeededBy, Early
  <2>2. Right(e) /\ Quiet(e)
    BY <1>3 DEF Right, Quiet
  <2> QED
    BY <2>1, <2>2 DEF Calm
<1> QED
  BY <1>1, <1>2, <1>3

(* Reset consists of them.                                                 *)
LEMMA ResetIsCalm ==
  ASSUME NEW F
  PROVE  Reset \in Seq(Calm(F)) /\ Fail \in Seq(Calm(F))
<1>1. \A i \in 1 .. 14 : Reset[i] \in Effects
  <2>1. \A i \in 1 .. 13 : Reset[i] \in Effects
    BY ResetIsEffects, EffectsAre
  <2>2. Reset[14] \in Effects
    BY ResetSteps DEF Effects
  <2> QED
    BY <2>1, <2>2
<1>2. \A i \in 1 .. 14 : i # 3 => Reset[i][1] \in Neutral \cup
         {"no properties", "destroy encoder", "quit compiler", "init compiler", "drop layer",
          "remove"}
  <2>1. ASSUME NEW i \in 1 .. 13
        PROVE  Reset[i][1] \in OfReset
    BY ResetIsOfReset
  <2>2. Reset[14][1] = "init compiler"
    BY ResetSteps, Kind1 DEF Last
  <2>3. ASSUME NEW i \in 1 .. 13, i # 3
        PROVE  Reset[i][1] # "unset"
    <3>1. \/ i = 1 \/ i = 2 \/ i = 4 \/ i = 5 \/ i = 6 \/ i = 7
          \/ i = 8 \/ i = 9 \/ i = 10 \/ i = 11 \/ i = 12 \/ i = 13
      BY <2>3
    <3>2. Reset[1][1] = "no properties" /\ Reset[11][1] = "quit compiler"
      BY ResetSteps, Kind1
    <3> QED
      BY <3>1, <3>2, ResetKinds
  <2>4. \A i \in 1 .. 14 : i # 3 => \/ i = 14
                                    \/ Reset[i][1] \in OfReset \ {"unset"}
    BY <2>1, <2>3
  <2> QED
    BY <2>2, <2>4 DEF OfReset, Neutral
<1>3. Reset[3][1] = "unset" /\ Reset[3][2] = "bmc_init"
  BY ResetKinds
<1>4. \A i \in 1 .. 14 : Reset[i] \in Calm(F)
  BY <1>1, <1>2, <1>3, CalmEffects
<1>5. Reset \in Seq(Simple \cup {Last}) /\ Len(Reset) = 14
  BY ResetIsEffects
<1>6. Reset \in [1 .. 14 -> Calm(F)]
  <2>1. Reset \in [1 .. 14 -> Simple \cup {Last}]
    BY <1>5, LenProperties
  <2> QED
    BY <1>4, <2>1
<1>7. Reset \in Seq(Calm(F))
  BY <1>6, SeqDef
<1>8. Fail \in Seq(Calm(F))
  <2>1. <<"return 1">> \in Calm(F)
    <3>1. <<"return 1">> \in Effects /\ <<"return 1">>[1] \in Neutral
      BY AloneIsCode, EffectsAre, Kind1 DEF Neutral
    <3> QED
      BY <3>1, CalmEffects
  <2> QED
    BY <2>1, List1, Zenon DEF Fail
<1> QED
  BY <1>7, <1>8

(* The handlers go back to the prompt or to the CATCH around.              *)
LEMMA HandlerIsCalm ==
  ASSUME NEW F, NEW h \in Catches \cup {"dispatch"}, h = "fill" => F \subseteq {"read_model"}
  PROVE  Handler(h) \in Seq(Calm(F)) /\ \E j \in DOMAIN Handler(h) : Leaves(Handler(h)[j])
<1>1. ASSUME NEW b \in Seq(Calm(F))
      PROVE  /\ b \o Fail \in Seq(Calm(F))
             /\ \E j \in DOMAIN (b \o Fail) : Leaves((b \o Fail)[j])
  <2>0. Len(Fail) = 1
    BY DEF Fail
  <2>1. Fail[1] = <<"return 1">>
    BY DEF Fail
  <2>2. Fail \in Seq(Calm(F))
    BY ResetIsCalm
  <2>3. b \o Fail \in Seq(Calm(F))
    BY <2>2, Catenation, Zenon
  <2>4. Len(b) \in Nat /\ DOMAIN (b \o Fail) = 1 .. Len(b) + 1
        /\ (b \o Fail)[1 + Len(b)] = Fail[1]
    <3>1. /\ Len(b) \in Nat /\ DOMAIN (b \o Fail) = 1 .. (Len(b) + Len(Fail))
          /\ \A j \in 1 .. Len(Fail) : (b \o Fail)[j + Len(b)] = Fail[j]
      BY <2>2, Indices
    <3>2. 1 \in 1 .. Len(Fail) /\ Len(b) + Len(Fail) = Len(b) + 1
      BY <2>0
    <3>3. (b \o Fail)[1 + Len(b)] = Fail[1]
      BY <3>1, <3>2, Zenon
    <3> QED
      BY <3>1, <3>2, <3>3, Zenon
  <2>5. Leaves(Fail[1])
    BY <2>1, Kind1 DEF Leaves
  <2>6. 1 + Len(b) \in DOMAIN (b \o Fail)
    BY <2>4
  <2> QED
    BY <2>3, <2>4, <2>5, <2>6
<1>2. CASE h = "hierarchy"
  BY <1>1, <1>2, ResetIsCalm, HandlerIsEffects
<1>3. CASE h = "fill"
  <2> DEFINE b == << <<"drop layer", "model">>, <<"no properties">>, <<"remove", "flattener">>,
                     <<"unset", "read_model">> >>
  <2>1. Handler(h) = b \o Fail
    BY <1>3 DEF Handler, FlatteningFailed
  <2>2. /\ <<"drop layer", "model">> \in Simple /\ <<"remove", "flattener">> \in Simple
        /\ <<"unset", "read_model">> \in Simple
    BY Members DEF Flags, Keys, Layers
  <2>3. <<"no properties">> \in Effects
    BY AloneIsCode, EffectsAre
  <2>4. <<"drop layer", "model">> \in Calm(F) /\ <<"remove", "flattener">> \in Calm(F)
    BY <2>2, EffectsAre, Parts, CalmEffects
  <2>5. <<"unset", "read_model">> \in Calm(F)
    BY <1>3, <2>2, EffectsAre, Parts, CalmEffects
  <2>6. <<"no properties">> \in Calm(F)
    BY <2>3, Kind1, CalmEffects
  <2>7. b \in Seq(Calm(F))
    BY <2>4, <2>5, <2>6, List4, Zenon
  <2> HIDE DEF b
  <2> QED
    BY <1>1, <2>1, <2>7
<1>4. CASE h = "boolean_fsm"
  <2>1. Handler(h) = << <<"drop layer", "determ">>, <<"throw">> >>
    BY <1>4 DEF Handler
  <2>2. <<"drop layer", "determ">> \in Calm(F)
    <3>1. <<"drop layer", "determ">> \in Simple /\ <<"drop layer", "determ">>[1] = "drop layer"
      BY Members, Parts DEF Layers
    <3> QED
      BY <3>1, EffectsAre, CalmEffects
  <2>3. <<"throw">> \in Calm(F)
    <3>1. <<"throw">> \in Effects /\ <<"throw">>[1] = "throw"
      BY AloneIsCode, EffectsAre, Kind1
    <3> QED
      BY <3>1, CalmEffects DEF Neutral
  <2>4. Handler(h) \in Seq(Calm(F))
    BY <2>1, <2>2, <2>3, List2, Zenon
  <2>5. Handler(h)[2] = <<"throw">> /\ 2 \in DOMAIN Handler(h)
    <3>1. \A d, e : <<d, e>>[2] = e /\ 2 \in DOMAIN <<d, e>>
      OBVIOUS
    <3> QED
      BY <2>1, <3>1, Zenon
  <2>6. Leaves(<<"throw">>)
    BY Kind1 DEF Leaves
  <2> QED
    BY <2>4, <2>5, <2>6
<1>5. CASE h \notin {"hierarchy", "fill", "boolean_fsm"}
  <2>1. Handler(h) = Fail
    BY <1>5 DEF Handler
  <2>2. <<>> \in Seq(Calm(F)) /\ <<>> \o Fail = Fail
    BY ResetIsCalm
  <2> QED
    BY <1>1, <2>1, <2>2
<1> QED
  BY <1>2, <1>3, <1>4, <1>5

(***************************************************************************)
(* The functions that need what an earlier effect of theirs sets.          *)
(***************************************************************************)
Tame(s, F) == s \in Seq(Effects) /\ Orderly(s, F) /\ \A i \in DOMAIN s : ~Clears(s[i])

(* A list that fits is tame.                                               *)
LEMMA TameFit ==
  ASSUME NEW F, NEW s \in Seq(Fit(F))
  PROVE  Tame(s, F)
<1>1. Fit(F) \subseteq Effects
  BY DEF Fit
<1>2. s \in Seq(Effects)
  BY <1>1, SeqMonotonic
<1> QED
  BY <1>2, FitIsOrderly DEF Tame

(* What comes before gives the flags that the rest needs.                  *)
LEMMA TameThenFit ==
  ASSUME NEW F, NEW b, Tame(b, F), NEW G, NEW t \in Seq(Fit(G)),
         \A f \in G : f \in F \/ \E j \in DOMAIN b : Gives(b[j], f)
  PROVE  Tame(b \o t, F)
<1>1. /\ Tame(t, G) /\ \A i \in DOMAIN t : ~Early(t[i])
  BY TameFit, FitIsOrderly
<1>2. /\ b \in Seq(Effects) /\ Orderly(b, F) /\ \A i \in DOMAIN b : ~Clears(b[i])
      /\ t \in Seq(Effects) /\ Orderly(t, G) /\ \A i \in DOMAIN t : ~Clears(t[i])
  BY <1>1 DEF Tame
<1>3. Fresher(t, F) /\ AllRight(t) /\ Covered(t, G)
  BY <1>1, <1>2 DEF Fresher, Orderly
<1>4. Orderly(b \o t, F)
  <2>1. \E H : Covered(t, H) /\ \A f \in H : f \in F \/ \E j \in DOMAIN b : Gives(b[j], f)
    BY <1>3
  <2> QED
    BY <1>1, <1>2, <1>3, <2>1, OrderlyCat, Zenon
<1>5. \A i \in DOMAIN (b \o t) : Before(b, t, i) \/ \E k \in DOMAIN t : Behind(b, t, i, k)
  BY <1>2, Positions, Zenon
<1>6. \A i \in DOMAIN (b \o t) : ~Clears((b \o t)[i])
  BY <1>2, <1>5, Zenon DEF Before, Behind
<1>7. b \o t \in Seq(Effects)
  BY <1>2, Catenation, Zenon
<1> QED
  BY <1>4, <1>6, <1>7 DEF Tame

(* What comes before sets no flag.                                         *)
LEMMA QuietThenTame ==
  ASSUME NEW F, NEW b, Tame(b, F), \A i \in DOMAIN b : Quiet(b[i]), NEW t, Tame(t, F)
  PROVE  Tame(b \o t, F)
<1>2. /\ b \in Seq(Effects) /\ Orderly(b, F) /\ \A i \in DOMAIN b : ~Clears(b[i])
      /\ t \in Seq(Effects) /\ Orderly(t, F) /\ \A i \in DOMAIN t : ~Clears(t[i])
  BY DEF Tame
<1>3. Fresher(t, F) /\ AllRight(t) /\ Covered(t, F)
  BY <1>2 DEF Orderly
<1>4. Orderly(b \o t, F)
  <2>1. \E H : Covered(t, H) /\ \A f \in H : f \in F \/ \E j \in DOMAIN b : Gives(b[j], f)
    BY <1>3
  <2> QED
    BY <1>2, <1>3, <2>1, OrderlyCat, Zenon
<1>5. \A i \in DOMAIN (b \o t) : Before(b, t, i) \/ \E k \in DOMAIN t : Behind(b, t, i, k)
  BY <1>2, Positions, Zenon
<1>6. \A i \in DOMAIN (b \o t) : ~Clears((b \o t)[i])
  BY <1>2, <1>5, Zenon DEF Before, Behind
<1>7. b \o t \in Seq(Effects)
  BY <1>2, Catenation, Zenon
<1> QED
  BY <1>4, <1>6, <1>7 DEF Tame

(* Nothing but what was read is known when a hierarchy is flattened.       *)
LEMMA BeforeFlattening ==
  ASSUME flags \subseteq Flags, Closed(flags), {"flatten_hrc", "hrc_built"} \cap flags = {}
  PROVE  flags \subseteq {"read_model"}
<1>1. \A f \in flags : NeededPhases[f] \ {"bmc_init"} \subseteq flags
  BY DEF Closed
<1>2. "encode_variables" \notin flags /\ "build_flat_model" \notin flags
  BY <1>1 DEF NeededPhases
<1>3. "build_model" \notin flags /\ "build_bool_model" \notin flags /\ "bmc_init" \notin flags
  BY <1>1, <1>2 DEF NeededPhases
<1>4. "bmc_setup" \notin flags
  BY <1>1, <1>3 DEF NeededPhases
<1> QED
  BY <1>2, <1>3, <1>4 DEF Flags

(* flatten_hierarchy, which does nothing when a model is flattened already. *)
LEMMA FlattenHierarchyTame ==
  ASSUME flags \subseteq Flags, Closed(flags)
  PROVE  Tame(FlattenHierarchy, flags)
<1>1. CASE FlattenHierarchy = Fail
  BY <1>1, AloneFits, TameFit
<1>2. CASE FlattenHierarchy # Fail
  <2> DEFINE e == <<"catch", "flatten_hierarchy", <<Do("flatten_smv")>> >>
  <2>1. "read_model" \in flags /\ flags \subseteq {"read_model"} /\ FlattenHierarchy = <<e>>
    BY <1>2, BeforeFlattening DEF FlattenHierarchy, Catch
  <2>2. /\ e[1] = "catch" /\ e[2] = "flatten_hierarchy"
        /\ e[3] = CatchBody("flatten_hierarchy")
    BY Parts DEF CatchBody
  <2>3. e \in Effects
    <3>1. Do("flatten_smv") \in Straight \cup Leaks
      BY Members, Codes DEF Procs
    <3>2. <<Do("flatten_smv")>> \in Seq(Straight \cup Leaks)
      BY <3>1, List1, Zenon
    <3> QED
      BY <3>2, CatchIs DEF Catches
  <2> HIDE DEF e
  <2>4. /\ Right(e) /\ ~Clears(e) /\ NeededBy(e) \subseteq flags
    BY <2>1, <2>2 DEF Right, Clears, NeededBy
  <2>5. <<e>> \in Seq(Effects) /\ \A i \in DOMAIN <<e>> : <<e>>[i] = e /\ ~(\E j \in 1 .. i - 1 : TRUE)
    BY <2>3
  <2>6. Covered(<<e>>, flags) /\ AllRight(<<e>>)
    BY <2>4, <2>5 DEF Covered, AllRight
  <2>7. Fresher(<<e>>, flags)
    BY <2>1, <2>5 DEF Fresher
  <2> QED
    BY <2>1, <2>4, <2>5, <2>6, <2>7 DEF Tame, Orderly
<1> QED
  BY <1>1, <1>2

(* Three effects as two and one.                                           *)
LEMMA TwoAndOne ==
  ASSUME NEW S, NEW a \in S, NEW b \in S, NEW c \in S
  PROVE  <<a, b>> \o <<c>> = <<a, b, c>>
<1> DEFINE u == <<a, b>>
           v == <<c>>
           w == <<a, b, c>>
<1>1. u \in Seq(S) /\ v \in Seq(S) /\ w \in Seq(S)
  BY List1, List2, List3, Zenon
<1>2. Len(u) = 2 /\ Len(v) = 1 /\ Len(w) = 3
  OBVIOUS
<1>3. u[1] = a /\ u[2] = b /\ v[1] = c /\ w[1] = a /\ w[2] = b /\ w[3] = c
  OBVIOUS
<1> HIDE DEF u, v, w
<1>4. u \o v \in Seq(S)
  BY <1>1, Catenation, Zenon
<1>5. /\ DOMAIN (u \o v) = 1 .. 3 /\ (u \o v)[1] = u[1] /\ (u \o v)[2] = u[2]
      /\ (u \o v)[3] = v[1]
  <2>1. /\ DOMAIN (u \o v) = 1 .. (Len(u) + Len(v))
        /\ \A i \in 1 .. Len(u) : (u \o v)[i] = u[i]
        /\ \A i \in 1 .. Len(v) : (u \o v)[i + Len(u)] = v[i]
    BY <1>1, Indices
  <2>2. 1 \in 1 .. Len(u) /\ 2 \in 1 .. Len(u) /\ 1 \in 1 .. Len(v)
        /\ 1 + Len(u) = 3 /\ Len(u) + Len(v) = 3
    BY <1>2
  <2>3. (u \o v)[1 + Len(u)] = v[1]
    BY <2>1, <2>2, Zenon
  <2> QED
    BY <2>1, <2>2, <2>3, Zenon
<1>6. Len(u \o v) = 3
  <2>1. Len(u \o v) = Len(u) + Len(v)
    BY <1>1, ConcatProperties, Zenon
  <2> QED
    BY <1>2, <2>1
<1>7. ASSUME NEW i \in 1 .. 3
      PROVE  (u \o v)[i] = w[i]
  <2>1. i = 1 \/ i = 2 \/ i = 3
    OBVIOUS
  <2> QED
    BY <1>3, <1>5, <2>1
<1>8. u \o v = w
  BY <1>1, <1>2, <1>4, <1>6, <1>7, SeqEqual
<1> QED
  BY <1>8 DEF u, v, w

(* Flattening proper, with no flag but read_model set.                     *)
LEMMA FlattenSmvTame ==
  ASSUME flags = {"read_model"}
  PROVE  Tame(FlattenSmv, flags)
<1> DEFINE K == {e \in Calm(flags) : ~Clears(e)}
           G == flags \cup {"hrc_built"}
           p1 == << <<"put", "flattener">>, <<"get", "hrc">>, <<"create", "model">>,
                    <<"absent", "flat_hierarchy">> >>
           p2 == Catch("hierarchy", <<CanThrow>>)
           p3 == <<May(<<"remove", "hrc">>)>>
           p4 == Catch("fill", << <<"new property">>, CanThrow>>)
           p5 == << <<"put", "flat_hierarchy">>, <<"set", "hrc_built">> >>
           p6 == << May(<<"set", "flatten_hrc">>) >>
<1>1. ASSUME NEW e \in Fit(flags), Quiet(e), NeededBy(e) = {}
      PROVE  e \in K
  BY <1>1 DEF Fit, Fits, Calm
<1>2. p1 \in Seq(K)
  <2>1. ASSUME NEW e \in Simple, e[1] \in Neutral
        PROVE  e \in K
    BY <2>1, EffectsAre, NeutralFits, CalmEffects DEF Fits
  <2>2. /\ <<"put", "flattener">> \in Simple /\ <<"get", "hrc">> \in Simple
        /\ <<"create", "model">> \in Simple /\ <<"absent", "flat_hierarchy">> \in Simple
    BY Members DEF Keys, Layers
  <2>3. /\ <<"put", "flattener">> \in K /\ <<"get", "hrc">> \in K
        /\ <<"create", "model">> \in K /\ <<"absent", "flat_hierarchy">> \in K
    <3> HIDE DEF K
    <3> QED
      BY <2>1, <2>2, Parts DEF Neutral
  <2> HIDE DEF K
  <2> QED
    BY <2>3, List4, Zenon
<1>3. p2 \in Seq(K) /\ p4 \in Seq(K)
  <2>1. ASSUME NEW h \in {"hierarchy", "fill"}, NEW e \in Effects,
               e[1] = "catch", e[2] = h, e[3] = CatchBody(h)
        PROVE  e \in K
    <3>1. Right(e) /\ NeededBy(e) = {} /\ Quiet(e) /\ ~Clears(e)
      BY <2>1 DEF Right, NeededBy, Quiet, Clears
    <3>2. flags \subseteq {"read_model"}
      OBVIOUS
    <3> QED
      BY <3>1, <3>2 DEF Calm
  <2>2. CanThrow \in Straight \cup Leaks /\ <<"new property">> \in Straight \cup Leaks
    BY AloneIsCode, Codes
  <2>3. /\ <<CanThrow>> \in Seq(Straight \cup Leaks)
        /\ << <<"new property">>, CanThrow>> \in Seq(Straight \cup Leaks)
    BY <2>2, List1, List2, Zenon
  <2>4. /\ CatchBody("hierarchy") = <<CanThrow>>
        /\ CatchBody("fill") = << <<"new property">>, CanThrow>>
    BY DEF CatchBody
  <2> HIDE DEF K
  <2>5. "hierarchy" \in Catches /\ "fill" \in Catches
    BY DEF Catches
  <2>6. <<"catch", "hierarchy", <<CanThrow>> >> \in K
    BY <2>1, <2>3, <2>4, <2>5, CatchIs
  <2>7. <<"catch", "fill", << <<"new property">>, CanThrow>> >> \in K
    BY <2>1, <2>3, <2>4, <2>5, CatchIs
  <2> QED
    BY <2>6, <2>7, List1, Zenon DEF Catch
<1>4. p3 \in Seq(K)
  <2>1. <<"remove", "hrc">> \in Simple /\ <<"remove", "hrc">>[1] = "remove"
    BY Members, Parts DEF Keys
  <2> DEFINE r == <<"remove", "hrc">>
             m == May(r)
  <2>2. m \in Fit(flags) /\ Quiet(m)
    BY <2>1, MayFits
  <2>3. m[1] = "may" /\ m[2][1] = "remove"
    BY Parts DEF May
  <2>4. p3 = <<m>>
    OBVIOUS
  <2> HIDE DEF m
  <2>5. NeededBy(m) = {}
    BY <2>3 DEF NeededBy
  <2>6. m \in K
    BY <1>1, <2>2, <2>5
  <2> HIDE DEF K, p3
  <2> QED
    BY <2>4, <2>6, List1, Zenon
<1>5. Tame(p5 \o p6, flags)
  <2>1. <<"put", "flat_hierarchy">> \in Fit(flags)
    BY NeutralMembers DEF Keys
  <2>2. <<"set", "hrc_built">> \in Fit(flags)
    BY SetFits DEF Flags, NeededPhases
  <2>3. p5 \in Seq(Fit(flags))
    BY <2>1, <2>2, List2, Zenon
  <2>4. Tame(p5, flags)
    BY <2>3, TameFit
  <2>5. \A f \in G : f \in flags \/ \E j \in DOMAIN p5 : Gives(p5[j], f)
    <3>1. p5[2] = <<"set", "hrc_built">> /\ 2 \in DOMAIN p5
      OBVIOUS
    <3>2. Gives(<<"set", "hrc_built">>, "hrc_built")
      BY Parts DEF Gives
    <3> QED
      BY <3>1, <3>2
  <2>6. p6 \in Seq(Fit(G))
    <3> DEFINE e == <<"set", "flatten_hrc">>
               m == May(e)
    <3>1. e \in Simple
      BY Members DEF Flags
    <3>2. m \in Effects
      BY <3>1, Codes, EffectsAre
    <3>3. m[1] = "may" /\ m[2][1] = "set" /\ m[2][2] = "flatten_hrc"
      BY Parts DEF May
    <3> HIDE DEF m, G
    <3>4. NeededBy(m) = {"hrc_built"}
      BY <3>3 DEF NeededBy, NeededPhases
    <3>5. Right(m) /\ ~Early(m) /\ ~Clears(m)
      BY <3>3 DEF Right, Early, Clears
    <3>6. "hrc_built" \in G
      BY DEF G
    <3>7. m \in Fit(G)
      BY <3>2, <3>4, <3>5, <3>6 DEF Fit, Fits
    <3> QED
      BY <3>7, List1, Zenon DEF m
  <2> HIDE DEF p5, p6, G
  <2> QED
    BY <2>4, <2>5, <2>6, TameThenFit
<1> DEFINE B == p1 \o p2 \o p3 \o p4
<1>6. FlattenSmv = B \o (p5 \o p6)
  <2>1. p5 \o p6 = << <<"put", "flat_hierarchy">>, <<"set", "hrc_built">>,
                      May(<<"set", "flatten_hrc">>) >>
    <3>1. ASSUME NEW a, NEW b, NEW c
          PROVE  <<a, b>> \o <<c>> = <<a, b, c>>
      <4>1. {a, b, c} = {a, b, c} /\ a \in {a, b, c} /\ b \in {a, b, c} /\ c \in {a, b, c}
        OBVIOUS
      <4> QED
        BY <4>1, TwoAndOne, Zenon
    <3> QED
      BY <3>1, Zenon
  <2> QED
    BY <2>1, Zenon DEF FlattenSmv
<1>7. Tame(B, flags) /\ \A i \in DOMAIN B : Quiet(B[i])
  <2> HIDE DEF K, p1, p2, p3, p4
  <2>1. B \in Seq(K)
    BY <1>2, <1>3, <1>4, Catenation, Zenon
  <2>2. K \subseteq Calm(flags) /\ \A e \in K : ~Clears(e)
    BY DEF K
  <2> HIDE DEF B
  <2>3. B \in Seq(Calm(flags)) /\ \A i \in DOMAIN B : B[i] \in K
    BY <2>1, <2>2, SeqMonotonic
  <2>4. Orderly(B, flags) /\ B \in Seq(Effects) /\ \A i \in DOMAIN B : Quiet(B[i])
    BY <2>3, CalmList, Zenon
  <2> QED
    BY <2>2, <2>3, <2>4 DEF Tame
<1> HIDE DEF p5, p6, B
<1>8. Tame(B \o (p5 \o p6), flags)
  BY <1>5, <1>7, QuietThenTame, Zenon
<1> QED
  BY <1>6, <1>8, Zenon

(* bmc_setup, forced or not.                                               *)
LEMMA BmcSetupTame ==
  ASSUME Closed(flags), NEW forced \in BOOLEAN
  PROVE  Tame(BmcSetup(forced), flags)
<1> DEFINE b == <<Do("Bmc_Init")>>
           t == << <<"get", "bool_fsm">>, <<"be fsm", "determ">>, <<"replace", "be_fsm">>,
                   <<"get", "bdd_enc">>, <<"set", "bmc_setup">> >>
           G == flags \cup {"bmc_init"}
<1>1. CASE BoolModelMissing(forced) \/ ("bmc_setup" \in flags /\ ~forced)
  <2>1. BmcSetup(forced) = Fail
    BY <1>1 DEF BmcSetup
  <2> QED
    BY <2>1, AloneFits, TameFit
<1>2. CASE ~(BoolModelMissing(forced) \/ ("bmc_setup" \in flags /\ ~forced))
  <2>1. "build_bool_model" \in flags \/ ("encode_variables" \in flags /\ coi /\ ~forced)
    BY <1>2 DEF BoolModelMissing, EncodingMissing
  <2>2. "encode_variables" \in flags
    BY <2>1 DEF Closed, NeededPhases
  <2>3. b \in Seq(Fit(flags))
    <3>1. Do("Bmc_Init") \in Fit(flags)
      BY <2>2, CallFits
    <3> QED
      BY <3>1, List1, Zenon
  <2>4. Tame(b, flags)
    BY <2>3, TameFit
  <2>5. \A f \in G : f \in flags \/ \E j \in DOMAIN b : Gives(b[j], f)
    <3>1. b[1] = Do("Bmc_Init") /\ 1 \in DOMAIN b
      OBVIOUS
    <3>2. Gives(Do("Bmc_Init"), "bmc_init")
      BY Parts DEF Gives, Do
    <3> QED
      BY <3>1, <3>2
  <2>6. CASE coi /\ ~forced
    <3>1. BmcSetup(forced) = b \o <<>>
      BY <1>2, <2>6 DEF BmcSetup
    <3>2. <<>> \in Seq(Fit(G))
      OBVIOUS
    <3> HIDE DEF b, G
    <3> QED
      BY <2>4, <2>5, <3>1, <3>2, TameThenFit
  <2>7. CASE ~(coi /\ ~forced)
    <3>1. BmcSetup(forced) = b \o t
      BY <1>2, <2>7, Zenon DEF BmcSetup
    <3>2. /\ <<"get", "bool_fsm">> \in Fit(G) /\ <<"be fsm", "determ">> \in Fit(G)
          /\ <<"replace", "be_fsm">> \in Fit(G) /\ <<"get", "bdd_enc">> \in Fit(G)
      <4> HIDE DEF G
      <4> QED
        BY NeutralMembers DEF Keys, Layers
    <3>3. <<"set", "bmc_setup">> \in Fit(G)
      <4>1. NeededPhases["bmc_setup"] \subseteq G /\ "bmc_setup" \in Flags
        BY <2>1, <2>7 DEF NeededPhases, Flags
      <4> HIDE DEF G
      <4> QED
        BY <4>1, SetFits
    <3>4. t \in Seq(Fit(G))
      <4> HIDE DEF G
      <4> QED
        BY <3>2, <3>3, List5, Zenon
    <3> HIDE DEF b, G, t
    <3> QED
      BY <2>4, <2>5, <3>1, <3>4, TameThenFit
  <2> QED
    BY <2>6, <2>7
<1> QED
  BY <1>1, <1>2

(* What a function does, when the flags it needs are there.                *)
LEMMA BodyIsTame ==
  ASSUME flags \subseteq Flags, Closed(flags), NEW p \in Procs,
         NeededBy(Do(p)) \subseteq flags, Early(Do(p)) => flags \subseteq {"read_model"}
  PROVE  /\ Orderly(Body(p), flags) /\ Body(p) \in Seq(Effects)
         /\ p # "reset" => \A i \in DOMAIN Body(p) : ~Clears(Body(p)[i])
<1>1. CASE p \notin Chained
  <2>1. Body(p) \in Seq(Fit(flags))
    BY <1>1, BodyFits
  <2> QED
    BY <2>1, TameFit DEF Tame
<1>2. CASE p = "reset"
  <2>1. Body(p) = Reset
    BY <1>2 DEF Body
  <2>2. Reset \in Seq(Calm(flags))
    BY ResetIsCalm
  <2>3. Orderly(Reset, flags) /\ Reset \in Seq(Effects)
    BY <2>2, CalmList
  <2> QED
    BY <1>2, <2>1, <2>3
<1>3. CASE p = "flatten_hierarchy"
  <2>1. Body(p) = FlattenHierarchy
    BY <1>3 DEF Body
  <2> QED
    BY <2>1, FlattenHierarchyTame DEF Tame
<1>4. CASE p = "flatten_smv"
  <2>1. Body(p) = FlattenSmv
    BY <1>4 DEF Body
  <2>2. Do(p)[1] = "do" /\ Do(p)[2] = "flatten_smv"
    BY <1>4, Parts DEF Do
  <2>3. flags = {"read_model"}
    BY <2>2 DEF NeededBy, Early
  <2> QED
    BY <2>1, <2>3, FlattenSmvTame DEF Tame
<1>5. CASE p \in {"bmc_setup", "bmc_setup -f"}
  <2>1. \E forced \in BOOLEAN : Body(p) = BmcSetup(forced)
    BY <1>5 DEF Body
  <2> QED
    BY <2>1, BmcSetupTame DEF Tame
<1> QED
  BY <1>1, <1>2, <1>3, <1>4, <1>5 DEF Chained

(* Bmc_Init has the encoder of the BMC variables ready, or makes it.       *)
LEMMA BmcInitGives ==
  ASSUME NEW f, Gives(Do("Bmc_Init"), f)
  PROVE  f \in flags \/ \E j \in DOMAIN BmcInit : Gives(BmcInit[j], f)
<1>1. f = "bmc_init"
  BY Parts DEF Gives, Do
<1>2. ASSUME "bmc_init" \notin flags
      PROVE  \E j \in DOMAIN BmcInit : Gives(BmcInit[j], f)
  <2> DEFINE e == <<"set", "bmc_init">>
             b == << <<"get", "bool_enc">>, <<"put", "be_enc">>, <<"commit", "be", "model">> >>
             d == IF "determ" \in layers THEN << <<"commit", "be", "determ">> >> ELSE <<>>
  <2>1. BmcInit = b \o d \o <<e>>
    BY <1>2, Zenon DEF BmcInit
  <2>2. b \o d \in Seq(Effects)
    <3>1. b \in Seq(Effects)
      <4>1. /\ <<"get", "bool_enc">> \in Effects /\ <<"put", "be_enc">> \in Effects
            /\ <<"commit", "be", "model">> \in Effects
        BY Members, EffectsAre DEF Keys, Encoders, Layers
      <4> QED
        BY <4>1, List3, Zenon
    <3>2. d \in Seq(Effects)
      <4>1. <<"commit", "be", "determ">> \in Effects
        BY Members, EffectsAre DEF Encoders, Layers
      <4>2. << <<"commit", "be", "determ">> >> \in Seq(Effects)
        BY <4>1, List1, Zenon
      <4> QED
        BY <4>2
    <3> HIDE DEF b, d
    <3> QED
      BY <3>1, <3>2, Catenation, Zenon
  <2>3. e \in Effects /\ Gives(e, f)
    BY <1>1, Members, EffectsAre, Parts DEF Flags, Gives
  <2> DEFINE c == b \o d
  <2> HIDE DEF b, d, e, c
  <2>4. c \in Seq(Effects) /\ BmcInit = c \o <<e>>
    BY <2>1, <2>2 DEF c
  <2>5. Len(c) + 1 \in DOMAIN (c \o <<e>>) /\ (c \o <<e>>)[Len(c) + 1] = e
    BY <2>4
  <2> QED
    BY <2>3, <2>4, <2>5
<1> QED
  BY <1>1, <1>2

(* A single effect.                                                        *)
LEMMA SingleTame ==
  ASSUME NEW e \in Effects, NEW F, Right(e), ~Clears(e), NeededBy(e) \subseteq F,
         Early(e) => F \subseteq {"read_model"}
  PROVE  Tame(<<e>>, F)
<1>1. <<e>> \in Seq(Effects) /\ \A i \in DOMAIN <<e>> : <<e>>[i] = e /\ ~(\E j \in 1 .. i - 1 : TRUE)
  OBVIOUS
<1>2. Covered(<<e>>, F) /\ AllRight(<<e>>)
  BY <1>1 DEF Covered, AllRight
<1>3. Fresher(<<e>>, F)
  BY <1>1 DEF Fresher
<1> QED
  BY <1>1, <1>2, <1>3 DEF Tame, Orderly

(* The end of a CATCH needs nothing.                                       *)
LEMMA EndFits ==
  ASSUME NEW F, NEW h \in Catches \cup {"dispatch"}
  PROVE  /\ <<"end", h>> \in Effects /\ Quiet(<<"end", h>>)
         /\ h # "fill" => <<"end", h>> \in Fit(F)
         /\ (h = "fill" => F \subseteq {"read_model"}) => <<"end", h>> \in Calm(F)
         /\ ~Clears(<<"end", h>>)
<1> DEFINE e == <<"end", h>>
<1>1. e \in Effects /\ e[1] = "end" /\ e[2] = h
  BY Parts DEF Effects, Pieces, Ends
<1> HIDE DEF e
<1>2. Right(e) /\ Quiet(e) /\ ~Clears(e) /\ NeededBy(e) = {}
  BY <1>1 DEF Right, Quiet, Clears, NeededBy
<1>3. h # "fill" => ~Early(e)
  BY <1>1 DEF Early
<1>4. h # "fill" => e \in Fit(F)
  BY <1>1, <1>2, <1>3 DEF Fit, Fits
<1>5. (h = "fill" => F \subseteq {"read_model"}) => e \in Calm(F)
  BY <1>1, <1>2, <1>3 DEF Calm
<1> QED
  BY <1>1, <1>2, <1>4, <1>5 DEF e

(* A list whose members are in T is a list over T.                         *)
LEMMA SeqOf ==
  ASSUME NEW S, NEW s \in Seq(S), NEW T, \A i \in DOMAIN s : s[i] \in T
  PROVE  s \in Seq(T)
<1>1. s \in [1 .. Len(s) -> S] /\ Len(s) \in Nat
  BY LenProperties
<1>2. s \in [1 .. Len(s) -> T]
  BY <1>1
<1> QED
  BY <1>1, <1>2, SeqDef

(* What a CATCH does.                                                      *)
LEMMA CatchIsTame ==
  ASSUME NEW e \in Effects, e[1] = "catch", Right(e), NEW F, NeededBy(e) \subseteq F,
         Early(e) => F \subseteq {"read_model"}
  PROVE  /\ Tame(e[3] \o << <<"end", e[2]>> >>, F)
         /\ \/ ~Quiet(e)
            \/ \A i \in DOMAIN (e[3] \o << <<"end", e[2]>> >>) :
                 Quiet((e[3] \o << <<"end", e[2]>> >>)[i])
<1> DEFINE h == e[2]
           d == <<"end", h>>
<1>1. h \in Catches /\ e[3] \in Seq(Straight \cup Leaks) /\ e[3] = CatchBody(h)
  BY Kinds DEF Right
<1>2. Straight \cup Leaks \subseteq Effects
  BY DEF Effects, Pieces, Code
<1>3. e[3] \in Seq(Effects)
  BY <1>1, <1>2, SeqMonotonic
<1>4. /\ d \in Effects /\ Quiet(d) /\ (h # "fill" => d \in Fit(F))
      /\ ((h = "fill" => F \subseteq {"read_model"}) => d \in Calm(F)) /\ ~Clears(d)
  BY <1>1, EndFits
<1> HIDE DEF d
<1>5. CASE h \in {"hierarchy", "boolean_fsm", "fill", "print_reachable_states"}
  <2> DEFINE K == {x \in Calm(F) : ~Clears(x)}
             b == e[3]
  <2>1. \A i \in DOMAIN b : b[i][1] \in Neutral
    <3>1. h = "fill" => \A i \in DOMAIN b : b[i] = <<"new property">> \/ b[i] = CanThrow
      <4>1. h = "fill" => b = << <<"new property">>, CanThrow>>
        BY <1>1 DEF CatchBody
      <4> HIDE DEF b
      <4>2. ASSUME NEW x, NEW y, b = <<x, y>>
            PROVE  \A i \in DOMAIN b : b[i] = x \/ b[i] = y
        BY <4>2
      <4> QED
        BY <4>1, <4>2, Zenon
    <3>2. h = "print_reachable_states" =>
            \A i \in DOMAIN b : b[i] = <<"may return in catch">> \/ b[i] = <<"get", "bdd_fsm">>
      <4> DEFINE u == <<"may return in catch">>
                 v == <<"get", "bdd_fsm">>
      <4>1. h = "print_reachable_states" => b = <<u, v>>
        BY <1>1 DEF CatchBody
      <4> HIDE DEF b, u, v
      <4>2. h = "print_reachable_states" => \A i \in DOMAIN b : b[i] = u \/ b[i] = v
        BY <4>1
      <4> QED
        BY <4>2 DEF u, v
    <3>3. h \in {"hierarchy", "boolean_fsm"} => \A i \in DOMAIN b : b[i] = CanThrow
      <4>1. h \in {"hierarchy", "boolean_fsm"} => b = <<CanThrow>>
        BY <1>1 DEF CatchBody
      <4> HIDE DEF b
      <4>2. ASSUME NEW x, b = <<x>>
            PROVE  \A i \in DOMAIN b : b[i] = x
        BY <4>2
      <4> QED
        BY <4>1, <4>2, Zenon
    <3>4. /\ <<"new property">>[1] \in Neutral /\ CanThrow[1] \in Neutral
          /\ <<"may return in catch">>[1] \in Neutral /\ <<"get", "bdd_fsm">>[1] \in Neutral
      BY Kind1, Parts DEF Neutral, CanThrow
    <3> HIDE DEF b
    <3> QED
      BY <1>5, <3>1, <3>2, <3>3, <3>4
  <2>2. \A x \in Effects : x[1] \in Neutral => x \in K
    BY NeutralFits, CalmEffects DEF Fits
  <2>3. \A i \in DOMAIN b : b[i] \in K
    BY <1>3, <2>1, <2>2
  <2>4. b \in Seq(K)
    <3> HIDE DEF K, b
    <3> QED
      BY <1>3, <2>3, SeqOf DEF b
  <2>5. d \in K
    <3>1. h = "fill" => F \subseteq {"read_model"}
      BY DEF Early
    <3> QED
      BY <1>4, <3>1
  <2> DEFINE c == b \o <<d>>
  <2>6. c \in Seq(K)
    <3> HIDE DEF K, b
    <3> QED
      BY <2>4, <2>5, List1, Catenation, Zenon
  <2>7. K \subseteq Calm(F) /\ \A x \in K : ~Clears(x)
    OBVIOUS
  <2> HIDE DEF K, c
  <2>8. c \in Seq(Calm(F)) /\ \A i \in DOMAIN c : c[i] \in K
    BY <2>6, <2>7, SeqMonotonic
  <2>9. Orderly(c, F) /\ c \in Seq(Effects) /\ \A i \in DOMAIN c : Quiet(c[i])
    BY <2>8, CalmList, Zenon
  <2>10. Tame(c, F)
    BY <2>7, <2>8, <2>9 DEF Tame
  <2> QED
    BY <2>9, <2>10 DEF c, d
<1>6. CASE h = "build_model"
  <2> DEFINE b == e[3]
  <2>1. "flatten_hrc" \in F /\ "encode_variables" \in F
    BY <1>6 DEF NeededBy
  <2>2. b \in Seq(Fit(F))
    <3>1. Do("flat_model_if_none") \in Fit(F)
      BY <2>1, CallFits
    <3>2. /\ <<"get", "sexp_fsm">> \in Fit(F) /\ <<"lazy commit", "model">> \in Fit(F)
          /\ <<"put", "bdd_fsm">> \in Fit(F)
      BY NeutralMembers DEF Keys, Layers
    <3>3. CanThrow \in Fit(F)
      BY AloneFits
    <3>4. <<"set", "build_model">> \in Fit(F)
      BY <2>1, SetFits DEF Flags, NeededPhases
    <3>5. b = <<Do("flat_model_if_none"), <<"get", "sexp_fsm">>, <<"lazy commit", "model">>,
                CanThrow, <<"put", "bdd_fsm">>, <<"set", "build_model">> >>
      BY <1>1, <1>6 DEF CatchBody
    <3> HIDE DEF b
    <3> QED
      BY <3>1, <3>2, <3>3, <3>4, <3>5, List6, Zenon
  <2>3. d \in Fit(F)
    BY <1>4, <1>6
  <2>4. b \o <<d>> \in Seq(Fit(F))
    <3> HIDE DEF b
    <3> QED
      BY <2>2, <2>3, List1, Catenation, Zenon
  <2>5. ~Quiet(e)
    BY <1>6 DEF Quiet
  <2> QED
    BY <2>4, <2>5, TameFit DEF d
<1>7. CASE h = "flatten_hierarchy"
  <2> DEFINE x == Do("flatten_smv")
  <2>1. "read_model" \in F /\ F \subseteq {"read_model"}
    BY <1>7 DEF NeededBy, Early
  <2>2. e[3] = <<x>>
    BY <1>1, <1>7 DEF CatchBody
  <2>3. x \in Effects /\ x[1] = "do" /\ x[2] = "flatten_smv"
    BY Members, EffectsAre, Parts DEF Procs, Do
  <2> HIDE DEF x
  <2>4. Right(x) /\ ~Clears(x) /\ NeededBy(x) \subseteq F
    BY <2>1, <2>3 DEF Right, Clears, NeededBy
  <2>5. Tame(<<x>>, F)
    BY <2>1, <2>3, <2>4, SingleTame
  <2>6. <<d>> \in Seq(Fit(F))
    <3>1. d \in Fit(F)
      BY <1>4, <1>7
    <3> QED
      BY <3>1, List1, Zenon
  <2>7. Tame(<<x>> \o <<d>>, F)
    BY <2>5, <2>6, TameThenFit
  <2>8. ~Quiet(e)
    BY <1>7 DEF Quiet
  <2> QED
    BY <2>2, <2>7, <2>8 DEF d
<1> QED
  BY <1>1, <1>5, <1>6, <1>7 DEF Catches, Leaky

(***************************************************************************)
(* The invariant, and its steps.                                           *)
(***************************************************************************)
PhInv == Closed(flags) /\ Orderly(todo, flags)

(* With nothing left to do all is in order.                                *)
LEMMA NothingOrderly == ASSUME NEW F PROVE Orderly(<<>>, F)
BY DEF Orderly, Covered, Fresher, AllRight

(* An error, a return from inside or an interrupt leaves an orderly list.  *)
LEMMA JumpOrderly ==
  ASSUME NEW s \in Seq(Effects), Guarded(s), Fresher(s, flags), AllRight(s), Jump(s)
  PROVE  Orderly(todo', flags)
<1>1. CASE Buffers(s) = 0
  <2>1. todo' = <<>>
    BY <1>1 DEF Jump
  <2> QED
    BY <2>1, NothingOrderly
<1>2. CASE Buffers(s) # 0
  <2> DEFINE n == CHOOSE i \in DOMAIN s : IsEnd(s[i]) /\ \A j \in 1 .. i - 1 : ~IsEnd(s[j])
             t == SubSeq(s, n + 1, Len(s))
             h == s[n][2]
  <2>1. todo' = Handler(h) \o t
    BY <1>2 DEF Jump
  <2>2. PICK m : m = n
    OBVIOUS
  <2>3. m \in DOMAIN s /\ IsEnd(s[m]) /\ s[m] \in Effects /\ SubSeq(s, m + 1, Len(s)) \in Seq(Effects)
    BY <1>2, <2>2, FirstEnd
  <2>4. Fresher(SubSeq(s, m + 1, Len(s)), flags) /\ AllRight(SubSeq(s, m + 1, Len(s)))
    BY <2>3, FresherSuffix
  <2>5. s[m][1] = "end" /\ s[m][2] \in Catches \cup {"dispatch"}
    BY <2>3, Kinds DEF IsEnd
  <2>6. s[m][2] = "fill" => flags \subseteq {"read_model"}
    <3>1. s[m][2] = "fill" => Early(s[m])
      BY <2>5 DEF Early
    <3> QED
      BY <2>3, <3>1 DEF Fresher
  <2>7. /\ h \in Catches \cup {"dispatch"} /\ (h = "fill" => flags \subseteq {"read_model"})
        /\ t \in Seq(Effects) /\ Fresher(t, flags) /\ AllRight(t)
    BY <2>2, <2>3, <2>4, <2>5, <2>6
  <2> HIDE DEF n, t, h
  <2> DEFINE b == Handler(h)
  <2>8. b \in Seq(Calm(flags)) /\ \E j \in DOMAIN b : Leaves(b[j])
    BY <2>7, HandlerIsCalm
  <2> HIDE DEF b
  <2>9. Orderly(b, flags) /\ b \in Seq(Effects) /\ \A i \in DOMAIN b : Quiet(b[i])
    BY <2>8, CalmList
  <2>10. Orderly(b \o t, flags)
    BY <2>7, <2>8, <2>9, OrderlyCat
  <2> QED
    BY <2>1, <2>10 DEF b
<1> QED
  BY <1>1, <1>2

(* A command is entered: it needs no flag and loses none, but for reset.   *)
LEMMA DispatchOrderly ==
  ASSUME NEW F, NEW c \in UserCommands, c \in Procs
  PROVE  /\ << Do(c), <<"end", "dispatch">> >> \in Seq(Effects)
         /\ Orderly(<< Do(c), <<"end", "dispatch">> >>, F)
         /\ c # "reset" => \A i \in DOMAIN << Do(c), <<"end", "dispatch">> >> :
                             ~Clears(<< Do(c), <<"end", "dispatch">> >>[i])
<1> DEFINE x == Do(c)
           d == <<"end", "dispatch">>
           b == <<x, d>>
<1>1. d \in Fit(F) /\ d \in Effects
  BY EndFits DEF Catches, Leaky
<1>2. x \in Effects /\ x[1] = "do" /\ x[2] = c
  BY Members, EffectsAre, Parts DEF Do
<1> HIDE DEF x, d
<1>3. NeededBy(x) = {} /\ ~Early(x) /\ Right(x)
  BY <1>2 DEF NeededBy, Early, Right, UserCommands
<1>4. c # "reset" => ~Clears(x)
  BY <1>2 DEF Clears
<1>5. NeededBy(d) \subseteq F /\ ~Early(d) /\ Right(d) /\ ~Clears(d) /\ (d[1] = "end" => NeededBy(d) = {})
  BY <1>1 DEF Fit, Fits, NeededBy
<1>6. d[1] = "end"
  BY Parts DEF d
<1>7. /\ b \in Seq(Effects) /\ DOMAIN b = {1, 2} /\ b[1] = x /\ b[2] = d
  BY <1>1, <1>2
<1> HIDE DEF b
<1>8. \A i \in DOMAIN b : NeededBy(b[i]) = {} /\ ~Early(b[i]) /\ Right(b[i])
  BY <1>3, <1>5, <1>6, <1>7
<1>9. Orderly(b, F)
  BY <1>8 DEF Orderly, Covered, Fresher, AllRight
<1>10. c # "reset" => \A i \in DOMAIN b : ~Clears(b[i])
  BY <1>4, <1>5, <1>7
<1> QED
  BY <1>7, <1>9, <1>10 DEF b, d, x

(* A step of a command keeps it.                                           *)
LEMMA PhInvStep ==
  ASSUME SessInv, PhInv, todo # <<>>, Step
  PROVE  PhInv' /\ (flags' = flags \/ P!Next)
<1>0. /\ todo \in Seq(Effects) /\ Guarded(todo) /\ Effect \in Effects /\ Effect = todo[1]
      /\ Rest \in Seq(Effects) /\ Guarded(Rest) /\ Rest = Tail(todo)
      /\ flags \subseteq Flags
  BY Running DEF SessInv, Stacked, DataOK, Effect, Rest
<1>1. /\ Closed(flags) /\ Orderly(todo, flags) /\ Covered(todo, flags) /\ Fresher(todo, flags)
      /\ AllRight(todo)
  BY DEF PhInv, Orderly
<1>2. /\ NeededBy(Effect) \subseteq flags /\ Right(Effect)
      /\ Early(Effect) => flags \subseteq {"read_model"}
  BY <1>0, <1>1, HeadIs

(* The conclusion, when the flags stay as they are.                        *)
<1>3. ASSUME flags' = flags, Orderly(todo', flags)
      PROVE  PhInv' /\ (flags' = flags \/ P!Next)
  BY <1>1, <1>3 DEF PhInv, Closed, Orderly, Covered, Fresher, AllRight
<1>4. ASSUME flags' = flags, todo' = <<>>
      PROVE  PhInv' /\ (flags' = flags \/ P!Next)
  BY <1>3, <1>4, NothingOrderly
<1>5. ASSUME flags' = flags, todo' = Rest, Kind \notin {"set", "do", "return 1", "throw"}
      PROVE  PhInv' /\ (flags' = flags \/ P!Next)
  <2>1. ~Leaves(Effect) /\ \A f : ~Gives(Effect, f)
    BY <1>5 DEF Leaves, Gives, Kind
  <2>2. Orderly(Rest, flags)
    BY <1>0, <1>1, <2>1, RestOrderly
  <2> QED
    BY <1>3, <1>5, <2>2
<1>6. CASE CallFunction
  <2>1. flags' = flags /\ Kind = "do"
    BY <1>6 DEF CallFunction, dataVars
  <2>2. CASE "cmps" \notin env
    BY <1>4, <1>6, <2>1, <2>2 DEF CallFunction
  <2>3. CASE "cmps" \in env
    <3>1. todo' = Body(On) \o Rest
      BY <1>6, <2>3 DEF CallFunction
    <3>2. Effect \in Simple /\ Effect[1] = "do" /\ Effect[2] = On
      BY <1>0, <2>1, Kinds DEF Kind, On
    <3>3. On \in Procs
      BY <3>2, SimpleKinds
    <3>4. Do(On)[1] = Effect[1] /\ Do(On)[2] = Effect[2]
      BY <3>2, Parts DEF Do
    <3>5. NeededBy(Do(On)) = NeededBy(Effect) /\ (Early(Do(On)) <=> Early(Effect))
      BY <3>2, <3>4 DEF NeededBy, Early
    <3>6. /\ Orderly(Body(On), flags) /\ Body(On) \in Seq(Effects)
          /\ On # "reset" => \A i \in DOMAIN Body(On) : ~Clears(Body(On)[i])
      BY <1>0, <1>1, <1>2, <3>3, <3>5, BodyIsTame
    <3>7. ~Leaves(Effect) /\ ~Quiet(Effect) /\ (On = "reset" => Clears(Effect))
      BY <3>2 DEF Leaves, Quiet, Clears
    <3>8. ASSUME NEW f, Gives(Effect, f)
          PROVE  f \in flags \/ \E j \in DOMAIN Body(On) : Gives(Body(On)[j], f)
      <4>1. On = "Bmc_Init" /\ f = "bmc_init"
        BY <3>2, <3>8 DEF Gives
      <4>2. Gives(Do("Bmc_Init"), f)
        BY <4>1, Parts DEF Gives, Do
      <4>3. Body(On) = BmcInit
        BY <4>1 DEF Body
      <4> QED
        BY <4>2, <4>3, BmcInitGives
    <3>9. \/ Clears(Effect)
          \/ /\ \A i \in DOMAIN Body(On) : ~Clears(Body(On)[i])
             /\ \A f : Gives(Effect, f) => f \in flags \/ \E j \in DOMAIN Body(On) : Gives(Body(On)[j], f)
      BY <3>6, <3>7, <3>8
    <3> DEFINE b == Body(On)
    <3>10. /\ Orderly(b, flags) /\ b \in Seq(Effects)
           /\ \/ Clears(Effect)
              \/ /\ \A i \in DOMAIN b : ~Clears(b[i])
                 /\ \A f : Gives(Effect, f) => f \in flags \/ \E j \in DOMAIN b : Gives(b[j], f)
      BY <3>6, <3>9
    <3> HIDE DEF b
    <3>11. Orderly(b \o Tail(todo), flags)
      BY <1>0, <1>1, <3>7, <3>10, PutOrderly
    <3>12. Orderly(todo', flags)
      BY <1>0, <3>1, <3>11 DEF b
    <3> QED
      BY <1>3, <2>1, <3>12
  <2> QED
    BY <2>2, <2>3
<1>7. CASE Subcommand
  <2>1. flags' = flags /\ Kind = "unless"
    BY <1>7 DEF Subcommand, Dispatch, dataVars
  <2>2. CASE todo' = Rest
    BY <1>5, <2>1, <2>2
  <2>3. CASE todo' = <<>>
    BY <1>4, <2>1, <2>3
  <2>4. CASE todo' = << Do(Effect[3]), <<"end", "dispatch">> >> \o Rest
    <3>1. Effect \in Simple /\ Effect[1] = "unless"
      BY <1>0, <2>1, Kinds DEF Kind
    <3>2. Effect[3] \in UserCommands /\ Effect[3] \in Procs /\ Effect[3] # "reset"
      BY <1>2, <3>1, SimpleKinds DEF Right, Procs, Given
    <3>3. ~Leaves(Effect) /\ ~Quiet(Effect) /\ \A f : ~Gives(Effect, f)
      BY <3>1 DEF Leaves, Quiet, Gives
    <3> DEFINE b == << Do(Effect[3]), <<"end", "dispatch">> >>
    <3>4. b \in Seq(Effects) /\ Orderly(b, flags) /\ \A i \in DOMAIN b : ~Clears(b[i])
      BY <3>2, DispatchOrderly
    <3> HIDE DEF b
    <3>5. Orderly(b \o Tail(todo), flags)
      BY <1>0, <1>1, <3>3, <3>4, PutOrderly
    <3>6. Orderly(todo', flags)
      BY <1>0, <2>4, <3>5 DEF b
    <3> QED
      BY <1>3, <2>1, <3>6
  <2> QED
    BY <1>7, <2>2, <2>3, <2>4 DEF Subcommand, Dispatch
<1>8. CASE EnterCatch
  <2>1. flags' = flags /\ Kind = "catch"
    BY <1>8 DEF EnterCatch, dataVars
  <2>2. CASE todo' = <<>>
    BY <1>4, <2>1, <2>2
  <2>3. CASE todo' = Effect[3] \o << <<"end", On>> >> \o Rest
    <3> DEFINE b == Effect[3] \o << <<"end", Effect[2]>> >>
    <3>1. Effect[1] = "catch"
      BY <2>1 DEF Kind
    <3>2. Tame(b, flags) /\ (~Quiet(Effect) \/ \A i \in DOMAIN b : Quiet(b[i]))
      BY <1>0, <1>2, <3>1, CatchIsTame
    <3>3. ~Leaves(Effect) /\ \A f : ~Gives(Effect, f)
      BY <3>1 DEF Leaves, Gives
    <3>4. todo' = b \o Tail(todo)
      BY <1>0, <2>3 DEF On
    <3> HIDE DEF b
    <3>5. b \in Seq(Effects) /\ Orderly(b, flags) /\ \A i \in DOMAIN b : ~Clears(b[i])
      BY <3>2 DEF Tame
    <3>6. Orderly(b \o Tail(todo), flags)
      BY <1>0, <1>1, <3>2, <3>3, <3>5, PutOrderly
    <3> QED
      BY <1>3, <2>1, <3>4, <3>6
  <2> QED
    BY <1>8, <2>2, <2>3 DEF EnterCatch
<1>9. CASE GoesOn
  <2>1. flags' = flags /\ Kind \in {"can throw", "may", "may return in catch"}
    BY <1>9 DEF GoesOn, dataVars
  <2>2. CASE Kind # "may"
    BY <1>5, <1>9, <2>1, <2>2 DEF GoesOn
  <2>3. CASE Kind = "may"
    <3>1. todo' = <<On>> \o Rest
      BY <1>9, <2>3 DEF GoesOn
    <3>2. /\ Effect[1] = "may" /\ On = Effect[2] /\ On \in Simple /\ On \in Effects
          /\ On[1] \in {"set", "remove", "commit", "verdict"}
      BY <1>0, <1>2, <2>3, Kinds, EffectsAre DEF Kind, On, Right
    <3>3. /\ NeededBy(On) \subseteq flags
          /\ ~Early(On) /\ ~Clears(On) /\ Right(On)
      BY <1>2, <3>2 DEF NeededBy, Early, Clears, Right
    <3>4. ~Leaves(Effect) /\ \A f : ~Gives(Effect, f)
      BY <3>2 DEF Leaves, Gives
    <3>5. Quiet(On) \/ ~Quiet(Effect)
      BY <3>2 DEF Quiet
    <3> DEFINE b == <<On>>
    <3>6. Tame(b, flags)
      BY <3>2, <3>3, SingleTame
    <3>7. (\A i \in DOMAIN b : Quiet(b[i])) \/ ~Quiet(Effect)
      BY <3>5
    <3> HIDE DEF b
    <3>8. b \in Seq(Effects) /\ Orderly(b, flags) /\ \A i \in DOMAIN b : ~Clears(b[i])
      BY <3>6 DEF Tame
    <3>9. Orderly(b \o Tail(todo), flags)
      BY <1>0, <1>1, <3>4, <3>7, <3>8, PutOrderly
    <3>10. Orderly(todo', flags)
      BY <1>0, <3>1, <3>9 DEF b
    <3> QED
      BY <1>3, <2>1, <3>10
  <2> QED
    BY <2>2, <2>3
<1>10. CASE Throws
  <2>1. flags' = flags /\ Jump(Rest)
    BY <1>10 DEF Throws, dataVars
  <2>2. Fresher(Rest, flags)
    BY <1>0, <1>1, FresherTail
  <2>3. AllRight(Rest)
    <3>1. \A k \in DOMAIN Tail(todo) : \E i \in DOMAIN todo : Tail(todo)[k] = todo[i]
      BY <1>0, TailIs
    <3> QED
      BY <1>0, <1>1, <3>1 DEF AllRight
  <2>4. Orderly(todo', flags)
    BY <1>0, <2>1, <2>2, <2>3, JumpOrderly
  <2> QED
    BY <1>3, <2>1, <2>4
<1>11. CASE SetFlag
  <2>1. Kind \in {"set", "unset"} /\ Effect[1] = Kind /\ Effect[2] = On
    BY <1>11 DEF SetFlag, Kind, On
  <2>2. CASE "cmps" \notin env
    <3>1. todo' = <<>> /\ flags' = flags
      BY <1>11, <2>2 DEF SetFlag, Assert
    <3> QED
      BY <1>4, <3>1
  <2>3. CASE "cmps" \in env /\ Kind = "set"
    <3>1. todo' = Rest /\ flags' = flags \cup {On}
      BY <1>11, <2>3 DEF SetFlag, Assert
    <3>2. Effect \in Simple
      BY <1>0, <2>1, Kinds
    <3>3. On \in Flags
      BY <2>1, <3>2, SimpleKinds
    <3>4. NeededPhases[On] \subseteq flags
      BY <1>2, <2>1, <2>3 DEF NeededBy
    <3>5. Closed(flags \cup {On})
      BY <1>1, <3>4 DEF Closed
    <3>6. ~Leaves(Effect) /\ ~Quiet(Effect) /\ \A f : Gives(Effect, f) => f = On
      BY <2>1, <2>3 DEF Leaves, Quiet, Gives
    <3>7. Orderly(Tail(todo), flags \cup {On})
      BY <1>0, <1>1, <3>6, RestOrderly
    <3>8. PhInv'
      BY <1>0, <3>1, <3>5, <3>7 DEF PhInv, Closed, Orderly, Covered, Fresher, AllRight
    <3>9. P!Perform(On)
      BY <3>1, <3>4 DEF P!Perform
    <3> QED
      BY <3>3, <3>8, <3>9 DEF P!Next
  <2>4. CASE "cmps" \in env /\ Kind = "unset"
    <3>1. todo' = Rest /\ flags' = flags \ {On}
      BY <1>11, <2>4 DEF SetFlag, Assert
    <3>2. On \in {"read_model", "bmc_init"}
      BY <1>2, <2>1, <2>4 DEF Right
    <3>3. On = "read_model" => flags \subseteq {"read_model"}
      BY <1>2, <2>1, <2>4 DEF Early
    <3>4. Closed(flags \ {On})
      <4>1. CASE On = "read_model"
        BY <3>3, <4>1 DEF Closed
      <4>2. CASE On = "bmc_init"
        BY <1>1, <4>2 DEF Closed
      <4> QED
        BY <3>2, <4>1, <4>2
    <3>5. ~Leaves(Effect) /\ Clears(Effect)
      BY <2>1, <2>4 DEF Leaves, Clears
    <3>6. Orderly(Tail(todo), flags \ {On})
      BY <1>0, <1>1, <3>5, RestOrderly
    <3>7. PhInv'
      BY <1>0, <3>1, <3>4, <3>6 DEF PhInv, Closed, Orderly, Covered, Fresher, AllRight
    <3>8. P!Discard \/ P!Quit
      BY <3>1, <3>2, <3>3 DEF P!Discard, P!Quit
    <3> QED
      BY <3>7, <3>8 DEF P!Next
  <2> QED
    BY <2>1, <2>2, <2>3, <2>4
<1>12. CASE Compiler
  <2>1. todo' = Rest /\ flags' = {} /\ Kind \in {"quit compiler", "init compiler"}
    BY <1>12 DEF Compiler
  <2>2. ~Leaves(Effect) /\ Clears(Effect)
    BY <2>1 DEF Leaves, Clears, Kind
  <2>3. Orderly(Tail(todo), {})
    BY <1>0, <1>1, <2>2, RestOrderly
  <2>4. PhInv'
    BY <1>0, <2>1, <2>3 DEF PhInv, Closed, Orderly, Covered, Fresher, AllRight
  <2>5. P!Quit
    BY <2>1 DEF P!Quit
  <2> QED
    BY <2>4, <2>5 DEF P!Next
<1>13. CASE LeaveCatch \/ SkipsEffect \/ Returns
  <2>1. flags' = flags
    BY <1>13 DEF LeaveCatch, SkipsEffect, Returns, dataVars
  <2>2. Returns => todo' = <<>>
    BY DEF Returns
  <2>3. LeaveCatch \/ SkipsEffect => todo' = Rest /\ Kind \notin {"set", "do", "return 1", "throw"}
    BY DEF LeaveCatch, SkipsEffect
  <2> QED
    BY <1>4, <1>5, <1>13, <2>1, <2>2, <2>3
<1>14. CASE ReadEnv \/ PutEnv \/ RemoveEnv \/ CreateLayer \/ DropLayer
  <2>1. flags' = flags /\ (todo' = Rest \/ todo' = <<>>)
    BY <1>14 DEF ReadEnv, PutEnv, RemoveEnv, CreateLayer, DropLayer, Assert, dataVars
  <2>2. Kind \notin {"set", "do", "return 1", "throw"}
    BY <1>14 DEF ReadEnv, PutEnv, RemoveEnv, CreateLayer, DropLayer
  <2> QED
    BY <1>4, <1>5, <2>1, <2>2
<1>15. CASE CommitLayer \/ LazyCommit \/ DestroyEncoder \/ BuildBeFsm \/ ChangeProperty \/ CheckMachine
  <2>1. flags' = flags /\ (todo' = Rest \/ todo' = <<>>)
    BY <1>15 DEF CommitLayer, LazyCommit, DestroyEncoder, BuildBeFsm, ChangeProperty, CheckMachine,
       Assert, dataVars
  <2>2. Kind \notin {"set", "do", "return 1", "throw"}
    BY <1>15, KindsOfActions
  <2> QED
    BY <1>4, <1>5, <2>1, <2>2
<1> QED
  BY <1>6, <1>7, <1>8, <1>9, <1>10, <1>11, <1>12, <1>13, <1>14, <1>15 DEF Step

(* The invariant is inductive, and flags change only as Phases allows.     *)
LEMMA PhInvNext ==
  ASSUME SessInv, PhInv, [Next]_vars
  PROVE  PhInv' /\ (flags' = flags \/ P!Next)
<1>1. ASSUME flags' = flags, Orderly(todo', flags)
      PROVE  PhInv' /\ (flags' = flags \/ P!Next)
  BY <1>1 DEF PhInv, Closed, Orderly, Covered, Fresher, AllRight
<1>2. ASSUME NEW c \in Commands, Command(c)
      PROVE  PhInv' /\ (flags' = flags \/ P!Next)
  <2>1. flags' = flags
    BY <1>2 DEF Command, Dispatch, dataVars
  <2>2. CASE pos < MaxJmp
    <3>1. todo' = << Do(c), <<"end", "dispatch">> >> \o <<>>
      BY <1>2, <2>2 DEF Command, Dispatch
    <3>2. c \in UserCommands /\ c \in Procs
      BY CommandsAssumption DEF Procs, Given, Leaky
    <3> DEFINE b == << Do(c), <<"end", "dispatch">> >>
    <3>3. b \in Seq(Effects) /\ Orderly(b, flags)
      BY <3>2, DispatchOrderly
    <3> HIDE DEF b
    <3>4. todo' = b
      BY <3>1, <3>3 DEF b
    <3> QED
      BY <1>1, <2>1, <3>3, <3>4
  <2>3. CASE ~(pos < MaxJmp)
    <3>1. todo' = <<>>
      BY <1>2, <2>3 DEF Command, Dispatch
    <3> QED
      BY <1>1, <2>1, <3>1, NothingOrderly
  <2> QED
    BY <2>2, <2>3
<1>3. CASE SetCoi
  <2>1. todo' = todo /\ flags' = flags
    BY <1>3 DEF SetCoi
  <2> QED
    BY <1>1, <2>1 DEF PhInv
<1>4. CASE Step
  BY <1>4, PhInvStep DEF Step
<1>5. CASE Interrupt
  <2>1. /\ Jump(todo) /\ todo \in Seq(Effects) /\ Guarded(todo) /\ flags' = flags
    BY <1>5, Running DEF Interrupt, SessInv, Stacked, dataVars
  <2>2. Orderly(todo', flags)
    BY <2>1, JumpOrderly DEF PhInv, Orderly
  <2> QED
    BY <1>1, <2>1, <2>2
<1>6. CASE UNCHANGED vars
  <2>1. todo' = todo /\ flags' = flags
    BY <1>6 DEF vars
  <2> QED
    BY <1>1, <2>1 DEF PhInv
<1> QED
  BY <1>2, <1>3, <1>4, <1>5, <1>6 DEF Next

(* The flags of cmps keep the order of the phases: each is set only after  *)
(* those it needs, whatever commands, errors and interrupts came before,   *)
(* and they are forgotten only when the system quits or the hierarchy that *)
(* was read does not flatten.                                              *)
THEOREM PhasesCorrect == Spec => PhasesSpec
<1>1. Init => P!Init /\ PhInv
  BY NothingOrderly DEF Init, P!Init, PhInv, Closed
<1>2. SessInv /\ PhInv /\ [Next]_vars => PhInv' /\ [P!Next]_flags
  BY PhInvNext
<1> QED
  BY <1>1, <1>2, SessionInvariant, PTL DEF Spec, PhasesSpec, P!Spec
=============================================================================
