--------------------------- MODULE Promises_proofs ---------------------------
(* Proofs that the flags of a session keep their promises: while no warning *)
(* was given, the objects and the layers that a flag stands for exist.     *)
EXTENDS Phases_proofs

(***************************************************************************)
(* Facts: objects that are in the environment, layers that exist, layers   *)
(* that are committed to an encoder.                                       *)
(***************************************************************************)
Names == ({"env"} \X (Keys \ {"hrc"})) \cup ({"layer"} \X Layers) \cup (Encoders \X Layers)

Holds(f) == \/ f[1] = "env" /\ f[2] \in env
            \/ f[1] = "layer" /\ f[2] \in layers
            \/ f[1] \in Encoders /\ f[2] \in committed[f[1]]
Facts == {f \in Names : Holds(f)}

(* The facts a flag stands for.                                            *)
Promised ==
  [read_model |-> {}, hrc_built |-> {<<"env", "flat_hierarchy">>},
   flatten_hrc |-> {<<"env", "flat_hierarchy">>, <<"env", "flattener">>, <<"layer", "model">>},
   encode_variables |-> {<<"env", "bool_enc">>, <<"env", "bdd_enc">>, <<"bool", "model">>},
   build_flat_model |-> {<<"env", "sexp_fsm">>},
   build_model |-> {<<"env", "bdd_fsm">>, <<"env", "sexp_fsm">>, <<"bdd", "model">>},
   build_bool_model |-> {<<"env", "bool_fsm">>, <<"env", "sexp_fsm">>, <<"bool", "determ">>,
                         <<"bdd", "determ">>},
   bmc_init |-> {<<"env", "be_enc">>, <<"be", "model">>},
   bmc_setup |-> {<<"env", "be_fsm">>, <<"be", "determ">>}]

(* The facts a function relies on without a look at the flags.             *)
CallWants(p) ==
  IF p = "apply_coi_for_bdd" THEN {<<"layer", "model">>}
  ELSE IF p \in {"apply_coi_for_bmc", "rewriter", "create_boolean_model"}
  THEN {<<"env", "bool_enc">>}
  ELSE {}

(* The facts that must hold when an effect is done, for what is promised   *)
(* to hold after it.  What the effect asserts is not among them.           *)
SimpleWants(e) ==
  IF e[1] = "set" THEN Promised[e[2]]
  ELSE IF e[1] = "commit" THEN {<<"env", EncoderKey[e[2]]>>}
  ELSE IF e[1] = "lazy commit" THEN {<<"env", "bdd_enc">>, <<"layer", e[2]>>}
  ELSE IF e[1] = "own" /\ e[2] = "bool" THEN {<<x, "determ_p">> : x \in Encoders}
  ELSE IF e[1] = "do" THEN CallWants(e[2])
  ELSE IF e[1] = "catch" /\ e[2] = "build_model"
  THEN {<<"env", "bdd_enc">>, <<"layer", "model">>}
  ELSE {}
Wants(e) == IF e[1] = "may" THEN SimpleWants(e[2]) ELSE SimpleWants(e)

(* The facts that hold when an effect has been done.                       *)
Yield(e) ==
  IF e[1] \in {"put", "replace", "ensure", "get"} /\ e[2] # "hrc" THEN {<<"env", e[2]>>}
  ELSE IF e[1] = "create" THEN {<<"layer", e[2]>>}
  ELSE IF e[1] = "commit" THEN {<<e[2], e[3]>>, <<"layer", e[3]>>}
  ELSE IF e[1] = "lazy commit" THEN {<<"bdd", e[2]>>}
  ELSE IF e[1] = "be fsm" THEN {<<"be", "model">>, <<"be", e[2]>>}
  ELSE {}

(* Facts may be lost.                                                      *)
Loses(e) == \/ e[1] \in {"drop layer", "destroy encoder", "quit compiler", "init compiler"}
            \/ e[1] = "remove" /\ e[2] # "hrc"
            \/ e[1] = "do" /\ e[2] = "reset"

(* Done only when a hierarchy does not flatten, before read_model is unset. *)
Undoes(e) == \/ e[1] = "drop layer" /\ e[2] = "model"
             \/ e[1] = "remove" /\ e[2] = "flattener"

(* Done only by a reset.                                                   *)
Wrecks(e) == \/ e[1] \in {"destroy encoder", "quit compiler"}
             \/ e[1] = "remove" /\ e[2] \notin {"hrc", "flattener"}

(* A reset may come of it.                                                 *)
Danger(e) == \/ e = Last
             \/ e[1] = "do" /\ e[2] \in {"reset", "flatten_hierarchy", "flatten_smv"}
             \/ e[1] = "catch" /\ e[2] \in {"flatten_hierarchy", "hierarchy"}
             \/ e[1] = "end" /\ e[2] = "hierarchy"

(* It runs commands.                                                       *)
Opens(e) == \/ e[1] = "unless"
            \/ e[1] = "do" /\ e[2] \in {"go", "go_bmc"}

Proper(e) == e[1] = "may" /\ e[2][1] = "remove" => e[2][2] = "hrc"

(***************************************************************************)
(* Lists of effects.                                                       *)
(***************************************************************************)

(* What is wanted holds, or an effect before has made it so.               *)
Supplied(s, F) ==
  \A i \in DOMAIN s : \A f \in Wants(s[i]) :
    (\E j \in 1 .. i - 1 : Leaves(s[j])) \/ f \in F \/ \E j \in 1 .. i - 1 : f \in Yield(s[j])

(* Nothing is wanted before the list is left.                              *)
Idle(s) == \A i \in DOMAIN s : Wants(s[i]) # {} => \E j \in 1 .. i - 1 : Leaves(s[j])

(* Nothing is wanted between a loss and a leave.                           *)
Cut(s) == \A i \in DOMAIN s : \A j \in 1 .. i - 1 :
  Loses(s[j]) /\ Wants(s[i]) # {} => \E k \in j + 1 .. i - 1 : Leaves(s[k])
Closing(s) == \A i \in DOMAIN s : Loses(s[i]) => \E k \in DOMAIN s : k > i /\ Leaves(s[k])

Followed(s) == \A i \in DOMAIN s :
  /\ Undoes(s[i]) => \E j \in DOMAIN s : j > i /\ s[j] = <<"unset", "read_model">>
  /\ Wrecks(s[i]) => \E j \in DOMAIN s : j > i /\ s[j] = Last

(* No reset comes behind a command that another one runs.                  *)
Ordered(s) == \A i \in DOMAIN s : \A j \in 1 .. i - 1 : Opens(s[j]) => ~Danger(s[i])
Harmless(s) == \A i \in DOMAIN s : ~Danger(s[i])
Plain(s) == \A i \in DOMAIN s : ~Opens(s[i])

AllProper(s) == \A i \in DOMAIN s : Proper(s[i])

Safe(s) == Cut(s) /\ Followed(s) /\ Ordered(s) /\ AllProper(s)

(* The members of a catenation.                                            *)
LEMMA Places ==
  ASSUME NEW S, NEW b \in Seq(S), NEW t \in Seq(S)
  PROVE  /\ Len(b) \in Nat /\ Len(t) \in Nat /\ DOMAIN b = 1 .. Len(b) /\ DOMAIN t = 1 .. Len(t)
         /\ \A i \in DOMAIN b : i \in DOMAIN (b \o t) /\ (b \o t)[i] = b[i]
         /\ \A k \in DOMAIN t : k + Len(b) \in DOMAIN (b \o t) /\ (b \o t)[k + Len(b)] = t[k]
         /\ \A i \in DOMAIN (b \o t) : i \in DOMAIN b \/ \E k \in DOMAIN t : i = k + Len(b)
<1> DEFINE n == Len(b)
           l == Len(t)
           c == b \o t
<1>1. /\ n \in Nat /\ l \in Nat /\ DOMAIN b = 1 .. n /\ DOMAIN t = 1 .. l
      /\ DOMAIN c = 1 .. (n + l)
      /\ \A j \in 1 .. n : c[j] = b[j]
      /\ \A j \in 1 .. l : c[j + n] = t[j]
  BY Indices
<1> HIDE DEF n, l, c
<1>2. \A i \in 1 .. n : i \in DOMAIN c
  BY <1>1
<1>3. \A k \in 1 .. l : k + n \in DOMAIN c
  BY <1>1
<1>4. ASSUME NEW i \in DOMAIN c, i \notin 1 .. n
      PROVE  \E k \in 1 .. l : i = k + n
  <2>1. i - n \in 1 .. l /\ i = (i - n) + n
    BY <1>1, <1>4
  <2> QED
    BY <2>1
<1> QED
  BY <1>1, <1>2, <1>3, <1>4 DEF n, l, c

(* A list of which nothing is wanted is supplied.                          *)
LEMMA IdleIsSupplied ==
  ASSUME NEW s, Idle(s), NEW F
  PROVE  Supplied(s, F)
BY DEF Idle, Supplied

LEMMA MoreSupplied ==
  ASSUME NEW s, NEW F, Supplied(s, F), NEW G, F \subseteq G
  PROVE  Supplied(s, G)
BY DEF Supplied

LEMMA SuppliedCat ==
  ASSUME NEW S, NEW b \in Seq(S), NEW t \in Seq(S), NEW F, Supplied(b, F),
         \/ \E j \in DOMAIN b : Leaves(b[j])
         \/ Idle(t)
         \/ \E G : Supplied(t, G) /\ \A f \in G : f \in F \/ \E j \in DOMAIN b : f \in Yield(b[j])
  PROVE  Supplied(b \o t, F)
<1> SUFFICES ASSUME NEW i \in DOMAIN (b \o t), NEW f \in Wants((b \o t)[i])
             PROVE  \/ \E j \in 1 .. i - 1 : Leaves((b \o t)[j])
                    \/ f \in F \/ \E j \in 1 .. i - 1 : f \in Yield((b \o t)[j])
  BY DEF Supplied
<1> DEFINE Goal == \/ \E j \in 1 .. i - 1 : Leaves((b \o t)[j])
                   \/ f \in F \/ \E j \in 1 .. i - 1 : f \in Yield((b \o t)[j])
<1>1. Before(b, t, i) \/ \E k \in DOMAIN t : Behind(b, t, i, k)
  BY Positions, Zenon
<1>2. ASSUME Before(b, t, i) PROVE Goal
  <2>1. f \in Wants(b[i])
    BY <1>2, Zenon DEF Before
  <2>2. \/ \E j \in 1 .. i - 1 : Leaves(b[j])
        \/ f \in F \/ \E j \in 1 .. i - 1 : f \in Yield(b[j])
    BY <1>2, <2>1, Zenon DEF Before, Supplied
  <2> QED
    BY <1>2, <2>2, Zenon DEF Before
<1>3. ASSUME NEW k \in DOMAIN t, Behind(b, t, i, k) PROVE Goal
  <2>1. f \in Wants(t[k])
    BY <1>3, Zenon DEF Behind
  <2>2. CASE \E j \in DOMAIN b : Leaves(b[j])
    BY <1>3, <2>2, Zenon DEF Behind
  <2>3. CASE \E j \in 1 .. k - 1 : Leaves(t[j])
    BY <1>3, <2>3, Zenon DEF Behind
  <2>4. CASE Idle(t)
    <3>1. \E j \in 1 .. k - 1 : Leaves(t[j])
      BY <2>1, <2>4 DEF Idle
    <3> QED
      BY <2>3, <3>1, Zenon
  <2>5. CASE \E G : Supplied(t, G) /\ \A g \in G : g \in F \/ \E j \in DOMAIN b : g \in Yield(b[j])
    <3>1. PICK G : Supplied(t, G) /\ \A g \in G : g \in F \/ \E j \in DOMAIN b : g \in Yield(b[j])
      BY <2>5, Zenon
    <3>2. \/ \E j \in 1 .. k - 1 : Leaves(t[j])
          \/ f \in G \/ \E j \in 1 .. k - 1 : f \in Yield(t[j])
      BY <2>1, <3>1, Zenon DEF Supplied
    <3>3. ASSUME f \in G \/ \E j \in 1 .. k - 1 : f \in Yield(t[j])
          PROVE  f \in F \/ \E j \in 1 .. i - 1 : f \in Yield((b \o t)[j])
      <4>1. \/ f \in F \/ \E j \in DOMAIN b : f \in Yield(b[j])
            \/ \E j \in 1 .. k - 1 : f \in Yield(t[j])
        BY <3>1, <3>3, Zenon
      <4> QED
        BY <1>3, <4>1, Zenon DEF Behind
    <3> QED
      BY <2>3, <3>2, <3>3, Zenon
  <2> QED
    BY <2>2, <2>4, <2>5, Zenon
<1> QED
  BY <1>1, <1>2, <1>3, Zenon

(* The first effect has what it wants, and what is left is supplied again. *)
LEMMA SuppliedHead ==
  ASSUME NEW S, NEW s \in Seq(S), s # <<>>, NEW F, Supplied(s, F)
  PROVE  Wants(s[1]) \subseteq F
<1>1. 1 \in DOMAIN s /\ \A j \in 1 .. 1 - 1 : FALSE
  OBVIOUS
<1> QED
  BY <1>1, Zenon DEF Supplied

LEMMA SuppliedTail ==
  ASSUME NEW S, NEW s \in Seq(S), s # <<>>, NEW F, Supplied(s, F), ~Leaves(s[1]),
         NEW G, F \subseteq G, Yield(s[1]) \subseteq G
  PROVE  Supplied(Tail(s), G)
<1> SUFFICES ASSUME NEW k \in DOMAIN Tail(s), NEW f \in Wants(Tail(s)[k])
             PROVE  \/ \E m \in 1 .. k - 1 : Leaves(Tail(s)[m])
                    \/ f \in G \/ \E m \in 1 .. k - 1 : f \in Yield(Tail(s)[m])
  BY DEF Supplied
<1>1. PICK i \in DOMAIN s :
           /\ Tail(s)[k] = s[i] /\ 1 \in 1 .. i - 1
           /\ \A j \in 1 .. i - 1 : j = 1 \/ \E m \in 1 .. k - 1 : Tail(s)[m] = s[j]
           /\ \A m \in 1 .. k - 1 : \E j \in 1 .. i - 1 : Tail(s)[m] = s[j]
  BY TailIs
<1>2. \/ \E j \in 1 .. i - 1 : Leaves(s[j])
      \/ f \in F \/ \E j \in 1 .. i - 1 : f \in Yield(s[j])
  <2>1. f \in Wants(s[i])
    BY <1>1, Zenon
  <2> QED
    BY <2>1, Zenon DEF Supplied
<1>3. ASSUME NEW j \in 1 .. i - 1, Leaves(s[j])
      PROVE  \E m \in 1 .. k - 1 : Leaves(Tail(s)[m])
  BY <1>1, <1>3, Zenon
<1>4. ASSUME NEW j \in 1 .. i - 1, f \in Yield(s[j])
      PROVE  f \in G \/ \E m \in 1 .. k - 1 : f \in Yield(Tail(s)[m])
  <2>1. j = 1 \/ \E m \in 1 .. k - 1 : Tail(s)[m] = s[j]
    BY <1>1
  <2>2. CASE j = 1
    BY <1>4, <2>2
  <2>3. CASE \E m \in 1 .. k - 1 : Tail(s)[m] = s[j]
    BY <1>4, <2>3, Zenon
  <2> QED
    BY <2>1, <2>2, <2>3
<1> QED
  BY <1>2, <1>3, <1>4, Zenon

(* Behind a loss nothing is wanted.                                        *)
LEMMA IdleTail ==
  ASSUME NEW S, NEW s \in Seq(S), s # <<>>, Cut(s), Loses(s[1])
  PROVE  Idle(Tail(s))
<1>1. /\ Len(s) \in Nat /\ Len(s) >= 1 /\ DOMAIN s = 1 .. Len(s)
      /\ DOMAIN Tail(s) = 1 .. Len(s) - 1
      /\ \A m \in 1 .. Len(s) - 1 : Tail(s)[m] = s[m + 1]
  OBVIOUS
<1> SUFFICES ASSUME NEW k \in 1 .. Len(s) - 1, Wants(Tail(s)[k]) # {}
             PROVE  \E m \in 1 .. k - 1 : Leaves(Tail(s)[m])
  BY <1>1 DEF Idle
<1>2. k + 1 \in DOMAIN s /\ 1 \in 1 .. (k + 1) - 1 /\ Wants(s[k + 1]) # {}
  BY <1>1
<1>3. PICK j \in 1 + 1 .. (k + 1) - 1 : Leaves(s[j])
  BY <1>2 DEF Cut
<1>4. j - 1 \in 1 .. k - 1 /\ j - 1 \in 1 .. Len(s) - 1 /\ (j - 1) + 1 = j
  BY <1>1, <1>3
<1>5. Tail(s)[j - 1] = s[j]
  BY <1>1, <1>4
<1> QED
  BY <1>3, <1>4, <1>5

(* What is left of a safe list is safe.                                    *)
LEMMA SafeSuffix ==
  ASSUME NEW S, NEW s \in Seq(S), NEW n \in DOMAIN s, Safe(s)
  PROVE  Safe(SubSeq(s, n + 1, Len(s)))
<1> DEFINE t == SubSeq(s, n + 1, Len(s))
<1>1. /\ Len(s) \in Nat /\ n \in Nat /\ DOMAIN s = 1 .. Len(s)
      /\ DOMAIN t = 1 .. Len(s) - n
      /\ \A k \in 1 .. Len(s) - n : t[k] = s[n + k]
  OBVIOUS
<1> HIDE DEF t
<1>2. \A k \in DOMAIN t : k \in Nat /\ n + k \in DOMAIN s /\ t[k] = s[n + k]
  BY <1>1
<1>3. ASSUME NEW m \in DOMAIN s, NEW k \in DOMAIN t, m > n + k
      PROVE  m - n \in DOMAIN t /\ m - n > k /\ t[m - n] = s[m]
  <2>1. m - n \in 1 .. Len(s) - n /\ m - n > k /\ n + (m - n) = m
    BY <1>1, <1>2, <1>3
  <2> QED
    BY <1>1, <2>1
<1>4. \A k \in DOMAIN t : \A j \in 1 .. k - 1 : j \in DOMAIN t /\ n + j \in 1 .. (n + k) - 1
  BY <1>1
<1>5. AllProper(t)
  BY <1>2 DEF Safe, AllProper
<1>6. Ordered(t)
  <2> SUFFICES ASSUME NEW k \in DOMAIN t, NEW j \in 1 .. k - 1, Opens(t[j])
               PROVE  ~Danger(t[k])
    BY DEF Ordered
  <2>1. n + j \in 1 .. (n + k) - 1 /\ Opens(s[n + j]) /\ n + k \in DOMAIN s
    BY <1>2, <1>4
  <2> QED
    BY <1>2, <2>1 DEF Safe, Ordered
<1>7. Followed(t)
  <2> SUFFICES ASSUME NEW k \in DOMAIN t
               PROVE  /\ Undoes(t[k]) =>
                           \E j \in DOMAIN t : j > k /\ t[j] = <<"unset", "read_model">>
                      /\ Wrecks(t[k]) => \E j \in DOMAIN t : j > k /\ t[j] = Last
    BY DEF Followed
  <2>1. /\ Undoes(s[n + k]) =>
             \E j \in DOMAIN s : j > n + k /\ s[j] = <<"unset", "read_model">>
        /\ Wrecks(s[n + k]) => \E j \in DOMAIN s : j > n + k /\ s[j] = Last
    BY <1>2 DEF Safe, Followed
  <2>2. t[k] = s[n + k]
    BY <1>2
  <2> QED
    BY <1>3, <2>1, <2>2
<1>8. Cut(t)
  <2> SUFFICES ASSUME NEW k \in DOMAIN t, NEW j \in 1 .. k - 1, Loses(t[j]), Wants(t[k]) # {}
               PROVE  \E m \in j + 1 .. k - 1 : Leaves(t[m])
    BY DEF Cut
  <2>1. n + j \in 1 .. (n + k) - 1 /\ Loses(s[n + j]) /\ n + k \in DOMAIN s /\ Wants(s[n + k]) # {}
    BY <1>2, <1>4
  <2>2. PICK m \in (n + j) + 1 .. (n + k) - 1 : Leaves(s[m])
    BY <2>1 DEF Safe, Cut
  <2>3. m - n \in j + 1 .. k - 1 /\ m - n \in 1 .. Len(s) - n /\ n + (m - n) = m
    BY <1>1, <1>2, <2>2
  <2>4. t[m - n] = s[m]
    BY <1>1, <2>3
  <2> QED
    BY <2>2, <2>3, <2>4
<1> QED
  BY <1>5, <1>6, <1>7, <1>8 DEF Safe, t

LEMMA SafeTail ==
  ASSUME NEW s \in Seq(Effects), s # <<>>, Safe(s)
  PROVE  Safe(Tail(s))
<1>1. Tail(s) = SubSeq(s, 1 + 1, Len(s)) /\ 1 \in DOMAIN s
  BY TailIsSubSeq
<1> QED
  BY <1>1, SafeSuffix

(* Two safe lists, one behind the other.                                   *)
LEMMA SafeCat ==
  ASSUME NEW S, NEW b \in Seq(S), NEW t \in Seq(S), Safe(b), Safe(t),
         Closing(b) \/ Idle(t), Plain(b) \/ Harmless(t)
  PROVE  Safe(b \o t)
<1> DEFINE n == Len(b)
           l == Len(t)
           c == b \o t
<1>1. /\ n \in Nat /\ l \in Nat /\ DOMAIN b = 1 .. n /\ DOMAIN t = 1 .. l
      /\ DOMAIN c = 1 .. (n + l)
      /\ \A j \in 1 .. n : c[j] = b[j]
      /\ \A j \in 1 .. l : c[j + n] = t[j]
  BY Indices
<1> HIDE DEF n, l, c
<1>2. \A i \in DOMAIN c : i \in Nat /\ (i \in DOMAIN b \/ \E k \in DOMAIN t : i = k + n)
  <2>1. ASSUME NEW i \in 1 .. (n + l), i \notin 1 .. n
        PROVE  \E k \in 1 .. l : i = k + n
    <3>1. i - n \in 1 .. l /\ i = (i - n) + n
      BY <1>1, <2>1
    <3> QED
      BY <3>1
  <2>2. \A i \in 1 .. (n + l) : i \in Nat
    BY <1>1
  <2> QED
    BY <1>1, <2>1, <2>2
<1>3. ASSUME NEW i \in DOMAIN b
      PROVE  i \in DOMAIN c /\ c[i] = b[i] /\ i \in Nat /\ \A j \in 1 .. i - 1 : j \in DOMAIN b /\ c[j] = b[j]
  BY <1>1
<1>4. ASSUME NEW k \in DOMAIN t
      PROVE  /\ k + n \in DOMAIN c /\ c[k + n] = t[k] /\ k \in Nat
             /\ \A j \in DOMAIN b : j < k + n
             /\ \A j \in 1 .. (k + n) - 1 : j \in DOMAIN b \/ \E m \in 1 .. k - 1 : j = m + n
             /\ \A m \in 1 .. k - 1 : m \in DOMAIN t /\ m + n \in 1 .. (k + n) - 1
  <2>1. ASSUME NEW j \in 1 .. (k + n) - 1, j \notin 1 .. n
        PROVE  \E m \in 1 .. k - 1 : j = m + n
    <3>1. j - n \in 1 .. k - 1 /\ j = (j - n) + n
      BY <1>1, <2>1
    <3> QED
      BY <3>1
  <2> QED
    BY <1>1, <2>1
<1>5. AllProper(c)
  BY <1>2, <1>3, <1>4 DEF Safe, AllProper
<1>6. ASSUME NEW i \in DOMAIN c, NEW j \in 1 .. i - 1, Opens(c[j]), Danger(c[i])
      PROVE  FALSE
  <2>1. CASE i \in DOMAIN b
    <3>1. Opens(b[j]) /\ Danger(b[i])
      BY <1>3, <1>6, <2>1
    <3> QED
      BY <2>1, <3>1 DEF Safe, Ordered
  <2>2. ASSUME NEW k \in DOMAIN t, i = k + n PROVE FALSE
    <3>1. Danger(t[k])
      BY <1>4, <1>6, <2>2
    <3>2. CASE j \in DOMAIN b
      <4>1. Opens(b[j])
        BY <1>3, <1>6, <3>2
      <4> QED
        BY <2>2, <3>1, <3>2, <4>1 DEF Plain, Harmless
    <3>3. ASSUME NEW m \in 1 .. k - 1, j = m + n PROVE FALSE
      <4>1. Opens(t[m])
        BY <1>4, <1>6, <2>2, <3>3
      <4> QED
        BY <2>2, <3>1, <4>1 DEF Safe, Ordered
    <3> QED
      BY <1>4, <2>2, <3>2, <3>3
  <2> QED
    BY <1>2, <2>1, <2>2
<1>7. Followed(c)
  <2> SUFFICES ASSUME NEW i \in DOMAIN c
               PROVE  /\ Undoes(c[i]) =>
                           \E j \in DOMAIN c : j > i /\ c[j] = <<"unset", "read_model">>
                      /\ Wrecks(c[i]) => \E j \in DOMAIN c : j > i /\ c[j] = Last
    BY DEF Followed
  <2>1. CASE i \in DOMAIN b
    <3>1. /\ Undoes(b[i]) => \E j \in DOMAIN b : j > i /\ b[j] = <<"unset", "read_model">>
          /\ Wrecks(b[i]) => \E j \in DOMAIN b : j > i /\ b[j] = Last
      BY <2>1 DEF Safe, Followed
    <3>2. c[i] = b[i] /\ \A j \in DOMAIN b : j \in DOMAIN c /\ c[j] = b[j]
      BY <1>3, <2>1
    <3> QED
      BY <3>1, <3>2
  <2>2. ASSUME NEW k \in DOMAIN t, i = k + n
        PROVE  /\ Undoes(c[i]) =>
                    \E j \in DOMAIN c : j > i /\ c[j] = <<"unset", "read_model">>
               /\ Wrecks(c[i]) => \E j \in DOMAIN c : j > i /\ c[j] = Last
    <3>1. /\ Undoes(t[k]) => \E j \in DOMAIN t : j > k /\ t[j] = <<"unset", "read_model">>
          /\ Wrecks(t[k]) => \E j \in DOMAIN t : j > k /\ t[j] = Last
      BY DEF Safe, Followed
    <3>2. c[i] = t[k] /\ k \in Nat
      BY <1>4, <2>2
    <3>3. \A j \in DOMAIN t : j > k => j + n \in DOMAIN c /\ j + n > i /\ c[j + n] = t[j]
      BY <1>1, <1>4, <2>2
    <3> QED
      BY <3>1, <3>2, <3>3
  <2> QED
    BY <1>2, <2>1, <2>2
<1>8. Cut(c)
  <2> SUFFICES ASSUME NEW i \in DOMAIN c, NEW j \in 1 .. i - 1, Loses(c[j]), Wants(c[i]) # {}
               PROVE  \E m \in j + 1 .. i - 1 : Leaves(c[m])
    BY DEF Cut
  <2>1. CASE i \in DOMAIN b
    <3>1. Loses(b[j]) /\ Wants(b[i]) # {} /\ j \in Nat
      BY <1>3, <2>1
    <3>2. PICK m \in j + 1 .. i - 1 : Leaves(b[m])
      BY <2>1, <3>1 DEF Safe, Cut
    <3>3. m \in 1 .. i - 1
      BY <3>1, <3>2
    <3> QED
      BY <1>3, <2>1, <3>2, <3>3
  <2>2. ASSUME NEW k \in DOMAIN t, i = k + n
        PROVE  \E m \in j + 1 .. i - 1 : Leaves(c[m])
    <3>1. Wants(t[k]) # {} /\ k \in Nat
      BY <1>4, <2>2
    <3>2. CASE j \in DOMAIN b
      <4>1. Loses(b[j]) /\ j \in Nat /\ j <= n
        BY <1>1, <1>3, <3>2
      <4>2. CASE Closing(b)
        <5>1. PICK m \in DOMAIN b : m > j /\ Leaves(b[m])
          BY <3>2, <4>1, <4>2 DEF Closing
        <5>2. m \in j + 1 .. i - 1 /\ Leaves(c[m])
          BY <1>1, <1>3, <2>2, <3>1, <4>1, <5>1
        <5> QED
          BY <5>2
      <4>3. CASE Idle(t)
        <5>1. PICK m \in 1 .. k - 1 : Leaves(t[m])
          BY <3>1, <4>3 DEF Idle
        <5>2. m \in DOMAIN t
          BY <1>4, <5>1
        <5>3. m + n \in j + 1 .. i - 1 /\ Leaves(c[m + n])
          BY <1>1, <1>4, <2>2, <3>1, <4>1, <5>1, <5>2
        <5> QED
          BY <5>3
      <4> QED
        BY <4>2, <4>3
    <3>3. ASSUME NEW a \in 1 .. k - 1, j = a + n
          PROVE  \E m \in j + 1 .. i - 1 : Leaves(c[m])
      <4>1. Loses(t[a])
        BY <1>4, <2>2, <3>3
      <4>2. PICK m \in a + 1 .. k - 1 : Leaves(t[m])
        BY <3>1, <4>1 DEF Safe, Cut
      <4>3. m \in 1 .. k - 1
        BY <3>1, <4>2
      <4>4. m \in DOMAIN t
        BY <1>4, <4>3
      <4>5. m + n \in j + 1 .. i - 1 /\ Leaves(c[m + n])
        BY <1>1, <1>4, <2>2, <3>1, <3>3, <4>2, <4>4
      <4> QED
        BY <4>5
    <3> QED
      BY <1>4, <2>2, <3>2, <3>3
  <2> QED
    BY <1>2, <2>1, <2>2
<1> QED
  BY <1>5, <1>6, <1>7, <1>8 DEF Safe, Ordered, c

(***************************************************************************)
(* What effects want and yield, kind by kind.                              *)
(***************************************************************************)
LEMMA FactsAre ==
  /\ Facts \subseteq Names
  /\ \A k \in Keys \ {"hrc"} : <<"env", k>> \in Facts <=> k \in env
  /\ \A l \in Layers : <<"layer", l>> \in Facts <=> l \in layers
  /\ \A x \in Encoders, l \in Layers : <<x, l>> \in Facts <=> l \in committed[x]
<1>1. ASSUME NEW k \in Keys \ {"hrc"}
      PROVE  <<"env", k>> \in Facts <=> k \in env
  BY DEF Facts, Names, Holds, Encoders
<1>2. ASSUME NEW l \in Layers
      PROVE  <<"layer", l>> \in Facts <=> l \in layers
  BY DEF Facts, Names, Holds, Encoders
<1>3. ASSUME NEW x \in Encoders, NEW l \in Layers
      PROVE  <<x, l>> \in Facts <=> l \in committed[x]
  BY DEF Facts, Names, Holds, Encoders
<1> QED
  BY <1>1, <1>2, <1>3 DEF Facts

LEMMA WantsAre ==
  /\ \A e : e[1] \notin {"set", "commit", "lazy commit", "own", "do", "catch", "may"} => Wants(e) = {}
  /\ \A f : Wants(<<"set", f>>) = Promised[f]
  /\ \A x, l : Wants(<<"commit", x, l>>) = {<<"env", EncoderKey[x]>>}
  /\ \A l : Wants(<<"lazy commit", l>>) = {<<"env", "bdd_enc">>, <<"layer", l>>}
  /\ \A m : Wants(<<"own", m>>) = IF m = "bool" THEN {<<x, "determ_p">> : x \in Encoders} ELSE {}
  /\ \A p : Wants(Do(p)) = CallWants(p)
  /\ \A h, b : Wants(<<"catch", h, b>>) =
       IF h = "build_model" THEN {<<"env", "bdd_enc">>, <<"layer", "model">>} ELSE {}
  /\ \A e : Wants(May(e)) = SimpleWants(e) /\ (e[1] # "may" => Wants(e) = SimpleWants(e))
<1>1. ASSUME NEW e, e[1] \notin {"set", "commit", "lazy commit", "own", "do", "catch", "may"}
      PROVE  Wants(e) = {}
  BY <1>1 DEF Wants, SimpleWants
<1>2. \A e : e[1] # "may" => Wants(e) = SimpleWants(e)
  BY DEF Wants
<1>3. ASSUME NEW e, e[1] = "set" PROVE Wants(e) = Promised[e[2]]
  BY <1>3 DEF Wants, SimpleWants
<1>4. ASSUME NEW e, e[1] = "commit" PROVE Wants(e) = {<<"env", EncoderKey[e[2]]>>}
  BY <1>4 DEF Wants, SimpleWants
<1>5. ASSUME NEW e, e[1] = "lazy commit"
      PROVE  Wants(e) = {<<"env", "bdd_enc">>, <<"layer", e[2]>>}
  BY <1>5 DEF Wants, SimpleWants
<1>6. ASSUME NEW e, e[1] = "own"
      PROVE  Wants(e) = IF e[2] = "bool" THEN {<<x, "determ_p">> : x \in Encoders} ELSE {}
  BY <1>6 DEF Wants, SimpleWants
<1>7. ASSUME NEW e, e[1] = "do" PROVE Wants(e) = CallWants(e[2])
  BY <1>7 DEF Wants, SimpleWants
<1>8. ASSUME NEW e, e[1] = "catch"
      PROVE  Wants(e) = IF e[2] = "build_model" THEN {<<"env", "bdd_enc">>, <<"layer", "model">>}
                        ELSE {}
  BY <1>8 DEF Wants, SimpleWants
<1>9. ASSUME NEW e, e[1] = "may" PROVE Wants(e) = SimpleWants(e[2])
  BY <1>9 DEF Wants
<1>10. \A f : Wants(<<"set", f>>) = Promised[f]
  BY <1>3, Parts
<1>11. \A x, l : Wants(<<"commit", x, l>>) = {<<"env", EncoderKey[x]>>}
  BY <1>4, Parts
<1>12. \A l : Wants(<<"lazy commit", l>>) = {<<"env", "bdd_enc">>, <<"layer", l>>}
  BY <1>5, Parts
<1>13. \A m : Wants(<<"own", m>>) = IF m = "bool" THEN {<<x, "determ_p">> : x \in Encoders} ELSE {}
  BY <1>6, Parts
<1>14. \A p : Wants(Do(p)) = CallWants(p)
  BY <1>7, Parts DEF Do
<1>15. \A h, b : Wants(<<"catch", h, b>>) =
         IF h = "build_model" THEN {<<"env", "bdd_enc">>, <<"layer", "model">>} ELSE {}
  BY <1>8, Parts
<1>16. \A e : Wants(May(e)) = SimpleWants(e)
  BY <1>9, Parts DEF May
<1> QED
  BY <1>1, <1>2, <1>10, <1>11, <1>12, <1>13, <1>14, <1>15, <1>16

LEMMA YieldsAre ==
  /\ \A a, k : a \in {"put", "replace", "ensure", "get"} /\ k # "hrc"
                 => Yield(<<a, k>>) = {<<"env", k>>}
  /\ \A l : Yield(<<"create", l>>) = {<<"layer", l>>}
  /\ \A x, l : Yield(<<"commit", x, l>>) = {<<x, l>>, <<"layer", l>>}
  /\ \A l : Yield(<<"lazy commit", l>>) = {<<"bdd", l>>}
  /\ \A l : Yield(<<"be fsm", l>>) = {<<"be", "model">>, <<"be", l>>}
<1>1. ASSUME NEW e, e[1] \in {"put", "replace", "ensure", "get"}, e[2] # "hrc"
      PROVE  Yield(e) = {<<"env", e[2]>>}
  BY <1>1 DEF Yield
<1>2. ASSUME NEW e, e[1] = "create" PROVE Yield(e) = {<<"layer", e[2]>>}
  BY <1>2 DEF Yield
<1>3. ASSUME NEW e, e[1] = "commit" PROVE Yield(e) = {<<e[2], e[3]>>, <<"layer", e[3]>>}
  BY <1>3 DEF Yield
<1>4. ASSUME NEW e, e[1] = "lazy commit" PROVE Yield(e) = {<<"bdd", e[2]>>}
  BY <1>4 DEF Yield
<1>5. ASSUME NEW e, e[1] = "be fsm" PROVE Yield(e) = {<<"be", "model">>, <<"be", e[2]>>}
  BY <1>5 DEF Yield
<1>6. \A a, k : a \in {"put", "replace", "ensure", "get"} /\ k # "hrc"
                 => Yield(<<a, k>>) = {<<"env", k>>}
  BY <1>1, Parts
<1>7. \A l : Yield(<<"create", l>>) = {<<"layer", l>>}
  BY <1>2, Parts
<1>8. \A x, l : Yield(<<"commit", x, l>>) = {<<x, l>>, <<"layer", l>>}
  BY <1>3, Parts
<1>9. \A l : Yield(<<"lazy commit", l>>) = {<<"bdd", l>>}
  BY <1>4, Parts
<1>10. \A l : Yield(<<"be fsm", l>>) = {<<"be", "model">>, <<"be", l>>}
  BY <1>5, Parts
<1> QED
  BY <1>6, <1>7, <1>8, <1>9, <1>10

LEMMA PromisedAre ==
  /\ Promised["read_model"] = {} /\ Promised["hrc_built"] = {<<"env", "flat_hierarchy">>}
  /\ Promised["flatten_hrc"] =
       {<<"env", "flat_hierarchy">>, <<"env", "flattener">>, <<"layer", "model">>}
  /\ Promised["encode_variables"] =
       {<<"env", "bool_enc">>, <<"env", "bdd_enc">>, <<"bool", "model">>}
  /\ Promised["build_flat_model"] = {<<"env", "sexp_fsm">>}
  /\ Promised["build_model"] = {<<"env", "bdd_fsm">>, <<"env", "sexp_fsm">>, <<"bdd", "model">>}
  /\ Promised["build_bool_model"] =
       {<<"env", "bool_fsm">>, <<"env", "sexp_fsm">>, <<"bool", "determ">>, <<"bdd", "determ">>}
  /\ Promised["bmc_init"] = {<<"env", "be_enc">>, <<"be", "model">>}
  /\ Promised["bmc_setup"] = {<<"env", "be_fsm">>, <<"be", "determ">>}
BY DEF Promised

(***************************************************************************)
(* Effects of the commands but for reset: they lose nothing.  The gentle   *)
(* ones do not come near a reset and run no commands.                      *)
(***************************************************************************)
Mild == {e \in Effects : ~Loses(e) /\ Proper(e)}
Gentle == {e \in Mild : ~Danger(e) /\ ~Opens(e)}

(* What loses nothing undoes and wrecks nothing.                           *)
LEMMA Harm == \A e : Undoes(e) \/ Wrecks(e) => Loses(e)
BY DEF Undoes, Wrecks, Loses

Tender == {"set", "unset", "get", "absent", "put", "replace", "ensure", "create", "lazy commit",
           "be fsm", "commit", "own", "copy if any", "has machine", "no machine", "return 1",
           "can throw", "throw", "new property", "no properties", "verdict", "copy machines",
           "may return in catch"}

LEMMA TenderIsGentle ==
  ASSUME NEW e \in Effects, e[1] \in Tender
  PROVE  e \in Gentle
<1>1. e[1] \notin {"drop layer", "destroy encoder", "quit compiler", "init compiler", "remove",
                   "do", "catch", "end", "unless", "may"}
  BY DEF Tender
<1>2. ~Loses(e) /\ Proper(e)
  BY <1>1, Zenon DEF Loses, Proper
<1>3. e # Last
  BY <1>1, Kinds
<1>4. ~Danger(e) /\ ~Opens(e)
  BY <1>1, <1>3, Zenon DEF Danger, Opens
<1> QED
  BY <1>2, <1>4 DEF Gentle, Mild

LEMMA GentleMembers ==
  /\ \A f \in Flags : <<"set", f>> \in Gentle
  /\ \A k \in Keys : <<"get", k>> \in Gentle /\ <<"absent", k>> \in Gentle
  /\ \A k \in Keys \ {"cmps"} : /\ <<"put", k>> \in Gentle /\ <<"replace", k>> \in Gentle
                                 /\ <<"ensure", k>> \in Gentle
  /\ \A l \in Layers : /\ <<"create", l>> \in Gentle /\ <<"lazy commit", l>> \in Gentle
                       /\ <<"be fsm", l>> \in Gentle
  /\ \A x \in Encoders, l \in Layers : <<"commit", x, l>> \in Gentle
  /\ \A m \in Machines : /\ <<"own", m>> \in Gentle /\ <<"copy if any", m>> \in Gentle
                         /\ <<"has machine", m>> \in Gentle /\ <<"no machine", m>> \in Gentle
<1>1. \A e \in Simple : e[1] \in Tender => e \in Gentle
  BY EffectsAre, TenderIsGentle
<1>2. \A a, b : a \in Tender /\ <<a, b>> \in Simple => <<a, b>> \in Gentle
  BY <1>1, Parts, Zenon
<1>3. \A a, b, c : a \in Tender /\ <<a, b, c>> \in Simple => <<a, b, c>> \in Gentle
  BY <1>1, Parts, Zenon
<1>4. /\ "get" \in Tender /\ "absent" \in Tender /\ "put" \in Tender /\ "set" \in Tender
      /\ "replace" \in Tender /\ "ensure" \in Tender /\ "create" \in Tender
      /\ "lazy commit" \in Tender /\ "be fsm" \in Tender /\ "commit" \in Tender
      /\ "own" \in Tender /\ "copy if any" \in Tender /\ "has machine" \in Tender
      /\ "no machine" \in Tender
  BY DEF Tender
<1> QED
  BY <1>2, <1>3, <1>4, Members

LEMMA GentleAlone ==
  /\ <<"return 1">> \in Gentle /\ CanThrow \in Gentle /\ <<"new property">> \in Gentle
  /\ <<"verdict">> \in Gentle /\ <<"copy machines">> \in Gentle /\ <<"throw">> \in Gentle
  /\ <<"no properties">> \in Gentle
  /\ Fail \in Seq(Gentle) /\ <<>> \in Seq(Gentle)
<1>2. /\ <<"return 1">> \in Effects /\ CanThrow \in Effects /\ <<"new property">> \in Effects
      /\ <<"verdict">> \in Effects /\ <<"copy machines">> \in Effects /\ <<"throw">> \in Effects
      /\ <<"no properties">> \in Effects
  BY AloneIsCode, EffectsAre
<1>3. /\ <<"return 1">>[1] \in Tender /\ CanThrow[1] \in Tender
      /\ <<"new property">>[1] \in Tender /\ <<"verdict">>[1] \in Tender
      /\ <<"copy machines">>[1] \in Tender /\ <<"throw">>[1] \in Tender
      /\ <<"no properties">>[1] \in Tender
  BY Kind1 DEF Tender, CanThrow
<1>4. /\ <<"return 1">> \in Gentle /\ CanThrow \in Gentle /\ <<"new property">> \in Gentle
      /\ <<"verdict">> \in Gentle /\ <<"copy machines">> \in Gentle /\ <<"throw">> \in Gentle
      /\ <<"no properties">> \in Gentle
  BY <1>2, <1>3, TenderIsGentle
<1>5. Fail \in Seq(Gentle)
  BY <1>4, List1, Zenon DEF Fail
<1>6. <<>> \in Seq(Gentle)
  OBVIOUS
<1> QED
  BY <1>4, <1>5, <1>6

(* The functions that lead to no reset and run no commands.                *)
Kindly == Procs \ {"reset", "flatten_hierarchy", "flatten_smv", "go", "go_bmc"}

LEMMA GentleCall ==
  /\ \A p \in Kindly : Do(p) \in Gentle
  /\ \A p \in Procs \ {"reset"} : Do(p) \in Mild
<1>1. \A p \in Procs : Do(p) \in Effects /\ Do(p)[1] = "do" /\ Do(p)[2] = p
  BY Members, EffectsAre, Parts DEF Do
<1>2. ASSUME NEW e \in Effects, e[1] = "do", e[2] # "reset"
      PROVE  e \in Mild
  <2>1. ~Loses(e) /\ Proper(e)
    BY <1>2 DEF Loses, Proper
  <2> QED
    BY <2>1 DEF Mild
<1>3. ASSUME NEW e \in Effects, e[1] = "do",
             e[2] \notin {"reset", "flatten_hierarchy", "flatten_smv", "go", "go_bmc"}
      PROVE  ~Danger(e) /\ ~Opens(e)
  <2>1. e # Last
    BY <1>3, Kinds
  <2> QED
    BY <1>3, <2>1 DEF Danger, Opens
<1> QED
  BY <1>1, <1>2, <1>3 DEF Gentle, Kindly

LEMMA GentleMay ==
  ASSUME NEW e \in Simple, e[1] = "remove" => e[2] = "hrc"
  PROVE  May(e) \in Gentle
<1> DEFINE m == <<"may", e>>
<1>0. May(e) = m
  BY DEF May
<1>1. m \in Effects
  BY <1>0, Codes, EffectsAre
<1>2. m[1] = "may" /\ m[2] = e
  BY Parts
<1> HIDE DEF m
<1>3. m # Last
  BY <1>1, <1>2, Kinds
<1>4. ~Loses(m) /\ Proper(m) /\ ~Danger(m) /\ ~Opens(m)
  BY <1>2, <1>3 DEF Loses, Proper, Danger, Opens
<1> QED
  BY <1>0, <1>1, <1>4 DEF Mild, Gentle

LEMMA GentleCatch ==
  ASSUME NEW h \in Catches, NEW b \in Seq(Straight \cup Leaks)
  PROVE  /\ <<"catch", h, b>> \in Mild
         /\ h \notin {"flatten_hierarchy", "hierarchy"} => <<"catch", h, b>> \in Gentle
<1> DEFINE e == <<"catch", h, b>>
<1>1. e \in Effects /\ e[1] = "catch" /\ e[2] = h
  BY CatchIs
<1> HIDE DEF e
<1>2. e # Last
  BY <1>1, Kinds
<1>3. ~Loses(e) /\ Proper(e) /\ ~Opens(e)
  BY <1>1 DEF Loses, Proper, Opens
<1>4. h \notin {"flatten_hierarchy", "hierarchy"} => ~Danger(e)
  BY <1>1, <1>2 DEF Danger
<1> QED
  BY <1>1, <1>3, <1>4 DEF Mild, Gentle, e

(* Short lists: what each effect wants holds, or those before it yield it. *)
LEMMA Supplied1 ==
  ASSUME NEW F, NEW a,
         Wants(a) \subseteq F
  PROVE  Supplied(<<a>>, F)
<1> DEFINE s == <<a>>
<1>1. DOMAIN s = 1 .. 1 /\ s[1] = a
  OBVIOUS
<1> HIDE DEF s
<1>2. SUFFICES ASSUME NEW i \in 1 .. 1, NEW w \in Wants(s[i])
               PROVE  w \in F \/ \E j \in 1 .. i - 1 : w \in Yield(s[j])
  BY <1>1 DEF Supplied, s
<1>3. CASE i = 1
  BY <1>1, <1>2, <1>3
<1> QED
  BY <1>3

LEMMA Supplied3 ==
  ASSUME NEW F, NEW a, NEW b, NEW c,
         Wants(a) \subseteq F,
         Wants(b) \subseteq F \cup Yield(a),
         Wants(c) \subseteq F \cup Yield(a) \cup Yield(b)
  PROVE  Supplied(<<a, b, c>>, F)
<1> DEFINE s == <<a, b, c>>
<1>1. DOMAIN s = 1 .. 3 /\ s[1] = a /\ s[2] = b /\ s[3] = c
  OBVIOUS
<1> HIDE DEF s
<1>2. SUFFICES ASSUME NEW i \in 1 .. 3, NEW w \in Wants(s[i])
               PROVE  w \in F \/ \E j \in 1 .. i - 1 : w \in Yield(s[j])
  BY <1>1 DEF Supplied, s
<1>3. CASE i = 1
  BY <1>1, <1>2, <1>3
<1>4. CASE i = 2
  BY <1>1, <1>2, <1>4
<1>5. CASE i = 3
  BY <1>1, <1>2, <1>5
<1> QED
  BY <1>3, <1>4, <1>5

LEMMA Supplied4 ==
  ASSUME NEW F, NEW a, NEW b, NEW c, NEW d,
         Wants(a) \subseteq F,
         Wants(b) \subseteq F \cup Yield(a),
         Wants(c) \subseteq F \cup Yield(a) \cup Yield(b),
         Wants(d) \subseteq F \cup Yield(a) \cup Yield(b) \cup Yield(c)
  PROVE  Supplied(<<a, b, c, d>>, F)
<1> DEFINE s == <<a, b, c, d>>
<1>1. DOMAIN s = 1 .. 4 /\ s[1] = a /\ s[2] = b /\ s[3] = c /\ s[4] = d
  OBVIOUS
<1> HIDE DEF s
<1>2. SUFFICES ASSUME NEW i \in 1 .. 4, NEW w \in Wants(s[i])
               PROVE  w \in F \/ \E j \in 1 .. i - 1 : w \in Yield(s[j])
  BY <1>1 DEF Supplied, s
<1>3. CASE i = 1
  BY <1>1, <1>2, <1>3
<1>4. CASE i = 2
  BY <1>1, <1>2, <1>4
<1>5. CASE i = 3
  BY <1>1, <1>2, <1>5
<1>6. CASE i = 4
  BY <1>1, <1>2, <1>6
<1> QED
  BY <1>3, <1>4, <1>5, <1>6

LEMMA Supplied5 ==
  ASSUME NEW F, NEW a, NEW b, NEW c, NEW d, NEW e,
         Wants(a) \subseteq F,
         Wants(b) \subseteq F \cup Yield(a),
         Wants(c) \subseteq F \cup Yield(a) \cup Yield(b),
         Wants(d) \subseteq F \cup Yield(a) \cup Yield(b) \cup Yield(c),
         Wants(e) \subseteq F \cup Yield(a) \cup Yield(b) \cup Yield(c) \cup Yield(d)
  PROVE  Supplied(<<a, b, c, d, e>>, F)
<1> DEFINE s == <<a, b, c, d, e>>
<1>1. DOMAIN s = 1 .. 5 /\ s[1] = a /\ s[2] = b /\ s[3] = c /\ s[4] = d /\ s[5] = e
  OBVIOUS
<1> HIDE DEF s
<1>2. SUFFICES ASSUME NEW i \in 1 .. 5, NEW w \in Wants(s[i])
               PROVE  w \in F \/ \E j \in 1 .. i - 1 : w \in Yield(s[j])
  BY <1>1 DEF Supplied, s
<1>3. CASE i = 1
  BY <1>1, <1>2, <1>3
<1>4. CASE i = 2
  BY <1>1, <1>2, <1>4
<1>5. CASE i = 3
  BY <1>1, <1>2, <1>5
<1>6. CASE i = 4
  BY <1>1, <1>2, <1>6
<1>7. CASE i = 5
  BY <1>1, <1>2, <1>7
<1> QED
  BY <1>3, <1>4, <1>5, <1>6, <1>7

LEMMA Supplied6 ==
  ASSUME NEW F, NEW a, NEW b, NEW c, NEW d, NEW e, NEW f,
         Wants(a) \subseteq F,
         Wants(b) \subseteq F \cup Yield(a),
         Wants(c) \subseteq F \cup Yield(a) \cup Yield(b),
         Wants(d) \subseteq F \cup Yield(a) \cup Yield(b) \cup Yield(c),
         Wants(e) \subseteq F \cup Yield(a) \cup Yield(b) \cup Yield(c) \cup Yield(d),
         Wants(f) \subseteq F \cup Yield(a) \cup Yield(b) \cup Yield(c) \cup Yield(d) \cup Yield(e)
  PROVE  Supplied(<<a, b, c, d, e, f>>, F)
<1> DEFINE s == <<a, b, c, d, e, f>>
<1>1. DOMAIN s = 1 .. 6 /\ s[1] = a /\ s[2] = b /\ s[3] = c /\ s[4] = d /\ s[5] = e /\ s[6] = f
  OBVIOUS
<1> HIDE DEF s
<1>2. SUFFICES ASSUME NEW i \in 1 .. 6, NEW w \in Wants(s[i])
               PROVE  w \in F \/ \E j \in 1 .. i - 1 : w \in Yield(s[j])
  BY <1>1 DEF Supplied, s
<1>3. CASE i = 1
  BY <1>1, <1>2, <1>3
<1>4. CASE i = 2
  BY <1>1, <1>2, <1>4
<1>5. CASE i = 3
  BY <1>1, <1>2, <1>5
<1>6. CASE i = 4
  BY <1>1, <1>2, <1>6
<1>7. CASE i = 5
  BY <1>1, <1>2, <1>7
<1>8. CASE i = 6
  BY <1>1, <1>2, <1>8
<1> QED
  BY <1>3, <1>4, <1>5, <1>6, <1>7, <1>8

LEMMA Supplied7 ==
  ASSUME NEW F, NEW a, NEW b, NEW c, NEW d, NEW e, NEW f, NEW g,
         Wants(a) \subseteq F,
         Wants(b) \subseteq F \cup Yield(a),
         Wants(c) \subseteq F \cup Yield(a) \cup Yield(b),
         Wants(d) \subseteq F \cup Yield(a) \cup Yield(b) \cup Yield(c),
         Wants(e) \subseteq F \cup Yield(a) \cup Yield(b) \cup Yield(c) \cup Yield(d),
         Wants(f) \subseteq F \cup Yield(a) \cup Yield(b) \cup Yield(c) \cup Yield(d) \cup Yield(e),
         Wants(g) \subseteq F \cup Yield(a) \cup Yield(b) \cup Yield(c) \cup Yield(d) \cup Yield(e) \cup Yield(f)
  PROVE  Supplied(<<a, b, c, d, e, f, g>>, F)
<1> DEFINE s == <<a, b, c, d, e, f, g>>
<1>1. DOMAIN s = 1 .. 7 /\ s[1] = a /\ s[2] = b /\ s[3] = c /\ s[4] = d /\ s[5] = e /\ s[6] = f /\ s[7] = g
  OBVIOUS
<1> HIDE DEF s
<1>2. SUFFICES ASSUME NEW i \in 1 .. 7, NEW w \in Wants(s[i])
               PROVE  w \in F \/ \E j \in 1 .. i - 1 : w \in Yield(s[j])
  BY <1>1 DEF Supplied, s
<1>3. CASE i = 1
  BY <1>1, <1>2, <1>3
<1>4. CASE i = 2
  BY <1>1, <1>2, <1>4
<1>5. CASE i = 3
  BY <1>1, <1>2, <1>5
<1>6. CASE i = 4
  BY <1>1, <1>2, <1>6
<1>7. CASE i = 5
  BY <1>1, <1>2, <1>7
<1>8. CASE i = 6
  BY <1>1, <1>2, <1>8
<1>9. CASE i = 7
  BY <1>1, <1>2, <1>9
<1> QED
  BY <1>3, <1>4, <1>5, <1>6, <1>7, <1>8, <1>9

(***************************************************************************)
(* What the functions do: lists of gentle effects that are supplied, if    *)
(* what the function wants holds.                                          *)
(***************************************************************************)
Good(F) == {e \in Gentle : Wants(e) \subseteq F}
Fine(s, S, F) == s \in Seq(S) /\ Supplied(s, F)

LEMMA GoodIsFine ==
  ASSUME NEW F, NEW s \in Seq(Good(F))
  PROVE  Fine(s, Gentle, F)
<1>1. Good(F) \subseteq Gentle
  BY DEF Good
<1>2. s \in Seq(Gentle) /\ \A i \in DOMAIN s : s[i] \in Good(F)
  BY <1>1, SeqMonotonic
<1>3. \A i \in DOMAIN s : Wants(s[i]) \subseteq F
  BY <1>2 DEF Good
<1> QED
  BY <1>2, <1>3 DEF Fine, Supplied

LEMMA FineMore ==
  ASSUME NEW S, NEW T, S \subseteq T, NEW s, NEW F, NEW G, F \subseteq G, Fine(s, S, F)
  PROVE  Fine(s, T, G)
<1>1. s \in Seq(T)
  BY SeqMonotonic DEF Fine
<1> QED
  BY <1>1, MoreSupplied DEF Fine

LEMMA FineCat ==
  ASSUME NEW S, NEW b, NEW t, NEW F, NEW G, Fine(b, S, F), Fine(t, S, G),
         \A f \in G : f \in F \/ \E j \in DOMAIN b : f \in Yield(b[j])
  PROVE  Fine(b \o t, S, F)
<1>1. /\ b \in Seq(S) /\ t \in Seq(S) /\ Supplied(b, F)
      /\ \E H : Supplied(t, H) /\ \A f \in H : f \in F \/ \E j \in DOMAIN b : f \in Yield(b[j])
  BY DEF Fine
<1>2. Supplied(b \o t, F)
  BY <1>1, SuppliedCat
<1> QED
  BY <1>1, <1>2, Catenation DEF Fine

(* One behind the other, each has what it wants.                           *)
LEMMA FineBoth ==
  ASSUME NEW S, NEW b, NEW t, NEW F, Fine(b, S, F), Fine(t, S, F)
  PROVE  Fine(b \o t, S, F)
<1>1. \A f \in F : f \in F \/ \E j \in DOMAIN b : f \in Yield(b[j])
  OBVIOUS
<1> QED
  BY <1>1, FineCat

(* The good effects.                                                       *)
LEMMA GoodMembers ==
  ASSUME NEW F
  PROVE  /\ \A k \in Keys : <<"get", k>> \in Good(F) /\ <<"absent", k>> \in Good(F)
         /\ \A k \in Keys \ {"cmps"} : /\ <<"put", k>> \in Good(F) /\ <<"replace", k>> \in Good(F)
                                        /\ <<"ensure", k>> \in Good(F)
         /\ \A l \in Layers : <<"create", l>> \in Good(F) /\ <<"be fsm", l>> \in Good(F)
         /\ \A m \in Machines : /\ <<"copy if any", m>> \in Good(F)
                                /\ <<"has machine", m>> \in Good(F)
                                /\ <<"no machine", m>> \in Good(F)
                                /\ m # "bool" => <<"own", m>> \in Good(F)
<1>1. \A a, b : /\ a \notin {"set", "commit", "lazy commit", "own", "do", "catch", "may"}
                /\ <<a, b>> \in Gentle
                => <<a, b>> \in Good(F)
  <2>1. ASSUME NEW a, NEW b, <<a, b>> \in Gentle,
               a \notin {"set", "commit", "lazy commit", "own", "do", "catch", "may"}
        PROVE  <<a, b>> \in Good(F)
    <3>1. <<a, b>>[1] = a
      OBVIOUS
    <3> DEFINE e == <<a, b>>
    <3> HIDE DEF e
    <3>2. e[1] = a /\ e \in Gentle
      BY <2>1, <3>1 DEF e
    <3>3. Wants(e) = {}
      BY <2>1, <3>2, WantsAre
    <3> QED
      BY <3>2, <3>3 DEF Good, e
  <2> QED
    BY <2>1
<1>2. \A m \in Machines : m # "bool" => <<"own", m>> \in Good(F)
  <2>1. \A m \in Machines : m # "bool" => Wants(<<"own", m>>) = {}
    BY WantsAre
  <2> QED
    BY <2>1, GentleMembers DEF Good
<1> QED
  BY <1>1, <1>2, GentleMembers

LEMMA GoodAlone ==
  ASSUME NEW F
  PROVE  /\ CanThrow \in Good(F) /\ <<"new property">> \in Good(F)
         /\ <<"verdict">> \in Good(F) /\ <<"copy machines">> \in Good(F)
         /\ Fail \in Seq(Good(F)) /\ <<>> \in Seq(Good(F))
<1>1. \A e \in Gentle : e[1] \notin {"set", "commit", "lazy commit", "own", "do", "catch", "may"}
                          => e \in Good(F)
  BY WantsAre DEF Good
<1>2. /\ <<"return 1">> \in Good(F) /\ CanThrow \in Good(F) /\ <<"new property">> \in Good(F)
      /\ <<"verdict">> \in Good(F) /\ <<"copy machines">> \in Good(F)
  BY <1>1, GentleAlone, Kind1 DEF CanThrow
<1>3. Fail \in Seq(Good(F))
  BY <1>2, List1, Zenon DEF Fail
<1>4. <<>> \in Seq(Good(F))
  OBVIOUS
<1> QED
  BY <1>2, <1>3, <1>4

LEMMA GoodCall ==
  ASSUME NEW F
  PROVE  /\ \A p \in Kindly : CallWants(p) \subseteq F => Do(p) \in Good(F)
         /\ \A p \in Kindly \ {"apply_coi_for_bdd", "apply_coi_for_bmc", "rewriter",
                               "create_boolean_model"} : Do(p) \in Good(F)
<1>1. \A p : Wants(Do(p)) = CallWants(p)
  BY WantsAre
<1>2. \A p \in Kindly : CallWants(p) \subseteq F => Do(p) \in Good(F)
  BY <1>1, GentleCall DEF Good
<1>3. \A p \in Kindly \ {"apply_coi_for_bdd", "apply_coi_for_bmc", "rewriter",
                         "create_boolean_model"} : CallWants(p) = {}
  BY DEF CallWants
<1> QED
  BY <1>2, <1>3

LEMMA GoodSet ==
  ASSUME NEW F, NEW f \in Flags, Promised[f] \subseteq F
  PROVE  <<"set", f>> \in Good(F)
<1>1. Wants(<<"set", f>>) = Promised[f]
  BY WantsAre
<1> QED
  BY <1>1, GentleMembers DEF Good

LEMMA CommitWants ==
  \A l : /\ Wants(<<"commit", "bool", l>>) = {<<"env", "bool_enc">>}
         /\ Wants(<<"commit", "bdd", l>>) = {<<"env", "bdd_enc">>}
         /\ Wants(<<"commit", "be", l>>) = {<<"env", "be_enc">>}
<1>1. /\ EncoderKey["bool"] = "bool_enc" /\ EncoderKey["bdd"] = "bdd_enc"
      /\ EncoderKey["be"] = "be_enc"
  BY DEF EncoderKey
<1>2. \A x, l : Wants(<<"commit", x, l>>) = {<<"env", EncoderKey[x]>>}
  BY WantsAre
<1> QED
  BY <1>1, <1>2, Zenon

(* A CATCH that wants nothing.                                             *)
LEMMA GoodCatch ==
  ASSUME NEW F, NEW h \in Catches \ {"flatten_hierarchy", "hierarchy", "build_model"},
         NEW b \in Seq(Straight \cup Leaks)
  PROVE  Catch(h, b) \in Seq(Good(F))
<1> DEFINE e == <<"catch", h, b>>
<1>1. e \in Gentle /\ Wants(e) = {}
  BY GentleCatch, WantsAre
<1> HIDE DEF e
<1>2. e \in Good(F)
  BY <1>1 DEF Good
<1>3. <<e>> \in Seq(Good(F))
  BY <1>2, List1, Zenon
<1> QED
  BY <1>3 DEF e, Catch

-----------------------------------------------------------------------------
LEMMA ReadModelFine == Fine(ReadModel, Gentle, {})
<1>1. CanThrow \in Good({})
  BY GoodAlone
<1>2. <<"set", "read_model">> \in Good({})
  BY GoodSet, PromisedAre DEF Flags
<1>3. << CanThrow, <<"set", "read_model">> >> \in Seq(Good({}))
  BY <1>1, <1>2, List2, Zenon
<1>4. ReadModel \in Seq(Good({}))
  BY <1>3, GoodAlone DEF ReadModel
<1> QED
  BY <1>4, GoodIsFine, Zenon

LEMMA EncodeVariablesFine == Fine(EncodeVariables, Gentle, {})
<1> DEFINE a == <<"ensure", "bool_enc">>
           b == <<"commit", "bool", "model">>
           c == <<"absent", "bdd_enc">>
           d == CanThrow
           e == <<"put", "bdd_enc">>
           f == May(<<"commit", "bdd", "model">>)
           g == <<"set", "encode_variables">>
           s == <<a, b, c, d, e, f, g>>
<1>1. a \in Gentle /\ b \in Gentle /\ c \in Gentle /\ e \in Gentle /\ g \in Gentle
  BY GentleMembers DEF Keys, Encoders, Layers, Flags
<1>2. d \in Gentle
  BY GentleAlone
<1>3. f \in Gentle
  <2>1. <<"commit", "bdd", "model">> \in Simple /\ <<"commit", "bdd", "model">>[1] = "commit"
    BY Members, Parts DEF Encoders, Layers
  <2> QED
    BY <2>1, GentleMay
<1>4. /\ Wants(a) = {} /\ Wants(c) = {} /\ Wants(e) = {}
  BY WantsAre, Parts
<1>5. Wants(d) = {}
  BY WantsAre, Kind1 DEF CanThrow
<1>6. Wants(b) = {<<"env", "bool_enc">>}
  BY CommitWants
<1>7. Wants(f) = {<<"env", "bdd_enc">>}
  <2>1. Wants(<<"commit", "bdd", "model">>) = {<<"env", "bdd_enc">>}
    BY CommitWants
  <2>2. <<"commit", "bdd", "model">>[1] # "may"
    BY Parts
  <2> QED
    BY <2>1, <2>2, WantsAre
<1>8. Wants(g) = {<<"env", "bool_enc">>, <<"env", "bdd_enc">>, <<"bool", "model">>}
  BY WantsAre, PromisedAre
<1>9. /\ Yield(a) = {<<"env", "bool_enc">>} /\ Yield(e) = {<<"env", "bdd_enc">>}
      /\ Yield(b) = {<<"bool", "model">>, <<"layer", "model">>}
  <2>1. Yield(a) = {<<"env", "bool_enc">>}
    BY YieldsAre
  <2>2. Yield(e) = {<<"env", "bdd_enc">>}
    BY YieldsAre
  <2>3. Yield(b) = {<<"bool", "model">>, <<"layer", "model">>}
    BY YieldsAre
  <2> QED
    BY <2>1, <2>2, <2>3
<1> HIDE DEF a, b, c, d, e, f, g
<1>10. Supplied(<<a, b, c, d, e, f, g>>, {})
  BY <1>4, <1>5, <1>6, <1>7, <1>8, <1>9, Supplied7
<1>11. s \in Seq(Gentle)
  BY <1>1, <1>2, <1>3, List7, Zenon
<1>12. Fine(s, Gentle, {})
  BY <1>10, <1>11 DEF Fine
<1>13. Fine(Fail, Gentle, {})
  BY GoodAlone, GoodIsFine, Zenon
<1>14. EncodeVariables = Fail \/ EncodeVariables = s
  BY Zenon DEF EncodeVariables, a, b, c, d, e, f, g
<1> QED
  BY <1>12, <1>13, <1>14, Zenon

LEMMA CreateFlatModelFine == Fine(CreateFlatModel, Gentle, {})
<1> DEFINE a == <<"get", "flat_hierarchy">>
           b == <<"put", "sexp_fsm">>
           c == <<"set", "build_flat_model">>
<1>1. a \in Gentle /\ b \in Gentle /\ c \in Gentle
  BY GentleMembers DEF Keys, Flags
<1>2. Wants(a) = {} /\ Wants(b) = {}
  BY WantsAre, Parts
<1>3. Wants(c) = {<<"env", "sexp_fsm">>} /\ Yield(b) = {<<"env", "sexp_fsm">>}
  BY WantsAre, PromisedAre, YieldsAre
<1>4. CreateFlatModel = <<a, b, c>>
  BY Zenon DEF CreateFlatModel
<1> HIDE DEF a, b, c
<1>5. Supplied(<<a, b, c>>, {})
  BY <1>2, <1>3, Supplied3
<1>6. <<a, b, c>> \in Seq(Gentle)
  BY <1>1, List3, Zenon
<1> QED
  BY <1>4, <1>5, <1>6, Zenon DEF Fine

LEMMA FlatModelFine == Fine(BuildFlatModel, Gentle, {}) /\ Fine(FlatModelIfNone, Gentle, {})
<1>1. Do("create_flat_model") \in Good({})
  BY GoodCall DEF Kindly, Procs
<1>2. <<Do("create_flat_model")>> \in Seq(Good({}))
  BY <1>1, List1, Zenon
<1>3. BuildFlatModel \in Seq(Good({})) /\ FlatModelIfNone \in Seq(Good({}))
  BY <1>2, GoodAlone DEF BuildFlatModel, FlatModelIfNone
<1> QED
  BY <1>3, GoodIsFine, Zenon

LEMMA BuildModelFine ==
  ASSUME NEW F, {<<"env", "bdd_enc">>, <<"layer", "model">>} \subseteq F
  PROVE  Fine(CatchBody("build_model"), Gentle, F)
<1> DEFINE a == Do("flat_model_if_none")
           b == <<"get", "sexp_fsm">>
           c == <<"lazy commit", "model">>
           d == CanThrow
           e == <<"put", "bdd_fsm">>
           f == <<"set", "build_model">>
<1>1. b \in Gentle /\ c \in Gentle /\ e \in Gentle /\ f \in Gentle
  BY GentleMembers DEF Keys, Layers, Flags
<1>2. a \in Gentle /\ d \in Gentle
  BY GentleCall, GentleAlone DEF Kindly, Procs
<1>3. Wants(a) = {} /\ Wants(b) = {} /\ Wants(d) = {} /\ Wants(e) = {}
  <2>1. Wants(b) = {} /\ Wants(e) = {}
    BY WantsAre, Parts
  <2>2. Wants(d) = {}
    BY WantsAre, Kind1 DEF CanThrow
  <2>3. Wants(a) = {}
    BY WantsAre DEF CallWants
  <2> QED
    BY <2>1, <2>2, <2>3
<1>4. Wants(c) = {<<"env", "bdd_enc">>, <<"layer", "model">>}
  BY WantsAre
<1>5. Wants(f) = {<<"env", "bdd_fsm">>, <<"env", "sexp_fsm">>, <<"bdd", "model">>}
  BY WantsAre, PromisedAre
<1>6. Yield(b) = {<<"env", "sexp_fsm">>}
  BY YieldsAre
<1>7. Yield(c) = {<<"bdd", "model">>}
  BY YieldsAre
<1>8. Yield(e) = {<<"env", "bdd_fsm">>}
  BY YieldsAre
<1>9. CatchBody("build_model") = <<a, b, c, d, e, f>>
  BY DEF CatchBody
<1> HIDE DEF a, b, c, d, e, f
<1>10. Supplied(<<a, b, c, d, e, f>>, F)
  BY <1>3, <1>4, <1>5, <1>6, <1>7, <1>8, Supplied6
<1>11. <<a, b, c, d, e, f>> \in Seq(Gentle)
  BY <1>1, <1>2, List6, Zenon
<1> QED
  BY <1>9, <1>10, <1>11, Zenon DEF Fine

(* build_model wants the BDD encoder and the layer of the model.           *)
LEMMA BuildModelCall ==
  ASSUME NEW F, NEW forced \in BOOLEAN,
         "encode_variables" \in flags => {<<"env", "bdd_enc">>, <<"layer", "model">>} \subseteq F
  PROVE  Fine(BuildModel(forced), Gentle, F)
<1> DEFINE b == <<Do("flat_model_if_none"), <<"get", "sexp_fsm">>, <<"lazy commit", "model">>,
                  CanThrow, <<"put", "bdd_fsm">>, <<"set", "build_model">> >>
           e == <<"catch", "build_model", b>>
<1>0. b = CatchBody("build_model")
  BY DEF CatchBody
<1>1. BuildModel(forced) \in {Fail, <<>>, <<e>>} /\ (EncodingMissing => BuildModel(forced) = Fail)
  BY Zenon DEF BuildModel, Catch
<1>2. CatchBody("build_model") \in Seq(Straight \cup Leaks)
  <2>1. Do("flat_model_if_none") \in Straight
    BY Members, Codes DEF Procs
  <2>2. /\ <<"get", "sexp_fsm">> \in Straight /\ <<"lazy commit", "model">> \in Straight
        /\ <<"put", "bdd_fsm">> \in Straight /\ <<"set", "build_model">> \in Straight
    BY Members, Codes DEF Keys, Layers, Flags
  <2>3. CanThrow \in Straight
    BY AloneIsCode
  <2>4. Straight \subseteq Straight \cup Leaks
    OBVIOUS
  <2>5. b \in Seq(Straight \cup Leaks)
    BY <2>1, <2>2, <2>3, <2>4, List6
  <2> QED
    BY <1>0, <2>5
<1>3. Fine(Fail, Gentle, F) /\ Fine(<<>>, Gentle, F)
  BY GoodAlone, GoodIsFine, Zenon
<1>4. ASSUME ~EncodingMissing
      PROVE  Fine(<<e>>, Gentle, F)
  <2>1. "build_model" \in Catches \ {"flatten_hierarchy", "hierarchy"}
    BY DEF Catches
  <2>2. e \in Gentle
    BY <1>0, <1>2, <2>1, GentleCatch
  <2>3. Wants(e) = {<<"env", "bdd_enc">>, <<"layer", "model">>}
    BY WantsAre
  <2> HIDE DEF e
  <2>4. e \in Good(F)
    BY <1>4, <2>2, <2>3 DEF Good, EncodingMissing
  <2>5. <<e>> \in Seq(Good(F))
    BY <2>4, List1, Zenon
  <2> QED
    BY <2>5, GoodIsFine, Zenon
<1> QED
  BY <1>1, <1>3, <1>4

LEMMA BuildBooleanModelFine ==
  ASSUME NEW F, NEW forced \in BOOLEAN, "encode_variables" \in flags => <<"env", "bool_enc">> \in F
  PROVE  Fine(BuildBooleanModel(forced), Gentle, F)
<1> DEFINE s == <<Do("flat_model_if_none"), Do("create_boolean_model")>>
<1>1. \/ BuildBooleanModel(forced) \in {Fail, <<>>}
      \/ ~EncodingMissing /\ BuildBooleanModel(forced) = s
  BY DEF BuildBooleanModel
<1>2. Fine(Fail, Gentle, F) /\ Fine(<<>>, Gentle, F)
  BY GoodAlone, GoodIsFine, Zenon
<1>3. ASSUME ~EncodingMissing
      PROVE  Fine(s, Gentle, F)
  <2>1. CallWants("create_boolean_model") \subseteq F /\ CallWants("flat_model_if_none") \subseteq F
    BY <1>3 DEF CallWants, EncodingMissing
  <2>2. Do("flat_model_if_none") \in Good(F) /\ Do("create_boolean_model") \in Good(F)
    BY <2>1, GoodCall DEF Kindly, Procs
  <2>3. s \in Seq(Good(F))
    BY <2>2, List2, Zenon
  <2> QED
    BY <2>3, GoodIsFine, Zenon
<1> QED
  BY <1>1, <1>2, <1>3

LEMMA CreateBooleanModelFine ==
  ASSUME NEW F, <<"env", "bool_enc">> \in F
  PROVE  Fine(CreateBooleanModel, Gentle, F)
<1> DEFINE a == <<"get", "bdd_enc">>
           b == <<"create", "determ">>
           c == <<"get", "sexp_fsm">>
           s == <<a, b, c>>
           k == Catch("boolean_fsm", <<CanThrow>>)
           d == <<"put", "bool_fsm">>
           e == <<"commit", "bool", "determ">>
           f == <<"commit", "bdd", "determ">>
           g == <<"set", "build_bool_model">>
           t == <<d, e, f, g>>
           G == F \cup {<<"env", "bdd_enc">>, <<"env", "sexp_fsm">>}
<1>1. s \in Seq(Good(F))
  <2>1. a \in Good(F) /\ b \in Good(F) /\ c \in Good(F)
    BY GoodMembers DEF Keys, Layers
  <2> QED
    BY <2>1, List3, Zenon
<1>2. k \in Seq(Good(F))
  <2>1. CanThrow \in Straight \cup Leaks
    BY AloneIsCode, Codes
  <2>2. <<CanThrow>> \in Seq(Straight \cup Leaks)
    BY <2>1, List1, Zenon
  <2>3. "boolean_fsm" \in Catches \ {"flatten_hierarchy", "hierarchy", "build_model"}
    BY DEF Catches
  <2> QED
    BY <2>2, <2>3, GoodCatch
<1>3. Fine(s \o k, Gentle, F)
  <2> HIDE DEF s, k
  <2>1. s \o k \in Seq(Good(F))
    BY <1>1, <1>2, Catenation, Zenon
  <2> QED
    BY <2>1, GoodIsFine, Zenon
<1>4. Fine(t, Gentle, G)
  <2>1. d \in Gentle /\ e \in Gentle /\ f \in Gentle /\ g \in Gentle
    BY GentleMembers DEF Keys, Encoders, Layers, Flags
  <2>2. Wants(d) = {}
    BY WantsAre, Parts
  <2>3. Wants(e) = {<<"env", "bool_enc">>} /\ Wants(f) = {<<"env", "bdd_enc">>}
    BY CommitWants
  <2>4. Wants(g) = {<<"env", "bool_fsm">>, <<"env", "sexp_fsm">>, <<"bool", "determ">>,
                    <<"bdd", "determ">>}
    BY WantsAre, PromisedAre
  <2>5. Yield(d) = {<<"env", "bool_fsm">>}
    BY YieldsAre
  <2>6. Yield(e) = {<<"bool", "determ">>, <<"layer", "determ">>}
    BY YieldsAre
  <2>7. Yield(f) = {<<"bdd", "determ">>, <<"layer", "determ">>}
    BY YieldsAre
  <2> HIDE DEF d, e, f, g
  <2>8. Supplied(<<d, e, f, g>>, G)
    BY <2>2, <2>3, <2>4, <2>5, <2>6, <2>7, Supplied4
  <2>9. <<d, e, f, g>> \in Seq(Gentle)
    BY <2>1, List4, Zenon
  <2> QED
    BY <2>8, <2>9 DEF Fine
<1>5. \A x \in G : x \in F \/ \E j \in DOMAIN (s \o k) : x \in Yield((s \o k)[j])
  <2>1. Yield(a) = {<<"env", "bdd_enc">>}
    BY YieldsAre
  <2>2. Yield(c) = {<<"env", "sexp_fsm">>}
    BY YieldsAre
  <2>3. s[1] = a /\ s[3] = c /\ 1 \in DOMAIN s /\ 3 \in DOMAIN s
    OBVIOUS
  <2> HIDE DEF s, k, a, c
  <2>4. \A i \in DOMAIN s : i \in DOMAIN (s \o k) /\ (s \o k)[i] = s[i]
    BY <1>1, <1>2, Places
  <2>5. <<"env", "bdd_enc">> \in Yield((s \o k)[1]) /\ <<"env", "sexp_fsm">> \in Yield((s \o k)[3])
    BY <2>1, <2>2, <2>3, <2>4
  <2>6. 1 \in DOMAIN (s \o k) /\ 3 \in DOMAIN (s \o k)
    BY <2>3, <2>4
  <2> QED
    BY <2>5, <2>6
<1>6. CreateBooleanModel = s \o k \o t
  BY Zenon DEF CreateBooleanModel
<1> HIDE DEF s, k, t, G
<1> QED
  BY <1>3, <1>4, <1>5, <1>6, FineCat, Zenon

LEMMA BmcSetupFine ==
  ASSUME NEW F, NEW forced \in BOOLEAN
  PROVE  Fine(BmcSetup(forced), Gentle, F)
<1> DEFINE h == Do("Bmc_Init")
           a == <<"get", "bool_fsm">>
           b == <<"be fsm", "determ">>
           c == <<"replace", "be_fsm">>
           d == <<"get", "bdd_enc">>
           e == <<"set", "bmc_setup">>
           s == <<a, b, c, d, e>>
<1>1. Fine(s, Gentle, F)
  <2>1. a \in Gentle /\ b \in Gentle /\ c \in Gentle /\ d \in Gentle /\ e \in Gentle
    BY GentleMembers DEF Keys, Layers, Flags
  <2>2. Wants(a) = {} /\ Wants(b) = {} /\ Wants(c) = {} /\ Wants(d) = {}
    BY WantsAre, Parts
  <2>3. Wants(e) = {<<"env", "be_fsm">>, <<"be", "determ">>}
    BY WantsAre, PromisedAre
  <2>4. Yield(b) = {<<"be", "model">>, <<"be", "determ">>}
    BY YieldsAre
  <2>5. Yield(c) = {<<"env", "be_fsm">>}
    BY YieldsAre
  <2> HIDE DEF a, b, c, d, e
  <2>6. Supplied(<<a, b, c, d, e>>, F)
    BY <2>2, <2>3, <2>4, <2>5, Supplied5
  <2>7. <<a, b, c, d, e>> \in Seq(Gentle)
    BY <2>1, List5, Zenon
  <2> QED
    BY <2>6, <2>7 DEF Fine
<1>2. Fine(<<h>>, Gentle, F)
  <2>1. h \in Good(F)
    BY GoodCall DEF Kindly, Procs
  <2> HIDE DEF h
  <2>2. <<h>> \in Seq(Good(F))
    BY <2>1, List1, Zenon
  <2> QED
    BY <2>2, GoodIsFine, Zenon
<1>3. Fine(Fail, Gentle, F) /\ Fine(<<>>, Gentle, F)
  BY GoodAlone, GoodIsFine, Zenon
<1>4. \/ BmcSetup(forced) = Fail \/ BmcSetup(forced) = <<h>> \o <<>>
      \/ BmcSetup(forced) = <<h>> \o s
  BY Zenon DEF BmcSetup
<1> HIDE DEF h, s
<1> QED
  BY <1>1, <1>2, <1>3, <1>4, FineBoth, Zenon

LEMMA BmcInitFine ==
  ASSUME NEW F
  PROVE  Fine(BmcInit, Gentle, F)
<1> DEFINE a == <<"get", "bool_enc">>
           b == <<"put", "be_enc">>
           c == <<"commit", "be", "model">>
           d == <<"commit", "be", "determ">>
           e == <<"set", "bmc_init">>
           s == <<a, b, c>>
           G == F \cup {<<"env", "be_enc">>, <<"be", "model">>}
<1>1. a \in Gentle /\ b \in Gentle /\ c \in Gentle /\ d \in Gentle /\ e \in Gentle
  BY GentleMembers DEF Keys, Layers, Flags, Encoders
<1>2. Wants(a) = {} /\ Wants(b) = {}
  BY WantsAre, Parts
<1>3. Wants(c) = {<<"env", "be_enc">>} /\ Wants(d) = {<<"env", "be_enc">>}
  BY CommitWants
<1>4. Wants(e) = {<<"env", "be_enc">>, <<"be", "model">>}
  BY WantsAre, PromisedAre
<1>5. Yield(b) = {<<"env", "be_enc">>}
  BY YieldsAre
<1>6. Yield(c) = {<<"be", "model">>, <<"layer", "model">>}
  BY YieldsAre
<1>7. \/ BmcInit = <<>> \/ BmcInit = s \o <<>> \o <<e>> \/ BmcInit = s \o <<d>> \o <<e>>
  BY Zenon DEF BmcInit
<1> HIDE DEF a, b, c, d, e
<1>8. Fine(s, Gentle, F)
  <2>1. Supplied(<<a, b, c>>, F)
    BY <1>2, <1>3, <1>5, Supplied3
  <2>2. <<a, b, c>> \in Seq(Gentle)
    BY <1>1, List3, Zenon
  <2> QED
    BY <2>1, <2>2 DEF Fine
<1>9. Fine(<<e>>, Gentle, G) /\ Fine(<<d>>, Gentle, G) /\ Fine(<<>>, Gentle, G)
      /\ Fine(<<>>, Gentle, F)
  <2>1. e \in Good(G) /\ d \in Good(G)
    BY <1>1, <1>3, <1>4 DEF Good
  <2>2. <<e>> \in Seq(Good(G)) /\ <<d>> \in Seq(Good(G))
    BY <2>1, List1, Zenon
  <2> QED
    BY <2>2, GoodAlone, GoodIsFine, Zenon
<1>10. \A x \in G : x \in F \/ \E j \in DOMAIN s : x \in Yield(s[j])
  <2>1. s[2] = b /\ s[3] = c /\ 2 \in DOMAIN s /\ 3 \in DOMAIN s
    OBVIOUS
  <2> HIDE DEF s
  <2> QED
    BY <1>5, <1>6, <2>1
<1> HIDE DEF s, G
<1>11. Fine(<<>> \o <<e>>, Gentle, G) /\ Fine(<<d>> \o <<e>>, Gentle, G)
  BY <1>9, FineBoth, Zenon
<1>12. Fine(s \o (<<>> \o <<e>>), Gentle, F) /\ Fine(s \o (<<d>> \o <<e>>), Gentle, F)
  BY <1>8, <1>10, <1>11, FineCat, Zenon
<1>13. s \o (<<>> \o <<e>>) = s \o <<>> \o <<e>> /\ s \o (<<d>> \o <<e>>) = s \o <<d>> \o <<e>>
  <2>1. s \in Seq(Gentle) /\ <<e>> \in Seq(Gentle) /\ <<d>> \in Seq(Gentle) /\ <<>> \in Seq(Gentle)
    BY <1>8, <1>9 DEF Fine
  <2> QED
    BY <2>1, ConcatAssociative
<1> QED
  BY <1>7, <1>9, <1>12, <1>13, Zenon

LEMMA CheckCtlspecFine ==
  ASSUME NEW F, ~ModelMissing(FALSE) => <<"layer", "model">> \in F
  PROVE  Fine(CheckCtlspec, Gentle, F)
<1> DEFINE a == Do("apply_coi_for_bdd")
           s == <<Do("environment_fsms_if_no_bdd"), <<"has machine", "bdd">>, <<"verdict">> >>
<1>1. <<"layer", "model">> \in F => Fine(<<a>>, Gentle, F)
  <2>1. SUFFICES ASSUME <<"layer", "model">> \in F PROVE Fine(<<a>>, Gentle, F)
    OBVIOUS
  <2>2. CallWants("apply_coi_for_bdd") \subseteq F
    BY <2>1 DEF CallWants
  <2>3. a \in Good(F)
    BY <2>2, GoodCall DEF Kindly, Procs
  <2> HIDE DEF a
  <2>4. <<a>> \in Seq(Good(F))
    BY <2>3, List1, Zenon
  <2> QED
    BY <2>4, GoodIsFine, Zenon
<1>2. Fine(s, Gentle, F)
  <2>1. Do("environment_fsms_if_no_bdd") \in Good(F)
    BY GoodCall DEF Kindly, Procs
  <2>2. <<"has machine", "bdd">> \in Good(F) /\ <<"verdict">> \in Good(F)
    BY GoodMembers, GoodAlone DEF Machines
  <2>3. s \in Seq(Good(F))
    BY <2>1, <2>2, List3, Zenon
  <2> QED
    BY <2>3, GoodIsFine, Zenon
<1>3. Fine(Fail, Gentle, F) /\ Fine(<<>>, Gentle, F)
  BY GoodAlone, GoodIsFine, Zenon
<1>4. \/ CheckCtlspec = Fail \/ CheckCtlspec = <<>>
      \/ CheckCtlspec = <<>> \o s
      \/ ~ModelMissing(FALSE) /\ CheckCtlspec = <<a>> \o s
  BY Zenon DEF CheckCtlspec
<1> HIDE DEF a, s
<1> QED
  BY <1>1, <1>2, <1>3, <1>4, FineBoth, Zenon

LEMMA CheckLtlspecBmcFine ==
  ASSUME NEW F, ~BmcMissing(FALSE) => <<"env", "bool_enc">> \in F
  PROVE  Fine(CheckLtlspecBmc, Gentle, F)
<1> DEFINE a == Do("apply_coi_for_bmc")
           s == <<Do("environment_fsms_if_no_be"), <<"has machine", "be">>,
                  Do("rewriter"), May(<<"verdict">>)>>
<1>1. ASSUME <<"env", "bool_enc">> \in F
      PROVE  Fine(<<a>>, Gentle, F) /\ Fine(s, Gentle, F)
  <2>1. CallWants("apply_coi_for_bmc") \subseteq F /\ CallWants("rewriter") \subseteq F
    BY <1>1 DEF CallWants
  <2>2. a \in Good(F) /\ Do("rewriter") \in Good(F) /\ Do("environment_fsms_if_no_be") \in Good(F)
    BY <2>1, GoodCall DEF Kindly, Procs
  <2>3. <<"has machine", "be">> \in Good(F)
    BY GoodMembers DEF Machines
  <2>4. May(<<"verdict">>) \in Good(F)
    <3>1. <<"verdict">> \in Simple /\ <<"verdict">>[1] = "verdict"
      BY AloneIsCode, Kind1
    <3>2. May(<<"verdict">>) \in Gentle
      BY <3>1, GentleMay
    <3>3. SimpleWants(<<"verdict">>) = {}
      BY <3>1 DEF SimpleWants
    <3> QED
      BY <3>2, <3>3, WantsAre DEF Good
  <2>5. s \in Seq(Good(F))
    BY <2>2, <2>3, <2>4, List4, Zenon
  <2> HIDE DEF a, s
  <2>6. <<a>> \in Seq(Good(F))
    BY <2>2, List1, Zenon
  <2> QED
    BY <2>5, <2>6, GoodIsFine, Zenon
<1>2. Fine(Fail, Gentle, F) /\ Fine(<<>>, Gentle, F)
  BY GoodAlone, GoodIsFine, Zenon
<1>3. \/ CheckLtlspecBmc = Fail \/ CheckLtlspecBmc = <<>>
      \/ ~BmcMissing(FALSE) /\ CheckLtlspecBmc \in {<<>> \o s, <<a>> \o s}
  BY Zenon DEF CheckLtlspecBmc
<1> HIDE DEF a, s
<1>4. ASSUME ~BmcMissing(FALSE)
      PROVE  Fine(<<>> \o s, Gentle, F) /\ Fine(<<a>> \o s, Gentle, F)
  BY <1>1, <1>2, <1>4, FineBoth, Zenon
<1> QED
  BY <1>2, <1>3, <1>4

LEMMA ApplyCoiForScalarFine ==
  ASSUME NEW F
  PROVE  Fine(ApplyCoiForScalar, Gentle, F)
<1>1. <<"get", "flat_hierarchy">> \in Good(F) /\ <<"own", "scalar">> \in Good(F)
  BY GoodMembers DEF Keys, Machines
<1>2. ApplyCoiForScalar \in Seq(Good(F))
  BY <1>1, List2, Zenon DEF ApplyCoiForScalar
<1> QED
  BY <1>2, GoodIsFine, Zenon

LEMMA ApplyCoiForBddFine ==
  ASSUME NEW F, <<"layer", "model">> \in F
  PROVE  Fine(ApplyCoiForBdd, Gentle, F)
<1> DEFINE h == Do("apply_coi_for_scalar")
           a == <<"get", "bdd_enc">>
           b == <<"lazy commit", "model">>
           c == <<"own", "bdd">>
           s == <<a, b, c>>
<1>1. Fine(s, Gentle, F)
  <2>1. a \in Gentle /\ b \in Gentle /\ c \in Gentle
    BY GentleMembers DEF Keys, Layers, Machines
  <2>2. Wants(a) = {}
    BY WantsAre, Parts
  <2>3. Wants(b) = {<<"env", "bdd_enc">>, <<"layer", "model">>}
    BY WantsAre
  <2>4. Wants(c) = {}
    BY WantsAre
  <2>5. Yield(a) = {<<"env", "bdd_enc">>}
    BY YieldsAre
  <2> HIDE DEF a, b, c
  <2>6. Supplied(<<a, b, c>>, F)
    BY <2>2, <2>3, <2>4, <2>5, Supplied3
  <2>7. <<a, b, c>> \in Seq(Gentle)
    BY <2>1, List3, Zenon
  <2> QED
    BY <2>6, <2>7 DEF Fine
<1>2. Fine(<<h>>, Gentle, F)
  <2>1. h \in Good(F)
    BY GoodCall DEF Kindly, Procs
  <2> HIDE DEF h
  <2>2. <<h>> \in Seq(Good(F))
    BY <2>1, List1, Zenon
  <2> QED
    BY <2>2, GoodIsFine, Zenon
<1>3. Fine(<<>>, Gentle, F)
  BY GoodAlone, GoodIsFine, Zenon
<1>4. ApplyCoiForBdd = (IF prop.fsm["scalar"] = "none" THEN <<h>> ELSE <<>>)
                       \o (IF prop.fsm["bdd"] = "none" THEN s ELSE <<>>)
  BY Zenon DEF ApplyCoiForBdd
<1> HIDE DEF h, s
<1>5. \/ ApplyCoiForBdd = <<h>> \o s \/ ApplyCoiForBdd = <<h>> \o <<>>
      \/ ApplyCoiForBdd = <<>> \o s \/ ApplyCoiForBdd = <<>> \o <<>>
  BY <1>4, Zenon
<1> QED
  BY <1>1, <1>2, <1>3, <1>5, FineBoth, Zenon

(* The machine of the cone: eleven effects, four of which want something.  *)
LEMMA Supplied11 ==
  ASSUME NEW F, NEW a, NEW b, NEW c, NEW d, NEW e, NEW f, NEW g, NEW h, NEW i, NEW j, NEW k,
         Wants(a) = {}, Wants(b) = {}, Wants(c) = {}, Wants(d) = {},
         Wants(e) \subseteq F, Wants(f) \subseteq F, Wants(g) \subseteq F \cup Yield(c),
         Wants(h) \subseteq Yield(e) \cup Yield(f) \cup Yield(g),
         Wants(i) = {}, Wants(j) = {}, Wants(k) = {}
  PROVE  Supplied(<<a, b, c, d, e, f, g, h, i, j, k>>, F)
<1> DEFINE s == <<a, b, c, d, e, f, g, h, i, j, k>>
<1>1. /\ DOMAIN s = 1 .. 11 /\ s[1] = a /\ s[2] = b /\ s[3] = c /\ s[4] = d /\ s[5] = e
      /\ s[6] = f /\ s[7] = g /\ s[8] = h /\ s[9] = i /\ s[10] = j /\ s[11] = k
  OBVIOUS
<1> HIDE DEF s
<1>2. SUFFICES ASSUME NEW n \in 1 .. 11, NEW w \in Wants(s[n])
               PROVE  w \in F \/ \E m \in 1 .. n - 1 : w \in Yield(s[m])
  BY <1>1 DEF Supplied, s
<1>3. CASE n \in {5, 6}
  BY <1>1, <1>2, <1>3
<1>4. CASE n = 7
  BY <1>1, <1>2, <1>4
<1>5. CASE n = 8
  BY <1>1, <1>2, <1>5
<1>6. CASE n \notin {5, 6, 7, 8}
  <2>1. n \in {1, 2, 3, 4, 9, 10, 11}
    BY <1>6
  <2> QED
    BY <1>1, <1>2, <2>1
<1> QED
  BY <1>3, <1>4, <1>5, <1>6

(* What a property keeps for BMC wants the boolean encoder.                *)
LEMMA ApplyCoiForBmcFine ==
  ASSUME NEW F, <<"env", "bool_enc">> \in F
  PROVE  Fine(ApplyCoiForBmc, Gentle, F)
<1> DEFINE o == <<"get", "be_enc">>
           a == <<"get", "flat_hierarchy">>
           b == <<"create", "determ_p">>
           c == <<"get", "bdd_enc">>
           d == CanThrow
           e == <<"commit", "bool", "determ_p">>
           f == <<"commit", "be", "determ_p">>
           g == <<"commit", "bdd", "determ_p">>
           h == <<"own", "bool">>
           i == <<"no machine", "be">>
           j == <<"be fsm", "determ_p">>
           k == <<"own", "be">>
           l == <<"be fsm", "determ">>
           s == <<a, b, c, d, e, f, g, h, i, j, k>>
           G == F \cup {<<"env", "be_enc">>}
<1>1. /\ o \in Good(F) /\ a \in Gentle /\ b \in Gentle /\ c \in Gentle /\ d \in Gentle
  BY GentleMembers, GentleAlone, GoodMembers DEF Keys, Layers
<1>2. e \in Gentle /\ f \in Gentle /\ g \in Gentle /\ h \in Gentle /\ i \in Gentle
  BY GentleMembers DEF Encoders, Layers, Machines
<1>3. j \in Good(G) /\ k \in Good(G) /\ l \in Good(G)
  BY GoodMembers DEF Layers, Machines
<1>4. Wants(a) = {} /\ Wants(b) = {} /\ Wants(c) = {} /\ Wants(i) = {} /\ Wants(j) = {}
  BY WantsAre, Parts
<1>5. Wants(d) = {}
  BY WantsAre, Kind1 DEF CanThrow
<1>6. Wants(k) = {}
  BY WantsAre
<1>7. /\ Wants(e) = {<<"env", "bool_enc">>} /\ Wants(f) = {<<"env", "be_enc">>}
      /\ Wants(g) = {<<"env", "bdd_enc">>}
  BY CommitWants
<1>8. Wants(h) = {<<"bool", "determ_p">>, <<"bdd", "determ_p">>, <<"be", "determ_p">>}
  <2>1. Wants(h) = {<<x, "determ_p">> : x \in Encoders}
    BY WantsAre
  <2> QED
    BY <2>1 DEF Encoders
<1>9. Yield(c) = {<<"env", "bdd_enc">>}
  BY YieldsAre
<1>10. Yield(e) = {<<"bool", "determ_p">>, <<"layer", "determ_p">>}
  BY YieldsAre
<1>11. Yield(f) = {<<"be", "determ_p">>, <<"layer", "determ_p">>}
  BY YieldsAre
<1>12. Yield(g) = {<<"bdd", "determ_p">>, <<"layer", "determ_p">>}
  BY YieldsAre
<1>13. Yield(o) = {<<"env", "be_enc">>}
  BY YieldsAre
<1>14. \/ ApplyCoiForBmc = <<o>> \o s \/ ApplyCoiForBmc = <<o>> \o <<j, k>>
       \/ ApplyCoiForBmc = <<o>> \o <<l, k>> \/ ApplyCoiForBmc = <<o>> \o <<>>
  BY Zenon DEF ApplyCoiForBmc
<1> HIDE DEF a, b, c, d, e, f, g, h, i, j, k, l, o
<1>15. Fine(s, Gentle, G)
  <2>1. Supplied(<<a, b, c, d, e, f, g, h, i, j, k>>, G)
    BY <1>4, <1>5, <1>6, <1>7, <1>8, <1>9, <1>10, <1>11, <1>12, Supplied11
  <2>2. j \in Gentle /\ k \in Gentle
    BY <1>3 DEF Good
  <2>3. <<a, b, c, d, e, f, g, h, i, j, k>> \in Seq(Gentle)
    BY <1>1, <1>2, <2>2, List11, Zenon
  <2> QED
    BY <2>1, <2>3 DEF Fine
<1>16. Fine(<<j, k>>, Gentle, G) /\ Fine(<<l, k>>, Gentle, G) /\ Fine(<<>>, Gentle, G)
  <2>1. <<j, k>> \in Seq(Good(G)) /\ <<l, k>> \in Seq(Good(G)) /\ <<>> \in Seq(Good(G))
    BY <1>3, List2, GoodAlone, Zenon
  <2> QED
    BY <2>1, GoodIsFine, Zenon
<1>17. Fine(<<o>>, Gentle, F)
  <2>1. <<o>> \in Seq(Good(F))
    BY <1>1, List1, Zenon
  <2> QED
    BY <2>1, GoodIsFine, Zenon
<1>18. \A x \in G : x \in F \/ \E n \in DOMAIN <<o>> : x \in Yield(<<o>>[n])
  <2>1. 1 \in DOMAIN <<o>> /\ <<o>>[1] = o
    OBVIOUS
  <2> QED
    BY <1>13, <2>1
<1> HIDE DEF s, G
<1> QED
  BY <1>14, <1>15, <1>16, <1>17, <1>18, FineCat, Zenon

LEMMA EnvironmentFsmsFine ==
  ASSUME NEW F, NEW m \in Machines
  PROVE  Fine(EnvironmentFsms(m), Gentle, F)
<1>1. << <<"copy machines">> >> \in Seq(Good(F))
  BY GoodAlone, List1, Zenon
<1>2. EnvironmentFsms(m) \in Seq(Good(F))
  BY <1>1, GoodAlone DEF EnvironmentFsms
<1> QED
  BY <1>2, GoodIsFine, Zenon

LEMMA RewriterInitFine ==
  ASSUME NEW F, <<"env", "bool_enc">> \in F
  PROVE  Fine(RewriterInit, Gentle, F)
<1>1. CallWants("apply_coi_for_bmc") \subseteq F
  BY DEF CallWants
<1>2. Do("apply_coi_for_scalar") \in Good(F) /\ Do("apply_coi_for_bmc") \in Good(F)
  BY <1>1, GoodCall DEF Kindly, Procs
<1>3. /\ <<"copy if any", "scalar">> \in Good(F) /\ <<"copy if any", "bool">> \in Good(F)
      /\ <<"has machine", "be">> \in Good(F) /\ <<"has machine", "bool">> \in Good(F)
  BY GoodMembers DEF Machines
<1> DEFINE a == <<Do("apply_coi_for_scalar")>>
           b == <<Do("apply_coi_for_bmc")>>
           c == << <<"copy if any", "scalar">> >>
           d == << <<"copy if any", "bool">> >>
           t == << <<"has machine", "be">>, <<"has machine", "bool">> >>
<1>4. /\ a \in Seq(Good(F)) /\ b \in Seq(Good(F)) /\ c \in Seq(Good(F)) /\ d \in Seq(Good(F))
      /\ t \in Seq(Good(F)) /\ <<>> \in Seq(Good(F))
  BY <1>2, <1>3, List1, List2, GoodAlone, Zenon
<1>5. RewriterInit = (IF prop.fsm["scalar"] # "none" THEN <<>> ELSE IF coi THEN a ELSE c)
                     \o (IF prop.fsm["bool"] # "none" THEN <<>> ELSE IF coi THEN b ELSE d)
                     \o t
  BY Zenon DEF RewriterInit
<1> HIDE DEF a, b, c, d, t
<1>6. RewriterInit \in Seq(Good(F))
  <2> DEFINE u == IF prop.fsm["scalar"] # "none" THEN <<>> ELSE IF coi THEN a ELSE c
             v == IF prop.fsm["bool"] # "none" THEN <<>> ELSE IF coi THEN b ELSE d
  <2>1. u \in Seq(Good(F)) /\ v \in Seq(Good(F))
    BY <1>4, Zenon
  <2> HIDE DEF u, v
  <2>2. u \o v \o t \in Seq(Good(F))
    BY <1>4, <2>1, Catenation, Zenon
  <2> QED
    BY <1>5, <2>2 DEF u, v
<1> QED
  BY <1>6, GoodIsFine, Zenon

(* Readers want nothing of the flags: they ask for what they read.         *)
LEMMA ReadersFine ==
  ASSUME NEW F
  PROVE  /\ Fine(ComputeReachable, Gentle, F) /\ Fine(WriteOrder, Gentle, F)
         /\ Fine(WriteFlatModel, Gentle, F) /\ Fine(WriteBooleanModel, Gentle, F)
         /\ Fine(BmcPickState, Gentle, F) /\ Fine(ReadTrace, Gentle, F)
<1>1. /\ <<"bdd_fsm">> \in Seq(Keys) /\ <<"bdd_enc">> \in Seq(Keys)
      /\ <<"flat_hierarchy">> \in Seq(Keys) /\ <<"sexp_fsm">> \in Seq(Keys)
      /\ <<"bool_enc", "bdd_enc", "bool_fsm">> \in Seq(Keys)
      /\ <<"be_enc", "bdd_enc", "be_fsm">> \in Seq(Keys)
  BY DEF Keys
<1>2. /\ ModelMissing(TRUE) \in BOOLEAN /\ EncodingMissing \in BOOLEAN
      /\ FlatteningMissing \in BOOLEAN /\ BoolModelMissing(TRUE) \in BOOLEAN
      /\ BmcMissing(TRUE) \in BOOLEAN /\ ("build_flat_model" \notin flags /\ ~coi) \in BOOLEAN
  BY Zenon DEF ModelMissing, EncodingMissing, FlatteningMissing, BoolModelMissing, BmcMissing
<1>3. ASSUME NEW missing \in BOOLEAN, NEW keys \in Seq(Keys)
      PROVE  Fine(Reader(missing, keys), Gentle, F)
  <2>0. \A k \in Keys : <<"get", k>> \in Good(F)
    BY GoodMembers
  <2>1. \A i \in DOMAIN keys : <<"get", keys[i]>> \in Good(F)
    BY <2>0
  <2>2. DOMAIN keys = 1 .. Len(keys) /\ Len(keys) \in Nat
    OBVIOUS
  <2>3. [i \in DOMAIN keys |-> <<"get", keys[i]>>] \in [1 .. Len(keys) -> Good(F)]
    BY <2>1, <2>2
  <2>4. [i \in DOMAIN keys |-> <<"get", keys[i]>>] \in Seq(Good(F))
    BY <2>2, <2>3, SeqDef
  <2>5. Reader(missing, keys) \in Seq(Good(F))
    BY <2>4, GoodAlone DEF Reader
  <2> QED
    BY <2>5, GoodIsFine, Zenon
<1> QED
  BY <1>1, <1>2, <1>3, Zenon
     DEF ComputeReachable, WriteOrder, WriteFlatModel, WriteBooleanModel, BmcPickState, ReadTrace

LEMMA PrintReachableStatesFine ==
  ASSUME NEW F, Leaky \in Commands
  PROVE  Fine(PrintReachableStates, Gentle, F)
<1> DEFINE b == << <<"may return in catch">>, <<"get", "bdd_fsm">> >>
<1>1. <<"get", "bdd_fsm">> \in Straight
  BY Members, Codes DEF Keys
<1>2. <<"may return in catch">> \in Leaks
  BY DEF Leaks
<1>3. b \in Seq(Straight \cup Leaks)
  <2>1. /\ <<"may return in catch">> \in Straight \cup Leaks
        /\ <<"get", "bdd_fsm">> \in Straight \cup Leaks
    BY <1>1, <1>2
  <2> QED
    BY <2>1, List2, Zenon
<1> HIDE DEF b
<1>4. "print_reachable_states" \in Catches \ {"flatten_hierarchy", "hierarchy", "build_model"}
  BY DEF Catches, Leaky
<1>5. Catch("print_reachable_states", b) \in Seq(Good(F))
  BY <1>3, <1>4, GoodCatch
<1>6. PrintReachableStates \in Seq(Good(F))
  BY <1>5, GoodAlone DEF PrintReachableStates, b
<1> QED
  BY <1>6, GoodIsFine, Zenon

(***************************************************************************)
(* The functions that may come to a reset, and those that run commands.    *)
(***************************************************************************)
Soft == {e \in Mild : ~Opens(e)}
Bold == {e \in Mild : ~Danger(e)}

LEMMA GentleIsBoth == Gentle \subseteq Soft /\ Gentle \subseteq Bold /\ Soft \subseteq Mild /\ Bold \subseteq Mild
BY DEF Gentle, Soft, Bold

LEMMA SoftCatch ==
  ASSUME NEW F, NEW h \in Catches \ {"build_model"}, NEW b \in Seq(Straight \cup Leaks)
  PROVE  Fine(Catch(h, b), Soft, F)
<1> DEFINE e == <<"catch", h, b>>
<1>1. e \in Mild /\ e[1] = "catch"
  BY GentleCatch, Parts
<1>2. Wants(e) = {}
  BY WantsAre
<1>3. Catch(h, b) = <<e>>
  BY DEF Catch
<1> HIDE DEF e
<1>4. e \in Soft
  BY <1>1 DEF Soft, Opens
<1>5. <<e>> \in Seq(Soft)
  BY <1>4, List1, Zenon
<1>6. Supplied(<<e>>, F)
  BY <1>2, Supplied1
<1> QED
  BY <1>3, <1>5, <1>6 DEF Fine

LEMMA FlattenHierarchyFine ==
  ASSUME NEW F
  PROVE  Fine(FlattenHierarchy, Soft, F)
<1>1. Do("flatten_smv") \in Straight \cup Leaks
  BY Members, Codes DEF Procs
<1>2. <<Do("flatten_smv")>> \in Seq(Straight \cup Leaks)
  BY <1>1, List1, Zenon
<1>3. Fine(Catch("flatten_hierarchy", <<Do("flatten_smv")>>), Soft, F)
  BY <1>2, SoftCatch DEF Catches
<1>4. Fine(Fail, Gentle, F)
  BY GoodAlone, GoodIsFine, Zenon
<1>5. Fine(Fail, Soft, F)
  BY <1>4, GentleIsBoth, FineMore
<1> QED
  BY <1>3, <1>5, Zenon DEF FlattenHierarchy

(* With the facts F, or from the list b, all of G holds behind it.         *)
Makes(b, F, G) == \A f \in G : f \in F \/ \E j \in DOMAIN b : f \in Yield(b[j])

LEMMA FineThen ==
  ASSUME NEW S, NEW b, NEW t, NEW F, NEW G, Fine(b, S, F), Makes(b, F, G), Fine(t, S, G)
  PROVE  Fine(b \o t, S, F) /\ Makes(b \o t, F, G)
<1>1. Fine(b \o t, S, F)
  BY FineCat, Zenon DEF Makes
<1>2. b \in Seq(S) /\ t \in Seq(S)
  BY DEF Fine
<1>3. \A i \in DOMAIN b : i \in DOMAIN (b \o t) /\ (b \o t)[i] = b[i]
  BY <1>2, Places
<1> QED
  BY <1>1, <1>3 DEF Makes

LEMMA FlattenSmvFine ==
  ASSUME NEW F
  PROVE  Fine(FlattenSmv, Soft, F)
<1> DEFINE a == <<"put", "flattener">>
           b == <<"get", "hrc">>
           c == <<"create", "model">>
           d == <<"absent", "flat_hierarchy">>
           s == <<a, b, c, d>>
           k == Catch("hierarchy", <<CanThrow>>)
           n == <<"remove", "hrc">>
           m == <<May(n)>>
           l == Catch("fill", << <<"new property">>, CanThrow>>)
           x == <<"put", "flat_hierarchy">>
           y == <<"set", "hrc_built">>
           z == May(<<"set", "flatten_hrc">>)
           t == <<x, y, z>>
           G == F \cup {<<"env", "flattener">>, <<"layer", "model">>}
<1>1. FlattenSmv = s \o k \o m \o l \o t
  BY Zenon DEF FlattenSmv
<1>2. Fine(s, Soft, F)
  <2>1. a \in Good(F) /\ b \in Good(F) /\ c \in Good(F) /\ d \in Good(F)
    BY GoodMembers DEF Keys, Layers
  <2> HIDE DEF a, b, c, d
  <2>2. <<a, b, c, d>> \in Seq(Good(F))
    BY <2>1, List4, Zenon
  <2>3. Fine(s, Gentle, F)
    BY <2>2, GoodIsFine, Zenon
  <2> QED
    BY <2>3, GentleIsBoth, FineMore
<1>3. Fine(k, Soft, G)
  <2>1. CanThrow \in Straight \cup Leaks
    BY AloneIsCode, Codes
  <2>2. <<CanThrow>> \in Seq(Straight \cup Leaks)
    BY <2>1, List1, Zenon
  <2> QED
    BY <2>2, SoftCatch DEF Catches
<1>4. Fine(l, Soft, G)
  <2>1. CanThrow \in Straight \cup Leaks /\ <<"new property">> \in Straight \cup Leaks
    BY AloneIsCode, Codes
  <2>2. << <<"new property">>, CanThrow>> \in Seq(Straight \cup Leaks)
    BY <2>1, List2, Zenon
  <2> QED
    BY <2>2, SoftCatch DEF Catches
<1>5. Fine(m, Soft, G)
  <2>1. n \in Simple /\ n[1] = "remove" /\ n[2] = "hrc"
    BY Members, Parts DEF Keys
  <2> HIDE DEF n
  <2>2. May(n) \in Gentle
    BY <2>1, GentleMay
  <2>3. Wants(May(n)) = {}
    BY <2>1, WantsAre DEF SimpleWants
  <2>4. May(n) \in Good(G)
    BY <2>2, <2>3 DEF Good
  <2>5. m \in Seq(Good(G))
    BY <2>4, List1, Zenon
  <2> HIDE DEF m
  <2>6. Fine(m, Gentle, G)
    BY <2>5, GoodIsFine, Zenon
  <2> QED
    BY <2>6, GentleIsBoth, FineMore
<1>6. Fine(t, Soft, G)
  <2>1. x \in Gentle /\ y \in Gentle
    BY GentleMembers DEF Keys, Flags
  <2>2. z \in Gentle
    <3>1. <<"set", "flatten_hrc">> \in Simple /\ <<"set", "flatten_hrc">>[1] = "set"
      BY Members, Parts DEF Flags
    <3> QED
      BY <3>1, GentleMay
  <2>3. Wants(x) = {}
    BY WantsAre, Parts
  <2>4. Wants(y) = {<<"env", "flat_hierarchy">>}
    BY WantsAre, PromisedAre
  <2>5. Wants(z) = {<<"env", "flat_hierarchy">>, <<"env", "flattener">>, <<"layer", "model">>}
    <3>1. <<"set", "flatten_hrc">>[1] # "may"
      BY Parts
    <3>2. Wants(<<"set", "flatten_hrc">>) =
            {<<"env", "flat_hierarchy">>, <<"env", "flattener">>, <<"layer", "model">>}
      BY WantsAre, PromisedAre
    <3> QED
      BY <3>1, <3>2, WantsAre
  <2>6. Yield(x) = {<<"env", "flat_hierarchy">>}
    BY YieldsAre
  <2> HIDE DEF x, y, z
  <2>7. Supplied(<<x, y, z>>, G)
    BY <2>3, <2>4, <2>5, <2>6, Supplied3
  <2>8. <<x, y, z>> \in Seq(Gentle)
    BY <2>1, <2>2, List3, Zenon
  <2>9. Fine(t, Gentle, G)
    BY <2>7, <2>8 DEF Fine
  <2> QED
    BY <2>9, GentleIsBoth, FineMore
<1>7. Makes(s, F, G)
  <2>1. Yield(a) = {<<"env", "flattener">>}
    BY YieldsAre
  <2>2. Yield(c) = {<<"layer", "model">>}
    BY YieldsAre
  <2>3. s[1] = a /\ s[3] = c /\ 1 \in DOMAIN s /\ 3 \in DOMAIN s
    OBVIOUS
  <2> HIDE DEF s, a, c
  <2> QED
    BY <2>1, <2>2, <2>3 DEF Makes
<1> HIDE DEF s, k, m, l, t, G
<1>8. Fine(s \o k, Soft, F) /\ Makes(s \o k, F, G)
  BY <1>2, <1>3, <1>7, FineThen
<1>9. Fine(s \o k \o m, Soft, F) /\ Makes(s \o k \o m, F, G)
  BY <1>5, <1>8, FineThen
<1>10. Fine(s \o k \o m \o l, Soft, F) /\ Makes(s \o k \o m \o l, F, G)
  BY <1>4, <1>9, FineThen
<1>11. Fine(s \o k \o m \o l \o t, Soft, F)
  BY <1>6, <1>10, FineThen
<1> QED
  BY <1>1, <1>11

LEMMA GoFine ==
  ASSUME NEW F
  PROVE  Fine(Go, Bold, F) /\ Fine(GoBmc, Bold, F)
<1>1. ASSUME NEW f \in Flags, NEW p \in UserCommands \ {Leaky}
      PROVE  Unless(f, p) \in Bold /\ Wants(Unless(f, p)) = {}
  <2> DEFINE e == <<"unless", f, p>>
  <2>0. Unless(f, p) = e
    BY DEF Unless
  <2>1. e \in Effects
    BY <2>0, Members, EffectsAre
  <2>2. e[1] = "unless"
    BY Parts
  <2> HIDE DEF e
  <2>3. e # Last
    BY <2>1, <2>2, Kinds
  <2>4. ~Loses(e) /\ Proper(e) /\ ~Danger(e)
    BY <2>2, <2>3 DEF Loses, Proper, Danger
  <2>5. Wants(e) = {}
    BY <2>2, WantsAre
  <2> QED
    BY <2>0, <2>1, <2>4, <2>5 DEF Bold, Mild
<1>2. ASSUME NEW s \in Seq({e \in Bold : Wants(e) = {}})
      PROVE  Fine(s, Bold, F)
  <2>1. s \in Seq(Bold) /\ \A i \in DOMAIN s : Wants(s[i]) = {}
    <3>1. \A i \in DOMAIN s : s[i] \in {e \in Bold : Wants(e) = {}}
      OBVIOUS
    <3>2. {e \in Bold : Wants(e) = {}} \subseteq Bold
      OBVIOUS
    <3> QED
      BY <3>1, <3>2, SeqMonotonic
  <2> QED
    BY <2>1 DEF Fine, Supplied
<1> DEFINE B == {e \in Bold : Wants(e) = {}}
<1>3. /\ Unless("read_model", "read_model") \in B
      /\ Unless("flatten_hrc", "flatten_hierarchy") \in B
      /\ Unless("build_flat_model", "build_flat_model") \in B
      /\ Unless("encode_variables", "encode_variables") \in B
      /\ Unless("build_model", "build_model") \in B
      /\ Unless("build_bool_model", "build_boolean_model") \in B
      /\ Unless("bmc_setup", "bmc_setup") \in B
  BY <1>1 DEF Flags, UserCommands, Leaky
<1> HIDE DEF B
<1>4. Go \in Seq(B)
  BY <1>3, List5, Zenon DEF Go
<1>5. GoBmc \in Seq(B)
  BY <1>3, List5, Zenon DEF GoBmc
<1> QED
  BY <1>2, <1>4, <1>5 DEF B

(* What the flags say of the encoders and the layer of the model.          *)
Basics == {<<"env", "bool_enc">>, <<"env", "bdd_enc">>, <<"layer", "model">>}
Encoded == "encode_variables" \in flags \/ ~ModelMissing(FALSE) \/ ~BmcMissing(FALSE)

(* What every function does but reset.                                     *)
LEMMA BodyIsFine ==
  ASSUME NEW p \in Procs \ {"reset"}, NEW F, CallWants(p) \subseteq F, Encoded => Basics \subseteq F
  PROVE  /\ p \in Kindly => Fine(Body(p), Gentle, F)
         /\ p \in {"flatten_hierarchy", "flatten_smv"} => Fine(Body(p), Soft, F)
         /\ p \in {"go", "go_bmc"} => Fine(Body(p), Bold, F)
<1>1. /\ "encode_variables" \in flags => Basics \subseteq F
      /\ ~ModelMissing(FALSE) => Basics \subseteq F
      /\ ~BmcMissing(FALSE) => Basics \subseteq F
  BY DEF Encoded
<1>2. Basics \subseteq F => /\ {<<"env", "bdd_enc">>, <<"layer", "model">>} \subseteq F
                            /\ <<"env", "bool_enc">> \in F /\ <<"layer", "model">> \in F
  BY DEF Basics
<1>3. {} \subseteq F /\ Gentle \subseteq Gentle
  OBVIOUS
<1>4. CASE p \in {"read_model", "encode_variables", "build_flat_model", "create_flat_model",
                  "flat_model_if_none"}
  <2>1. /\ Fine(ReadModel, Gentle, F) /\ Fine(EncodeVariables, Gentle, F)
        /\ Fine(BuildFlatModel, Gentle, F) /\ Fine(CreateFlatModel, Gentle, F)
        /\ Fine(FlatModelIfNone, Gentle, F)
    BY <1>3, FineMore, ReadModelFine, EncodeVariablesFine, CreateFlatModelFine, FlatModelFine
  <2>2. Body(p) \in {ReadModel, EncodeVariables, BuildFlatModel, CreateFlatModel, FlatModelIfNone}
    BY <1>4 DEF Body
  <2>3. p \notin {"flatten_hierarchy", "flatten_smv", "go", "go_bmc"}
    BY <1>4
  <2> QED
    BY <2>1, <2>2, <2>3
<1>5. CASE p \in {"build_model", "build_model -f", "build_boolean_model", "build_boolean_model -f",
                  "create_boolean_model"}
  <2>1. ASSUME NEW forced \in BOOLEAN
        PROVE  Fine(BuildModel(forced), Gentle, F) /\ Fine(BuildBooleanModel(forced), Gentle, F)
    BY <1>1, <1>2, BuildModelCall, BuildBooleanModelFine
  <2>2. p = "create_boolean_model" => Fine(CreateBooleanModel, Gentle, F)
    <3>1. p = "create_boolean_model" => <<"env", "bool_enc">> \in F
      BY DEF CallWants
    <3> QED
      BY <3>1, CreateBooleanModelFine
  <2>3. \/ p = "create_boolean_model" /\ Body(p) = CreateBooleanModel
        \/ Body(p) \in {BuildModel(FALSE), BuildModel(TRUE), BuildBooleanModel(FALSE),
                        BuildBooleanModel(TRUE)}
    BY <1>5 DEF Body
  <2>4. p \notin {"flatten_hierarchy", "flatten_smv", "go", "go_bmc"}
    BY <1>5
  <2>5. TRUE \in BOOLEAN /\ FALSE \in BOOLEAN
    OBVIOUS
  <2> QED
    BY <2>1, <2>2, <2>3, <2>4, <2>5
<1>6. CASE p \in {"bmc_setup", "bmc_setup -f", "Bmc_Init"}
  <2>1. /\ Fine(BmcSetup(FALSE), Gentle, F) /\ Fine(BmcSetup(TRUE), Gentle, F)
        /\ Fine(BmcInit, Gentle, F)
    BY BmcSetupFine, BmcInitFine
  <2>2. Body(p) \in {BmcSetup(FALSE), BmcSetup(TRUE), BmcInit}
    BY <1>6 DEF Body
  <2>3. p \notin {"flatten_hierarchy", "flatten_smv", "go", "go_bmc"}
    BY <1>6
  <2> QED
    BY <2>1, <2>2, <2>3
<1>7. CASE p \in {"check_ctlspec", "check_ltlspec_bmc", "apply_coi_for_scalar"}
  <2>1. /\ Fine(CheckCtlspec, Gentle, F) /\ Fine(CheckLtlspecBmc, Gentle, F)
        /\ Fine(ApplyCoiForScalar, Gentle, F)
    BY <1>1, <1>2, CheckCtlspecFine, CheckLtlspecBmcFine, ApplyCoiForScalarFine
  <2>2. Body(p) \in {CheckCtlspec, CheckLtlspecBmc, ApplyCoiForScalar}
    BY <1>7 DEF Body
  <2>3. p \notin {"flatten_hierarchy", "flatten_smv", "go", "go_bmc"}
    BY <1>7
  <2> QED
    BY <2>1, <2>2, <2>3
<1>8. CASE p \in {"apply_coi_for_bdd", "apply_coi_for_bmc", "rewriter"}
  <2>1. /\ p = "apply_coi_for_bdd" => <<"layer", "model">> \in F
        /\ p \in {"apply_coi_for_bmc", "rewriter"} => <<"env", "bool_enc">> \in F
    BY DEF CallWants
  <2>2. /\ p = "apply_coi_for_bdd" => Fine(ApplyCoiForBdd, Gentle, F)
        /\ p = "apply_coi_for_bmc" => Fine(ApplyCoiForBmc, Gentle, F)
        /\ p = "rewriter" => Fine(RewriterInit, Gentle, F)
    BY <2>1, ApplyCoiForBddFine, ApplyCoiForBmcFine, RewriterInitFine
  <2>3. /\ p = "apply_coi_for_bdd" => Body(p) = ApplyCoiForBdd
        /\ p = "apply_coi_for_bmc" => Body(p) = ApplyCoiForBmc
        /\ p = "rewriter" => Body(p) = RewriterInit
    BY DEF Body
  <2>4. p \notin {"flatten_hierarchy", "flatten_smv", "go", "go_bmc"}
    BY <1>8
  <2> QED
    BY <1>8, <2>2, <2>3, <2>4
<1>9. CASE p \in {"environment_fsms_if_no_bdd", "environment_fsms_if_no_be"}
  <2>1. Fine(EnvironmentFsms("bdd"), Gentle, F) /\ Fine(EnvironmentFsms("be"), Gentle, F)
    BY EnvironmentFsmsFine DEF Machines
  <2>2. Body(p) \in {EnvironmentFsms("bdd"), EnvironmentFsms("be")}
    BY <1>9 DEF Body
  <2>3. p \notin {"flatten_hierarchy", "flatten_smv", "go", "go_bmc"}
    BY <1>9
  <2> QED
    BY <2>1, <2>2, <2>3
<1>10. CASE p \in {"compute_reachable", "write_order", "write_flat_model", "write_boolean_model",
                   "bmc_pick_state", "read_trace"}
  <2>1. Body(p) \in {ComputeReachable, WriteOrder, WriteFlatModel, WriteBooleanModel,
                     BmcPickState, ReadTrace}
    BY <1>10 DEF Body
  <2>2. p \notin {"flatten_hierarchy", "flatten_smv", "go", "go_bmc"}
    BY <1>10
  <2> QED
    BY <2>1, <2>2, ReadersFine
<1>11. CASE p = "print_reachable_states"
  <2>1. Body(p) = PrintReachableStates
    BY <1>11 DEF Body
  <2>2. Leaky \in Commands
    BY <1>11 DEF Procs, Given, Leaky
  <2> QED
    BY <1>11, <2>1, <2>2, PrintReachableStatesFine
<1>12. CASE p \in {"flatten_hierarchy", "flatten_smv"}
  <2>1. Body(p) \in {FlattenHierarchy, FlattenSmv}
    BY <1>12 DEF Body
  <2>2. p \notin Kindly /\ p \notin {"go", "go_bmc"}
    BY <1>12 DEF Kindly
  <2> QED
    BY <2>1, <2>2, FlattenHierarchyFine, FlattenSmvFine
<1>13. CASE p \in {"go", "go_bmc"}
  <2>1. Body(p) \in {Go, GoBmc}
    BY <1>13 DEF Body
  <2>2. p \notin Kindly /\ p \notin {"flatten_hierarchy", "flatten_smv"}
    BY <1>13 DEF Kindly
  <2> QED
    BY <2>1, <2>2, GoFine
<1> QED
  BY <1>4, <1>5, <1>6, <1>7, <1>8, <1>9, <1>10, <1>11, <1>12, <1>13
     DEF Procs, Given, UserCommands

(* What a function does is safe to put before the rest.                    *)
LEMMA BodyIsMild ==
  ASSUME NEW p \in Procs \ {"reset"}
  PROVE  /\ p \in Kindly => Body(p) \in Seq(Gentle)
         /\ p \in {"flatten_hierarchy", "flatten_smv"} => Body(p) \in Seq(Soft)
         /\ p \in {"go", "go_bmc"} => Body(p) \in Seq(Bold)
<1>1. CallWants(p) \subseteq Basics /\ Basics \subseteq Basics
  BY DEF CallWants, Basics
<1> QED
  BY <1>1, BodyIsFine DEF Fine

(***************************************************************************)
(* The lists that are put before the rest are safe.                        *)
(***************************************************************************)
Endangered(s) == \E i \in DOMAIN s : Danger(s[i])

LEMMA MildSafe ==
  ASSUME NEW b \in Seq(Mild), Plain(b) \/ Harmless(b)
  PROVE  Safe(b) /\ Closing(b) /\ b \in Seq(Effects)
<1>1. \A i \in DOMAIN b : b[i] \in Mild
  OBVIOUS
<1>2. \A i \in DOMAIN b : ~Loses(b[i]) /\ Proper(b[i]) /\ ~Undoes(b[i]) /\ ~Wrecks(b[i])
  BY <1>1, Harm DEF Mild
<1>3. \A i \in DOMAIN b : \A j \in 1 .. i - 1 : j \in DOMAIN b
  OBVIOUS
<1>4. Mild \subseteq Effects
  BY DEF Mild
<1>5. b \in Seq(Effects)
  BY <1>4, SeqMonotonic
<1>6. Cut(b) /\ Closing(b) /\ Followed(b) /\ AllProper(b)
  BY <1>2, <1>3, Zenon DEF Cut, Closing, Followed, AllProper
<1>7. Ordered(b)
  BY <1>3, Zenon DEF Ordered, Plain, Harmless
<1> QED
  BY <1>5, <1>6, <1>7 DEF Safe

LEMMA SoftSafe ==
  ASSUME NEW b \in Seq(Soft)
  PROVE  Safe(b) /\ Closing(b) /\ Plain(b) /\ b \in Seq(Effects)
<1>1. b \in Seq(Mild)
  BY GentleIsBoth, SeqMonotonic
<1>2. \A i \in DOMAIN b : b[i] \in Soft
  OBVIOUS
<1>3. Plain(b)
  BY <1>2 DEF Plain, Soft
<1> QED
  BY <1>1, <1>3, MildSafe

LEMMA BoldSafe ==
  ASSUME NEW b \in Seq(Bold)
  PROVE  Safe(b) /\ Closing(b) /\ Harmless(b) /\ b \in Seq(Effects)
<1>1. b \in Seq(Mild)
  BY GentleIsBoth, SeqMonotonic
<1>2. \A i \in DOMAIN b : b[i] \in Bold
  OBVIOUS
<1>3. Harmless(b)
  BY <1>2 DEF Harmless, Bold
<1> QED
  BY <1>1, <1>3, MildSafe

LEMMA GentleSafe ==
  ASSUME NEW b \in Seq(Gentle)
  PROVE  Safe(b) /\ Closing(b) /\ Plain(b) /\ Harmless(b) /\ b \in Seq(Effects)
<1>1. b \in Seq(Soft) /\ b \in Seq(Bold)
  BY GentleIsBoth, SeqMonotonic
<1> QED
  BY <1>1, SoftSafe, BoldSafe

LEMMA NothingSafe ==
  /\ Safe(<<>>) /\ ~Endangered(<<>>) /\ \A F : Supplied(<<>>, F)
BY DEF Safe, Cut, Followed, Ordered, AllProper, Endangered, Supplied

(* A command is entered.                                                   *)
LEMMA DispatchSafe ==
  ASSUME NEW c \in UserCommands, c \in Procs
  PROVE  LET b == << Do(c), <<"end", "dispatch">> >>
         IN  /\ b \in Seq(Effects) /\ Safe(b)
             /\ c # "reset" => Closing(b)
             /\ Endangered(b) => c \notin Reentrant
             /\ \A F : Supplied(b, F)
<1> DEFINE x == Do(c)
           d == <<"end", "dispatch">>
           b == <<x, d>>
<1>1. d \in Effects /\ d[1] = "end" /\ d[2] = "dispatch"
  BY Parts DEF Effects, Pieces, Ends
<1>2. x \in Effects /\ x[1] = "do" /\ x[2] = c
  BY Members, EffectsAre, Parts DEF Do
<1>3. Wants(x) = {}
  <2>1. Wants(x) = CallWants(c)
    BY WantsAre
  <2>2. CallWants(c) = {}
    BY DEF CallWants, UserCommands
  <2> QED
    BY <2>1, <2>2
<1> HIDE DEF x, d
<1>4. Wants(d) = {}
  BY <1>1, WantsAre
<1>5. x # Last /\ d # Last
  BY <1>1, <1>2, Kinds
<1>6. ~Danger(d) /\ ~Loses(d) /\ ~Opens(d) /\ Proper(d)
  BY <1>1, <1>5 DEF Danger, Loses, Opens, Proper
<1>7. Proper(x) /\ ~Undoes(x) /\ ~Wrecks(x)
  BY <1>2 DEF Proper, Undoes, Wrecks
<1>8. Loses(x) => c = "reset"
  BY <1>2 DEF Loses
<1>9. Danger(x) => c \in {"reset", "flatten_hierarchy"}
  BY <1>2, <1>5 DEF Danger, UserCommands
<1>10. /\ b \in Seq(Effects) /\ DOMAIN b = 1 .. 2 /\ b[1] = x /\ b[2] = d
  BY <1>1, <1>2
<1> HIDE DEF b
<1>11. \A i \in DOMAIN b : (i = 1 /\ b[i] = x) \/ (i = 2 /\ b[i] = d)
  BY <1>10
<1>12. \A i \in DOMAIN b : Wants(b[i]) = {} /\ Proper(b[i]) /\ ~Undoes(b[i]) /\ ~Wrecks(b[i])
  BY <1>3, <1>4, <1>6, <1>7, <1>11, Harm
<1>13. \A i \in DOMAIN b : \A j \in 1 .. i - 1 : ~Danger(b[i])
  BY <1>6, <1>11
<1>14. Cut(b) /\ Followed(b) /\ Ordered(b) /\ AllProper(b) /\ \A F : Supplied(b, F)
  BY <1>12, <1>13, Zenon DEF Cut, Followed, Ordered, AllProper, Supplied
<1>15. c # "reset" => Closing(b)
  BY <1>6, <1>8, <1>11 DEF Closing
<1>16. Endangered(b) => c \notin Reentrant
  <2>1. Endangered(b) => c \in {"reset", "flatten_hierarchy"}
    BY <1>6, <1>9, <1>11 DEF Endangered
  <2> QED
    BY <2>1 DEF Reentrant
<1> QED
  BY <1>10, <1>14, <1>15, <1>16 DEF Safe, b, x, d

(* A CATCH is entered.                                                     *)
LEMMA CatchSafe ==
  ASSUME NEW e \in Effects, e[1] = "catch", Right(e)
  PROVE  LET b == e[3] \o << <<"end", e[2]>> >>
         IN  /\ b \in Seq(Effects) /\ Safe(b) /\ Closing(b) /\ Plain(b)
             /\ Endangered(b) => Danger(e)
             /\ \A F : Wants(e) \subseteq F => Supplied(b, F)
<1> DEFINE h == e[2]
           d == <<"end", h>>
           b == e[3] \o <<d>>
<1>1. h \in Catches /\ e[3] \in Seq(Straight \cup Leaks) /\ e[3] = CatchBody(h)
  BY Kinds DEF Right
<1>2. d \in Effects /\ d[1] = "end" /\ d[2] = h
  BY <1>1, Parts DEF Effects, Pieces, Ends
<1>3. e # Last
  BY Kinds
<1> HIDE DEF d
<1>4. d # Last
  BY <1>2, Kinds
<1>5. Wants(d) = {}
  BY <1>2, WantsAre
<1>6. ~Loses(d) /\ ~Opens(d) /\ Proper(d) /\ (Danger(d) => h = "hierarchy")
  BY <1>2, <1>4 DEF Loses, Opens, Proper, Danger
<1>7. d \in Soft
  BY <1>2, <1>6 DEF Soft, Mild
<1>8. h \notin {"flatten_hierarchy"} => e[3] \in Seq(Gentle)
  <2>1. h = "build_model" => CatchBody(h) \in Seq(Gentle)
    <3>1. {<<"env", "bdd_enc">>, <<"layer", "model">>} \subseteq {<<"env", "bdd_enc">>, <<"layer", "model">>}
      OBVIOUS
    <3> QED
      BY <3>1, BuildModelFine DEF Fine
  <2>2. h = "fill" => CatchBody(h) \in Seq(Gentle)
    <3>1. << <<"new property">>, CanThrow>> \in Seq(Gentle)
      BY GentleAlone, List2, Zenon
    <3> QED
      BY <3>1 DEF CatchBody
  <2>3. h = "print_reachable_states" => CatchBody(h) \in Seq(Gentle)
    <3> DEFINE u == <<"may return in catch">>
               v == <<"get", "bdd_fsm">>
    <3>1. v \in Gentle
      BY GentleMembers DEF Keys
    <3>2. h = "print_reachable_states" => CatchBody(h) = <<u, v>>
      BY DEF CatchBody
    <3>3. ASSUME h = "print_reachable_states" PROVE u \in Gentle
      <4>1. \A T : \A x, y : <<x, y>> \in Seq(T) => x \in T
        <5>1. ASSUME NEW T, NEW x, NEW y, <<x, y>> \in Seq(T) PROVE x \in T
          <6> DEFINE s == <<x, y>>
          <6>1. s[1] = x /\ 1 \in DOMAIN s /\ s \in Seq(T)
            BY <5>1
          <6> HIDE DEF s
          <6> QED
            BY <6>1
        <5> QED
          BY <5>1
      <4>2. CatchBody(h) \in Seq(Straight \cup Leaks)
        BY <1>1
      <4>3. u \in Straight \cup Leaks
        <5> HIDE DEF u, v
        <5> QED
          BY <3>2, <3>3, <4>1, <4>2, Zenon
      <4>4. u \in Effects
        BY <4>3 DEF Effects, Pieces, Code
      <4>5. u[1] \in Tender
        BY Kind1 DEF Tender
      <4> QED
        BY <4>4, <4>5, TenderIsGentle
    <3> HIDE DEF u, v
    <3> QED
      BY <3>1, <3>2, <3>3, List2, Zenon
  <2>4. h \in {"hierarchy", "boolean_fsm"} => CatchBody(h) \in Seq(Gentle)
    <3>1. <<CanThrow>> \in Seq(Gentle)
      BY GentleAlone, List1, Zenon
    <3> QED
      BY <3>1 DEF CatchBody
  <2> QED
    BY <1>1, <2>1, <2>2, <2>3, <2>4 DEF Catches, Leaky
<1>9. h = "flatten_hierarchy" => e[3] \in Seq(Soft)
  <2>1. Do("flatten_smv") \in Mild
    BY GentleCall DEF Procs
  <2>2. Do("flatten_smv")[1] = "do" /\ Do("flatten_smv")[2] = "flatten_smv"
    BY Parts DEF Do
  <2>3. Do("flatten_smv") \in Soft
    BY <2>1, <2>2 DEF Soft, Opens
  <2>4. <<Do("flatten_smv")>> \in Seq(Soft)
    BY <2>3, List1, Zenon
  <2> QED
    BY <1>1, <2>4 DEF CatchBody
<1>10. e[3] \in Seq(Soft)
  BY <1>8, <1>9, GentleIsBoth, SeqMonotonic
<1>11. b \in Seq(Soft)
  BY <1>7, <1>10, List1, Catenation, Zenon
<1>12. \A i \in DOMAIN b : (\E k \in DOMAIN e[3] : b[i] = e[3][k]) \/ b[i] = d
  <2> DEFINE s == e[3]
             t == <<d>>
  <2>0. s \in Seq(Soft) /\ t \in Seq(Soft)
    BY <1>7, <1>10, List1, Zenon
  <2>1. \A k \in DOMAIN t : t[k] = d
    OBVIOUS
  <2> HIDE DEF s, t
  <2>2. \A i \in DOMAIN (s \o t) : Before(s, t, i) \/ \E k \in DOMAIN t : Behind(s, t, i, k)
    BY <2>0, Positions, Zenon
  <2>3. \A i \in DOMAIN (s \o t) : (\E k \in DOMAIN s : (s \o t)[i] = s[k]) \/ (s \o t)[i] = d
    BY <2>1, <2>2, Zenon DEF Before, Behind
  <2> QED
    BY <2>3 DEF s, t
<1>13. Endangered(b) => Danger(e)
  <2>1. h \in {"flatten_hierarchy", "hierarchy"} => Danger(e)
    BY DEF Danger
  <2>2. ASSUME h \notin {"flatten_hierarchy", "hierarchy"}
        PROVE  ~Endangered(b)
    <3>1. \A k \in DOMAIN e[3] : ~Danger(e[3][k])
      BY <1>8, <2>2, GentleSafe DEF Harmless
    <3> QED
      BY <1>6, <1>12, <2>2, <3>1 DEF Endangered
  <2> QED
    BY <2>1, <2>2
<1>14. ASSUME NEW F, Wants(e) \subseteq F
       PROVE  Supplied(b, F)
  <2>1. Supplied(e[3], F)
    <3>1. CASE h = "build_model"
      <4>1. Wants(e) = {<<"env", "bdd_enc">>, <<"layer", "model">>}
        BY <3>1 DEF Wants, SimpleWants
      <4> QED
        BY <1>1, <1>14, <3>1, <4>1, BuildModelFine DEF Fine
    <3>2. CASE h # "build_model"
      <4>1. \A i \in DOMAIN e[3] : e[3][i][1] \in {"do", "new property", "can throw",
                                                   "may return in catch", "get"}
                                   /\ (e[3][i][1] = "do" => e[3][i][2] = "flatten_smv")
        <5>0. /\ Do("flatten_smv")[1] = "do" /\ Do("flatten_smv")[2] = "flatten_smv"
              /\ <<"new property">>[1] = "new property" /\ CanThrow[1] = "can throw"
              /\ <<"may return in catch">>[1] = "may return in catch"
              /\ <<"get", "bdd_fsm">>[1] = "get"
          BY Parts, Kind1 DEF Do, CanThrow
        <5>1. /\ \A x : \A i \in DOMAIN <<x>> : <<x>>[i] = x
              /\ \A x, y : \A i \in DOMAIN <<x, y>> : <<x, y>>[i] = x \/ <<x, y>>[i] = y
          OBVIOUS
        <5>2. \/ \E x \in {Do("flatten_smv"), CanThrow} : e[3] = <<x>>
              \/ e[3] = << <<"new property">>, CanThrow>>
              \/ e[3] = << <<"may return in catch">>, <<"get", "bdd_fsm">> >>
          BY <1>1, <3>2, Zenon DEF CatchBody
        <5> DEFINE s == e[3]
                   M == {Do("flatten_smv"), CanThrow, <<"new property">>,
                         <<"may return in catch">>, <<"get", "bdd_fsm">>}
        <5>3. /\ Do("flatten_smv") \in M /\ CanThrow \in M /\ <<"new property">> \in M
              /\ <<"may return in catch">> \in M /\ <<"get", "bdd_fsm">> \in M
          OBVIOUS
        <5>4. \E x, y \in M : s = <<x>> \/ s = <<x, y>>
          <6> HIDE DEF M
          <6> QED
            BY <5>2, <5>3, Zenon
        <5>5. PICK x \in M, y \in M : s = <<x>> \/ s = <<x, y>>
          BY <5>4
        <5> HIDE DEF s
        <5>6. \A i \in DOMAIN s : s[i] = x \/ s[i] = y
          <6> HIDE DEF M
          <6> QED
            BY <5>5
        <5>7. \A i \in DOMAIN e[3] : e[3][i] \in M
          BY <5>6 DEF s
        <5> QED
          BY <5>0, <5>7
      <4>2. \A i \in DOMAIN e[3] : Wants(e[3][i]) = {}
        BY <4>1 DEF Wants, SimpleWants, CallWants
      <4> QED
        BY <4>2 DEF Supplied
    <3> QED
      BY <3>1, <3>2
  <2>2. Idle(<<d>>)
    BY <1>5 DEF Idle
  <2> DEFINE s == e[3]
             t == <<d>>
  <2>3. s \in Seq(Soft) /\ t \in Seq(Soft) /\ Supplied(s, F) /\ Idle(t)
    BY <1>7, <1>10, <2>1, <2>2, List1, Zenon
  <2> HIDE DEF s, t
  <2>4. Supplied(s \o t, F)
    BY <2>3, SuppliedCat
  <2> QED
    BY <2>4 DEF s, t
<1> HIDE DEF b
<1>15. Safe(b) /\ Closing(b) /\ Plain(b) /\ b \in Seq(Effects)
  BY <1>11, SoftSafe
<1> QED
  BY <1>13, <1>14, <1>15 DEF b, d, h

(* What is in danger in a catenation, a tail or a suffix.                  *)
LEMMA EndangeredCat ==
  ASSUME NEW S, NEW b \in Seq(S), NEW t \in Seq(S), Endangered(b \o t)
  PROVE  Endangered(b) \/ Endangered(t)
<1>1. \A i \in DOMAIN (b \o t) : Before(b, t, i) \/ \E k \in DOMAIN t : Behind(b, t, i, k)
  BY Positions, Zenon
<1> QED
  BY <1>1, Zenon DEF Endangered, Before, Behind

LEMMA EndangeredTail ==
  ASSUME NEW s \in Seq(Effects), s # <<>>
  PROVE  /\ Endangered(Tail(s)) => Endangered(s)
         /\ Danger(s[1]) => Endangered(s)
<1>1. \A k \in DOMAIN Tail(s) : \E i \in DOMAIN s : Tail(s)[k] = s[i]
  BY TailIs
<1>2. 1 \in DOMAIN s
  OBVIOUS
<1> QED
  BY <1>1, <1>2 DEF Endangered

LEMMA EndangeredSuffix ==
  ASSUME NEW s \in Seq(Effects), NEW n \in DOMAIN s, Endangered(SubSeq(s, n + 1, Len(s)))
  PROVE  Endangered(s)
<1> DEFINE t == SubSeq(s, n + 1, Len(s))
<1>1. /\ Len(s) \in Nat /\ n \in Nat /\ DOMAIN s = 1 .. Len(s)
      /\ DOMAIN t = 1 .. Len(s) - n
      /\ \A k \in 1 .. Len(s) - n : t[k] = s[n + k]
  OBVIOUS
<1>2. Endangered(t)
  OBVIOUS
<1> HIDE DEF t
<1>3. \A k \in DOMAIN t : n + k \in DOMAIN s /\ t[k] = s[n + k]
  BY <1>1
<1> QED
  BY <1>2, <1>3 DEF Endangered

(* A safe list in place of the first effect.                               *)
LEMMA PutSafe ==
  ASSUME NEW s \in Seq(Effects), s # <<>>, Safe(s), NEW b \in Seq(Effects), Safe(b),
         Closing(b) \/ Loses(s[1]), Plain(b) \/ Opens(s[1])
  PROVE  /\ Safe(b \o Tail(s))
         /\ Endangered(b \o Tail(s)) => Endangered(b) \/ (Endangered(s) /\ ~Opens(s[1]))
<1> DEFINE t == Tail(s)
<1>1. t \in Seq(Effects)
  OBVIOUS
<1>2. Safe(t)
  BY SafeTail
<1>3. Loses(s[1]) => Idle(t)
  BY IdleTail DEF Safe
<1>4. Opens(s[1]) => Harmless(t)
  <2>1. \A k \in DOMAIN t : \E i \in DOMAIN s : t[k] = s[i] /\ 1 \in 1 .. i - 1
    BY TailIs
  <2> QED
    BY <2>1 DEF Safe, Ordered, Harmless
<1>5. Endangered(t) => Endangered(s)
  BY EndangeredTail
<1> HIDE DEF t
<1>6. Safe(b \o t)
  BY <1>1, <1>2, <1>3, <1>4, SafeCat
<1>7. Endangered(b \o t) => Endangered(b) \/ (Endangered(s) /\ ~Opens(s[1]))
  BY <1>1, <1>4, <1>5, EndangeredCat DEF Endangered, Harmless
<1> QED
  BY <1>6, <1>7 DEF t

(***************************************************************************)
(* The handlers want nothing.                                              *)
(***************************************************************************)
Modest(s) == \A i \in DOMAIN s : Wants(s[i]) = {} /\ Proper(s[i]) /\ ~Opens(s[i])

LEMMA ModestSafe ==
  ASSUME NEW S, NEW s \in Seq(S), Modest(s), Followed(s)
  PROVE  Safe(s) /\ Plain(s) /\ Idle(s) /\ \A F : Supplied(s, F)
<1>1. \A i \in DOMAIN s : \A j \in 1 .. i - 1 : j \in DOMAIN s
  OBVIOUS
<1>2. Plain(s) /\ Idle(s) /\ AllProper(s)
  BY Zenon DEF Plain, Idle, AllProper, Modest
<1>3. Cut(s) /\ Ordered(s)
  BY <1>1, Zenon DEF Cut, Ordered, Modest
<1> QED
  BY <1>2, <1>3, IdleIsSupplied DEF Safe

Humble == {"return 1", "throw", "no properties", "drop layer", "remove", "unset",
           "destroy encoder", "quit compiler", "init compiler", "put"}

LEMMA ModestMembers ==
  \A e : e[1] \in Humble => Wants(e) = {} /\ Proper(e) /\ ~Opens(e)
<1> SUFFICES ASSUME NEW e, e[1] \in Humble
             PROVE  Wants(e) = {} /\ Proper(e) /\ ~Opens(e)
  OBVIOUS
<1>1. e[1] \notin {"set", "commit", "lazy commit", "own", "do", "catch", "may"} /\ e[1] # "unless"
  BY DEF Humble
<1>2. Wants(e) = {}
  BY <1>1, WantsAre, Zenon
<1> QED
  BY <1>1, <1>2 DEF Proper, Opens

(* What ends with Fail leaves, whatever was lost.                          *)
LEMMA FailSafe ==
  ASSUME NEW b \in Seq(Effects), Modest(b), Followed(b)
  PROVE  /\ Safe(b \o Fail) /\ Plain(b \o Fail) /\ Closing(b \o Fail)
         /\ b \o Fail \in Seq(Effects) /\ (Endangered(b \o Fail) => Endangered(b))
         /\ \A F : Supplied(b \o Fail, F)
         /\ \E j \in DOMAIN (b \o Fail) : Leaves((b \o Fail)[j])
<1> DEFINE t == Fail
<1>1. t \in Seq(Gentle) /\ t \in Seq(Effects)
  BY GentleAlone, GentleSafe
<1>2. /\ DOMAIN t = {1} /\ t[1] = <<"return 1">>
  <2>1. \A x : DOMAIN <<x>> = {1} /\ <<x>>[1] = x
    OBVIOUS
  <2> QED
    BY <2>1, Zenon DEF Fail
<1>3. Leaves(t[1]) /\ Wants(t[1]) = {} /\ Proper(t[1]) /\ ~Opens(t[1]) /\ ~Loses(t[1])
  <2> DEFINE e == <<"return 1">>
  <2>1. e[1] = "return 1"
    BY Kind1
  <2> HIDE DEF e
  <2>0. e[1] \in Humble
    BY <2>1 DEF Humble
  <2>2. Wants(e) = {} /\ Proper(e) /\ ~Opens(e)
    BY <2>0, ModestMembers, Zenon
  <2>3. Leaves(e)
    BY <2>1 DEF Leaves
  <2>4. ~Loses(e)
    BY <2>1 DEF Loses
  <2>5. t[1] = e
    BY <1>2 DEF e
  <2> HIDE DEF t
  <2> QED
    BY <2>2, <2>3, <2>4, <2>5
<1> HIDE DEF t
<1>4. Safe(t) /\ Closing(t) /\ Plain(t) /\ Harmless(t)
  BY <1>1, GentleSafe
<1>5. Idle(t)
  BY <1>2, <1>3 DEF Idle
<1>6. Safe(b) /\ Plain(b) /\ \A F : Supplied(b, F)
  BY ModestSafe
<1>7. Safe(b \o t)
  BY <1>1, <1>4, <1>5, <1>6, SafeCat
<1>8. /\ Len(b) \in Nat /\ DOMAIN b = 1 .. Len(b)
      /\ \A i \in DOMAIN b : i \in DOMAIN (b \o t) /\ (b \o t)[i] = b[i]
      /\ 1 + Len(b) \in DOMAIN (b \o t) /\ (b \o t)[1 + Len(b)] = t[1]
      /\ \A i \in DOMAIN (b \o t) : i \in DOMAIN b \/ i = 1 + Len(b)
  <2>1. /\ Len(b) \in Nat /\ DOMAIN b = 1 .. Len(b)
        /\ \A i \in DOMAIN b : i \in DOMAIN (b \o t) /\ (b \o t)[i] = b[i]
        /\ \A k \in DOMAIN t : k + Len(b) \in DOMAIN (b \o t) /\ (b \o t)[k + Len(b)] = t[k]
        /\ \A i \in DOMAIN (b \o t) : i \in DOMAIN b \/ \E k \in DOMAIN t : i = k + Len(b)
    BY <1>1, Places
  <2>2. 1 \in DOMAIN t /\ \A k \in DOMAIN t : k = 1
    BY <1>2
  <2>3. 1 + Len(b) \in DOMAIN (b \o t) /\ (b \o t)[1 + Len(b)] = t[1]
    BY <2>1, <2>2, Zenon
  <2>4. \A i \in DOMAIN (b \o t) : i \in DOMAIN b \/ i = 1 + Len(b)
    BY <2>1, <2>2, Zenon
  <2> QED
    BY <2>1, <2>3, <2>4, Zenon
<1> DEFINE c == b \o t
<1> HIDE DEF c
<1>9. \A i \in DOMAIN c : (i \in DOMAIN b /\ c[i] = b[i] /\ i < 1 + Len(b)) \/ c[i] = t[1]
  BY <1>8 DEF c
<1>10. 1 + Len(b) \in DOMAIN c /\ c[1 + Len(b)] = t[1]
  BY <1>8 DEF c
<1>11. Plain(c)
  BY <1>3, <1>6, <1>9 DEF Plain
<1>12. Closing(c)
  <2> SUFFICES ASSUME NEW i \in DOMAIN c, Loses(c[i])
               PROVE  \E k \in DOMAIN c : k > i /\ Leaves(c[k])
    BY DEF Closing
  <2>1. i \in Nat /\ i < 1 + Len(b)
    BY <1>3, <1>8, <1>9
  <2>2. 1 + Len(b) > i
    BY <1>8, <2>1
  <2> QED
    BY <1>3, <1>10, <2>2
<1>13. Endangered(c) => Endangered(b)
  BY <1>1, <1>4, EndangeredCat DEF c, Harmless, Endangered
<1>14. c \in Seq(Effects)
  BY <1>1, Catenation DEF c
<1>15. ASSUME NEW F PROVE Supplied(c, F)
  <2>1. Supplied(b \o t, F)
    BY <1>1, <1>5, <1>6, SuppliedCat
  <2> QED
    BY <2>1 DEF c
<1>16. \E j \in DOMAIN c : Leaves(c[j])
  BY <1>3, <1>10
<1>17. Safe(c)
  BY <1>7 DEF c
<1> QED
  BY <1>11, <1>12, <1>13, <1>14, <1>15, <1>16, <1>17 DEF c, t

LEMMA ResetIsModest ==
  /\ Reset \in Seq(Effects) /\ Modest(Reset) /\ Followed(Reset)
<1>1. Reset \in Seq(Effects)
  BY ResetIsCalm, CalmList
<1>2. DOMAIN Reset = 1 .. 14 /\ Reset[14] = Last /\ Last[1] = "init compiler"
  <2>1. Reset \in Seq(Simple \cup {Last}) /\ Len(Reset) = 14
    BY ResetIsEffects
  <2>2. DOMAIN Reset = 1 .. 14
    BY <2>1, LenProperties
  <2> QED
    BY <2>2, ResetSteps, Kind1 DEF Last
<1>3. \A i \in DOMAIN Reset : i = 14 \/ (i \in 1 .. 13 /\ Reset[i][1] \in OfReset)
  <2>1. \A i \in 1 .. 14 : i = 14 \/ i \in 1 .. 13
    OBVIOUS
  <2> QED
    BY <1>2, <2>1, ResetIsOfReset, Zenon
<1>4. \A i \in DOMAIN Reset : Reset[i][1] \in OfReset \cup {"init compiler"}
  BY <1>2, <1>3
<1>5. Modest(Reset)
  <2>1. \A i \in DOMAIN Reset : Reset[i][1] \in Humble
    BY <1>4 DEF OfReset, Humble
  <2>2. \A i \in DOMAIN Reset : /\ Wants(Reset[i]) = {} /\ Proper(Reset[i])
                                /\ ~Opens(Reset[i])
    BY <2>1, ModestMembers, Zenon
  <2> QED
    BY <2>2 DEF Modest
<1>6. ASSUME NEW i \in DOMAIN Reset
      PROVE  ~Undoes(Reset[i])
  <2>1. Reset[i][1] # "drop layer"
    BY <1>4 DEF OfReset
  <2>2. ASSUME Reset[i][1] = "remove" PROVE Reset[i][2] # "flattener"
    <3>0. \A k \in 1 .. 14 : \/ k = 1 \/ k = 2 \/ k = 3 \/ k = 4 \/ k = 5 \/ k = 6 \/ k = 7
                           \/ k = 8 \/ k = 9 \/ k = 10 \/ k = 11 \/ k = 12 \/ k = 13 \/ k = 14
      OBVIOUS
    <3>1. \/ i = 1 \/ i = 2 \/ i = 3 \/ i = 4 \/ i = 5 \/ i = 6 \/ i = 7
          \/ i = 8 \/ i = 9 \/ i = 10 \/ i = 11 \/ i = 12 \/ i = 13 \/ i = 14
      BY <1>2, <3>0
    <3>2. Reset[1][1] = "no properties" /\ Reset[11][1] = "quit compiler"
      BY ResetSteps, Kind1
    <3> QED
      BY <1>2, <2>2, <3>1, <3>2, ResetKinds
  <2> QED
    BY <2>1, <2>2 DEF Undoes
<1>7. ASSUME NEW i \in DOMAIN Reset, Wrecks(Reset[i])
      PROVE  \E j \in DOMAIN Reset : j > i /\ Reset[j] = Last
  <2>1. i # 14
    BY <1>2, <1>7 DEF Wrecks
  <2>2. i \in 1 .. 14
    BY <1>2, Zenon
  <2>3. 14 \in 1 .. 14 /\ \A k \in 1 .. 14 : k # 14 => 14 > k
    OBVIOUS
  <2>4. 14 \in DOMAIN Reset
    BY <1>2, <2>3, Zenon
  <2>5. 14 > i
    BY <2>1, <2>2, <2>3, Zenon
  <2> QED
    BY <1>2, <2>4, <2>5, Zenon
<1>8. Followed(Reset)
  BY <1>6, <1>7 DEF Followed
<1> QED
  BY <1>1, <1>5, <1>8

LEMMA HandlerSafe ==
  ASSUME NEW h \in Catches \cup {"dispatch"}
  PROVE  /\ Handler(h) \in Seq(Effects) /\ Safe(Handler(h)) /\ Plain(Handler(h))
         /\ Closing(Handler(h)) /\ (Endangered(Handler(h)) => h = "hierarchy")
         /\ \A F : Supplied(Handler(h), F)
         /\ \E j \in DOMAIN Handler(h) : Leaves(Handler(h)[j])
<1>1. CASE h = "hierarchy"
  <2>1. Handler(h) = Reset \o Fail
    BY <1>1, HandlerIsEffects
  <2> QED
    BY <1>1, <2>1, ResetIsModest, FailSafe
<1>2. CASE h = "fill"
  <2> DEFINE x == <<"drop layer", "model">>
             y == <<"no properties">>
             z == <<"remove", "flattener">>
             u == <<"unset", "read_model">>
             b == <<x, y, z, u>>
  <2>1. Handler(h) = b \o Fail
    BY <1>2 DEF Handler, FlatteningFailed
  <2>2. x \in Effects /\ y \in Effects /\ z \in Effects /\ u \in Effects
    BY Members, AloneIsCode, EffectsAre DEF Flags, Keys, Layers
  <2>3. /\ x[1] = "drop layer" /\ y[1] = "no properties" /\ z[1] = "remove" /\ z[2] = "flattener"
        /\ u[1] = "unset"
    BY Parts, Kind1
  <2>4. u = <<"unset", "read_model">>
    OBVIOUS
  <2> HIDE DEF x, y, z, u
  <2>5. b \in Seq(Effects)
    BY <2>2, List4, Zenon
  <2>6. DOMAIN b = 1 .. 4 /\ b[1] = x /\ b[2] = y /\ b[3] = z /\ b[4] = u
    OBVIOUS
  <2> HIDE DEF b
  <2>7. \A i \in DOMAIN b : (i < 4 /\ b[i] \in {x, y, z}) \/ (i = 4 /\ b[i] = u)
    BY <2>6
  <2>8. Modest(b)
    <3>0. x[1] \in Humble /\ y[1] \in Humble /\ z[1] \in Humble /\ u[1] \in Humble
      BY <2>3 DEF Humble
    <3>1. /\ Wants(x) = {} /\ Proper(x) /\ ~Opens(x) /\ Wants(y) = {} /\ Proper(y) /\ ~Opens(y)
          /\ Wants(z) = {} /\ Proper(z) /\ ~Opens(z) /\ Wants(u) = {} /\ Proper(u) /\ ~Opens(u)
      BY <3>0, ModestMembers, Zenon
    <3> QED
      BY <2>7, <3>1 DEF Modest
  <2>9. ~Wrecks(x) /\ ~Wrecks(y) /\ ~Wrecks(z) /\ ~Wrecks(u) /\ ~Undoes(u)
    BY <2>3 DEF Wrecks, Undoes
  <2>10. Followed(b)
    <3> SUFFICES ASSUME NEW i \in DOMAIN b
                 PROVE  /\ ~Wrecks(b[i])
                        /\ Undoes(b[i]) =>
                             \E j \in DOMAIN b : j > i /\ b[j] = <<"unset", "read_model">>
      BY DEF Followed
    <3>1. ~Wrecks(b[i])
      BY <2>7, <2>9
    <3>2. Undoes(b[i]) => i < 4
      BY <2>7, <2>9
    <3>3. 4 \in DOMAIN b /\ b[4] = <<"unset", "read_model">>
      BY <2>4, <2>6
    <3>4. i < 4 => 4 > i
      BY <2>6
    <3> QED
      BY <3>1, <3>2, <3>3, <3>4
  <2>11. ~Endangered(b)
    <3>1. x # Last /\ y # Last /\ z # Last /\ u # Last
      BY <2>2, <2>3, Kinds
    <3>2. ~Danger(x) /\ ~Danger(y) /\ ~Danger(z) /\ ~Danger(u)
      BY <2>3, <3>1 DEF Danger
    <3> QED
      BY <2>7, <3>2 DEF Endangered
  <2> QED
    BY <2>1, <2>5, <2>8, <2>10, <2>11, FailSafe
<1>3. CASE h = "boolean_fsm"
  <2> DEFINE x == <<"drop layer", "determ">>
             y == <<"throw">>
             b == <<x, y>>
  <2>1. Handler(h) = b
    BY <1>3 DEF Handler
  <2>2. x \in Effects /\ y \in Effects
    BY Members, AloneIsCode, EffectsAre DEF Layers
  <2>3. x[1] = "drop layer" /\ x[2] = "determ" /\ y[1] = "throw"
    BY Parts, Kind1
  <2> HIDE DEF x, y
  <2>4. b \in Seq(Effects)
    BY <2>2, List2, Zenon
  <2>5. DOMAIN b = 1 .. 2 /\ b[1] = x /\ b[2] = y
    OBVIOUS
  <2> HIDE DEF b
  <2>6. \A i \in DOMAIN b : (i = 1 /\ b[i] = x) \/ (i = 2 /\ b[i] = y)
    BY <2>5
  <2>7. Modest(b)
    <3>0. x[1] \in Humble /\ y[1] \in Humble
      BY <2>3 DEF Humble
    <3>1. Wants(x) = {} /\ Proper(x) /\ ~Opens(x) /\ Wants(y) = {} /\ Proper(y) /\ ~Opens(y)
      BY <3>0, ModestMembers, Zenon
    <3> QED
      BY <2>6, <3>1 DEF Modest
  <2>8. ~Wrecks(x) /\ ~Undoes(x) /\ ~Wrecks(y) /\ ~Undoes(y) /\ ~Loses(y) /\ Leaves(y)
    BY <2>3 DEF Wrecks, Undoes, Loses, Leaves
  <2>9. Followed(b)
    BY <2>6, <2>8 DEF Followed
  <2>10. Closing(b)
    <3>1. \A i \in DOMAIN b : Loses(b[i]) => 2 > i
      BY <2>6, <2>8
    <3> QED
      BY <2>5, <2>8, <3>1 DEF Closing
  <2>11. ~Endangered(b)
    <3>1. x # Last /\ y # Last
      BY <2>2, <2>3, Kinds
    <3>2. ~Danger(x) /\ ~Danger(y)
      BY <2>3, <3>1 DEF Danger
    <3> QED
      BY <2>6, <3>2 DEF Endangered
  <2>12. Safe(b) /\ Plain(b) /\ \A F : Supplied(b, F)
    BY <2>4, <2>7, <2>9, ModestSafe
  <2>13. \E j \in DOMAIN b : Leaves(b[j])
    BY <2>5, <2>8
  <2> QED
    BY <2>1, <2>4, <2>10, <2>11, <2>12, <2>13
<1>4. CASE h \notin {"hierarchy", "fill", "boolean_fsm"}
  <2>1. Handler(h) = Fail
    BY <1>4 DEF Handler
  <2>2. <<>> \in Seq(Effects) /\ Modest(<<>>) /\ Followed(<<>>)
    BY DEF Modest, Followed
  <2> DEFINE b == <<>> \o Fail
  <2>3. b = Fail
    <3>1. \A s \in Seq(Gentle) : <<>> \o s = s
      OBVIOUS
    <3> QED
      BY <3>1, GentleAlone
  <2>4. /\ Safe(b) /\ Plain(b) /\ Closing(b) /\ b \in Seq(Effects)
        /\ (Endangered(b) => Endangered(<<>>)) /\ \A F : Supplied(b, F)
        /\ \E j \in DOMAIN b : Leaves(b[j])
    BY <2>2, FailSafe
  <2>5. ~Endangered(b)
    BY <2>4, NothingSafe
  <2>6. Handler(h) = b
    BY <2>1, <2>3
  <2> HIDE DEF b
  <2> QED
    BY <2>4, <2>5, <2>6
<1> QED
  BY <1>1, <1>2, <1>3, <1>4

(* An error, a return from inside or an interrupt leaves a safe list of    *)
(* which nothing is wanted.                                                *)
LEMMA JumpSafe ==
  ASSUME NEW s \in Seq(Effects), Guarded(s), Safe(s), Jump(s)
  PROVE  /\ Safe(todo') /\ (Endangered(todo') => Endangered(s))
         /\ \A F : Supplied(todo', F)
<1>1. CASE Buffers(s) = 0
  <2>1. todo' = <<>>
    BY <1>1 DEF Jump
  <2> QED
    BY <2>1, NothingSafe
<1>2. CASE Buffers(s) # 0
  <2> DEFINE n == CHOOSE i \in DOMAIN s : IsEnd(s[i]) /\ \A j \in 1 .. i - 1 : ~IsEnd(s[j])
             t == SubSeq(s, n + 1, Len(s))
             h == s[n][2]
  <2>1. todo' = Handler(h) \o t
    BY <1>2 DEF Jump
  <2>2. PICK m : m = n
    OBVIOUS
  <2>3. m \in DOMAIN s /\ IsEnd(s[m]) /\ s[m] \in Effects /\ SubSeq(s, m + 1, Len(s)) \in Seq(Effects)
    BY <1>2, <2>2, FirstEnd
  <2>4. /\ Safe(SubSeq(s, m + 1, Len(s)))
        /\ Endangered(SubSeq(s, m + 1, Len(s))) => Endangered(s)
    BY <2>3, SafeSuffix, EndangeredSuffix
  <2>5. s[m][1] = "end" /\ s[m][2] \in Catches \cup {"dispatch"}
    BY <2>3, Kinds DEF IsEnd
  <2>6. s[m][2] = "hierarchy" => Endangered(s)
    BY <2>3, <2>5 DEF Danger, Endangered
  <2>7. /\ h \in Catches \cup {"dispatch"} /\ (h = "hierarchy" => Endangered(s))
        /\ t \in Seq(Effects) /\ Safe(t) /\ (Endangered(t) => Endangered(s))
    BY <2>2, <2>3, <2>4, <2>5, <2>6
  <2> HIDE DEF n, t, h
  <2> DEFINE b == Handler(h)
  <2>8. /\ b \in Seq(Effects) /\ Safe(b) /\ Plain(b) /\ Closing(b)
        /\ Endangered(b) => h = "hierarchy"
        /\ \A F : Supplied(b, F)
        /\ \E j \in DOMAIN b : Leaves(b[j])
    BY <2>7, HandlerSafe
  <2> HIDE DEF b
  <2>9. Safe(b \o t)
    BY <2>7, <2>8, SafeCat
  <2>10. Endangered(b \o t) => Endangered(s)
    BY <2>7, <2>8, EndangeredCat
  <2>11. ASSUME NEW F PROVE Supplied(b \o t, F)
    BY <2>7, <2>8, SuppliedCat
  <2>12. todo' = b \o t
    BY <2>1 DEF b
  <2> QED
    BY <2>9, <2>10, <2>11, <2>12
<1> QED
  BY <1>1, <1>2

(***************************************************************************)
(* The invariant: what is left to do is safe; an interrupt that comes when *)
(* a reset may follow warns; and with no warning given and no reset under  *)
(* way, the flags keep their promises and what is left to do finds what it *)
(* wants.                                                                  *)
(***************************************************************************)
Sound ==
  /\ \A f \in flags : Promised[f] \subseteq Facts
  /\ \A x \in Encoders : /\ committed[x] \subseteq layers
                         /\ committed[x] # {} => EncoderKey[x] \in env
  /\ prop.fsm["bool"] = "own" => \A x \in Encoders : "determ_p" \in committed[x]

Unarmed == Endangered(todo) /\ armed => ~reentrant
Kept == Consistent => Supplied(todo, Facts) /\ Sound
PromInv == Safe(todo) /\ Unarmed /\ Kept

(* The model is encoded when the commands think so.                        *)
LEMMA EncodedFacts ==
  ASSUME SessInv, Closed(flags), Sound, Encoded
  PROVE  Basics \subseteq Facts
<1>1. flags \subseteq Flags
  BY DEF SessInv, DataOK
<1>2. /\ "build_model" \in flags => "encode_variables" \in flags
      /\ "build_bool_model" \in flags => "encode_variables" \in flags
      /\ "bmc_init" \in flags => "encode_variables" \in flags
      /\ "bmc_setup" \in flags => "build_bool_model" \in flags
  BY DEF Closed, NeededPhases
<1>3. "encode_variables" \in flags => "flatten_hrc" \in flags
  BY DEF Closed, NeededPhases
<1>4. "encode_variables" \in flags
  BY <1>2 DEF Encoded, ModelMissing, BmcMissing, EncodingMissing
<1>5. Promised["encode_variables"] \subseteq Facts /\ Promised["flatten_hrc"] \subseteq Facts
  BY <1>3, <1>4 DEF Sound
<1> QED
  BY <1>5, PromisedAre DEF Basics

LEMMA ResettingIs == Resetting <=> \E i \in DOMAIN todo : todo[i] = Last
BY Zenon DEF Resetting, Last

(* A reset that has begun goes on to its end.                              *)
LEMMA ResettingGoesOn ==
  ASSUME SessInv, ResetInv, todo # <<>>, Step, Resetting, Effect # Last, aborted' = <<>>
  PROVE  Resetting'
<1>1. todo \in Seq(Effects) /\ ResetShape(todo) /\ Effect = todo[1] /\ Rest = Tail(todo)
      /\ Effect \in Effects /\ Effect # <<>>
  BY Running DEF SessInv, Stacked, ResetInv, Effect, Rest
<1>2. PICK i \in DOMAIN todo : todo[i] = Last
  BY ResettingIs
<1>3. i \in Nat /\ i <= 14 /\ \A j \in 1 .. i : todo[j] = Reset[14 - i + j]
  BY <1>1, <1>2 DEF ResetShape
<1>4. i # 1 /\ i >= 1
  BY <1>1, <1>2
<1>5. 1 \in 1 .. i /\ 14 - i + 1 \in 1 .. 13
  BY <1>3, <1>4
<1>6. Effect[1] \in OfReset
  <2>1. Effect = Reset[14 - i + 1]
    BY <1>1, <1>3, <1>5
  <2> QED
    BY <1>5, <2>1, ResetIsOfReset
<1>7. todo' = Rest
  <2>1. Kind \in OfReset
    BY <1>6 DEF Kind
  <2>2. Kind \in {"no properties", "remove", "unset", "destroy encoder", "quit compiler", "put"}
    BY <2>1 DEF OfReset
  <2>3. CASE Kind \in {"no properties", "remove", "destroy encoder", "quit compiler"}
    BY <2>3, StepOfKind DEF ChangeProperty, RemoveEnv, DestroyEncoder, Compiler
  <2>4. CASE Kind \in {"unset", "put"}
    <3>1. SetFlag \/ PutEnv
      BY <2>4, StepOfKind
    <3>2. (todo' = Rest) \/ aborted' = Effect
      BY <3>1 DEF SetFlag, PutEnv, Assert
    <3> QED
      BY <1>1, <3>2
  <2> QED
    BY <2>2, <2>3, <2>4
<1>8. \E k \in DOMAIN Tail(todo) : Tail(todo)[k] = Last
  <2>1. /\ Len(todo) \in Nat /\ DOMAIN todo = 1 .. Len(todo)
        /\ DOMAIN Tail(todo) = 1 .. Len(todo) - 1
        /\ \A m \in 1 .. Len(todo) - 1 : Tail(todo)[m] = todo[m + 1]
    BY <1>1
  <2>2. i - 1 \in 1 .. Len(todo) - 1 /\ (i - 1) + 1 = i
    BY <1>3, <1>4, <2>1
  <2> QED
    BY <1>2, <2>1, <2>2
<1>9. \E k \in DOMAIN todo' : todo'[k] = Last
  BY <1>1, <1>7, <1>8
<1> QED
  BY <1>9, Zenon DEF Resetting, Last

(* What ends the reset leaves a fresh system.                              *)
LEMMA LastIsFresh ==
  ASSUME SessInv, ResetInv, todo # <<>>, Step, Effect = Last
  PROVE  Fresh' /\ todo' = Rest
<1>1. todo \in Seq(Effects) /\ ResetShape(todo) /\ Effect = todo[1] /\ 1 \in DOMAIN todo
  BY Running DEF SessInv, Stacked, ResetInv, Effect
<1>2. Kind = "init compiler"
  BY Kind1 DEF Last, Kind
<1>3. Compiler
  BY <1>2, StepOfKind
<1>4. "cmps" \in env' /\ todo' = Rest
  BY <1>2, <1>3 DEF Compiler
<1>5. ResetFacts(14)
  <2>1. ResetFacts(15 - 1)
    BY <1>1 DEF ResetInv
  <2> QED
    BY <2>1
<1>6. "cmps" \notin env
  BY <1>5 DEF ResetFacts
<1>7. [Next]_vars
  BY DEF Next
<1> QED
  BY <1>4, <1>6, <1>7, ResetEnds

(***************************************************************************)
(* What a step makes of what is left to do.                                *)
(***************************************************************************)

(* What is left is supplied, with the facts G, if it was with the facts F. *)
Goes == \A F, G : /\ Supplied(todo, F)
                  /\ Encoded => Basics \subseteq F
                  /\ Loses(Effect) \/ F \cup Yield(Effect) \subseteq G
                  => Supplied(todo', G)

Moves == Safe(todo') /\ (Endangered(todo') => Endangered(todo)) /\ Goes

LEMMA RestSupplied ==
  ASSUME NEW s \in Seq(Effects), s # <<>>, Safe(s), ~Leaves(s[1]), NEW F, NEW G, Supplied(s, F),
         Loses(s[1]) \/ F \cup Yield(s[1]) \subseteq G
  PROVE  Supplied(Tail(s), G)
<1>1. CASE Loses(s[1])
  BY <1>1, IdleTail, IdleIsSupplied DEF Safe
<1>2. CASE F \cup Yield(s[1]) \subseteq G
  BY <1>2, SuppliedTail
<1> QED
  BY <1>1, <1>2

LEMMA PutSupplied ==
  ASSUME NEW s \in Seq(Effects), s # <<>>, Safe(s), ~Leaves(s[1]), NEW F, NEW G, Supplied(s, F),
         Loses(s[1]) \/ F \cup Yield(s[1]) \subseteq G,
         NEW b \in Seq(Effects), Supplied(b, G)
  PROVE  Supplied(b \o Tail(s), G)
<1> DEFINE t == Tail(s)
<1>1. t \in Seq(Effects) /\ Supplied(t, G)
  BY RestSupplied
<1> HIDE DEF t
<1>2. Supplied(b \o t, G)
  BY <1>1, SuppliedCat
<1> QED
  BY <1>2 DEF t

(* The first effect is done and gone.                                      *)
LEMMA RestMoves ==
  ASSUME SessInv, Safe(todo), todo # <<>>, todo' = Rest, ~Leaves(Effect)
  PROVE  Moves
<1>1. todo \in Seq(Effects) /\ Effect = todo[1] /\ Rest = Tail(todo)
  BY Running DEF SessInv, Stacked, Effect, Rest
<1>2. Safe(todo') /\ (Endangered(todo') => Endangered(todo))
  BY <1>1, SafeTail, EndangeredTail
<1>3. Goes
  BY <1>1, RestSupplied DEF Goes
<1> QED
  BY <1>2, <1>3 DEF Moves

LEMMA NothingMoves ==
  ASSUME todo' = <<>>
  PROVE  Moves
BY NothingSafe DEF Moves, Goes

(* A list is put before the rest.                                          *)
LEMMA PutMoves ==
  ASSUME SessInv, Safe(todo), todo # <<>>, NEW b \in Seq(Effects), todo' = b \o Rest,
         ~Leaves(Effect), Safe(b), Closing(b) \/ Loses(Effect), Plain(b) \/ Opens(Effect),
         Endangered(b) => Danger(Effect),
         \A F, G : /\ Wants(Effect) \subseteq F
                   /\ Encoded => Basics \subseteq F
                   /\ Loses(Effect) \/ F \subseteq G
                   => Supplied(b, G)
  PROVE  Moves
<1>1. todo \in Seq(Effects) /\ Effect = todo[1] /\ Rest = Tail(todo)
  BY Running DEF SessInv, Stacked, Effect, Rest
<1>2. Safe(todo') /\ (Endangered(todo') => Endangered(b) \/ Endangered(todo))
  BY <1>1, PutSafe
<1>3. Endangered(todo') => Endangered(todo)
  BY <1>1, <1>2, EndangeredTail
<1>4. Goes
  <2> SUFFICES ASSUME NEW F, NEW G, Supplied(todo, F), Encoded => Basics \subseteq F,
                      Loses(Effect) \/ F \cup Yield(Effect) \subseteq G
               PROVE  Supplied(todo', G)
    BY Zenon DEF Goes
  <2>1. Wants(Effect) \subseteq F
    BY <1>1, SuppliedHead
  <2>2. Loses(Effect) \/ F \subseteq G
    OBVIOUS
  <2>3. Supplied(b, G)
    BY <2>1, <2>2, Zenon
  <2> QED
    BY <1>1, <2>3, PutSupplied
<1> QED
  BY <1>2, <1>3, <1>4 DEF Moves

(* A function is entered.                                                  *)
LEMMA CallMoves ==
  ASSUME SessInv, Safe(todo), todo # <<>>, CallFunction
  PROVE  Moves
<1>1. Effect \in Effects /\ Effect[1] = "do" /\ Effect[2] = On
  BY Running DEF SessInv, Stacked, CallFunction, Kind, On
<1>2. On \in Procs
  <2>1. Effect \in Simple
    BY <1>1, Kinds
  <2> QED
    BY <1>1, <2>1, SimpleKinds
<1>3. CASE "cmps" \notin env
  BY <1>3, NothingMoves DEF CallFunction
<1>4. CASE "cmps" \in env
  <2>1. todo' = Body(On) \o Rest
    BY <1>4 DEF CallFunction
  <2>2. ~Leaves(Effect) /\ Wants(Effect) = CallWants(On)
    BY <1>1 DEF Leaves, Wants, SimpleWants
  <2>3. (Loses(Effect) <=> On = "reset") /\ (Opens(Effect) <=> On \in {"go", "go_bmc"})
    BY <1>1 DEF Loses, Opens
  <2>4. On \in {"reset", "flatten_hierarchy", "flatten_smv"} => Danger(Effect)
    BY <1>1 DEF Danger
  <2> DEFINE b == Body(On)
             Ready == \A F, G : /\ Wants(Effect) \subseteq F
                                /\ Encoded => Basics \subseteq F
                                /\ Loses(Effect) \/ F \subseteq G
                                => Supplied(b, G)
  <2>5. CASE On = "reset"
    <3>1. b = Reset
      BY <2>5 DEF Body
    <3>2. Safe(b) /\ Plain(b) /\ b \in Seq(Effects) /\ \A F : Supplied(b, F)
      BY <3>1, ResetIsModest, ModestSafe
    <3>3. Ready
      BY <3>2
    <3>4. Danger(Effect) /\ Loses(Effect)
      BY <2>3, <2>4, <2>5
    <3> HIDE DEF b
    <3> QED
      BY <2>1, <2>2, <3>2, <3>3, <3>4, PutMoves DEF b
  <2>6. CASE On # "reset"
    <3>1. Ready
      <4> SUFFICES ASSUME NEW F, NEW G, CallWants(On) \subseteq F, Encoded => Basics \subseteq F,
                          F \subseteq G
                   PROVE  Supplied(b, G)
        BY <2>2, <2>3, <2>6, Zenon
      <4>1. CallWants(On) \subseteq G /\ (Encoded => Basics \subseteq G)
        OBVIOUS
      <4> QED
        BY <1>2, <2>6, <4>1, BodyIsFine DEF Fine, Kindly
    <3>2. /\ Safe(b) /\ Closing(b) /\ b \in Seq(Effects)
          /\ Plain(b) \/ Opens(Effect)
          /\ Endangered(b) => Danger(Effect)
      <4>1. CASE On \in Kindly
        <5>1. b \in Seq(Gentle)
          BY <2>6, <4>1, BodyIsMild DEF Kindly
        <5> HIDE DEF b
        <5> QED
          BY <5>1, GentleSafe DEF Endangered, Harmless
      <4>2. CASE On \in {"flatten_hierarchy", "flatten_smv"}
        <5>1. b \in Seq(Soft)
          BY <1>2, <4>2, BodyIsMild
        <5> HIDE DEF b
        <5> QED
          BY <2>4, <4>2, <5>1, SoftSafe
      <4>3. CASE On \in {"go", "go_bmc"}
        <5>1. b \in Seq(Bold)
          BY <1>2, <4>3, BodyIsMild
        <5> HIDE DEF b
        <5> QED
          BY <2>3, <4>3, <5>1, BoldSafe DEF Endangered, Harmless
      <4> QED
        BY <1>2, <2>6, <4>1, <4>2, <4>3 DEF Kindly
    <3> HIDE DEF b
    <3> QED
      BY <2>1, <2>2, <3>1, <3>2, PutMoves DEF b
  <2> QED
    BY <2>5, <2>6
<1> QED
  BY <1>3, <1>4

(* A CATCH is entered.                                                     *)
LEMMA EnterMoves ==
  ASSUME SessInv, PhInv, Safe(todo), todo # <<>>, EnterCatch
  PROVE  Moves
<1>1. todo \in Seq(Effects) /\ Effect = todo[1] /\ Rest = Tail(todo)
      /\ Effect \in Effects /\ Effect[1] = "catch" /\ Effect[2] = On
  BY Running DEF SessInv, Stacked, EnterCatch, Kind, On, Effect, Rest
<1>2. Right(Effect)
  BY <1>1, HeadIs DEF PhInv, Orderly
<1>3. CASE todo' = <<>>
  BY <1>3, NothingMoves
<1>4. CASE todo' = Effect[3] \o << <<"end", On>> >> \o Rest
  <2> DEFINE b == Effect[3] \o << <<"end", Effect[2]>> >>
  <2>1. /\ b \in Seq(Effects) /\ Safe(b) /\ Closing(b) /\ Plain(b)
        /\ Endangered(b) => Danger(Effect)
        /\ \A F : Wants(Effect) \subseteq F => Supplied(b, F)
    BY <1>1, <1>2, CatchSafe
  <2>2. ~Leaves(Effect) /\ ~Loses(Effect)
    BY <1>1 DEF Leaves, Loses
  <2>3. todo' = b \o Rest
    BY <1>1, <1>4
  <2> HIDE DEF b
  <2>4. \A F, G : /\ Wants(Effect) \subseteq F
                  /\ Encoded => Basics \subseteq F
                  /\ Loses(Effect) \/ F \subseteq G
                  => Supplied(b, G)
    <3> SUFFICES ASSUME NEW F, NEW G, Wants(Effect) \subseteq F, F \subseteq G
                 PROVE  Supplied(b, G)
      BY <2>2, Zenon
    <3>1. Wants(Effect) \subseteq G
      OBVIOUS
    <3> QED
      BY <2>1, <3>1, Zenon
  <2> QED
    BY <2>1, <2>2, <2>3, <2>4, PutMoves
<1> QED
  BY <1>3, <1>4 DEF EnterCatch

(* What may be done is done.                                               *)
LEMMA MayMoves ==
  ASSUME SessInv, PhInv, Safe(todo), todo # <<>>, GoesOn
  PROVE  Moves
<1>1. todo \in Seq(Effects) /\ Effect = todo[1] /\ Rest = Tail(todo)
      /\ Effect \in Effects /\ Effect[1] = Kind /\ Effect[2] = On /\ 1 \in DOMAIN todo
  BY Running DEF SessInv, Stacked, Kind, On, Effect, Rest
<1>2. Right(Effect)
  BY <1>1, HeadIs DEF PhInv, Orderly
<1>3. Proper(Effect)
  BY <1>1 DEF Safe, AllProper
<1>4. Kind \in {"can throw", "may", "may return in catch"}
  BY DEF GoesOn
<1>5. ~Leaves(Effect) /\ ~Loses(Effect)
  BY <1>1, <1>4 DEF Leaves, Loses
<1>6. CASE Kind # "may"
  BY <1>5, <1>6, RestMoves DEF GoesOn
<1>7. CASE Kind = "may"
  <2>1. todo' = <<On>> \o Rest
    BY <1>7 DEF GoesOn
  <2>2. /\ On \in Simple /\ On \in Effects /\ On[1] \in {"set", "remove", "commit", "verdict"}
        /\ On[1] = "remove" => On[2] = "hrc"
    BY <1>1, <1>2, <1>3, <1>7, Kinds, EffectsAre DEF Right, Proper
  <2>3. On # Last
    BY <2>2, Kinds
  <2>4. ~Loses(On) /\ ~Opens(On) /\ Proper(On) /\ ~Danger(On)
    BY <2>2, <2>3 DEF Loses, Opens, Proper, Danger
  <2>5. On \in Gentle
    BY <2>2, <2>4 DEF Gentle, Mild
  <2>6. Wants(Effect) = SimpleWants(On) /\ Wants(On) = SimpleWants(On)
    <3>1. On[1] # "may"
      BY <2>2
    <3> QED
      BY <1>1, <1>7, <3>1 DEF Wants
  <2> DEFINE b == <<On>>
  <2>7. b \in Seq(Gentle)
    BY <2>5, List1, Zenon
  <2>8. ASSUME NEW G, Wants(Effect) \subseteq G PROVE Supplied(b, G)
    BY <2>6, <2>8, Supplied1
  <2> HIDE DEF b
  <2>9. /\ b \in Seq(Effects) /\ Safe(b) /\ Closing(b) /\ Plain(b) /\ ~Endangered(b)
    BY <2>7, GentleSafe DEF Endangered, Harmless
  <2>10. \A F, G : /\ Wants(Effect) \subseteq F
                   /\ Encoded => Basics \subseteq F
                   /\ Loses(Effect) \/ F \subseteq G
                   => Supplied(b, G)
    <3> SUFFICES ASSUME NEW F, NEW G, Wants(Effect) \subseteq F, F \subseteq G
                 PROVE  Supplied(b, G)
      BY <1>5, Zenon
    <3>1. Wants(Effect) \subseteq G
      OBVIOUS
    <3> QED
      BY <2>8, <3>1, Zenon
  <2>11. todo' = b \o Rest
    BY <2>1 DEF b
  <2> QED
    BY <1>5, <2>9, <2>10, <2>11, PutMoves
<1> QED
  BY <1>6, <1>7

(* A command runs another one.                                             *)
LEMMA SubcommandMoves ==
  ASSUME SessInv, PhInv, Safe(todo), Unarmed, todo # <<>>, Subcommand
  PROVE  Safe(todo') /\ Goes /\ (Endangered(todo') /\ armed' => ~reentrant')
<1>1. todo \in Seq(Effects) /\ Effect = todo[1] /\ Rest = Tail(todo)
      /\ Effect \in Effects /\ Effect[1] = "unless"
  BY Running DEF SessInv, Stacked, Subcommand, Kind, Effect, Rest
<1>2. Right(Effect)
  BY <1>1, HeadIs DEF PhInv, Orderly
<1>3. ~Leaves(Effect) /\ ~Loses(Effect) /\ Opens(Effect) /\ Yield(Effect) = {}
  BY <1>1 DEF Leaves, Loses, Opens, Yield
<1>4. CASE On \in flags
  <2>1. Moves
    BY <1>3, <1>4, RestMoves DEF Subcommand
  <2>2. armed' = armed /\ reentrant' = reentrant
    BY <1>4 DEF Subcommand, machineVars
  <2> QED
    BY <2>1, <2>2 DEF Moves, Unarmed
<1>5. CASE On \notin flags /\ todo' = <<>>
  BY <1>5, NothingMoves, NothingSafe DEF Moves
<1>6. CASE On \notin flags /\ todo' # <<>>
  <2> DEFINE c == Effect[3]
             b == << Do(c), <<"end", "dispatch">> >>
  <2>1. todo' = b \o Rest /\ reentrant' = (c \in Reentrant)
    BY <1>6 DEF Subcommand, Dispatch
  <2>2. c \in UserCommands /\ c \in Procs /\ c # "reset"
    <3>1. Effect \in Simple
      BY <1>1, Kinds
    <3> QED
      BY <1>1, <1>2, <3>1, SimpleKinds DEF Right, Procs, Given
  <2> HIDE DEF c
  <2>3. /\ b \in Seq(Effects) /\ Safe(b) /\ Closing(b)
        /\ Endangered(b) => c \notin Reentrant
        /\ \A F : Supplied(b, F)
    BY <2>2, DispatchSafe
  <2> HIDE DEF b
  <2>4. /\ Safe(b \o Tail(todo))
        /\ Endangered(b \o Tail(todo)) => Endangered(b) \/ (Endangered(todo) /\ ~Opens(todo[1]))
    BY <1>1, <1>3, <2>3, PutSafe
  <2>5. Endangered(todo') => ~reentrant'
    BY <1>1, <1>3, <2>1, <2>3, <2>4
  <2>6. Goes
    <3> SUFFICES ASSUME NEW F, NEW G, Supplied(todo, F),
                        Loses(Effect) \/ F \cup Yield(Effect) \subseteq G
                 PROVE  Supplied(todo', G)
      BY Zenon DEF Goes
    <3>1. Supplied(b \o Tail(todo), G)
      BY <1>1, <1>3, <2>3, PutSupplied
    <3> QED
      BY <1>1, <2>1, <3>1
  <2>7. Safe(todo')
    BY <1>1, <2>1, <2>4
  <2> QED
    BY <2>5, <2>6, <2>7
<1> QED
  BY <1>4, <1>5, <1>6

(* Every step of a command.                                                *)
LEMMA StepMoves ==
  ASSUME SessInv, PhInv, Safe(todo), Unarmed, todo # <<>>, Step
  PROVE  Safe(todo') /\ Goes /\ (Endangered(todo') /\ armed' => ~reentrant')
<1> DEFINE Goal == Safe(todo') /\ Goes /\ (Endangered(todo') /\ armed' => ~reentrant')
<1>1. ASSUME Moves, armed' = FALSE \/ (armed' = armed /\ reentrant' = reentrant)
      PROVE  Goal
  BY <1>1 DEF Moves, Unarmed
<1>2. ASSUME todo' = Rest, Kind \notin {"return 1", "throw"},
             armed' = FALSE \/ (armed' = armed /\ reentrant' = reentrant)
      PROVE  Goal
  <2>1. ~Leaves(Effect)
    BY <1>2 DEF Leaves, Kind
  <2> QED
    BY <1>1, <1>2, <2>1, RestMoves
<1>3. ASSUME todo' = <<>> PROVE Goal
  BY <1>3, NothingMoves, NothingSafe DEF Moves
<1>4. CASE CallFunction
  BY <1>1, <1>4, CallMoves DEF CallFunction, machineVars
<1>5. CASE Subcommand
  BY <1>5, SubcommandMoves
<1>6. CASE EnterCatch
  BY <1>1, <1>6, EnterMoves DEF EnterCatch
<1>7. CASE GoesOn
  BY <1>1, <1>7, MayMoves DEF GoesOn, machineVars
<1>8. CASE LeaveCatch
  <2>1. todo' = Rest /\ Kind = "end"
    BY <1>8 DEF LeaveCatch
  <2>2. armed' = FALSE \/ (armed' = armed /\ reentrant' = reentrant)
    BY <1>8 DEF LeaveCatch
  <2> QED
    BY <1>2, <2>1, <2>2
<1>9. CASE SkipsEffect
  BY <1>2, <1>9 DEF SkipsEffect, machineVars
<1>10. CASE Throws
  <2>1. Jump(Rest) /\ armed' = armed /\ reentrant' = reentrant
    BY <1>10 DEF Throws
  <2>2. todo \in Seq(Effects) /\ Rest = Tail(todo) /\ Rest \in Seq(Effects) /\ Guarded(Rest)
    BY Running DEF SessInv, Stacked, Rest
  <2>3. Safe(Rest) /\ (Endangered(Rest) => Endangered(todo))
    BY <2>2, SafeTail, EndangeredTail
  <2>4. /\ Safe(todo') /\ (Endangered(todo') => Endangered(Rest))
        /\ \A F : Supplied(todo', F)
    BY <2>1, <2>2, <2>3, JumpSafe
  <2>5. Moves
    BY <2>3, <2>4, Zenon DEF Moves, Goes
  <2> QED
    BY <1>1, <2>1, <2>5
<1>11. CASE Returns
  BY <1>3, <1>11 DEF Returns
<1>12. CASE SetFlag \/ ReadEnv \/ PutEnv \/ RemoveEnv \/ CreateLayer \/ DropLayer
  <2>1. armed' = armed /\ reentrant' = reentrant /\ (todo' = Rest \/ todo' = <<>>)
    BY <1>12 DEF SetFlag, ReadEnv, PutEnv, RemoveEnv, CreateLayer, DropLayer, Assert, machineVars
  <2>2. Kind \notin {"return 1", "throw"}
    BY <1>12, KindsOfActions
  <2> QED
    BY <1>2, <1>3, <2>1, <2>2
<1>13. CASE CommitLayer \/ LazyCommit \/ DestroyEncoder \/ Compiler \/ BuildBeFsm
  <2>1. armed' = armed /\ reentrant' = reentrant /\ (todo' = Rest \/ todo' = <<>>)
    BY <1>13 DEF CommitLayer, LazyCommit, DestroyEncoder, Compiler, BuildBeFsm, Assert, machineVars
  <2>2. Kind \notin {"return 1", "throw"}
    BY <1>13, KindsOfActions
  <2> QED
    BY <1>2, <1>3, <2>1, <2>2
<1>14. CASE ChangeProperty \/ CheckMachine
  <2>1. armed' = armed /\ reentrant' = reentrant /\ (todo' = Rest \/ todo' = <<>>)
    BY <1>14 DEF ChangeProperty, CheckMachine, Assert, machineVars
  <2>2. Kind \notin {"return 1", "throw"}
    BY <1>14, KindsOfActions
  <2> QED
    BY <1>2, <1>3, <2>1, <2>2
<1> QED
  BY <1>4, <1>5, <1>6, <1>7, <1>8, <1>9, <1>10, <1>11, <1>12, <1>13, <1>14 DEF Step

(***************************************************************************)
(* What a step makes of the facts.                                         *)
(***************************************************************************)

(* The facts in the next state.                                            *)
LEMMA FactsNext ==
  /\ Facts' \subseteq Names
  /\ \A k \in Keys \ {"hrc"} : <<"env", k>> \in Facts' <=> k \in env'
  /\ \A l \in Layers : <<"layer", l>> \in Facts' <=> l \in layers'
  /\ \A x \in Encoders, l \in Layers : <<x, l>> \in Facts' <=> l \in committed'[x]
<1>1. Facts' = {f \in Names : \/ f[1] = "env" /\ f[2] \in env'
                              \/ f[1] = "layer" /\ f[2] \in layers'
                              \/ f[1] \in Encoders /\ f[2] \in committed'[f[1]]}
  BY DEF Facts, Holds
<1>2. ASSUME NEW k \in Keys \ {"hrc"}
      PROVE  <<"env", k>> \in Facts' <=> k \in env'
  BY <1>1 DEF Names, Encoders
<1>3. ASSUME NEW l \in Layers
      PROVE  <<"layer", l>> \in Facts' <=> l \in layers'
  BY <1>1 DEF Names, Encoders
<1>4. ASSUME NEW x \in Encoders, NEW l \in Layers
      PROVE  <<x, l>> \in Facts' <=> l \in committed'[x]
  BY <1>1 DEF Names, Encoders
<1> QED
  BY <1>1, <1>2, <1>3, <1>4

(* Facts are kept when no object, layer or commitment goes.                *)
LEMMA MoreFacts ==
  ASSUME env \ {"hrc"} \subseteq env', layers \subseteq layers',
         \A x \in Encoders : committed[x] \subseteq committed'[x]
  PROVE  Facts \subseteq Facts'
<1> SUFFICES ASSUME NEW f \in Facts PROVE f \in Facts'
  OBVIOUS
<1>1. Facts' = {g \in Names : \/ g[1] = "env" /\ g[2] \in env'
                              \/ g[1] = "layer" /\ g[2] \in layers'
                              \/ g[1] \in Encoders /\ g[2] \in committed'[g[1]]}
  BY DEF Facts, Holds
<1>2. f \in Names /\ Holds(f)
  BY DEF Facts
<1>3. f[1] = "env" => f[2] # "hrc"
  BY <1>2 DEF Names, Encoders
<1> QED
  BY <1>1, <1>2, <1>3 DEF Holds

(* What a session must show to stay sound.                                 *)
LEMMA SoundNext ==
  ASSUME \A f \in flags' : Promised[f] \subseteq Facts',
         \A x \in Encoders : /\ committed'[x] \subseteq layers'
                             /\ committed'[x] # {} => EncoderKey[x] \in env',
         prop'.fsm["bool"] = "own" => \A x \in Encoders : "determ_p" \in committed'[x]
  PROVE  Sound'
BY DEF Sound

(* A step that loses nothing.                                              *)
LEMMA StillSound ==
  ASSUME Sound, flags' \subseteq flags, Facts \subseteq Facts', layers \subseteq layers', env \ {"hrc"} \subseteq env',
         committed' = committed, prop' = prop \/ prop'.fsm["bool"] # "own"
  PROVE  Sound'
<1>1. \A f \in flags' : Promised[f] \subseteq Facts'
  BY DEF Sound
<1>2. \A x \in Encoders : EncoderKey[x] # "hrc"
  BY DEF Encoders, EncoderKey
<1>3. \A x \in Encoders : /\ committed'[x] \subseteq layers'
                          /\ committed'[x] # {} => EncoderKey[x] \in env'
  BY <1>2 DEF Sound
<1>4. prop'.fsm["bool"] = "own" => \A x \in Encoders : "determ_p" \in committed'[x]
  BY DEF Sound
<1> QED
  BY <1>1, <1>3, <1>4, SoundNext

(* What a step must show.                                                  *)
Secures == Sound' /\ (Loses(Effect) \/ Facts \cup Yield(Effect) \subseteq Facts')

LEMMA DataStays ==
  ASSUME SessInv, Sound, UNCHANGED dataVars, Yield(Effect) \subseteq Facts
  PROVE  Secures
<1>1. Facts' = Facts
  BY DEF dataVars, Facts, Holds
<1>2. Sound'
  BY <1>1, StillSound DEF dataVars
<1> QED
  BY <1>1, <1>2 DEF Secures

(* Calls, jumps and assertions change no data.                             *)
LEMMA ControlSecures ==
  ASSUME SessInv, Sound,
         \/ CallFunction \/ Subcommand \/ EnterCatch \/ LeaveCatch \/ GoesOn \/ SkipsEffect
         \/ Throws \/ Returns \/ CheckMachine
  PROVE  Secures
<1>1. UNCHANGED dataVars
  BY DEF CallFunction, Subcommand, Dispatch, EnterCatch, LeaveCatch, GoesOn, SkipsEffect, Throws,
     Returns, CheckMachine
<1>2. Kind \in {"do", "unless", "catch", "end", "can throw", "may", "may return in catch", "throw",
                "return 1", "has machine", "no machine"}
  BY KindsOfActions
<1>3. Yield(Effect) = {}
  BY <1>2 DEF Yield, Kind
<1> QED
  BY <1>1, <1>3, DataStays

LEMMA FlagSecures ==
  ASSUME SessInv, Sound, todo # <<>>, SetFlag, Wants(Effect) \subseteq Facts
  PROVE  Secures
<1>1. Kind \in {"set", "unset"} /\ Effect[1] = Kind /\ Effect[2] = On
  BY DEF SetFlag, Kind, On
<1>2. Yield(Effect) = {}
  BY <1>1 DEF Yield
<1>3. /\ env' = env /\ layers' = layers /\ committed' = committed /\ prop' = prop
      /\ flags' \subseteq flags \cup {On} /\ (On \in flags' \ flags => Kind = "set")
  BY <1>1 DEF SetFlag
<1>4. Facts' = Facts
  BY <1>3 DEF Facts, Holds
<1>5. Kind = "set" => Promised[On] \subseteq Facts
  BY <1>1 DEF Wants, SimpleWants
<1>6. \A f \in flags' : Promised[f] \subseteq Facts'
  BY <1>3, <1>4, <1>5 DEF Sound
<1>7. Sound'
  BY <1>3, <1>6, SoundNext DEF Sound
<1> QED
  BY <1>2, <1>4, <1>7 DEF Secures

LEMMA ReadSecures ==
  ASSUME SessInv, Sound, todo # <<>>, ReadEnv, aborted' = <<>>
  PROVE  Secures
<1>1. Kind \in {"get", "absent"} /\ Effect[1] = Kind /\ Effect[2] = On /\ UNCHANGED dataVars
  BY DEF ReadEnv, Kind, On
<1>2. Effect \in Effects /\ Effect # <<>>
  BY Running DEF SessInv
<1>3. On \in Keys
  BY <1>1, <1>2, Kinds, SimpleKinds
<1>4. (On \in env) <=> (Kind = "get")
  BY <1>2 DEF ReadEnv, Assert
<1>5. Yield(Effect) \subseteq Facts
  BY <1>1, <1>3, <1>4, FactsAre DEF Yield
<1> QED
  BY <1>1, <1>5, DataStays

LEMMA PutSecures ==
  ASSUME SessInv, Sound, todo # <<>>, PutEnv
  PROVE  Secures
<1>1. /\ Kind \in {"put", "replace", "ensure"} /\ Effect[1] = Kind /\ Effect[2] = On
      /\ env' = env \cup {On} /\ flags' = flags /\ layers' = layers /\ committed' = committed
      /\ prop' = prop
  BY DEF PutEnv, Kind, On
<1>2. Effect \in Effects
  BY Running DEF SessInv
<1>3. On \in Keys
  BY <1>1, <1>2, Kinds, SimpleKinds
<1>4. Facts \subseteq Facts'
  BY <1>1, MoreFacts
<1>5. Yield(Effect) \subseteq Facts'
  BY <1>1, <1>3, FactsNext DEF Yield
<1>6. Sound'
  BY <1>1, <1>4, StillSound
<1> QED
  BY <1>4, <1>5, <1>6 DEF Secures

LEMMA CreateSecures ==
  ASSUME SessInv, Sound, todo # <<>>, CreateLayer
  PROVE  Secures
<1>1. /\ Kind = "create" /\ Effect[1] = Kind /\ Effect[2] = On
      /\ layers' = layers \cup {On} /\ flags' = flags /\ env' = env /\ committed' = committed
      /\ prop' = prop
  BY DEF CreateLayer, Kind, On
<1>2. Effect \in Effects
  BY Running DEF SessInv
<1>3. On \in Layers
  BY <1>1, <1>2, Kinds, SimpleKinds
<1>4. Facts \subseteq Facts'
  BY <1>1, MoreFacts
<1>5. Yield(Effect) \subseteq Facts'
  BY <1>1, <1>3, FactsNext DEF Yield
<1>6. Sound'
  BY <1>1, <1>4, StillSound
<1> QED
  BY <1>4, <1>5, <1>6 DEF Secures

LEMMA BeFsmSecures ==
  ASSUME SessInv, Sound, todo # <<>>, BuildBeFsm, aborted' = <<>>
  PROVE  Secures
<1>1. Kind = "be fsm" /\ Effect[1] = Kind /\ Effect[2] = On /\ UNCHANGED dataVars
  BY DEF BuildBeFsm, Kind, On
<1>2. Effect \in Effects /\ Effect # <<>>
  BY Running DEF SessInv
<1>3. On \in Layers
  BY <1>1, <1>2, Kinds, SimpleKinds
<1>4. "model" \in committed["be"] /\ On \in committed["be"]
  BY <1>2 DEF BuildBeFsm, Assert
<1>5. Yield(Effect) \subseteq Facts
  <2>1. Yield(Effect) = {<<"be", "model">>, <<"be", On>>}
    BY <1>1 DEF Yield
  <2>2. "be" \in Encoders /\ "model" \in Layers
    BY DEF Encoders, Layers
  <2> QED
    BY <1>3, <1>4, <2>1, <2>2, FactsAre
<1> QED
  BY <1>1, <1>5, DataStays

LEMMA CommitSecures ==
  ASSUME SessInv, Sound, todo # <<>>, CommitLayer, Wants(Effect) \subseteq Facts, aborted' = <<>>
  PROVE  Secures
<1> DEFINE x == On
           l == Effect[3]
<1>1. /\ Kind = "commit" /\ Effect[1] = "commit" /\ Effect[2] = x
      /\ committed' = [committed EXCEPT ![x] = @ \cup {l}]
      /\ layers' = layers /\ flags' = flags /\ env' = env /\ prop' = prop
  BY DEF CommitLayer, Kind, On
<1>2. Effect \in Effects /\ Effect # <<>> /\ committed \in [Encoders -> SUBSET Layers]
  BY Running DEF SessInv, DataOK
<1>3. x \in Encoders /\ l \in Layers
  BY <1>1, <1>2, Kinds, SimpleKinds
<1>4. l \in layers
  BY <1>2 DEF CommitLayer, Assert
<1> HIDE DEF x, l
<1>5. /\ committed'[x] = committed[x] \cup {l}
      /\ \A y \in Encoders : y # x => committed'[y] = committed[y]
  BY <1>1, <1>2, <1>3
<1>6. Facts \subseteq Facts'
  BY <1>1, <1>3, <1>5, MoreFacts
<1>7. EncoderKey[x] \in env
  <2>1. Wants(Effect) = {<<"env", EncoderKey[x]>>}
    BY <1>1 DEF Wants, SimpleWants
  <2>2. EncoderKey[x] \in Keys \ {"hrc"}
    BY <1>3 DEF Encoders, EncoderKey, Keys
  <2> QED
    BY <2>1, <2>2, FactsAre
<1>8. Yield(Effect) \subseteq Facts'
  <2>1. Yield(Effect) = {<<x, l>>, <<"layer", l>>}
    BY <1>1 DEF Yield, l
  <2> QED
    BY <1>1, <1>3, <1>4, <1>5, <2>1, FactsNext
<1>9. \A y \in Encoders : /\ committed'[y] \subseteq layers'
                          /\ committed'[y] # {} => EncoderKey[y] \in env'
  BY <1>1, <1>4, <1>5, <1>7 DEF Sound
<1>10. \A f \in flags' : Promised[f] \subseteq Facts'
  BY <1>1, <1>6 DEF Sound
<1>11. prop'.fsm["bool"] = "own" => \A y \in Encoders : "determ_p" \in committed'[y]
  BY <1>1, <1>5 DEF Sound
<1>12. Sound'
  BY <1>9, <1>10, <1>11, SoundNext
<1> QED
  BY <1>6, <1>8, <1>12 DEF Secures

LEMMA LazySecures ==
  ASSUME SessInv, Sound, todo # <<>>, LazyCommit, Wants(Effect) \subseteq Facts
  PROVE  Secures
<1> DEFINE l == On
<1>1. /\ Kind = "lazy commit" /\ Effect[1] = "lazy commit" /\ Effect[2] = l
      /\ committed' = [committed EXCEPT !["bdd"] = @ \cup {l}]
      /\ layers' = layers /\ flags' = flags /\ env' = env /\ prop' = prop
  BY DEF LazyCommit, Kind, On
<1>2. Effect \in Effects /\ committed \in [Encoders -> SUBSET Layers] /\ "bdd" \in Encoders
  BY Running DEF SessInv, DataOK, Encoders
<1>3. l \in Layers
  BY <1>1, <1>2, Kinds, SimpleKinds
<1> HIDE DEF l
<1>4. Wants(Effect) = {<<"env", "bdd_enc">>, <<"layer", l>>}
  BY <1>1 DEF Wants, SimpleWants
<1>5. l \in layers /\ EncoderKey["bdd"] \in env
  <2>1. EncoderKey["bdd"] = "bdd_enc" /\ "bdd_enc" \in Keys \ {"hrc"}
    BY DEF EncoderKey, Keys
  <2> QED
    BY <1>3, <1>4, <2>1, FactsAre
<1>6. /\ committed'["bdd"] = committed["bdd"] \cup {l}
      /\ \A y \in Encoders : y # "bdd" => committed'[y] = committed[y]
  BY <1>1, <1>2
<1>7. Facts \subseteq Facts'
  BY <1>1, <1>6, MoreFacts
<1>8. Yield(Effect) \subseteq Facts'
  <2>1. Yield(Effect) = {<<"bdd", l>>}
    BY <1>1 DEF Yield
  <2> QED
    BY <1>2, <1>3, <1>6, <2>1, FactsNext
<1>9. \A y \in Encoders : /\ committed'[y] \subseteq layers'
                          /\ committed'[y] # {} => EncoderKey[y] \in env'
  BY <1>1, <1>5, <1>6 DEF Sound
<1>10. \A f \in flags' : Promised[f] \subseteq Facts'
  BY <1>1, <1>7 DEF Sound
<1>11. prop'.fsm["bool"] = "own" => \A y \in Encoders : "determ_p" \in committed'[y]
  BY <1>1, <1>6 DEF Sound
<1>12. Sound'
  BY <1>9, <1>10, <1>11, SoundNext
<1> QED
  BY <1>7, <1>8, <1>12 DEF Secures

LEMMA PropertySecures ==
  ASSUME SessInv, Sound, todo # <<>>, ChangeProperty, Wants(Effect) \subseteq Facts
  PROVE  Secures
<1>1. /\ flags' = flags /\ env' = env /\ layers' = layers /\ committed' = committed
      /\ Effect[1] = Kind /\ Effect[2] = On
  BY DEF ChangeProperty, Kind, On
<1>2. Kind \in {"new property", "no properties", "verdict", "own", "copy machines", "copy if any"}
  BY KindsOfActions
<1>3. Yield(Effect) = {}
  BY <1>1, <1>2 DEF Yield
<1>4. Facts' = Facts
  BY <1>1 DEF Facts, Holds
<1>5. prop.fsm \in [Machines -> {"none", "own", "env"}] /\ "bool" \in Machines
      /\ prop \in [status : {"absent", "unchecked", "checked"},
                   fsm : [Machines -> {"none", "own", "env"}]]
  BY DEF SessInv, DataOK, Machines
<1>6. ASSUME prop'.fsm["bool"] = "own"
      PROVE  prop.fsm["bool"] = "own" \/ (Kind = "own" /\ On = "bool")
  <2>1. CASE Kind \in {"new property", "no properties"}
    <3>1. prop' = NewProp \/ prop' = NoProp
      BY <2>1 DEF ChangeProperty
    <3>2. NewProp.fsm["bool"] = "none" /\ NoProp.fsm["bool"] = "none"
      BY DEF NewProp, NoProp, Machines
    <3> QED
      BY <1>6, <3>1, <3>2
  <2>2. CASE Kind = "verdict"
    BY <1>5, <1>6, <2>2 DEF ChangeProperty
  <2>3. CASE Kind = "own"
    <3>1. prop' = [prop EXCEPT !.fsm[On] = "own"]
      BY <2>3 DEF ChangeProperty
    <3>2. prop'.fsm = [prop.fsm EXCEPT ![On] = "own"]
      BY <1>5, <3>1
    <3> QED
      BY <1>5, <1>6, <2>3, <3>2
  <2>4. CASE Kind = "copy machines"
    <3>1. prop' = [prop EXCEPT !.fsm = [m \in Machines |-> IF MachineKey[m] \in env THEN "env" ELSE @[m]]]
      BY <2>4 DEF ChangeProperty
    <3>2. prop'.fsm = [m \in Machines |-> IF MachineKey[m] \in env THEN "env" ELSE prop.fsm[m]]
      BY <1>5, <3>1
    <3> QED
      BY <1>5, <1>6, <3>2
  <2>5. CASE Kind = "copy if any"
    <3>1. prop' = [prop EXCEPT !.fsm[On] = "env"] \/ prop' = prop
      BY <2>5 DEF ChangeProperty
    <3>2. prop'.fsm = [prop.fsm EXCEPT ![On] = "env"] \/ prop' = prop
      BY <1>5, <3>1
    <3> QED
      BY <1>5, <1>6, <3>2
  <2> QED
    BY <1>2, <2>1, <2>2, <2>3, <2>4, <2>5
<1>7. ASSUME Kind = "own", On = "bool"
      PROVE  \A x \in Encoders : "determ_p" \in committed[x]
  <2>1. Wants(Effect) = {<<x, "determ_p">> : x \in Encoders}
    BY <1>1, <1>7 DEF Wants, SimpleWants
  <2>2. "determ_p" \in Layers
    BY DEF Layers
  <2> QED
    BY <2>1, <2>2, FactsAre
<1>8. Sound'
  <2>1. prop'.fsm["bool"] = "own" => \A x \in Encoders : "determ_p" \in committed'[x]
    BY <1>1, <1>6, <1>7 DEF Sound
  <2> QED
    BY <1>1, <1>4, <2>1, SoundNext DEF Sound
<1> QED
  BY <1>3, <1>4, <1>8 DEF Secures

(* No flag stands when the flattening of a hierarchy is undone.            *)
LEMMA NothingPromised ==
  ASSUME Sound, flags \subseteq {"read_model"}
  PROVE  \A f \in flags : Promised[f] = {}
BY PromisedAre

LEMMA UndoneEarly ==
  ASSUME SessInv, PhInv, Safe(todo), todo # <<>>, Undoes(Effect)
  PROVE  flags \subseteq {"read_model"}
<1>1. todo \in Seq(Effects) /\ Effect = todo[1] /\ 1 \in DOMAIN todo
  BY Running DEF SessInv, Stacked, Effect
<1>2. PICK j \in DOMAIN todo : todo[j] = <<"unset", "read_model">>
  BY <1>1 DEF Safe, Followed
<1>3. <<"unset", "read_model">>[1] = "unset" /\ <<"unset", "read_model">>[2] = "read_model"
  BY Parts
<1>4. Early(todo[j])
  BY <1>2, <1>3 DEF Early
<1> QED
  BY <1>4 DEF PhInv, Orderly, Fresher

(* A layer that no encoder uses is dropped.                                *)
LEMMA DropSecures ==
  ASSUME SessInv, PhInv, Safe(todo), Sound, todo # <<>>, DropLayer, aborted' = <<>>
  PROVE  Secures
<1>1. /\ Kind = "drop layer" /\ Effect[1] = "drop layer" /\ Effect[2] = On
      /\ layers' = layers \ {On} /\ flags' = flags /\ env' = env /\ committed' = committed
      /\ prop' = prop
  BY DEF DropLayer, Kind, On
<1>2. Effect \in Effects /\ Effect # <<>>
  BY Running DEF SessInv
<1>3. On \in Layers
  BY <1>1, <1>2, Kinds, SimpleKinds
<1>4. \A x \in Encoders : On \notin committed[x]
  BY <1>2 DEF DropLayer, Assert
<1>5. \A x \in Encoders : /\ committed'[x] \subseteq layers'
                          /\ committed'[x] # {} => EncoderKey[x] \in env'
  BY <1>1, <1>4 DEF Sound
<1>6. \A f \in flags' : Promised[f] \subseteq Facts'
  <2>1. CASE On = "model"
    <3>1. flags \subseteq {"read_model"}
      BY <1>1, <2>1, UndoneEarly DEF Undoes
    <3> QED
      BY <1>1, <3>1, NothingPromised
  <2>2. CASE On # "model"
    <3>1. \A f \in Flags : <<"layer", On>> \notin Promised[f]
      <4>1. ASSUME NEW k, k # "model"
            PROVE  /\ <<"layer", k>> \notin Promised["flatten_hrc"]
                   /\ <<"layer", k>> \notin Promised["encode_variables"]
                   /\ <<"layer", k>> \notin Promised["build_model"]
                   /\ <<"layer", k>> \notin Promised["build_bool_model"]
                   /\ <<"layer", k>> \notin Promised["bmc_init"]
                   /\ <<"layer", k>> \notin Promised["bmc_setup"]
        BY <4>1, PromisedAre
      <4>2. ASSUME NEW k
            PROVE  /\ <<"layer", k>> \notin Promised["read_model"]
                   /\ <<"layer", k>> \notin Promised["hrc_built"]
                   /\ <<"layer", k>> \notin Promised["build_flat_model"]
        BY PromisedAre
      <4> QED
        BY <2>2, <4>1, <4>2 DEF Flags
    <3>2. \A g \in Facts : g # <<"layer", On>> => g \in Facts'
      <4> SUFFICES ASSUME NEW g \in Facts, g # <<"layer", On>> PROVE g \in Facts'
        OBVIOUS
      <4>1. g \in Names /\ Holds(g)
        BY DEF Facts
      <4>2. CASE g[1] = "layer" /\ g[2] \in layers
        <5>1. g = <<"layer", g[2]>>
          BY <4>1, <4>2 DEF Names, Encoders
        <5>2. g[2] # On
          BY <5>1
        <5> QED
          BY <1>1, <4>1, <4>2, <5>2 DEF Facts, Holds
      <4>3. CASE g[1] # "layer" \/ g[2] \notin layers
        BY <1>1, <4>1, <4>3 DEF Facts, Holds
      <4> QED
        BY <4>2, <4>3
    <3>3. flags \subseteq Flags
      BY DEF SessInv, DataOK
    <3> QED
      BY <1>1, <3>1, <3>2, <3>3 DEF Sound
  <2> QED
    BY <2>1, <2>2
<1>7. Sound'
  BY <1>1, <1>5, <1>6, SoundNext DEF Sound
<1>8. Loses(Effect)
  BY <1>1 DEF Loses
<1> QED
  BY <1>7, <1>8 DEF Secures

LEMMA RemoveSecures ==
  ASSUME SessInv, PhInv, Safe(todo), Sound, todo # <<>>, RemoveEnv, ~Wrecks(Effect)
  PROVE  Secures
<1>1. /\ Kind = "remove" /\ Effect[1] = "remove" /\ Effect[2] = On
      /\ env' = env \ {On} /\ flags' = flags /\ layers' = layers /\ committed' = committed
      /\ prop' = prop
  BY DEF RemoveEnv, Kind, On
<1>2. On \in {"hrc", "flattener"} /\ Yield(Effect) = {}
  BY <1>1 DEF Wrecks, Yield
<1>3. CASE On = "hrc"
  <2>1. Facts \subseteq Facts'
    BY <1>1, <1>3, MoreFacts
  <2>2. Sound'
    BY <1>1, <1>3, <2>1, StillSound
  <2> QED
    BY <1>2, <2>1, <2>2 DEF Secures
<1>4. CASE On = "flattener"
  <2>1. Loses(Effect) /\ Undoes(Effect)
    BY <1>1, <1>4 DEF Loses, Undoes
  <2>2. \A f \in flags' : Promised[f] \subseteq Facts'
    BY <1>1, <2>1, UndoneEarly, NothingPromised
  <2>3. \A x \in Encoders : EncoderKey[x] # "flattener"
    BY DEF Encoders, EncoderKey
  <2>4. Sound'
    BY <1>1, <1>4, <2>2, <2>3, SoundNext DEF Sound
  <2> QED
    BY <2>1, <2>4 DEF Secures
<1> QED
  BY <1>2, <1>3, <1>4

(* Every step of a command but the end of a reset.                         *)
LEMMA StepSecures ==
  ASSUME SessInv, PhInv, Safe(todo), Sound, todo # <<>>, Step, ~Resetting,
         Wants(Effect) \subseteq Facts, aborted' = <<>>
  PROVE  Secures
<1>1. todo \in Seq(Effects) /\ Effect = todo[1] /\ 1 \in DOMAIN todo /\ Effect \in Effects
  BY Running DEF SessInv, Stacked, Effect
<1>2. \A i \in DOMAIN todo : todo[i] # Last
  BY ResettingIs
<1>3. ~Wrecks(Effect)
  BY <1>1, <1>2 DEF Safe, Followed
<1>4. Kind \notin {"quit compiler", "init compiler", "destroy encoder"}
  <2>1. Effect # Last
    BY <1>1, <1>2
  <2> QED
    BY <1>1, <1>3, <2>1, Kinds DEF Kind, Wrecks
<1>5. ~Compiler /\ ~DestroyEncoder
  BY <1>4, KindsOfActions
<1>6. CASE \/ CallFunction \/ Subcommand \/ EnterCatch \/ LeaveCatch \/ GoesOn \/ SkipsEffect
           \/ Throws \/ Returns \/ CheckMachine
  BY <1>6, ControlSecures
<1>7. CASE \/ SetFlag \/ ReadEnv \/ PutEnv \/ RemoveEnv \/ CreateLayer \/ DropLayer
  BY <1>3, <1>7, FlagSecures, ReadSecures, PutSecures, RemoveSecures, CreateSecures, DropSecures
<1>8. CASE \/ CommitLayer \/ LazyCommit \/ BuildBeFsm \/ ChangeProperty
  BY <1>8, CommitSecures, LazySecures, BeFsmSecures, PropertySecures
<1> QED
  BY <1>5, <1>6, <1>7, <1>8 DEF Step

(***************************************************************************)
(* The invariant is inductive.                                             *)
(***************************************************************************)
LEMMA PromInvInit == Init => PromInv
<1> SUFFICES ASSUME Init PROVE PromInv
  OBVIOUS
<1>1. todo = <<>> /\ flags = {} /\ \A x \in Encoders : committed[x] = {}
  BY DEF Init
<1>2. prop.fsm["bool"] = "none"
  BY DEF Init, NoProp, Machines
<1>3. Safe(todo) /\ Unarmed /\ Supplied(todo, Facts)
  BY <1>1, NothingSafe DEF Unarmed
<1>4. Sound
  BY <1>1, <1>2 DEF Sound
<1> QED
  BY <1>3, <1>4 DEF PromInv, Kept

LEMMA PromInvThen ==
  ASSUME Safe(todo'), Endangered(todo') /\ armed' => ~reentrant',
         Consistent' => Supplied(todo', Facts') /\ Sound'
  PROVE  PromInv'
BY DEF PromInv, Unarmed, Kept, Consistent, Resetting, Safe, Cut, Followed, Ordered, AllProper,
       Endangered, Supplied

LEMMA PromInvStep ==
  ASSUME SessInv, ResetInv, PhInv, PromInv, todo # <<>>, Step
  PROVE  PromInv'
<1>1. todo \in Seq(Effects) /\ Effect = todo[1] /\ Rest = Tail(todo) /\ aborted = <<>>
      /\ Effect \in Effects
  BY Running DEF SessInv, Stacked, Effect, Rest
<1>2. Safe(todo) /\ Unarmed /\ Kept
  BY DEF PromInv
<1>3. Safe(todo') /\ Goes /\ (Endangered(todo') /\ armed' => ~reentrant')
  BY <1>2, StepMoves
<1>4. ASSUME Consistent', Effect = Last
      PROVE  Supplied(todo', Facts') /\ Sound'
  <2>1. Fresh' /\ todo' = Rest
    BY <1>4, LastIsFresh
  <2>2. Loses(Effect)
    BY <1>4, Kind1 DEF Loses, Last
  <2>3. Supplied(todo', Facts')
    BY <1>1, <1>2, <2>1, <2>2, IdleTail, IdleIsSupplied DEF Safe
  <2>4. Sound'
    <3>1. prop'.fsm["bool"] = "none"
      BY <2>1 DEF Fresh, NoProp, Machines
    <3> QED
      BY <2>1, <3>1, SoundNext DEF Fresh
  <2> QED
    BY <2>3, <2>4
<1>5. ASSUME Consistent', Effect # Last
      PROVE  Supplied(todo', Facts') /\ Sound'
  <2>1. aborted' = <<>> /\ ~warned' /\ ~Resetting'
    BY <1>5 DEF Consistent
  <2>2. ~Resetting
    BY <1>5, <2>1, ResettingGoesOn
  <2>3. ~warned
    <3>1. Compiler => Kind = "quit compiler"
      <4>1. Kind # "init compiler"
        BY <1>1, <1>5, Kinds DEF Kind
      <4> QED
        BY <4>1 DEF Compiler
    <3>2. Compiler => ~warned
      BY <2>1, <3>1, Zenon DEF Compiler
    <3>3. CallFunction \/ Subcommand \/ EnterCatch \/ LeaveCatch \/ GoesOn \/ SkipsEffect
          \/ Throws \/ Returns \/ SetFlag \/ ReadEnv \/ PutEnv \/ RemoveEnv => warned' = warned
      BY DEF CallFunction, Subcommand, Dispatch, EnterCatch, LeaveCatch, GoesOn, SkipsEffect,
         Throws, Returns, SetFlag, ReadEnv, PutEnv, RemoveEnv, machineVars
    <3>4. CreateLayer \/ DropLayer \/ CommitLayer \/ LazyCommit \/ DestroyEncoder
          \/ BuildBeFsm \/ ChangeProperty \/ CheckMachine => warned' = warned
      BY DEF CreateLayer, DropLayer, CommitLayer, LazyCommit, DestroyEncoder, BuildBeFsm,
         ChangeProperty, CheckMachine, machineVars
    <3> QED
      BY <2>1, <3>2, <3>3, <3>4 DEF Step
  <2>4. Supplied(todo, Facts) /\ Sound
    BY <1>1, <1>2, <2>2, <2>3 DEF Kept, Consistent
  <2>5. Wants(Effect) \subseteq Facts
    BY <1>1, <2>4, SuppliedHead
  <2>6. Secures
    BY <1>2, <2>1, <2>2, <2>4, <2>5, StepSecures
  <2>7. Encoded => Basics \subseteq Facts
    BY <2>4, EncodedFacts DEF PhInv
  <2>8. Supplied(todo', Facts')
    BY <1>3, <2>4, <2>6, <2>7, Zenon DEF Goes, Secures
  <2> QED
    BY <2>6, <2>8 DEF Secures
<1> QED
  BY <1>3, <1>4, <1>5, PromInvThen

LEMMA PromInvNext ==
  ASSUME SessInv, ResetInv, PhInv, PromInv, [Next]_vars
  PROVE  PromInv'
<1>1. Safe(todo) /\ Unarmed /\ Kept
  BY DEF PromInv
<1>2. ASSUME NEW c \in Commands, Command(c)
      PROVE  PromInv'
  <2>1. todo = <<>> /\ aborted = <<>> /\ UNCHANGED dataVars /\ warned' = warned
        /\ reentrant' = (c \in Reentrant)
    BY <1>2 DEF Command, Dispatch
  <2>2. c \in UserCommands /\ c \in Procs
    BY CommandsAssumption DEF Procs, Given, Leaky
  <2>3. Safe(todo') /\ (Endangered(todo') => ~reentrant') /\ \A F : Supplied(todo', F)
    <3>1. CASE todo' = <<>>
      BY <3>1, NothingSafe
    <3>2. CASE todo' # <<>>
      <4> DEFINE b == << Do(c), <<"end", "dispatch">> >>
      <4>1. todo' = b \o <<>>
        BY <1>2, <3>2 DEF Command, Dispatch
      <4>2. /\ b \in Seq(Effects) /\ Safe(b) /\ (Endangered(b) => c \notin Reentrant)
            /\ \A F : Supplied(b, F)
        BY <2>2, DispatchSafe
      <4> HIDE DEF b
      <4>3. todo' = b
        BY <4>1, <4>2
      <4> QED
        BY <2>1, <4>2, <4>3
    <3> QED
      BY <3>1, <3>2
  <2>4. ~Resetting
    BY <2>1 DEF Resetting
  <2>5. Consistent' => Sound
    BY <1>1, <2>1, <2>4 DEF Consistent, Kept
  <2>6. Sound => Sound'
    <3>1. Facts' = Facts
      BY <2>1 DEF dataVars, Facts, Holds
    <3> QED
      BY <2>1, <3>1, StillSound DEF dataVars
  <2> QED
    BY <2>3, <2>5, <2>6, PromInvThen
<1>3. ASSUME SetCoi \/ UNCHANGED vars
      PROVE  PromInv'
  <2>1. /\ todo' = todo /\ flags' = flags /\ env' = env /\ layers' = layers /\ prop' = prop
        /\ committed' = committed /\ armed' = armed /\ reentrant' = reentrant
        /\ warned' = warned /\ aborted' = aborted
    BY <1>3 DEF SetCoi, machineVars, vars
  <2>2. Facts' = Facts
    BY <2>1 DEF Facts, Holds
  <2>3. Consistent' => Consistent
    BY <2>1 DEF Consistent, Resetting
  <2>4. Sound => Sound'
    BY <2>1, <2>2, StillSound
  <2>5. Consistent' => Supplied(todo', Facts') /\ Sound'
    BY <1>1, <2>1, <2>2, <2>3, <2>4 DEF Kept
  <2>6. Safe(todo') /\ (Endangered(todo') /\ armed' => ~reentrant')
    BY <1>1, <2>1 DEF Unarmed
  <2> QED
    BY <2>5, <2>6, PromInvThen
<1>4. CASE Step
  BY <1>4, PromInvStep DEF Step
<1>5. CASE Interrupt
  <2>1. /\ todo # <<>> /\ armed /\ warned' = (warned \/ ~reentrant) /\ Jump(todo)
        /\ UNCHANGED dataVars /\ armed' = armed /\ reentrant' = reentrant /\ aborted' = aborted
    BY <1>5 DEF Interrupt
  <2>2. todo \in Seq(Effects) /\ Guarded(todo) /\ aborted = <<>>
    BY <2>1, Running DEF SessInv, Stacked
  <2>3. /\ Safe(todo') /\ (Endangered(todo') => Endangered(todo))
        /\ \A F : Supplied(todo', F)
    BY <1>1, <2>1, <2>2, JumpSafe
  <2>4. Endangered(todo') /\ armed' => ~reentrant'
    BY <1>1, <2>1, <2>3 DEF Unarmed
  <2>5. ASSUME Consistent' PROVE Sound
    <3>1. ~warned /\ reentrant
      BY <2>1, <2>5 DEF Consistent, SessInv, DataOK
    <3>2. ~Endangered(todo)
      BY <1>1, <2>1, <3>1 DEF Unarmed
    <3>3. ~Resetting
      BY <3>2, ResettingIs DEF Endangered, Danger
    <3> QED
      BY <1>1, <2>2, <3>1, <3>3 DEF Kept, Consistent
  <2>6. Sound => Sound'
    <3>1. Facts' = Facts
      BY <2>1 DEF dataVars, Facts, Holds
    <3> QED
      BY <2>1, <3>1, StillSound DEF dataVars
  <2> QED
    BY <2>3, <2>4, <2>5, <2>6, PromInvThen
<1> QED
  BY <1>2, <1>3, <1>4, <1>5 DEF Next

(* What the flags promise, in the words of the session.                    *)
LEMMA PromisesAre ==
  /\ Promises["read_model"]
  /\ "flat_hierarchy" \in env => Promises["hrc_built"]
  /\ "flat_hierarchy" \in env /\ "flattener" \in env /\ "model" \in layers
       => Promises["flatten_hrc"]
  /\ "bool_enc" \in env /\ "bdd_enc" \in env /\ "model" \in committed["bool"]
       => Promises["encode_variables"]
  /\ "sexp_fsm" \in env => Promises["build_flat_model"]
  /\ "bdd_fsm" \in env /\ "sexp_fsm" \in env /\ "model" \in committed["bdd"]
       => Promises["build_model"]
  /\ "bool_fsm" \in env /\ "sexp_fsm" \in env /\ "determ" \in committed["bool"]
       /\ "determ" \in committed["bdd"] => Promises["build_bool_model"]
  /\ "be_enc" \in env /\ "model" \in committed["be"] => Promises["bmc_init"]
  /\ "be_fsm" \in env /\ "determ" \in committed["be"] => Promises["bmc_setup"]
BY Zenon DEF Promises

LEMMA PromisesKept ==
  ASSUME SessInv, PromInv
  PROVE  FlagsKeepTheirPromise /\ CommittedLayersExist /\ OwnMachineHasLayer
<1> SUFFICES ASSUME Consistent
             PROVE  /\ \A f \in flags : Promises[f]
                    /\ \A x \in Encoders : /\ committed[x] \subseteq layers
                                           /\ committed[x] # {} => EncoderKey[x] \in env
                    /\ prop.fsm["bool"] = "own" => \A x \in Encoders : "determ_p" \in committed[x]
  BY DEF FlagsKeepTheirPromise, CommittedLayersExist, OwnMachineHasLayer
<1>1. Sound /\ flags \subseteq Flags
  BY DEF PromInv, Kept, SessInv, DataOK
<1>2. /\ \A k \in Keys \ {"hrc"} : <<"env", k>> \in Facts <=> k \in env
      /\ \A l \in Layers : <<"layer", l>> \in Facts <=> l \in layers
      /\ \A x \in Encoders, l \in Layers : <<x, l>> \in Facts <=> l \in committed[x]
  BY FactsAre
<1>3. /\ <<"env", "flat_hierarchy">> \in Facts => "flat_hierarchy" \in env
      /\ <<"env", "flattener">> \in Facts => "flattener" \in env
      /\ <<"env", "bool_enc">> \in Facts => "bool_enc" \in env
      /\ <<"env", "bdd_enc">> \in Facts => "bdd_enc" \in env
      /\ <<"env", "be_enc">> \in Facts => "be_enc" \in env
      /\ <<"env", "sexp_fsm">> \in Facts => "sexp_fsm" \in env
      /\ <<"env", "bool_fsm">> \in Facts => "bool_fsm" \in env
      /\ <<"env", "bdd_fsm">> \in Facts => "bdd_fsm" \in env
      /\ <<"env", "be_fsm">> \in Facts => "be_fsm" \in env
  BY <1>2 DEF Keys
<1>4. /\ <<"layer", "model">> \in Facts => "model" \in layers
      /\ <<"bool", "model">> \in Facts => "model" \in committed["bool"]
      /\ <<"bdd", "model">> \in Facts => "model" \in committed["bdd"]
      /\ <<"be", "model">> \in Facts => "model" \in committed["be"]
      /\ <<"bool", "determ">> \in Facts => "determ" \in committed["bool"]
      /\ <<"bdd", "determ">> \in Facts => "determ" \in committed["bdd"]
      /\ <<"be", "determ">> \in Facts => "determ" \in committed["be"]
  BY <1>2 DEF Layers, Encoders
<1>5. ASSUME NEW f \in flags PROVE Promises[f]
  <2>1. Promised[f] \subseteq Facts /\ f \in Flags
    BY <1>1 DEF Sound
  <2>2. CASE f \in {"read_model", "hrc_built", "flatten_hrc"}
    <3>1. f \in {"hrc_built", "flatten_hrc"} => "flat_hierarchy" \in env
      BY <1>3, <2>1, PromisedAre
    <3>2. f = "flatten_hrc" => "flattener" \in env /\ "model" \in layers
      BY <1>3, <1>4, <2>1, PromisedAre
    <3> QED
      BY <2>2, <3>1, <3>2, PromisesAre
  <2>3. CASE f \in {"encode_variables", "build_flat_model", "build_model"}
    <3>1. f = "encode_variables" =>
            "bool_enc" \in env /\ "bdd_enc" \in env /\ "model" \in committed["bool"]
      BY <1>3, <1>4, <2>1, PromisedAre
    <3>2. f \in {"build_flat_model", "build_model"} => "sexp_fsm" \in env
      BY <1>3, <2>1, PromisedAre
    <3>3. f = "build_model" => "bdd_fsm" \in env /\ "model" \in committed["bdd"]
      BY <1>3, <1>4, <2>1, PromisedAre
    <3> QED
      BY <2>3, <3>1, <3>2, <3>3, PromisesAre
  <2>4. CASE f \in {"build_bool_model", "bmc_init", "bmc_setup"}
    <3>1. f = "build_bool_model" =>
            /\ "bool_fsm" \in env /\ "sexp_fsm" \in env
            /\ "determ" \in committed["bool"] /\ "determ" \in committed["bdd"]
      BY <1>3, <1>4, <2>1, PromisedAre
    <3>2. f = "bmc_init" => "be_enc" \in env /\ "model" \in committed["be"]
      BY <1>3, <1>4, <2>1, PromisedAre
    <3>3. f = "bmc_setup" => "be_fsm" \in env /\ "determ" \in committed["be"]
      BY <1>3, <1>4, <2>1, PromisedAre
    <3> QED
      BY <2>4, <3>1, <3>2, <3>3, PromisesAre
  <2> QED
    BY <2>1, <2>2, <2>3, <2>4 DEF Flags
<1> QED
  BY <1>1, <1>5 DEF Sound

(* Whatever commands, errors, interrupts and resets came before, the       *)
(* invariants of the session, of its resets and of its flags hold, and     *)
(* what is left to do is supplied.                                         *)
LEMMA PromInvAlways == Spec => [](SessInv /\ PromInv)
<1>1. Init => ResetInv /\ PhInv /\ PromInv
  BY PromInvInit, NothingOrderly DEF Init, ResetInv, ResetShape, PhInv, Closed
<1>2. SessInv /\ ResetInv /\ PhInv /\ PromInv /\ [Next]_vars => ResetInv' /\ PhInv' /\ PromInv'
  BY ResetInvNext, PhInvNext, PromInvNext
<1> QED
  BY <1>1, <1>2, SessionInvariant, PTL DEF Spec

(* A command that finds a flag set finds the objects and the committed     *)
(* layers that the flag stands for, as long as no interrupt was warned of  *)
(* since the last reset: the checks of core/compile/compile.c suffice.     *)
THEOREM FlagsKeepTheirPromiseCorrect == Spec => []FlagsKeepTheirPromise
BY PromInvAlways, PromisesKept, PTL

(* No encoder uses a layer that the symbol table has dropped, and only an  *)
(* encoder that exists uses any (SymbTable_remove_layer, base_enc_commit_  *)
(* layer).                                                                 *)
THEOREM CommittedLayersExistCorrect == Spec => []CommittedLayersExist
BY PromInvAlways, PromisesKept, PTL

(* A property never keeps a boolean machine whose determinization layer is *)
(* not committed to all three encoders (Prop_apply_coi_for_bmc).           *)
THEOREM OwnMachineHasLayerCorrect == Spec => []OwnMachineHasLayer
BY PromInvAlways, PromisesKept, PTL
=============================================================================
