------------------------------- MODULE Phases -------------------------------
(***************************************************************************)
(* What the flags of cmps (core/compile/compileStruct.c) promise the       *)
(* commands that ask for them: a phase is performed after the phases it    *)
(* needs, and it is only forgotten when the system quits, or when the      *)
(* hierarchy that was read turns out not to flatten.                       *)
(***************************************************************************)
CONSTANTS Phase,   \* the phases
          Needs    \* the phases each phase needs

VARIABLE done

Init == done = {}

Perform(f) == Needs[f] \subseteq done /\ done' = done \cup {f}

(* What was read is forgotten, when nothing was made of it.                *)
Discard == done \subseteq {"read_model"} /\ done' = {}

(* Bmc_Quit, then Compile_quit.                                            *)
Quit == done' \in {{}, done \ {"bmc_init"}}

Next == (\E f \in Phase : Perform(f)) \/ Discard \/ Quit

Spec == Init /\ [][Next]_done
=============================================================================
