----------------------------- MODULE MCSession -----------------------------
EXTENDS Session

(* The commands of the checked sessions, with every option that matters.   *)
AllCommands == {"reset", "read_model", "flatten_hierarchy", "encode_variables",
  "build_flat_model", "build_model", "build_model -f", "build_boolean_model",
  "build_boolean_model -f", "bmc_setup", "bmc_setup -f", "go", "go_bmc",
  "check_ctlspec", "check_ltlspec_bmc", "compute_reachable", "write_order",
  "write_flat_model", "write_boolean_model", "bmc_pick_state", "read_trace"}
=============================================================================
