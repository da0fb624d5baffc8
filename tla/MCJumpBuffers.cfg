SPECIFICATION Spec
CONSTANTS
  Commands = {"go", "print_reachable_states"}
  MaxJmp = 20
INVARIANT JumpBuffersBalance
CHECK_DEADLOCK FALSE
