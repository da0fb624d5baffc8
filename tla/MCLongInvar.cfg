SPECIFICATION Spec
CONSTANTS
  a = a
  b = b
  c = c
  d = d
  e = e
  f = f
  i = i
  j = j
  States <- Six
  Inputs <- TwoInputs
  Machines <- LongMachines
  Bounds = {1}
  Invariants <- LongInvariants
  Strategies = {"forward", "backward", "zigzag", "bdd-bmc"}
  MaxK = 3
  CounterExamples = {TRUE, FALSE}
INVARIANTS
  BisectBrackets
  VerdictIsRight
  NoInternalError
  TraceIsShortest
