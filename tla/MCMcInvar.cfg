SPECIFICATION FairSpec
CONSTANTS
  a = a
  b = b
  c = c
  d = d
  e = e
  f = f
  i = i
  j = j
  States <- Three
  Inputs <- OneInput
  Machines <- GraphMachines
  Bounds = {1}
  Invariants <- ThreeInvariants
  Strategies = {"smallest", "bdd-bmc"}
  MaxK = 2
  CounterExamples = {TRUE, FALSE}
INVARIANTS
  TypeOK
  VerdictIsRight
  TargetIsWholeMeet
  TraceIsExecution
PROPERTIES
  OnionSpec
  CheckTerminates
