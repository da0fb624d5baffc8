SPECIFICATION AGSpec
CONSTANTS
  a = a
  b = b
  c = c
  d = d
  i = i
  j = j
  States <- Four
  Inputs <- TwoInputs
  Machines <- DiamondMachines
  Bounds = {1}
  Invariants <- AGInvariants
  Strategies = {"forward", "zigzag"}
  MaxK = 0
  CounterExamples = {TRUE, FALSE}
  Specs <- AGSpecs
INVARIANTS
  AGVerdictIsRight
  WalkNeverStuck
  AGStatesAreShortestPath
