SPECIFICATION ReachSpec
CONSTANTS
  a = a
  b = b
  c = c
  i = i
  j = j
  States <- MCStates
  Inputs <- MCInputs
  Machines <- MCMachines
  Bounds = {1, 2}
INVARIANTS
  ReachTypeOK
  LayersAreOnion
  PartialHasFrontier
  CompleteIsExact
  NoRepeatedLayer
  DistancesAreShortestPaths
PROPERTIES
  CacheOnlyGrows
  OnionSpec
  UnlimitedCallCompletes
