SPECIFICATION FairLiveSpec
CONSTANTS
  a = a
  b = b
  c = c
  i = i
  j = j
  States <- Three
  Inputs <- TwoInputs
  Machines <- AllMachines
  Justices <- AllJustices
  CtlSpecs <- AllSpecs
INVARIANTS
  FairTypeOK
  CachedPairsAreFair
  ReverseFairIsBehindFairCycle
PROPERTIES
  AnswersAreRight
  CommandEnds
