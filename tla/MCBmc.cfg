SPECIFICATION BmcSpec
CHECK_DEADLOCK FALSE
CONSTANTS
  a = a
  b = b
  c = c
  i = i
  States <- Three
  Inputs <- OneInput
  Models <- AllModels
  NoLoop = NoLoop
  AllLoops = AllLoops
  Loops <- AllLoopOptions
INVARIANTS
  CounterexamplesAreReal
PROPERTY
  NoCounterexampleMissed
