SPECIFICATION CtlSpec
CONSTANTS
  a = a
  b = b
  c = c
  i = i
  j = j
  States <- Three
  Inputs <- TwoInputs
  Machines <- AllMachines
  Justices <- AllJustices
  Specs <- AllSpecs
  Computes <- AllComputes
INVARIANTS
  CtlAnswersAreRight
  ExplanationIsExecution
  ExplanationShowsViolation
