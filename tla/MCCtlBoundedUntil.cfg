SPECIFICATION CtlSpec
CONSTANTS
  a = a
  b = b
  c = c
  i = i
  j = j
  States <- Three
  Inputs <- TwoInputs
  Machines <- ReturningMachines
  Justices <- AllJustices
  Specs <- BoundedUntilSpecs
  Computes <- AllComputes
INVARIANT ExplanationShowsViolation
