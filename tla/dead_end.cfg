CONSTANTS
  Latches <- MCLatches
  Inputs <- MCInputs
  Designs = {}
  IsTemporal <- HasTemporalOperator
  Normalized <- NormalizeProperty
  LtlOfSva <- SvaConverted
  LtlFormulas <- MCLtlFormulas
  LtlHeight <- MCLtlHeight
  Formulas <- MCFormulas
  Height <- MCHeight
  Atoms <- MCAtoms
  Problems <- MCDeadEnd
  Horizon = 5
SPECIFICATION EngineSpec
INVARIANTS
  DeadEndsDoNotFalsify
