CONSTANTS
  Latches <- MCLatches2
  Inputs <- MCInputs2
  Problems <- AllProblems
  Modes = {TRUE, FALSE}
  Commands = {"word-level BMC", "bit-level BMC", "k-induction"}
  Bounds = {0, 2}
  Horizon = 8
SPECIFICATION Spec
INVARIANTS
  TypeOK
  ProvedIsSound
  RefutedIsSound
  BoundedIsSound
  AssumptionsRestored
  TracesShowVerdict
  InductionNeverAborts
PROPERTIES
  ProvedIsFinal
