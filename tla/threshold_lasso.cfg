CONSTANTS
  Latches <- MCLatches1
  Inputs <- MCInputs1
  Problems <- ThresholdOfLasso
  Modes = {FALSE}
  Commands = {}
  Bounds = {}
  Horizon = 4
SPECIFICATION Spec
INVARIANTS
  ProvedIsSound
