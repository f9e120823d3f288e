CONSTANTS
  Latches <- MCLatches2
  Inputs <- MCInputs1
  Designs <- AllTwoLatchDesigns
  CtgMax = 0
  JoinMax = 3
  MicFailMax = 2
SPECIFICATION FairSpec
INVARIANTS
  TypeOK
  FramesSafe
  LevelZeroRefutes
  ObligationsReachBad
PROPERTIES
  ImplementsSafetyVerdict
  FramesOnlyShrink
  BlockingBlocks
  Terminates
