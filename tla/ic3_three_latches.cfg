CONSTANTS
  Latches <- MCLatches3
  Inputs <- MCInputs2
  Designs <- ThreeLatchAndConstrainedDesigns
  CtgMax = 1
  JoinMax = 3
  MicFailMax = 2
SPECIFICATION FairSpec
INVARIANTS
  FramesOverapproximate
  SolversMatchFrames
  GeneralizedCubeIsInductive
  ProvedIsSound
PROPERTIES
  Terminates
