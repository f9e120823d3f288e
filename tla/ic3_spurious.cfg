CONSTANTS
  Latches <- MCLatches3
  Inputs <- MCInputs2
  Designs <- SpuriousDesigns
  CtgMax = 0
  JoinMax = 3
  MicFailMax = 2
SPECIFICATION FairSpec
INVARIANTS
  RefutedIsGenuine
