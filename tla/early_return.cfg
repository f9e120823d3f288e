CONSTANTS
  Width <- MCWidth
  Commands <- EarlyReturnCommands
SPECIFICATION Spec
INVARIANTS
  SimulationIsCovered
CHECK_DEADLOCK FALSE
