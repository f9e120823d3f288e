CONSTANTS
  Width <- MCWidth
  Commands <- MCCommands
SPECIFICATION Spec
INVARIANTS
  SimulationIsCovered
  SynthesisIsExact
  AssertionsAsExecuted
  ConflictsAreReported
CHECK_DEADLOCK FALSE
