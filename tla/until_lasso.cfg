CONSTANTS
  Atoms <- MCAtoms
  Properties <- NextUntil
  MaxFrames = 4
  Extension = 2
  Unrolling = 1

SPECIFICATION Spec

INVARIANT AlarmIsGenuine

CHECK_DEADLOCK FALSE
