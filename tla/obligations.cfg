CONSTANTS
  Atoms <- MCAtoms
  Properties <- SomeProperties
  MaxFrames = 4
  Extension = 2
  Unrolling = 1

SPECIFICATION Spec

INVARIANTS
  AlarmIsGenuine
  TraceShowsViolation
  ViolationIsFound
  RewritingKeepsMeaning
  ObligationsInRange
  MatchesAreExact
  SvaToLtlKeepsMeaning

PROPERTY AlarmPersists

CHECK_DEADLOCK FALSE
