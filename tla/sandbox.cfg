SPECIFICATION Spec
CONSTANTS
  Executions = {e1}
  Requested = {0, 1, 2, 5, 7, 9}
  MaxTimeout = 8
  Second = 2
  Overhead = 3
  CleanupTimeout = 2
  Grace = 1
INVARIANTS
  ResultIsHonest
  NoSilentSurvivor
  PromptAnswer
PROPERTIES
  NothingRunsForever
CHECK_DEADLOCK FALSE
