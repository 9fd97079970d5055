SPECIFICATION FairSpec
CONSTANTS
  Tools = {read, write, exec, ghost, none}
  Args = {a, b}
  NoTool = none
  Plans <- ShortPlans
  Registered = {read, write, exec}
  Denied = {exec, none}
  Reserved = {write}
  AnyVerifier = TRUE
  MaxIter = 5
  MaxCalls = 4
  MaxRep = 2
INVARIANTS
  TypeOK
  EachCallObserved
  StepsInOrder
  PolicyGate
  CallBudget
  NoSpinning
  CompletedIsEarned
  FailureSurfaces
PROPERTIES
  Terminates
CHECK_DEADLOCK FALSE
