SPECIFICATION FairSpec
CONSTANTS
  Jobs = {1, 2, 3}
  TaskIds = {1, 2, 3}
  Sigs = {hello, chat, image}
  FastSigs = {hello}
  VisionSigs = {image}
  CustomIds = {}
  Window = 1
  NoJob = 0
  NoId = 0
ACTION_CONSTRAINT SubmitInOrder
INVARIANTS
  LockDiscipline
  FinalPhaseAgrees
  QueuedHasRunner
  InterruptsOwnTask
  NoDuplicateActive
PROPERTIES
  FinalIsFinal
  ImplementsLifecycle
  EveryTaskSettles
  CancelFreesLock
CHECK_DEADLOCK FALSE
