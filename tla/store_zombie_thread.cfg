SPECIFICATION Spec
CONSTANTS
  Jobs = {j1, j2}
  TaskIds = {t1, t2, t3}
  Sigs = {hello, chat, image}
  FastSigs = {hello}
  VisionSigs = {image}
  CustomIds = {}
  Window = 2
  NoJob = NoJob
  NoId = NoId
INVARIANTS
  NoDuplicateExecution
CHECK_DEADLOCK FALSE
