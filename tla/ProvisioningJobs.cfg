SPECIFICATION MCSpec
CONSTANTS
  c1 = c1
  w1 = w1
  w2 = w2
  j1 = j1
  j2 = j2
  NoJob = NoJob
  Job = {j1, j2}
  Caller = {c1}
  Worker = {w1, w2}
  QueueMode = TRUE
  Kind <- AllKinds
  MaxFaults = 3
  SyncFaults = 1
INVARIANTS JobRunsOnce RollbackMissesNothing SuccessIsComplete RecordsSurvive
PROPERTIES VerdictsStand PendingIsDrained
CHECK_DEADLOCK FALSE
