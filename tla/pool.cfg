CONSTANTS
  Worker = {w1, w2}
  Client = {k1, k2}
  Task = {t1, t2, t3}
  None = None
SPECIFICATION Spec
INVARIANTS
  TypeOK
  ShutdownDrains
PROPERTIES
  EveryTaskRuns
  ShutdownReturns
