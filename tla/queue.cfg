CONSTANTS
  p = p
  c = c
  x = x
  Caller <- Threads
  Item = {a, b}
  Capacity = 2
  None = None
  MayCall <- Roles
SPECIFICATION FairSpec
INVARIANTS
  TypeOK
  NoLostWakeup
PROPERTIES
  ImplementsFifo
