SPECIFICATION Spec
CONSTANTS
  s1 = s1
  s2 = s2
  Sessions = {s1, s2}
  FDs = {f1, f2}
  Workers = {w1, w2}
  Outcomes = {"ok", "teardown", "throw"}
  MaxReq <- OneEach
  NoSess = NoSess
  NoFd = NoFd
INVARIANTS
  TypeOK
  TickExclusive
  FdOwnership
  NoLostKick
  DrainedBeforeClear
  NoSubmitAfterClose
SYMMETRY Symmetry
