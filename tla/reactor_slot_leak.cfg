SPECIFICATION Spec
CONSTANTS
  s1 = s1
  s2 = s2
  Sessions = {s1}
  FDs = {f1}
  Workers = {w1, w2}
  Outcomes = {"ok", "teardown", "throw"}
  MaxReq <- OneEach
  NoSess = NoSess
  NoFd = NoFd
INVARIANTS
  SlotOwned
