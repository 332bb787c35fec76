SPECIFICATION FairSpec
CONSTANTS
  s1 = s1
  s2 = s2
  Sessions = {s1, s2}
  FDs = {f1}
  Workers = {w1}
  Outcomes = {"ok", "teardown"}
  MaxReq <- Talker
  NoSess = NoSess
  NoFd = NoFd
INVARIANTS
  SlotOwned
  OwnRequestsInOrder
PROPERTIES
  CommandServed
  StopTerminates
