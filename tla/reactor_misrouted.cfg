SPECIFICATION Spec
CONSTANTS
  s1 = s1
  s2 = s2
  Sessions = {s1, s2}
  FDs = {f1}
  Workers = {w1}
  Outcomes = {"ok", "teardown"}
  MaxReq <- OneEach
  NoSess = NoSess
  NoFd = NoFd
INVARIANTS
  RoutedToOwner
