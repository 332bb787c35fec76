SPECIFICATION ReadingSpec
CONSTANTS
  MaxSize = 2
  HWM = 2
  SndBuf = 2
  MaxMsgs = 3
INVARIANTS
  TypeOK
  StreamContiguous
  ByteAccounting
  ArmedMatchesEpoll
  CoveredStaysArmed
  FrameAdmission
PROPERTIES
  ArmedIsDrained
  FlagClosesOnceQuiet
