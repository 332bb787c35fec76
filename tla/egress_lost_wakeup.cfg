SPECIFICATION ReadingSpec
CONSTANTS
  MaxSize = 2
  HWM = 2
  SndBuf = 2
  MaxMsgs = 2
PROPERTIES
  EveryMessageDelivered
