CONSTANTS
  None = None
  File <- TwoGops
  VideoRate = 2
  AudioRate = 4
  VideoBase = 3
  AudioBase = 3
  TimeBase = 12
  CutShort <- Short2
  Mod = 64
  Setups <- AudioVideo
  Plays <- SomePlays
  SeqModulus = 2
  MaxClock = 3
  MaxLag = 1
SPECIFICATION Spec
PROPERTY SeekHonoured
