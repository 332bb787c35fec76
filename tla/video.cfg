CONSTANTS
  Mtu = 4
  Extradata <- Containers
  Streams <- Sample
  FirstSeq = 65534
  FirstTs = 16909060
  Ssrc = 305419896
  MaxLost = 2
SPECIFICATION Spec
INVARIANTS
  TypeOK
  SdpDescribesStream
  StreamReassembles
  MarkerEndsFrame
  FragmentsFit
