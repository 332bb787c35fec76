---------------------------- MODULE MCVideoPath ----------------------------
(* NAL units below, at and above the payload limit, with zeros and ones that *)
(* are no start code; key frames with and without parameter sets of their    *)
(* own; both forms of extradata, with a second SPS.                          *)
EXTENDS VideoPath

Sps1 == <<103, 66, 0, 30, 1>>
Sps2 == <<103, 0, 0, 3, 1, 9>>
Pps1 == <<104, 206>>
Pps2 == <<104, 0, 7>>

Containers ==
  {[avcc |-> a, sps |-> s, pps |-> p] : a \in BOOLEAN, s \in {<<Sps1>>, <<Sps2, Sps1>>}, p \in {<<Pps1>>, <<Pps2, Pps1>>}}

Slices(h) == { <<h>>, <<h, 0, 0, 5>>, <<h, 0, 1, 0, 0, 3>>, <<h, 7, 0, 0, 2, 0, 1, 8, 9>> }

Frames(key, nals, codes) == {[key |-> key, nals |-> nals, codes |-> c] : c \in codes}

KeyFrames ==
  UNION { Frames(TRUE, <<n>>, {<<3>>, <<4>>}) : n \in Slices(101) }
  \cup UNION { Frames(TRUE, <<Sps2, Pps1, n>>, {<<4, 4, 3>>, <<3, 3, 4>>}) : n \in Slices(101) }
OtherFrames ==
  UNION { Frames(FALSE, <<n>>, {<<3>>, <<4>>}) : n \in Slices(65) }
  \cup UNION { Frames(FALSE, <<<<65, 1, 2, 3, 4>>, n>>, {<<4, 3>>, <<3, 4>>}) : n \in Slices(65) }

Sample == { <<k>> : k \in KeyFrames }
   \cup { <<[key |-> TRUE, nals |-> <<<<101, 0, 1>>>>, codes |-> <<3>>], f>> : f \in OtherFrames }
=============================================================================
