--------------------------- MODULE MCRTSPSession ---------------------------
(* A file of four frames with two key frames, and the requests of a client. *)
EXTENDS RTSPSession

V(t, k) == [kind |-> "video", pts |-> t, key |-> k]
A(t) == [kind |-> "audio", pts |-> t, key |-> FALSE]

\* Three units of the video stream and two ticks to a second: 0, 1, 2 and 3 ticks.
TwoGops == <<V(0, TRUE), A(0), V(1, TRUE), A(1), V(3, FALSE), A(2), V(4, FALSE), A(4)>>

\* A product of doubles that falls short: two ticks are four samples, and come to three.
Short2 == {<<2, VideoRate, AudioRate>>}
AudioVideo == {[track |-> t, kind |-> "tcp"] : t \in Tracks}

Play(start, stop) == [scale |-> FALSE, start |-> start, stop |-> stop]
Scale == [scale |-> TRUE, start |-> None, stop |-> None]
SomePlays == {Play(None, 1), Play(2, None), Scale}
=============================================================================
