----------------------------- MODULE MediaSource -----------------------------
(***************************************************************************)
(* MediaSource.cpp: a demuxer position in a file of interleaved video and  *)
(* audio packets, and the two RTP clocks.  A source is a record and each   *)
(* method is an operator on it: a method that also returns something gives *)
(* a record with the new source in field src.                              *)
(*                                                                         *)
(* Presentation times are in the units of their stream's time base, RTP    *)
(* times in ticks of the 90 kHz video clock or in audio samples, and npt   *)
(* times in ticks too.  uint32_t arithmetic is modulo Mod.                 *)
(*                                                                         *)
(* Left out: what open reads from the container besides the streams (SPS,  *)
(* PPS, size, frame rate), streams other than the two chosen ones, packets *)
(* without a NAL unit, and allocation failures.  The h264_mp4toannexb      *)
(* filter gives back each packet it is sent, and stays at its end from the *)
(* flush at the end of the file until av_bsf_flush.                        *)
(***************************************************************************)
EXTENDS Integers, Sequences

CONSTANTS
  File,                  \* the container's packets, in file order
  VideoRate,             \* 90000: ticks of the RTP video clock in a second
  AudioRate,             \* audio samples in a second
  VideoBase, AudioBase,  \* units of the streams' time bases in a second
  TimeBase,              \* AV_TIME_BASE, 10^6
  CutShort,              \* see Cut
  Mod,                   \* 2^32 in the code
  None

Packet == [kind : {"video", "audio"}, pts : Nat, key : BOOLEAN]

\* VideoPacket; i is the frame's place in the file.
VideoPacket == [i : 1..Len(File), ts : 0..Mod-1, key : BOOLEAN]

\* The members of MediaSource that change.
SourceState ==
  [pos : 1..Len(File)+1, firstPts : Nat \cup {None}, rtpOffset : 0..Mod-1, bsfAtEof : BOOLEAN,
   prefetch : VideoPacket \cup {None}, audioFirstPts : Nat \cup {None}, audioOffset : 0..Mod-1,
   audioQueue : Seq(0..Mod-1)]

ASSUME MediaAssumption ==
  /\ File \in Seq(Packet) /\ File # <<>>
  /\ File[1].kind = "video" /\ File[1].key
  /\ {VideoRate, AudioRate, VideoBase, AudioBase, TimeBase, Mod} \subseteq Nat \ {0}
  /\ CutShort \subseteq (Nat \ {0}) \X (Nat \ {0}) \X (Nat \ {0})
  /\ None \notin Int /\ None \notin Packet /\ None \notin VideoPacket /\ None \notin SourceState

Videos == {i \in 1..Len(File) : File[i].kind = "video"}
Keys == {i \in Videos : File[i].key}

\* audio_info_.sample_rate; audio_info_.present is SampleRate > 0.
SampleRate == IF \E i \in 1..Len(File) : File[i].kind = "audio" THEN AudioRate ELSE 0

\* av_rescale_q: x units, from to a second, in units of which to make a second; to
\* the nearest, halves away from zero.
Rescale(x, from, to) ==
  IF x < 0 THEN -((2 * (-x) * to + from) \div (2 * from)) ELSE (2 * x * to + from) \div (2 * from)

\* The same with x / from * to in doubles, cut to an integer.  Where the result is
\* whole the product may come out a little short of it, and is then cut to one less:
\* CutShort says where.
Cut(x, from, to) ==
  IF (x * to) % from = 0 /\ <<x, from, to>> \in CutShort
  THEN (x * to) \div from - 1 ELSE (x * to) \div from

\* A duration in video ticks, in audio samples.
ToAudio(ticks) == Cut(ticks, VideoRate, SampleRate)

\* A time in the video stream, in ticks.
Ticks(pts) == Rescale(pts, VideoBase, VideoRate)

\* The first video packet from place p on, or the end of the file.
NextVideo(p) ==
  IF \E i \in Videos : i >= p
  THEN CHOOSE i \in Videos : i >= p /\ \A j \in Videos : j >= p => i <= j
  ELSE Len(File) + 1

\* A source that open() accepted.
Opened ==
  [pos |-> 1, firstPts |-> None, rtpOffset |-> 0, bsfAtEof |-> FALSE, prefetch |-> None,
   audioFirstPts |-> None, audioOffset |-> 0, audioQueue |-> <<>>]

toRTPTimestamp(s, pts) == (Ticks(pts) + s.rtpOffset) % Mod

\* readPacket's loop: every audio packet passed on the way to the next video
\* packet goes to audio_queue_.
Demux(s) ==
  LET v == NextVideo(s.pos)
      passed == SubSeq(File, s.pos, v - 1)
      first == IF s.audioFirstPts # None \/ passed = <<>> THEN s.audioFirstPts ELSE passed[1].pts
      audio == [i \in 1..Len(passed) |->
                  (Rescale(passed[i].pts - first, AudioBase, SampleRate) + s.audioOffset) % Mod]
      after == [s EXCEPT !.pos = v, !.audioFirstPts = first, !.audioQueue = @ \o audio]
      origin == IF s.firstPts = None THEN File[v].pts ELSE s.firstPts
  IN IF v > Len(File)
     THEN [ok |-> FALSE, vp |-> None, src |-> [after EXCEPT !.bsfAtEof = TRUE]]
     ELSE [ok |-> TRUE,
           vp |-> [i |-> v, ts |-> toRTPTimestamp(s, File[v].pts - origin), key |-> File[v].key],
           src |-> [after EXCEPT !.pos = v + 1, !.firstPts = origin]]

readPacket(s) ==
  IF s.prefetch # None THEN [ok |-> TRUE, vp |-> s.prefetch, src |-> [s EXCEPT !.prefetch = None]]
  ELSE IF s.bsfAtEof THEN [ok |-> FALSE, vp |-> None, src |-> s]
  ELSE Demux(s)

\* av_seek_frame with AVSEEK_FLAG_BACKWARD: the last key frame at or before
\* the time asked for, or a failure.
Landing(t) ==
  IF \E i \in Keys : File[i].pts <= t
  THEN CHOOSE i \in Keys : File[i].pts <= t /\ \A j \in Keys : File[j].pts <= t => j <= i
  ELSE None
SeekFrame(s, t) == IF Landing(t) = None THEN s ELSE [s EXCEPT !.pos = Landing(t)]

seek(s, offset) ==
  [SeekFrame(s, 0) EXCEPT
     !.rtpOffset = offset, !.firstPts = None, !.bsfAtEof = FALSE,
     !.audioFirstPts = None, !.audioOffset = ToAudio(offset) % Mod, !.audioQueue = <<>>]

\* An npt time of the session, in the video stream's units.
Target(t) == Rescale(Cut(t, VideoRate, TimeBase), TimeBase, VideoBase)

\* The probe finds the key frame that was landed on (the first packet there, so its
\* limit of 256 packets is not met), the second seek goes back to it, and both clocks
\* start at its time.  A failure rewinds, and leaves the audio side as it was.
seekToSeconds(s, t) ==
  IF t < 0 THEN seek(s, 0)
  ELSE IF Landing(Target(t)) = None
  THEN [SeekFrame(s, 0) EXCEPT !.bsfAtEof = FALSE, !.rtpOffset = 0, !.firstPts = None]
  ELSE LET actual == File[Landing(Target(t))].pts IN
       [SeekFrame(SeekFrame(s, Target(t)), actual) EXCEPT
          !.bsfAtEof = FALSE, !.rtpOffset = Ticks(actual) % Mod, !.firstPts = None,
          !.audioFirstPts = None, !.audioOffset = Cut(actual, VideoBase, SampleRate) % Mod,
          !.audioQueue = <<>>]

adjustRTPOffset(s, delta) ==
  [s EXCEPT !.rtpOffset = (@ + delta) % Mod, !.audioOffset = (@ + ToAudio(delta)) % Mod]

\* Mutant: the offset is announced, whatever frame is prefetched.
PeekOffset(s) ==
  LET r == readPacket(s) IN
  IF s.prefetch # None \/ ~r.ok THEN [ts |-> s.rtpOffset, src |-> s]
  ELSE [ts |-> s.rtpOffset, src |-> [r.src EXCEPT !.prefetch = r.vp]]

\* peekNextVideoRTPTimestamp: reads the next frame and keeps it for readPacket.
PeekNextVideo(s) ==
  LET r == readPacket(s) IN
  IF s.prefetch # None THEN [ts |-> s.prefetch.ts, src |-> s]
  ELSE IF r.ok THEN [ts |-> r.vp.ts, src |-> [r.src EXCEPT !.prefetch = r.vp]]
  ELSE [ts |-> 0, src |-> r.src]

=============================================================================
