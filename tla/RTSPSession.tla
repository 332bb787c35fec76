----------------------------- MODULE RTSPSession -----------------------------
(***************************************************************************)
(* RTSPSession.cpp, the worker's side: the RTSP methods and pacerTick.     *)
(* A tick is one run of pacerTick: it takes queued requests in order, then *)
(* sends what is due.  Ticks of one session never overlap (Reactor), so a  *)
(* step here is one handler, or the media part of one tick.                *)
(*                                                                         *)
(* Two clocks meet in it: now, which the Pacer read before it queued the   *)
(* tick, and Clock::now(), which the handlers read.                        *)
(*                                                                         *)
(* Left out: the text of responses and what only goes into it (last_npt_), *)
(* how bytes leave (SessionEgress), requests whose handler throws (they    *)
(* end the session's ticks, see Reactor), and the split of a frame into    *)
(* packets: a frame takes Packets(f) sequence numbers.                     *)
(***************************************************************************)
EXTENDS MediaSource

CONSTANTS
  Setups,     \* the SETUP requests clients send, see SetupRequest
  Plays,      \* the PLAY requests clients send, see PlayRequest
  SeqModulus,     \* 2^16 in the code
  MaxClock,   \* bound: how far the clock runs
  MaxLag      \* bound: how far it runs while a tick waits for a worker or runs

Tracks == {"video", "audio"}

\* "tcp", "udp": a transport that can be had; the others are refused with 461
\* (no client_port) and with 500 (setupUDP failed).
SetupRequest == [track : Tracks, kind : {"tcp", "udp", "udpNoPort", "udpNoSocket"}]

\* Scale header or not; the two ends of Range.  One that is absent, "now" or
\* not a number is None.
PlayRequest == [scale : BOOLEAN, start : Nat \cup {None}, stop : Nat \cup {None}]

ASSUME SessionAssumption ==
  /\ Setups \subseteq SetupRequest /\ Plays \subseteq PlayRequest
  /\ SeqModulus \in Nat \ {0} /\ MaxClock \in Nat \ {0} /\ MaxLag \in Nat

VARIABLES
  state, source, describeDone,             \* state_, media_source_, describe_done_
  ready, useTcp, senders,                  \* tracks set up; use_tcp_; tracks with a
                                           \*   working UDP sender
  firstFrame, waitIdr,                     \* first_frame_, resume_waiting_for_idr_
  pendingV, pendingA,                      \* pending_vp_, pending_ap_
  wallStart, pauseStart,                   \* wall_start_, pause_start_
  loopOffset, audioLoop,                   \* loop_video_offset_, audio_loop_offset_
  lastRtp, lastDur,                        \* last_video_rtp_, last_frame_dur_
  keyNpt, nptEnd,                          \* last_keyframe_npt_, npt_end_
  rtpSeq,                                  \* rtp_seq_
  clock, now,                              \* Clock::now(); pacerTick's argument while it
                                           \*   runs, None otherwise
  \* History, for the properties only:
  lastSent,                                \* what went out last since the position jumped
  promise, wanted,                         \* the last PLAY's rtptime and place asked for
  scaleFloor,                              \* the timestamp a Scale PLAY goes on from
  pace, pausedAt                           \* the true start of play, and of the pause

transport == <<ready, useTcp, senders>>
pacing == <<firstFrame, waitIdr, pendingV, pendingA, wallStart, pauseStart, loopOffset, audioLoop,
            lastRtp, lastDur, keyNpt, nptEnd, rtpSeq>>
time == <<clock, now>>

\* pacerTick is running, or waits for a worker.
inTick == now # None
history == <<lastSent, promise, wanted, scaleFloor, pace, pausedAt>>
vars == <<state, source, describeDone, transport, pacing, time, history>>

Init ==
  /\ state = "INIT" /\ source = None /\ describeDone = FALSE
  /\ ready = {} /\ useTcp = FALSE /\ senders = {}
  /\ firstFrame = TRUE /\ waitIdr = FALSE
  /\ pendingV = None /\ pendingA = None
  /\ wallStart = 0 /\ pauseStart = None
  /\ loopOffset = 0 /\ audioLoop = 0 /\ lastRtp = 0 /\ lastDur = None
  /\ keyNpt = 0 /\ nptEnd = None
  /\ rtpSeq = 0
  /\ clock = 1 /\ now = None
  /\ lastSent = None /\ promise = None /\ wanted = None
  /\ scaleFloor = None /\ pace = None /\ pausedAt = None

-----------------------------------------------------------------------------
(* Time, and the start of a tick.                                          *)

Advance ==
  /\ clock < MaxClock /\ (inTick => clock < now + MaxLag)
  /\ clock' = clock + 1
  /\ UNCHANGED <<state, source, describeDone, transport, pacing, now, history>>

BeginTick ==
  /\ ~inTick
  /\ now' = clock
  /\ UNCHANGED <<state, source, describeDone, transport, pacing, clock, history>>

-----------------------------------------------------------------------------
(* Requests.  OPTIONS, unknown methods, and requests refused with 455 or   *)
(* 400 change nothing and are no step.                                     *)

\* The source is dropped first, so a failure (403, 404, 415) leaves none.
handleDescribe(found) ==
  /\ inTick
  /\ source' = IF found THEN Opened ELSE None
  /\ describeDone' = (describeDone \/ found)
  /\ promise' = None /\ wanted' = None /\ pace' = None
  /\ scaleFloor' = None
  /\ UNCHANGED <<state, transport, pacing, time, lastSent, pausedAt>>

\* use_tcp_ is one for both tracks, and changes before the request can fail.
handleSetup(req) ==
  LET granted == req.kind \in {"tcp", "udp"} IN
  /\ inTick /\ describeDone /\ source # None
  /\ useTcp' = (req.kind = "tcp")
  /\ senders' = CASE req.kind = "udp" -> senders \cup {req.track}
                  [] req.kind = "udpNoSocket" -> senders \ {req.track}
                  [] OTHER -> senders
  /\ ready' = IF granted THEN ready \cup {req.track} ELSE ready
  /\ state' = IF granted /\ req.track = "video" THEN "READY" ELSE state
  /\ UNCHANGED <<source, describeDone, pacing, time, history>>

\* Mutant: the pause is still on record after the resume.
ResumeKeepsPause(req) ==
  /\ inTick /\ state = "PAUSED"
  /\ wallStart' = IF pauseStart # None /\ ~firstFrame
                  THEN wallStart + (clock - pauseStart) ELSE wallStart
  /\ state' = "PLAYING"
  /\ pace' = (IF pace = None THEN None ELSE pace + (clock - pausedAt)) /\ pausedAt' = None
  /\ UNCHANGED <<source, describeDone, transport, firstFrame, waitIdr, pendingV, pendingA, pauseStart,
                 loopOffset, audioLoop, lastRtp, lastDur, keyNpt, nptEnd, rtpSeq, time,
                 lastSent, promise, wanted, scaleFloor>>

\* Case A of handlePlay, from PAUSED: play goes on where it stopped.
Resume(req) ==
  /\ inTick /\ state = "PAUSED"
  /\ wallStart' = IF pauseStart # None /\ ~firstFrame
                  THEN wallStart + (clock - pauseStart) ELSE wallStart
  /\ pauseStart' = None
  /\ state' = "PLAYING"
  /\ pace' = (IF pace = None THEN None ELSE pace + (clock - pausedAt)) /\ pausedAt' = None
  /\ UNCHANGED <<source, describeDone, transport, firstFrame, waitIdr, pendingV, pendingA,
                 loopOffset, audioLoop, lastRtp, lastDur, keyNpt, nptEnd, rtpSeq, time,
                 lastSent, promise, wanted, scaleFloor>>

\* Mutant: the offset is adjusted for no PLAY.
SeekAndResetPlain(t, adjust) == seekToSeconds(source, t)

\* The source after seekAndReset.
SeekAndReset(t, adjust) ==
  LET s == seekToSeconds(source, t) IN
  IF adjust /\ lastRtp # 0 /\ lastRtp > s.rtpOffset
  THEN adjustRTPOffset(s, lastRtp - s.rtpOffset) ELSE s

\* Mutant: a held frame survives the seek.
ResetPendingKeepsHeld == UNCHANGED <<firstFrame, pendingV, pendingA>>

\* What seekAndReset changes besides; without a source it does nothing.
ResetPending ==
  IF source = None THEN UNCHANGED <<firstFrame, pendingV, pendingA>>
  ELSE firstFrame' = TRUE /\ pendingV' = None /\ pendingA' = None

\* Case B: a Scale header; back to the last key frame sent, clocks going on.
ScalePlay(req) ==
  /\ inTick /\ state \in {"READY", "PLAYING"} /\ req.scale
  /\ source' = IF source = None THEN None ELSE SeekAndReset(keyNpt, TRUE)
  /\ ResetPending
  /\ state' = "PLAYING"
  /\ promise' = None /\ wanted' = None
  /\ lastSent' = IF source = None THEN lastSent ELSE None
  /\ scaleFloor' = IF lastRtp = 0 THEN None ELSE IF lastSent # None THEN lastSent.ts ELSE scaleFloor
  /\ UNCHANGED <<describeDone, transport, waitIdr, wallStart, pauseStart, loopOffset, audioLoop,
                 lastRtp, lastDur, keyNpt, nptEnd, rtpSeq, time, pace, pausedAt>>

\* Case C: from the start or from Range.  The response announces the timestamp
\* of the next frame.
FreshPlay(req) ==
  /\ inTick /\ state \in {"READY", "PLAYING"} /\ ~req.scale
  /\ LET t == IF req.start = None THEN 0 ELSE req.start
         p == PeekNextVideo(SeekAndReset(t, FALSE))
     IN /\ source' = IF source = None THEN None ELSE p.src
        /\ promise' = IF source = None THEN None ELSE p.ts
        /\ wanted' = IF source = None THEN None ELSE Landing(Target(t))
  /\ ResetPending
  /\ loopOffset' = 0 /\ audioLoop' = 0 /\ lastRtp' = 0 /\ lastDur' = None
  /\ waitIdr' = TRUE /\ keyNpt' = 0 /\ nptEnd' = req.stop /\ pauseStart' = None
  /\ state' = "PLAYING"
  /\ lastSent' = None /\ scaleFloor' = None
  /\ UNCHANGED <<describeDone, transport, wallStart, rtpSeq, time, pace, pausedAt>>

handlePlay(req) == Resume(req) \/ ScalePlay(req) \/ FreshPlay(req)

handlePause ==
  /\ inTick /\ state = "PLAYING"
  /\ pauseStart' = clock
  /\ state' = "PAUSED"
  /\ pausedAt' = clock
  /\ UNCHANGED <<source, describeDone, transport, firstFrame, waitIdr, pendingV, pendingA, wallStart,
                 loopOffset, audioLoop, lastRtp, lastDur, keyNpt, nptEnd, rtpSeq, time,
                 lastSent, promise, wanted, scaleFloor, pace>>

\* pacerTick returns after a TEARDOWN.
handleTeardown ==
  /\ inTick
  /\ state' = "INIT" /\ now' = None
  /\ UNCHANGED <<source, describeDone, transport, pacing, clock, history>>

-----------------------------------------------------------------------------
(* The media part of pacerTick: one action per way through it.             *)

Playable == state = "PLAYING" /\ source # None /\ "video" \in ready

\* Step 2.
TickIdle ==
  /\ inTick /\ ~Playable
  /\ pauseStart' = IF state = "PAUSED" /\ pauseStart = None THEN now ELSE pauseStart
  /\ pendingV' = IF state = "PAUSED" THEN pendingV ELSE None
  /\ now' = None
  /\ UNCHANGED <<state, source, describeDone, transport, firstFrame, waitIdr, pendingA, wallStart,
                 loopOffset, audioLoop, lastRtp, lastDur, keyNpt, nptEnd, rtpSeq, clock, history>>

\* Steps 3 to 5: the start of play shifted by a pause, the frame held over from
\* an earlier tick, and the next one of the source.
Shifted == IF pauseStart # None /\ ~firstFrame THEN wallStart + (now - pauseStart) ELSE wallStart
Held == IF firstFrame THEN None ELSE pendingV
Read == readPacket(source)
Reading == Held = None
Gated(vp) == (firstFrame \/ waitIdr) /\ ~vp.key
AtEnd(vp) == nptEnd # None /\ nptEnd > 0 /\ vp.ts >= nptEnd

\* What every way through the media part has in common.
EndTick ==
  /\ inTick /\ Playable
  /\ now' = None /\ pauseStart' = None
  /\ UNCHANGED <<describeDone, transport, clock>>

\* Step 4b: a held frame that is no key frame is dropped.
TickDropHeld ==
  /\ EndTick /\ ~Reading /\ waitIdr /\ ~Held.key
  /\ pendingV' = None /\ wallStart' = Shifted
  /\ UNCHANGED <<state, source, firstFrame, waitIdr, pendingA, loopOffset, audioLoop, lastRtp,
                 lastDur, keyNpt, nptEnd, rtpSeq, history>>

\* Mutant: the duration of the last frame, but not its timestamp.
LoopStartShort == IF lastDur = None THEN 0 ELSE lastDur

\* The end of the file: play loops, timestamps going on after the last frame.
LoopStart == (lastRtp + (IF lastDur = None THEN 0 ELSE lastDur)) % Mod

TickEof ==
  /\ EndTick /\ Reading /\ ~Read.ok
  /\ source' = seek(Read.src, LoopStart)
  /\ firstFrame' = TRUE /\ waitIdr' = FALSE
  /\ loopOffset' = 0 /\ audioLoop' = 0 /\ lastRtp' = 0 /\ nptEnd' = None
  /\ pendingV' = None /\ pendingA' = None /\ wallStart' = Shifted
  /\ promise' = None /\ wanted' = None
  /\ UNCHANGED <<state, lastDur, keyNpt, rtpSeq, lastSent, scaleFloor, pace, pausedAt>>

\* The IDR gate.
TickSkip ==
  /\ EndTick /\ Reading /\ Read.ok /\ Gated(Read.vp)
  /\ source' = Read.src
  /\ pendingV' = None /\ wallStart' = Shifted
  /\ UNCHANGED <<state, firstFrame, waitIdr, pendingA, loopOffset, audioLoop, lastRtp, lastDur,
                 keyNpt, nptEnd, rtpSeq, history>>

\* The end of Range: the frame is dropped and play pauses.
TickRangeEnd ==
  /\ EndTick /\ Reading /\ Read.ok /\ ~Gated(Read.vp) /\ AtEnd(Read.vp)
  /\ source' = Read.src
  /\ state' = "PAUSED" /\ waitIdr' = FALSE
  /\ pendingV' = None /\ wallStart' = Shifted
  /\ promise' = None /\ wanted' = None /\ pausedAt' = clock
  /\ UNCHANGED <<firstFrame, pendingA, loopOffset, audioLoop, lastRtp, lastDur, keyNpt, nptEnd,
                 rtpSeq, lastSent, scaleFloor, pace>>

\* Step 6 and 7: the frame to send next, with its anchors and its time.
HasFrame == IF Reading THEN Read.ok /\ ~Gated(Read.vp) /\ ~AtEnd(Read.vp) ELSE ~waitIdr \/ Held.key
Frame == IF Reading THEN Read.vp ELSE Held
Source == IF Reading THEN Read.src ELSE source
Wall == IF firstFrame THEN now ELSE Shifted
Base == IF firstFrame THEN Frame.ts ELSE loopOffset
AudioAnchor == IF firstFrame /\ SampleRate > 0 THEN ToAudio(Base) % Mod ELSE audioLoop
Elapsed == (Frame.ts - Base) % Mod

Anchor ==
  /\ EndTick /\ HasFrame
  /\ waitIdr' = FALSE /\ firstFrame' = FALSE
  /\ wallStart' = Wall /\ loopOffset' = Base /\ audioLoop' = AudioAnchor
  /\ pace' = IF firstFrame THEN now ELSE pace

TickHold ==
  /\ Anchor /\ now < Wall + Elapsed
  /\ source' = Source /\ pendingV' = Frame
  /\ UNCHANGED <<state, pendingA, lastRtp, lastDur, keyNpt, nptEnd, rtpSeq,
                 lastSent, promise, wanted, scaleFloor, pausedAt>>

\* Step 8: SPS and PPS go out ahead of a key frame.
Packets(f) == IF f.key THEN 3 ELSE 1

\* Mutant: rtp_seq_ is wider than 16 bits.
NextSeqWide(f) == rtpSeq + Packets(f)

NextSeq(f) == (rtpSeq + Packets(f)) % SeqModulus

\* Step 9: audio is sent as long as it is due; the first packet that is not is
\* held, and the rest stays in audio_queue_.
AudioDue(ts) == (now - Wall) * SampleRate >= ((ts - AudioAnchor) % Mod) * VideoRate
AudioWaiting == (IF pendingA = None THEN <<>> ELSE <<pendingA>>) \o Source.audioQueue
DueCount ==
  CHOOSE n \in 0..Len(AudioWaiting) :
    /\ \A i \in 1..n : AudioDue(AudioWaiting[i])
    /\ n < Len(AudioWaiting) => ~AudioDue(AudioWaiting[n + 1])
SendAudio ==
  IF "audio" \notin ready \/ SampleRate = 0
  THEN source' = Source /\ UNCHANGED pendingA
  ELSE LET q == AudioWaiting IN
       /\ pendingA' = IF DueCount = Len(q) THEN None ELSE q[DueCount + 1]
       /\ source' = [Source EXCEPT !.audioQueue = SubSeq(q, DueCount + 2, Len(q))]

TickSend ==
  /\ Anchor /\ now >= Wall + Elapsed
  /\ rtpSeq' = NextSeq(Frame)
  /\ keyNpt' = IF Frame.key THEN Source.rtpOffset + Elapsed ELSE keyNpt
  /\ lastDur' = IF lastRtp # 0 /\ Frame.ts > lastRtp THEN Frame.ts - lastRtp ELSE lastDur
  /\ lastRtp' = Frame.ts
  /\ pendingV' = None
  /\ SendAudio
  /\ lastSent' = Frame /\ promise' = None /\ wanted' = None /\ scaleFloor' = None
  /\ UNCHANGED <<state, nptEnd, pausedAt>>

-----------------------------------------------------------------------------

Next ==
  \/ Advance \/ BeginTick
  \/ \E found \in BOOLEAN : handleDescribe(found)
  \/ \E req \in Setups : handleSetup(req)
  \/ \E req \in Plays : handlePlay(req)
  \/ handlePause \/ handleTeardown
  \/ TickIdle \/ TickDropHeld \/ TickEof \/ TickSkip \/ TickRangeEnd \/ TickHold \/ TickSend

Spec == Init /\ [][Next]_vars

-----------------------------------------------------------------------------
(* Properties.                                                             *)

\* The type invariant.
TypeOK ==
  /\ state \in {"INIT", "READY", "PLAYING", "PAUSED"}
  /\ source \in SourceState \cup {None} /\ {pendingV, lastSent} \subseteq VideoPacket \cup {None}
  /\ describeDone \in BOOLEAN /\ ready \subseteq Tracks /\ useTcp \in BOOLEAN /\ senders \subseteq Tracks
  /\ firstFrame \in BOOLEAN /\ waitIdr \in BOOLEAN
  /\ {lastRtp, loopOffset, audioLoop} \subseteq 0..Mod-1 /\ rtpSeq \in 0..SeqModulus-1
  /\ {pendingA, lastDur, promise, scaleFloor} \subseteq 0..Mod-1 \cup {None}
  /\ clock \in 1..MaxClock /\ {now, pauseStart} \subseteq 1..MaxClock \cup {None}

\* A video frame goes out in this step.
Sent == rtpSeq' # rtpSeq

\* ts is not behind from, on a clock that wraps.
NotBehind(ts, from) == (ts - from) % Mod < Mod \div 2

\* A decoder can use every frame: after any jump (PLAY, Scale, a loop, a new
\* DESCRIBE) the first frame is a key frame, and a frame that is none follows
\* the one sent before it in the file, whatever was held, dropped or prefetched.
DecodableStream ==
  [][Sent => \/ lastSent'.key
             \/ lastSent # None /\ lastSent'.i = NextVideo(lastSent.i + 1)]_vars

\* The RTP-Info timestamp of a PLAY response is that of the first frame sent,
\* unless a request or the end of the range comes first.
RtpInfoHonoured == [][Sent /\ promise # None => lastSent'.ts = promise]_vars

\* Pauses neither hurry nor delay playback: when a frame goes out wall_start_ is
\* the time the first frame did, moved by exactly the time spent in PAUSED.  (A
\* DESCRIBE in mid-play swaps the source without a new start: it is left out.)
InPace == [][Sent /\ pace' # None => wallStart' = pace']_vars

\* README: on EOF the offset moves on so the client never sees a backward
\* timestamp.  The first frame of a loop is not behind the last one sent.
LoopContinues ==
  [][Sent /\ firstFrame /\ lastSent # None /\ pace # None => NotBehind(lastSent'.ts, lastSent.ts)]_vars

\* IMediaSource::seekToSeconds goes to the key frame at or before the position:
\* so the first frame after a PLAY is the one its Range chooses.  Violated when
\* an earlier PLAY's frame is still prefetched.
SeekHonoured == [][Sent /\ wanted # None => lastSent'.i = wanted]_vars

\* seekAndReset: after a Scale PLAY the decoder never sees a backward timestamp,
\* wherever the seek lands.  (Between the end of the file and the loop's first frame
\* last_video_rtp_ is 0 and the clock does go back: it is left out.)
ScaleNeverBackward == [][Sent /\ scaleFloor # None => NotBehind(lastSent'.ts, scaleFloor)]_vars

\* seekToSeconds: the audio anchor is reset to the same seek position, and seek moves
\* the audio offset by the same duration as the video's.  So audio that waits is not
\* behind audio_loop_offset_, and its time to go is not a whole turn of the clock
\* away.  It does not hold: the offset is cut from the key frame's time, the anchor from that
\* time rounded to ticks, which may be the later one.
AudioInStep == pendingA # None /\ ~firstFrame /\ pace # None => NotBehind(pendingA, audioLoop)

\* seekAndReset: a Scale PLAY shifts the clock so that the decoder never sees a
\* backward timestamp.  It does not hold between the end of the file and the first frame of
\* the loop, when last_video_rtp_ is 0 and nothing is shifted.
ScaleKeepsClock ==
  [][\A req \in Plays : ScalePlay(req) /\ source # None /\ lastSent # None
       => NotBehind(source'.rtpOffset, lastSent.ts)]_vars

=============================================================================
