-------------------------- MODULE RTSPSessionProofs --------------------------
(***************************************************************************)
(* What a session plays, for every file, every set of requests and every   *)
(* length of run: the types, that a decoder can use every frame, that the  *)
(* timestamp a PLAY announces is the one that goes out, that pauses        *)
(* neither hurry nor delay playback, and that timestamps go on after a     *)
(* loop and after a Scale PLAY.                                            *)
(***************************************************************************)
EXTENDS RTSPSession, SequenceLemmas

\* A frame as the file has it.
Shown == {f \in VideoPacket : f.i \in Videos /\ f.key = File[f.i].key}

\* The types the steps rely on: TypeOK, what it leaves open, and frames that are
\* those of the file.
Typed ==
  /\ TypeOK
  /\ source # None => source.prefetch \in Shown \cup {None}
  /\ pendingV \in Shown \cup {None} /\ lastSent \in Shown \cup {None}
  /\ wallStart \in Int /\ keyNpt \in Nat /\ nptEnd \in Nat \cup {None}
  /\ pace \in Int \cup {None} /\ pausedAt \in Int \cup {None}
  /\ state = "PAUSED" => pausedAt # None

\* From place p on the file goes on after frame i, or with a key frame.
Continues(i, p) == NextVideo(p) \in Videos => NextVideo(p) \in Keys \/ NextVideo(p) = NextVideo(i + 1)

\* A decoder can use frame i next.
Fits(i) == i \in Keys \/ (lastSent # None /\ i = NextVideo(lastSent.i + 1))

\* Where the stream stands.  The gate is closed once a frame has passed it: then
\* what comes next, held or still to be read, continues what was sent.  While
\* neither PLAYING nor PAUSED a tick drops the held frame, and only a PLAY that
\* opens the gate, or a new source, leads back.
GateClosed == ~firstFrame /\ ~waitIdr
StreamInv ==
  /\ state # "INIT" => "video" \in ready
  /\ source # None => /\ ~firstFrame => source.prefetch = None
                      /\ source.prefetch # None => Continues(source.prefetch.i, source.pos)
                      /\ ~firstFrame /\ pendingV # None => Continues(pendingV.i, source.pos)
  /\ GateClosed /\ pendingV # None => Fits(pendingV.i)
  /\ /\ GateClosed /\ pendingV = None /\ source # None /\ state \in {"PLAYING", "PAUSED"}
     /\ NextVideo(source.pos) \in Videos
     => Fits(NextVideo(source.pos))

\* No PLAY asks for play to end before the file does.
NoRangeEnd == \A req \in Plays : req.stop = None \/ req.stop = 0
Endless == nptEnd = None \/ nptEnd = 0

\* A seek cannot fail.
StartsAtZero == \E i \in Keys : File[i].pts = 0

\* A timestamp was announced: its frame is waiting behind the open gate.
PromiseInv ==
  /\ source # None /\ source.prefetch # None => source.prefetch.key
  /\ promise # None => /\ source # None /\ firstFrame
                       /\ source.prefetch # None /\ source.prefetch.ts = promise

\* wall_start_ and the true start agree, and so do the two records of the pause.
PaceInv ==
  /\ source = None => pace = None
  /\ pace # None /\ ~firstFrame =>
       /\ state \in {"PLAYING", "PAUSED"} => wallStart = pace
       /\ state = "PLAYING" => pauseStart = None
       /\ state = "PAUSED" => pauseStart = pausedAt

-----------------------------------------------------------------------------
(* The file.                                                               *)

\* The places of a file.
LEMMA FileFacts ==
  /\ Len(File) \in Nat /\ 1 \in 1..Len(File) /\ Videos \subseteq 1..Len(File) /\ Keys \subseteq Videos
  /\ 1 \in Keys /\ \A i \in 1..Len(File) : File[i].pts \in Nat /\ File[i].key \in BOOLEAN
  /\ \A i \in Videos : File[i].key <=> i \in Keys
<1>1. File \in Seq(Packet) /\ File # <<>> /\ File[1].kind = "video" /\ File[1].key
  BY MediaAssumption
<1>2. Len(File) \in Nat /\ 1 \in 1..Len(File)
  BY <1>1
<1>3. \A i \in 1..Len(File) : File[i] \in Packet
  BY <1>1
<1> QED BY <1>1, <1>2, <1>3 DEF Packet, Videos, Keys

\* NextVideo is what it says.
LEMMA NextVideoFacts ==
  ASSUME NEW p \in 1..Len(File)+1
  PROVE  /\ NextVideo(p) \in p..Len(File)+1
         /\ NextVideo(p) \in Videos \/ NextVideo(p) = Len(File) + 1
         /\ \A i \in Videos : i >= p => NextVideo(p) <= i
<1> DEFINE T == {i \in Videos : i >= p}
<1>1. CASE T = {}
  BY <1>1, FileFacts DEF NextVideo
<1>2. CASE T # {}
  <2>1. T \subseteq Nat
    <3>1. 1..Len(File) \subseteq Nat
      BY FileFacts
    <3>2. T \subseteq Videos
      OBVIOUS
    <3> QED BY <3>1, <3>2, FileFacts, Zenon
  <2>2. \E i \in Videos : i >= p /\ \A j \in Videos : j >= p => i <= j
    <3>1. PICK m \in T : \A k \in T : m <= k
      BY <1>2, <2>1, Smallest
    <3> QED BY <3>1
  <2> DEFINE v == CHOOSE i \in Videos : i >= p /\ \A j \in Videos : j >= p => i <= j
  <2>3. v \in Videos /\ v >= p /\ \A j \in Videos : j >= p => v <= j
    BY <2>2
  <2>4. NextVideo(p) = v
    BY <1>2 DEF NextVideo
  <2> HIDE DEF v
  <2> QED BY <2>3, <2>4, FileFacts
<1> QED BY <1>1, <1>2

\* The next frame from a frame on is that frame.
LEMMA NextVideoAt ==
  ASSUME NEW i \in Videos
  PROVE  NextVideo(i) = i
<1>1. i \in 1..Len(File)+1 /\ i \in Nat
  BY FileFacts
<1> QED BY <1>1, NextVideoFacts, FileFacts

\* A seek lands on a key frame if one is early enough.
LEMMA LandingFacts ==
  ASSUME NEW t \in Nat, \E i \in Keys : File[i].pts <= t
  PROVE  /\ Landing(t) \in Keys /\ Landing(t) # None /\ File[Landing(t)].pts <= t
         /\ \A j \in Keys : File[j].pts <= t => j <= Landing(t)
<1> DEFINE T == {i \in Keys : File[i].pts <= t}
<1>1. T # {}
  OBVIOUS
<1>2. T \subseteq 0..Len(File)
  <2>1. 1..Len(File) \subseteq 0..Len(File)
    BY FileFacts
  <2>2. T \subseteq Keys
    OBVIOUS
  <2> QED BY <2>1, <2>2, FileFacts, Zenon
<1>3. PICK m \in T : \A k \in T : k <= m
  BY <1>1, <1>2, Largest, FileFacts
<1>4. m \in Keys /\ File[m].pts <= t /\ \A j \in Keys : File[j].pts <= t => j <= m
  BY <1>3
<1> DEFINE v == CHOOSE i \in Keys : File[i].pts <= t /\ \A j \in Keys : File[j].pts <= t => j <= i
<1>5. v \in Keys /\ File[v].pts <= t /\ \A j \in Keys : File[j].pts <= t => j <= v
  BY <1>4
<1>6. Landing(t) = v
  BY DEF Landing
<1>7. v # None
  <2>1. Keys \subseteq Int
    BY FileFacts
  <2> HIDE DEF v
  <2>2. v \in Int
    BY <1>5, <2>1
  <2> QED BY <2>2, MediaAssumption
<1> QED BY <1>5, <1>6, <1>7

\* A seek that does not fail lands on a key frame, then; and from there on it again.
LEMMA LandedFacts ==
  ASSUME NEW t \in Nat, Landing(t) # None
  PROVE  /\ Landing(t) \in Keys
         /\ Landing(File[Landing(t)].pts) = Landing(t)
<1> DEFINE k == Landing(t)
           p == File[k].pts
           l == Landing(p)
<1>1. \E i \in Keys : File[i].pts <= t
  BY DEF Landing
<1>2. k \in Keys /\ p <= t /\ \A j \in Keys : File[j].pts <= t => j <= k
  BY <1>1, LandingFacts
<1> HIDE DEF k
<1>3. p \in Nat
  BY <1>2, FileFacts
<1>4. \E i \in Keys : File[i].pts <= p
  BY <1>2, <1>3
<1>5. l \in Keys /\ File[l].pts <= p /\ \A j \in Keys : File[j].pts <= p => j <= l
  <2> HIDE DEF p
  <2> QED BY <1>3, <1>4, LandingFacts
<1> HIDE DEF l
<1>6. k \in Nat /\ l \in Nat /\ File[l].pts \in Nat
  BY <1>2, <1>5, FileFacts
<1>7. k <= l
  BY <1>2, <1>3, <1>5
<1>8. l <= k
  BY <1>2, <1>3, <1>5, <1>6
<1>9. l = k
  BY <1>6, <1>7, <1>8
<1> QED BY <1>2, <1>9 DEF k, l

-----------------------------------------------------------------------------
(* The source.                                                             *)

\* Timestamps are 32 bits wide.
LEMMA ModFacts ==
  /\ Mod \in Nat \ {0} /\ 0 \in 0..Mod-1 /\ \A x \in Int : x % Mod \in 0..Mod-1
  /\ 0..Mod-1 \subseteq Nat /\ 0..Mod-1 \subseteq Int
<1>1. Mod \in Nat \ {0}
  BY MediaAssumption
<1>2. \A x \in Int : x % Mod \in 0..Mod-1
  BY <1>1
<1> QED BY <1>1, <1>2

\* Rescaling keeps whole numbers whole, from zero on.
LEMMA RescaleFacts ==
  ASSUME NEW x \in Int, NEW from \in Nat \ {0}, NEW to \in Nat
  PROVE  /\ Rescale(x, from, to) \in Int
         /\ x \in Nat => Rescale(x, from, to) \in Nat
         /\ x = 0 => Rescale(x, from, to) = 0
<1> DEFINE m == 2 * from
           a == 2 * x * to + from
           b == 2 * (-x) * to + from
<1>1. m \in Nat \ {0} /\ a \in Int /\ b \in Int
  OBVIOUS
<1>2. Rescale(x, from, to) = IF x < 0 THEN -(b \div m) ELSE a \div m
  BY DEF Rescale
<1>3. a \div m \in Int /\ b \div m \in Int
  BY <1>1, DivFacts
<1>4. ASSUME x \in Nat PROVE 0 <= a \div m
  <2>1. 2 * x * to \in Nat
    BY <1>4
  <2>2. 0 * m <= a
    BY <1>1, <2>1
  <2> QED BY <1>1, <2>2, DivLargest
<1>5. ASSUME x = 0 PROVE a \div m = 0
  <2>1. a = from
    BY <1>5
  <2> QED BY <1>1, <2>1
<1> HIDE DEF a, b, m
<1> QED BY <1>2, <1>3, <1>4, <1>5

\* Later times stay later, and two stretches rescaled apart are at most one unit
\* longer than rescaled as one.
LEMMA RescaleMono ==
  ASSUME NEW x \in Nat, NEW y \in Nat, x <= y, NEW from \in Nat \ {0}, NEW to \in Nat
  PROVE  Rescale(x, from, to) <= Rescale(y, from, to)
<1> DEFINE m == 2 * from
           a == 2 * x * to + from
           b == 2 * y * to + from
<1>1. m \in Nat \ {0} /\ a \in Int /\ b \in Int
  OBVIOUS
<1>2. a <= b
  <2>1. 2 * x \in Int /\ 2 * y \in Int /\ 2 * x <= 2 * y
    OBVIOUS
  <2>2. (2 * x) * to <= (2 * y) * to
    BY <2>1, TimesMono
  <2>3. (2 * x) * to \in Int /\ (2 * y) * to \in Int
    BY <2>1
  <2> QED BY <2>2, <2>3
<1>3. Rescale(x, from, to) = a \div m /\ Rescale(y, from, to) = b \div m
  BY DEF Rescale
<1> HIDE DEF a, b, m
<1> QED BY <1>1, <1>2, <1>3, DivMono

LEMMA RescaleSplit ==
  ASSUME NEW x \in Nat, NEW y \in Nat, NEW from \in Nat \ {0}, NEW to \in Nat
  PROVE  Rescale(x, from, to) + Rescale(y, from, to) <= Rescale(x + y, from, to) + 1
<1> DEFINE m == 2 * from
           u == 2 * x * to
           v == 2 * y * to
           w == 2 * (x + y) * to
           p == (u + from) \div m
           q == (v + from) \div m
<1>1. m \in Nat \ {0} /\ u \in Nat /\ v \in Nat /\ w = u + v
  OBVIOUS
<1>2. /\ Rescale(x, from, to) = p /\ Rescale(y, from, to) = q
      /\ Rescale(x + y, from, to) = (w + from) \div m
  BY DEF Rescale
<1>3. m = from + from
  OBVIOUS
<1> HIDE DEF m, u, v, w
<1>4. p \in Int /\ p * m <= u + from /\ q \in Int /\ q * m <= v + from
  BY <1>1, DivFacts
<1> HIDE DEF p, q
<1>5. (p + q - 1) * m <= w + from
  <2>1. (p + q - 1) * m = p * m + q * m - m /\ p * m \in Int /\ q * m \in Int
    BY <1>1, <1>4
  <2> QED BY <1>1, <1>3, <1>4, <2>1
<1>6. p + q - 1 <= (w + from) \div m
  BY <1>1, <1>4, <1>5, DivLargest
<1>7. (w + from) \div m \in Int
  BY <1>1, DivFacts
<1> QED BY <1>2, <1>4, <1>6, <1>7

\* So does cutting: where a product is cut one short it is at least one.
LEMMA CutFacts ==
  ASSUME NEW x \in Int, NEW from \in Nat \ {0}, NEW to \in Nat
  PROVE  /\ Cut(x, from, to) \in Int
         /\ x \in Nat => Cut(x, from, to) \in Nat
<1> DEFINE n == x * to
           d == n \div from
<1>0. n \in Int
  OBVIOUS
<1>1. d \in Int /\ n = d * from + (n % from)
  <2> HIDE DEF n
  <2> QED BY <1>0, DivFacts
<1>2. Cut(x, from, to) = IF n % from = 0 /\ <<x, from, to>> \in CutShort THEN d - 1 ELSE d
  BY Zenon DEF Cut
<1>3. ASSUME x \in Nat PROVE 0 <= d
  <2>1. 0 * from <= n
    BY <1>3
  <2> HIDE DEF n
  <2> QED BY <1>0, <2>1, DivLargest
<1>4. ASSUME n % from = 0, <<x, from, to>> \in CutShort PROVE d # 0
  <2>1. x \in Nat \ {0} /\ to \in Nat \ {0}
    BY <1>4, MediaAssumption
  <2>2. n # 0
    BY <2>1
  <2> HIDE DEF d, n
  <2>3. n = d * from
    BY <1>1, <1>4
  <2> QED BY <2>2, <2>3
<1> HIDE DEF d, n
<1> QED BY <1>1, <1>2, <1>3, <1>4

\* Durations and times of the session: in samples, in ticks, in the file's own units.
LEMMA RateFacts ==
  /\ SampleRate \in Nat /\ VideoRate \in Nat \ {0} /\ VideoBase \in Nat \ {0}
  /\ AudioBase \in Nat \ {0} /\ TimeBase \in Nat \ {0}
BY MediaAssumption DEF SampleRate

LEMMA AudioFacts ==
  ASSUME NEW x \in Int
  PROVE  ToAudio(x) \in Int
BY RateFacts, CutFacts DEF ToAudio

LEMMA TicksFacts ==
  /\ Ticks(0) = 0
  /\ \A x \in Int : Ticks(x) \in Int
  /\ \A x \in Nat : Ticks(x) \in Nat
  /\ \A x, y \in Nat : x <= y => Ticks(x) <= Ticks(y)
  /\ \A x, y \in Nat : Ticks(x) + Ticks(y) <= Ticks(x + y) + 1
<1>1. VideoBase \in Nat \ {0} /\ VideoRate \in Nat
  BY RateFacts
<1>2. Ticks(0) = 0 /\ (\A x \in Int : Ticks(x) \in Int) /\ (\A x \in Nat : Ticks(x) \in Nat)
  BY <1>1, RescaleFacts DEF Ticks
<1>3. \A x, y \in Nat : x <= y => Ticks(x) <= Ticks(y)
  BY <1>1, RescaleMono DEF Ticks
<1>4. \A x, y \in Nat : Ticks(x) + Ticks(y) <= Ticks(x + y) + 1
  BY <1>1, RescaleSplit DEF Ticks
<1> QED BY <1>2, <1>3, <1>4

LEMMA TargetFacts ==
  ASSUME NEW t \in Nat
  PROVE  Target(t) \in Nat
<1> DEFINE c == Cut(t, VideoRate, TimeBase)
<1>1. c \in Nat /\ TimeBase \in Nat \ {0} /\ VideoBase \in Nat
  BY RateFacts, CutFacts
<1>2. Target(t) = Rescale(c, TimeBase, VideoBase)
  BY DEF Target
<1> HIDE DEF c
<1> QED BY <1>1, <1>2, RescaleFacts

\* Reading on from the demuxer's place.
LEMMA DemuxFacts ==
  ASSUME NEW s \in SourceState
  PROVE  /\ Demux(s).src \in SourceState /\ Demux(s).src.prefetch = s.prefetch
         /\ Demux(s).ok => /\ NextVideo(s.pos) \in Videos /\ Demux(s).vp \in Shown
                           /\ Demux(s).vp.i = NextVideo(s.pos)
                           /\ Demux(s).src.pos = NextVideo(s.pos) + 1
         /\ NextVideo(s.pos) \in Videos => Demux(s).ok
<1> DEFINE v == NextVideo(s.pos)
           passed == SubSeq(File, s.pos, v - 1)
           first == IF s.audioFirstPts # None \/ passed = <<>> THEN s.audioFirstPts ELSE passed[1].pts
           audio == [i \in 1..Len(passed) |->
                       (Rescale(passed[i].pts - first, AudioBase, SampleRate) + s.audioOffset) % Mod]
           after == [s EXCEPT !.pos = v, !.audioFirstPts = first, !.audioQueue = @ \o audio]
           origin == IF s.firstPts = None THEN File[v].pts ELSE s.firstPts
           vp == [i |-> v, ts |-> toRTPTimestamp(s, File[v].pts - origin), key |-> File[v].key]
<1>1. /\ s.pos \in 1..Len(File)+1 /\ s.audioFirstPts \in Nat \cup {None} /\ s.audioOffset \in 0..Mod-1
      /\ s.audioQueue \in Seq(0..Mod-1) /\ s.firstPts \in Nat \cup {None} /\ s.rtpOffset \in 0..Mod-1
  BY DEF SourceState
<1>2. v \in s.pos..Len(File)+1 /\ (v \in Videos \/ v = Len(File) + 1)
  BY <1>1, NextVideoFacts
<1> HIDE DEF v
<1>3. passed \in Seq(Packet)
  <2>1. File \in Seq(Packet) /\ Len(File) \in Nat
    BY MediaAssumption, FileFacts
  <2>2. s.pos \in 1..Len(File)+1 /\ v - 1 \in s.pos-1..Len(File)
    BY <1>1, <1>2, <2>1
  <2> QED BY <2>1, <2>2, SubSeqProperties
<1> HIDE DEF passed
<1>4. Len(passed) \in Nat /\ \A i \in 1..Len(passed) : passed[i].pts \in Nat
  <2>1. \A i \in 1..Len(passed) : passed[i] \in Packet
    BY <1>3
  <2> QED BY <1>3, <2>1 DEF Packet
<1>5. first \in Nat \cup {None} /\ (Len(passed) > 0 => first \in Nat)
  <2>1. passed # <<>> <=> Len(passed) > 0
    BY <1>3
  <2>2. Len(passed) > 0 => 1 \in 1..Len(passed)
    BY <1>4
  <2> QED BY <1>1, <1>4, <2>1, <2>2
<1> HIDE DEF first
<1>6. audio \in Seq(0..Mod-1)
  <2>1. ASSUME NEW i \in 1..Len(passed)
        PROVE  (Rescale(passed[i].pts - first, AudioBase, SampleRate) + s.audioOffset) % Mod \in 0..Mod-1
    <3>1. passed[i].pts - first \in Int
      BY <1>4, <1>5
    <3>2. Rescale(passed[i].pts - first, AudioBase, SampleRate) \in Int
      BY <3>1, RateFacts, RescaleFacts
    <3>3. s.audioOffset \in Int
      BY <1>1, ModFacts, Zenon
    <3>4. Rescale(passed[i].pts - first, AudioBase, SampleRate) + s.audioOffset \in Int
      BY <3>2, <3>3
    <3> QED BY <3>4, ModFacts
  <2> QED BY <1>4, <2>1
<1> HIDE DEF audio
<1>7. s.audioQueue \o audio \in Seq(0..Mod-1)
  BY <1>1, <1>6, ConcatProperties
<1>8. /\ after \in SourceState /\ after.prefetch = s.prefetch
      /\ [after EXCEPT !.bsfAtEof = TRUE] \in SourceState
      /\ [after EXCEPT !.bsfAtEof = TRUE].prefetch = s.prefetch
  <2>1. v \in 1..Len(File)+1
    BY <1>1, <1>2, FileFacts
  <2> DEFINE aq == s.audioQueue \o audio
  <2>2. aq \in Seq(0..Mod-1)
    BY <1>7
  <2> HIDE DEF aq
  <2>3. after = [s EXCEPT !.pos = v, !.audioFirstPts = first, !.audioQueue = aq]
    BY DEF aq, SourceState
  <2> HIDE DEF after
  <2>4. after \in SourceState /\ after.prefetch = s.prefetch
    BY <1>5, <2>1, <2>2, <2>3 DEF SourceState
  <2> QED BY <2>4 DEF SourceState
<1>9. NextVideo(s.pos) = v
  BY DEF v
<1>10. CASE v > Len(File)
  <2>1. Demux(s) = [ok |-> FALSE, vp |-> None, src |-> [after EXCEPT !.bsfAtEof = TRUE]]
    BY <1>10 DEF Demux, v, passed, first, audio
  <2>2. v \notin Videos
    <3>1. v \in Videos => v \in 1..Len(File)
      BY FileFacts
    <3> QED BY <1>10, <3>1, FileFacts
  <2> DEFINE last == [after EXCEPT !.bsfAtEof = TRUE]
  <2> HIDE DEF last
  <2>3. last \in SourceState /\ last.prefetch = s.prefetch
    BY <1>8 DEF last
  <2>4. Demux(s) = [ok |-> FALSE, vp |-> None, src |-> last]
    BY <2>1 DEF last
  <2> QED BY <1>9, <2>2, <2>3, <2>4
<1>11. CASE ~(v > Len(File))
  <2>1. Demux(s) = [ok |-> TRUE, vp |-> vp, src |-> [after EXCEPT !.pos = v + 1, !.firstPts = origin]]
    BY <1>11 DEF Demux, v, passed, first, audio
  <2>2. v \in Videos /\ v \in 1..Len(File) /\ v + 1 \in 1..Len(File)+1
    BY <1>1, <1>2, <1>11, FileFacts
  <2>3. origin \in Nat /\ File[v].pts \in Nat /\ File[v].key \in BOOLEAN
    BY <1>1, <2>2, FileFacts
  <2>4. vp \in Shown /\ vp.i = v
    <3>1. toRTPTimestamp(s, File[v].pts - origin) \in 0..Mod-1
      <4>1. s.rtpOffset \in Int
        BY <1>1, ModFacts, Zenon
      <4> DEFINE x == File[v].pts - origin
      <4>2. x \in Int
        BY <2>3
      <4>3. Ticks(x) + s.rtpOffset \in Int
        <5> HIDE DEF x
        <5>1. Ticks(x) \in Int
          BY <4>2, TicksFacts
        <5> QED BY <4>1, <5>1
      <4> QED BY <4>3, ModFacts DEF toRTPTimestamp
    <3> QED BY <2>2, <2>3, <3>1 DEF Shown, VideoPacket
  <2> HIDE DEF origin, vp, after
  <2>5. /\ [after EXCEPT !.pos = v + 1, !.firstPts = origin] \in SourceState
        /\ [after EXCEPT !.pos = v + 1, !.firstPts = origin].prefetch = s.prefetch
        /\ [after EXCEPT !.pos = v + 1, !.firstPts = origin].pos = v + 1
    BY <1>8, <2>2, <2>3 DEF SourceState
  <2> DEFINE next == [after EXCEPT !.pos = v + 1, !.firstPts = origin]
  <2>6. next \in SourceState /\ next.prefetch = s.prefetch /\ next.pos = v + 1
    BY <2>5
  <2>7. Demux(s) = [ok |-> TRUE, vp |-> vp, src |-> next]
    BY <2>1
  <2> HIDE DEF next
  <2> QED BY <1>9, <2>2, <2>4, <2>6, <2>7
<1> QED BY <1>10, <1>11

\* readPacket gives the prefetched frame if there is one, and leaves none.
LEMMA ReadFacts ==
  ASSUME NEW s \in SourceState, s.prefetch \in Shown \cup {None}
  PROVE  /\ readPacket(s).src \in SourceState /\ readPacket(s).src.prefetch = None
         /\ readPacket(s).ok /\ s.prefetch # None =>
              readPacket(s).vp = s.prefetch /\ readPacket(s).src.pos = s.pos
         /\ readPacket(s).ok /\ s.prefetch = None =>
              /\ NextVideo(s.pos) \in Videos /\ readPacket(s).vp.i = NextVideo(s.pos)
              /\ readPacket(s).src.pos = NextVideo(s.pos) + 1
         /\ readPacket(s).ok => readPacket(s).vp \in Shown
         /\ s.prefetch # None => readPacket(s).ok
         /\ NextVideo(s.pos) \in Videos /\ ~s.bsfAtEof => readPacket(s).ok
<1>1. CASE s.prefetch # None
  BY <1>1 DEF readPacket, SourceState
<1>2. CASE s.prefetch = None /\ s.bsfAtEof
  BY <1>2 DEF readPacket
<1>3. CASE s.prefetch = None /\ ~s.bsfAtEof
  <2>1. readPacket(s) = Demux(s)
    BY <1>3 DEF readPacket
  <2> QED BY <1>3, <2>1, DemuxFacts
<1> QED BY <1>1, <1>2, <1>3

\* Seeking moves the place to a key frame or not at all, and forgets no prefetched
\* frame.
LEMMA SeekFrameFacts ==
  ASSUME NEW s \in SourceState, NEW t \in Nat
  PROVE  /\ SeekFrame(s, t) \in SourceState /\ SeekFrame(s, t).prefetch = s.prefetch
         /\ SeekFrame(s, t).pos = s.pos \/ SeekFrame(s, t).pos \in Keys
         /\ SeekFrame(s, t).audioOffset = s.audioOffset
         /\ Landing(t) # None => SeekFrame(s, t).pos = Landing(t) /\ Landing(t) \in Keys
<1>1. CASE Landing(t) = None
  BY <1>1 DEF SeekFrame
<1>2. CASE Landing(t) # None
  <2>1. Landing(t) \in Keys /\ Landing(t) \in 1..Len(File)
    BY <1>2, LandedFacts, FileFacts
  <2>2. Landing(t) \in 1..Len(File)+1
    BY <2>1, FileFacts
  <2> QED BY <1>2, <2>1, <2>2 DEF SeekFrame, SourceState
<1> QED BY <1>1, <1>2

LEMMA SeekFacts ==
  ASSUME NEW s \in SourceState, NEW offset \in 0..Mod-1
  PROVE  /\ seek(s, offset) \in SourceState /\ seek(s, offset).prefetch = s.prefetch
         /\ seek(s, offset).pos = s.pos \/ seek(s, offset).pos \in Keys
         /\ seek(s, offset).rtpOffset = offset /\ seek(s, offset).firstPts = None
         /\ ~seek(s, offset).bsfAtEof
         /\ Landing(0) # None => seek(s, offset).pos \in Keys
<1> DEFINE f == SeekFrame(s, 0)
           a == ToAudio(offset) % Mod
<1>1. /\ f \in SourceState /\ f.prefetch = s.prefetch /\ (f.pos = s.pos \/ f.pos \in Keys)
      /\ Landing(0) # None => f.pos \in Keys
  BY SeekFrameFacts
<1>2. a \in 0..Mod-1
  BY AudioFacts, ModFacts
<1>3. seek(s, offset) = [f EXCEPT !.rtpOffset = offset, !.firstPts = None, !.bsfAtEof = FALSE,
                                  !.audioFirstPts = None, !.audioOffset = a, !.audioQueue = <<>>]
  BY DEF seek
<1>4. <<>> \in Seq(0..Mod-1)
  OBVIOUS
<1> HIDE DEF f, a
<1> QED BY <1>1, <1>2, <1>3, <1>4 DEF SourceState

\* seekToSeconds seeks twice, to the same place.
LEMMA SeekToFacts ==
  ASSUME NEW s \in SourceState, NEW t \in Nat, NEW k, k = Landing(Target(t))
  PROVE  /\ seekToSeconds(s, t) \in SourceState /\ seekToSeconds(s, t).prefetch = s.prefetch
         /\ seekToSeconds(s, t).pos = s.pos \/ seekToSeconds(s, t).pos \in Keys
         /\ ~seekToSeconds(s, t).bsfAtEof
         /\ seekToSeconds(s, t).firstPts = None
         /\ k # None => /\ seekToSeconds(s, t).pos = k /\ k \in Keys
                        /\ seekToSeconds(s, t).rtpOffset = Ticks(File[k].pts) % Mod
<1>0. Target(t) \in Nat /\ ~(t < 0)
  BY TargetFacts
<1>1. CASE k = None
  <2> DEFINE f == SeekFrame(s, 0)
  <2>1. f \in SourceState /\ f.prefetch = s.prefetch /\ (f.pos = s.pos \/ f.pos \in Keys)
    BY SeekFrameFacts
  <2>2. seekToSeconds(s, t) = [f EXCEPT !.bsfAtEof = FALSE, !.rtpOffset = 0, !.firstPts = None]
    BY <1>0, <1>1 DEF seekToSeconds
  <2> HIDE DEF f
  <2> QED BY <1>1, <2>1, <2>2, ModFacts DEF SourceState
<1>2. CASE k # None
  <2> DEFINE actual == File[k].pts
             g == SeekFrame(s, Target(t))
             f == SeekFrame(g, actual)
             o == Ticks(actual) % Mod
             a == Cut(actual, VideoBase, SampleRate) % Mod
  <2>1. k \in Keys /\ Landing(actual) = k
    BY <1>0, <1>2, LandedFacts
  <2>2. actual \in Nat
    BY <2>1, FileFacts
  <2>3. g \in SourceState /\ g.prefetch = s.prefetch
    BY <1>0, SeekFrameFacts
  <2>4. f \in SourceState /\ f.prefetch = s.prefetch /\ f.pos = k
    <3> HIDE DEF g, actual
    <3> QED BY <1>2, <2>1, <2>2, <2>3, SeekFrameFacts
  <2>5. o \in 0..Mod-1 /\ a \in 0..Mod-1
    <3> HIDE DEF actual
    <3>1. Ticks(actual) \in Int
      BY <2>2, TicksFacts
    <3>2. Cut(actual, VideoBase, SampleRate) \in Int
      BY <2>2, RateFacts, CutFacts
    <3> QED BY <3>1, <3>2, ModFacts
  <2>6. seekToSeconds(s, t) =
          [f EXCEPT !.bsfAtEof = FALSE, !.rtpOffset = o, !.firstPts = None,
                    !.audioFirstPts = None, !.audioOffset = a, !.audioQueue = <<>>]
    BY <1>0, <1>2 DEF seekToSeconds
  <2>7. <<>> \in Seq(0..Mod-1)
    OBVIOUS
  <2>8. Ticks(File[k].pts) % Mod = o
    OBVIOUS
  <2> HIDE DEF f, actual, o, a
  <2> QED BY <2>1, <2>4, <2>5, <2>6, <2>7, <2>8 DEF SourceState
<1> QED BY <1>1, <1>2

\* The next frame, announced and kept.
LEMMA PeekFacts ==
  ASSUME NEW s \in SourceState, s.prefetch \in Shown \cup {None}
  PROVE  /\ PeekNextVideo(s).src \in SourceState /\ PeekNextVideo(s).ts \in 0..Mod-1
         /\ PeekNextVideo(s).src.prefetch \in Shown \cup {None}
         /\ s.prefetch # None => PeekNextVideo(s).src = s /\ PeekNextVideo(s).ts = s.prefetch.ts
         /\ s.prefetch = None /\ PeekNextVideo(s).src.prefetch # None =>
              /\ PeekNextVideo(s).src.prefetch.i = NextVideo(s.pos) /\ NextVideo(s.pos) \in Videos
              /\ PeekNextVideo(s).src.pos = NextVideo(s.pos) + 1
              /\ PeekNextVideo(s).ts = PeekNextVideo(s).src.prefetch.ts
         /\ NextVideo(s.pos) \in Videos /\ ~s.bsfAtEof => PeekNextVideo(s).src.prefetch # None
<1> DEFINE r == readPacket(s)
<1>1. /\ r.src \in SourceState /\ r.src.prefetch = None
      /\ r.ok => r.vp \in Shown
      /\ r.ok /\ s.prefetch = None => /\ NextVideo(s.pos) \in Videos /\ r.vp.i = NextVideo(s.pos)
                                      /\ r.src.pos = NextVideo(s.pos) + 1
      /\ NextVideo(s.pos) \in Videos /\ ~s.bsfAtEof => r.ok
  BY ReadFacts
<1>2. PeekNextVideo(s) = IF s.prefetch # None THEN [ts |-> s.prefetch.ts, src |-> s]
                         ELSE IF r.ok THEN [ts |-> r.vp.ts, src |-> [r.src EXCEPT !.prefetch = r.vp]]
                         ELSE [ts |-> 0, src |-> r.src]
  BY DEF PeekNextVideo
<1>3. \A f \in Shown : f.ts \in 0..Mod-1 /\ f \in VideoPacket /\ f # None
  BY MediaAssumption DEF Shown, VideoPacket
<1> HIDE DEF r
<1>4. CASE s.prefetch # None
  BY <1>2, <1>3, <1>4
<1>5. CASE s.prefetch = None /\ r.ok
  <2> DEFINE k == [r.src EXCEPT !.prefetch = r.vp]
  <2>1. k \in SourceState /\ k.prefetch = r.vp /\ k.pos = r.src.pos
    BY <1>1, <1>3, <1>5 DEF SourceState
  <2>2. PeekNextVideo(s) = [ts |-> r.vp.ts, src |-> k]
    BY <1>2, <1>5
  <2> HIDE DEF k
  <2> QED BY <1>1, <1>3, <1>5, <2>1, <2>2
<1>6. CASE s.prefetch = None /\ ~r.ok
  BY <1>1, <1>2, <1>6, ModFacts
<1> QED BY <1>4, <1>5, <1>6

-----------------------------------------------------------------------------
(* The types of a session.                                                 *)

\* What a seek of the session does to its source.
LEMMA SeekAndResetFacts ==
  ASSUME Typed, source # None, NEW t \in Nat, NEW adjust
  PROVE  /\ SeekAndReset(t, adjust) \in SourceState
         /\ SeekAndReset(t, adjust).prefetch = source.prefetch
         /\ SeekAndReset(t, adjust).pos = source.pos \/ SeekAndReset(t, adjust).pos \in Keys
         /\ ~SeekAndReset(t, adjust).bsfAtEof
         /\ Landing(Target(t)) # None => SeekAndReset(t, adjust).pos \in Keys
<1> DEFINE s == seekToSeconds(source, t)
           delta == lastRtp - s.rtpOffset
<1>1. source \in SourceState /\ lastRtp \in 0..Mod-1
  BY DEF Typed, TypeOK
<1>2. /\ s \in SourceState /\ s.prefetch = source.prefetch
      /\ s.pos = source.pos \/ s.pos \in Keys
      /\ ~s.bsfAtEof /\ (Landing(Target(t)) # None => s.pos \in Keys)
  BY <1>1, SeekToFacts
<1> HIDE DEF s
<1>3. s.rtpOffset \in Int /\ s.audioOffset \in Int /\ delta \in Int
  <2>1. s.rtpOffset \in 0..Mod-1 /\ s.audioOffset \in 0..Mod-1
    BY <1>2 DEF SourceState
  <2>2. s.rtpOffset \in Int /\ s.audioOffset \in Int /\ lastRtp \in Int
    BY <1>1, <2>1, ModFacts, Zenon
  <2> QED BY <2>2
<1> DEFINE o == (s.rtpOffset + delta) % Mod
           a == (s.audioOffset + ToAudio(delta)) % Mod
<1>4. o \in 0..Mod-1 /\ a \in 0..Mod-1
  <2>1. ToAudio(delta) \in Int
    BY <1>3, AudioFacts
  <2>2. s.rtpOffset + delta \in Int /\ s.audioOffset + ToAudio(delta) \in Int
    BY <1>3, <2>1
  <2> QED BY <2>2, ModFacts
<1>5. adjustRTPOffset(s, delta) = [s EXCEPT !.rtpOffset = o, !.audioOffset = a]
  BY <1>2 DEF adjustRTPOffset, SourceState
<1>6. SeekAndReset(t, adjust) = s \/ SeekAndReset(t, adjust) = [s EXCEPT !.rtpOffset = o, !.audioOffset = a]
  BY <1>5 DEF SeekAndReset, s
<1> HIDE DEF o, a
<1> QED BY <1>2, <1>4, <1>6 DEF SourceState

\* The frame that is sent or held, and what it is measured against.
LEMMA FrameFacts ==
  ASSUME Typed, inTick, Playable, HasFrame
  PROVE  /\ Source \in SourceState /\ Source.prefetch \in Shown \cup {None} /\ Frame \in Shown
         /\ Reading => Source.prefetch = None
         /\ now \in 1..MaxClock /\ Wall \in Int /\ Base \in 0..Mod-1 /\ AudioAnchor \in 0..Mod-1
         /\ Elapsed \in 0..Mod-1 /\ (firstFrame => Elapsed = 0)
<1>1. /\ source \in SourceState /\ source.prefetch \in Shown \cup {None}
      /\ now \in 1..MaxClock /\ pauseStart \in 1..MaxClock \cup {None} /\ wallStart \in Int
      /\ pendingV \in Shown \cup {None} /\ loopOffset \in 0..Mod-1 /\ audioLoop \in 0..Mod-1
      /\ firstFrame \in BOOLEAN
  BY DEF Typed, TypeOK, Playable, inTick
<1>2. /\ readPacket(source).src \in SourceState /\ readPacket(source).src.prefetch = None
      /\ readPacket(source).ok => readPacket(source).vp \in Shown
  BY <1>1, ReadFacts
<1>3. /\ Source \in SourceState /\ Source.prefetch \in Shown \cup {None} /\ Frame \in Shown
      /\ Reading => Source.prefetch = None
  BY <1>1, <1>2 DEF Source, Frame, Reading, Held, Read, HasFrame
<1>4. Wall \in Int
  BY <1>1, SessionAssumption DEF Wall, Shifted
<1>5. Frame.ts \in 0..Mod-1
  BY <1>3 DEF Shown, VideoPacket
<1>6. Base \in 0..Mod-1 /\ (firstFrame => Base = Frame.ts)
  BY <1>1, <1>5 DEF Base
<1>7. Base \in Int /\ Frame.ts \in Int
  BY <1>5, <1>6, ModFacts, Zenon
<1>8. ToAudio(Base) % Mod \in 0..Mod-1
  BY <1>7, AudioFacts, ModFacts
<1>9. AudioAnchor \in 0..Mod-1
  BY <1>1, <1>8 DEF AudioAnchor
<1>10. Elapsed \in 0..Mod-1
  BY <1>7, ModFacts DEF Elapsed
<1>11. firstFrame => Elapsed = 0
  BY <1>6, <1>7, ModFacts DEF Elapsed
<1> QED BY <1>1, <1>3, <1>4, <1>6, <1>9, <1>10, <1>11

\* Sending audio takes packets from the front of the queue.
LEMMA SendAudioFacts ==
  ASSUME Typed, inTick, Playable, HasFrame, SendAudio
  PROVE  /\ source' \in SourceState /\ source'.prefetch = Source.prefetch /\ source'.pos = Source.pos
         /\ source'.rtpOffset = Source.rtpOffset /\ source'.firstPts = Source.firstPts
         /\ pendingA' \in 0..Mod-1 \cup {None}
<1>1. Source \in SourceState /\ pendingA \in 0..Mod-1 \cup {None}
  BY FrameFacts DEF Typed, TypeOK
<1>2. CASE "audio" \notin ready \/ SampleRate = 0
  BY <1>1, <1>2 DEF SendAudio
<1>3. CASE ~("audio" \notin ready \/ SampleRate = 0)
  <2> DEFINE q == AudioWaiting
             rest == SubSeq(q, DueCount + 2, Len(q))
  <2>1. q \in Seq(0..Mod-1)
    <3>1. Source.audioQueue \in Seq(0..Mod-1)
      BY <1>1 DEF SourceState
    <3> DEFINE head == IF pendingA = None THEN <<>> ELSE <<pendingA>>
    <3>2. head \in Seq(0..Mod-1)
      <4>1. CASE pendingA = None
        BY <4>1
      <4>2. CASE pendingA # None
        <5>1. pendingA \in 0..Mod-1
          BY <1>1, <4>2
        <5>2. <<pendingA>> \in Seq(0..Mod-1)
          BY <5>1
        <5> QED BY <4>2, <5>2
      <4> QED BY <4>1, <4>2
    <3>3. q = head \o Source.audioQueue
      BY DEF AudioWaiting
    <3> HIDE DEF head, q
    <3> QED BY <3>1, <3>2, <3>3, ConcatProperties
  <2> HIDE DEF q
  <2>2. Len(q) \in Nat /\ \A i \in 1..Len(q) : q[i] \in 0..Mod-1
    <3> DEFINE S == 0..Mod-1
    <3>1. q \in Seq(S)
      BY <2>1
    <3> HIDE DEF S
    <3>2. Len(q) \in Nat /\ \A i \in 1..Len(q) : q[i] \in S
      BY <3>1
    <3> QED BY <3>2 DEF S
  <2>3. DueCount \in 0..Len(q)
    <3> DEFINE Due(n) == \A i \in 1..n : AudioDue(q[i])
               T == {n \in 0..Len(q) : Due(n)}
    <3>1. T \subseteq 0..Len(q) /\ 0 \in T
      BY <2>2
    <3>2. PICK m \in T : \A k \in T : k <= m
      BY <2>2, <3>1, Largest
    <3>3. m < Len(q) => ~AudioDue(q[m + 1])
      <4> SUFFICES ASSUME m < Len(q), AudioDue(q[m + 1]) PROVE FALSE
        OBVIOUS
      <4>1. m \in 0..Len(q) /\ \A i \in 1..m : AudioDue(q[i])
        BY <3>2
      <4>2. m + 1 \in 0..Len(q) /\ \A i \in 1..m+1 : i \in 1..m \/ i = m + 1
        BY <2>2, <4>1
      <4>3. m + 1 \in T
        BY <4>1, <4>2
      <4>4. ~(m + 1 <= m)
        BY <4>1
      <4> QED BY <3>2, <4>3, <4>4
    <3>4. \E n \in 0..Len(q) : /\ \A i \in 1..n : AudioDue(q[i])
                               /\ n < Len(q) => ~AudioDue(q[n + 1])
      BY <3>2, <3>3
    <3> QED BY <3>4, Zenon DEF DueCount, q
  <2>4. rest \in Seq(0..Mod-1)
    <3>1. \A i \in DueCount + 2 .. Len(q) : q[i] \in 0..Mod-1
      BY <2>2, <2>3
    <3>2. DueCount + 2 \in Int /\ Len(q) \in Int
      BY <2>2, <2>3
    <3> QED BY <3>1, <3>2, SubSeqProperties
  <2>5. DueCount # Len(q) => q[DueCount + 1] \in 0..Mod-1
    <3>1. DueCount # Len(q) => DueCount + 1 \in 1..Len(q)
      BY <2>2, <2>3
    <3> QED BY <2>2, <3>1
  <2>6. /\ pendingA' = (IF DueCount = Len(q) THEN None ELSE q[DueCount + 1])
        /\ source' = [Source EXCEPT !.audioQueue = rest]
    BY <1>3, Zenon DEF SendAudio, q
  <2> HIDE DEF rest
  <2>7. /\ source' \in SourceState /\ source'.prefetch = Source.prefetch /\ source'.pos = Source.pos
        /\ source'.rtpOffset = Source.rtpOffset /\ source'.firstPts = Source.firstPts
    BY <1>1, <2>4, <2>6 DEF SourceState
  <2> QED BY <2>5, <2>6, <2>7
<1> QED BY <1>2, <1>3

\* What a file hands out is typed, and no frame and no source is None.
LEMMA NoneFacts ==
  /\ None \notin Shown /\ None \notin VideoPacket /\ None \notin SourceState
  /\ None \notin Int /\ None \notin Nat /\ Shown \subseteq VideoPacket
BY MediaAssumption DEF Shown

LEMMA OpenedFacts ==
  Opened \in SourceState /\ Opened.pos = 1 /\ Opened.prefetch = None
<1>1. 1 \in 1..Len(File)+1 /\ 0 \in 0..Mod-1
  BY FileFacts, ModFacts
<1>2. <<>> \in Seq(0..Mod-1)
  OBVIOUS
<1> QED BY <1>1, <1>2 DEF Opened, SourceState

\* The start of play moved by a pause is a time.
LEMMA ShiftedFacts ==
  ASSUME Typed, inTick
  PROVE  Shifted \in Int
<1>1. now \in 1..MaxClock /\ pauseStart \in 1..MaxClock \cup {None} /\ wallStart \in Int
  BY DEF Typed, TypeOK, inTick
<1>2. 1..MaxClock \subseteq Int
  BY SessionAssumption
<1> QED BY <1>1, <1>2 DEF Shifted

LEMMA TypedInit == Init => Typed
<1> SUFFICES ASSUME Init PROVE Typed
  OBVIOUS
<1>1. 0 \in 0..SeqModulus-1 /\ 1 \in 1..MaxClock
  BY SessionAssumption
<1> QED BY <1>1, ModFacts DEF Init, Typed, TypeOK, Tracks

\* Every step keeps the types.
LEMMA TypedStep ==
  ASSUME Typed, [Next]_vars
  PROVE  Typed'
<1> USE DEF Typed, TypeOK
<1>0. CASE UNCHANGED vars
  BY <1>0 DEF vars, transport, pacing, time, history
<1>1. CASE Advance
  <2>1. clock' \in 1..MaxClock
    BY <1>1, SessionAssumption DEF Advance
  <2> QED BY <1>1, <2>1 DEF Advance, transport, pacing, history
<1>2. CASE BeginTick
  BY <1>2 DEF BeginTick, transport, pacing, history
<1>3. ASSUME NEW found \in BOOLEAN, handleDescribe(found) PROVE Typed'
  BY <1>3, OpenedFacts, NoneFacts DEF handleDescribe, transport, pacing, time
<1>4. ASSUME NEW req \in Setups, handleSetup(req) PROVE Typed'
  <2>1. req.track \in Tracks
    BY SessionAssumption DEF SetupRequest
  <2> QED BY <1>4, <2>1 DEF handleSetup, pacing, time, history
<1>5. ASSUME NEW req \in Plays, Resume(req) PROVE Typed'
  <2>1. /\ clock \in Int /\ pauseStart \in Int \cup {None} /\ pausedAt \in Int /\ wallStart \in Int
        /\ pace \in Int \cup {None}
    BY <1>5, SessionAssumption DEF Resume
  <2>2. wallStart' \in Int /\ pace' \in Int \cup {None} /\ pausedAt' = None
    BY <1>5, <2>1 DEF Resume
  <2> QED BY <1>5, <2>2 DEF Resume, transport, time
<1>6. ASSUME NEW req \in Plays, ScalePlay(req) PROVE Typed'
  <2>1. source # None => /\ SeekAndReset(keyNpt, TRUE) \in SourceState
                         /\ SeekAndReset(keyNpt, TRUE).prefetch = source.prefetch
    BY SeekAndResetFacts
  <2>2. source' \in SourceState \cup {None} /\ (source' # None => source'.prefetch \in Shown \cup {None})
    BY <1>6, <2>1 DEF ScalePlay
  <2>3. /\ firstFrame' \in BOOLEAN /\ pendingV' \in Shown \cup {None}
        /\ pendingA' \in 0..Mod-1 \cup {None}
    BY <1>6 DEF ScalePlay, ResetPending
  <2>4. scaleFloor' \in 0..Mod-1 \cup {None} /\ lastSent' \in Shown \cup {None}
    BY <1>6 DEF ScalePlay, Shown, VideoPacket
  <2> QED BY <1>6, <2>2, <2>3, <2>4, NoneFacts DEF ScalePlay, transport, time
<1>7. ASSUME NEW req \in Plays, FreshPlay(req) PROVE Typed'
  <2> DEFINE t == IF req.start = None THEN 0 ELSE req.start
             p == PeekNextVideo(SeekAndReset(t, FALSE))
  <2>1. req.start \in Nat \cup {None} /\ req.stop \in Nat \cup {None} /\ t \in Nat
    BY SessionAssumption DEF PlayRequest
  <2>2. source # None => /\ p.src \in SourceState /\ p.ts \in 0..Mod-1
                         /\ p.src.prefetch \in Shown \cup {None}
    <3> HIDE DEF t
    <3> QED BY <2>1, SeekAndResetFacts, PeekFacts
  <2>3. /\ source' = IF source = None THEN None ELSE p.src
        /\ promise' = IF source = None THEN None ELSE p.ts
    BY <1>7 DEF FreshPlay
  <2> HIDE DEF t, p
  <2>4. /\ source' \in SourceState \cup {None} /\ (source' # None => source'.prefetch \in Shown \cup {None})
        /\ promise' \in 0..Mod-1 \cup {None}
    BY <2>2, <2>3
  <2>5. /\ firstFrame' \in BOOLEAN /\ pendingV' \in Shown \cup {None}
        /\ pendingA' \in 0..Mod-1 \cup {None}
    BY <1>7 DEF FreshPlay, ResetPending
  <2> QED BY <1>7, <2>1, <2>4, <2>5, ModFacts, NoneFacts DEF FreshPlay, transport, time
<1>8. CASE handlePause
  BY <1>8, SessionAssumption, NoneFacts DEF handlePause, transport, time
<1>9. CASE handleTeardown
  BY <1>9 DEF handleTeardown, transport, pacing, history
<1>10. CASE TickIdle
  BY <1>10 DEF TickIdle, transport, history, inTick
<1>11. CASE TickDropHeld
  BY <1>11, ShiftedFacts DEF TickDropHeld, EndTick, transport, history
<1>12. ASSUME EndTick, Reading
       PROVE  /\ Read.src \in SourceState /\ Read.src.prefetch = None
              /\ Read.ok => Read.vp \in Shown
  BY <1>12, ReadFacts DEF EndTick, Playable, Read
<1>13. CASE TickEof
  <2>1. LoopStart \in 0..Mod-1
    <3>1. lastRtp + (IF lastDur = None THEN 0 ELSE lastDur) \in Int
      BY ModFacts
    <3> QED BY <3>1, ModFacts DEF LoopStart
  <2>2. source' \in SourceState /\ source'.prefetch = None
    BY <1>12, <1>13, <2>1, SeekFacts DEF TickEof
  <2>3. /\ wallStart' \in Int /\ firstFrame' = TRUE /\ waitIdr' = FALSE
        /\ loopOffset' = 0 /\ audioLoop' = 0 /\ lastRtp' = 0 /\ nptEnd' = None
        /\ pendingV' = None /\ pendingA' = None /\ promise' = None /\ now' = None /\ pauseStart' = None
        /\ UNCHANGED <<describeDone, ready, useTcp, senders, clock, state, lastDur, keyNpt, rtpSeq,
                       lastSent, scaleFloor, pace, pausedAt>>
    BY <1>13, ShiftedFacts DEF TickEof, EndTick, transport
  <2> QED BY <2>2, <2>3, ModFacts
<1>14. CASE TickSkip
  BY <1>12, <1>14, ShiftedFacts DEF TickSkip, EndTick, transport, history
<1>15. CASE TickRangeEnd
  <2>1. /\ source' \in SourceState /\ source'.prefetch = None /\ wallStart' \in Int
    BY <1>12, <1>15, ShiftedFacts DEF TickRangeEnd, EndTick
  <2>2. pausedAt' \in Int \cup {None} /\ pausedAt' # None
    BY <1>15, SessionAssumption, NoneFacts DEF TickRangeEnd
  <2>3. /\ state' = "PAUSED" /\ waitIdr' = FALSE /\ pendingV' = None /\ promise' = None
        /\ now' = None /\ pauseStart' = None
        /\ UNCHANGED <<describeDone, ready, useTcp, senders, clock, firstFrame, pendingA, loopOffset,
                       audioLoop, lastRtp, lastDur, keyNpt, nptEnd, rtpSeq, lastSent, scaleFloor, pace>>
    BY <1>15 DEF TickRangeEnd, EndTick, transport
  <2> QED BY <2>1, <2>2, <2>3
<1>16. CASE TickHold
  <2>1. inTick /\ Playable /\ HasFrame
    BY <1>16 DEF TickHold, Anchor, EndTick
  <2>2. /\ Source \in SourceState /\ Source.prefetch \in Shown \cup {None} /\ Frame \in Shown
        /\ now \in 1..MaxClock /\ Wall \in Int /\ Base \in 0..Mod-1 /\ AudioAnchor \in 0..Mod-1
    BY <2>1, FrameFacts
  <2>3. /\ source' \in SourceState /\ source'.prefetch \in Shown \cup {None} /\ pendingV' \in Shown
        /\ wallStart' \in Int /\ loopOffset' \in 0..Mod-1 /\ audioLoop' \in 0..Mod-1
        /\ firstFrame' = FALSE /\ waitIdr' = FALSE
    BY <1>16, <2>2 DEF TickHold, Anchor
  <2>4. pace' \in Int \cup {None}
    <3>1. now \in Int
      BY <2>2, SessionAssumption
    <3> QED BY <1>16, <3>1 DEF TickHold, Anchor
  <2> QED BY <1>16, <2>3, <2>4, NoneFacts DEF TickHold, Anchor, EndTick, transport
<1>17. CASE TickSend
  <2>1. inTick /\ Playable /\ HasFrame
    BY <1>17 DEF TickSend, Anchor, EndTick
  <2>2. /\ Source \in SourceState /\ Source.prefetch \in Shown \cup {None} /\ Frame \in Shown
        /\ now \in 1..MaxClock /\ Wall \in Int /\ Base \in 0..Mod-1 /\ AudioAnchor \in 0..Mod-1
        /\ Elapsed \in 0..Mod-1
    BY <2>1, FrameFacts
  <2>3. /\ wallStart' \in Int /\ loopOffset' \in 0..Mod-1 /\ audioLoop' \in 0..Mod-1
        /\ firstFrame' = FALSE /\ waitIdr' = FALSE
    BY <1>17, <2>2 DEF TickSend, Anchor
  <2>4. pace' \in Int \cup {None}
    <3>1. now \in Int
      BY <2>2, SessionAssumption
    <3> QED BY <1>17, <3>1 DEF TickSend, Anchor
  <2>5. /\ source' \in SourceState /\ source'.prefetch \in Shown \cup {None}
        /\ pendingA' \in 0..Mod-1 \cup {None}
    BY <1>17, <2>1, <2>2, SendAudioFacts DEF TickSend
  <2>6. rtpSeq' \in 0..SeqModulus-1
    BY <1>17, SessionAssumption DEF TickSend, NextSeq, Packets
  <2>7. keyNpt' \in Nat
    <3>1. Source.rtpOffset \in 0..Mod-1
      BY <2>2 DEF SourceState
    <3>2. Source.rtpOffset \in Nat /\ Elapsed \in Nat
      BY <2>2, <3>1, ModFacts, Zenon
    <3>3. Source.rtpOffset + Elapsed \in Nat
      BY <3>2
    <3> QED BY <1>17, <3>3 DEF TickSend
  <2>8. lastRtp' \in 0..Mod-1 /\ lastDur' \in 0..Mod-1 \cup {None} /\ lastSent' \in Shown
    <3>1. Frame.ts \in 0..Mod-1
      BY <2>2 DEF Shown, VideoPacket
    <3>2. Frame.ts > lastRtp => Frame.ts - lastRtp \in 0..Mod-1
      BY <3>1, ModFacts
    <3> QED BY <1>17, <2>2, <3>1, <3>2 DEF TickSend
  <2>9. /\ pendingV' = None /\ promise' = None /\ scaleFloor' = None /\ now' = None /\ pauseStart' = None
        /\ UNCHANGED <<describeDone, ready, useTcp, senders, clock, state, nptEnd, pausedAt>>
    BY <1>17 DEF TickSend, Anchor, EndTick, transport
  <2> QED BY <2>3, <2>4, <2>5, <2>6, <2>7, <2>8, <2>9, NoneFacts
<1> QED BY <1>0, <1>1, <1>2, <1>3, <1>4, <1>5, <1>6, <1>7, <1>8, <1>9, <1>10, <1>11, <1>13, <1>14,
           <1>15, <1>16, <1>17 DEF Next, handlePlay

\* Every value stays in the range its variable has in the code: timestamps in 32
\* bits, sequence numbers in 16, and the place in the file within the file,
\* whatever a client asks for and in whatever order.
THEOREM SessionTypeCorrect == Spec => []TypeOK
<1>1. Init => Typed
  BY TypedInit
<1>2. Typed /\ [Next]_vars => Typed'
  BY TypedStep
<1>3. Typed => TypeOK
  BY DEF Typed
<1> QED BY <1>1, <1>2, <1>3, PTL DEF Spec

-----------------------------------------------------------------------------
(* A decoder can use every frame.                                          *)

\* Only TickSend sends a video frame.
LEMMA SentBySend ==
  ASSUME [Next]_vars, Sent
  PROVE  TickSend
BY DEF Sent, vars, pacing, Next, Advance, BeginTick, handleDescribe, handleSetup, handlePlay, Resume,
       ScalePlay, FreshPlay, handlePause, handleTeardown, TickIdle, TickDropHeld, TickEof, TickSkip,
       TickRangeEnd, TickHold

\* A key frame can follow anything.
LEMMA KeyContinues ==
  ASSUME NEW i, NEW p \in Keys
  PROVE  NextVideo(p) = p /\ Continues(i, p)
<1>1. p \in Videos
  BY FileFacts
<1> QED BY <1>1, NextVideoAt DEF Continues

\* The frame that is sent or held is one the decoder can use, and the file goes on
\* after it.
LEMMA FrameFits ==
  ASSUME Typed, StreamInv, inTick, Playable, HasFrame
  PROVE  Source.prefetch = None /\ Continues(Frame.i, Source.pos) /\ Fits(Frame.i)
<1>1. /\ source \in SourceState /\ source # None /\ source.prefetch \in Shown \cup {None}
      /\ pendingV \in Shown \cup {None} /\ firstFrame \in BOOLEAN /\ waitIdr \in BOOLEAN
      /\ state = "PLAYING"
  BY DEF Typed, TypeOK, Playable
<1>2. Frame \in Shown
  BY FrameFacts
<1>3. Frame.key => Frame.i \in Keys
  BY <1>2, FileFacts DEF Shown
<1>4. CASE Reading
  <2>1. /\ Source.prefetch = None /\ Read.ok /\ ~Gated(Frame)
        /\ Frame = Read.vp /\ Source = Read.src
    BY <1>4, FrameFacts DEF HasFrame, Frame, Source
  <2>2. /\ source.prefetch # None => Frame = source.prefetch /\ Source.pos = source.pos
        /\ source.prefetch = None => /\ NextVideo(source.pos) \in Videos /\ Frame.i = NextVideo(source.pos)
                                     /\ Source.pos = NextVideo(source.pos) + 1
    BY <1>1, <2>1, ReadFacts DEF Read
  <2>3. Continues(Frame.i, Source.pos)
    BY <1>1, <2>2 DEF StreamInv, Continues
  <2>4. Fits(Frame.i)
    <3>1. CASE Frame.key
      BY <1>3, <3>1 DEF Fits
    <3>2. CASE ~Frame.key
      <4>1. GateClosed
        BY <2>1, <3>2 DEF Gated, GateClosed
      <4>2. pendingV = None
        BY <1>4, <4>1 DEF Reading, Held, GateClosed
      <4>3. source.prefetch = None
        BY <1>1, <4>1 DEF StreamInv, GateClosed
      <4> QED BY <1>1, <2>2, <4>1, <4>2, <4>3 DEF StreamInv
    <3> QED BY <3>1, <3>2
  <2> QED BY <2>1, <2>3, <2>4
<1>5. CASE ~Reading
  <2>1. /\ ~firstFrame /\ pendingV # None /\ Frame = pendingV /\ Source = source
        /\ ~waitIdr \/ pendingV.key
    BY <1>5 DEF Reading, Held, Frame, Source, HasFrame
  <2>2. source.prefetch = None /\ Continues(pendingV.i, source.pos)
    BY <1>1, <2>1 DEF StreamInv
  <2>3. CASE waitIdr
    BY <1>3, <2>1, <2>2, <2>3 DEF Fits
  <2>4. CASE ~waitIdr
    BY <1>1, <2>1, <2>2, <2>4 DEF StreamInv, GateClosed
  <2> QED BY <2>3, <2>4
<1> QED BY <1>4, <1>5

\* Every step keeps StreamInv; a range that ends does not occur.
LEMMA StreamStep ==
  ASSUME NoRangeEnd, Typed, Endless, StreamInv, [Next]_vars
  PROVE  Endless' /\ StreamInv'
<1>0. Endless'
  BY DEF NoRangeEnd, Endless, vars, pacing, Next, Advance, BeginTick, handleDescribe, handleSetup,
         handlePlay, Resume, ScalePlay, FreshPlay, handlePause, handleTeardown, TickIdle, TickDropHeld,
         TickEof, TickSkip, TickRangeEnd, TickHold, TickSend
<1> SUFFICES StreamInv'
  BY <1>0
<1>1. CASE UNCHANGED vars \/ Advance \/ BeginTick \/ handlePause \/ handleTeardown
  BY <1>1 DEF StreamInv, GateClosed, Fits, Continues, vars, transport, pacing, time, history,
              Advance, BeginTick, handlePause, handleTeardown
<1>2. ASSUME NEW found \in BOOLEAN, handleDescribe(found) PROVE StreamInv'
  <2>1. source' # None => source'.prefetch = None /\ source'.pos \in Keys
    BY <1>2, OpenedFacts, FileFacts DEF handleDescribe
  <2>2. source' # None => NextVideo(source'.pos) \in Keys
    BY <2>1, KeyContinues
  <2> QED BY <1>2, <2>1, <2>2
          DEF StreamInv, GateClosed, Fits, Continues, handleDescribe, transport, pacing, time
<1>3. ASSUME NEW req \in Setups, handleSetup(req) PROVE StreamInv'
  BY <1>3 DEF StreamInv, GateClosed, Fits, Continues, handleSetup, pacing, time, history
<1>4. ASSUME NEW req \in Plays, Resume(req) PROVE StreamInv'
  BY <1>4 DEF StreamInv, GateClosed, Fits, Continues, Resume, transport, time
<1>5. ASSUME NEW req \in Plays, ScalePlay(req) PROVE StreamInv'
  <2>1. CASE source = None
    BY <1>5, <2>1 DEF StreamInv, GateClosed, Fits, Continues, ScalePlay, ResetPending, transport, time
  <2>2. CASE source # None
    <3>1. /\ source'.prefetch = source.prefetch
          /\ source'.pos = source.pos \/ source'.pos \in Keys
      <4>1. keyNpt \in Nat
        BY DEF Typed
      <4> QED BY <1>5, <2>2, <4>1, SeekAndResetFacts DEF ScalePlay
    <3>2. source'.prefetch # None => Continues(source'.prefetch.i, source'.pos)
      BY <2>2, <3>1, KeyContinues DEF StreamInv
    <3> QED BY <1>5, <2>2, <3>2 DEF StreamInv, GateClosed, ScalePlay, ResetPending, transport, time
  <2> QED BY <2>1, <2>2
<1>6. ASSUME NEW req \in Plays, FreshPlay(req) PROVE StreamInv'
  <2>1. CASE source = None
    BY <1>6, <2>1 DEF StreamInv, GateClosed, Fits, Continues, FreshPlay, ResetPending, transport, time
  <2>2. CASE source # None
    <3> DEFINE t == IF req.start = None THEN 0 ELSE req.start
               s == SeekAndReset(t, FALSE)
    <3>1. t \in Nat
      BY SessionAssumption DEF PlayRequest
    <3>2. source' = PeekNextVideo(s).src
      BY <1>6, <2>2 DEF FreshPlay
    <3> HIDE DEF t
    <3>3. /\ s \in SourceState /\ s.prefetch = source.prefetch
          /\ s.pos = source.pos \/ s.pos \in Keys
      BY <2>2, <3>1, SeekAndResetFacts
    <3>4. s.prefetch \in Shown \cup {None}
      BY <2>2, <3>3 DEF Typed
    <3> HIDE DEF s
    <3>5. source'.prefetch # None => Continues(source'.prefetch.i, source'.pos)
      <4>1. CASE s.prefetch # None
        <5>1. source' = s
          BY <3>2, <3>3, <3>4, <4>1, PeekFacts
        <5> QED BY <2>2, <3>3, <4>1, <5>1, KeyContinues DEF StreamInv
      <4>2. CASE s.prefetch = None
        BY <3>2, <3>3, <3>4, <4>2, PeekFacts DEF Continues
      <4> QED BY <4>1, <4>2
    <3> QED BY <1>6, <2>2, <3>5 DEF StreamInv, GateClosed, FreshPlay, ResetPending, transport, time
  <2> QED BY <2>1, <2>2
<1>7. CASE TickIdle
  BY <1>7 DEF StreamInv, GateClosed, Fits, Continues, TickIdle, Playable, transport, history, Typed, TypeOK
<1>8. CASE TickDropHeld
  BY <1>8 DEF StreamInv, GateClosed, Fits, Continues, TickDropHeld, EndTick, Reading, Held, transport, history
<1>9. ASSUME EndTick, Reading PROVE Read.src.prefetch = None
  BY <1>9, ReadFacts DEF EndTick, Playable, Read, Typed, TypeOK
<1>10. CASE TickEof
  <2>1. source'.prefetch = None
    <3>1. Read.src \in SourceState
      BY <1>10, ReadFacts DEF TickEof, EndTick, Playable, Read, Typed, TypeOK
    <3>2. LoopStart \in 0..Mod-1
      <4>1. lastRtp + (IF lastDur = None THEN 0 ELSE lastDur) \in Int
        BY ModFacts DEF Typed, TypeOK
      <4> QED BY <4>1, ModFacts DEF LoopStart
    <3> QED BY <1>9, <1>10, <3>1, <3>2, SeekFacts DEF TickEof
  <2> QED BY <1>10, <2>1 DEF StreamInv, GateClosed, Continues, TickEof, EndTick, transport
<1>11. CASE TickSkip
  BY <1>9, <1>11 DEF StreamInv, GateClosed, Continues, TickSkip, EndTick, Gated, transport, history
<1>12. ~TickRangeEnd
  BY DEF TickRangeEnd, AtEnd, Endless
<1>13. CASE TickHold
  <2>1. Source.prefetch = None /\ Continues(Frame.i, Source.pos) /\ Fits(Frame.i) /\ Frame # None
    BY <1>13, FrameFits, FrameFacts, NoneFacts DEF TickHold, Anchor, EndTick
  <2>2. /\ ready' = ready /\ state' = state /\ lastSent' = lastSent /\ source' = Source
        /\ pendingV' = Frame /\ firstFrame' = FALSE
    BY <1>13 DEF TickHold, Anchor, EndTick, transport
  <2> QED BY <2>1, <2>2 DEF StreamInv, GateClosed, Fits, Continues
<1>14. CASE TickSend
  <2>1. Source.prefetch = None /\ Continues(Frame.i, Source.pos) /\ Frame # None
    BY <1>14, FrameFits, FrameFacts, NoneFacts DEF TickSend, Anchor, EndTick
  <2>2. source'.prefetch = Source.prefetch /\ source'.pos = Source.pos
    BY <1>14, SendAudioFacts DEF TickSend, Anchor, EndTick
  <2>3. /\ ready' = ready /\ state' = state /\ lastSent' = Frame /\ pendingV' = None
        /\ firstFrame' = FALSE
    BY <1>14 DEF TickSend, Anchor, EndTick, transport
  <2> QED BY <2>1, <2>2, <2>3 DEF StreamInv, Fits, Continues
<1> QED BY <1>1, <1>2, <1>3, <1>4, <1>5, <1>6, <1>7, <1>8, <1>10, <1>11, <1>12, <1>13, <1>14
        DEF Next, handlePlay

\* Whatever was held, dropped, prefetched or looped, the decoder can use every frame:
\* each is a key frame or follows in the file the one sent before it.  (A range that
\* ends drops the frame that is past its end; with frames whose display order is not
\* the file's that frame is not the last of its group, and the claim fails.)
THEOREM StreamIsDecodable ==
  ASSUME NoRangeEnd
  PROVE  Spec => DecodableStream
<1> DEFINE Inv == Typed /\ Endless /\ StreamInv
<1>1. Init => Inv
  BY TypedInit DEF Init, Endless, StreamInv, GateClosed
<1>2. Inv /\ [Next]_vars => Inv'
  BY TypedStep, StreamStep
<1>3. Inv /\ [Next]_vars => [Sent => \/ lastSent'.key
                                     \/ lastSent # None /\ lastSent'.i = NextVideo(lastSent.i + 1)]_vars
  <2> SUFFICES ASSUME Inv, [Next]_vars, Sent
               PROVE  \/ lastSent'.key
                      \/ lastSent # None /\ lastSent'.i = NextVideo(lastSent.i + 1)
    OBVIOUS
  <2>1. TickSend
    BY SentBySend
  <2>2. Fits(Frame.i) /\ Frame \in Shown /\ lastSent' = Frame
    BY <2>1, FrameFits, FrameFacts DEF TickSend, Anchor, EndTick
  <2>3. Frame.i \in Keys => Frame.key
    BY <2>2, FileFacts DEF Shown
  <2> QED BY <2>2, <2>3 DEF Fits
<1> HIDE DEF Inv
<1> QED BY <1>1, <1>2, <1>3, PTL DEF Spec, DecodableStream

-----------------------------------------------------------------------------
(* The timestamp a PLAY announces.                                         *)

\* Every place asked for is one a seek can reach.
LEMMA SeekLands ==
  ASSUME StartsAtZero
  PROVE  Landing(0) # None /\ \A t \in Nat : Landing(Target(t)) # None
<1>1. ASSUME NEW u \in Nat PROVE Landing(u) # None
  <2>1. \E j \in Keys : File[j].pts <= u
    BY DEF StartsAtZero
  <2> QED BY <2>1, LandingFacts
<1> QED BY <1>1, TargetFacts

\* The frame that is sent or held leaves no prefetched frame but a key frame.
LEMMA FrameKeepsPrefetch ==
  ASSUME Typed, PromiseInv, inTick, Playable, HasFrame
  PROVE  /\ Source.prefetch # None => Source.prefetch.key
         /\ promise # None => firstFrame /\ Frame.ts = promise
<1>1. Source.prefetch # None => Source.prefetch.key
  <2>1. Reading => Source.prefetch = None
    BY FrameFacts
  <2>2. ~Reading => Source = source
    BY DEF Source
  <2> QED BY <2>1, <2>2 DEF PromiseInv, Playable
<1>2. ASSUME promise # None PROVE firstFrame /\ Frame.ts = promise
  <2>1. firstFrame /\ source.prefetch # None /\ source.prefetch.ts = promise
    BY <1>2 DEF PromiseInv
  <2>2. Reading
    BY <2>1 DEF Reading, Held
  <2>3. Read.ok /\ Frame = Read.vp
    BY <2>2 DEF HasFrame, Frame
  <2>4. Read.vp = source.prefetch
    BY <2>1, <2>3, ReadFacts DEF Read, Typed, TypeOK, Playable
  <2> QED BY <2>1, <2>3, <2>4
<1> QED BY <1>1, <1>2

LEMMA PromiseStep ==
  ASSUME StartsAtZero, Typed, PromiseInv, [Next]_vars
  PROVE  PromiseInv'
<1>1. CASE UNCHANGED vars \/ Advance \/ BeginTick \/ handlePause \/ handleTeardown \/ TickIdle \/ TickDropHeld
  BY <1>1 DEF PromiseInv, vars, pacing, time, history, Advance, BeginTick, handlePause, handleTeardown,
              TickIdle, TickDropHeld
<1>2. ASSUME NEW found \in BOOLEAN, handleDescribe(found) PROVE PromiseInv'
  BY <1>2, OpenedFacts DEF PromiseInv, handleDescribe
<1>3. ASSUME NEW req \in Setups, handleSetup(req) PROVE PromiseInv'
  BY <1>3 DEF PromiseInv, handleSetup, pacing, history
<1>4. ASSUME NEW req \in Plays, Resume(req) PROVE PromiseInv'
  BY <1>4 DEF PromiseInv, Resume
<1>5. ASSUME NEW req \in Plays, ScalePlay(req) PROVE PromiseInv'
  <2>1. source # None => source'.prefetch = source.prefetch
    <3>1. keyNpt \in Nat
      BY DEF Typed
    <3> QED BY <1>5, <3>1, SeekAndResetFacts DEF ScalePlay
  <2> QED BY <1>5, <2>1 DEF PromiseInv, ScalePlay
<1>6. ASSUME NEW req \in Plays, FreshPlay(req) PROVE PromiseInv'
  <2>1. CASE source = None
    BY <1>6, <2>1 DEF PromiseInv, FreshPlay
  <2>2. CASE source # None
    <3> DEFINE t == IF req.start = None THEN 0 ELSE req.start
               s == SeekAndReset(t, FALSE)
               p == PeekNextVideo(s)
    <3>1. t \in Nat
      BY SessionAssumption DEF PlayRequest
    <3>2. source' = p.src /\ promise' = p.ts /\ firstFrame' = TRUE
      BY <1>6, <2>2 DEF FreshPlay, ResetPending
    <3> HIDE DEF t
    <3>3. s \in SourceState /\ s.prefetch = source.prefetch /\ s.pos \in Keys /\ ~s.bsfAtEof
      BY <2>2, <3>1, SeekAndResetFacts, SeekLands
    <3>4. s.prefetch \in Shown \cup {None} /\ (s.prefetch # None => s.prefetch.key)
      BY <2>2, <3>3 DEF Typed, PromiseInv
    <3> HIDE DEF s, p
    <3>5. p.src \in SourceState /\ p.src.prefetch # None /\ p.src.prefetch.ts = p.ts /\ p.src.prefetch.key
      <4>1. CASE s.prefetch # None
        BY <3>3, <3>4, <4>1, PeekFacts DEF p
      <4>2. CASE s.prefetch = None
        <5>1. NextVideo(s.pos) = s.pos /\ s.pos \in Videos
          BY <3>3, KeyContinues, FileFacts
        <5>2. /\ p.src \in SourceState /\ p.src.prefetch \in Shown /\ p.src.prefetch # None
              /\ p.src.prefetch.i = s.pos /\ p.ts = p.src.prefetch.ts
          BY <3>3, <3>4, <4>2, <5>1, PeekFacts DEF p
        <5>3. p.src.prefetch.key
          BY <3>3, <5>1, <5>2, FileFacts DEF Shown
        <5> QED BY <5>2, <5>3
      <4> QED BY <4>1, <4>2
    <3> QED BY <3>2, <3>5, NoneFacts DEF PromiseInv
  <2> QED BY <2>1, <2>2
<1>7. ASSUME EndTick, Reading
      PROVE  /\ Read.src \in SourceState /\ Read.src.prefetch = None
             /\ promise # None => Read.ok /\ Read.vp = source.prefetch
  <2>1. source \in SourceState /\ source.prefetch \in Shown \cup {None}
    BY <1>7 DEF EndTick, Playable, Typed, TypeOK
  <2>2. promise # None => source.prefetch # None
    BY DEF PromiseInv
  <2> QED BY <2>1, <2>2, ReadFacts DEF Read
<1>8. CASE TickEof
  <2>1. LoopStart \in 0..Mod-1
    <3>1. lastRtp + (IF lastDur = None THEN 0 ELSE lastDur) \in Int
      BY ModFacts DEF Typed, TypeOK
    <3> QED BY <3>1, ModFacts DEF LoopStart
  <2>2. source'.prefetch = None
    BY <1>7, <1>8, <2>1, SeekFacts DEF TickEof
  <2> QED BY <1>8, <2>2 DEF PromiseInv, TickEof
<1>9. CASE TickSkip
  <2>1. promise = None
    BY <1>7, <1>9 DEF PromiseInv, TickSkip, Gated
  <2> QED BY <1>7, <1>9, <2>1 DEF PromiseInv, TickSkip, history
<1>10. CASE TickRangeEnd
  BY <1>7, <1>10 DEF PromiseInv, TickRangeEnd
<1>11. CASE TickHold
  <2>1. inTick /\ Playable /\ HasFrame
    BY <1>11 DEF TickHold, Anchor, EndTick
  <2>2. ~firstFrame
    <3>1. firstFrame => Elapsed = 0 /\ Wall = now /\ now \in Int
      BY <2>1, FrameFacts, SessionAssumption DEF Wall
    <3> QED BY <1>11, <3>1 DEF TickHold
  <2>3. promise = None /\ (Source.prefetch # None => Source.prefetch.key)
    BY <2>1, <2>2, FrameKeepsPrefetch
  <2> QED BY <1>11, <2>3 DEF PromiseInv, TickHold
<1>12. CASE TickSend
  <2>1. inTick /\ Playable /\ HasFrame /\ SendAudio /\ promise' = None
    BY <1>12 DEF TickSend, Anchor, EndTick
  <2>2. source'.prefetch = Source.prefetch /\ (Source.prefetch # None => Source.prefetch.key)
    BY <2>1, FrameKeepsPrefetch, SendAudioFacts
  <2> QED BY <2>1, <2>2 DEF PromiseInv
<1> QED BY <1>1, <1>2, <1>3, <1>4, <1>5, <1>6, <1>8, <1>9, <1>10, <1>11, <1>12 DEF Next, handlePlay

\* The timestamp in the RTP-Info of a PLAY response is that of the first frame sent
\* after it, for every file in which play can start at 0: no tick, hold, dropped frame
\* or pause in between can put another frame first.
THEOREM RtpInfoIsHonoured ==
  ASSUME StartsAtZero
  PROVE  Spec => RtpInfoHonoured
<1> DEFINE Inv == Typed /\ PromiseInv
<1>1. Init => Inv
  BY TypedInit DEF Init, PromiseInv
<1>2. Inv /\ [Next]_vars => Inv'
  BY TypedStep, PromiseStep
<1>3. Inv /\ [Next]_vars => [Sent /\ promise # None => lastSent'.ts = promise]_vars
  <2> SUFFICES ASSUME Inv, [Next]_vars, Sent, promise # None PROVE lastSent'.ts = promise
    OBVIOUS
  <2>1. TickSend
    BY SentBySend
  <2> QED BY <2>1, FrameKeepsPrefetch DEF TickSend, Anchor, EndTick
<1> HIDE DEF Inv
<1> QED BY <1>1, <1>2, <1>3, PTL DEF Spec, RtpInfoHonoured

-----------------------------------------------------------------------------
(* The pace.                                                               *)

LEMMA PaceStep ==
  ASSUME NoRangeEnd, Typed, Endless, PaceInv, [Next]_vars
  PROVE  PaceInv'
<1>1. CASE UNCHANGED vars \/ Advance \/ BeginTick \/ handleTeardown
  BY <1>1 DEF PaceInv, vars, pacing, time, history, Advance, BeginTick, handleTeardown
<1>2. ASSUME NEW found \in BOOLEAN, handleDescribe(found) PROVE PaceInv'
  BY <1>2 DEF PaceInv, handleDescribe
<1>3. ASSUME NEW req \in Setups, handleSetup(req) PROVE PaceInv'
  BY <1>3 DEF PaceInv, handleSetup, pacing, history
<1>4. ASSUME NEW req \in Plays, Resume(req) PROVE PaceInv'
  <2>1. pausedAt # None /\ state = "PAUSED"
    BY <1>4 DEF Resume, Typed
  <2>2. CASE pace = None
    BY <1>4, <2>2 DEF PaceInv, Resume
  <2>3. CASE pace # None /\ ~firstFrame
    <3>1. wallStart = pace /\ pauseStart = pausedAt
      BY <2>1, <2>3 DEF PaceInv
    <3>2. wallStart' = wallStart + (clock - pauseStart) /\ pace' = pace + (clock - pausedAt)
      BY <1>4, <2>1, <2>3, <3>1 DEF Resume
    <3>3. wallStart' = pace'
      BY <3>1, <3>2
    <3> QED BY <1>4, <2>3, <3>3 DEF PaceInv, Resume
  <2>4. CASE firstFrame /\ pace # None
    BY <1>4, <2>4 DEF PaceInv, Resume
  <2> QED BY <2>2, <2>3, <2>4
<1>5. ASSUME NEW req \in Plays, ScalePlay(req) PROVE PaceInv'
  <2>1. source' = None => source = None
    <3>1. keyNpt \in Nat
      BY DEF Typed
    <3> QED BY <1>5, <3>1, SeekAndResetFacts, NoneFacts DEF ScalePlay
  <2> QED BY <1>5, <2>1 DEF PaceInv, ScalePlay, ResetPending
<1>6. ASSUME NEW req \in Plays, FreshPlay(req) PROVE PaceInv'
  <2>1. source' = None => source = None
    <3> SUFFICES ASSUME source # None PROVE source' # None
      OBVIOUS
    <3> DEFINE t == IF req.start = None THEN 0 ELSE req.start
    <3>1. t \in Nat
      BY SessionAssumption DEF PlayRequest
    <3>2. source' = PeekNextVideo(SeekAndReset(t, FALSE)).src
      BY <1>6 DEF FreshPlay
    <3> HIDE DEF t
    <3>3. SeekAndReset(t, FALSE) \in SourceState /\ SeekAndReset(t, FALSE).prefetch = source.prefetch
      BY <3>1, SeekAndResetFacts
    <3>4. SeekAndReset(t, FALSE).prefetch \in Shown \cup {None}
      BY <3>3 DEF Typed
    <3> QED BY <3>2, <3>3, <3>4, PeekFacts, NoneFacts
  <2> QED BY <1>6, <2>1 DEF PaceInv, FreshPlay, ResetPending
<1>7. CASE handlePause
  BY <1>7 DEF PaceInv, handlePause
<1>8. CASE TickIdle
  BY <1>8 DEF PaceInv, TickIdle, Typed, history
<1>9. ASSUME EndTick, pace # None, ~firstFrame PROVE Shifted = pace /\ state = "PLAYING" /\ pauseStart = None
  BY <1>9 DEF PaceInv, Shifted, EndTick, Playable
<1>10. CASE TickDropHeld
  BY <1>9, <1>10 DEF PaceInv, TickDropHeld, EndTick, history
<1>11. ASSUME EndTick, Reading PROVE Read.src \in SourceState /\ Read.src # None
  <2>1. source \in SourceState /\ source.prefetch \in Shown \cup {None}
    BY <1>11 DEF EndTick, Playable, Typed, TypeOK
  <2> QED BY <2>1, ReadFacts, NoneFacts DEF Read
<1>12. CASE TickEof
  <2>1. LoopStart \in 0..Mod-1
    <3>1. lastRtp + (IF lastDur = None THEN 0 ELSE lastDur) \in Int
      BY ModFacts DEF Typed, TypeOK
    <3> QED BY <3>1, ModFacts DEF LoopStart
  <2>2. source' # None /\ firstFrame' = TRUE
    BY <1>11, <1>12, <2>1, SeekFacts, NoneFacts DEF TickEof
  <2> QED BY <2>2 DEF PaceInv
<1>13. CASE TickSkip
  BY <1>9, <1>11, <1>13 DEF PaceInv, TickSkip, EndTick, history
<1>14. ~TickRangeEnd
  BY DEF TickRangeEnd, AtEnd, Endless
<1>15. ASSUME Anchor, state' = state, source' \in SourceState PROVE PaceInv'
  <2>1. source' # None /\ pauseStart' = None /\ state' = "PLAYING"
    BY <1>15, NoneFacts DEF Anchor, EndTick, Playable
  <2>2. pace' # None => wallStart' = pace'
    BY <1>9, <1>15 DEF Anchor, Wall
  <2> QED BY <2>1, <2>2 DEF PaceInv
<1>16. CASE TickHold
  BY <1>15, <1>16, FrameFacts DEF TickHold, Anchor, EndTick
<1>17. CASE TickSend
  BY <1>15, <1>17, SendAudioFacts DEF TickSend, Anchor, EndTick
<1> QED BY <1>1, <1>2, <1>3, <1>4, <1>5, <1>6, <1>7, <1>8, <1>10, <1>12, <1>13, <1>14, <1>16, <1>17
        DEF Next, handlePlay

\* Pauses neither hurry nor delay playback, however many there are and however late
\* their ticks run: wall_start_ is the start of play moved by exactly the time paused.
\* (At the end of a range pause_start_ is only set by the next tick, from that tick's
\* own time: there the two records of the pause differ.)
THEOREM PlaybackKeepsPace ==
  ASSUME NoRangeEnd
  PROVE  Spec => InPace
<1> DEFINE Inv == Typed /\ Endless /\ StreamInv /\ PaceInv
<1>1. Init => Inv
  BY TypedInit DEF Init, Endless, StreamInv, GateClosed, PaceInv
<1>2. Inv /\ [Next]_vars => Inv'
  BY TypedStep, StreamStep, PaceStep
<1>3. Inv /\ [Next]_vars => [Sent /\ pace' # None => wallStart' = pace']_vars
  <2> SUFFICES ASSUME Inv, [Next]_vars, Sent, pace' # None PROVE wallStart' = pace'
    OBVIOUS
  <2>1. TickSend /\ PaceInv'
    BY SentBySend, PaceStep
  <2>2. firstFrame' = FALSE /\ state' = "PLAYING"
    BY <2>1 DEF TickSend, Anchor, EndTick, Playable
  <2> QED BY <2>1, <2>2 DEF PaceInv
<1> HIDE DEF Inv
<1> QED BY <1>1, <1>2, <1>3, PTL DEF Spec, InPace

-----------------------------------------------------------------------------
(* The timestamps of a session: where they go on, and that they never go   *)
(* back.  Files whose frames are stored in the order they are shown, and   *)
(* which are shorter than a quarter of the timestamps, 3 hours 18 minutes: *)
(* by a tick, as an offset and a distance are rounded each by itself.      *)

InOrder == \A i, j \in Videos : i <= j => File[i].pts <= File[j].pts
Quarter == Mod \div 4
Short == \A i \in Videos : Ticks(File[i].pts) + 1 < Quarter

\* The time that timestamps are counted from when frame v is read.
Origin(s, v) == IF s.firstPts = None THEN File[v].pts ELSE s.firstPts

\* The clock of a source that has read a frame.
LEMMA ReadClock ==
  ASSUME NEW s \in SourceState, NEW r, r = readPacket(s)
  PROVE  /\ s.prefetch # None => /\ r.ok /\ r.src.rtpOffset = s.rtpOffset
                                 /\ r.src.firstPts = s.firstPts /\ r.src.pos = s.pos
         /\ s.prefetch = None /\ r.ok =>
              LET v == NextVideo(s.pos)
              IN /\ v \in Videos /\ r.vp.key = File[v].key
                 /\ r.vp.ts = (Ticks(File[v].pts - Origin(s, v)) + s.rtpOffset) % Mod
                 /\ r.src.rtpOffset = s.rtpOffset /\ r.src.firstPts = Origin(s, v) /\ r.src.pos = v + 1
<1>1. CASE s.prefetch # None
  BY <1>1 DEF readPacket, SourceState
<1>2. CASE s.prefetch = None /\ r.ok
  <2> DEFINE v == NextVideo(s.pos)
             passed == SubSeq(File, s.pos, v - 1)
             first == IF s.audioFirstPts # None \/ passed = <<>> THEN s.audioFirstPts ELSE passed[1].pts
             audio == [i \in 1..Len(passed) |->
                       (Rescale(passed[i].pts - first, AudioBase, SampleRate) + s.audioOffset) % Mod]
             queue == s.audioQueue \o audio
             after == [s EXCEPT !.pos = v, !.audioFirstPts = first, !.audioQueue = queue]
             origin == Origin(s, v)
             x == (Ticks(File[v].pts - origin) + s.rtpOffset) % Mod
  <2>1. s = [pos |-> s.pos, firstPts |-> s.firstPts, rtpOffset |-> s.rtpOffset, bsfAtEof |-> s.bsfAtEof,
             prefetch |-> s.prefetch, audioFirstPts |-> s.audioFirstPts, audioOffset |-> s.audioOffset,
             audioQueue |-> s.audioQueue]
    BY DEF SourceState
  <2>2. ~s.bsfAtEof /\ r = Demux(s)
    BY <1>2 DEF readPacket
  <2>3. Demux(s) = IF v > Len(File)
                   THEN [ok |-> FALSE, vp |-> None, src |-> [after EXCEPT !.bsfAtEof = TRUE]]
                   ELSE [ok |-> TRUE, vp |-> [i |-> v, ts |-> x, key |-> File[v].key],
                         src |-> [after EXCEPT !.pos = v + 1, !.firstPts = origin]]
    <3>1. [s EXCEPT !.pos = v, !.audioFirstPts = first, !.audioQueue = @ \o audio] = after
      BY DEF SourceState
    <3> HIDE DEF audio, first, queue, after
    <3> QED BY <3>1 DEF Demux, toRTPTimestamp, Origin, audio, first, passed
  <2>4. s.pos \in 1..Len(File)+1
    BY DEF SourceState
  <2>5. v \in Videos \/ v = Len(File) + 1
    BY <2>4, NextVideoFacts
  <2> HIDE DEF passed, first, audio, queue, origin, x, v
  <2>6. after.rtpOffset = s.rtpOffset
    BY <2>1
  <2>7. /\ [after EXCEPT !.pos = v + 1, !.firstPts = origin].rtpOffset = s.rtpOffset
        /\ [after EXCEPT !.pos = v + 1, !.firstPts = origin].firstPts = origin
        /\ [after EXCEPT !.pos = v + 1, !.firstPts = origin].pos = v + 1
    BY <2>1
  <2> HIDE DEF after
  <2>8. ~(v > Len(File))
    BY <1>2, <2>2, <2>3
  <2>9. v \in Videos
    BY <2>5, <2>8, FileFacts
  <2>10. /\ r.vp.key = File[v].key /\ r.vp.ts = x
         /\ r.src = [after EXCEPT !.pos = v + 1, !.firstPts = origin]
    BY <2>2, <2>3, <2>8
  <2> QED BY <1>2, <2>7, <2>9, <2>10 DEF v, x, origin
<1> QED BY <1>1, <1>2

\* Arithmetic on a clock that wraps.
LEMMA QuarterFacts ==
  Quarter \in Nat /\ 4 * Quarter <= Mod /\ Mod \div 2 \in Nat /\ Quarter <= Mod \div 2
<1> DEFINE m == Mod
<1>1. m \in Nat
  BY ModFacts
<1> HIDE DEF m
<1>2. m \div 4 \in Nat /\ 4 * (m \div 4) <= m /\ m \div 2 \in Nat /\ m \div 4 <= m \div 2
  BY <1>1
<1> QED BY <1>2 DEF m, Quarter

LEMMA Wraps ==
  ASSUME NEW x \in Int
  PROVE  /\ 0 <= x /\ x < Mod => x % Mod = x
         /\ Mod <= x /\ x < 2 * Mod => x % Mod = x - Mod
         /\ -Mod <= x /\ x < 0 => x % Mod = x + Mod
<1> DEFINE m == Mod
<1>1. m \in Nat \ {0}
  BY ModFacts
<1> HIDE DEF m
<1>2. 0 <= x /\ x < m => x % m = x
  BY <1>1
<1>3. m <= x /\ x < 2 * m => x % m = x - m
  BY <1>1
<1>4. -m <= x /\ x < 0 => x % m = x + m
  BY <1>1
<1> QED BY <1>2, <1>3, <1>4 DEF m

\* A timestamp t that comes after x is less than a quarter ahead.
Close(t, x) == t > x => t - x < Quarter

LEMMA ClockGoesOn ==
  ASSUME NEW o \in 0..Mod-1, NEW b \in Nat, NEW d \in Nat, b <= d, d < Quarter,
         NEW x, x = (o + b) % Mod, NEW t, t = (o + d) % Mod
  PROVE  Close(t, x) /\ NotBehind(t, x)
<1> DEFINE m == Mod
           q == Quarter
           h == Mod \div 2
           u == o + b
           w == o + d
<1>1. m \in Nat \ {0} /\ q \in Nat /\ 4 * q <= m /\ h \in Nat /\ q <= h /\ o \in 0..m-1 /\ d < q
  BY ModFacts, QuarterFacts
<1>2. x = u % m /\ t = w % m
  BY Zenon
<1> HIDE DEF m, q, h
<1>3. u \in Int /\ 0 <= u /\ u < 2 * m /\ w \in Int /\ 0 <= w /\ w < 2 * m /\ w - u = d - b
  BY <1>1
<1> HIDE DEF u, w
<1>4. /\ (u < m => x = u) /\ (m <= u => x = u - m)
      /\ (w < m => t = w) /\ (m <= w => t = w - m)
  BY <1>2, <1>3, Wraps, Zenon DEF m
<1>5. t - x = d - b \/ t - x = d - b - m
  <2>1. m \in Nat /\ u \in Int /\ w \in Int /\ u <= w /\ w - u = d - b
    BY <1>1, <1>3
  <2>2. CASE w < m
    <3>1. t = w /\ x = u
      BY <1>4, <2>1, <2>2
    <3>2. t - x = w - u
      BY <3>1, Zenon
    <3> QED BY <2>1, <3>2, Zenon
  <2>3. CASE m <= w /\ u < m
    BY <1>4, <2>1, <2>3
  <2>4. CASE m <= u
    <3>1. t = w - m /\ x = u - m
      BY <1>4, <2>1, <2>4
    <3>2. t - x = (w - m) - (u - m)
      BY <3>1, Zenon
    <3>3. (w - m) - (u - m) = w - u
      BY <2>1
    <3> QED BY <2>1, <3>2, <3>3, Zenon
  <2> QED BY <2>1, <2>2, <2>3, <2>4
<1>6. t > x => t - x < q
  <2>1. x \in Int /\ t \in Int
    BY <1>1, <1>3, <1>4
  <2> QED BY <1>1, <1>5, <2>1
<1>7. (t - x) % m = d - b
  <2>1. t - x \in Int
    BY <1>1, <1>5
  <2> DEFINE y == t - x
  <2>2. y = d - b => 0 <= y /\ y < m
    BY <1>1
  <2>3. y = d - b - m => -m <= y /\ y < 0 /\ y + m = d - b
    BY <1>1
  <2> HIDE DEF y
  <2>4. y \in Int /\ (y = d - b \/ y = d - b - m)
    BY <1>5, <2>1 DEF y
  <2>5. y % m = d - b
    BY <2>2, <2>3, <2>4, Wraps DEF m
  <2> QED BY <2>5 DEF y
<1>8. (t - x) % m < h
  BY <1>1, <1>7
<1> QED BY <1>6, <1>8 DEF Close, NotBehind, m, q, h

LEMMA ClockStaysLow ==
  ASSUME NEW o \in 0..Mod-1, NEW d \in Nat, o + d < Quarter, NEW t, t = (o + d) % Mod, NEW x \in 0..Mod-1
  PROVE  Close(t, x) /\ (x <= o => NotBehind(t, x))
<1> DEFINE m == Mod
           q == Quarter
           h == Mod \div 2
<1>1. m \in Nat \ {0} /\ q \in Nat /\ 4 * q <= m /\ h \in Nat /\ q <= h /\ o \in 0..m-1 /\ o + d < q /\ x \in 0..m-1
  BY ModFacts, QuarterFacts
<1>2. t = o + d
  <2>1. o + d \in Int /\ 0 <= o + d /\ o + d < m
    <3> HIDE DEF m, q, h
    <3> QED BY <1>1
  <2> QED BY <2>1, Wraps
<1>3. ASSUME x <= o PROVE (t - x) % m = t - x
  <2> DEFINE y == t - x
  <2>1. y \in Int /\ 0 <= y /\ y < m
    <3> HIDE DEF m, q, h
    <3> QED BY <1>1, <1>2, <1>3
  <2> HIDE DEF y
  <2>2. y % m = y
    BY <2>1, Wraps
  <2> QED BY <2>2 DEF y
<1> HIDE DEF m, q, h
<1>4. t > x => t - x < q
  BY <1>1, <1>2
<1>5. x <= o => (t - x) % m < h
  <2> SUFFICES ASSUME x <= o PROVE t - x < h
    BY <1>3
  <2> QED BY <1>1, <1>2
<1> QED BY <1>4, <1>5 DEF Close, NotBehind, m, q, h

\* Timestamps of a source are counted from a frame it has read: later ones are later.
Ordered(s) == s.firstPts # None => \A v \in Videos : v >= s.pos => s.firstPts <= File[v].pts

\* Its clock has not run ahead of the file's, or it has passed x.
Plain(s) ==
  IF s.firstPts = None THEN \A v \in Videos : v >= s.pos => s.rtpOffset <= Ticks(File[v].pts)
  ELSE s.rtpOffset <= Ticks(s.firstPts)
Passed(s, x) ==
  \E b \in Nat : /\ x = (s.rtpOffset + b) % Mod
                 /\ IF s.firstPts = None THEN b = 0
                    ELSE \A v \in Videos : v >= s.pos => b <= Ticks(File[v].pts - s.firstPts)
Near(s, x) == Plain(s) \/ Passed(s, x)

\* Every timestamp to come is at or after x.
Ahead(s, x) == x <= s.rtpOffset /\ (s.rtpOffset = x \/ Plain(s))

\* What matters of a source for this.
SameClock(s, t) == t.rtpOffset = s.rtpOffset /\ t.firstPts = s.firstPts /\ t.pos = s.pos

LEMMA SameTimes ==
  ASSUME NEW s, NEW t, SameClock(s, t)
  PROVE  /\ Ordered(s) => Ordered(t)
         /\ Plain(s) => Plain(t)
         /\ \A x : (Near(s, x) => Near(t, x)) /\ (Ahead(s, x) => Ahead(t, x))
BY Zenon DEF SameClock, Ordered, Plain, Passed, Near, Ahead

\* One more frame read from the file.
LEMMA ReadTimes ==
  ASSUME InOrder, Short, NEW s \in SourceState, s.prefetch = None, Ordered(s),
         NEW r, r = readPacket(s), r.ok
  PROVE  /\ Ordered(r.src) /\ (Plain(s) => Plain(r.src)) /\ Near(r.src, r.vp.ts)
         /\ \A x \in 0..Mod-1 : /\ Near(s, x) => Near(r.src, x) /\ Close(r.vp.ts, x)
                                /\ Ahead(s, x) => Ahead(r.src, x) /\ NotBehind(r.vp.ts, x)
         /\ s.firstPts = None => r.vp.ts = s.rtpOffset
<1> DEFINE v == NextVideo(s.pos)
           f == Origin(s, v)
           p == File[v].pts
           o == s.rtpOffset
           d == Ticks(p - f)
           t == r.vp.ts
           n == r.src
<1>1. v \in Videos /\ t = (d + o) % Mod /\ n.rtpOffset = o /\ n.firstPts = f /\ n.pos = v + 1
  BY ReadClock
<1>2. s.pos \in 1..Len(File)+1 /\ s.firstPts \in Nat \cup {None} /\ o \in 0..Mod-1
  BY DEF SourceState
<1>3. v \in s.pos..Len(File)+1 /\ v >= s.pos /\ v \in Nat
  <2>1. v \in s.pos..Len(File)+1 /\ Len(File) \in Nat
    BY <1>2, NextVideoFacts, FileFacts
  <2> HIDE DEF v
  <2> QED BY <1>2, <2>1
<1>4. p \in Nat /\ Ticks(p) + 1 < Quarter /\ \A u \in Videos : File[u].pts \in Nat
  BY <1>1, FileFacts DEF Short
<1>5. \A u \in Videos : u >= v + 1 => u >= s.pos /\ p <= File[u].pts
  <2> TAKE u \in Videos
  <2> HAVE u >= v + 1
  <2>1. u \in Nat /\ s.pos \in Nat
    BY <1>2, FileFacts
  <2>2. v <= u /\ u >= s.pos
    <3> HIDE DEF v
    <3> QED BY <1>3, <2>1
  <2> QED BY <1>1, <2>2 DEF InOrder
<1>6. f \in Nat /\ f <= p /\ f # None /\ (s.firstPts = None => f = p) /\ (s.firstPts # None => f = s.firstPts)
  <2>1. CASE s.firstPts = None
    BY <1>4, <2>1, NoneFacts DEF Origin
  <2>2. CASE s.firstPts # None
    BY <1>1, <1>2, <1>3, <2>2 DEF Origin, Ordered
  <2> QED BY <2>1, <2>2
<1> HIDE DEF v, f, p, o, t, n
<1>7. d \in Nat /\ d < Quarter /\ Ticks(f) \in Nat /\ Ticks(f) + d < Quarter /\ (f = p => d = 0)
  <2> DEFINE q == Quarter
             g == p - f
             w == Ticks(p)
             y == Ticks(f)
             z == Ticks(g)
  <2>1. q \in Nat /\ w + 1 < q
    BY <1>4, QuarterFacts
  <2>2. g \in Nat /\ f + g = p /\ (f = p => g = 0)
    BY <1>4, <1>6
  <2> HIDE DEF g
  <2>3. w \in Nat /\ y \in Nat /\ z \in Nat /\ (g = 0 => z = 0)
    BY <1>4, <1>6, <2>2, TicksFacts
  <2>4. y + z <= Ticks(f + g) + 1
    BY <1>6, <2>2, TicksFacts
  <2>5. y + z <= w + 1
    BY <2>2, <2>4, Zenon
  <2> HIDE DEF q, w, y, z
  <2>6. z < q /\ y + z < q
    BY <2>1, <2>3, <2>5
  <2> QED BY <2>2, <2>3, <2>6, Zenon DEF q, y, z, g, d
<1>8. ASSUME NEW u \in Videos, u >= v + 1 PROVE d <= Ticks(File[u].pts - f)
  <2> DEFINE g == p - f
             e == File[u].pts - f
  <2>1. g \in Nat /\ e \in Nat /\ g <= e
    BY <1>4, <1>5, <1>6, <1>8
  <2> HIDE DEF g, e
  <2>2. Ticks(g) <= Ticks(e)
    BY <2>1, TicksFacts
  <2> QED BY <2>2 DEF g, e, d
<1> HIDE DEF d
<1>9. t = (o + d) % Mod /\ o \in Int
  <2>1. o \in Int
    BY <1>2, ModFacts, Zenon
  <2>2. d + o = o + d
    BY <1>7, <2>1
  <2> QED BY <1>1, <2>1, <2>2, Zenon
<1>10. Ordered(n)
  <2>1. \A u \in Videos : u >= v + 1 => f <= File[u].pts
    BY <1>4, <1>5, <1>6
  <2> QED BY <1>1, <2>1, Zenon DEF Ordered
<1>11. Near(n, t)
  <2>1. Passed(n, t)
    BY <1>1, <1>6, <1>7, <1>8, <1>9, Zenon DEF Passed
  <2> QED BY <2>1, Zenon DEF Near
<1>12. ASSUME Plain(s) PROVE o <= Ticks(f) /\ Plain(n) /\ o + d < Quarter
  <2>1. o <= Ticks(f)
    <3>1. CASE s.firstPts = None
      <4>1. o <= Ticks(p)
        BY <1>1, <1>3, <1>12, <3>1, Zenon DEF Plain, o, p
      <4> QED BY <1>6, <3>1, <4>1, Zenon
    <3>2. CASE s.firstPts # None
      BY <1>6, <1>12, <3>2, Zenon DEF Plain, o
    <3> QED BY <3>1, <3>2
  <2>2. Plain(n)
    BY <1>1, <1>6, <2>1, Zenon DEF Plain
  <2>3. o + d < Quarter
    <3> DEFINE q == Quarter
               y == Ticks(f)
    <3>1. q \in Nat /\ y \in Nat /\ y + d < q /\ o <= y
      BY <1>7, <2>1, QuarterFacts
    <3> HIDE DEF q, y
    <3>2. o + d < q
      BY <1>7, <1>9, <3>1
    <3> QED BY <3>2 DEF q
  <2> QED BY <2>1, <2>2, <2>3
<1>13. ASSUME NEW x \in 0..Mod-1, Near(s, x) PROVE Near(n, x) /\ Close(t, x)
  <2>1. CASE Plain(s)
    <3>1. Close(t, x)
      BY <1>2, <1>7, <1>9, <1>12, <2>1, ClockStaysLow, Zenon
    <3> QED BY <1>12, <2>1, <3>1, Zenon DEF Near
  <2>2. CASE Passed(s, x)
    <3>1. PICK b \in Nat : /\ x = (o + b) % Mod
                           /\ IF s.firstPts = None THEN b = 0
                              ELSE \A u \in Videos : u >= s.pos => b <= Ticks(File[u].pts - s.firstPts)
      BY <2>2, Zenon DEF Passed, o
    <3>2. b <= d
      <4>1. CASE s.firstPts = None
        BY <1>7, <3>1, <4>1
      <4>2. CASE s.firstPts # None
        <5>1. b <= Ticks(File[v].pts - s.firstPts)
          BY <1>1, <1>3, <3>1, <4>2, Zenon
        <5> QED BY <1>6, <4>2, <5>1, Zenon DEF p, d
      <4> QED BY <4>1, <4>2
    <3>3. Close(t, x)
      BY <1>2, <1>7, <1>9, <3>1, <3>2, ClockGoesOn, Zenon
    <3>4. ASSUME NEW u \in Videos, u >= v + 1 PROVE b <= Ticks(File[u].pts - f)
      <4> DEFINE e == File[u].pts - f
                 z == Ticks(e)
      <4>1. e \in Nat /\ d <= z
        BY <1>4, <1>5, <1>6, <1>8, <3>4
      <4> HIDE DEF e
      <4>2. z \in Nat
        BY <4>1, TicksFacts
      <4> HIDE DEF z
      <4>3. b <= z
        BY <1>7, <3>2, <4>1, <4>2
      <4> QED BY <4>3 DEF z, e
    <3>5. Passed(n, x)
      BY <1>1, <1>6, <3>1, <3>4, Zenon DEF Passed
    <3> QED BY <3>3, <3>5, Zenon DEF Near
  <2> QED BY <1>13, <2>1, <2>2, Zenon DEF Near
<1>14. ASSUME NEW x \in 0..Mod-1, Ahead(s, x) PROVE Ahead(n, x) /\ NotBehind(t, x)
  <2>1. x <= o /\ (o = x \/ Plain(s))
    BY <1>14, Zenon DEF Ahead, o
  <2>2. Ahead(n, x)
    BY <1>1, <1>12, <2>1, Zenon DEF Ahead
  <2>3. NotBehind(t, x)
    <3>1. CASE o = x
      <4>1. 0 \in Nat /\ 0 <= d
        BY <1>7
      <4>2. x = (o + 0) % Mod
        <5>1. o + 0 = x /\ o + 0 \in Int /\ 0 <= o + 0 /\ o + 0 < Mod
          BY <1>2, <1>9, <3>1, ModFacts
        <5> QED BY <5>1, Wraps
      <4> QED BY <1>2, <1>7, <1>9, <4>1, <4>2, ClockGoesOn, Zenon
    <3>2. CASE Plain(s)
      BY <1>2, <1>7, <1>9, <1>12, <2>1, <3>2, ClockStaysLow, Zenon
    <3> QED BY <2>1, <3>1, <3>2
  <2> QED BY <2>2, <2>3
<1>15. ASSUME s.firstPts = None PROVE t = o
  <2>1. d = 0
    BY <1>6, <1>7, <1>15, Zenon
  <2>2. o + d = o /\ o \in Int /\ 0 <= o /\ o < Mod
    BY <1>2, <1>9, <2>1, ModFacts
  <2>3. t = o % Mod
    BY <1>9, <2>2, Zenon
  <2> QED BY <2>2, <2>3, Wraps
<1> QED BY <1>10, <1>11, <1>12, <1>13, <1>14, <1>15, Zenon DEF t, n, o

\* A source at the start of a key frame, its timestamps not yet counted from anywhere.
Fresh(s) == s.prefetch = None /\ s.firstPts = None /\ ~s.bsfAtEof /\ s.pos \in Keys

\* What a session knows of its timestamps: the last one sent and that of a held frame
\* are behind what the source will give, a duration is one between two frames of the
\* file, and a prefetched frame waits only where nothing was sent.
ClockInv ==
  /\ source # None => /\ Ordered(source)
                      /\ source.prefetch # None => lastRtp = 0 /\ firstFrame /\ Plain(source)
                      /\ lastRtp # 0 => Near(source, lastRtp)
                      /\ pendingV # None /\ ~firstFrame => Near(source, pendingV.ts)
  /\ pendingV # None /\ ~firstFrame /\ lastRtp # 0 => Close(pendingV.ts, lastRtp)
  /\ lastDur # None => lastDur < Quarter
  /\ lastSent # None /\ (~firstFrame \/ lastRtp # 0) => lastSent.ts = lastRtp

\* After a loop the first frame is still to come, and so it is after a Scale PLAY.
LoopInv ==
  firstFrame /\ lastSent # None /\ pace # None =>
    source # None /\ Fresh(source) /\ nptEnd = None /\ NotBehind(source.rtpOffset, lastSent.ts)
ScaleInv ==
  scaleFloor # None /\ source # None =>
    /\ firstFrame /\ source.prefetch = None
    /\ IF lastRtp # 0 THEN scaleFloor = lastRtp /\ Ahead(source, scaleFloor)
       ELSE Fresh(source) /\ nptEnd = None /\ NotBehind(source.rtpOffset, scaleFloor)

\* From the start of a key frame that frame is read, at the source's offset.
LEMMA FreshRead ==
  ASSUME InOrder, Short, NEW s \in SourceState, Fresh(s), NEW r, r = readPacket(s)
  PROVE  r.ok /\ r.vp.key /\ r.vp.ts = s.rtpOffset
<1>1. s.prefetch = None /\ s.firstPts = None /\ ~s.bsfAtEof /\ s.pos \in Keys
  BY DEF Fresh
<1>2. NextVideo(s.pos) = s.pos /\ s.pos \in Videos
  BY <1>1, KeyContinues, FileFacts
<1>3. r.ok
  BY <1>1, <1>2, ReadFacts
<1>4. r.vp.key = File[s.pos].key
  BY <1>1, <1>2, <1>3, ReadClock
<1>5. File[s.pos].key
  BY <1>1 DEF Keys
<1>6. r.vp.ts = s.rtpOffset
  BY <1>1, <1>3, ReadTimes DEF Ordered
<1> QED BY <1>3, <1>4, <1>5, <1>6

\* Where a seek of the session leaves the clock.
LEMMA SeekClock ==
  ASSUME StartsAtZero, InOrder, Short, Typed, source # None, NEW t \in Nat, NEW adjust \in BOOLEAN,
         NEW n, n = SeekAndReset(t, adjust)
  PROVE  /\ n \in SourceState /\ n.prefetch = source.prefetch /\ n.firstPts = None /\ ~n.bsfAtEof
         /\ n.pos \in Keys /\ Ordered(n)
         /\ ~adjust \/ lastRtp = 0 => Plain(n)
         /\ adjust /\ lastRtp # 0 => Ahead(n, lastRtp) /\ Near(n, lastRtp)
<1> DEFINE s == seekToSeconds(source, t)
           k == Landing(Target(t))
           delta == lastRtp - s.rtpOffset
<1>1. source \in SourceState /\ lastRtp \in 0..Mod-1
  BY DEF Typed, TypeOK
<1>2. n \in SourceState /\ n.prefetch = source.prefetch /\ ~n.bsfAtEof /\ n.pos \in Keys
  BY SeekAndResetFacts, SeekLands
<1>3. /\ s \in SourceState /\ s.firstPts = None /\ s.pos = k /\ k \in Keys
      /\ s.rtpOffset = Ticks(File[k].pts) % Mod
  BY <1>1, SeekToFacts, SeekLands
<1> HIDE DEF s, k
<1>4. s.rtpOffset = Ticks(File[k].pts) /\ s.rtpOffset \in 0..Mod-1 /\ s.rtpOffset \in Nat
  <2> DEFINE p == Ticks(File[k].pts)
             m == Mod
             q == Quarter
  <2>1. p \in Nat /\ p + 1 < q /\ q \in Nat /\ 4 * q <= m /\ m \in Nat
    BY <1>3, FileFacts, TicksFacts, QuarterFacts, ModFacts DEF Short
  <2>2. s.rtpOffset = p % m
    BY <1>3
  <2> HIDE DEF p, m, q
  <2>3. p \in Int /\ 0 <= p /\ p < m
    BY <2>1
  <2>4. p % Mod = p
    BY <2>3, Wraps DEF m
  <2>5. s.rtpOffset = p
    BY <2>2, <2>4, Zenon DEF m
  <2>6. s.rtpOffset \in 0..Mod-1
    BY <1>3 DEF SourceState
  <2> QED BY <2>1, <2>5, <2>6, Zenon DEF p
<1>5. Plain(s)
  <2>1. k \in Videos
    BY <1>3, FileFacts
  <2>2. \A v \in Videos : v >= k => k <= v
    BY <2>1, FileFacts
  <2>3. \A v \in Videos : v >= k => Ticks(File[k].pts) <= Ticks(File[v].pts)
    BY <2>1, <2>2, FileFacts, TicksFacts DEF InOrder
  <2> QED BY <1>3, <1>4, <2>3, Zenon DEF Plain
<1>6. n = IF adjust /\ lastRtp # 0 /\ lastRtp > s.rtpOffset THEN adjustRTPOffset(s, delta) ELSE s
  BY Zenon DEF SeekAndReset, s
<1>7. CASE adjust /\ lastRtp # 0 /\ lastRtp > s.rtpOffset
  <2>1. n.firstPts = s.firstPts /\ n.rtpOffset = (s.rtpOffset + delta) % Mod
    <3>1. n = adjustRTPOffset(s, delta)
      BY <1>6, <1>7
    <3> QED BY <1>3, <3>1 DEF adjustRTPOffset, SourceState
  <2>2. s.rtpOffset + delta = lastRtp /\ lastRtp \in Int /\ 0 <= lastRtp /\ lastRtp < Mod
    BY <1>1, <1>4, ModFacts
  <2>3. n.rtpOffset = lastRtp % Mod
    BY <2>1, <2>2, Zenon
  <2>4. n.rtpOffset = lastRtp
    BY <2>2, <2>3, Wraps
  <2>5. lastRtp <= n.rtpOffset
    BY <2>2, <2>4
  <2>6. Ahead(n, lastRtp)
    BY <2>4, <2>5, Zenon DEF Ahead
  <2>7. Near(n, lastRtp)
    <3>1. n.rtpOffset + 0 = lastRtp /\ 0 \in Nat
      BY <2>2, <2>4
    <3>2. lastRtp = (n.rtpOffset + 0) % Mod
      BY <2>3, <2>4, <3>1, Zenon
    <3>3. n.firstPts = None
      BY <1>3, <2>1, Zenon
    <3> QED BY <3>1, <3>2, <3>3, Zenon DEF Near, Passed
  <2> QED BY <1>2, <1>3, <1>7, <2>1, <2>6, <2>7, Zenon DEF Ordered
<1>8. CASE ~(adjust /\ lastRtp # 0 /\ lastRtp > s.rtpOffset)
  <2>1. n = s
    BY <1>6, <1>8, Zenon
  <2>2. adjust /\ lastRtp # 0 => lastRtp <= s.rtpOffset
    <3>1. lastRtp \in Int /\ s.rtpOffset \in Int
      BY <1>1, <1>4, ModFacts
    <3> QED BY <1>8, <3>1
  <2> QED BY <1>2, <1>3, <1>5, <2>1, <2>2, Zenon DEF Ordered, Ahead, Near
<1> QED BY <1>7, <1>8, Zenon

\* Reading on, from the file or what was prefetched.
LEMMA ReadOn ==
  ASSUME InOrder, Short, Typed, ClockInv, source # None, NEW r, r = readPacket(source), r.ok
  PROVE  /\ Ordered(r.src) /\ r.src.prefetch = None /\ Near(r.src, r.vp.ts)
         /\ lastRtp # 0 => Near(r.src, lastRtp) /\ Close(r.vp.ts, lastRtp)
<1>1. source \in SourceState /\ source.prefetch \in Shown \cup {None} /\ lastRtp \in 0..Mod-1
  BY DEF Typed, TypeOK
<1>2. r.src.prefetch = None
  BY <1>1, ReadFacts
<1>3. Ordered(source) /\ (lastRtp # 0 => Near(source, lastRtp))
  BY DEF ClockInv
<1>4. CASE source.prefetch # None
  <2>1. lastRtp = 0 /\ Plain(source)
    BY <1>4 DEF ClockInv
  <2>2. SameClock(source, r.src)
    BY <1>1, <1>4, ReadClock DEF SameClock
  <2>3. Ordered(r.src) /\ Plain(r.src)
    BY <1>3, <2>1, <2>2, SameTimes
  <2> QED BY <1>2, <2>1, <2>3, Zenon DEF Near
<1>5. CASE source.prefetch = None
  BY <1>1, <1>2, <1>3, <1>5, ReadTimes, Zenon
<1> QED BY <1>4, <1>5

\* The frame that is sent or held.
LEMMA FrameClock ==
  ASSUME InOrder, Short, Typed, ClockInv, inTick, Playable, HasFrame
  PROVE  /\ Ordered(Source) /\ Source.prefetch = None /\ Near(Source, Frame.ts)
         /\ lastRtp # 0 => Near(Source, lastRtp) /\ Close(Frame.ts, lastRtp)
<1>1. source # None
  BY DEF Playable
<1>2. CASE Reading
  <2>1. Read.ok /\ Frame = Read.vp /\ Source = Read.src
    BY <1>2 DEF HasFrame, Frame, Source
  <2> QED BY <1>1, <2>1, ReadOn DEF Read
<1>3. CASE ~Reading
  <2>1. ~firstFrame /\ pendingV # None /\ Frame = pendingV /\ Source = source
    BY <1>3 DEF Reading, Held, Frame, Source
  <2> QED BY <1>1, <2>1, Zenon DEF ClockInv
<1> QED BY <1>2, <1>3

\* A loop's offset is that of the last frame or less than a quarter later.
LEMMA LoopClock ==
  ASSUME Short, Typed, ClockInv
  PROVE  LoopStart \in 0..Mod-1 /\ NotBehind(LoopStart, lastRtp)
<1> DEFINE d == IF lastDur = None THEN 0 ELSE lastDur
<1>1. lastRtp \in 0..Mod-1 /\ lastRtp \in Int /\ lastDur \in 0..Mod-1 \cup {None}
  BY ModFacts DEF Typed, TypeOK
<1>2. d \in Nat /\ d < Quarter
  <2>1. 0 < Quarter
    <3> DEFINE q == Quarter
               p == Ticks(File[1].pts)
    <3>1. p \in Nat /\ p + 1 < q /\ q \in Nat
      BY FileFacts, TicksFacts, QuarterFacts DEF Short
    <3> HIDE DEF q, p
    <3>2. 0 < q
      BY <3>1
    <3> QED BY <3>2 DEF q
  <2>2. CASE lastDur = None
    BY <2>1, <2>2
  <2>3. CASE lastDur # None
    <3>1. lastDur \in Nat
      BY <1>1, <2>3, ModFacts, Zenon
    <3>2. lastDur < Quarter
      BY <2>3 DEF ClockInv
    <3> QED BY <2>3, <3>1, <3>2, Zenon
  <2> QED BY <2>2, <2>3
<1>3. LoopStart = (lastRtp + d) % Mod
  BY DEF LoopStart
<1> HIDE DEF d
<1>4. lastRtp + d \in Int
  BY <1>1, <1>2
<1>5. LoopStart \in 0..Mod-1
  BY <1>3, <1>4, ModFacts
<1>6. lastRtp = (lastRtp + 0) % Mod
  <2>1. lastRtp + 0 = lastRtp /\ 0 <= lastRtp /\ lastRtp < Mod
    BY <1>1, ModFacts
  <2>2. lastRtp % Mod = lastRtp
    BY <1>1, <2>1, Wraps
  <2> QED BY <2>1, <2>2, Zenon
<1>7. 0 \in Nat /\ 0 <= d
  BY <1>2
<1>8. NotBehind(LoopStart, lastRtp)
  BY <1>1, <1>2, <1>3, <1>6, <1>7, ClockGoesOn, Zenon
<1> QED BY <1>5, <1>8

\* A frame is held only once the first one is out.
LEMMA HoldLater ==
  ASSUME Typed, TickHold
  PROVE  inTick /\ Playable /\ HasFrame /\ ~firstFrame
<1>1. inTick /\ Playable /\ HasFrame
  BY DEF TickHold, Anchor, EndTick
<1>2. firstFrame => Elapsed = 0 /\ Wall = now /\ now \in Int
  BY <1>1, FrameFacts, SessionAssumption DEF Wall
<1> QED BY <1>1, <1>2 DEF TickHold

\* Every step keeps the three.
LEMMA ClockStep ==
  ASSUME StartsAtZero, InOrder, Short, Typed, ClockInv, LoopInv, ScaleInv, [Next]_vars
  PROVE  ClockInv' /\ LoopInv' /\ ScaleInv'
<1>1. CASE UNCHANGED vars \/ Advance \/ BeginTick \/ handlePause \/ handleTeardown
  <2>1. UNCHANGED <<source, lastRtp, firstFrame, pendingV, lastDur, lastSent, pace, nptEnd, scaleFloor>>
    BY <1>1 DEF vars, pacing, history, Advance, BeginTick, handlePause, handleTeardown
  <2> QED BY <2>1, Zenon DEF ClockInv, LoopInv, ScaleInv, Ordered, Plain, Passed, Near, Ahead, Close, Fresh,
                             NotBehind
<1>2. ASSUME NEW found \in BOOLEAN, handleDescribe(found) PROVE ClockInv' /\ LoopInv' /\ ScaleInv'
  <2>1. /\ source' = (IF found THEN Opened ELSE None) /\ pace' = None /\ scaleFloor' = None
        /\ UNCHANGED <<lastRtp, firstFrame, pendingV, lastDur, lastSent, nptEnd>>
    BY <1>2 DEF handleDescribe, pacing
  <2>2. source' # None => source'.prefetch = None /\ Ordered(source') /\ Plain(source')
    <3>1. Opened.prefetch = None /\ Opened.firstPts = None /\ Opened.rtpOffset = 0
      BY DEF Opened
    <3>2. ASSUME NEW v \in Videos PROVE 0 <= Ticks(File[v].pts)
      <4>1. Ticks(File[v].pts) \in Nat
        BY FileFacts, TicksFacts
      <4> QED BY <4>1
    <3> QED BY <2>1, <3>1, <3>2, Zenon DEF Ordered, Plain
  <2> QED BY <2>1, <2>2, Zenon DEF ClockInv, LoopInv, ScaleInv, Near, Close
<1>3. ASSUME NEW req \in Setups, handleSetup(req) PROVE ClockInv' /\ LoopInv' /\ ScaleInv'
  <2>1. UNCHANGED <<source, lastRtp, firstFrame, pendingV, lastDur, lastSent, pace, nptEnd, scaleFloor>>
    BY <1>3 DEF pacing, history, handleSetup
  <2> QED BY <2>1, Zenon DEF ClockInv, LoopInv, ScaleInv, Ordered, Plain, Passed, Near, Ahead, Close, Fresh,
                             NotBehind
<1>4. ASSUME NEW req \in Plays, Resume(req) PROVE ClockInv' /\ LoopInv' /\ ScaleInv'
  <2>1. /\ UNCHANGED <<source, lastRtp, firstFrame, pendingV, lastDur, lastSent, nptEnd, scaleFloor>>
        /\ pace = None => pace' = None
    BY <1>4 DEF Resume
  <2> QED BY <2>1, Zenon DEF ClockInv, LoopInv, ScaleInv, Ordered, Plain, Passed, Near, Ahead, Close, Fresh,
                             NotBehind
<1>5. ASSUME NEW req \in Plays, ScalePlay(req) PROVE ClockInv' /\ LoopInv' /\ ScaleInv'
  <2>1. UNCHANGED <<lastRtp, lastDur, nptEnd, pace>>
    BY <1>5 DEF ScalePlay
  <2>2. CASE source = None
    <3>1. source' = None /\ UNCHANGED <<firstFrame, pendingV, lastSent>>
      BY <1>5, <2>2 DEF ScalePlay, ResetPending
    <3> QED BY <2>1, <2>2, <3>1, Zenon DEF ClockInv, LoopInv, ScaleInv, Close
  <2>3. CASE source # None
    <3>1. /\ source' = SeekAndReset(keyNpt, TRUE) /\ firstFrame' = TRUE /\ pendingV' = None /\ lastSent' = None
          /\ scaleFloor' = (IF lastRtp = 0 THEN None ELSE IF lastSent # None THEN lastSent.ts ELSE scaleFloor)
      BY <1>5, <2>3 DEF ScalePlay, ResetPending
    <3>2. keyNpt \in Nat
      BY DEF Typed
    <3>3. /\ source'.prefetch = source.prefetch /\ Ordered(source') /\ (lastRtp = 0 => Plain(source'))
          /\ lastRtp # 0 => Ahead(source', lastRtp) /\ Near(source', lastRtp)
      BY <2>3, <3>1, <3>2, SeekClock
    <3>4. lastRtp # 0 => source.prefetch = None
      BY <2>3, Zenon DEF ClockInv
    <3>5. ClockInv'
      BY <2>1, <3>1, <3>3, <3>4, Zenon DEF ClockInv
    <3>6. LoopInv'
      BY <3>1, Zenon DEF LoopInv
    <3>7. scaleFloor' # None => lastRtp # 0 /\ scaleFloor' = lastRtp
      BY <2>3, <3>1, Zenon DEF ClockInv, ScaleInv
    <3>8. ScaleInv'
      BY <2>1, <3>1, <3>3, <3>4, <3>7, Zenon DEF ScaleInv
    <3> QED BY <3>5, <3>6, <3>8
  <2> QED BY <2>2, <2>3
<1>6. ASSUME NEW req \in Plays, FreshPlay(req) PROVE ClockInv' /\ LoopInv' /\ ScaleInv'
  <2>1. lastRtp' = 0 /\ lastDur' = None /\ lastSent' = None /\ scaleFloor' = None
    BY <1>6 DEF FreshPlay
  <2>2. CASE source = None
    <3>1. source' = None
      BY <1>6, <2>2 DEF FreshPlay
    <3> QED BY <2>1, <3>1, Zenon DEF ClockInv, LoopInv, ScaleInv
  <2>3. CASE source # None
    <3> DEFINE t == IF req.start = None THEN 0 ELSE req.start
               s == SeekAndReset(t, FALSE)
               r == readPacket(s)
    <3>1. t \in Nat
      BY SessionAssumption DEF PlayRequest
    <3>2. source' = PeekNextVideo(s).src /\ firstFrame' = TRUE /\ pendingV' = None
      BY <1>6, <2>3 DEF FreshPlay, ResetPending
    <3> HIDE DEF t
    <3>3. s \in SourceState /\ s.pos \in Keys /\ ~s.bsfAtEof /\ Ordered(s) /\ Plain(s)
      BY <2>3, <3>1, SeekClock
    <3> HIDE DEF s
    <3>4. Ordered(source') /\ Plain(source')
      <4>1. CASE s.prefetch # None
        <5>1. source' = s
          BY <3>2, <4>1 DEF PeekNextVideo
        <5> QED BY <3>3, <5>1
      <4>2. CASE s.prefetch = None
        <5>1. NextVideo(s.pos) \in Videos
          BY <3>3, KeyContinues, FileFacts
        <5>2. r.ok /\ r.src \in SourceState
          BY <3>3, <4>2, <5>1, ReadFacts
        <5>3. source' = [r.src EXCEPT !.prefetch = r.vp]
          BY <3>2, <4>2, <5>2 DEF PeekNextVideo
        <5>4. Ordered(r.src) /\ Plain(r.src)
          BY <3>3, <4>2, <5>2, ReadTimes
        <5> HIDE DEF r
        <5>5. SameClock(r.src, source')
          BY <5>2, <5>3 DEF SameClock, SourceState
        <5> QED BY <5>4, <5>5, SameTimes
      <4> QED BY <4>1, <4>2
    <3> QED BY <2>1, <3>2, <3>4, Zenon DEF ClockInv, LoopInv, ScaleInv
  <2> QED BY <2>2, <2>3
<1>7. CASE TickIdle
  <2>1. /\ UNCHANGED <<source, lastRtp, firstFrame, lastDur, lastSent, nptEnd, scaleFloor, pace>>
        /\ pendingV' = pendingV \/ pendingV' = None
    BY <1>7 DEF TickIdle, history
  <2> QED BY <2>1, Zenon DEF ClockInv, LoopInv, ScaleInv, Ordered, Plain, Passed, Near, Ahead, Close, Fresh,
                             NotBehind
<1>8. CASE TickDropHeld
  <2>1. /\ UNCHANGED <<source, lastRtp, firstFrame, lastDur, lastSent, nptEnd, scaleFloor, pace>>
        /\ pendingV' = None
    BY <1>8 DEF TickDropHeld, history
  <2> QED BY <2>1, Zenon DEF ClockInv, LoopInv, ScaleInv, Ordered, Plain, Passed, Near, Ahead, Close, Fresh,
                             NotBehind
<1>9. ASSUME EndTick, Reading
      PROVE  /\ source \in SourceState /\ source # None /\ source.prefetch \in Shown \cup {None}
             /\ Read.src \in SourceState /\ Read.src.prefetch = None
  <2>1. source \in SourceState /\ source # None /\ source.prefetch \in Shown \cup {None}
    BY <1>9 DEF EndTick, Playable, Typed, TypeOK
  <2> QED BY <2>1, ReadFacts DEF Read
<1>10. ASSUME EndTick, Reading, Fresh(source) PROVE Read.ok /\ (nptEnd = None => ~Gated(Read.vp) /\ ~AtEnd(Read.vp))
  <2>1. Read.ok /\ Read.vp.key
    BY <1>9, <1>10, FreshRead DEF Read
  <2> QED BY <2>1 DEF Gated, AtEnd
<1>11. CASE TickEof
  <2>1. /\ EndTick /\ Reading /\ ~Read.ok /\ source' = seek(Read.src, LoopStart) /\ firstFrame' = TRUE
        /\ lastRtp' = 0 /\ nptEnd' = None /\ pendingV' = None
        /\ UNCHANGED <<lastDur, lastSent, scaleFloor, pace>>
    BY <1>11 DEF TickEof
  <2>2. LoopStart \in 0..Mod-1 /\ NotBehind(LoopStart, lastRtp)
    BY LoopClock
  <2>3. source' \in SourceState /\ source' # None /\ Fresh(source') /\ source'.rtpOffset = LoopStart
    BY <1>9, <2>1, <2>2, SeekFacts, SeekLands, NoneFacts DEF Fresh
  <2>4. ClockInv'
    BY <2>1, <2>3, Zenon DEF ClockInv, Fresh, Ordered
  <2>5. ASSUME lastSent # None, pace # None PROVE lastSent.ts = lastRtp
    <3>1. ~firstFrame
      BY <1>10, <2>1, <2>5, Zenon DEF LoopInv
    <3> QED BY <2>5, <3>1, Zenon DEF ClockInv
  <2>6. LoopInv'
    BY <2>1, <2>2, <2>3, <2>5, Zenon DEF LoopInv
  <2>7. scaleFloor # None => scaleFloor = lastRtp
    BY <1>9, <1>10, <2>1, Zenon DEF ScaleInv
  <2>8. ScaleInv'
    BY <2>1, <2>2, <2>3, <2>7, Zenon DEF ScaleInv, Fresh
  <2> QED BY <2>4, <2>6, <2>8
<1>12. CASE TickSkip \/ TickRangeEnd
  <2>1. /\ EndTick /\ Reading /\ Read.ok /\ (Gated(Read.vp) \/ AtEnd(Read.vp)) /\ source' = Read.src
        /\ pendingV' = None
        /\ UNCHANGED <<lastRtp, firstFrame, lastDur, lastSent, nptEnd, scaleFloor, pace>>
    BY <1>12 DEF TickSkip, TickRangeEnd, history
  <2>2. /\ Ordered(source') /\ source'.prefetch = None
        /\ lastRtp # 0 => Near(source', lastRtp)
    BY <1>9, <2>1, ReadOn DEF Read
  <2>3. ClockInv'
    BY <2>1, <2>2, Zenon DEF ClockInv
  <2>4. ~(Fresh(source) /\ nptEnd = None)
    BY <1>10, <2>1, Zenon
  <2>5. LoopInv'
    BY <2>1, <2>4, Zenon DEF LoopInv
  <2>6. ASSUME scaleFloor # None PROVE Ahead(source', scaleFloor) /\ lastRtp # 0 /\ scaleFloor = lastRtp /\ firstFrame
    <3>1. /\ firstFrame /\ source.prefetch = None /\ lastRtp # 0 /\ scaleFloor = lastRtp
          /\ Ahead(source, scaleFloor)
      BY <1>9, <2>1, <2>4, <2>6, Zenon DEF ScaleInv
    <3>2. scaleFloor \in 0..Mod-1 /\ Ordered(source)
      BY <1>9, <2>1, <3>1 DEF Typed, TypeOK, ClockInv
    <3>3. Ahead(Read.src, scaleFloor)
      BY <1>9, <2>1, <3>1, <3>2, ReadTimes DEF Read
    <3> QED BY <2>1, <3>1, <3>3
  <2>7. ScaleInv'
    BY <2>1, <2>2, <2>6, Zenon DEF ScaleInv
  <2> QED BY <2>3, <2>5, <2>7
<1>13. CASE TickHold
  <2>1. inTick /\ Playable /\ HasFrame /\ ~firstFrame
    BY <1>13, HoldLater
  <2>2. /\ Ordered(Source) /\ Source.prefetch = None /\ Near(Source, Frame.ts)
        /\ lastRtp # 0 => Near(Source, lastRtp) /\ Close(Frame.ts, lastRtp)
    BY <2>1, FrameClock
  <2>3. /\ source' = Source /\ pendingV' = Frame /\ firstFrame' = FALSE
        /\ UNCHANGED <<lastRtp, lastDur, lastSent, scaleFloor>>
    BY <1>13 DEF TickHold, Anchor
  <2>4. ClockInv'
    BY <2>1, <2>2, <2>3, Zenon DEF ClockInv
  <2>5. scaleFloor = None
    BY <2>1, Zenon DEF ScaleInv, Playable
  <2> QED BY <2>3, <2>4, <2>5, Zenon DEF LoopInv, ScaleInv
<1>14. CASE TickSend
  <2>1. inTick /\ Playable /\ HasFrame /\ SendAudio
    BY <1>14 DEF TickSend, Anchor, EndTick
  <2>2. /\ Ordered(Source) /\ Source.prefetch = None /\ Near(Source, Frame.ts)
        /\ lastRtp # 0 => Close(Frame.ts, lastRtp)
    BY <2>1, FrameClock
  <2>3. /\ pendingV' = None /\ firstFrame' = FALSE /\ lastRtp' = Frame.ts /\ lastSent' = Frame /\ scaleFloor' = None
        /\ lastDur' = (IF lastRtp # 0 /\ Frame.ts > lastRtp THEN Frame.ts - lastRtp ELSE lastDur)
    BY <1>14 DEF TickSend, Anchor
  <2>4. SameClock(Source, source') /\ source'.prefetch = None
    BY <2>1, <2>2, SendAudioFacts DEF SameClock
  <2>5. Ordered(source') /\ Near(source', Frame.ts)
    BY <2>2, <2>4, SameTimes
  <2>6. lastDur' # None => lastDur' < Quarter
    BY <2>2, <2>3, Zenon DEF ClockInv, Close
  <2>7. ClockInv'
    BY <2>3, <2>4, <2>5, <2>6, Zenon DEF ClockInv
  <2> QED BY <2>3, <2>7, Zenon DEF LoopInv, ScaleInv
<1> QED BY <1>1, <1>2, <1>3, <1>4, <1>5, <1>6, <1>7, <1>8, <1>11, <1>12, <1>13, <1>14 DEF Next, handlePlay

\* On EOF play goes on from the first key frame and the offset moves on, so the client
\* never sees a backward timestamp: for every file that can be played from 0, stored in
\* the order it is shown and a tick shorter than a quarter of the clock, at any time
\* base and with every rounding of the conversions to ticks, any number of loops,
\* and a clock that wraps in between.
THEOREM LoopGoesOn ==
  ASSUME StartsAtZero, InOrder, Short
  PROVE  Spec => LoopContinues
<1> DEFINE Inv == Typed /\ ClockInv /\ LoopInv /\ ScaleInv
<1>1. Init => Inv
  BY TypedInit DEF Init, ClockInv, LoopInv, ScaleInv
<1>2. Inv /\ [Next]_vars => Inv'
  BY TypedStep, ClockStep
<1>3. Inv /\ [Next]_vars =>
        [Sent /\ firstFrame /\ lastSent # None /\ pace # None => NotBehind(lastSent'.ts, lastSent.ts)]_vars
  <2> SUFFICES ASSUME Inv, [Next]_vars, Sent, firstFrame, lastSent # None, pace # None
               PROVE  NotBehind(lastSent'.ts, lastSent.ts)
    OBVIOUS
  <2>1. TickSend
    BY SentBySend
  <2>2. source \in SourceState /\ Fresh(source) /\ NotBehind(source.rtpOffset, lastSent.ts)
    BY DEF LoopInv, Typed, TypeOK
  <2>3. lastSent' = Read.vp
    BY <2>1 DEF TickSend, Frame, Reading, Held
  <2>4. Read.vp.ts = source.rtpOffset
    BY <2>2, FreshRead DEF Read
  <2> QED BY <2>2, <2>3, <2>4, Zenon
<1> HIDE DEF Inv
<1> QED BY <1>1, <1>2, <1>3, PTL DEF Spec, LoopContinues

\* After a Scale PLAY the decoder never sees a backward timestamp, wherever the seek
\* lands, however many there are in a row, and also if the file ends or a range does
\* before the first frame is out: for the same files.
THEOREM ScaleGoesOn ==
  ASSUME StartsAtZero, InOrder, Short
  PROVE  Spec => ScaleNeverBackward
<1> DEFINE Inv == Typed /\ ClockInv /\ LoopInv /\ ScaleInv
<1>1. Init => Inv
  BY TypedInit DEF Init, ClockInv, LoopInv, ScaleInv
<1>2. Inv /\ [Next]_vars => Inv'
  BY TypedStep, ClockStep
<1>3. Inv /\ [Next]_vars => [Sent /\ scaleFloor # None => NotBehind(lastSent'.ts, scaleFloor)]_vars
  <2> SUFFICES ASSUME Inv, [Next]_vars, Sent, scaleFloor # None
               PROVE  NotBehind(lastSent'.ts, scaleFloor)
    OBVIOUS
  <2>1. TickSend
    BY SentBySend
  <2>2. source # None /\ source \in SourceState /\ scaleFloor \in 0..Mod-1 /\ Ordered(source)
    BY <2>1 DEF TickSend, Anchor, EndTick, Playable, Typed, TypeOK, ClockInv
  <2>3. firstFrame /\ source.prefetch = None
    BY <2>2 DEF ScaleInv
  <2>4. lastSent' = Read.vp /\ Read.ok
    BY <2>1, <2>3 DEF TickSend, Anchor, HasFrame, Frame, Reading, Held
  <2>5. CASE lastRtp # 0
    <3>1. Ahead(source, scaleFloor)
      BY <2>2, <2>5 DEF ScaleInv
    <3>2. NotBehind(Read.vp.ts, scaleFloor)
      BY <2>2, <2>3, <2>4, <3>1, ReadTimes DEF Read
    <3> QED BY <2>4, <3>2
  <2>6. CASE lastRtp = 0
    <3>1. Fresh(source) /\ NotBehind(source.rtpOffset, scaleFloor)
      BY <2>2, <2>6 DEF ScaleInv
    <3>2. Read.vp.ts = source.rtpOffset
      BY <2>2, <3>1, FreshRead DEF Read
    <3> QED BY <2>4, <3>1, <3>2, Zenon
  <2> QED BY <2>5, <2>6
<1> HIDE DEF Inv
<1> QED BY <1>1, <1>2, <1>3, PTL DEF Spec, ScaleNeverBackward
=============================================================================
