------------------------------ MODULE VideoPath ------------------------------
(***************************************************************************)
(* The way of a video frame from the container to the player, byte by      *)
(* byte: parameter sets from the extradata and into the SDP, Annex-B       *)
(* splitting, the NAL units of an access unit as pacerTick picks them,     *)
(* FU-A fragmentation, the RTP header, and interleaved framing on TCP.     *)
(*                                                                         *)
(* Packets may be lost: datagrams anywhere, interleaved frames when the    *)
(* outbox is over its high watermark.  The player is written from RFC 6184 *)
(* and RFC 2326, not from the code, and is the reference for the encoder.  *)
(***************************************************************************)
EXTENDS Integers, Sequences, SequencesExt

CONSTANTS
  Mtu,          \* largest RTP payload, 1400 in the code
  Extradata,    \* containers: [avcc, sps, pps], all parameter sets they list
  Streams,      \* sequences of frames: [key, nals, codes]
  FirstSeq,     \* rtp_seq_ at PLAY
  FirstTs, Ssrc,\* 32-bit values
  MaxLost       \* bound: packets lost in a run

Byte == 0 .. 255

\* The numbers of values of words of 12, 16, 18 and 24 bits.
Word12 == 4096
Word16 == 65536
Word18 == 262144
Word24 == 16777216

\* x shifted to units of u and cut to a byte.
octet(x, u) == (x \div u) % 256

NalType(nal) == nal[1] % 32

\* The NAL units of an encoder: no start code inside, no zero at the end, the first
\* bit clear, and not of type 28, which RFC 6184 takes for fragments.
Nal == {nal \in Seq(Byte) :
          /\ nal # <<>> /\ nal[1] < 128 /\ NalType(nal) # 28 /\ nal[Len(nal)] # 0
          /\ \A i \in 1 .. Len(nal) - 2 : ~(nal[i] = 0 /\ nal[i + 1] = 0 /\ nal[i + 2] = 1)}

\* The parameter sets of one type, as many as the container's format can count.
SetsOf(t, max) ==
  {nals \in Seq(Nal) : nals # <<>> /\ Len(nals) <= max
                       /\ \A i \in DOMAIN nals : NalType(nals[i]) = t /\ Len(nals[i]) < Word16}

Container == [avcc : BOOLEAN, sps : SetsOf(7, 31), pps : SetsOf(8, 255)]
Frame == {f \in [key : BOOLEAN, nals : Seq(Nal), codes : Seq({3, 4})] : Len(f.codes) = Len(f.nals)}

ASSUME VideoAssumption ==
  /\ {Mtu, FirstSeq, FirstTs, Ssrc, MaxLost} \subseteq Nat
  /\ 2 < Mtu /\ Mtu + 12 < Word16 /\ FirstSeq < Word16
  /\ Extradata \subseteq Container /\ Streams \subseteq Seq(Frame)

VARIABLES
  extradata, frames, tcp,  \* this session: file and transport
  info,                    \* stream_info_, or NotOpen before the file is opened
  next,                    \* the next frame to send
  rtpSeq,                  \* rtp_seq_
  pending,                 \* packets built and not yet handed to the transport
  stream,                  \* bytes of interleaved frames the player has received
  datagrams,               \* RTP packets the player has received over UDP
  lost                     \* number of packets lost

session == <<extradata, frames, tcp>>
vars == <<session, info, next, rtpSeq, pending, stream, datagrams, lost>>

NotOpen == [sps |-> <<>>, pps |-> <<>>, sprop |-> <<>>]

-----------------------------------------------------------------------------
(* What FFmpeg hands over: external.                                       *)

\* x in two bytes.
Two(x) == <<octet(x, 256), octet(x, 1)>>

\* A frame, each NAL unit after a start code of three or four bytes.
AnnexB(nals, codes) ==
  FlattenSeq([i \in DOMAIN nals |-> (IF codes[i] = 4 THEN <<0, 0, 0, 1>> ELSE <<0, 0, 1>>) \o nals[i]])

\* Each NAL unit after its length.
LengthPrefixed(nals) == FlattenSeq([i \in DOMAIN nals |-> Two(Len(nals[i])) \o nals[i]])

\* codecpar()->extradata, as an AVCDecoderConfigurationRecord or in Annex-B form.
ExtradataBytes(e) ==
  LET both == e.sps \o e.pps
  IN IF e.avcc
     THEN <<1, 66, 0, 30, 255, 224 + Len(e.sps)>> \o LengthPrefixed(e.sps)
          \o (<<Len(e.pps)>> \o LengthPrefixed(e.pps))
     ELSE AnnexB(both, [i \in DOMAIN both |-> 4])

-----------------------------------------------------------------------------
(* AnnexBParser; offsets count from 0 as in the code.                      *)

Bytes(d, from, to) == SubSeq(d, from + 1, to)

\* Mutant: only the long start code is known.
startCodeLengthFour(d, o) ==
  IF o + 4 <= Len(d) /\ d[o + 1] = 0 /\ d[o + 2] = 0 /\ d[o + 3] = 0 /\ d[o + 4] = 1 THEN 4 ELSE 0

startCodeLength(d, o) ==
  IF o + 4 <= Len(d) /\ d[o + 1] = 0 /\ d[o + 2] = 0 /\ d[o + 3] = 0 /\ d[o + 4] = 1 THEN 4
  ELSE IF o + 3 <= Len(d) /\ d[o + 1] = 0 /\ d[o + 2] = 0 /\ d[o + 3] = 1 THEN 3 ELSE 0

\* Where the loop stops next: at a start code or at the end.
nextCode(d, i) == Min({o \in i .. Len(d) : o = Len(d) \/ startCodeLength(d, o) > 0})

When(c, x) == IF c THEN <<x>> ELSE <<>>

\* From[i]: the loop with nal_start = i.  What comes before the first start code is
\* no NAL unit.
splitView(d) ==
  LET after(o) == o + startCodeLength(d, o)
      From[i \in 0 .. Len(d)] ==
        LET o == nextCode(d, i)
        IN IF o = Len(d) THEN When(i < o, Bytes(d, i, o))
           ELSE When(i < o, Bytes(d, i, o)) \o From[after(o)]
      first == nextCode(d, 0)
  IN IF first = Len(d) THEN <<>> ELSE From[after(first)]

\* The same loop again, with copies instead of views.
split(d) == splitView(d)

-----------------------------------------------------------------------------
(* MediaSource::parseExtradata and StringUtils::base64Encode               *)

\* A list of n length-prefixed parameter sets at offset at: the first of them, and
\* where the loop ends or breaks off.
parameterSets(d, n, at) ==
  LET Read[i \in 0 .. n] ==
        IF i = 0 THEN [first |-> <<>>, end |-> at, broken |-> FALSE]
        ELSE LET p == Read[i - 1]
                 o == p.end + 2
                 len == 256 * d[o - 1] + d[o]
             IN CASE p.broken           -> p
                  [] o > Len(d)         -> [p EXCEPT !.broken = TRUE]
                  [] o + len > Len(d)   -> [p EXCEPT !.end = o, !.broken = TRUE]
                  [] OTHER              -> [first |-> IF i = 1 THEN Bytes(d, o, o + len) ELSE p.first,
                                            end |-> o + len, broken |-> FALSE]
  IN Read[n]

FirstOfType(nals, t) ==
  LET at == {i \in DOMAIN nals : NalType(nals[i]) = t} IN IF at = {} THEN <<>> ELSE nals[Min(at)]

\* Mutant: the PPS count is read before the second SPS is skipped.
parseExtradataOneSps(d) ==
  IF Len(d) < 4 THEN [sps |-> <<>>, pps |-> <<>>]
  ELSE IF d[1] = 1
  THEN LET s == parameterSets(d, 1, 6)
       IN [sps |-> s.first, pps |-> parameterSets(d, d[s.end + 1], s.end + 1).first]
  ELSE [sps |-> FirstOfType(split(d), 7), pps |-> FirstOfType(split(d), 8)]

parseExtradata(d) ==
  IF Len(d) < 4 \/ (d[1] = 1 /\ Len(d) < 7) THEN [sps |-> <<>>, pps |-> <<>>]
  ELSE IF d[1] = 1
  THEN LET s == parameterSets(d, d[6] % 32, 6)
       IN [sps |-> s.first,
           pps |-> IF s.end >= Len(d) THEN <<>>
                   ELSE parameterSets(d, d[s.end + 1], s.end + 1).first]
  ELSE [sps |-> FirstOfType(split(d), 7), pps |-> FirstOfType(split(d), 8)]

Pad == 64

\* Digits of base 64; which letter stands for which is left out.
base64Encode(d) ==
  LET byte(i) == IF i < Len(d) THEN d[i + 1] ELSE 0
      word(i) == Word16 * byte(i) + 256 * byte(i + 1) + byte(i + 2)
      unit == <<Word18, Word12, 64, 1>>
  IN [k \in 1 .. 4 * ((Len(d) + 2) \div 3) |->
        LET i == 3 * ((k - 1) \div 4)
            j == (k - 1) % 4
        IN IF j > 1 /\ i + j - 1 >= Len(d) THEN Pad ELSE (word(i) \div unit[j + 1]) % 64]

-----------------------------------------------------------------------------
(* H264Packetizer::packetize, RTPPacket::build, pushTCPFrame               *)

\* Mutant: the two bytes that FU-A adds are not taken off the fragment.
fragmentSizeFull == Mtu

fragmentSize == Mtu - 2

packetize(nal) ==
  IF nal = <<>> THEN <<>>
  ELSE IF Len(nal) <= Mtu THEN <<nal>>
  ELSE LET data  == Tail(nal)
           count == (Len(data) + fragmentSize - 1) \div fragmentSize
           nri   == 32 * ((nal[1] \div 32) % 4)
           flags(i) == (IF i = 1 THEN 128 ELSE 0) + (IF i = count THEN 64 ELSE 0)
       IN [i \in 1 .. count |->
             <<nri + 28, flags(i) + NalType(nal)>>
             \o SubSeq(data, (i - 1) * fragmentSize + 1,
                       IF i = count THEN Len(data) ELSE i * fragmentSize)]

PayloadType == 96

header(seq, ts, marker) ==
  <<128, (IF marker THEN 128 ELSE 0) + PayloadType, octet(seq, 256), octet(seq, 1),
    octet(ts, Word24), octet(ts, Word16), octet(ts, 256), octet(ts, 1),
    octet(Ssrc, Word24), octet(Ssrc, Word16), octet(Ssrc, 256), octet(Ssrc, 1)>>

build(payload, seq, ts, marker) == header(seq, ts, marker) \o payload

interleaved(channel, pkt) == <<36, channel, octet(Len(pkt), 256), octet(Len(pkt), 1)>> \o pkt

-----------------------------------------------------------------------------

Init ==
  /\ extradata \in Extradata /\ frames \in Streams /\ tcp \in BOOLEAN
  /\ info = NotOpen /\ next = 1 /\ rtpSeq = FirstSeq /\ pending = <<>>
  /\ stream = <<>> /\ datagrams = <<>> /\ lost = 0

\* sprop-parameter-sets of the SDP.
sprop(sps, pps) == <<base64Encode(sps), base64Encode(pps)>>

\* DESCRIBE: the file is opened and its parameter sets go into the SDP.
open ==
  /\ info = NotOpen
  /\ LET p == parseExtradata(ExtradataBytes(extradata))
     IN info' = [sps |-> p.sps, pps |-> p.pps, sprop |-> sprop(p.sps, p.pps)]
  /\ UNCHANGED <<session, next, rtpSeq, pending, stream, datagrams, lost>>

\* What pacerTick sends of a frame: a key frame is preceded by the parameter sets
\* of the file, and its own are left out.
nalList(f) ==
  LET nals == splitView(AnnexB(f.nals, f.codes))
      keep(nal) == ~(f.key /\ NalType(nal) \in {7, 8})
  IN When(f.key /\ info.sps # <<>>, info.sps) \o When(f.key /\ info.pps # <<>>, info.pps)
     \o FlattenSeq([i \in DOMAIN nals |-> When(keep(nals[i]), nals[i])])

\* Mutant: the marker ends every NAL unit, as packetize sets it.
markersOfNals(payloads) == [n \in DOMAIN payloads |-> [p \in DOMAIN payloads[n] |-> p = Len(payloads[n])]]

\* mk: the last packet of the last NAL unit.
markers(payloads) ==
  [n \in DOMAIN payloads |-> [p \in DOMAIN payloads[n] |-> n = Len(payloads) /\ p = Len(payloads[n])]]

\* Mutant: the counter is wider than the field it fills.
seqAfterWide(n) == rtpSeq + n

\* rtp_seq_ once n more packets are built; a uint16_t.
seqAfter(n) == (rtpSeq + n) % Word16

\* Step 8 of a tick: all packets of the frame, in order.
pacerTick ==
  /\ info # NotOpen /\ pending = <<>> /\ next <= Len(frames)
  /\ LET nals     == nalList(frames[next])
         payloads == [n \in DOMAIN nals |-> packetize(nals[n])]
         flat     == FlattenSeq(payloads)
         mk       == FlattenSeq(markers(payloads))
     IN /\ pending' = [i \in DOMAIN flat |->
              build(flat[i], seqAfter(i - 1), FirstTs + next, mk[i])]
        /\ rtpSeq' = seqAfter(Len(flat))
  /\ next' = next + 1
  /\ UNCHANGED <<session, info, stream, datagrams, lost>>

sendVideoRTP ==
  /\ pending # <<>>
  /\ pending' = Tail(pending)
  /\ IF tcp THEN /\ stream' = stream \o interleaved(0, Head(pending))
                 /\ UNCHANGED datagrams
            ELSE /\ datagrams' = Append(datagrams, Head(pending))
                 /\ UNCHANGED stream
  /\ UNCHANGED <<session, info, next, rtpSeq, lost>>

\* The datagram does not arrive, or pushTCPFrame is over the high watermark.
Lose ==
  /\ pending # <<>> /\ lost < MaxLost
  /\ pending' = Tail(pending)
  /\ lost' = lost + 1
  /\ UNCHANGED <<session, info, next, rtpSeq, stream, datagrams>>

Done == info # NotOpen /\ pending = <<>> /\ next > Len(frames) /\ UNCHANGED vars

Next == open \/ pacerTick \/ sendVideoRTP \/ Lose \/ Done

Spec == Init /\ [][Next]_vars

-----------------------------------------------------------------------------
(* The player: external, from the RFCs.                                    *)

\* The whole interleaved frames in a stream.
Deframed(s) ==
  LET size(i) == 256 * s[i + 2] + s[i + 3]
      From[i \in 1 .. Len(s) + 1] ==
        IF i + 3 > Len(s) \/ i + 3 + size(i) > Len(s) THEN <<>>
        ELSE <<SubSeq(s, i + 4, i + 3 + size(i))>> \o From[i + 4 + size(i)]
  IN From[1]

Packets == IF tcp THEN Deframed(stream) ELSE datagrams

\* The fields of a packet.
Fields(pkt) ==
  [seq |-> 256 * pkt[3] + pkt[4],
   ts |-> Word24 * pkt[5] + Word16 * pkt[6] + 256 * pkt[7] + pkt[8],
   marker |-> pkt[2] >= 128, payload |-> SubSeq(pkt, 13, Len(pkt))]

Arrived == [i \in DOMAIN Packets |-> Fields(Packets[i])]

\* A fragmented unit after one more fragment: begun, continued, or given up.
Joined(part, pl) ==
  IF pl[2] >= 128 THEN <<32 * (pl[1] \div 32) + (pl[2] % 32)>> \o SubSeq(pl, 3, Len(pl))
  ELSE IF part # <<>> THEN part \o SubSeq(pl, 3, Len(pl)) ELSE <<>>

\* One packet at the player, which has rebuilt nals, holds part of a fragmented
\* unit and gives it up when a sequence number is missing.
Deliver(r, pkt) ==
  LET part == IF pkt.seq = (r.seq + 1) % Word16 THEN r.part ELSE <<>>
      new  == Joined(part, pkt.payload)
  IN IF pkt.payload[1] % 32 # 28
     THEN [seq |-> pkt.seq, nals |-> Append(r.nals, pkt.payload), part |-> <<>>]
     ELSE IF pkt.payload[2] % 128 >= 64 /\ new # <<>>
     THEN [seq |-> pkt.seq, nals |-> Append(r.nals, new), part |-> <<>>]
     ELSE [seq |-> pkt.seq, nals |-> r.nals, part |-> new]

\* The player after some packets, and the NAL units it has rebuilt.
Start == [seq |-> 0, nals |-> <<>>, part |-> <<>>]
Player(a) ==
  LET R[i \in 0 .. Len(a)] == IF i = 0 THEN Start ELSE Deliver(R[i - 1], a[i]) IN R[Len(a)]
Rebuilt == Player(Arrived).nals

\* Base 64 back to bytes: three of each group, and less by the pads at the end.
Decode64(s) ==
  LET v(k) == IF s[k] = Pad THEN 0 ELSE s[k]
      word(k) == Word18 * v(k) + Word12 * v(k + 1) + 64 * v(k + 2) + v(k + 3)
      unit == <<Word16, 256, 1>>
      pads == IF s[Len(s)] # Pad THEN 0 ELSE IF s[Len(s) - 1] # Pad THEN 1 ELSE 2
      size == IF s = <<>> THEN 0 ELSE 3 * (Len(s) \div 4) - pads
  IN [k \in 1 .. size |-> octet(word(4 * ((k - 1) \div 3) + 1), unit[1 + ((k - 1) % 3)])]

-----------------------------------------------------------------------------

\* Counters in range, and nothing arrives on the transport that was not chosen.
TypeOK ==
  /\ rtpSeq \in Nat /\ rtpSeq < Word16 /\ next \in 1 .. Len(frames) + 1
  /\ \A i \in DOMAIN pending : \A j \in DOMAIN pending[i] : pending[i][j] \in 0 .. 255
  /\ IF tcp THEN datagrams = <<>> ELSE stream = <<>>

\* parseExtradata and the SDP agree with the container in either format: the
\* player decodes from sprop-parameter-sets the first SPS and PPS it holds.
SdpDescribesStream ==
  info # NotOpen =>
    /\ Decode64(info.sprop[1]) = extradata.sps[1]
    /\ Decode64(info.sprop[2]) = extradata.pps[1]

\* s is t with elements left out: each is found, in order, after the one before.
Subsequence(s, t) ==
  LET Place[i \in 0 .. Len(s)] ==
        IF i = 0 THEN 0
        ELSE LET later == {j \in Place[i - 1] + 1 .. Len(t) : t[j] = s[i]}
             IN IF later = {} THEN Len(t) + 1 ELSE Min(later)
  IN Place[Len(s)] <= Len(t)

\* The NAL units of a frame that the player should see.
Meant(f) ==
  IF ~f.key THEN f.nals
  ELSE <<extradata.sps[1], extradata.pps[1]>>
       \o FlattenSeq([i \in DOMAIN f.nals |-> When(NalType(f.nals[i]) \notin {7, 8}, f.nals[i])])

\* Splitting, fragmentation, RTP and interleaved framing are undone by the player:
\* without loss it gets exactly the NAL units of the frames, in order, and after
\* any loss only units that were sent, never one put together from two.
StreamReassembles ==
  LET meant == FlattenSeq([i \in 1 .. next - 1 |-> Meant(frames[i])])
      got   == Rebuilt
  IN /\ Subsequence(got, meant)
     /\ lost = 0 /\ pending = <<>> => got = meant

\* The marker bit ends access units (pacerTick recomputes it over packetize's):
\* it is on the last packet of a frame and on no other.
MarkerEndsFrame ==
  LET a == Arrived
  IN \A i \in 1 .. Len(a) - 1 :
       /\ a[i].marker => a[i + 1].ts # a[i].ts
       /\ a[i + 1].ts # a[i].ts /\ lost = 0 => a[i].marker

\* packetize keeps to the MTU, and a fragmented unit has at least two fragments.
FragmentsFit ==
  LET a == Arrived
  IN \A i \in DOMAIN a :
    LET pl == a[i].payload
    IN Len(pl) <= Mtu /\ (pl[1] % 32 = 28 => pl[2] < 192)
=============================================================================
