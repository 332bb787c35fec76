------------------------------- MODULE Receive -------------------------------
(***************************************************************************)
(* The receiving half of one RTSPSession: onReadable appends what recv     *)
(* returns to recv_buf_, takes the complete messages out of it and gives   *)
(* the requests among them to the Dispatcher, which queues them.           *)
(*                                                                         *)
(* TCP may cut the client's byte stream anywhere.  A cell of the stream is *)
(* what the code tells apart: the request line, a Content-Length header    *)
(* with the CRLF before it, the blank line that ends the headers (one      *)
(* cell: find sees all of it or nothing), a byte of a body, of a line or   *)
(* of an interleaved frame.  A body or frame may hold bytes that look like *)
(* a blank line or like the start of a frame, and a Content-Length may be  *)
(* any text: sizes are size_t, and their sums wrap.                        *)
(***************************************************************************)
EXTENDS Naturals, Sequences, SequencesExt

CONSTANTS
  Units,       \* messages a client may send
  MaxUnits,    \* bound: messages of one connection
  MaxRecvBuf,  \* kMaxRecvBuf, in cells
  SizeMod      \* one more than the largest size_t

\* k is what a cell is, v the number it carries: the identity of a request line, a
\* content length, or the value of a byte.  Content-Length is spelled the usual way,
\* in lower case, or in a third way.
Lengths  == {"length", "lower", "LENGTH"}
Kinds    == Lengths \cup {"line", "blank", "dollar", "text"}
CellType == [k : Kinds, v : Nat]

ASSUME ReceiveAssumption ==
  /\ Units \subseteq Seq(CellType) \ {<<>>}
  /\ MaxUnits \in Nat /\ MaxRecvBuf \in Nat
  /\ SizeMod \in Nat /\ SizeMod > MaxRecvBuf

VARIABLES
  units,     \* what this client sends, message by message
  written,   \* cells that have arrived in the kernel's receive buffer
  fin,       \* the client has closed its direction of the connection
  taken,     \* cells that recv has returned
  recvBuf,   \* recv_buf_
  parsed,    \* requests pushed on cmd_queue_
  open,      \* the session is in the Dispatcher's map
  spinning   \* onReadable has met a message of no size and never returns

vars == <<units, written, fin, taken, recvBuf, parsed, open, spinning>>

Cell(k, v) == [k |-> k, v |-> v]

\* Messages a client can send: a request with its Content-Length headers and its
\* body, a message that is no request, an interleaved frame.
Body(kinds)                 == [i \in DOMAIN kinds |-> Cell(kinds[i], 0)]
Request(id, headers, kinds) == <<Cell("line", id)>> \o headers \o <<Cell("blank", 0)>> \o Body(kinds)
Garbage                     == <<Cell("text", 0), Cell("blank", 0)>>
Frame(kinds)                == <<Cell("dollar", 0), Cell("text", 1), Cell("text", 0), Cell("text", Len(kinds))>>
                               \o Body(kinds)

Stream == FlattenSeq(units)

Init ==
  /\ units \in SeqOf(Units, MaxUnits)
  /\ written = 0 /\ fin = FALSE
  /\ taken = 0 /\ recvBuf = <<>>
  /\ parsed = <<>> /\ open = TRUE /\ spinning = FALSE

-----------------------------------------------------------------------------
(* The client and the network                                              *)

\* A segment is any number of these without a read in between.
Arrive ==
  /\ ~fin /\ written < Len(Stream)
  /\ written' = written + 1
  /\ UNCHANGED <<units, fin, taken, recvBuf, parsed, open, spinning>>

HangUp ==
  /\ ~fin
  /\ fin' = TRUE
  /\ UNCHANGED <<units, written, taken, recvBuf, parsed, open, spinning>>

-----------------------------------------------------------------------------
(* RTSPRequest::parse: nothing, or one request.                            *)

FirstAt(buf, i, j, kinds) == SelectInSubSeq(buf, i, j, LAMBDA c : c.k \in kinds)
LastAt(buf, j, kinds)     == SelectLastInSubSeq(buf, 1, j, LAMBDA c : c.k \in kinds)

\* std::stoul of a header's text, 0 where it throws and the catch block leaves 0.
\* "-N" is the number SizeMod - N; a number of SizeMod or more stands for one out of
\* range and for text that is no number.
stoul(buf, at) == IF at # 0 /\ buf[at].v < SizeMod THEN buf[at].v ELSE 0

\* The headers are the lines up to the blank one, or, of a message cut off before
\* it, those that a CRLF still ends.  Every spelling of Content-Length counts, and
\* of several headers the last one.  Bytes in front of the request line become part
\* of its method: such a request is one the client never made, with identity 0.
parse(raw) ==
  LET first == FirstAt(raw, 1, Len(raw), Kinds \ {"text", "dollar"})
      blank == FirstAt(raw, 1, Len(raw), {"blank"})
      crlf  == LastAt(raw, Len(raw), Lengths \cup {"blank"})
      pos   == IF blank # 0 THEN blank ELSE crlf - 1
      n     == stoul(raw, LastAt(raw, pos, Lengths))
      body  == IF (pos + n) % SizeMod <= Len(raw)
               THEN SubSeq(raw, pos + 1, Min({pos + n, Len(raw)})) ELSE <<>>
  IN IF first = 0 \/ crlf = 0 THEN <<>>
     ELSE IF raw[first].k # "line" THEN <<>>
     ELSE <<[id |-> IF first = 1 THEN raw[1].v ELSE 0, body |-> body]>>

-----------------------------------------------------------------------------
(* The loop that takes complete messages out of recv_buf_.                 *)

\* Mutant: a message ends where its headers do.
bodyLengthIgnored(buf, i, end) == 0

\* The first header of the usual spelling, else the first one in lower case.
bodyLength(buf, i, end) ==
  LET usual == FirstAt(buf, i, end, {"length"})
  IN stoul(buf, IF usual # 0 THEN usual ELSE FirstAt(buf, i, end, {"lower"}))

\* body_start + body_len, which wraps.
fullSize(buf, i, end) == ((end - i + 1) + bodyLength(buf, i, end)) % SizeMod

Byte(c) == c.v % 256

\* Where the loop goes on after the message at i: at i itself if not all of it is
\* there, or if it has no size.
after(buf, i) ==
  LET left == Len(buf) - i + 1
      plen == 256 * Byte(buf[i + 2]) + Byte(buf[i + 3])
      end  == FirstAt(buf, i, Len(buf), {"blank"})
      size == fullSize(buf, i, end)
  IN IF left = 0 THEN i
     ELSE IF buf[i].k = "dollar" THEN IF left < 4 \/ left < 4 + plen THEN i ELSE i + 4 + plen
     ELSE IF end = 0 \/ left < size THEN i ELSE i + size

\* A message of no size: the loop erases nothing, parses nothing and starts again.
spins(buf, i) ==
  LET end == FirstAt(buf, i, Len(buf), {"blank"})
  IN i <= Len(buf) /\ buf[i].k # "dollar" /\ end # 0 /\ fullSize(buf, i, end) = 0

\* The request in the message from i to j, if it is one.
handed(buf, i, j) == IF buf[i].k = "dollar" THEN <<>> ELSE parse(SubSeq(buf, i, j))

\* The requests found and the index of the first cell that is left behind.
messages(buf) ==
  LET From[i \in 1 .. Len(buf) + 1] ==
        LET j == after(buf, i)
        IN IF j = i THEN [out |-> <<>>, rest |-> i]
           ELSE [out |-> handed(buf, i, j - 1) \o From[j].out, rest |-> From[j].rest]
  IN From[1]

-----------------------------------------------------------------------------
(* onReadable, called by the Dispatcher, which queues what it returns or   *)
(* closes the session.                                                     *)

\* recv_buf_ after the recv loop, which ends when the kernel has nothing left.
Received == recvBuf \o SubSeq(Stream, taken + 1, written)

\* Mutant: the limit is on all that the client ever sent.
onReadableFailsTotal ==
  /\ open /\ ~spinning
  /\ fin \/ written > MaxRecvBuf
  /\ open' = FALSE
  /\ UNCHANGED <<units, written, fin, taken, recvBuf, parsed, spinning>>

\* The loop met the limit or the end of the stream, or EPOLLRDHUP came first.
onReadableFails ==
  /\ open /\ ~spinning
  /\ fin \/ Len(Received) > MaxRecvBuf
  /\ open' = FALSE
  /\ UNCHANGED <<units, written, fin, taken, recvBuf, parsed, spinning>>

\* Mutant: the size of recv_buf_ is not looked at.
recvUnlimited ==
  open /\ ~fin /\ ~spinning /\ taken < written

\* The recv loop has something to read and ends with EAGAIN.
recv ==
  open /\ ~fin /\ ~spinning /\ taken < written /\ Len(Received) <= MaxRecvBuf

onReadable ==
  /\ recv
  /\ taken' = written
  /\ LET m == messages(Received) IN
       /\ ~spins(Received, m.rest)
       /\ parsed' = parsed \o m.out
       /\ recvBuf' = SubSeq(Received, m.rest, Len(Received))
  /\ UNCHANGED <<units, written, fin, open, spinning>>

\* The requests found before the loop got stuck stay in its local vector.
onReadableSpins ==
  /\ recv
  /\ taken' = written
  /\ LET m == messages(Received) IN
       /\ spins(Received, m.rest)
       /\ recvBuf' = SubSeq(Received, m.rest, Len(Received))
  /\ spinning' = TRUE
  /\ UNCHANGED <<units, written, fin, parsed, open>>

\* Nothing more can arrive and nothing is left to read, or nobody reads any more.
Quiet ==
  /\ ~open \/ spinning \/ (written = Len(Stream) /\ taken = written)
  /\ UNCHANGED vars

Next == Arrive \/ HangUp \/ onReadable \/ onReadableSpins \/ onReadableFails \/ Quiet

Spec == Init /\ [][Next]_vars

-----------------------------------------------------------------------------

\* Positions are ordered, and the buffer keeps to its limit between calls.
TypeOK ==
  /\ taken <= written /\ written <= Len(Stream)
  /\ Len(recvBuf) <= MaxRecvBuf
  /\ \A i \in DOMAIN parsed : parsed[i].id \in Nat
  /\ fin \in BOOLEAN /\ open \in BOOLEAN /\ spinning \in BOOLEAN

\* Where the first j messages of the client end, and how many of them have been
\* received in full.
EndOf(j)  == Len(FlattenSeq(SubSeq(units, 1, j)))
Complete  == Max({j \in 0 .. Len(units) : EndOf(j) <= taken})

\* Messages as RFC 2326 has them.  An interleaved frame is as long as its header
\* says; a message in text ends with the blank line, or as far behind it as its
\* Content-Length says, which is spelled in one of the two ways.
IsFrame(u) ==
  Len(u) >= 4 /\ u[1].k = "dollar" /\ Len(u) = 4 + (256 * Byte(u[3]) + Byte(u[4]))
IsText(u, e) ==
  /\ u[1].k # "dollar" /\ u[e].k = "blank" /\ Len(u) < SizeMod
  /\ \A k \in 1..e : u[k].k # "LENGTH" /\ (u[k].k = "blank" => k = e) /\ (u[k].k = "line" => k = 1)
  /\ \A k \in 1..e : u[k].k \in Lengths => u[k].v = Len(u) - e
  /\ Len(u) = e \/ \E k \in 1..e : u[k].k \in Lengths
WellFormed(u) == IsFrame(u) \/ \E e \in 1..Len(u) : IsText(u, e)

\* What the client meant by a message, read off the message itself.
Meant(u) ==
  IF u[1].k # "line" THEN <<>>
  ELSE <<[id |-> u[1].v, body |-> SubSeq(u, FirstAt(u, 1, Len(u), {"blank"}) + 1, Len(u))]>>

Canonical == \A i \in DOMAIN units : WellFormed(units[i])

\* onReadable's framing does not depend on how TCP cuts the stream: after any
\* sequence of reads the requests handed on are those of the messages received in
\* full, in order and with their bodies, the buffer holds the rest and no more, and
\* the loop has always returned.  Only well formed messages have an end to find.
FramingExact ==
  Canonical => /\ ~spinning
               /\ parsed = FlattenSeq([j \in 1 .. Complete |-> Meant(units[j])])
               /\ recvBuf = SubSeq(Stream, EndOf(Complete) + 1, taken)

\* Nothing the server has dealt with counts against kMaxRecvBuf: a session whose
\* client has not hung up is closed only when more than that is outstanding
\* beyond the messages already received in full.
ClosedOnlyOnOverflow ==
  Canonical /\ ~open /\ ~fin => written - EndOf(Complete) > MaxRecvBuf

\* onReadable takes out what is complete and returns, whatever was received.
\* It does not hold: a Content-Length that makes body_start + body_len wrap to 0 leaves
\* the loop where it is.
LoopReturns == ~spinning
=============================================================================
