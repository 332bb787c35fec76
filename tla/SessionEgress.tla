---------------------------- MODULE SessionEgress ----------------------------
(***************************************************************************)
(* The egress half of one RTSPSession: a pacer worker queues RTSP          *)
(* responses and interleaved RTP frames in outbox_, the Dispatcher thread  *)
(* drains outbox_ into the socket when epoll reports EPOLLOUT.             *)
(*                                                                         *)
(* The two threads share outbox_ (mutex-protected), the atomics            *)
(* outbox_bytes_, epollout_armed_ and close_after_write_, and the kernel's *)
(* interest set of the descriptor.  One action below is one atomic         *)
(* operation on that shared state, in program order.  At most one worker   *)
(* is inside the session at a time (module Reactor, TickExclusive).        *)
(*                                                                         *)
(* A message is the interval of positions it takes in the byte stream of   *)
(* the connection: what a response or frame says is left out, which bytes  *)
(* of the stream the kernel has been given, and in which order, is kept.   *)
(***************************************************************************)
EXTENDS Integers, Sequences

CONSTANTS
  MaxSize,   \* largest message, in units of the stream
  HWM,       \* kOutboxHWM
  SndBuf,    \* SO_SNDBUF of the client socket
  MaxMsgs    \* bound: messages the worker tries to send

ASSUME EgressAssumption ==
  /\ MaxSize \in Nat \ {0}
  /\ HWM \in Nat
  /\ SndBuf \in Nat \ {0}
  /\ MaxMsgs \in Nat

VARIABLES
  outbox,           \* outbox_: messages not yet taken by the Dispatcher
  bytes,            \* outbox_bytes_
  armed,            \* epollout_armed_
  closeAfterWrite,  \* close_after_write_
  wbuf, woff,       \* wbuf_, woff_: the message being sent, Dispatcher only
  registered,       \* the descriptor is in the Dispatcher's epoll set
  epollout,         \* ... with EPOLLOUT in its interest
  sockFree,         \* room in the kernel send buffer
  hup,              \* the peer hung up or reset the connection
  wpc, cur,         \* the worker: where it is, the message it sends
  dpc, sub,         \* the Dispatcher: where it is, what it will subtract
  msgs,             \* messages the worker has started
  queued,           \* stream position after the last message pushed
  wire,             \* stream position the kernel has been given so far
  covered           \* history: queued when EPOLLOUT was last armed

worker     == <<wpc, cur, msgs>>
dispatcher == <<dpc, sub, wbuf, woff>>
kernel     == <<registered, epollout, sockFree, hup>>
shared     == <<outbox, bytes, armed, closeAfterWrite>>
stream     == <<queued, wire, covered>>
vars       == <<worker, dispatcher, kernel, shared, stream>>

Message  == [lo : Nat, hi : Nat]
NoBuf    == [lo |-> 0, hi |-> 0]     \* wbuf_ is std::nullopt
HasBuf   == wbuf # NoBuf
Size(m)  == m.hi - m.lo
Lesser(a, b) == IF a <= b THEN a ELSE b

\* What a worker sends: a response, the response to TEARDOWN, an RTP frame.
Kinds == {"response", "teardown", "rtp"}

WorkerPC     == {"idle", "hwm", "add", "push", "cas", "mod", "close"}
DispatcherPC == {"epoll", "pop", "load", "sub", "send", "disarm", "store", "check"}

Init ==
  /\ outbox = <<>> /\ bytes = 0 /\ armed = FALSE /\ closeAfterWrite = FALSE
  /\ wbuf = NoBuf /\ woff = 0
  /\ registered = TRUE /\ epollout = FALSE /\ sockFree = SndBuf /\ hup = FALSE
  /\ wpc = "idle" /\ cur = [lo |-> 0, hi |-> 0, kind |-> "response"] /\ msgs = 0
  /\ dpc = "epoll" /\ sub = 0
  /\ queued = 0 /\ wire = 0 /\ covered = 0

-----------------------------------------------------------------------------
(* The worker: sendResponse, pushTCPFrame, handleTeardown, enableWrite.    *)

Compose(kind, size) ==
  /\ wpc = "idle" /\ msgs < MaxMsgs
  /\ msgs' = msgs + 1
  /\ cur' = [lo |-> queued, hi |-> queued + size, kind |-> kind]

\* sendResponse never looks at the high watermark.
sendResponse(kind, size) ==
  /\ Compose(kind, size)
  /\ wpc' = "add"
  /\ UNCHANGED <<dispatcher, kernel, shared, stream>>

\* Mutant: the frame is queued without looking at the high watermark.
pushTCPFrameUnchecked(size) ==
  /\ Compose("rtp", size)
  /\ wpc' = "add"
  /\ UNCHANGED <<dispatcher, kernel, shared, stream>>

pushTCPFrame(size) ==
  /\ Compose("rtp", size)
  /\ wpc' = IF bytes > HWM THEN "hwm" ELSE "add"
  /\ UNCHANGED <<dispatcher, kernel, shared, stream>>

DropFrame ==
  /\ wpc = "hwm"
  /\ closeAfterWrite' = TRUE
  /\ wpc' = "idle"
  /\ UNCHANGED <<dispatcher, kernel, stream, outbox, bytes, armed, cur, msgs>>

AddBytes ==
  /\ wpc = "add"
  /\ bytes' = bytes + Size(cur)
  /\ wpc' = "push"
  /\ UNCHANGED <<dispatcher, kernel, stream, outbox, armed, closeAfterWrite, cur, msgs>>

PushOutbox ==
  /\ wpc = "push"
  /\ outbox' = Append(outbox, [lo |-> cur.lo, hi |-> cur.hi])
  /\ queued' = cur.hi
  /\ wpc' = "cas"
  /\ UNCHANGED <<dispatcher, kernel, bytes, armed, closeAfterWrite, wire, covered, cur, msgs>>

Sent == IF cur.kind = "teardown" THEN "close" ELSE "idle"

\* enableWrite: the compare-exchange, then epoll_ctl when it succeeded.
TryArm ==
  /\ wpc = "cas"
  /\ armed' = TRUE
  /\ wpc' = IF armed THEN Sent ELSE "mod"
  /\ UNCHANGED <<dispatcher, kernel, stream, outbox, bytes, closeAfterWrite, cur, msgs>>

\* EPOLL_CTL_MOD fails, unnoticed, once closeSession removed the descriptor.
ArmEpoll ==
  /\ wpc = "mod"
  /\ epollout' = registered
  /\ covered' = queued
  /\ wpc' = Sent
  /\ UNCHANGED <<dispatcher, shared, registered, sockFree, hup, queued, wire, cur, msgs>>

\* handleTeardown: the flag is stored after sendResponse returned.
SetCloseFlag ==
  /\ wpc = "close"
  /\ closeAfterWrite' = TRUE
  /\ wpc' = "idle"
  /\ UNCHANGED <<dispatcher, kernel, stream, outbox, bytes, armed, cur, msgs>>

WorkerStep ==
  DropFrame \/ AddBytes \/ PushOutbox \/ TryArm \/ ArmEpoll \/ SetCloseFlag

WorkerStart ==
  \E size \in 1..MaxSize :
    \/ \E kind \in {"response", "teardown"} : sendResponse(kind, size)
    \/ pushTCPFrame(size)

-----------------------------------------------------------------------------
(* The Dispatcher: onWritable, and the part of dispatcherLoop that calls   *)
(* it and closes the session when it returns false.                        *)

\* Mutant: onWritable does not look for a partly sent message first.
EpollOutForgetsBuf ==
  /\ dpc = "epoll" /\ epollout /\ sockFree > 0 /\ ~hup
  /\ dpc' = "pop"
  /\ UNCHANGED <<worker, kernel, shared, stream, sub, wbuf, woff>>

\* Level-triggered epoll_wait reports EPOLLOUT on the client descriptor.
EpollOut ==
  /\ dpc = "epoll" /\ epollout /\ sockFree > 0 /\ ~hup
  /\ dpc' = IF HasBuf THEN "send" ELSE "pop"
  /\ UNCHANGED <<worker, kernel, shared, stream, sub, wbuf, woff>>

PopOutbox ==
  /\ dpc = "pop"
  /\ IF outbox = <<>>
     THEN /\ dpc' = "disarm"
          /\ UNCHANGED <<outbox, wbuf, woff>>
     ELSE /\ wbuf' = Head(outbox)
          /\ outbox' = Tail(outbox)
          /\ woff' = 0
          /\ dpc' = "load"
  /\ UNCHANGED <<worker, kernel, stream, sub, bytes, armed, closeAfterWrite>>

\* Mutant: the interleaved prefix is counted too and nothing clamps.
LoadBytesUnclamped ==
  /\ dpc = "load"
  /\ sub' = Size(wbuf) + 1
  /\ dpc' = "sub"
  /\ UNCHANGED <<worker, kernel, shared, stream, wbuf, woff>>

\* std::min(wbuf_->size(), outbox_bytes_.load()), then fetch_sub.
LoadBytes ==
  /\ dpc = "load"
  /\ sub' = Lesser(Size(wbuf), bytes)
  /\ dpc' = "sub"
  /\ UNCHANGED <<worker, kernel, shared, stream, wbuf, woff>>

\* Mutant: the subtraction is skipped.
SubBytesSkipped ==
  /\ dpc = "sub"
  /\ dpc' = "send"
  /\ UNCHANGED <<worker, kernel, shared, stream, sub, wbuf, woff>>

SubBytes ==
  /\ dpc = "sub"
  /\ bytes' = bytes - sub
  /\ dpc' = "send"
  /\ UNCHANGED <<worker, kernel, stream, sub, wbuf, woff, outbox, armed, closeAfterWrite>>

\* send() takes n units; the message is dropped once all of it is gone.
\* After a half-close by the peer (EPOLLRDHUP) send() still works.
Send(n) ==
  /\ dpc = "send"
  /\ n \in 1..Lesser(Size(wbuf) - woff, sockFree)
  /\ sockFree' = sockFree - n
  /\ wire' = wire + n
  /\ IF woff + n = Size(wbuf)
     THEN wbuf' = NoBuf /\ woff' = 0 /\ dpc' = "pop"
     ELSE woff' = woff + n /\ UNCHANGED <<wbuf, dpc>>
  /\ UNCHANGED <<worker, shared, sub, registered, epollout, hup, queued, covered>>

SendWouldBlock ==
  /\ dpc = "send" /\ sockFree = 0
  /\ dpc' = "epoll"
  /\ UNCHANGED <<worker, kernel, shared, stream, sub, wbuf, woff>>

\* Mutant: epollout_armed_ is cleared before the epoll_ctl call.
DisarmEpollFlagFirst ==
  /\ dpc = "disarm"
  /\ \/ /\ armed
        /\ armed' = FALSE
        /\ UNCHANGED <<dpc, epollout>>
     \/ /\ epollout' = FALSE
        /\ dpc' = "store"
        /\ UNCHANGED armed
  /\ UNCHANGED <<worker, stream, sub, wbuf, woff, registered, sockFree, hup>>
  /\ UNCHANGED <<outbox, bytes, closeAfterWrite>>

DisarmEpoll ==
  /\ dpc = "disarm"
  /\ epollout' = FALSE
  /\ dpc' = "store"
  /\ UNCHANGED <<worker, shared, stream, sub, wbuf, woff, registered, sockFree, hup>>

ClearArmed ==
  /\ dpc = "store"
  /\ armed' = FALSE
  /\ dpc' = "check"
  /\ UNCHANGED <<worker, kernel, stream, sub, wbuf, woff, outbox, bytes, closeAfterWrite>>

\* closeSession(fd): out of the epoll set and the session map.
closeSession ==
  /\ registered' = FALSE /\ epollout' = FALSE
  /\ dpc' = "epoll"
  /\ UNCHANGED <<worker, shared, stream, sub, wbuf, woff, sockFree, hup>>

\* Mutant: the close is put off when a message was queued meanwhile.
CheckCloseEmpty ==
  /\ dpc = "check"
  /\ IF closeAfterWrite /\ outbox = <<>>
     THEN closeSession
     ELSE dpc' = "epoll" /\ UNCHANGED <<worker, kernel, shared, stream, sub, wbuf, woff>>

CheckClose ==
  /\ dpc = "check"
  /\ IF closeAfterWrite
     THEN closeSession
     ELSE dpc' = "epoll" /\ UNCHANGED <<worker, kernel, shared, stream, sub, wbuf, woff>>

\* send() fails, or epoll reports EPOLLRDHUP / EPOLLHUP / EPOLLERR.
SendFails == dpc = "send" /\ hup /\ closeSession
EpollHup  == dpc = "epoll" /\ registered /\ hup /\ closeSession

DispatcherStep ==
  \/ EpollOut \/ PopOutbox \/ LoadBytes \/ SubBytes
  \/ \E n \in 1..MaxSize : Send(n)
  \/ SendWouldBlock \/ DisarmEpoll \/ ClearArmed
  \/ CheckClose \/ SendFails \/ EpollHup

-----------------------------------------------------------------------------
(* The client.                                                             *)

ClientReads(n) ==
  /\ sockFree + n <= SndBuf
  /\ sockFree' = sockFree + n
  /\ UNCHANGED <<worker, dispatcher, shared, stream, registered, epollout, hup>>

ClientHangsUp ==
  /\ ~hup
  /\ hup' = TRUE
  /\ UNCHANGED <<worker, dispatcher, shared, stream, registered, epollout, sockFree>>

Client == (\E n \in 1..SndBuf : ClientReads(n)) \/ ClientHangsUp

\* Nothing is left to do: the worker used up MaxMsgs and both threads wait.
Quiet ==
  /\ wpc = "idle" /\ msgs = MaxMsgs
  /\ dpc = "epoll" /\ ~epollout /\ sockFree = SndBuf /\ hup
  /\ UNCHANGED vars

Next == WorkerStart \/ WorkerStep \/ DispatcherStep \/ Client \/ Quiet

Spec == Init /\ [][Next]_vars

\* Both threads are scheduled; a worker need not have anything to send.
ServerFairness == WF_vars(WorkerStep) /\ WF_vars(DispatcherStep)

\* A client that keeps reading, as a player does; it may also hang up.
ReadingClient == WF_vars(\E n \in 1..SndBuf : ClientReads(n))

\* The server against a client that may stop reading at any point, and against
\* one that does not.
ServerSpec  == Spec /\ ServerFairness
ReadingSpec == ServerSpec /\ ReadingClient

-----------------------------------------------------------------------------
(* Invariants.                                                             *)

\* Every variable has its type (SessionEgress's only typing statement).
TypeOK ==
  /\ outbox \in Seq(Message) /\ bytes \in Nat
  /\ armed \in BOOLEAN /\ closeAfterWrite \in BOOLEAN
  /\ wbuf \in Message /\ woff \in Nat
  /\ registered \in BOOLEAN /\ epollout \in BOOLEAN
  /\ sockFree \in 0..SndBuf /\ hup \in BOOLEAN
  /\ wpc \in WorkerPC /\ cur \in [lo : Nat, hi : Nat, kind : Kinds] /\ msgs \in 0..MaxMsgs
  /\ dpc \in DispatcherPC /\ sub \in Nat
  /\ queued \in Nat /\ wire \in Nat /\ covered \in Nat

\* Where the stream continues after what the Dispatcher already holds.
Popped == IF HasBuf THEN wbuf.hi ELSE wire

\* No byte is lost, repeated or reordered between push and send(), however
\* pushes, partial sends and EAGAIN interleave: wbuf_ at woff_, then outbox_,
\* are exactly the part of the stream that is queued and not yet sent.
StreamContiguous ==
  /\ HasBuf => wbuf.lo + woff = wire /\ wire < wbuf.hi
  /\ \A i \in 1..Len(outbox) :
       /\ outbox[i].lo < outbox[i].hi
       /\ outbox[i].lo = IF i = 1 THEN Popped ELSE outbox[i-1].hi
  /\ queued = IF outbox = <<>> THEN Popped ELSE outbox[Len(outbox)].hi

\* Counted but not yet in outbox_; out of outbox_ but still counted.
Entering == IF wpc = "push" THEN Size(cur) ELSE 0
Leaving  == IF dpc \in {"load", "sub"} THEN Size(wbuf) ELSE 0

\* outbox_bytes_ is exact outside the two windows in which the counter and
\* the queue are updated one after the other, so the value compared with the
\* high watermark never drifts and std::min in onWritable never clamps.
ByteAccounting ==
  /\ bytes = (queued - Popped) + Entering + Leaving
  /\ dpc = "sub" => sub = Size(wbuf)

\* The epoll_ctl MOD of enableWrite and the one of onWritable never overlap,
\* and epollout_armed_ mirrors the kernel's interest set outside them.
ArmedMatchesEpoll ==
  /\ wpc = "mod" => armed /\ ~epollout /\ dpc \in {"check", "epoll"}
  /\ epollout => armed /\ registered
  /\ registered /\ armed /\ ~epollout => wpc = "mod" \/ dpc = "store"

\* Whatever was queued when EPOLLOUT was armed keeps EPOLLOUT armed until it
\* has been sent or the session is closed: no disarm forgets it.
CoveredStaysArmed ==
  registered /\ wire < covered =>
    epollout /\ dpc \notin {"disarm", "store"}

\* Flow control: an RTP frame is queued only on top of at most HWM bytes, even
\* though the Dispatcher changes the counter between the test and the push.
FrameAdmission ==
  wpc = "push" /\ cur.kind = "rtp" => bytes <= HWM + Size(cur)

-----------------------------------------------------------------------------
(* Liveness.                                                               *)

\* Every message queued when EPOLLOUT was armed reaches the wire, or the
\* session is closed, as long as the client reads.
ArmedIsDrained ==
  \A k \in 1..(MaxMsgs * MaxSize) :
    (covered >= k) ~> (wire >= k \/ ~registered)

\* close_after_write_ set while EPOLLOUT is armed is not missed: as long as the
\* client reads, the session is closed unless the worker queues more.  (Frames
\* are queued below the high watermark whatever the flag says, so a client that
\* reads slowly may keep the outbox, and with it the session, from its end.)
FlagClosesOnceQuiet ==
  \A k \in 0..(MaxMsgs * MaxSize) :
    (closeAfterWrite /\ epollout /\ queued = k) ~> (~registered \/ queued > k)

\* What the sequence diagram of the README says of every queued message.
\* Violated: see the run egress_lost_wakeup.
EveryMessageDelivered ==
  \A k \in 1..(MaxMsgs * MaxSize) :
    (queued >= k) ~> (wire >= k \/ ~registered)

-----------------------------------------------------------------------------
(* What the README says of closing.  None of these holds.                  *)

\* A client whose outbox is over the high watermark is closed, as the README and
\* the message logged by pushTCPFrame say.  Violated under ServerSpec: the flag is
\* only looked at when the outbox runs empty, which a client that has stopped
\* reading prevents.
SlowClientClosed == (wpc = "hwm") ~> ~registered

\* A session torn down is closed, as the sequence diagram of the README says.
\* Violated even under ReadingSpec: handleTeardown sets the flag after the response
\* is queued, and the Dispatcher may have sent it, found the outbox empty and tested
\* the flag by then.
TeardownCloses == (wpc = "close") ~> ~registered

\* The order of that diagram: the session of a client that has not hung up is
\* closed after the response to TEARDOWN went out.  Violated: a response queued
\* after try_pop found the outbox empty, with the flag set behind it, is overtaken
\* by the test of the flag.
TeardownAnswered ==
  [][registered /\ ~registered' /\ ~hup /\ wpc = "idle" /\ cur.kind = "teardown"
       => wire = queued]_vars

=============================================================================
