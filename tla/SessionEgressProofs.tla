------------------------- MODULE SessionEgressProofs -------------------------
(***************************************************************************)
(* SessionEgress keeps its invariants for every MaxSize, HWM, SndBuf and   *)
(* MaxMsgs.  EgressInv is the conjunction of the invariants the runs check *)
(* and of what each program counter tells about the other variables.       *)
(***************************************************************************)
EXTENDS SessionEgress, SequenceTheorems, TLAPS

\* The worker between composing a message and pushing it.
WorkerPlaces ==
  /\ wpc \in {"add", "push"} => cur.lo = queued /\ queued < cur.hi
  /\ wpc = "add" /\ cur.kind = "rtp" => bytes <= HWM

\* The Dispatcher inside onWritable.
DispatcherPlaces ==
  /\ dpc \in {"load", "sub", "send"} => HasBuf
  /\ dpc \in {"pop", "disarm", "store", "check"} => ~HasBuf
  /\ dpc \in {"load", "sub"} => woff = 0
  /\ dpc # "epoll" => registered
  /\ dpc \in {"pop", "load", "sub", "send", "disarm"} => epollout
  /\ dpc = "store" => armed /\ ~epollout
  /\ dpc \in {"disarm", "store"} => covered <= wire
  /\ covered <= queued

\* Consequences of StreamContiguous that would need induction on outbox.
StreamBounds ==
  /\ Popped <= queued
  /\ \A i \in 1..Len(outbox) : outbox[i].hi <= queued

EgressInv ==
  /\ TypeOK /\ StreamContiguous /\ ByteAccounting /\ ArmedMatchesEpoll
  /\ CoveredStaysArmed /\ FrameAdmission /\ WorkerPlaces /\ DispatcherPlaces
  /\ StreamBounds

-----------------------------------------------------------------------------

\* The initial state: nothing is queued, EPOLLOUT is not armed.
LEMMA InitEgress == Init => EgressInv
<1> SUFFICES ASSUME Init PROVE EgressInv
  OBVIOUS
<1>1. TypeOK
  <2>1. outbox \in Seq(Message) /\ wbuf \in Message
    BY DEF Init, NoBuf, Message
  <2>2. cur \in [lo : Nat, hi : Nat, kind : Kinds]
    BY DEF Init, Kinds
  <2>3. sockFree \in 0..SndBuf /\ msgs \in 0..MaxMsgs
    BY EgressAssumption DEF Init
  <2>4. /\ armed \in BOOLEAN /\ closeAfterWrite \in BOOLEAN /\ registered \in BOOLEAN
        /\ epollout \in BOOLEAN /\ hup \in BOOLEAN
    BY DEF Init
  <2>5. /\ wpc \in WorkerPC /\ dpc \in DispatcherPC /\ bytes \in Nat /\ woff \in Nat
        /\ sub \in Nat /\ queued \in Nat /\ wire \in Nat /\ covered \in Nat
    BY DEF Init, WorkerPC, DispatcherPC
  <2> QED BY <2>1, <2>2, <2>3, <2>4, <2>5 DEF TypeOK
<1>2. ~HasBuf /\ Popped = 0 /\ outbox = <<>> /\ Len(outbox) = 0 /\ wire = 0 /\ queued = 0
  BY DEF Init, HasBuf, Popped
<1>3. StreamContiguous /\ StreamBounds
  BY <1>2 DEF StreamContiguous, StreamBounds
<1>4. ByteAccounting
  BY <1>2 DEF Init, ByteAccounting, Entering, Leaving
<1>5. ArmedMatchesEpoll /\ CoveredStaysArmed /\ FrameAdmission /\ WorkerPlaces
  BY DEF Init, ArmedMatchesEpoll, CoveredStaysArmed, FrameAdmission, WorkerPlaces
<1>6. DispatcherPlaces
  BY DEF Init, DispatcherPlaces
<1> QED BY <1>1, <1>3, <1>4, <1>5, <1>6 DEF EgressInv

\* A step is a step of one action.
LEMMA NextCases ==
  ASSUME [Next]_vars
  PROVE  \/ \E size \in 1..MaxSize, kind \in {"response", "teardown"} : sendResponse(kind, size)
         \/ \E size \in 1..MaxSize : pushTCPFrame(size)
         \/ DropFrame \/ AddBytes \/ PushOutbox \/ TryArm \/ ArmEpoll \/ SetCloseFlag
         \/ EpollOut \/ PopOutbox \/ LoadBytes \/ SubBytes
         \/ \E n \in 1..MaxSize : Send(n)
         \/ SendWouldBlock \/ DisarmEpoll \/ ClearArmed
         \/ CheckClose \/ SendFails \/ EpollHup
         \/ \E n \in 1..SndBuf : ClientReads(n)
         \/ ClientHangsUp \/ UNCHANGED vars
BY DEF Next, WorkerStart, WorkerStep, DispatcherStep, Client, Quiet

\* What the queue looks like after a pop ...
LEMMA PopFacts ==
  ASSUME NEW s \in Seq(Message), s # <<>>
  PROVE  /\ Len(s) \in Nat /\ Len(s) >= 1
         /\ s[1] \in Message /\ Head(s) = s[1]
         /\ Tail(s) \in Seq(Message) /\ Len(Tail(s)) = Len(s) - 1
         /\ \A i \in 1..Len(Tail(s)) : Tail(s)[i] = s[i+1]
         /\ Tail(s) = <<>> <=> Len(s) = 1
<1>1. Len(s) \in Nat /\ Len(s) >= 1
  OBVIOUS
<1>2. Tail(s) \in Seq(Message) /\ Len(Tail(s)) = Len(s) - 1
  BY <1>1
<1>3. Tail(s) = <<>> <=> Len(Tail(s)) = 0
  BY <1>2, EmptySeq
<1> QED BY <1>1, <1>2, <1>3

\* ... and after a push.
LEMMA PushFacts ==
  ASSUME NEW s \in Seq(Message), NEW m \in Message
  PROVE  /\ Append(s, m) \in Seq(Message) /\ Len(s) \in Nat
         /\ Len(Append(s, m)) = Len(s) + 1
         /\ \A i \in 1..Len(s) : Append(s, m)[i] = s[i] /\ s[i] \in Message
         /\ Append(s, m)[Len(s)+1] = m
         /\ Append(s, m) # <<>>
         /\ s = <<>> <=> Len(s) = 0
BY EmptySeq

\* Every step keeps the stream contiguous: only a push, a pop and a send touch it.
LEMMA StreamStep ==
  ASSUME EgressInv, [Next]_vars
  PROVE  StreamContiguous' /\ StreamBounds'
<1> USE DEF TypeOK, Message, Popped, HasBuf, NoBuf, Size, worker, dispatcher,
    kernel, shared, stream
<1>1. CASE PushOutbox
  <2> DEFINE m == [lo |-> cur.lo, hi |-> cur.hi]
  <2>1. m \in Message /\ m.lo = queued /\ m.hi = queued' /\ queued < queued'
    BY <1>1 DEF EgressInv, WorkerPlaces, PushOutbox
  <2>2. outbox' = Append(outbox, m) /\ UNCHANGED <<wire, wbuf, woff>>
    BY <1>1 DEF PushOutbox
  <2> HIDE DEF m
  <2>3. outbox \in Seq(Message) /\ queued \in Nat /\ queued' \in Nat /\ wire \in Nat
    BY <1>1 DEF EgressInv, PushOutbox
  <2>4. /\ Len(outbox') = Len(outbox) + 1 /\ outbox' # <<>> /\ Len(outbox) \in Nat
        /\ \A i \in 1..Len(outbox) : outbox'[i] = outbox[i]
        /\ outbox'[Len(outbox)+1] = m
        /\ outbox = <<>> <=> Len(outbox) = 0
    BY <2>1, <2>2, <2>3, PushFacts
  <2>5. Popped' = Popped
    BY <2>2
  <2> HIDE DEF Popped
  <2>6. ASSUME NEW i \in 1..Len(outbox')
        PROVE  /\ outbox'[i].lo < outbox'[i].hi /\ outbox'[i].hi <= queued'
               /\ outbox'[i].lo = IF i = 1 THEN Popped' ELSE outbox'[i-1].hi
    <3>1. CASE i \in 1..Len(outbox)
      <4>1. outbox'[i] = outbox[i] /\ (i # 1 => outbox'[i-1] = outbox[i-1])
        BY <2>4, <3>1
      <4>2. outbox[i].lo \in Nat /\ outbox[i].hi \in Nat
        BY <2>1, <2>3, <3>1, PushFacts
      <4>3. outbox[i].lo < outbox[i].hi /\ outbox[i].hi <= queued
        BY <3>1 DEF EgressInv, StreamContiguous, StreamBounds
      <4>4. outbox[i].lo = IF i = 1 THEN Popped ELSE outbox[i-1].hi
        BY <3>1 DEF EgressInv, StreamContiguous
      <4>5. outbox'[i].lo < outbox'[i].hi /\ outbox'[i].hi <= queued'
        BY <2>1, <2>3, <4>1, <4>2, <4>3
      <4>6. outbox'[i].lo = IF i = 1 THEN Popped' ELSE outbox'[i-1].hi
        BY <2>5, <4>1, <4>4
      <4> QED BY <4>5, <4>6
    <3>2. CASE i = Len(outbox) + 1
      <4>1. i # 1 => i - 1 = Len(outbox) /\ outbox'[i-1] = outbox[Len(outbox)] /\ outbox # <<>>
        BY <2>4, <3>2
      <4>2. i = 1 => outbox = <<>>
        BY <2>4, <3>2
      <4>3. outbox'[i].lo = queued /\ outbox'[i].hi = queued'
        BY <2>1, <2>4, <3>2
      <4>4. queued = IF outbox = <<>> THEN Popped ELSE outbox[Len(outbox)].hi
        BY DEF EgressInv, StreamContiguous
      <4>5. outbox'[i].lo = IF i = 1 THEN Popped' ELSE outbox'[i-1].hi
        BY <2>5, <4>1, <4>2, <4>3, <4>4
      <4> QED BY <2>1, <2>3, <4>3, <4>5
    <3> QED BY <2>4, <3>1, <3>2
  <2>7. queued' = outbox'[Len(outbox')].hi
    BY <2>1, <2>4
  <2>8. Popped' <= queued'
    <3>1. Popped \in Nat
      BY DEF EgressInv, Popped
    <3> QED BY <2>1, <2>3, <2>5, <3>1 DEF EgressInv, StreamBounds
  <2>9. (HasBuf => wbuf.lo + woff = wire /\ wire < wbuf.hi)'
    BY <2>2 DEF EgressInv, StreamContiguous
  <2> QED BY <2>4, <2>6, <2>7, <2>8, <2>9 DEF StreamContiguous, StreamBounds
<1>2. CASE PopOutbox
  <2>1. CASE outbox = <<>>
    BY <1>2, <2>1 DEF EgressInv, PopOutbox, StreamContiguous, StreamBounds
  <2>2. CASE outbox # <<>>
    <3>1. /\ wbuf' = outbox[1] /\ woff' = 0 /\ UNCHANGED <<wire, queued>>
          /\ outbox' = Tail(outbox) /\ outbox \in Seq(Message) /\ ~HasBuf
      BY <1>2, <2>2, PopFacts DEF EgressInv, PopOutbox, DispatcherPlaces
    <3>2. /\ Len(outbox) \in Nat /\ Len(outbox) >= 1 /\ outbox[1] \in Message
          /\ outbox' \in Seq(Message) /\ Len(outbox') = Len(outbox) - 1
          /\ \A i \in 1..Len(outbox') : outbox'[i] = outbox[i+1]
          /\ outbox' = <<>> <=> Len(outbox) = 1
      BY <2>2, <3>1, PopFacts
    <3>3. outbox[1].lo = wire /\ outbox[1].lo < outbox[1].hi /\ outbox[1].hi <= queued
      <4>1. 1 \in 1..Len(outbox)
        BY <3>2
      <4> QED BY <3>1, <4>1 DEF EgressInv, StreamContiguous, StreamBounds
    <3>4. HasBuf' /\ Popped' = outbox[1].hi
      BY <3>1, <3>2, <3>3
    <3>5. wire \in Nat /\ queued \in Nat
      BY DEF EgressInv
    <3>6. /\ HasBuf' => wbuf'.lo + woff' = wire' /\ wire' < wbuf'.hi
          /\ Popped' <= queued'
      BY <3>1, <3>2, <3>3, <3>4, <3>5
    <3> HIDE DEF Popped, HasBuf
    <3>7. \A i \in 1..Len(outbox') :
            /\ outbox'[i].lo < outbox'[i].hi /\ outbox'[i].hi <= queued'
            /\ outbox'[i].lo = IF i = 1 THEN Popped' ELSE outbox'[i-1].hi
      <4> TAKE i \in 1..Len(outbox')
      <4>1. i + 1 \in 1..Len(outbox) /\ i + 1 # 1 /\ i \in Int /\ (i + 1) - 1 = i
        BY <3>2
      <4>2. outbox[i+1].lo = outbox[i].hi /\ outbox[i+1].lo < outbox[i+1].hi /\ outbox[i+1].hi <= queued
        BY <4>1 DEF EgressInv, StreamContiguous, StreamBounds
      <4>3. outbox'[i] = outbox[i+1]
        BY <3>2
      <4>4. i # 1 => outbox'[i-1] = outbox[i]
        <5>1. i # 1 => i - 1 \in 1..Len(outbox') /\ (i - 1) + 1 = i
          BY <3>2
        <5> QED BY <3>2, <5>1
      <4> QED BY <3>1, <3>4, <4>2, <4>3, <4>4
    <3>8. queued' = IF outbox' = <<>> THEN Popped' ELSE outbox'[Len(outbox')].hi
      <4>1. queued' = outbox[Len(outbox)].hi
        BY <2>2, <3>1 DEF EgressInv, StreamContiguous
      <4>2. outbox' # <<>> => Len(outbox') \in 1..Len(outbox') /\ Len(outbox') + 1 = Len(outbox)
        BY <3>2
      <4>3. outbox' # <<>> => outbox'[Len(outbox')] = outbox[Len(outbox)]
        BY <3>2, <4>2
      <4> QED BY <3>2, <3>4, <4>1, <4>3
    <3> QED BY <3>6, <3>7, <3>8 DEF StreamContiguous, StreamBounds
  <2> QED BY <2>1, <2>2
<1>3. CASE \E n \in 1..MaxSize : Send(n)
  <2> PICK n \in 1..MaxSize : Send(n)
    BY <1>3
  <2>1. /\ HasBuf /\ wbuf.lo + woff = wire /\ wire < wbuf.hi /\ wire' = wire + n
        /\ UNCHANGED <<outbox, queued>> /\ wbuf \in Message /\ wire \in Nat /\ woff \in Nat
    BY DEF EgressInv, Send, DispatcherPlaces, StreamContiguous
  <2>2. n \in 1..(Size(wbuf) - woff)
    BY <2>1, EgressAssumption DEF EgressInv, Send, Lesser
  <2>3. Popped' = Popped /\ (HasBuf' => wbuf'.lo + woff' = wire' /\ wire' < wbuf'.hi)
    BY <2>1, <2>2, EgressAssumption DEF Send
  <2> HIDE DEF Popped, HasBuf
  <2> QED BY <2>1, <2>3 DEF EgressInv, StreamContiguous, StreamBounds
<1>4. CASE \/ \E size \in 1..MaxSize, kind \in {"response", "teardown"} : sendResponse(kind, size)
         \/ \E size \in 1..MaxSize : pushTCPFrame(size)
         \/ DropFrame
         \/ AddBytes
         \/ TryArm
         \/ ArmEpoll
         \/ SetCloseFlag
  BY <1>4 DEF EgressInv, StreamContiguous, StreamBounds, sendResponse, Compose,
     pushTCPFrame, DropFrame, AddBytes, TryArm, Sent, ArmEpoll, SetCloseFlag
<1>5. CASE \/ EpollOut
         \/ LoadBytes
         \/ SubBytes
         \/ SendWouldBlock
         \/ DisarmEpoll
         \/ ClearArmed
         \/ CheckClose
         \/ SendFails
         \/ EpollHup
  BY <1>5 DEF EgressInv, StreamContiguous, StreamBounds, EpollOut, LoadBytes,
     Lesser, SubBytes, SendWouldBlock, DisarmEpoll, ClearArmed, CheckClose,
     closeSession, SendFails, EpollHup
<1>6. CASE \/ \E n \in 1..SndBuf : ClientReads(n)
         \/ ClientHangsUp
         \/ UNCHANGED vars
  BY <1>6 DEF EgressInv, StreamContiguous, StreamBounds, ClientReads, ClientHangsUp,
     vars
<1> QED BY <1>1, <1>2, <1>3, <1>4, <1>5, <1>6, NextCases, EgressAssumption

\* Every step keeps the types.
LEMMA TypeStep ==
  ASSUME EgressInv, [Next]_vars
  PROVE  TypeOK'
<1> USE EgressAssumption DEF TypeOK, Message, Kinds, WorkerPC, DispatcherPC, Size,
    worker, dispatcher, kernel, shared, stream
<1>1. CASE \E size \in 1..MaxSize, kind \in {"response", "teardown"} : sendResponse(kind, size)
  <2>1. PICK size \in 1..MaxSize, kind \in {"response", "teardown"} : sendResponse(kind, size)
    BY <1>1
  <2>2. cur' \in [lo : Nat, hi : Nat, kind : Kinds] /\ msgs' \in 0..MaxMsgs
    BY <2>1 DEF EgressInv, sendResponse, Compose
  <2> QED BY <2>1, <2>2 DEF EgressInv, sendResponse
<1>2. CASE \E size \in 1..MaxSize : pushTCPFrame(size)
  <2>1. PICK size \in 1..MaxSize : pushTCPFrame(size)
    BY <1>2
  <2>2. cur' \in [lo : Nat, hi : Nat, kind : Kinds] /\ msgs' \in 0..MaxMsgs
    BY <2>1 DEF EgressInv, pushTCPFrame, Compose
  <2> QED BY <2>1, <2>2 DEF EgressInv, pushTCPFrame
<1>3. CASE AddBytes
  <2>1. cur.lo \in Nat /\ cur.hi \in Nat /\ cur.lo < cur.hi /\ bytes \in Nat
    BY <1>3 DEF EgressInv, AddBytes, WorkerPlaces
  <2>2. bytes' \in Nat
    BY <1>3, <2>1 DEF AddBytes
  <2> QED BY <1>3, <2>2 DEF EgressInv, AddBytes
<1>4. CASE PushOutbox
  <2>1. outbox' \in Seq(Message)
    BY <1>4, PushFacts DEF EgressInv, PushOutbox
  <2> QED BY <1>4, <2>1 DEF EgressInv, PushOutbox
<1>5. CASE PopOutbox
  <2>1. outbox' \in Seq(Message) /\ wbuf' \in Message /\ woff' \in Nat
    <3>1. CASE outbox = <<>>
      BY <1>5, <3>1 DEF EgressInv, PopOutbox
    <3>2. CASE outbox # <<>>
      <4>1. Head(outbox) \in Message /\ Tail(outbox) \in Seq(Message)
        BY <3>2, PopFacts DEF EgressInv
      <4>2. outbox' = Tail(outbox) /\ wbuf' = Head(outbox) /\ woff' = 0
        BY <1>5, <3>2 DEF PopOutbox
      <4> QED BY <4>1, <4>2
    <3> QED BY <3>1, <3>2
  <2> QED BY <1>5, <2>1 DEF EgressInv, PopOutbox
<1>6. CASE LoadBytes
  <2>1. wbuf.lo + woff = wire /\ wire < wbuf.hi
    BY <1>6 DEF EgressInv, LoadBytes, DispatcherPlaces, StreamContiguous
  <2>2. sub' \in Nat
    BY <1>6, <2>1 DEF EgressInv, LoadBytes, Lesser
  <2> QED BY <1>6, <2>2 DEF EgressInv, LoadBytes
<1>7. CASE SubBytes
  <2>1. Popped \in Nat
    BY DEF EgressInv, Popped
  <2>2. queued - Popped >= 0 /\ queued - Popped \in Int
    BY <2>1 DEF EgressInv, StreamBounds
  <2>3. wpc = "push" => cur.hi - cur.lo >= 0
    BY DEF EgressInv, WorkerPlaces
  <2>4. bytes - sub >= 0
    <3>1. bytes = (queued - Popped) + Entering + sub /\ sub \in Nat
      BY <1>7 DEF EgressInv, SubBytes, ByteAccounting, Leaving
    <3>2. Entering >= 0 /\ Entering \in Int
      BY <2>3 DEF EgressInv, Entering
    <3> QED BY <2>2, <3>1, <3>2
  <2>5. bytes' \in Nat
    BY <1>7, <2>4 DEF EgressInv, SubBytes
  <2> QED BY <1>7, <2>5 DEF EgressInv, SubBytes
<1>8. CASE \E n \in 1..MaxSize : Send(n)
  <2>1. PICK n \in 1..MaxSize : Send(n)
    BY <1>8
  <2>2. sockFree' \in 0..SndBuf /\ wire' \in Nat
    BY <2>1 DEF EgressInv, Send, Lesser
  <2>3. wbuf' \in Message /\ woff' \in Nat
    BY <2>1 DEF EgressInv, Send, NoBuf
  <2> QED BY <2>1, <2>2, <2>3 DEF EgressInv, Send
<1>9. CASE \E n \in 1..SndBuf : ClientReads(n)
  <2>1. sockFree' \in 0..SndBuf
    BY <1>9 DEF EgressInv, ClientReads
  <2> QED BY <1>9, <2>1 DEF EgressInv, ClientReads
<1>10. CASE ClientHangsUp
  BY <1>10 DEF EgressInv, ClientHangsUp
<1>11. CASE UNCHANGED vars
  BY <1>11 DEF EgressInv, vars
<1>12. CASE \/ DropFrame
         \/ TryArm
         \/ ArmEpoll
         \/ SetCloseFlag
  <2>1. CASE DropFrame
    BY <2>1 DEF EgressInv, DropFrame
  <2>2. CASE TryArm
    BY <2>2 DEF EgressInv, TryArm, Sent
  <2>3. CASE ArmEpoll
    BY <2>3 DEF EgressInv, ArmEpoll, Sent
  <2>4. CASE SetCloseFlag
    BY <2>4 DEF EgressInv, SetCloseFlag
  <2> QED BY <1>12, <2>1, <2>2, <2>3, <2>4
<1>13. CASE \/ EpollOut
         \/ SendWouldBlock
         \/ DisarmEpoll
         \/ ClearArmed
         \/ CheckClose
         \/ SendFails
         \/ EpollHup
  <2>1. CASE EpollOut
    BY <2>1 DEF EgressInv, EpollOut
  <2>2. CASE SendWouldBlock
    BY <2>2 DEF EgressInv, SendWouldBlock
  <2>3. CASE DisarmEpoll
    BY <2>3 DEF EgressInv, DisarmEpoll
  <2>4. CASE ClearArmed
    BY <2>4 DEF EgressInv, ClearArmed
  <2>5. CASE CheckClose
    BY <2>5 DEF EgressInv, CheckClose, closeSession
  <2>6. CASE SendFails
    BY <2>6 DEF EgressInv, SendFails, closeSession
  <2>7. CASE EpollHup
    BY <2>7 DEF EgressInv, EpollHup, closeSession
  <2> QED BY <1>13, <2>1, <2>2, <2>3, <2>4, <2>5, <2>6, <2>7
<1> QED BY <1>1, <1>2, <1>3, <1>4, <1>5, <1>6, <1>7, <1>8, <1>9, <1>10, <1>11,
    <1>12, <1>13, NextCases, EgressAssumption

\* The terms of ByteAccounting are numbers.
LEMMA TermTypes ==
  ASSUME TypeOK
  PROVE  Popped \in Nat /\ Entering \in Int /\ Leaving \in Int /\ Size(cur) \in Int /\ Size(wbuf) \in Int
BY DEF TypeOK, Message, Popped, Entering, Leaving, Size

\* Every step keeps outbox_bytes_ exact.
LEMMA BytesStep ==
  ASSUME EgressInv, [Next]_vars
  PROVE  ByteAccounting'
<1> USE DEF TypeOK, worker, dispatcher, kernel, shared, stream
<1>1. CASE AddBytes
  <2>1. /\ Popped' = Popped /\ Leaving' = Leaving /\ UNCHANGED <<queued, dpc, sub, wbuf>>
        /\ Entering = 0 /\ Entering' = Size(cur) /\ bytes' = bytes + Size(cur)
    BY <1>1 DEF AddBytes, Popped, HasBuf, Leaving, Entering, Size
  <2>2. bytes' = (queued' - Popped') + Entering' + Leaving'
    <3>1. /\ Popped \in Nat /\ Leaving \in Int /\ Size(cur) \in Int
          /\ queued \in Nat /\ bytes \in Nat
      BY TermTypes DEF EgressInv
    <3>2. bytes = (queued - Popped) + Leaving
      BY <2>1, <3>1 DEF EgressInv, ByteAccounting
    <3> QED BY <2>1, <3>1, <3>2
  <2>3. dpc' = "sub" => sub' = Size(wbuf)'
    BY <2>1 DEF EgressInv, ByteAccounting, Size
  <2> QED BY <2>2, <2>3 DEF ByteAccounting
<1>2. CASE PushOutbox
  <2>1. /\ Popped' = Popped /\ Leaving' = Leaving /\ UNCHANGED <<bytes, dpc, sub, wbuf>>
        /\ Entering = Size(cur) /\ Entering' = 0
    BY <1>2 DEF PushOutbox, Popped, HasBuf, Leaving, Entering, Size
  <2>2. Size(cur) = queued' - queued /\ queued' \in Nat
    BY <1>2 DEF EgressInv, PushOutbox, WorkerPlaces, Size
  <2>3. bytes' = (queued' - Popped') + Entering' + Leaving'
    <3>1. Popped \in Nat /\ Leaving \in Int /\ queued \in Nat
      BY TermTypes DEF EgressInv
    <3>2. bytes = (queued - Popped) + (queued' - queued) + Leaving
      BY <2>1, <2>2 DEF EgressInv, ByteAccounting
    <3> QED BY <2>1, <2>2, <3>1, <3>2
  <2>4. dpc' = "sub" => sub' = Size(wbuf)'
    BY <2>1 DEF EgressInv, ByteAccounting, Size
  <2> QED BY <2>3, <2>4 DEF ByteAccounting
<1>3. CASE PopOutbox
  <2>1. CASE outbox = <<>>
    BY <1>3, <2>1 DEF EgressInv, ByteAccounting, PopOutbox, Popped, HasBuf, Entering, Leaving, Size
  <2>2. CASE outbox # <<>>
    <3>1. /\ wbuf' = outbox[1] /\ outbox[1] \in Message /\ 1 \in 1..Len(outbox)
          /\ dpc = "pop" /\ dpc' = "load" /\ ~HasBuf /\ UNCHANGED <<bytes, queued, wpc, cur, wire>>
      BY <1>3, <2>2, PopFacts DEF EgressInv, PopOutbox, DispatcherPlaces
    <3>2. outbox[1].lo = wire /\ outbox[1].lo < outbox[1].hi
      BY <3>1 DEF EgressInv, StreamContiguous, Popped
    <3>3. Popped = wire /\ Popped' = outbox[1].hi
      BY <3>1, <3>2 DEF Popped, HasBuf, NoBuf, Message
    <3>4. /\ Entering' = Entering /\ Leaving = 0 /\ Leaving' = outbox[1].hi - outbox[1].lo
          /\ outbox[1].hi \in Nat /\ outbox[1].lo \in Nat
      BY <3>1 DEF Entering, Leaving, Size, Message
    <3>5. bytes' = (queued' - Popped') + Entering' + Leaving'
      <4>1. bytes = (queued - wire) + Entering
        BY <3>3, <3>4, TermTypes DEF EgressInv, ByteAccounting
      <4>2. bytes' = bytes /\ queued' = queued /\ Leaving' = Popped' - wire /\ Popped' \in Nat
        BY <3>1, <3>2, <3>3, <3>4
      <4>3. Entering \in Int /\ queued \in Nat /\ wire \in Nat
        BY TermTypes DEF EgressInv
      <4> QED BY <3>4, <4>1, <4>2, <4>3
    <3> QED BY <3>1, <3>5 DEF ByteAccounting
  <2> QED BY <2>1, <2>2
<1>4. CASE LoadBytes
  <2>1. /\ Popped' = Popped /\ Leaving' = Leaving /\ Entering' = Entering
        /\ Leaving = Size(wbuf) /\ UNCHANGED <<bytes, queued, wbuf>>
    BY <1>4 DEF LoadBytes, Popped, HasBuf, Entering, Leaving, Size
  <2>2. Entering >= 0
    BY DEF EgressInv, WorkerPlaces, Entering, Size, Message
  <2>3. Size(wbuf) <= bytes
    BY <2>1, <2>2, TermTypes DEF EgressInv, ByteAccounting, StreamBounds
  <2>4. sub' = Size(wbuf) /\ Size(wbuf)' = Size(wbuf)
    BY <1>4, <2>3 DEF LoadBytes, Lesser, Size
  <2> QED BY <2>1, <2>4 DEF EgressInv, ByteAccounting
<1>5. CASE SubBytes
  <2>1. /\ Popped' = Popped /\ Entering' = Entering /\ Leaving' = 0 /\ Leaving = Size(wbuf)
        /\ bytes' = bytes - sub /\ dpc = "sub" /\ dpc' = "send" /\ UNCHANGED queued
    BY <1>5 DEF SubBytes, Popped, HasBuf, Entering, Leaving, Size
  <2>2. bytes = (queued - Popped) + Entering + sub /\ sub \in Nat
    BY <2>1 DEF EgressInv, ByteAccounting
  <2>3. bytes' = (queued' - Popped') + Entering' + Leaving'
    <3>1. Popped \in Nat /\ Entering \in Int /\ queued \in Nat /\ bytes \in Nat
      BY TermTypes DEF EgressInv
    <3>2. bytes - sub = (queued - Popped) + Entering
      BY <2>2, <3>1
    <3> QED BY <2>1, <3>1, <3>2
  <2> QED BY <2>1, <2>3 DEF ByteAccounting
<1>6. CASE \E n \in 1..MaxSize : Send(n)
  <2> PICK n \in 1..MaxSize : Send(n)
    BY <1>6
  <2>1. /\ HasBuf /\ wbuf.lo + woff = wire /\ wire < wbuf.hi /\ wire' = wire + n
        /\ wbuf \in Message /\ wire \in Nat /\ woff \in Nat
    BY DEF EgressInv, Send, DispatcherPlaces, StreamContiguous
  <2>2. Popped' = Popped
    BY <2>1 DEF Send, Popped, HasBuf, NoBuf, Message, Size
  <2>3. Entering' = Entering /\ Leaving' = Leaving /\ dpc' # "sub" /\ UNCHANGED <<bytes, queued>>
    BY DEF Send, Entering, Leaving, Size
  <2> QED BY <2>2, <2>3 DEF EgressInv, ByteAccounting
<1>7. CASE \/ \E size \in 1..MaxSize, kind \in {"response", "teardown"} : sendResponse(kind, size)
         \/ \E size \in 1..MaxSize : pushTCPFrame(size)
         \/ DropFrame
         \/ TryArm
         \/ ArmEpoll
         \/ SetCloseFlag
  <2>1. CASE \E size \in 1..MaxSize, kind \in {"response", "teardown"} : sendResponse(kind, size)
    BY <2>1 DEF EgressInv, ByteAccounting, Popped, HasBuf, Entering, Leaving, Size, sendResponse, Compose
  <2>2. CASE \E size \in 1..MaxSize : pushTCPFrame(size)
    BY <2>2 DEF EgressInv, ByteAccounting, Popped, HasBuf, Entering, Leaving, Size, pushTCPFrame, Compose
  <2>3. CASE DropFrame
    BY <2>3 DEF EgressInv, ByteAccounting, Popped, HasBuf, Entering, Leaving, Size, DropFrame
  <2>4. CASE TryArm
    BY <2>4 DEF EgressInv, ByteAccounting, Popped, HasBuf, Entering, Leaving, Size, TryArm, Sent
  <2>5. CASE ArmEpoll
    BY <2>5 DEF EgressInv, ByteAccounting, Popped, HasBuf, Entering, Leaving, Size, ArmEpoll, Sent
  <2>6. CASE SetCloseFlag
    BY <2>6 DEF EgressInv, ByteAccounting, Popped, HasBuf, Entering, Leaving, Size, SetCloseFlag
  <2> QED BY <1>7, <2>1, <2>2, <2>3, <2>4, <2>5, <2>6
<1>8. CASE \/ EpollOut
         \/ SendWouldBlock
         \/ DisarmEpoll
         \/ ClearArmed
         \/ CheckClose
         \/ SendFails
         \/ EpollHup
  BY <1>8 DEF EgressInv, ByteAccounting, Popped, HasBuf, Entering, Leaving, Size,
     EpollOut, SendWouldBlock, DisarmEpoll, ClearArmed, CheckClose, closeSession,
     SendFails, EpollHup
<1>9. CASE \/ \E n \in 1..SndBuf : ClientReads(n)
         \/ ClientHangsUp
         \/ UNCHANGED vars
  BY <1>9 DEF EgressInv, ByteAccounting, Popped, HasBuf, Entering, Leaving, Size,
     ClientReads, ClientHangsUp, vars
<1> QED BY <1>1, <1>2, <1>3, <1>4, <1>5, <1>6, <1>7, <1>8, <1>9, NextCases,
    EgressAssumption

\* Every step keeps epollout_armed_ and the interest set together.
LEMMA ArmStep ==
  ASSUME EgressInv, [Next]_vars
  PROVE  ArmedMatchesEpoll'
<1> USE DEF TypeOK, WorkerPC, DispatcherPC, worker, dispatcher, kernel, shared,
    stream
<1>1. CASE \/ \E size \in 1..MaxSize, kind \in {"response", "teardown"} : sendResponse(kind, size)
         \/ \E size \in 1..MaxSize : pushTCPFrame(size)
         \/ DropFrame
         \/ AddBytes
         \/ PushOutbox
         \/ TryArm
         \/ ArmEpoll
         \/ SetCloseFlag
  <2>1. CASE \E size \in 1..MaxSize, kind \in {"response", "teardown"} : sendResponse(kind, size)
    BY <2>1 DEF EgressInv, DispatcherPlaces, ArmedMatchesEpoll, sendResponse, Compose
  <2>2. CASE \E size \in 1..MaxSize : pushTCPFrame(size)
    BY <2>2 DEF EgressInv, DispatcherPlaces, ArmedMatchesEpoll, pushTCPFrame, Compose
  <2>3. CASE DropFrame
    BY <2>3 DEF EgressInv, DispatcherPlaces, ArmedMatchesEpoll, DropFrame
  <2>4. CASE AddBytes
    BY <2>4 DEF EgressInv, DispatcherPlaces, ArmedMatchesEpoll, AddBytes
  <2>5. CASE PushOutbox
    BY <2>5 DEF EgressInv, DispatcherPlaces, ArmedMatchesEpoll, PushOutbox
  <2>6. CASE TryArm
    BY <2>6 DEF EgressInv, DispatcherPlaces, ArmedMatchesEpoll, TryArm, Sent
  <2>7. CASE ArmEpoll
    BY <2>7 DEF EgressInv, DispatcherPlaces, ArmedMatchesEpoll, ArmEpoll, Sent
  <2>8. CASE SetCloseFlag
    BY <2>8 DEF EgressInv, DispatcherPlaces, ArmedMatchesEpoll, SetCloseFlag
  <2> QED BY <1>1, <2>1, <2>2, <2>3, <2>4, <2>5, <2>6, <2>7, <2>8
<1>2. CASE \/ EpollOut
         \/ PopOutbox
         \/ LoadBytes
         \/ SubBytes
         \/ \E n \in 1..MaxSize : Send(n)
         \/ SendWouldBlock
         \/ DisarmEpoll
         \/ ClearArmed
         \/ CheckClose
         \/ SendFails
         \/ EpollHup
  BY <1>2 DEF EgressInv, DispatcherPlaces, ArmedMatchesEpoll, Size, EpollOut,
     PopOutbox, LoadBytes, Lesser, SubBytes, Send, SendWouldBlock, DisarmEpoll,
     ClearArmed, CheckClose, closeSession, SendFails, EpollHup
<1>3. CASE \/ \E n \in 1..SndBuf : ClientReads(n)
         \/ ClientHangsUp
         \/ UNCHANGED vars
  BY <1>3 DEF EgressInv, DispatcherPlaces, ArmedMatchesEpoll, Size, ClientReads,
     ClientHangsUp, vars
<1> QED BY <1>1, <1>2, <1>3, NextCases, EgressAssumption

\* Every step keeps covered messages armed.
LEMMA CoveredStep ==
  ASSUME EgressInv, [Next]_vars
  PROVE  CoveredStaysArmed'
<1> USE DEF TypeOK, DispatcherPC, worker, dispatcher, kernel, shared, stream
<1>1. CASE ArmEpoll
  BY <1>1 DEF EgressInv, ArmedMatchesEpoll, CoveredStaysArmed, ArmEpoll, Sent
<1>2. CASE PopOutbox
  BY <1>2 DEF EgressInv, DispatcherPlaces, CoveredStaysArmed, StreamContiguous,
     Popped, PopOutbox
<1>3. CASE \E n \in 1..MaxSize : Send(n)
  BY <1>3 DEF EgressInv, CoveredStaysArmed, Send, Lesser
<1>4. CASE \/ \E size \in 1..MaxSize, kind \in {"response", "teardown"} : sendResponse(kind, size)
         \/ \E size \in 1..MaxSize : pushTCPFrame(size)
         \/ DropFrame
         \/ AddBytes
         \/ PushOutbox
         \/ TryArm
         \/ SetCloseFlag
  BY <1>4 DEF EgressInv, DispatcherPlaces, CoveredStaysArmed, sendResponse, Compose,
     pushTCPFrame, DropFrame, AddBytes, PushOutbox, TryArm, Sent, SetCloseFlag
<1>5. CASE \/ EpollOut
         \/ LoadBytes
         \/ SubBytes
         \/ SendWouldBlock
         \/ DisarmEpoll
         \/ ClearArmed
         \/ CheckClose
         \/ SendFails
         \/ EpollHup
  BY <1>5 DEF EgressInv, DispatcherPlaces, CoveredStaysArmed, EpollOut, LoadBytes,
     Lesser, SubBytes, SendWouldBlock, DisarmEpoll, ClearArmed, CheckClose,
     closeSession, SendFails, EpollHup
<1>6. CASE \/ \E n \in 1..SndBuf : ClientReads(n)
         \/ ClientHangsUp
         \/ UNCHANGED vars
  BY <1>6 DEF EgressInv, DispatcherPlaces, CoveredStaysArmed, ClientReads,
     ClientHangsUp, vars
<1> QED BY <1>1, <1>2, <1>3, <1>4, <1>5, <1>6, NextCases, EgressAssumption

\* Every step keeps the flow-control bound.
LEMMA AdmissionStep ==
  ASSUME EgressInv, [Next]_vars
  PROVE  FrameAdmission' /\ WorkerPlaces'
<1> USE EgressAssumption DEF TypeOK, Message, Size, worker, dispatcher, kernel,
    shared, stream
<1>1. CASE \E size \in 1..MaxSize, kind \in {"response", "teardown"} : sendResponse(kind, size)
  BY <1>1 DEF EgressInv, WorkerPlaces, FrameAdmission, sendResponse, Compose
<1>2. CASE \E size \in 1..MaxSize : pushTCPFrame(size)
  BY <1>2 DEF EgressInv, WorkerPlaces, FrameAdmission, pushTCPFrame, Compose
<1>3. CASE AddBytes
  BY <1>3 DEF EgressInv, WorkerPlaces, FrameAdmission, AddBytes
<1>4. CASE SubBytes
  BY <1>4 DEF EgressInv, WorkerPlaces, FrameAdmission, SubBytes
<1>5. CASE \/ DropFrame
         \/ PushOutbox
         \/ TryArm
         \/ ArmEpoll
         \/ SetCloseFlag
  BY <1>5 DEF EgressInv, WorkerPlaces, FrameAdmission, DropFrame, PushOutbox,
     TryArm, Sent, ArmEpoll, SetCloseFlag
<1>6. CASE \/ EpollOut
         \/ PopOutbox
         \/ LoadBytes
         \/ \E n \in 1..MaxSize : Send(n)
         \/ SendWouldBlock
         \/ DisarmEpoll
         \/ ClearArmed
         \/ CheckClose
         \/ SendFails
         \/ EpollHup
  BY <1>6 DEF EgressInv, WorkerPlaces, FrameAdmission, EpollOut, PopOutbox,
     LoadBytes, Lesser, Send, SendWouldBlock, DisarmEpoll, ClearArmed, CheckClose,
     closeSession, SendFails, EpollHup
<1>7. CASE \/ \E n \in 1..SndBuf : ClientReads(n)
         \/ ClientHangsUp
         \/ UNCHANGED vars
  BY <1>7 DEF EgressInv, WorkerPlaces, FrameAdmission, ClientReads, ClientHangsUp,
     vars
<1> QED BY <1>1, <1>2, <1>3, <1>4, <1>5, <1>6, <1>7, NextCases, EgressAssumption

\* Every step keeps what the Dispatcher's place tells.
LEMMA PlacesStep ==
  ASSUME EgressInv, [Next]_vars
  PROVE  DispatcherPlaces'
<1> USE DEF TypeOK, Message, DispatcherPC, HasBuf, NoBuf, worker, dispatcher,
    kernel, shared, stream
<1>1. CASE PushOutbox
  <2>1. queued' > queued /\ queued \in Nat /\ queued' \in Nat /\ covered \in Nat
    BY <1>1 DEF EgressInv, PushOutbox, WorkerPlaces
  <2> QED BY <1>1, <2>1 DEF EgressInv, PushOutbox, DispatcherPlaces
<1>2. CASE TryArm
  BY <1>2 DEF EgressInv, DispatcherPlaces, ArmedMatchesEpoll, TryArm, Sent
<1>3. CASE ArmEpoll
  BY <1>3 DEF EgressInv, DispatcherPlaces, ArmedMatchesEpoll, ArmEpoll, Sent
<1>4. CASE EpollOut
  BY <1>4 DEF EgressInv, DispatcherPlaces, ArmedMatchesEpoll, EpollOut
<1>5. CASE PopOutbox
  <2>1. CASE outbox = <<>>
    BY <1>5, <2>1 DEF EgressInv, PopOutbox, DispatcherPlaces, StreamContiguous, Popped
  <2>2. CASE outbox # <<>>
    <3>1. /\ wbuf' = outbox[1] /\ outbox[1] \in Message /\ Len(outbox) >= 1 /\ Len(outbox) \in Nat
      BY <1>5, <2>2, PopFacts DEF EgressInv, PopOutbox
    <3>2. outbox[1].lo < outbox[1].hi
      BY <3>1 DEF EgressInv, StreamContiguous
    <3>3. wbuf' # NoBuf
      BY <3>1, <3>2
    <3> QED BY <1>5, <2>2, <3>3 DEF EgressInv, PopOutbox, DispatcherPlaces
  <2> QED BY <2>1, <2>2
<1>6. CASE \E n \in 1..MaxSize : Send(n)
  <2> PICK n \in 1..MaxSize : Send(n)
    BY <1>6
  <2>1. n \in Nat /\ wire' = wire + n
    BY DEF Send
  <2> QED BY <2>1 DEF EgressInv, Send, DispatcherPlaces
<1>7. CASE DisarmEpoll
  BY <1>7 DEF EgressInv, DispatcherPlaces, ArmedMatchesEpoll, DisarmEpoll
<1>8. CASE ClearArmed
  BY <1>8 DEF EgressInv, DispatcherPlaces, ArmedMatchesEpoll, ClearArmed
<1>9. CASE CheckClose
  BY <1>9 DEF EgressInv, DispatcherPlaces, ArmedMatchesEpoll, CheckClose,
     closeSession
<1>10. CASE \E n \in 1..SndBuf : ClientReads(n)
  BY <1>10 DEF EgressInv, DispatcherPlaces, ClientReads
<1>11. CASE \/ \E size \in 1..MaxSize, kind \in {"response", "teardown"} : sendResponse(kind, size)
         \/ \E size \in 1..MaxSize : pushTCPFrame(size)
         \/ DropFrame
         \/ AddBytes
         \/ SetCloseFlag
  <2>1. CASE \E size \in 1..MaxSize, kind \in {"response", "teardown"} : sendResponse(kind, size)
    BY <2>1 DEF EgressInv, DispatcherPlaces, sendResponse, Compose
  <2>2. CASE \E size \in 1..MaxSize : pushTCPFrame(size)
    BY <2>2 DEF EgressInv, DispatcherPlaces, pushTCPFrame, Compose
  <2>3. CASE DropFrame
    BY <2>3 DEF EgressInv, DispatcherPlaces, DropFrame
  <2>4. CASE AddBytes
    BY <2>4 DEF EgressInv, DispatcherPlaces, AddBytes
  <2>5. CASE SetCloseFlag
    BY <2>5 DEF EgressInv, DispatcherPlaces, SetCloseFlag
  <2> QED BY <1>11, <2>1, <2>2, <2>3, <2>4, <2>5
<1>12. CASE LoadBytes \/ SubBytes
  BY <1>12 DEF EgressInv, DispatcherPlaces, LoadBytes, SubBytes
<1>13. CASE SendWouldBlock
  BY <1>13 DEF EgressInv, DispatcherPlaces, SendWouldBlock
<1>14. CASE SendFails \/ EpollHup
  BY <1>14 DEF EgressInv, DispatcherPlaces, SendFails, closeSession, EpollHup
<1>15. CASE \/ ClientHangsUp
         \/ UNCHANGED vars
  BY <1>15 DEF EgressInv, DispatcherPlaces, ClientHangsUp, vars
<1> QED BY <1>1, <1>2, <1>3, <1>4, <1>5, <1>6, <1>7, <1>8, <1>9, <1>10, <1>11,
    <1>12, <1>13, <1>14, <1>15, NextCases, EgressAssumption

\* The invariant is inductive.
LEMMA EgressInductive == EgressInv /\ [Next]_vars => EgressInv'
BY StreamStep, TypeStep, BytesStep, ArmStep, CoveredStep, AdmissionStep, PlacesStep DEF EgressInv

-----------------------------------------------------------------------------

\* The inductive invariant holds in every reachable state.
THEOREM EgressInvariant == Spec => []EgressInv
<1>1. Init => EgressInv
  BY InitEgress
<1>2. EgressInv /\ [Next]_vars => EgressInv'
  BY EgressInductive
<1> QED BY <1>1, <1>2, PTL DEF Spec

\* Types, whatever the sizes and bounds.
THEOREM TypeCorrect == Spec => []TypeOK
BY EgressInvariant, PTL DEF EgressInv

\* push / try_pop / partial send() / EAGAIN of RTSPSession.cpp never lose,
\* repeat or reorder a byte of the connection's stream.
THEOREM StreamIsContiguous == Spec => []StreamContiguous
BY EgressInvariant, PTL DEF EgressInv

\* outbox_bytes_ equals what is queued, outside the two update windows.
THEOREM BytesAreExact == Spec => []ByteAccounting
BY EgressInvariant, PTL DEF EgressInv

\* enableWrite and onWritable never race on the interest set.
THEOREM ArmedIsEpollout == Spec => []ArmedMatchesEpoll
BY EgressInvariant, PTL DEF EgressInv

\* What was queued when EPOLLOUT was armed keeps it armed until sent.
THEOREM CoveredIsArmed == Spec => []CoveredStaysArmed
BY EgressInvariant, PTL DEF EgressInv

\* No RTP frame is queued on top of more than HWM bytes.
THEOREM FramesAdmitted == Spec => []FrameAdmission
BY EgressInvariant, PTL DEF EgressInv
=============================================================================
