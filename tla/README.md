# rtsp_server in TLA+

A model of the server's threads and queues, of a session's send and receive
paths, of its playback and of the way of a frame to the player, checked with TLC
and proved with TLAPS. Line numbers refer to the repository; `PROJECT.json` maps
every definition to the lines it models.

## The system

| Part | State | Operations | Talks to |
|---|---|---|---|
| **Dispatcher** (`Reactor::dispatcherLoop`, `acceptClient`, `closeSession`) | epoll set, `sessions_` (with a lock) | accept, read requests, drain outboxes, close | pushes `{fd, request}` on `cmd_queue_`, writes `logic_efd_` |
| **Logic** (`logicLoop`) | none of its own | look the descriptor up, move the request to the session | session's `cmd_queue_`, `pacer_efd_` |
| **Pacer** (`pacerLoop`) | snapshot of the sessions | on timer or kick, claim each session's slot and submit a tick | `ThreadPool` |
| **Workers** (`ThreadPool`) | task queue | run `pacerTick`, free the slot | the session |
| **run / stop** | `running_`, stop tokens | join threads in order, shut the pool down, clear `sessions_` | all threads |
| **RTSPSession, egress** | `outbox_`, `outbox_bytes_`, `epollout_armed_`, `close_after_write_`, `wbuf_` | `sendResponse`, `pushTCPFrame`, `enableWrite`, `onWritable` | shared by a worker and the Dispatcher |
| **RTSPSession, playback** | `state_`, anchors, held frames, gates, RTP clocks | RTSP methods, `pacerTick` | `MediaSource` |
| **MediaSource** | demuxer position, offsets, audio queue, prefetched frame | `readPacket`, `seek`, `seekToSeconds`, `peekNextVideoRTPTimestamp` | FFmpeg (external) |
| **BlockingQueue** | deque, `closed_`, two condition variables | blocking, timed and immediate push and pop, `close` | `ThreadPool` |
| **RTSPSession, ingress** (`onReadable`, `RTSPRequest::parse`) | `recv_buf_` | receive, frame, parse | called by the Dispatcher |
| **Video path** (`parseExtradata`, `AnnexBParser`, `H264Packetizer`, `RTPPacket`, `sendVideoRTP`, `base64Encode`) | SPS and PPS, `rtp_seq_` | split, packetize, number, frame | from `MediaSource` to the transport |
| Responses, SDP text, strings, logger, start-up | none, or set-up only | formatting | not modelled |

What is hard here: one session is touched by four kinds of thread; wake-ups go
through counters and level-triggered epoll, where a lost one leaves a client
waiting for ever; descriptors are numbers the kernel reuses; a session lives as
long as its last `shared_ptr`; shutdown must follow one order; playback mixes
two readings of the clock, two RTP clocks, held and prefetched frames, and
requests that arrive in any state; TCP cuts what a client sends anywhere, and
packets get lost. `PROJECT.json` lists these as hazards, each
at its line, with the property that covers it or the reason none does yet.

## Modules

**`SessionEgress`**: one session's outbox between a worker and the Dispatcher.
One action is one atomic operation of the code, in program order: the load of
`outbox_bytes_`, its `fetch_add`, the push, the compare-exchange and the
`epoll_ctl` of `enableWrite`; the `try_pop`, load, `fetch_sub`, `send`,
`epoll_ctl`, store and test of `onWritable`. A message is the interval it
occupies in the connection's byte stream, so that "lost", "twice" and "out of
order" can be stated exactly while content is left out. The kernel's buffer and
the client are part of the model. Atomics are sequentially consistent.
`covered` is a history variable: what was queued when EPOLLOUT was last armed.

**`Reactor`**: Dispatcher, Logic, Pacer, workers, `stop()`, signals and `run()`
from the start of the threads to the end. `sessions` maps descriptors to
sessions. Who holds a reference is computed from the threads' own variables
(`HeldOutside`), and a number may be handed out again only when no live session
has it (`FreeFd`). Simplifications, none of which removes a behaviour the
properties tell apart: a registered descriptor may be closed at any time
(hang-up, error, EOF, a full receive buffer, `onWritable` returning false); how
`handleRequest` ends is chosen when it is called; the timer may fire at any
time, so the kick through `pacer_efd_` adds nothing; `stop()` clears `running_`
and writes `wake_fd_` in one step; a `try_pop` and the lookup that follows are
one step; the Dispatcher's own references are left out, because only it accepts.
`onReadable` returns: that it may not (`onReadableSpins`) is the business of `Receive`.

**`MediaSource`**: the demuxer as operators on a record. `Landing` (what
`av_seek_frame` does with `AVSEEK_FLAG_BACKWARD`) is external. Presentation times
are in units of their stream's time base (`VideoBase`, `AudioBase`), RTP times in
ticks of the 90 kHz clock or in samples, and `uint32_t` arithmetic is modulo
`Mod`. `Rescale` is `av_rescale_q`, which rounds to the nearest; `Cut` is a product
of doubles cast to an integer, which rounds down and, where the result is whole,
may come out one less: `CutShort` says where, and the proofs allow it anywhere.
npt times are whole ticks. The probe of `seekToSeconds` finds the key frame that was
landed on, since that is the first packet there; so its limit of 256 packets is never
met, and the second `av_seek_frame` goes back to the same key frame. Packets without a
NAL unit, for which the tick returns early (RTSPSession.cpp:714), are left out.

**`RTSPSession`**: extends `MediaSource`. The RTSP methods and `pacerTick`; one
action per handler, and one per way through the media part of a tick (idle, held
frame dropped, end of file, gated, end of range, frame not due, frame sent).
Ticks of a session do not overlap (proved of `Reactor`), so a handler is one
step, but the clock may run between the moment the Pacer read `now` and the
moment a handler reads `Clock::now()` (`MaxLag`). Requests refused with 455 or
400 change nothing and are no step. History variables: `lastSent`, `promise`
(RTP-Info's rtptime), `wanted` (the frame Range asks for), `scaleFloor`, `pace`
and `pausedAt`.

**`BlockingQueue`**: the queue under `ThreadPool`. One action is one critical
section of `mutex_` or one notification after it. A wait releases the mutex and
enters the condition variable in one step, which is what the standard promises; a
woken thread has to take the mutex again and test again, and may find that
another one was faster. Timed waits expire at any moment, any wait may end for no
reason. **`BoundedFifo`** is what the queue promises: calls take effect in one
step, in any order the overlap of calls allows, and a call that can take effect
does. `ImplementsFifo` is the refinement, with `queue`, `closed` and `call`
mapped to themselves: locks and waiters have no counterpart above.

**`ThreadPool`**: `submit`, `shutdown` and `workerLoop`, composed with
`BoundedFifo` instead of `BlockingQueue`: its queue calls are `Invoke`, some
`TakeEffect`, `Return`. `submit` tests `is_closed()` and pushes in two steps, so a
shutdown may come between them. A task is one callable that ends. A `shutdown`
that finds `shutdown_done_` set returns at once, also while the first one is still
joining; it is no step, and `stopped` speaks of the one that joins.

**`Receive`**: `onReadable` and `RTSPRequest::parse` over a stream of cells, the
things the code tells apart. The blank line is one cell, because `find` sees all
of it or none; of the header names only the spelling of `Content-Length` matters.
Its value may be any text: `stoul` wraps a negative number, and the handler of its
exception leaves 0. `onReadable` takes the first header of the usual spelling, else
the first in lower case; `parse` every spelling, and the last header. Sizes are
modulo `SizeMod`, so `body_start + body_len` may wrap, and a message of size 0 sends
the loop round for ever (`spinning`).
A read takes everything that has arrived. EPOLLRDHUP closes the session before
anything is read, as the Dispatcher does. `after` is where the parse loop goes on
behind one message or frame, `messages` the whole loop.

**`VideoPath`**: from extradata and Annex-B frames to packets, in bytes, because
the properties are about bytes. `pacerTick` here is step 8 of the tick only (its
timing is in `RTSPSession`). Losing a packet stands for a lost datagram and for a
frame dropped at the high watermark; both happen after the sequence number was
used. The player (`Deframed`, `Fields`, `Player`, `Decode64`) is written from
the RFCs and serves as the reference. Datagrams are not reordered. `Nal`, `Frame`
and `Container` say what an encoder and a container hold: NAL units with no start
code inside, no zero at the end (H.264 7.4.1) and not of type 28, which RFC 6184
takes for fragments; and no more or longer parameter sets than an avcC record can count.

**`MCSessionEgress`, `MCReactor`, `MCRTSPSession`, `MCBlockingQueue`,
`MCReceive`, `MCVideoPath`**: constants for TLC (`ThreadPool` needs none).
**`SessionEgressProofs`, `ReactorProofs`, `BlockingQueueProofs`,
`ThreadPoolProofs`, `RTSPSessionProofs`, `ReceiveProofs`, `VideoPathProofs`**: the
theorems. **`SequenceLemmas`**: what the last three have in common, least and
greatest numbers, whole division, and what `FlattenSeq` computes.

## Runs

| Run | Expected | What it shows |
|---|---|---|
| `egress` | pass | `StreamContiguous`, `ByteAccounting`, `ArmedMatchesEpoll`, `CoveredStaysArmed`, `FrameAdmission`; under fairness `ArmedIsDrained`, `FlagClosesOnceQuiet` |
| `egress_lost_wakeup` | violation | a message pushed just before `epollout_armed_` is cleared is never sent |
| `reactor_safety` | pass | `TickExclusive`, `FdOwnership`, `NoLostKick`, `DrainedBeforeClear`, `NoSubmitAfterClose`, with requests that may throw |
| `reactor_live` | pass | `SlotOwned`, `OwnRequestsInOrder`; under fairness `CommandServed`, `StopTerminates`, when no request throws |
| `reactor_slot_leak` | violation | an exception leaves the slot claimed |
| `reactor_misrouted` | violation | a queued request reaches the next owner of the descriptor number |
| `playback` | pass | `DecodableStream`, `RtpInfoHonoured`, `InPace`, `LoopContinues`, `ScaleNeverBackward` |
| `playback_stale_seek` | violation | a prefetched frame survives a seek |
| `queue` | pass | `NoLostWakeup`; under fairness the refinement `ImplementsFifo` |
| `pool` | pass | `ShutdownDrains`; under fairness `EveryTaskRuns`, `ShutdownReturns` |
| `receive` | pass | `FramingExact`, `ClosedOnlyOnOverflow`, with malformed messages among the others |
| `video` | pass | `SdpDescribesStream`, `StreamReassembles`, `MarkerEndsFrame`, `FragmentsFit` |

Each passing run also checks its module's `TypeOK` (except `reactor_live`).
Every property of a passing run is broken by a mutant of the model that a
plausible slip in the code would produce; the mutants stand next to the
definitions they replace.

The violation runs are places where the code does not do what the repository says
of it; `PROJECT.json` quotes the line in each finding. `playback_stale_seek` has a
sequel the run is too short for: if the stale frame is later than the place the second
PLAY asks for, every frame after it is behind the anchor, and the unsigned difference
at RTSPSession.cpp:753 holds it until the RTP clock has wrapped, 13 hours.

### Disagreements without a run of their own

Six more statements of the repository are written down in the modules and do not hold
of the code. Each is refuted within a minute when it takes the place of the properties
of the cfg named (`SlowClientClosed` under `ServerSpec`, where a client may stop
reading). No proof and no passing run rests on them.

| Statement | cfg | What the code does |
|---|---|---|
| `SlowClientClosed` (README.md:15, "the session is closed rather than blocking the Pacer") | `egress` | `close_after_write_` is only looked at when the outbox runs empty, which a client that stops reading prevents. One that goes on reading slowly is no safer: `pushTCPFrame` never looks at the flag, so below the watermark frames are queued again and the outbox may never be empty |
| `TeardownCloses` (README.md:276, `closeSession(fd)`) | `egress` | `handleTeardown` sets the flag (647) behind the response (646); if the Dispatcher has sent that and tested the flag (170) in between, nothing tests it again |
| `TeardownAnswered` (README.md:275-276, first `200 OK`, then `closeSession(fd)`) | `egress` | the flag is tested after a `try_pop` that found nothing (162); a response queued in between, with the flag set behind it, is dropped with the session |
| `LoopReturns` (RTSPSession.cpp:101, "Parse as many complete RTSP messages as the buffer holds."; README.md:8, "no thread blocks") | `receive` | if `body_start + body_len` (142) wraps to 0, nothing is erased, nothing parsed, and the loop starts again with the same buffer: the Dispatcher never returns. `onReadableSpins` is that step |
| `AudioInStep` (MediaSource.cpp:444, "Reset audio anchor to the same seek position") | `playback` | the offset is cut from the key frame's time (446), the anchor from that time rounded to ticks (434, RTSPSession.cpp:744), which may be a sample later; `audioIsDue` (857) then waits for an unsigned difference close to 2^32. `adjustRTPOffset` adds cut numbers (457), and a product of doubles may fall short, which does the same |
| `ScaleKeepsClock` (RTSPSession.cpp:480-482, "the decoder never sees a backward timestamp") | `playback` | at the end of the file `last_video_rtp_` is 0 (707), `seekAndReset` (492) takes that as "nothing sent", and a Scale PLAY before the first frame of the loop takes the clock back |

### Where the properties stop

* `FlagClosesOnceQuiet` asks for a flag set while EPOLLOUT is armed, for a client that
  reads, and for a worker that queues nothing more: each of the three is needed, as the
  first two statements above show.
* `ScaleNeverBackward` leaves out the Scale PLAY of `ScaleKeepsClock`.
* `FramingExact` and `ClosedOnlyOnOverflow` speak of clients whose messages are well
  formed (`Canonical`): an interleaved frame as long as its header says, a text whose
  Content-Length headers, in either spelling, agree with its body. Of the others only
  `TypeOK` is claimed. Such messages have no end that one could ask the code to find:
  with a third spelling `onReadable` (126) sees no body where `RTSPRequest::parse` does.
* `InPace` and `LoopContinues` leave out a DESCRIBE in mid-play, which changes the source
  under the anchors.

### Bounds

* `egress`: messages of one or two units, a kernel buffer of two, a watermark of
  two, three messages. Partial sends, EAGAIN in mid-message, a frame refused at
  the watermark, and a push in every window of `onWritable` all occur.
* `reactor_safety`: two clients, two numbers, two workers, one request each; this
  is the smallest instance with two ticks in parallel and reuse of a number
  during one. Symmetry in all three sets (only invariants are checked).
  `reactor_live`: one number for two clients, so that every second connection
  reuses it, and one client that pipelines two requests; no symmetry.
* `playback`: a file of two groups, of one and of three frames, with audio
  alongside; three PLAY requests (from the start with an end, from the second
  group, Scale); a clock that runs for two ticks, and one of lag. Long enough to
  play the second group to its end, and to loop. To a second there are three units
  of either stream, two video ticks, four samples and twelve units of
  `AV_TIME_BASE`, so that frames fall between ticks and every conversion has
  something to round, and one product of doubles falls short (`Short2`). `Mod` = 64
  is not reached: the wrap of the RTP clock is covered by the proofs only.
  `SeqModulus` = 2 keeps the sequence number wrapping; a frame takes an odd number of
  packets, so it always shows.
* `queue`: three threads, capacity two, two values. Two threads can wait on the
  same condition variable while the third one notifies, and a waiter that is woken
  can be overtaken. The calls of a thread are not bounded.
* `pool`: two workers, two clients, three tasks: a task can run, one wait in the
  queue and one be submitted while the other client shuts down.
* `receive`: all sequences of up to three of thirteen messages, a limit of six cells:
  one message is longer than that, and two or three together may be. Seven are well
  formed; the others have a Content-Length in a third spelling, one that is no number,
  two that differ, and negative ones that make a size wrap to 1, to 3 and to 0
  (`SizeMod` = 16, more than the limit as in the code).
* `video`: a payload limit of four bytes, NAL units of 1 to 9 bytes around it and
  around whole multiples of a fragment; three- and four-byte start codes and zeros
  that are none; eight containers; one or two frames; the sequence number starts
  two before its wrap; up to two packets lost, so also two halves of different
  units next to each other.

### Fairness

Weak fairness of each thread: the operating system schedules them, and no thread
waits for a lock across a blocking call. The Pacer's covers its timer. The
Dispatcher's is on its own work only (`DispatcherWork`): going on with a connection
or a request in hand, reading a socket that is readable, leaving the loop. No
signal, connection, hang-up or `stop()` ever has to come (`DispatcherEvent`). Its exit
is strongly fair, because `epoll_wait` keeps reporting a readable control
descriptor among the others and `run()` depends on it. In `SessionEgress` the
workers and the Dispatcher are fair (`ServerSpec`), and `ReadingSpec` adds a client
that keeps reading (it may still hang up). In `BlockingQueue` every thread that is in a call is
weakly fair, and expiry is strongly fair, because the deadline of `wait_for` is
absolute: a call that is woken and waits again is past it one day. Nobody has to
start a call. `ThreadPool` assumes of its queue just the liveness that
`ImplementsFifo` shows of `BlockingQueue`, and that tasks end. `RTSPSession`,
`Receive` and `VideoPath` have no liveness property and no fairness.

## Proofs

Each proof module shows `Init => Inv`, `Inv /\ [Next]_vars => Inv'` by one case
per action, and `Inv => P`, for all values of the constants: any number of
clients, threads, descriptors, tasks and requests, any capacity, watermark and
message size; for playback, any file, any set of requests and any length of
run; for receiving, any messages and any way in which the stream is cut; for the
video path, any container, any frames, any payload limit and any loss. The
assumptions are the named ones of the modules, which TLC evaluates in every run: `EgressAssumption`, `ReactorAssumption`, `QueueAssumption`,
`PoolAssumption` (a pool has a worker: `static_assert(N >= 1)`, ThreadPool.hpp:22),
`MediaAssumption` (the file starts with a key frame; rates and time bases are
positive; `None` is no number, packet or source), `SessionAssumption`,
`ReceiveAssumption` (messages are nonempty sequences of cells; the buffer's limit is
below the range of `size_t`) and `VideoAssumption` (a payload limit above the two bytes of FU-A and, with
the RTP header, below the 2^16 of interleaved framing). A theorem with a further premise names it.

* **`EgressInv`** is the conjunction of the checked invariants, what each place
  of the worker and of the Dispatcher implies (`WorkerPlaces`,
  `DispatcherPlaces`) and two bounds on the stream (`StreamBounds`) that follow
  from `StreamContiguous` only by induction over the queue, so they are carried
  along instead. The places are needed because, for instance, `bytes <= HWM` must
  hold from the test of the watermark to the `fetch_add`, although the Dispatcher
  runs in between: it only subtracts. `CoveredStaysArmed` needs
  `ArmedMatchesEpoll`: a worker can be at its `epoll_ctl` only after the
  Dispatcher's store.
* **`ReactorInv`** adds `Phases` (who has exited at which point of `run()`),
  `Holders` (which session a thread has in hand), `Registering` (a connection
  being accepted is in the map and not in the epoll set) and `Born` (only
  accepted connections have a session). `FdOwnership` is preserved by `accept`
  because `FreeFd` speaks of every live session, and a session that is no longer
  held never comes back to life: every new holder gets it from another.
  `DrainedBeforeClear` and `NoSubmitAfterClose` are consequences.

* **`SlotOwned`** is inductive on top of `ReactorInv` when no handler throws, the
  premise of `SlotsAreFreed`; `reactor_slot_leak` shows that it is needed.
* **`RequestInv`** (`Origins`, `InHand`, `Ordered`) is behind `OwnRequestsInOrder`:
  what the Dispatcher has read, `cmd_queue_`, what Logic carries and the session's
  queue, put together, are the client's requests in the order they were sent. Each
  hand-over takes the first element of one part and puts it last in the next, so
  the whole does not change. It needs no premise on throws.
* **`QueueInv`** is `TypeOK` and `Places`: from a thread's place follows whether its
  call has been answered. `NoLostWakeup` is inductive on top of it: while a pop
  waits, every element is matched by a pop on its way or by a notification still to
  come; while a push waits, every free place by a push on its way or by a
  notification; after `close()` nobody waits without a `notify_all` to come. With the
  refinement mapping that keeps `queue`, `closed` and `call`, the critical section of
  a call is the step in which the abstract call takes effect, and every other step
  but `Begin` and the return leaves the abstract queue unchanged.
* **`PoolInv`** follows each task: `OnePlace` (at most one of: in the queue, with one
  worker, run), `Ledger` (a task has entered the pool exactly if its `submit` has
  returned its future or is about to) and `Drained` (a worker ends only when the
  queue is closed and empty). `ShutdownDrains` follows since a pool has a worker, and
  that worker ended on an empty queue.
* **`Typed`** is `RTSPSession`'s `TypeOK`, the types it leaves open, and that every
  frame held, prefetched or sent is one of the file. Upon it stand four invariants:
  * `StreamInv` for `DecodableStream`: once a frame has passed the IDR gate there is no
    prefetched frame, and what comes next, held or still to be read, is a key frame
    or follows the last one sent; what is prefetched, and what is held, is followed by
    the demuxer's place. A DESCRIBE in mid-play is harmless because a file starts with
    a key frame.
  * `PromiseInv` for `RtpInfoHonoured`: while an announced timestamp is outstanding its
    frame is prefetched, is a key frame and is behind an open gate, so it is neither
    skipped nor, since the first frame is its own anchor, held.
  * `PaceInv` for `InPace`: `wall_start_` is the true start of play, and `pause_start_`
    the true start of the pause.
  * `ClockInv`, `LoopInv` and `ScaleInv` together for `LoopContinues` and
    `ScaleNeverBackward`. `Plain` says of a source that its clock has not run ahead of
    the file's, `Passed` that it goes on from a timestamp; `Near` is one or the other,
    and holds for the last timestamp sent and for that of a held frame. So two
    timestamps in a row are less than a quarter of the clock apart, `last_frame_dur_`
    is too, and the offset of a loop is not behind the last frame. After a loop, or a
    Scale PLAY, the first frame is read from a key frame (`Fresh`) at the offset of the
    source, or, where frames were skipped or dropped before it, at a later time
    (`Ahead`). `seekAndReset` compares timestamps as plain numbers: if the clock has
    wrapped and the last one is the smaller number, the offset is left alone, and the
    client sees a jump ahead, by less than a quarter of the clock, not back.

  Premises: `NoRangeEnd` (no PLAY sets an end of range) for the first and the third,
  `StartsAtZero` (some key frame is at time 0) for the second and the fourth, which also
  needs `InOrder` (frames are stored in the order they are shown: `pts` counts, and the
  first frame after a key frame may be shown before it otherwise) and `Short` (the file
  is, by a tick, shorter than a quarter of the RTP clock, 3 hours and 18 minutes: a jump
  further than half the clock cannot be told from one back). The tick is for rounding:
  a source counts from its first frame and rounds from there, so two stretches of the
  file rescaled apart may be one tick longer than the whole (`RescaleSplit`), and never
  more; rescaling keeps order (`RescaleMono`), so a later frame is never given an earlier
  time. The first two are needed, as
  TLC shows on small files. With frames displayed in another order than that of the
  file, the frame dropped at the end of a range may be followed by one before that
  end, which is then sent without it (and the pause is counted from the next tick,
  not from the end of the range: RTSPSession.cpp:667); where the first key frame is
  later than 0, a PLAY from 0 makes `seekToSeconds` fail, the place is kept, and the
  frame announced may be one that the gate skips.

* **`FramingExact`** and `ClosedOnlyOnOverflow` are inductive on top of `TypeInv`
  (`TypeOK` and the types of the buffer and of the requests, which hold for every
  client: sums that wrap, and the loop that does not end, included). The work is in what the parse loop computes:
  * `TurnTakesMessage`: if a message begins at a place of the buffer, the loop goes on
    behind it and hands on what the client meant, or stays there when a part is still
    missing. A header that is cut off is not mistaken for a whole one, and a blank line
    or a dollar sign in a body is never looked at.
  * `LoopRuns`: when the buffer holds the stream from the end of one message to any
    cell, the loop hands on the messages that end before that cell and stops where
    the last of them ends.
  * `ReceivedHolds`: what was left and what has arrived since are adjacent parts of the
    stream, so the buffer always is such a part.

  That messages are well formed is part of the two properties themselves; the theorems
  have no premise.

* **`VideoInv`** is `Described` (what DESCRIBE took from the container, which is all
  `SdpDescribesStream` needs) and `Sending`: there are a list of payloads `Z` built so
  far and a list of packets `Q` that have arrived, such that `Z` is what `packetize` makes
  of the NAL units of the frames sent, each with its marker and its frame; `Q` is a
  selection of `Z` in order, with sequence numbers that count all of `Z`; what is neither
  in `Q` nor lost is pending; and the byte stream, or the datagrams, are `Q`. `Z` and `Q`
  are needed because sequence numbers wrap and packets vanish: from what has arrived
  alone one cannot tell what was sent. Each conversion is shown to be undone:
  * `AnnexBParser` gives back the NAL units of every frame, with start codes of three and
    four bytes mixed; `parseExtradata` finds the first SPS and the first PPS in either
    format, and base 64 decodes to what was encoded, with every number of pads;
  * fragments fit, are at least two, and join to the NAL unit again; `build` and the
    interleaved framing can be read back.

  For `StreamReassembles` the player is followed packet by packet. `Stands` says which
  units are complete after `k` packets and how much of the next one is there;
  `Following`, that the player then has some of the complete units, in order, and of the
  open one all that was sent or nothing; `Complete`, that without loss it has them
  all. A fragment after a gap is never joined to the ones before it, because sequence
  numbers tell a gap from none as long as fewer than 2^16 packets are lost: the premise.
  `MarkerEndsFrame` needs fewer than 2^32 frames, each with a timestamp of its own.

The provers have no induction over data. Where a proof needs it, the least
counterexample among numbers takes its place (`Smallest`, from the library's `WFMin`).
So it is for what a `CHOOSE` finds (the next frame of a file, the key frame a seek
lands on, how much audio is due), and for recursive functions (`FlattenSeq`,
`messages`, `splitView`, `parameterSets`, `Deframed`, `Player`, `Subsequence`): a lemma
shows that the recursion has a solution, since a `CHOOSE` says nothing until one exists,
and another what it computes.

Only model-checked: liveness (`ArmedIsDrained`, `FlagClosesOnceQuiet`, `CommandServed`, `StopTerminates`,
`EveryTaskRuns`, `ShutdownReturns`, the fairness part of `ImplementsFifo`), which is
beyond this prover.

## Not modelled

Formatting of responses and of SDP apart from sprop-parameter-sets, logging,
argument parsing, FFmpeg, the string functions apart from `base64Encode`, audio
packets' bytes and sequence numbers, interleaved channel numbers, `last_npt_` (it
only goes into responses), `RTPSender`'s TCP mode (never used).

Start-up is not modelled: sockets, signal mask and descriptors are set up by one
thread before the others exist. Two hazards are there and no property covers
them: the pool's workers exist before the signals are blocked (Reactor.cpp:91),
and a `stop()` before `running_` is set is lost (195).

## Plan

1. Done: `SessionEgress`, `Reactor`, `MediaSource`, `RTSPSession`, `BlockingQueue`
   with `BoundedFifo`, `ThreadPool`, `Receive`, `VideoPath`, and the proofs of all of
   them.
2. Left: start-up, and a run over both transports with SETUPs that fail.
