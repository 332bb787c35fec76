------------------------------- MODULE Reactor -------------------------------
(***************************************************************************)
(* The three-thread pipeline of Reactor.cpp and its pool of pacer workers. *)
(*                                                                         *)
(*   Dispatcher: epoll loop, accepts, reads requests, pushes {fd, request} *)
(*     pairs to cmd_queue_ and kicks Logic through logic_efd_;             *)
(*   Logic: looks the descriptor up in sessions_, moves the request to the *)
(*     session's own queue and kicks the Pacer through pacer_efd_;         *)
(*   Pacer: on every timer tick or kick submits one tick task per session  *)
(*     whose in-flight slot is free;                                       *)
(*   workers: run pacerTick (commands first, then media) and free the slot.*)
(*                                                                         *)
(* sessions_ maps descriptors to sessions shared by reference count: a     *)
(* session closes its descriptor when its last holder lets go of it, and   *)
(* the kernel may then give that number to the next client.                *)
(*                                                                         *)
(* What a session does inside a tick besides taking its commands belongs   *)
(* to other modules (SessionEgress for the socket side).                   *)
(***************************************************************************)
EXTENDS Integers, Sequences, FiniteSets

CONSTANTS
  Sessions,   \* client connections, each served by one RTSPSession object
  FDs,        \* descriptor numbers the kernel can hand out to clients
  Workers,    \* PacerWorkers threads of pacer_pool_
  Outcomes,   \* how handleRequest may end, see AllOutcomes
  MaxReq,     \* bound: how many requests each client sends
  NoSess, NoFd

\* "ok": handled, the tick goes on; "teardown": the tick ends, the socket is
\* to be closed after the response; "throw": handleRequest throws (std::stoi
\* on a Transport parameter that is not a number).
AllOutcomes == {"ok", "teardown", "throw"}

ASSUME ReactorAssumption ==
  /\ Outcomes \subseteq AllOutcomes
  /\ MaxReq \in [Sessions -> Nat]
  /\ NoSess \notin Sessions
  /\ NoFd \notin FDs
  /\ IsFiniteSet(Sessions) /\ IsFiniteSet(FDs) /\ IsFiniteSet(Workers)
  /\ Workers # {}

Request == [from : Sessions, n : Nat]
Command == [fd : FDs, req : Request]

VARIABLES
  accepted, sent, unread,          \* clients accepted; requests sent, unread
  sessions, fdOf, reg,             \* sessions_, each session's fd_, epoll set
  cmdq, inFlight, taken,           \* per session: cmd_queue_, pacer_in_flight_,
                                   \*   how many of its client's requests it took
  cmdQueue,                        \* Reactor's cmd_queue_
  logicEfd,                        \* logic_efd_: readable or not
  running, stopReq,                \* running_, the threads' stop tokens
  dpc, dfd, dreqs,                 \* Dispatcher
  lpc, lsess, lreq,                \* Logic
  ppc, active, todo, psess,        \* Pacer
  tasks, poolClosed, wpc, wsess,   \* pacer_pool_ and its workers
  mpc                              \* run(), from the join of the Dispatcher on

client     == <<accepted, sent, unread>>
table      == <<sessions, fdOf, reg>>
session    == <<cmdq, inFlight, taken>>
control    == <<running, stopReq, mpc>>
dispatcher == <<dpc, dfd, dreqs>>
logic      == <<lpc, lsess, lreq>>
pacer      == <<ppc, active, todo, psess>>
pool       == <<tasks, poolClosed, wpc, wsess>>
vars == <<client, table, session, cmdQueue, logicEfd, control, dispatcher, logic, pacer, pool>>

DispatcherPC == {"wait", "accept", "add", "push", "kick", "exited"}
LogicPC      == {"head", "read", "pop", "deliver", "kick", "exited"}
PacerPC      == {"head", "wait", "snap", "claim", "submit", "exited"}
WorkerPC     == {"pop", "tick", "release", "drop", "exited"}
MainPC       == {"join", "wake", "joinLogic", "joinPacer", "shutdown", "joinWorkers", "clear", "done"}

\* Who holds a shared_ptr to session s besides the map.  The Dispatcher's own
\* local references are left out: what keeping an object alive decides is when
\* its descriptor can be reused, and only the Dispatcher accepts.
InMap(s)     == \E fd \in FDs : sessions[fd] = s
HeldOutside(s) ==
  \/ lsess = s \/ s \in active
  \/ \E i \in 1..Len(tasks) : tasks[i] = s
  \/ \E w \in Workers : wsess[w] = s
\* The session object, and so its descriptor, exists.
Alive(s) == InMap(s) \/ HeldOutside(s)

\* Mutant: closeSession closes the descriptor instead of the destructor.
FreeFdEarly(fd) == \A s \in Sessions : InMap(s) => fdOf[s] # fd

FreeFd(fd) == \A s \in Sessions : Alive(s) => fdOf[s] # fd

Init ==
  /\ accepted = {}
  /\ sent = [s \in Sessions |-> 0] /\ unread = [s \in Sessions |-> <<>>]
  /\ sessions = [fd \in FDs |-> NoSess] /\ fdOf = [s \in Sessions |-> NoFd] /\ reg = {}
  /\ cmdq = [s \in Sessions |-> <<>>] /\ inFlight = [s \in Sessions |-> FALSE]
  /\ taken = [s \in Sessions |-> 0]
  /\ cmdQueue = <<>>
  /\ logicEfd = FALSE
  /\ running = TRUE /\ stopReq = FALSE /\ mpc = "join"
  /\ dpc = "wait" /\ dfd = NoFd /\ dreqs = <<>>
  /\ lpc = "head" /\ lsess = NoSess /\ lreq = <<>>
  /\ ppc = "head" /\ active = {} /\ todo = {} /\ psess = NoSess
  /\ tasks = <<>> /\ poolClosed = FALSE
  /\ wpc = [w \in Workers |-> "pop"] /\ wsess = [w \in Workers |-> NoSess]

-----------------------------------------------------------------------------
(* Clients.                                                                *)

\* A client may send as soon as it is connected, accepted or not.
SendRequest(s) ==
  /\ sent[s] < MaxReq[s]
  /\ sent' = [sent EXCEPT ![s] = @ + 1]
  /\ unread' = [unread EXCEPT ![s] = Append(@, [from |-> s, n |-> sent[s] + 1])]
  /\ UNCHANGED <<accepted, table, session, cmdQueue, logicEfd, control, dispatcher, logic, pacer, pool>>

-----------------------------------------------------------------------------
(* Dispatcher: dispatcherLoop, acceptClient, closeSession.  At "wait" it   *)
(* takes the next event of the batch epoll_wait returned.                  *)

\* The loop sees running_ false, or stop() made wake_fd_ readable.
DispatcherExit ==
  /\ dpc = "wait" /\ ~running
  /\ dpc' = "exited"
  /\ UNCHANGED <<client, table, session, cmdQueue, logicEfd, control, logic, pacer, pool, dfd, dreqs>>

\* SIGINT or SIGTERM made signal_fd_ readable.
SignalEvent ==
  /\ dpc = "wait"
  /\ running' = FALSE
  /\ dpc' = "exited"
  /\ UNCHANGED <<client, table, session, cmdQueue, logicEfd, stopReq, mpc, logic, pacer, pool, dfd, dreqs>>

\* A connection is pending.  When clients connect is left open: any one not
\* yet accepted may turn up here and in the accept loop.
AcceptEvent ==
  /\ dpc = "wait" /\ accepted # Sessions
  /\ dpc' = "accept"
  /\ UNCHANGED <<client, table, session, cmdQueue, logicEfd, control, logic, pacer, pool, dfd, dreqs>>

\* accept4, make_shared, sessions_.emplace (which overwrites nothing).
AcceptClient(s, fd) ==
  /\ dpc = "accept" /\ running /\ s \notin accepted /\ FreeFd(fd)
  /\ accepted' = accepted \cup {s}
  /\ fdOf' = [fdOf EXCEPT ![s] = fd]
  /\ sessions' = [sessions EXCEPT ![fd] = IF @ = NoSess THEN s ELSE @]
  /\ dfd' = fd
  /\ dpc' = "add"
  /\ UNCHANGED <<sent, unread, reg, session, cmdQueue, logicEfd, control, logic, pacer, pool, dreqs>>

\* EPOLL_CTL_ADD, or its failure, which takes the session out again.
RegisterClient(ok) ==
  /\ dpc = "add"
  /\ reg' = IF ok THEN reg \cup {dfd} ELSE reg
  /\ sessions' = IF ok THEN sessions ELSE [sessions EXCEPT ![dfd] = NoSess]
  /\ dfd' = NoFd
  /\ dpc' = "accept"
  /\ UNCHANGED <<client, fdOf, session, cmdQueue, logicEfd, control, logic, pacer, pool, dreqs>>

\* No other connection is pending now, or no descriptor is left (EMFILE), or
\* the server is stopping.
AcceptDone ==
  /\ dpc = "accept"
  /\ dpc' = "wait"
  /\ UNCHANGED <<client, table, session, cmdQueue, logicEfd, control, logic, pacer, pool, dfd, dreqs>>

\* Out of epoll, out of the map.
closeSession(fd) ==
  /\ reg' = reg \ {fd}
  /\ sessions' = [sessions EXCEPT ![fd] = NoSess]
  /\ UNCHANGED <<client, fdOf, session, cmdQueue, logicEfd, control, dispatcher, logic, pacer, pool>>

\* EPOLLRDHUP / EPOLLHUP / EPOLLERR, or onWritable returned false (error, or
\* close_after_write_ and all is sent), or onReadable did (EOF, error, buffer
\* overflow): any of these may happen to a registered descriptor at any time.
CloseEvent(fd) ==
  /\ dpc = "wait" /\ fd \in reg
  /\ closeSession(fd)

\* onReadable takes everything the socket holds.
ReadEvent(fd) ==
  /\ dpc = "wait" /\ fd \in reg /\ unread[sessions[fd]] # <<>>
  /\ dreqs' = unread[sessions[fd]]
  /\ unread' = [unread EXCEPT ![sessions[fd]] = <<>>]
  /\ dfd' = fd
  /\ dpc' = "push"
  /\ UNCHANGED <<accepted, sent, table, session, cmdQueue, logicEfd, control, logic, pacer, pool>>

PushCommand ==
  /\ dpc = "push"
  /\ cmdQueue' = Append(cmdQueue, [fd |-> dfd, req |-> Head(dreqs)])
  /\ dreqs' = Tail(dreqs)
  /\ dpc' = "kick"
  /\ UNCHANGED <<client, table, session, logicEfd, control, logic, pacer, pool, dfd>>

\* Mutant: no write to logic_efd_.
KickLogicSilent ==
  /\ dpc = "kick"
  /\ IF dreqs = <<>> THEN dpc' = "wait" /\ dfd' = NoFd ELSE dpc' = "push" /\ UNCHANGED dfd
  /\ UNCHANGED <<client, table, session, cmdQueue, logicEfd, control, logic, pacer, pool, dreqs>>

\* Mutant: only the first parsed request is routed.
KickLogicFirstOnly ==
  /\ dpc = "kick"
  /\ logicEfd' = TRUE
  /\ dpc' = "wait" /\ dfd' = NoFd /\ dreqs' = <<>>
  /\ UNCHANGED <<client, table, session, cmdQueue, control, logic, pacer, pool>>

KickLogic ==
  /\ dpc = "kick"
  /\ logicEfd' = TRUE
  /\ IF dreqs = <<>> THEN dpc' = "wait" /\ dfd' = NoFd ELSE dpc' = "push" /\ UNCHANGED dfd
  /\ UNCHANGED <<client, table, session, cmdQueue, control, logic, pacer, pool, dreqs>>

\* What the Dispatcher does by itself: the rest of an event it has begun, the
\* requests that are waiting in a socket, and the end of its loop.
DispatcherWork ==
  \/ DispatcherExit \/ AcceptDone
  \/ \E s \in Sessions, fd \in FDs : AcceptClient(s, fd)
  \/ \E ok \in BOOLEAN : RegisterClient(ok)
  \/ \E fd \in FDs : ReadEvent(fd)
  \/ PushCommand \/ KickLogic

\* What happens to it: a signal, a connection, a session that ends.
DispatcherEvent ==
  SignalEvent \/ AcceptEvent \/ \E fd \in FDs : CloseEvent(fd)

DispatcherStep == DispatcherWork \/ DispatcherEvent

-----------------------------------------------------------------------------
(* Logic: logicLoop.                                                       *)

LogicHead ==
  /\ lpc = "head"
  /\ lpc' = IF stopReq THEN "exited" ELSE "read"
  /\ UNCHANGED <<client, table, session, cmdQueue, logicEfd, control, dispatcher, pacer, pool, lsess, lreq>>

LogicRead ==
  /\ lpc = "read" /\ logicEfd
  /\ logicEfd' = FALSE
  /\ lpc' = IF stopReq THEN "exited" ELSE "pop"
  /\ UNCHANGED <<client, table, session, cmdQueue, control, dispatcher, pacer, pool, lsess, lreq>>

\* try_pop, then the lookup by descriptor; an unknown one is skipped.
RouteCommand ==
  /\ lpc = "pop" /\ cmdQueue # <<>>
  /\ cmdQueue' = Tail(cmdQueue)
  /\ LET s == sessions[Head(cmdQueue).fd] IN
       IF s = NoSess
       THEN UNCHANGED logic
       ELSE lsess' = s /\ lreq' = <<Head(cmdQueue).req>> /\ lpc' = "deliver"
  /\ UNCHANGED <<client, table, session, logicEfd, control, dispatcher, pacer, pool>>

QueueDrained ==
  /\ lpc = "pop" /\ cmdQueue = <<>>
  /\ lpc' = "head"
  /\ UNCHANGED <<client, table, session, cmdQueue, logicEfd, control, dispatcher, pacer, pool, lsess, lreq>>

pushCommand ==
  /\ lpc = "deliver"
  /\ cmdq' = [cmdq EXCEPT ![lsess] = @ \o lreq]
  /\ lreq' = <<>>
  /\ lpc' = "kick"
  /\ UNCHANGED <<client, table, inFlight, taken, cmdQueue, logicEfd, control, dispatcher, pacer, pool, lsess>>

\* Mutant: one command per wake-up.
KickPacerOnce ==
  /\ lpc = "kick"
  /\ lsess' = NoSess
  /\ lpc' = "head"
  /\ UNCHANGED <<client, table, session, cmdQueue, logicEfd, control, dispatcher, pacer, pool, lreq>>

\* The write to pacer_efd_ wakes the Pacer, which its timer may do as well.
KickPacer ==
  /\ lpc = "kick"
  /\ lsess' = NoSess
  /\ lpc' = "pop"
  /\ UNCHANGED <<client, table, session, cmdQueue, logicEfd, control, dispatcher, pacer, pool, lreq>>

LogicStep ==
  LogicHead \/ LogicRead \/ RouteCommand \/ QueueDrained \/ pushCommand \/ KickPacer

-----------------------------------------------------------------------------
(* Pacer: pacerLoop and the 30 ms timer.                                   *)

PacerHead ==
  /\ ppc = "head"
  /\ ppc' = IF stopReq THEN "exited" ELSE "wait"
  /\ UNCHANGED <<client, table, session, cmdQueue, logicEfd, control, dispatcher, logic, pool, active, todo, psess>>

\* epoll_wait returns: Logic kicked, or the timer fired, which may happen at
\* any time.
PacerWakes ==
  /\ ppc = "wait"
  /\ ppc' = IF stopReq THEN "exited" ELSE "snap"
  /\ UNCHANGED <<client, table, session, cmdQueue, logicEfd, control, dispatcher, logic, pool, active, todo, psess>>

Snapshot ==
  /\ ppc = "snap"
  /\ active' = {s \in Sessions : InMap(s)} /\ todo' = active'
  /\ ppc' = "claim"
  /\ UNCHANGED <<client, table, session, cmdQueue, logicEfd, control, dispatcher, logic, pool, psess>>

\* Mutant: a tick is submitted whether or not the slot was free.
ClaimUnchecked(s) ==
  /\ ppc = "claim" /\ s \in todo
  /\ todo' = todo \ {s}
  /\ inFlight' = [inFlight EXCEPT ![s] = TRUE]
  /\ ppc' = "submit" /\ psess' = s
  /\ UNCHANGED <<client, table, cmdq, taken, cmdQueue, logicEfd, control, dispatcher, logic, pool, active>>

tryClaimPacerTick(s) ==
  /\ ppc = "claim" /\ s \in todo
  /\ todo' = todo \ {s}
  /\ inFlight' = [inFlight EXCEPT ![s] = TRUE]
  /\ IF inFlight[s]
     THEN UNCHANGED <<ppc, psess>>
     ELSE ppc' = "submit" /\ psess' = s
  /\ UNCHANGED <<client, table, cmdq, taken, cmdQueue, logicEfd, control, dispatcher, logic, pool, active>>

\* ThreadPool::submit; it would throw on a closed pool and end the process.
Submit ==
  /\ ppc = "submit"
  /\ tasks' = Append(tasks, psess)
  /\ psess' = NoSess
  /\ ppc' = "claim"
  /\ UNCHANGED <<client, table, session, cmdQueue, logicEfd, control, dispatcher, logic, active, todo, poolClosed, wpc, wsess>>

\* Mutant: the round ends before every session was looked at.
RoundDoneEarly ==
  /\ ppc = "claim"
  /\ active' = {}
  /\ ppc' = "head"
  /\ UNCHANGED <<client, table, session, cmdQueue, logicEfd, control, dispatcher, logic, pool, todo, psess>>

RoundDone ==
  /\ ppc = "claim" /\ todo = {}
  /\ active' = {}
  /\ ppc' = "head"
  /\ UNCHANGED <<client, table, session, cmdQueue, logicEfd, control, dispatcher, logic, pool, todo, psess>>

PacerStep ==
  \/ PacerHead \/ PacerWakes \/ Snapshot \/ Submit \/ RoundDone
  \/ \E s \in Sessions : tryClaimPacerTick(s)

-----------------------------------------------------------------------------
(* Pool workers: workerLoop around the task pacerLoop submits.             *)

PopTask(w) ==
  /\ wpc[w] = "pop" /\ tasks # <<>>
  /\ wsess' = [wsess EXCEPT ![w] = Head(tasks)]
  /\ tasks' = Tail(tasks)
  /\ wpc' = [wpc EXCEPT ![w] = "tick"]
  /\ UNCHANGED <<client, table, session, cmdQueue, logicEfd, control, dispatcher, logic, pacer, poolClosed>>

WorkerExit(w) ==
  /\ wpc[w] = "pop" /\ tasks = <<>> /\ poolClosed
  /\ wpc' = [wpc EXCEPT ![w] = "exited"]
  /\ UNCHANGED <<client, table, session, cmdQueue, logicEfd, control, dispatcher, logic, pacer, poolClosed, tasks, wsess>>

\* Mutant: a TEARDOWN ends the task without freeing the slot.
NextPlaceLeaks(outcome) ==
  IF outcome \in {"throw", "teardown"} THEN "drop" ELSE "tick"

NextPlace(outcome) ==
  IF outcome = "throw" THEN "drop" ELSE IF outcome = "teardown" THEN "release" ELSE "tick"

\* One round of pacerTick's command loop.  An exception ends the task in the
\* packaged_task: releasePacerTick is not reached.
HandleRequest(w, outcome) ==
  LET s == wsess[w]
      r == Head(cmdq[s])
  IN
  /\ wpc[w] = "tick" /\ cmdq[s] # <<>>
  /\ cmdq' = [cmdq EXCEPT ![s] = Tail(@)]
  /\ taken' = [taken EXCEPT ![s] = IF r.from = s THEN @ + 1 ELSE @]
  /\ wpc' = [wpc EXCEPT ![w] = NextPlace(outcome)]
  /\ UNCHANGED <<client, table, inFlight, cmdQueue, logicEfd, control, dispatcher, logic, pacer, tasks, poolClosed, wsess>>

\* No command left: the media part of pacerTick runs and the tick ends.
TickMedia(w) ==
  /\ wpc[w] = "tick" /\ cmdq[wsess[w]] = <<>>
  /\ wpc' = [wpc EXCEPT ![w] = "release"]
  /\ UNCHANGED <<client, table, session, cmdQueue, logicEfd, control, dispatcher, logic, pacer, tasks, poolClosed, wsess>>

releasePacerTick(w) ==
  /\ wpc[w] = "release"
  /\ inFlight' = [inFlight EXCEPT ![wsess[w]] = FALSE]
  /\ wpc' = [wpc EXCEPT ![w] = "drop"]
  /\ UNCHANGED <<client, table, cmdq, taken, cmdQueue, logicEfd, control, dispatcher, logic, pacer, tasks, poolClosed, wsess>>

\* The task object, and its copy of the shared_ptr, is destroyed.
TaskDone(w) ==
  /\ wpc[w] = "drop"
  /\ wsess' = [wsess EXCEPT ![w] = NoSess]
  /\ wpc' = [wpc EXCEPT ![w] = "pop"]
  /\ UNCHANGED <<client, table, session, cmdQueue, logicEfd, control, dispatcher, logic, pacer, tasks, poolClosed>>

WorkerStep(w) ==
  \/ PopTask(w) \/ WorkerExit(w) \/ TickMedia(w)
  \/ \E outcome \in Outcomes : HandleRequest(w, outcome)
  \/ releasePacerTick(w) \/ TaskDone(w)

-----------------------------------------------------------------------------
(* stop(), signals, and run() from the join of the Dispatcher on.          *)

\* stop(): running_ is cleared and wake_fd_ written.
Stop ==
  /\ running
  /\ running' = FALSE
  /\ UNCHANGED <<client, table, session, cmdQueue, logicEfd, dispatcher, logic, pacer, pool, stopReq, mpc>>

\* One step of run(); each leaves everything it does not name unchanged.
Join(from, done, to) == mpc = from /\ done /\ mpc' = to

\* dispatcher_thread_.join(), then request_stop on both other threads.
JoinDispatcher ==
  /\ Join("join", dpc = "exited", "wake")
  /\ stopReq' = TRUE
  /\ UNCHANGED <<client, table, session, cmdQueue, logicEfd, dispatcher, logic, pacer, pool, running>>

\* Mutant: Logic is not woken.
UnblockLogicSilent ==
  /\ Join("wake", TRUE, "joinLogic")
  /\ UNCHANGED <<client, table, session, cmdQueue, logicEfd, dispatcher, logic, pacer, pool, running, stopReq>>

UnblockLogic ==
  /\ Join("wake", TRUE, "joinLogic")
  /\ logicEfd' = TRUE
  /\ UNCHANGED <<client, table, session, cmdQueue, dispatcher, logic, pacer, pool, running, stopReq>>

\* Mutants: run() does not wait for the Pacer; shutdown() not for the workers.
JoinNoPacer ==
  /\ \/ Join("joinLogic", lpc = "exited", "joinPacer")
     \/ Join("joinPacer", TRUE, "shutdown")
     \/ Join("joinWorkers", \A w \in Workers : wpc[w] = "exited", "clear")
  /\ UNCHANGED <<client, table, session, cmdQueue, logicEfd, dispatcher, logic, pacer, pool, running, stopReq>>

JoinNoWorkers ==
  /\ \/ Join("joinLogic", lpc = "exited", "joinPacer")
     \/ Join("joinPacer", ppc = "exited", "shutdown")
     \/ Join("joinWorkers", TRUE, "clear")
  /\ UNCHANGED <<client, table, session, cmdQueue, logicEfd, dispatcher, logic, pacer, pool, running, stopReq>>

JoinThreads ==
  /\ \/ Join("joinLogic", lpc = "exited", "joinPacer")
     \/ Join("joinPacer", ppc = "exited", "shutdown")
     \/ Join("joinWorkers", \A w \in Workers : wpc[w] = "exited", "clear")
  /\ UNCHANGED <<client, table, session, cmdQueue, logicEfd, dispatcher, logic, pacer, pool, running, stopReq>>

ShutdownPool ==
  /\ Join("shutdown", TRUE, "joinWorkers")
  /\ poolClosed' = TRUE
  /\ UNCHANGED <<client, table, session, cmdQueue, logicEfd, dispatcher, logic, pacer, running, stopReq, tasks, wpc, wsess>>

ClearSessions ==
  /\ Join("clear", TRUE, "done")
  /\ sessions' = [fd \in FDs |-> NoSess]
  /\ UNCHANGED <<client, fdOf, reg, session, cmdQueue, logicEfd, dispatcher, logic, pacer, pool, running, stopReq>>

MainStep == JoinDispatcher \/ UnblockLogic \/ JoinThreads \/ ShutdownPool \/ ClearSessions

Terminated == mpc = "done" /\ UNCHANGED vars

ClientStep ==
  \E s \in Sessions : SendRequest(s)

Next ==
  \/ ClientStep \/ DispatcherStep \/ LogicStep \/ PacerStep
  \/ \E w \in Workers : WorkerStep(w)
  \/ Stop \/ MainStep \/ Terminated

Spec == Init /\ [][Next]_vars

\* Every thread is scheduled and the timer keeps firing.  epoll_wait reports
\* a readable control descriptor however many other events there are.  Nothing
\* is assumed of DispatcherEvent: no signal, connection or close need come.
FairSpec ==
  /\ Spec
  /\ WF_vars(DispatcherWork) /\ SF_vars(DispatcherExit)
  /\ WF_vars(LogicStep) /\ WF_vars(PacerStep)
  /\ \A w \in Workers : WF_vars(WorkerStep(w))
  /\ WF_vars(MainStep)

-----------------------------------------------------------------------------
(* Invariants.                                                             *)

TypeClient ==
  accepted \subseteq Sessions /\ sent \in [Sessions -> Nat] /\ unread \in [Sessions -> Seq(Request)]
TypeTable ==
  /\ sessions \in [FDs -> Sessions \cup {NoSess}]
  /\ fdOf \in [Sessions -> FDs \cup {NoFd}] /\ reg \subseteq FDs
TypeSession ==
  /\ cmdq \in [Sessions -> Seq(Request)] /\ inFlight \in [Sessions -> BOOLEAN]
  /\ taken \in [Sessions -> Nat]
TypeCommands == cmdQueue \in Seq(Command) /\ logicEfd \in BOOLEAN
TypeControl == running \in BOOLEAN /\ stopReq \in BOOLEAN /\ mpc \in MainPC
TypeDispatcher == dpc \in DispatcherPC /\ dfd \in FDs \cup {NoFd} /\ dreqs \in Seq(Request)
TypeLogic == lpc \in LogicPC /\ lsess \in Sessions \cup {NoSess} /\ lreq \in Seq(Request)
TypePacer ==
  /\ ppc \in PacerPC /\ active \subseteq Sessions /\ todo \subseteq active
  /\ psess \in Sessions \cup {NoSess}
TypePool ==
  /\ tasks \in Seq(Sessions) /\ poolClosed \in BOOLEAN
  /\ wpc \in [Workers -> WorkerPC] /\ wsess \in [Workers -> Sessions \cup {NoSess}]

\* The type invariant.  That todo stays within active also says the Pacer only
\* ticks sessions of its own snapshot, which it holds.
TypeOK ==
  /\ TypeClient /\ TypeTable /\ TypeSession /\ TypeCommands /\ TypeControl
  /\ TypeDispatcher /\ TypeLogic /\ TypePacer /\ TypePool

\* Worker w is inside the task of session s and has not freed the slot.
Ticking(w, s) == wpc[w] \in {"tick", "release"} /\ wsess[w] = s

\* A tick of s is being submitted, queued or run.
Submitting(s) == ppc = "submit" /\ psess = s
Owned(s) ==
  \/ Submitting(s)
  \/ \E i \in 1..Len(tasks) : tasks[i] = s
  \/ \E w \in Workers : Ticking(w, s)

\* pacer_in_flight_ keeps a session's tick, which uses the session without any
\* lock, on at most one worker: at most one submission, queued task or running
\* task per session, and the slot is claimed as long as there is one.
TickExclusive ==
  /\ \A s \in Sessions : Owned(s) => inFlight[s]
  /\ \A s \in Sessions : Submitting(s) =>
       /\ \A i \in 1..Len(tasks) : tasks[i] # s
       /\ \A w \in Workers : ~Ticking(w, s)
  /\ \A i, j \in 1..Len(tasks) : tasks[i] = tasks[j] => i = j
  /\ \A i \in 1..Len(tasks), w \in Workers : ~Ticking(w, tasks[i])
  /\ \A v, w \in Workers, s \in Sessions : Ticking(v, s) /\ Ticking(w, s) => v = w

\* While any thread still holds a session, its descriptor belongs to it alone;
\* sessions_ and the epoll set speak of the session that owns the descriptor.
\* So emplace never finds the key taken, and a worker's send() and epoll_ctl
\* never touch another client's socket.
FdOwnership ==
  /\ \A s, t \in Sessions : Alive(s) /\ Alive(t) /\ fdOf[s] = fdOf[t] => s = t
  /\ \A fd \in FDs : sessions[fd] # NoSess => fdOf[sessions[fd]] = fd
  /\ mpc # "done" => \A fd \in reg : sessions[fd] # NoSess

\* Every request on its way to session s, first the one it will take next: its
\* own queue, what Logic has in hand for it, cmd_queue_, what the Dispatcher has
\* in hand, and the socket.
Routed(s) == IF lsess = s THEN lreq ELSE <<>>
Commanded == [i \in 1..Len(cmdQueue) |-> cmdQueue[i].req]
Pipeline(s) == cmdq[s] \o Routed(s) \o Commanded \o dreqs \o unread[s]

\* The requests of client s in q are the ones after lo up to hi, in this order.
InOrder(q, s, lo, hi) ==
  LET own == {i \in 1..Len(q) : q[i].from = s}
  IN  /\ {q[i].n : i \in own} = lo + 1 .. hi
      /\ \A i, j \in own : i < j => q[i].n < q[j].n

\* As long as the session is in the map, the three queues and two hand-overs
\* lose, repeat and reorder none of its client's requests.
OwnRequestsInOrder ==
  \A s \in Sessions : InMap(s) => InOrder(Pipeline(s), s, taken[s], sent[s])

\* Logic never sleeps on logic_efd_ with a command queued and no kick coming.
NoLostKick ==
  cmdQueue # <<>> =>
    logicEfd \/ dpc = "kick" \/ lpc \in {"pop", "deliver", "kick"} \/ stopReq

\* Shutdown order: when run() clears sessions_ no task is queued or running and
\* nobody holds a session, so every session object is destroyed by then.
DrainedBeforeClear ==
  /\ mpc \in {"clear", "done"} => tasks = <<>> /\ \A s \in Sessions : ~HeldOutside(s)
  /\ mpc = "done" => \A s \in Sessions : ~Alive(s)

\* The Pacer never submits to a closed pool (submit would throw out of the
\* thread function and end the process).
NoSubmitAfterClose == ppc = "submit" => ~poolClosed

\* A claimed slot has a tick that will free it, as the comment on
\* releasePacerTick asks.  Violated once handleRequest throws: see the run
\* reactor_slot_leak.
SlotOwned == \A s \in Sessions : inFlight[s] => Owned(s)

\* A session only ever sees requests of its own client.  Violated when a
\* descriptor number is reused while a request waits in cmd_queue_: see the
\* run reactor_misrouted.
RoutedToOwner == \A s \in Sessions : \A i \in 1..Len(cmdq[s]) : cmdq[s][i].from = s

-----------------------------------------------------------------------------
(* Liveness.                                                               *)

InCmdQueue(s, n) ==
  \E i \in 1..Len(cmdQueue) : cmdQueue[i].req.from = s /\ cmdQueue[i].req.n = n

\* A request the Dispatcher queued is taken by its session, through Logic,
\* Pacer and a worker, unless the session or the server is closed meanwhile.
CommandServed ==
  \A s \in Sessions : \A n \in 1..MaxReq[s] :
    InCmdQueue(s, n) ~> (taken[s] >= n \/ ~InMap(s) \/ stopReq)

\* After stop() or a signal, run() returns: no thread waits for another one
\* for ever.
StopTerminates == ~running ~> mpc = "done"

=============================================================================
