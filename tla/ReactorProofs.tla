---------------------------- MODULE ReactorProofs ----------------------------
(***************************************************************************)
(* Reactor keeps its invariants for every set of sessions, descriptors and *)
(* workers.  ReactorInv adds to the invariants the runs check what each    *)
(* thread's place tells: who has exited at which point of run(), and which *)
(* references a thread holds where.  From it follow two results on         *)
(* requests: the in-flight slot is freed as long as no handler throws, and *)
(* the queues between socket and session keep a client's requests complete *)
(* and in order.                                                           *)
(***************************************************************************)
EXTENDS Reactor, SequenceTheorems, TLAPS

\* How far run() is, and what that says of the threads it joined.
Phases ==
  /\ mpc # "join" => dpc = "exited"
  /\ mpc \in {"joinPacer", "shutdown", "joinWorkers", "clear", "done"} => lpc = "exited"
  /\ mpc \in {"shutdown", "joinWorkers", "clear", "done"} => ppc = "exited"
  /\ poolClosed => mpc \in {"joinWorkers", "clear", "done"}
  /\ mpc \in {"clear", "done"} => \A w \in Workers : wpc[w] = "exited"
  /\ \A w \in Workers : wpc[w] = "exited" => poolClosed /\ tasks = <<>>
  /\ mpc = "done" => \A fd \in FDs : sessions[fd] = NoSess

\* Which session a thread has in hand.
Holders ==
  /\ IF lpc \in {"deliver", "kick"} THEN lsess \in Sessions ELSE lsess = NoSess
  /\ ppc \notin {"claim", "submit"} => active = {}
  /\ ppc = "submit" => psess \in active
  /\ \A w \in Workers :
       IF wpc[w] \in {"tick", "release", "drop"} THEN wsess[w] \in Sessions ELSE wsess[w] = NoSess
  /\ dpc \in {"add", "push", "kick"} => dfd \in FDs
  /\ dpc = "push" => dreqs # <<>>

\* The connection being accepted is in the map and not yet in the epoll set.
Registering == dpc = "add" => sessions[dfd] # NoSess /\ dfd \notin reg

\* Only accepted connections have a session.
Born == \A s \in Sessions : Alive(s) => s \in accepted

ReactorInv ==
  /\ TypeOK /\ Phases /\ Holders /\ TickExclusive /\ FdOwnership /\ Registering /\ Born
  /\ NoLostKick

-----------------------------------------------------------------------------

\* What a queue looks like after a pop ...
LEMMA PopFacts ==
  ASSUME NEW S, NEW q \in Seq(S), q # <<>>
  PROVE  /\ Len(q) \in Nat /\ 1 \in 1..Len(q) /\ q[1] \in S /\ Head(q) = q[1]
         /\ Tail(q) \in Seq(S) /\ Len(Tail(q)) = Len(q) - 1
         /\ \A i \in 1..Len(Tail(q)) : Tail(q)[i] = q[i+1] /\ i + 1 \in 1..Len(q)
<1>1. Len(q) \in Nat /\ Len(q) >= 1
  OBVIOUS
<1>2. Tail(q) \in Seq(S) /\ Len(Tail(q)) = Len(q) - 1
  BY <1>1
<1> QED BY <1>1, <1>2

\* ... and after a push.
LEMMA PushFacts ==
  ASSUME NEW S, NEW q \in Seq(S), NEW e \in S
  PROVE  /\ Append(q, e) \in Seq(S) /\ Append(q, e) # <<>>
         /\ Len(q) \in Nat /\ Len(Append(q, e)) = Len(q) + 1
         /\ \A i \in 1..Len(q) : Append(q, e)[i] = q[i] /\ q[i] \in S
         /\ Append(q, e)[Len(q)+1] = e
OBVIOUS

\* A step is a step of one action.
LEMMA NextCases ==
  ASSUME [Next]_vars
  PROVE  \/ \E s \in Sessions : SendRequest(s)
         \/ DispatcherExit \/ SignalEvent \/ AcceptEvent \/ AcceptDone
         \/ \E s \in Sessions, fd \in FDs : AcceptClient(s, fd)
         \/ \E ok \in BOOLEAN : RegisterClient(ok)
         \/ \E fd \in FDs : CloseEvent(fd)
         \/ \E fd \in FDs : ReadEvent(fd)
         \/ PushCommand \/ KickLogic
         \/ LogicHead \/ LogicRead \/ RouteCommand \/ QueueDrained \/ pushCommand \/ KickPacer
         \/ PacerHead \/ PacerWakes \/ Snapshot \/ Submit \/ RoundDone
         \/ \E s \in Sessions : tryClaimPacerTick(s)
         \/ \E w \in Workers : PopTask(w)
         \/ \E w \in Workers : WorkerExit(w)
         \/ \E w \in Workers, outcome \in Outcomes : HandleRequest(w, outcome)
         \/ \E w \in Workers : TickMedia(w)
         \/ \E w \in Workers : releasePacerTick(w)
         \/ \E w \in Workers : TaskDone(w)
         \/ Stop \/ JoinDispatcher \/ UnblockLogic \/ JoinThreads \/ ShutdownPool \/ ClearSessions
         \/ UNCHANGED vars
BY DEF Next, ClientStep, DispatcherStep, DispatcherWork, DispatcherEvent, LogicStep, PacerStep, WorkerStep, MainStep, Terminated

\* Every step keeps the phases of run().
LEMMA PhasesStep ==
  ASSUME ReactorInv, [Next]_vars
  PROVE  Phases'
<1> USE DEF TypeOK, TypePool, TypeTable, client, table, session, control,
    dispatcher, logic, pacer, pool
<1>1. CASE \E s \in Sessions : SendRequest(s)
  BY <1>1 DEF ReactorInv, Phases, SendRequest
<1>2. CASE DispatcherExit
  BY <1>2 DEF ReactorInv, Phases, DispatcherExit
<1>3. CASE SignalEvent
  BY <1>3 DEF ReactorInv, Phases, SignalEvent
<1>4. CASE AcceptEvent
  BY <1>4 DEF ReactorInv, Phases, AcceptEvent
<1>5. CASE AcceptDone
  BY <1>5 DEF ReactorInv, Phases, AcceptDone
<1>6. CASE \E s \in Sessions, fd \in FDs : AcceptClient(s, fd)
  BY <1>6 DEF ReactorInv, Phases, AcceptClient
<1>7. CASE \E ok \in BOOLEAN : RegisterClient(ok)
  BY <1>7 DEF ReactorInv, Phases, RegisterClient
<1>8. CASE \E fd \in FDs : CloseEvent(fd)
  BY <1>8 DEF ReactorInv, Phases, CloseEvent, closeSession
<1>9. CASE \E fd \in FDs : ReadEvent(fd)
  BY <1>9 DEF ReactorInv, Phases, ReadEvent
<1>10. CASE PushCommand
  BY <1>10 DEF ReactorInv, Phases, PushCommand
<1>11. CASE KickLogic
  BY <1>11 DEF ReactorInv, Phases, KickLogic
<1>12. CASE LogicHead
  BY <1>12 DEF ReactorInv, Phases, LogicHead
<1>13. CASE LogicRead
  BY <1>13 DEF ReactorInv, Phases, LogicRead
<1>14. CASE RouteCommand
  BY <1>14 DEF ReactorInv, Phases, RouteCommand
<1>15. CASE QueueDrained
  BY <1>15 DEF ReactorInv, Phases, QueueDrained
<1>16. CASE pushCommand
  BY <1>16 DEF ReactorInv, Phases, pushCommand
<1>17. CASE KickPacer
  BY <1>17 DEF ReactorInv, Phases, KickPacer
<1>18. CASE PacerHead
  BY <1>18 DEF ReactorInv, Phases, PacerHead
<1>19. CASE PacerWakes
  BY <1>19 DEF ReactorInv, Phases, PacerWakes
<1>20. CASE Snapshot
  BY <1>20 DEF ReactorInv, Phases, Snapshot
<1>21. CASE Submit
  BY <1>21 DEF ReactorInv, Phases, TypePacer, PacerPC, Submit
<1>22. CASE RoundDone
  BY <1>22 DEF ReactorInv, Phases, RoundDone
<1>23. CASE \E s \in Sessions : tryClaimPacerTick(s)
  BY <1>23 DEF ReactorInv, Phases, tryClaimPacerTick
<1>24. CASE \E w \in Workers : PopTask(w)
  BY <1>24 DEF ReactorInv, Phases, PopTask
<1>25. CASE \E w \in Workers : WorkerExit(w)
  BY <1>25 DEF ReactorInv, Phases, WorkerExit
<1>26. CASE \E w \in Workers, outcome \in Outcomes : HandleRequest(w, outcome)
  BY <1>26 DEF ReactorInv, Phases, HandleRequest, NextPlace
<1>27. CASE \E w \in Workers : TickMedia(w)
  BY <1>27 DEF ReactorInv, Phases, TickMedia
<1>28. CASE \E w \in Workers : releasePacerTick(w)
  BY <1>28 DEF ReactorInv, Phases, releasePacerTick
<1>29. CASE \E w \in Workers : TaskDone(w)
  BY <1>29 DEF ReactorInv, Phases, TaskDone
<1>30. CASE Stop
  BY <1>30 DEF ReactorInv, Phases, Stop
<1>31. CASE JoinDispatcher
  BY <1>31 DEF ReactorInv, Phases, JoinDispatcher, Join
<1>32. CASE UnblockLogic
  BY <1>32 DEF ReactorInv, Phases, UnblockLogic, Join
<1>33. CASE JoinThreads
  BY <1>33 DEF ReactorInv, Phases, JoinThreads, Join
<1>34. CASE ShutdownPool
  BY <1>34 DEF ReactorInv, Phases, ShutdownPool, Join
<1>35. CASE ClearSessions
  BY <1>35 DEF ReactorInv, Phases, ClearSessions, Join
<1>36. CASE UNCHANGED vars
  BY <1>36 DEF ReactorInv, Phases, vars
<1> QED BY <1>1, <1>2, <1>3, <1>4, <1>5, <1>6, <1>7, <1>8, <1>9, <1>10, <1>11,
    <1>12, <1>13, <1>14, <1>15, <1>16, <1>17, <1>18, <1>19, <1>20, <1>21, <1>22,
    <1>23, <1>24, <1>25, <1>26, <1>27, <1>28, <1>29, <1>30, <1>31, <1>32, <1>33,
    <1>34, <1>35, <1>36, NextCases, ReactorAssumption

\* Every step keeps the references where they are.
LEMMA HoldersStep ==
  ASSUME ReactorInv, [Next]_vars
  PROVE  Holders'
<1> USE DEF TypeOK, TypeDispatcher, TypeLogic, TypePacer, TypePool, TypeTable,
    TypeCommands, client, table, session, control, dispatcher, logic, pacer, pool
<1>1. CASE \E s \in Sessions : SendRequest(s)
  BY <1>1 DEF ReactorInv, Holders, Phases, SendRequest
<1>2. CASE DispatcherExit
  BY <1>2 DEF ReactorInv, Holders, Phases, DispatcherExit
<1>3. CASE SignalEvent
  BY <1>3 DEF ReactorInv, Holders, Phases, SignalEvent
<1>4. CASE AcceptEvent
  BY <1>4 DEF ReactorInv, Holders, Phases, AcceptEvent
<1>5. CASE AcceptDone
  BY <1>5 DEF ReactorInv, Holders, Phases, AcceptDone
<1>6. CASE \E s \in Sessions, fd \in FDs : AcceptClient(s, fd)
  BY <1>6 DEF ReactorInv, Holders, Phases, AcceptClient
<1>7. CASE \E ok \in BOOLEAN : RegisterClient(ok)
  BY <1>7 DEF ReactorInv, Holders, Phases, RegisterClient
<1>8. CASE \E fd \in FDs : CloseEvent(fd)
  BY <1>8 DEF ReactorInv, Holders, Phases, CloseEvent, closeSession
<1>9. CASE \E fd \in FDs : ReadEvent(fd)
  BY <1>9 DEF ReactorInv, Holders, Phases, ReadEvent
<1>10. CASE PushCommand
  BY <1>10 DEF ReactorInv, Holders, Phases, PushCommand
<1>11. CASE KickLogic
  BY <1>11 DEF ReactorInv, Holders, Phases, KickLogic
<1>12. CASE LogicHead
  BY <1>12 DEF ReactorInv, Holders, Phases, LogicHead
<1>13. CASE LogicRead
  BY <1>13 DEF ReactorInv, Holders, Phases, LogicRead
<1>14. CASE RouteCommand
  <2>1. Head(cmdQueue) \in Command
    BY <1>14, PopFacts DEF ReactorInv, RouteCommand
  <2>2. sessions[Head(cmdQueue).fd] \in Sessions \cup {NoSess}
    BY <2>1 DEF ReactorInv, Command
  <2> QED BY <1>14, <2>2 DEF ReactorInv, Holders, RouteCommand
<1>15. CASE QueueDrained
  BY <1>15 DEF ReactorInv, Holders, Phases, QueueDrained
<1>16. CASE pushCommand
  BY <1>16 DEF ReactorInv, Holders, Phases, pushCommand
<1>17. CASE KickPacer
  BY <1>17 DEF ReactorInv, Holders, Phases, KickPacer
<1>18. CASE PacerHead
  BY <1>18 DEF ReactorInv, Holders, Phases, PacerHead
<1>19. CASE PacerWakes
  BY <1>19 DEF ReactorInv, Holders, Phases, PacerWakes
<1>20. CASE Snapshot
  BY <1>20 DEF ReactorInv, Holders, Phases, Snapshot
<1>21. CASE Submit
  BY <1>21 DEF ReactorInv, Holders, Phases, Submit
<1>22. CASE RoundDone
  BY <1>22 DEF ReactorInv, Holders, Phases, RoundDone
<1>23. CASE \E s \in Sessions : tryClaimPacerTick(s)
  BY <1>23 DEF ReactorInv, Holders, Phases, tryClaimPacerTick
<1>24. CASE \E w \in Workers : PopTask(w)
  <2>1. Head(tasks) \in Sessions
    BY <1>24, PopFacts DEF ReactorInv, PopTask
  <2> QED BY <1>24, <2>1 DEF ReactorInv, Holders, PopTask
<1>25. CASE \E w \in Workers : WorkerExit(w)
  BY <1>25 DEF ReactorInv, Holders, Phases, WorkerExit
<1>26. CASE \E w \in Workers, outcome \in Outcomes : HandleRequest(w, outcome)
  BY <1>26 DEF ReactorInv, Holders, Phases, HandleRequest, NextPlace
<1>27. CASE \E w \in Workers : TickMedia(w)
  BY <1>27 DEF ReactorInv, Holders, Phases, TickMedia
<1>28. CASE \E w \in Workers : releasePacerTick(w)
  BY <1>28 DEF ReactorInv, Holders, Phases, releasePacerTick
<1>29. CASE \E w \in Workers : TaskDone(w)
  BY <1>29 DEF ReactorInv, Holders, Phases, TaskDone
<1>30. CASE Stop
  BY <1>30 DEF ReactorInv, Holders, Phases, Stop
<1>31. CASE JoinDispatcher
  BY <1>31 DEF ReactorInv, Holders, Phases, JoinDispatcher, Join
<1>32. CASE UnblockLogic
  BY <1>32 DEF ReactorInv, Holders, Phases, UnblockLogic, Join
<1>33. CASE JoinThreads
  BY <1>33 DEF ReactorInv, Holders, Phases, JoinThreads, Join
<1>34. CASE ShutdownPool
  BY <1>34 DEF ReactorInv, Holders, Phases, ShutdownPool, Join
<1>35. CASE ClearSessions
  BY <1>35 DEF ReactorInv, Holders, Phases, ClearSessions, Join
<1>36. CASE UNCHANGED vars
  BY <1>36 DEF ReactorInv, Holders, Phases, vars
<1> QED BY <1>1, <1>2, <1>3, <1>4, <1>5, <1>6, <1>7, <1>8, <1>9, <1>10, <1>11,
    <1>12, <1>13, <1>14, <1>15, <1>16, <1>17, <1>18, <1>19, <1>20, <1>21, <1>22,
    <1>23, <1>24, <1>25, <1>26, <1>27, <1>28, <1>29, <1>30, <1>31, <1>32, <1>33,
    <1>34, <1>35, <1>36, NextCases, ReactorAssumption

\* The session behind an event, a routed command or a task.
LEMMA EventSession ==
  ASSUME ReactorInv, dpc = "wait", NEW fd \in reg
  PROVE  sessions[fd] \in Sessions
BY DEF ReactorInv, TypeOK, TypeTable, Phases, FdOwnership

\* A group of variables a step leaves alone keeps its types.
LEMMA TypeFrame ==
  ASSUME TypeOK
  PROVE  /\ UNCHANGED client => TypeClient'
         /\ UNCHANGED table => TypeTable'
         /\ UNCHANGED session => TypeSession'
         /\ UNCHANGED <<cmdQueue, logicEfd>> => TypeCommands'
         /\ UNCHANGED control => TypeControl'
         /\ UNCHANGED dispatcher => TypeDispatcher'
         /\ UNCHANGED logic => TypeLogic'
         /\ UNCHANGED pacer => TypePacer'
         /\ UNCHANGED pool => TypePool'
BY DEF TypeOK, TypeClient, TypeTable, TypeSession, TypeCommands, TypeControl, TypeDispatcher,
  TypeLogic, TypePacer, TypePool, client, table, session, control, dispatcher, logic, pacer, pool

\* Every step keeps the types.
LEMMA TypeStep ==
  ASSUME ReactorInv, [Next]_vars
  PROVE  TypeOK'
<1> USE ReactorAssumption
<1>1. CASE \E s \in Sessions : SendRequest(s)
  <2>1. PICK s \in Sessions : SendRequest(s)
    BY <1>1
  <2>2. sent[s] \in Nat /\ unread[s] \in Seq(Request)
    BY DEF ReactorInv, TypeOK, TypeClient
  <2>3. [from |-> s, n |-> sent[s] + 1] \in Request
    BY <2>2 DEF Request
  <2>4. Append(unread[s], [from |-> s, n |-> sent[s] + 1]) \in Seq(Request)
    BY <2>2, <2>3, PushFacts
  <2>5. sent[s] + 1 \in Nat
    BY <2>2, <2>3, <2>4
  <2>6. TypeClient'
    BY <2>1, <2>2, <2>3, <2>4, <2>5 DEF ReactorInv, TypeOK, TypeClient, client,
       SendRequest
  <2> QED BY <2>1, <2>6, TypeFrame DEF ReactorInv, TypeOK, SendRequest
<1>2. CASE DispatcherExit
  <2>1. TypeDispatcher'
    BY <1>2 DEF ReactorInv, TypeOK, TypeDispatcher, DispatcherPC, dispatcher,
       DispatcherExit
  <2> QED BY <1>2, <2>1, TypeFrame DEF ReactorInv, TypeOK, DispatcherExit
<1>3. CASE SignalEvent
  <2>1. TypeDispatcher'
    BY <1>3 DEF ReactorInv, TypeOK, TypeDispatcher, DispatcherPC, dispatcher,
       SignalEvent
  <2>2. TypeControl'
    BY <1>3 DEF ReactorInv, TypeOK, TypeControl, MainPC, control, SignalEvent
  <2> QED BY <1>3, <2>1, <2>2, TypeFrame DEF ReactorInv, TypeOK, SignalEvent
<1>4. CASE AcceptEvent
  <2>1. TypeDispatcher'
    BY <1>4 DEF ReactorInv, TypeOK, TypeDispatcher, DispatcherPC, dispatcher,
       AcceptEvent
  <2> QED BY <1>4, <2>1, TypeFrame DEF ReactorInv, TypeOK, AcceptEvent
<1>5. CASE AcceptDone
  <2>1. TypeDispatcher'
    BY <1>5 DEF ReactorInv, TypeOK, TypeDispatcher, DispatcherPC, dispatcher,
       AcceptDone
  <2> QED BY <1>5, <2>1, TypeFrame DEF ReactorInv, TypeOK, AcceptDone
<1>6. CASE \E s \in Sessions, fd \in FDs : AcceptClient(s, fd)
  <2>1. PICK s \in Sessions, fd \in FDs : AcceptClient(s, fd)
    BY <1>6
  <2>2. TypeClient'
    BY <2>1 DEF ReactorInv, TypeOK, TypeClient, client, AcceptClient
  <2>3. TypeTable'
    BY <2>1 DEF ReactorInv, TypeOK, TypeTable, table, AcceptClient
  <2>4. TypeDispatcher'
    BY <2>1 DEF ReactorInv, TypeOK, TypeDispatcher, DispatcherPC, dispatcher,
       AcceptClient
  <2> QED BY <2>1, <2>2, <2>3, <2>4, TypeFrame DEF ReactorInv, TypeOK, AcceptClient
<1>7. CASE \E ok \in BOOLEAN : RegisterClient(ok)
  <2>1. PICK ok \in BOOLEAN : RegisterClient(ok)
    BY <1>7
  <2>2. dfd \in FDs
    BY <2>1 DEF ReactorInv, TypeOK, Holders, RegisterClient
  <2>3. TypeTable'
    BY <2>1, <2>2 DEF ReactorInv, TypeOK, TypeTable, table, RegisterClient
  <2>4. TypeDispatcher'
    BY <2>1, <2>2 DEF ReactorInv, TypeOK, TypeDispatcher, DispatcherPC, dispatcher,
       RegisterClient
  <2> QED BY <2>1, <2>3, <2>4, TypeFrame DEF ReactorInv, TypeOK, RegisterClient
<1>8. CASE \E fd \in FDs : CloseEvent(fd)
  <2>1. PICK fd \in FDs : CloseEvent(fd)
    BY <1>8
  <2>2. TypeTable'
    BY <2>1 DEF ReactorInv, TypeOK, TypeTable, table, CloseEvent, closeSession
  <2> QED BY <2>1, <2>2, TypeFrame DEF ReactorInv, TypeOK, CloseEvent, closeSession
<1>9. CASE \E fd \in FDs : ReadEvent(fd)
  <2>1. PICK fd \in FDs : ReadEvent(fd)
    BY <1>9
  <2>2. sessions[fd] \in Sessions
    BY <2>1, EventSession DEF ReadEvent
  <2>3. unread[sessions[fd]] \in Seq(Request) /\ <<>> \in Seq(Request)
    BY <2>2 DEF ReactorInv, TypeOK, TypeClient
  <2>4. TypeClient'
    BY <2>1, <2>2, <2>3 DEF ReactorInv, TypeOK, TypeClient, client, ReadEvent
  <2>5. TypeDispatcher'
    BY <2>1, <2>2, <2>3 DEF ReactorInv, TypeOK, TypeDispatcher, DispatcherPC,
       dispatcher, ReadEvent
  <2> QED BY <2>1, <2>4, <2>5, TypeFrame DEF ReactorInv, TypeOK, ReadEvent
<1>10. CASE PushCommand
  <2>1. dfd \in FDs /\ dreqs # <<>> /\ dreqs \in Seq(Request)
    BY <1>10 DEF ReactorInv, TypeOK, Holders, TypeDispatcher, PushCommand
  <2>2. Head(dreqs) \in Request /\ Tail(dreqs) \in Seq(Request)
    BY <2>1, PopFacts
  <2>3. [fd |-> dfd, req |-> Head(dreqs)] \in Command
    BY <2>1, <2>2 DEF Command
  <2>4. Append(cmdQueue, [fd |-> dfd, req |-> Head(dreqs)]) \in Seq(Command)
    BY <2>1, <2>2, <2>3, PushFacts DEF ReactorInv, TypeOK, TypeCommands
  <2>5. TypeCommands'
    BY <1>10, <2>1, <2>2, <2>3, <2>4 DEF ReactorInv, TypeOK, TypeCommands,
       PushCommand
  <2>6. TypeDispatcher'
    BY <1>10, <2>1, <2>2, <2>3, <2>4 DEF ReactorInv, TypeOK, TypeDispatcher,
       DispatcherPC, dispatcher, PushCommand
  <2> QED BY <1>10, <2>5, <2>6, TypeFrame DEF ReactorInv, TypeOK, PushCommand
<1>11. CASE KickLogic
  <2>1. TypeCommands'
    BY <1>11 DEF ReactorInv, TypeOK, TypeCommands, KickLogic
  <2>2. TypeDispatcher'
    BY <1>11 DEF ReactorInv, TypeOK, TypeDispatcher, DispatcherPC, dispatcher,
       KickLogic
  <2> QED BY <1>11, <2>1, <2>2, TypeFrame DEF ReactorInv, TypeOK, KickLogic
<1>12. CASE LogicHead
  <2>1. TypeLogic'
    BY <1>12 DEF ReactorInv, TypeOK, TypeLogic, LogicPC, logic, LogicHead
  <2> QED BY <1>12, <2>1, TypeFrame DEF ReactorInv, TypeOK, LogicHead
<1>13. CASE LogicRead
  <2>1. TypeCommands'
    BY <1>13 DEF ReactorInv, TypeOK, TypeCommands, LogicRead
  <2>2. TypeLogic'
    BY <1>13 DEF ReactorInv, TypeOK, TypeLogic, LogicPC, logic, LogicRead
  <2> QED BY <1>13, <2>1, <2>2, TypeFrame DEF ReactorInv, TypeOK, LogicRead
<1>14. CASE RouteCommand
  <2>1. cmdQueue # <<>> /\ cmdQueue \in Seq(Command)
    BY <1>14 DEF ReactorInv, TypeOK, RouteCommand, TypeCommands
  <2>2. Head(cmdQueue) \in Command /\ Tail(cmdQueue) \in Seq(Command)
    BY <2>1, PopFacts
  <2>3. Head(cmdQueue).fd \in FDs /\ Head(cmdQueue).req \in Request
    BY <2>1, <2>2 DEF Command
  <2>4. <<Head(cmdQueue).req>> \in Seq(Request)
    BY <2>1, <2>2, <2>3
  <2>5. sessions[Head(cmdQueue).fd] \in Sessions \cup {NoSess}
    BY <2>1, <2>2, <2>3, <2>4 DEF ReactorInv, TypeOK, TypeTable
  <2>6. TypeCommands'
    BY <1>14, <2>1, <2>2, <2>3, <2>4, <2>5 DEF ReactorInv, TypeOK, TypeCommands,
       RouteCommand
  <2>7. TypeLogic'
    BY <1>14, <2>1, <2>2, <2>3, <2>4, <2>5 DEF ReactorInv, TypeOK, TypeLogic,
       LogicPC, logic, RouteCommand
  <2> QED BY <1>14, <2>6, <2>7, TypeFrame DEF ReactorInv, TypeOK, RouteCommand
<1>15. CASE QueueDrained
  <2>1. TypeLogic'
    BY <1>15 DEF ReactorInv, TypeOK, TypeLogic, LogicPC, logic, QueueDrained
  <2> QED BY <1>15, <2>1, TypeFrame DEF ReactorInv, TypeOK, QueueDrained
<1>16. CASE pushCommand
  <2>1. lsess \in Sessions
    BY <1>16 DEF ReactorInv, TypeOK, Holders, pushCommand
  <2>2. cmdq[lsess] \in Seq(Request) /\ lreq \in Seq(Request)
    BY <2>1 DEF ReactorInv, TypeOK, TypeSession, TypeLogic
  <2>3. cmdq[lsess] \o lreq \in Seq(Request) /\ <<>> \in Seq(Request)
    BY <2>1, <2>2, ConcatProperties
  <2>4. TypeSession'
    BY <1>16, <2>1, <2>2, <2>3 DEF ReactorInv, TypeOK, TypeSession, session,
       pushCommand
  <2>5. TypeLogic'
    BY <1>16, <2>1, <2>2, <2>3 DEF ReactorInv, TypeOK, TypeLogic, LogicPC, logic,
       pushCommand
  <2> QED BY <1>16, <2>4, <2>5, TypeFrame DEF ReactorInv, TypeOK, pushCommand
<1>17. CASE KickPacer
  <2>1. TypeLogic'
    BY <1>17 DEF ReactorInv, TypeOK, TypeLogic, LogicPC, logic, KickPacer
  <2> QED BY <1>17, <2>1, TypeFrame DEF ReactorInv, TypeOK, KickPacer
<1>18. CASE PacerHead
  <2>1. TypePacer'
    BY <1>18 DEF ReactorInv, TypeOK, TypePacer, PacerPC, pacer, PacerHead
  <2> QED BY <1>18, <2>1, TypeFrame DEF ReactorInv, TypeOK, PacerHead
<1>19. CASE PacerWakes
  <2>1. TypePacer'
    BY <1>19 DEF ReactorInv, TypeOK, TypePacer, PacerPC, pacer, PacerWakes
  <2> QED BY <1>19, <2>1, TypeFrame DEF ReactorInv, TypeOK, PacerWakes
<1>20. CASE Snapshot
  <2>1. TypePacer'
    BY <1>20 DEF ReactorInv, TypeOK, TypePacer, PacerPC, pacer, Snapshot
  <2> QED BY <1>20, <2>1, TypeFrame DEF ReactorInv, TypeOK, Snapshot
<1>21. CASE Submit
  <2>1. psess \in Sessions /\ tasks \in Seq(Sessions)
    BY <1>21 DEF ReactorInv, TypeOK, Holders, Submit, TypePacer, TypePool
  <2>2. Append(tasks, psess) \in Seq(Sessions)
    BY <2>1, PushFacts
  <2>3. TypePool'
    BY <1>21, <2>1, <2>2 DEF ReactorInv, TypeOK, TypePool, WorkerPC, pool, Submit
  <2>4. TypePacer'
    BY <1>21, <2>1, <2>2 DEF ReactorInv, TypeOK, TypePacer, PacerPC, pacer, Submit
  <2> QED BY <1>21, <2>3, <2>4, TypeFrame DEF ReactorInv, TypeOK, Submit
<1>22. CASE RoundDone
  <2>1. TypePacer'
    BY <1>22 DEF ReactorInv, TypeOK, TypePacer, PacerPC, pacer, RoundDone
  <2> QED BY <1>22, <2>1, TypeFrame DEF ReactorInv, TypeOK, RoundDone
<1>23. CASE \E s \in Sessions : tryClaimPacerTick(s)
  <2>1. PICK s \in Sessions : tryClaimPacerTick(s)
    BY <1>23
  <2>2. TypeSession'
    BY <2>1 DEF ReactorInv, TypeOK, TypeSession, session, tryClaimPacerTick
  <2>3. TypePacer'
    BY <2>1 DEF ReactorInv, TypeOK, TypePacer, PacerPC, pacer, tryClaimPacerTick
  <2> QED BY <2>1, <2>2, <2>3, TypeFrame DEF ReactorInv, TypeOK, tryClaimPacerTick
<1>24. CASE \E w \in Workers : PopTask(w)
  <2>1. PICK w \in Workers : PopTask(w)
    BY <1>24
  <2>2. tasks \in Seq(Sessions) /\ tasks # <<>>
    BY <2>1 DEF ReactorInv, TypeOK, PopTask, TypePool
  <2>3. Head(tasks) \in Sessions /\ Tail(tasks) \in Seq(Sessions)
    BY <2>2, PopFacts
  <2>4. TypePool'
    BY <2>1, <2>2, <2>3 DEF ReactorInv, TypeOK, TypePool, WorkerPC, pool, PopTask
  <2> QED BY <2>1, <2>4, TypeFrame DEF ReactorInv, TypeOK, PopTask
<1>25. CASE \E w \in Workers : WorkerExit(w)
  <2>1. PICK w \in Workers : WorkerExit(w)
    BY <1>25
  <2>2. TypePool'
    BY <2>1 DEF ReactorInv, TypeOK, TypePool, WorkerPC, pool, WorkerExit
  <2> QED BY <2>1, <2>2, TypeFrame DEF ReactorInv, TypeOK, WorkerExit
<1>26. CASE \E w \in Workers, outcome \in Outcomes : HandleRequest(w, outcome)
  <2>1. PICK w \in Workers, outcome \in Outcomes : HandleRequest(w, outcome)
    BY <1>26
  <2>2. wsess[w] \in Sessions
    BY <2>1 DEF ReactorInv, TypeOK, Holders, HandleRequest
  <2>3. cmdq[wsess[w]] \in Seq(Request) /\ cmdq[wsess[w]] # <<>>
    BY <2>1, <2>2 DEF ReactorInv, TypeOK, TypeSession, HandleRequest
  <2>4. Tail(cmdq[wsess[w]]) \in Seq(Request)
    BY <2>2, <2>3, PopFacts
  <2>5. taken[wsess[w]] \in Nat /\ taken[wsess[w]] + 1 \in Nat
    BY <2>2 DEF ReactorInv, TypeOK, TypeSession
  <2>6. NextPlace(outcome) \in WorkerPC
    BY DEF NextPlace, WorkerPC
  <2>7. TypeSession'
    BY <2>1, <2>2, <2>3, <2>4, <2>5, <2>6 DEF ReactorInv, TypeOK, TypeSession,
       session, HandleRequest
  <2>8. TypePool'
    BY <2>1, <2>2, <2>3, <2>4, <2>5, <2>6 DEF ReactorInv, TypeOK, TypePool,
       WorkerPC, pool, HandleRequest
  <2> QED BY <2>1, <2>7, <2>8, TypeFrame DEF ReactorInv, TypeOK, HandleRequest
<1>27. CASE \E w \in Workers : TickMedia(w)
  <2>1. PICK w \in Workers : TickMedia(w)
    BY <1>27
  <2>2. TypePool'
    BY <2>1 DEF ReactorInv, TypeOK, TypePool, WorkerPC, pool, TickMedia
  <2> QED BY <2>1, <2>2, TypeFrame DEF ReactorInv, TypeOK, TickMedia
<1>28. CASE \E w \in Workers : releasePacerTick(w)
  <2>1. PICK w \in Workers : releasePacerTick(w)
    BY <1>28
  <2>2. wsess[w] \in Sessions
    BY <2>1 DEF ReactorInv, TypeOK, Holders, releasePacerTick
  <2>3. TypeSession'
    BY <2>1, <2>2 DEF ReactorInv, TypeOK, TypeSession, session, releasePacerTick
  <2>4. TypePool'
    BY <2>1, <2>2 DEF ReactorInv, TypeOK, TypePool, WorkerPC, pool, releasePacerTick
  <2> QED BY <2>1, <2>3, <2>4, TypeFrame DEF ReactorInv, TypeOK, releasePacerTick
<1>29. CASE \E w \in Workers : TaskDone(w)
  <2>1. PICK w \in Workers : TaskDone(w)
    BY <1>29
  <2>2. TypePool'
    BY <2>1 DEF ReactorInv, TypeOK, TypePool, WorkerPC, pool, TaskDone
  <2> QED BY <2>1, <2>2, TypeFrame DEF ReactorInv, TypeOK, TaskDone
<1>30. CASE Stop
  <2>1. TypeControl'
    BY <1>30 DEF ReactorInv, TypeOK, TypeControl, MainPC, control, Stop
  <2> QED BY <1>30, <2>1, TypeFrame DEF ReactorInv, TypeOK, Stop
<1>31. CASE JoinDispatcher
  <2>1. TypeControl'
    BY <1>31 DEF ReactorInv, TypeOK, TypeControl, MainPC, control, JoinDispatcher,
       Join
  <2> QED BY <1>31, <2>1, TypeFrame DEF ReactorInv, TypeOK, JoinDispatcher, Join
<1>32. CASE UnblockLogic
  <2>1. TypeCommands'
    BY <1>32 DEF ReactorInv, TypeOK, TypeCommands, UnblockLogic, Join
  <2>2. TypeControl'
    BY <1>32 DEF ReactorInv, TypeOK, TypeControl, MainPC, control, UnblockLogic, Join
  <2> QED BY <1>32, <2>1, <2>2, TypeFrame DEF ReactorInv, TypeOK, UnblockLogic, Join
<1>33. CASE JoinThreads
  <2>1. TypeControl'
    BY <1>33 DEF ReactorInv, TypeOK, TypeControl, MainPC, control, JoinThreads, Join
  <2> QED BY <1>33, <2>1, TypeFrame DEF ReactorInv, TypeOK, JoinThreads, Join
<1>34. CASE ShutdownPool
  <2>1. TypeControl'
    BY <1>34 DEF ReactorInv, TypeOK, TypeControl, MainPC, control, ShutdownPool, Join
  <2>2. TypePool'
    BY <1>34 DEF ReactorInv, TypeOK, TypePool, WorkerPC, pool, ShutdownPool, Join
  <2> QED BY <1>34, <2>1, <2>2, TypeFrame DEF ReactorInv, TypeOK, ShutdownPool, Join
<1>35. CASE ClearSessions
  <2>1. TypeControl'
    BY <1>35 DEF ReactorInv, TypeOK, TypeControl, MainPC, control, ClearSessions,
       Join
  <2>2. TypeTable'
    BY <1>35 DEF ReactorInv, TypeOK, TypeTable, table, ClearSessions, Join
  <2> QED BY <1>35, <2>1, <2>2, TypeFrame DEF ReactorInv, TypeOK, ClearSessions, Join
<1>36. CASE UNCHANGED vars
  <2> QED BY <1>36, TypeFrame DEF ReactorInv, TypeOK, vars
<1> QED BY <1>1, <1>2, <1>3, <1>4, <1>5, <1>6, <1>7, <1>8, <1>9, <1>10, <1>11,
    <1>12, <1>13, <1>14, <1>15, <1>16, <1>17, <1>18, <1>19, <1>20, <1>21, <1>22,
    <1>23, <1>24, <1>25, <1>26, <1>27, <1>28, <1>29, <1>30, <1>31, <1>32, <1>33,
    <1>34, <1>35, <1>36, NextCases

\* Every step keeps the kick that Logic needs.
LEMMA KickStep ==
  ASSUME ReactorInv, [Next]_vars
  PROVE  NoLostKick'
<1> USE DEF TypeOK, TypeCommands, client, table, session, control, dispatcher,
    logic, pacer, pool
<1>1. CASE \E s \in Sessions : SendRequest(s)
  BY <1>1 DEF ReactorInv, NoLostKick, SendRequest
<1>2. CASE DispatcherExit
  BY <1>2 DEF ReactorInv, NoLostKick, DispatcherExit
<1>3. CASE SignalEvent
  BY <1>3 DEF ReactorInv, NoLostKick, SignalEvent
<1>4. CASE AcceptEvent
  BY <1>4 DEF ReactorInv, NoLostKick, AcceptEvent
<1>5. CASE AcceptDone
  BY <1>5 DEF ReactorInv, NoLostKick, AcceptDone
<1>6. CASE \E s \in Sessions, fd \in FDs : AcceptClient(s, fd)
  BY <1>6 DEF ReactorInv, NoLostKick, AcceptClient
<1>7. CASE \E ok \in BOOLEAN : RegisterClient(ok)
  BY <1>7 DEF ReactorInv, NoLostKick, RegisterClient
<1>8. CASE \E fd \in FDs : CloseEvent(fd)
  BY <1>8 DEF ReactorInv, NoLostKick, CloseEvent, closeSession
<1>9. CASE \E fd \in FDs : ReadEvent(fd)
  BY <1>9 DEF ReactorInv, NoLostKick, ReadEvent
<1>10. CASE PushCommand
  BY <1>10 DEF ReactorInv, NoLostKick, PushCommand
<1>11. CASE KickLogic
  BY <1>11 DEF ReactorInv, NoLostKick, KickLogic
<1>12. CASE LogicHead
  BY <1>12 DEF ReactorInv, NoLostKick, LogicHead
<1>13. CASE LogicRead
  BY <1>13 DEF ReactorInv, NoLostKick, LogicRead
<1>14. CASE RouteCommand
  BY <1>14 DEF ReactorInv, NoLostKick, RouteCommand
<1>15. CASE QueueDrained
  BY <1>15 DEF ReactorInv, NoLostKick, QueueDrained
<1>16. CASE pushCommand
  BY <1>16 DEF ReactorInv, NoLostKick, pushCommand
<1>17. CASE KickPacer
  BY <1>17 DEF ReactorInv, NoLostKick, KickPacer
<1>18. CASE PacerHead
  BY <1>18 DEF ReactorInv, NoLostKick, PacerHead
<1>19. CASE PacerWakes
  BY <1>19 DEF ReactorInv, NoLostKick, PacerWakes
<1>20. CASE Snapshot
  BY <1>20 DEF ReactorInv, NoLostKick, Snapshot
<1>21. CASE Submit
  BY <1>21 DEF ReactorInv, NoLostKick, Submit
<1>22. CASE RoundDone
  BY <1>22 DEF ReactorInv, NoLostKick, RoundDone
<1>23. CASE \E s \in Sessions : tryClaimPacerTick(s)
  BY <1>23 DEF ReactorInv, NoLostKick, tryClaimPacerTick
<1>24. CASE \E w \in Workers : PopTask(w)
  BY <1>24 DEF ReactorInv, NoLostKick, PopTask
<1>25. CASE \E w \in Workers : WorkerExit(w)
  BY <1>25 DEF ReactorInv, NoLostKick, WorkerExit
<1>26. CASE \E w \in Workers, outcome \in Outcomes : HandleRequest(w, outcome)
  BY <1>26 DEF ReactorInv, NoLostKick, HandleRequest, NextPlace
<1>27. CASE \E w \in Workers : TickMedia(w)
  BY <1>27 DEF ReactorInv, NoLostKick, TickMedia
<1>28. CASE \E w \in Workers : releasePacerTick(w)
  BY <1>28 DEF ReactorInv, NoLostKick, releasePacerTick
<1>29. CASE \E w \in Workers : TaskDone(w)
  BY <1>29 DEF ReactorInv, NoLostKick, TaskDone
<1>30. CASE Stop
  BY <1>30 DEF ReactorInv, NoLostKick, Stop
<1>31. CASE JoinDispatcher
  BY <1>31 DEF ReactorInv, NoLostKick, JoinDispatcher, Join
<1>32. CASE UnblockLogic
  BY <1>32 DEF ReactorInv, NoLostKick, UnblockLogic, Join
<1>33. CASE JoinThreads
  BY <1>33 DEF ReactorInv, NoLostKick, JoinThreads, Join
<1>34. CASE ShutdownPool
  BY <1>34 DEF ReactorInv, NoLostKick, ShutdownPool, Join
<1>35. CASE ClearSessions
  BY <1>35 DEF ReactorInv, NoLostKick, ClearSessions, Join
<1>36. CASE UNCHANGED vars
  BY <1>36 DEF ReactorInv, NoLostKick, vars
<1> QED BY <1>1, <1>2, <1>3, <1>4, <1>5, <1>6, <1>7, <1>8, <1>9, <1>10, <1>11,
    <1>12, <1>13, <1>14, <1>15, <1>16, <1>17, <1>18, <1>19, <1>20, <1>21, <1>22,
    <1>23, <1>24, <1>25, <1>26, <1>27, <1>28, <1>29, <1>30, <1>31, <1>32, <1>33,
    <1>34, <1>35, <1>36, NextCases, ReactorAssumption

\* A descriptor that is free has no session in the map.
LEMMA FreeIsUnmapped ==
  ASSUME ReactorInv, NEW fd \in FDs, FreeFd(fd)
  PROVE  sessions[fd] = NoSess
BY DEF ReactorInv, TypeOK, TypeTable, FdOwnership, FreeFd, Alive, InMap

\* Ticks stay exclusive when workers only leave them and the queue, the
\* Pacer's place and the slots stay as they are.
LEMMA TickFrame ==
  ASSUME TypeOK, TickExclusive, UNCHANGED <<tasks, ppc, psess, inFlight>>,
         \A v \in Workers, s \in Sessions : Ticking(v, s)' => Ticking(v, s)
  PROVE  TickExclusive'
<1>1. \A i \in 1..Len(tasks) : tasks[i] \in Sessions
  BY DEF TypeOK, TypePool
<1> QED BY <1>1 DEF TickExclusive, Owned, Submitting

\* Every step keeps ticks exclusive.
LEMMA TickStep ==
  ASSUME ReactorInv, [Next]_vars
  PROVE  TickExclusive'
<1> USE DEF TypeOK, TypePool, TypePacer, TypeSession, Owned, Submitting, Ticking,
    client, table, session, control, dispatcher, logic, pacer, pool
<1>1. CASE \E s \in Sessions : SendRequest(s)
  BY <1>1 DEF ReactorInv, TickExclusive, Holders, SendRequest
<1>2. CASE DispatcherExit
  BY <1>2 DEF ReactorInv, TickExclusive, Holders, DispatcherExit
<1>3. CASE SignalEvent
  BY <1>3 DEF ReactorInv, TickExclusive, Holders, SignalEvent
<1>4. CASE AcceptEvent
  BY <1>4 DEF ReactorInv, TickExclusive, Holders, AcceptEvent
<1>5. CASE AcceptDone
  BY <1>5 DEF ReactorInv, TickExclusive, Holders, AcceptDone
<1>6. CASE \E s \in Sessions, fd \in FDs : AcceptClient(s, fd)
  BY <1>6 DEF ReactorInv, TickExclusive, Holders, AcceptClient
<1>7. CASE \E ok \in BOOLEAN : RegisterClient(ok)
  BY <1>7 DEF ReactorInv, TickExclusive, Holders, RegisterClient
<1>8. CASE \E fd \in FDs : CloseEvent(fd)
  BY <1>8 DEF ReactorInv, TickExclusive, Holders, CloseEvent, closeSession
<1>9. CASE \E fd \in FDs : ReadEvent(fd)
  BY <1>9 DEF ReactorInv, TickExclusive, Holders, ReadEvent
<1>10. CASE PushCommand
  BY <1>10 DEF ReactorInv, TickExclusive, Holders, PushCommand
<1>11. CASE KickLogic
  BY <1>11 DEF ReactorInv, TickExclusive, Holders, KickLogic
<1>12. CASE LogicHead
  BY <1>12 DEF ReactorInv, TickExclusive, Holders, LogicHead
<1>13. CASE LogicRead
  BY <1>13 DEF ReactorInv, TickExclusive, Holders, LogicRead
<1>14. CASE RouteCommand
  BY <1>14 DEF ReactorInv, TickExclusive, Holders, RouteCommand
<1>15. CASE QueueDrained
  BY <1>15 DEF ReactorInv, TickExclusive, Holders, QueueDrained
<1>16. CASE pushCommand
  BY <1>16 DEF ReactorInv, TickExclusive, Holders, pushCommand
<1>17. CASE KickPacer
  BY <1>17 DEF ReactorInv, TickExclusive, Holders, KickPacer
<1>18. CASE PacerHead
  BY <1>18 DEF ReactorInv, TickExclusive, Holders, PacerHead
<1>19. CASE PacerWakes
  BY <1>19 DEF ReactorInv, TickExclusive, Holders, PacerWakes
<1>20. CASE Snapshot
  BY <1>20 DEF ReactorInv, TickExclusive, Holders, Snapshot
<1>21. CASE Submit
  <2>1. psess \in Sessions /\ tasks \in Seq(Sessions) /\ tasks' = Append(tasks, psess)
    BY <1>21 DEF ReactorInv, Holders, Submit
  <2>2. /\ Len(tasks) \in Nat /\ Len(tasks') = Len(tasks) + 1
        /\ \A i \in 1..Len(tasks) : tasks'[i] = tasks[i]
        /\ tasks'[Len(tasks)+1] = psess
    BY <2>1, PushFacts
  <2>3. \A i \in 1..Len(tasks') : i \in 1..Len(tasks) \/ i = Len(tasks) + 1
    BY <2>2
  <2> QED BY <1>21, <2>1, <2>2, <2>3 DEF ReactorInv, TickExclusive, Submit
<1>22. CASE RoundDone
  BY <1>22 DEF ReactorInv, TickExclusive, Holders, RoundDone
<1>23. CASE \E s \in Sessions : tryClaimPacerTick(s)
  BY <1>23 DEF ReactorInv, TickExclusive, PacerPC, tryClaimPacerTick
<1>24. CASE \E w \in Workers : PopTask(w)
  <2>1. PICK w \in Workers : PopTask(w)
    BY <1>24
  <2>2. tasks \in Seq(Sessions) /\ tasks # <<>> /\ tasks' = Tail(tasks)
    BY <2>1 DEF ReactorInv, PopTask
  <2>3. /\ Len(tasks) \in Nat /\ 1 \in 1..Len(tasks) /\ Head(tasks) = tasks[1] /\ tasks[1] \in Sessions
        /\ Len(tasks') = Len(tasks) - 1
        /\ \A i \in 1..Len(tasks') : tasks'[i] = tasks[i+1] /\ i + 1 \in 1..Len(tasks)
    BY <2>2, PopFacts
  <2>4. ASSUME NEW i \in 1..Len(tasks')
        PROVE  tasks'[i] # tasks[1]
    <3>1. tasks'[i] = tasks[i+1] /\ i + 1 \in 1..Len(tasks) /\ i + 1 # 1
      BY <2>3
    <3> QED BY <2>3, <3>1 DEF ReactorInv, TickExclusive
  <2>5. \A i, j \in 1..Len(tasks') : tasks'[i] = tasks'[j] => i = j
    <3>1. SUFFICES ASSUME NEW i \in 1..Len(tasks'), NEW j \in 1..Len(tasks'), tasks'[i] = tasks'[j]
                   PROVE  i = j
      OBVIOUS
    <3>2. i + 1 \in 1..Len(tasks) /\ j + 1 \in 1..Len(tasks) /\ tasks[i+1] = tasks[j+1]
      BY <2>3, <3>1
    <3>3. i + 1 = j + 1
      BY <3>2 DEF ReactorInv, TickExclusive
    <3> QED BY <2>3, <3>3
  <2> QED BY <2>1, <2>3, <2>4, <2>5 DEF ReactorInv, TickExclusive, PopTask
<1>25. CASE \E w \in Workers : WorkerExit(w)
  BY <1>25 DEF ReactorInv, TickExclusive, Holders, WorkerExit
<1>26. CASE \E w \in Workers, outcome \in Outcomes : HandleRequest(w, outcome)
  <2>1. PICK w \in Workers, outcome \in Outcomes : HandleRequest(w, outcome)
    BY <1>26
  <2>2. \A v \in Workers, s \in Sessions : Ticking(v, s)' => Ticking(v, s)
    BY <2>1 DEF ReactorInv, HandleRequest
  <2>3. UNCHANGED <<tasks, ppc, psess, inFlight>>
    BY <2>1 DEF HandleRequest
  <2> HIDE DEF Ticking
  <2> QED BY <2>2, <2>3, TickFrame DEF ReactorInv
<1>27. CASE \E w \in Workers : TickMedia(w)
  BY <1>27 DEF ReactorInv, TickExclusive, Holders, TickMedia
<1>28. CASE \E w \in Workers : releasePacerTick(w)
  BY <1>28, SMTT(30) DEF ReactorInv, TickExclusive, Holders, releasePacerTick
<1>29. CASE \E w \in Workers : TaskDone(w)
  BY <1>29 DEF ReactorInv, TickExclusive, Holders, TaskDone
<1>30. CASE Stop
  BY <1>30 DEF ReactorInv, TickExclusive, Holders, Stop
<1>31. CASE JoinDispatcher
  BY <1>31 DEF ReactorInv, TickExclusive, Holders, JoinDispatcher, Join
<1>32. CASE UnblockLogic
  BY <1>32 DEF ReactorInv, TickExclusive, Holders, UnblockLogic, Join
<1>33. CASE JoinThreads
  BY <1>33 DEF ReactorInv, TickExclusive, Holders, JoinThreads, Join
<1>34. CASE ShutdownPool
  BY <1>34 DEF ReactorInv, TickExclusive, Holders, ShutdownPool, Join
<1>35. CASE ClearSessions
  BY <1>35 DEF ReactorInv, TickExclusive, Holders, ClearSessions, Join
<1>36. CASE UNCHANGED vars
  BY <1>36 DEF ReactorInv, TickExclusive, Holders, vars
<1> QED BY <1>1, <1>2, <1>3, <1>4, <1>5, <1>6, <1>7, <1>8, <1>9, <1>10, <1>11,
    <1>12, <1>13, <1>14, <1>15, <1>16, <1>17, <1>18, <1>19, <1>20, <1>21, <1>22,
    <1>23, <1>24, <1>25, <1>26, <1>27, <1>28, <1>29, <1>30, <1>31, <1>32, <1>33,
    <1>34, <1>35, <1>36, NextCases, ReactorAssumption

\* A session object comes into being only by being accepted.
LEMMA AliveStep ==
  ASSUME ReactorInv, [Next]_vars
  PROVE  \A s \in Sessions : Alive(s)' => Alive(s) \/ s \in accepted' \ accepted
<1> USE ReactorAssumption DEF TypeOK, TypePool, TypePacer, TypeTable, TypeLogic,
    TypeCommands, Alive, InMap, HeldOutside, client, table, session, control,
    dispatcher, logic, pacer, pool
<1>1. CASE \E s \in Sessions : SendRequest(s)
  BY <1>1 DEF ReactorInv, Holders, SendRequest
<1>2. CASE DispatcherExit
  BY <1>2 DEF ReactorInv, Holders, DispatcherExit
<1>3. CASE SignalEvent
  BY <1>3 DEF ReactorInv, Holders, SignalEvent
<1>4. CASE AcceptEvent
  BY <1>4 DEF ReactorInv, Holders, AcceptEvent
<1>5. CASE AcceptDone
  BY <1>5 DEF ReactorInv, Holders, AcceptDone
<1>6. CASE \E s \in Sessions, fd \in FDs : AcceptClient(s, fd)
  BY <1>6 DEF ReactorInv, Holders, AcceptClient
<1>7. CASE \E ok \in BOOLEAN : RegisterClient(ok)
  BY <1>7 DEF ReactorInv, Holders, RegisterClient
<1>8. CASE \E fd \in FDs : CloseEvent(fd)
  BY <1>8 DEF ReactorInv, Holders, CloseEvent, closeSession
<1>9. CASE \E fd \in FDs : ReadEvent(fd)
  BY <1>9 DEF ReactorInv, Holders, ReadEvent
<1>10. CASE PushCommand
  BY <1>10 DEF ReactorInv, Holders, PushCommand
<1>11. CASE KickLogic
  BY <1>11 DEF ReactorInv, Holders, KickLogic
<1>12. CASE LogicHead
  BY <1>12 DEF ReactorInv, Holders, LogicHead
<1>13. CASE LogicRead
  BY <1>13 DEF ReactorInv, Holders, LogicRead
<1>14. CASE RouteCommand
  <2>1. Head(cmdQueue) \in Command
    BY <1>14, PopFacts DEF ReactorInv, RouteCommand
  <2>2. Head(cmdQueue).fd \in FDs
    BY <2>1 DEF Command
  <2> QED BY <1>14, <2>2, ReactorAssumption DEF ReactorInv, RouteCommand
<1>15. CASE QueueDrained
  BY <1>15 DEF ReactorInv, Holders, QueueDrained
<1>16. CASE pushCommand
  BY <1>16 DEF ReactorInv, Holders, pushCommand
<1>17. CASE KickPacer
  BY <1>17 DEF ReactorInv, Holders, KickPacer
<1>18. CASE PacerHead
  BY <1>18 DEF ReactorInv, Holders, PacerHead
<1>19. CASE PacerWakes
  BY <1>19 DEF ReactorInv, Holders, PacerWakes
<1>20. CASE Snapshot
  BY <1>20 DEF ReactorInv, Holders, Snapshot
<1>21. CASE Submit
  <2>1. psess \in active /\ psess \in Sessions /\ tasks \in Seq(Sessions) /\ tasks' = Append(tasks, psess)
    BY <1>21 DEF ReactorInv, Holders, Submit
  <2>2. /\ Len(tasks) \in Nat /\ Len(tasks') = Len(tasks) + 1
        /\ \A i \in 1..Len(tasks) : tasks'[i] = tasks[i]
        /\ tasks'[Len(tasks)+1] = psess
    BY <2>1, PushFacts
  <2>3. \A i \in 1..Len(tasks') : i \in 1..Len(tasks) \/ i = Len(tasks) + 1
    BY <2>2
  <2> QED BY <1>21, <2>1, <2>2, <2>3 DEF ReactorInv, Submit
<1>22. CASE RoundDone
  BY <1>22 DEF ReactorInv, Holders, RoundDone
<1>23. CASE \E s \in Sessions : tryClaimPacerTick(s)
  BY <1>23 DEF ReactorInv, Holders, tryClaimPacerTick
<1>24. CASE \E w \in Workers : PopTask(w)
  <2>1. PICK w \in Workers : PopTask(w)
    BY <1>24
  <2>2. tasks \in Seq(Sessions) /\ tasks # <<>> /\ tasks' = Tail(tasks)
    BY <2>1 DEF ReactorInv, PopTask
  <2>3. /\ 1 \in 1..Len(tasks) /\ Head(tasks) = tasks[1]
        /\ \A i \in 1..Len(tasks') : tasks'[i] = tasks[i+1] /\ i + 1 \in 1..Len(tasks)
    BY <2>2, PopFacts
  <2> QED BY <2>1, <2>3 DEF ReactorInv, PopTask
<1>25. CASE \E w \in Workers : WorkerExit(w)
  BY <1>25 DEF ReactorInv, Holders, WorkerExit
<1>26. CASE \E w \in Workers, outcome \in Outcomes : HandleRequest(w, outcome)
  BY <1>26 DEF ReactorInv, Holders, HandleRequest, NextPlace
<1>27. CASE \E w \in Workers : TickMedia(w)
  BY <1>27 DEF ReactorInv, Holders, TickMedia
<1>28. CASE \E w \in Workers : releasePacerTick(w)
  BY <1>28 DEF ReactorInv, Holders, releasePacerTick
<1>29. CASE \E w \in Workers : TaskDone(w)
  BY <1>29 DEF ReactorInv, Holders, TaskDone
<1>30. CASE Stop
  BY <1>30 DEF ReactorInv, Holders, Stop
<1>31. CASE JoinDispatcher
  BY <1>31 DEF ReactorInv, Holders, JoinDispatcher, Join
<1>32. CASE UnblockLogic
  BY <1>32 DEF ReactorInv, Holders, UnblockLogic, Join
<1>33. CASE JoinThreads
  BY <1>33 DEF ReactorInv, Holders, JoinThreads, Join
<1>34. CASE ShutdownPool
  BY <1>34 DEF ReactorInv, Holders, ShutdownPool, Join
<1>35. CASE ClearSessions
  BY <1>35 DEF ReactorInv, Holders, ClearSessions, Join
<1>36. CASE UNCHANGED vars
  BY <1>36 DEF ReactorInv, Holders, vars
<1> QED BY <1>1, <1>2, <1>3, <1>4, <1>5, <1>6, <1>7, <1>8, <1>9, <1>10, <1>11,
    <1>12, <1>13, <1>14, <1>15, <1>16, <1>17, <1>18, <1>19, <1>20, <1>21, <1>22,
    <1>23, <1>24, <1>25, <1>26, <1>27, <1>28, <1>29, <1>30, <1>31, <1>32, <1>33,
    <1>34, <1>35, <1>36, NextCases, ReactorAssumption

\* Every step keeps descriptors with their owners.
LEMMA FdStep ==
  ASSUME ReactorInv, [Next]_vars
  PROVE  FdOwnership' /\ Registering' /\ Born'
<1> USE AliveStep, ReactorAssumption DEF TypeOK, TypeTable, TypeClient, FdOwnership,
    Registering, Born, client, table, session, control, dispatcher, logic, pacer,
    pool
<1>1. CASE \E s \in Sessions : SendRequest(s)
  BY <1>1 DEF ReactorInv, Phases, Holders, SendRequest
<1>2. CASE DispatcherExit
  BY <1>2 DEF ReactorInv, Phases, Holders, DispatcherExit
<1>3. CASE SignalEvent
  BY <1>3 DEF ReactorInv, Phases, Holders, SignalEvent
<1>4. CASE AcceptEvent
  BY <1>4 DEF ReactorInv, Phases, Holders, AcceptEvent
<1>5. CASE AcceptDone
  BY <1>5 DEF ReactorInv, Phases, Holders, AcceptDone
<1>6. CASE \E s \in Sessions, fd \in FDs : AcceptClient(s, fd)
  <2>1. PICK s \in Sessions, fd \in FDs : AcceptClient(s, fd)
    BY <1>6
  <2>2. sessions[fd] = NoSess /\ s # NoSess
    BY <2>1, FreeIsUnmapped, ReactorAssumption DEF AcceptClient
  <2>3. /\ sessions' = [sessions EXCEPT ![fd] = s] /\ fdOf' = [fdOf EXCEPT ![s] = fd]
        /\ accepted' = accepted \cup {s} /\ s \notin accepted /\ reg' = reg /\ dfd' = fd
    BY <2>1, <2>2 DEF ReactorInv, AcceptClient
  <2>4. ~Alive(s)
    BY <2>3 DEF ReactorInv
  <2>5. \A t \in Sessions : Alive(t)' => t = s \/ (Alive(t) /\ fdOf'[t] = fdOf[t] /\ fdOf[t] # fd)
    BY <2>1, <2>3, AliveStep DEF ReactorInv, AcceptClient, FreeFd
  <2>6. \A t, u \in Sessions : (Alive(t) /\ Alive(u))' /\ fdOf'[t] = fdOf'[u] => t = u
    BY <2>3, <2>5 DEF ReactorInv
  <2>7. \A g \in FDs : sessions'[g] # NoSess => fdOf'[sessions'[g]] = g
    <3>1. SUFFICES ASSUME NEW g \in FDs, g # fd, sessions[g] # NoSess
                   PROVE  fdOf'[sessions[g]] = g
      BY <2>3 DEF ReactorInv
    <3>2. sessions[g] \in Sessions /\ Alive(sessions[g]) /\ fdOf[sessions[g]] = g
      BY <3>1 DEF ReactorInv, Alive, InMap
    <3> QED BY <2>3, <2>4, <3>2 DEF ReactorInv
  <2>8. mpc' # "done" /\ mpc # "done"
    BY <2>1 DEF ReactorInv, Phases, AcceptClient
  <2>9. fd \notin reg
    BY <2>2, <2>8 DEF ReactorInv
  <2>10. (\A g \in reg : sessions[g] # NoSess)' /\ Registering'
    BY <2>2, <2>3, <2>8, <2>9 DEF ReactorInv
  <2>11. Born'
    BY <2>3, <2>5 DEF ReactorInv
  <2> QED BY <2>6, <2>7, <2>10, <2>11
<1>7. CASE \E ok \in BOOLEAN : RegisterClient(ok)
  BY <1>7 DEF ReactorInv, Phases, Holders, RegisterClient
<1>8. CASE \E fd \in FDs : CloseEvent(fd)
  BY <1>8 DEF ReactorInv, Phases, Holders, CloseEvent, closeSession
<1>9. CASE \E fd \in FDs : ReadEvent(fd)
  BY <1>9 DEF ReactorInv, Phases, Holders, ReadEvent
<1>10. CASE PushCommand
  BY <1>10 DEF ReactorInv, Phases, Holders, PushCommand
<1>11. CASE KickLogic
  BY <1>11 DEF ReactorInv, Phases, Holders, KickLogic
<1>12. CASE LogicHead
  BY <1>12 DEF ReactorInv, Phases, Holders, LogicHead
<1>13. CASE LogicRead
  BY <1>13 DEF ReactorInv, Phases, Holders, LogicRead
<1>14. CASE RouteCommand
  BY <1>14 DEF ReactorInv, Phases, Holders, RouteCommand
<1>15. CASE QueueDrained
  BY <1>15 DEF ReactorInv, Phases, Holders, QueueDrained
<1>16. CASE pushCommand
  BY <1>16 DEF ReactorInv, Phases, Holders, pushCommand
<1>17. CASE KickPacer
  BY <1>17 DEF ReactorInv, Phases, Holders, KickPacer
<1>18. CASE PacerHead
  BY <1>18 DEF ReactorInv, Phases, Holders, PacerHead
<1>19. CASE PacerWakes
  BY <1>19 DEF ReactorInv, Phases, Holders, PacerWakes
<1>20. CASE Snapshot
  BY <1>20 DEF ReactorInv, Phases, Holders, Snapshot
<1>21. CASE Submit
  BY <1>21 DEF ReactorInv, Phases, Holders, Submit
<1>22. CASE RoundDone
  BY <1>22 DEF ReactorInv, Phases, Holders, RoundDone
<1>23. CASE \E s \in Sessions : tryClaimPacerTick(s)
  BY <1>23 DEF ReactorInv, Phases, Holders, tryClaimPacerTick
<1>24. CASE \E w \in Workers : PopTask(w)
  BY <1>24 DEF ReactorInv, Phases, Holders, PopTask
<1>25. CASE \E w \in Workers : WorkerExit(w)
  BY <1>25 DEF ReactorInv, Phases, Holders, WorkerExit
<1>26. CASE \E w \in Workers, outcome \in Outcomes : HandleRequest(w, outcome)
  BY <1>26 DEF ReactorInv, Phases, Holders, HandleRequest, NextPlace
<1>27. CASE \E w \in Workers : TickMedia(w)
  BY <1>27 DEF ReactorInv, Phases, Holders, TickMedia
<1>28. CASE \E w \in Workers : releasePacerTick(w)
  BY <1>28 DEF ReactorInv, Phases, Holders, releasePacerTick
<1>29. CASE \E w \in Workers : TaskDone(w)
  BY <1>29 DEF ReactorInv, Phases, Holders, TaskDone
<1>30. CASE Stop
  BY <1>30 DEF ReactorInv, Phases, Holders, Stop
<1>31. CASE JoinDispatcher
  BY <1>31 DEF ReactorInv, Phases, Holders, JoinDispatcher, Join
<1>32. CASE UnblockLogic
  BY <1>32 DEF ReactorInv, Phases, Holders, UnblockLogic, Join
<1>33. CASE JoinThreads
  BY <1>33 DEF ReactorInv, Phases, Holders, JoinThreads, Join
<1>34. CASE ShutdownPool
  BY <1>34 DEF ReactorInv, Phases, Holders, ShutdownPool, Join
<1>35. CASE ClearSessions
  BY <1>35 DEF ReactorInv, Phases, Holders, ClearSessions, Join
<1>36. CASE UNCHANGED vars
  BY <1>36 DEF ReactorInv, Phases, Holders, vars
<1> QED BY <1>1, <1>2, <1>3, <1>4, <1>5, <1>6, <1>7, <1>8, <1>9, <1>10, <1>11,
    <1>12, <1>13, <1>14, <1>15, <1>16, <1>17, <1>18, <1>19, <1>20, <1>21, <1>22,
    <1>23, <1>24, <1>25, <1>26, <1>27, <1>28, <1>29, <1>30, <1>31, <1>32, <1>33,
    <1>34, <1>35, <1>36, NextCases, ReactorAssumption

LEMMA ReactorInit == Init => ReactorInv
<1> SUFFICES ASSUME Init PROVE ReactorInv
  OBVIOUS
<1> USE ReactorAssumption
<1>1. TypeClient /\ TypeTable /\ TypeSession
  BY DEF Init, TypeClient, TypeTable, TypeSession
<1>2. \A S : <<>> \in Seq(S)
  OBVIOUS
<1>3. /\ TypeCommands /\ TypeControl /\ TypeDispatcher /\ TypeLogic /\ TypePacer /\ TypePool
  <2>1. TypeCommands /\ TypeControl
    BY <1>2 DEF Init, TypeCommands, TypeControl, MainPC
  <2>2. TypeDispatcher /\ TypeLogic
    BY <1>2 DEF Init, TypeDispatcher, TypeLogic, DispatcherPC, LogicPC
  <2>3. TypePacer
    BY <1>2 DEF Init, TypePacer, PacerPC
  <2>4. TypePool
    BY <1>2 DEF Init, TypePool, WorkerPC
  <2> QED BY <2>1, <2>2, <2>3, <2>4
<1>4. Phases /\ Holders /\ NoLostKick
  BY DEF Init, Phases, Holders, NoLostKick
<1>5. \A s \in Sessions : ~Alive(s) /\ ~Owned(s) /\ ~Submitting(s)
  BY DEF Init, Alive, InMap, HeldOutside, Owned, Submitting, Ticking
<1>6. TickExclusive
  BY <1>5 DEF Init, TickExclusive, Ticking
<1>7. FdOwnership /\ Registering /\ Born
  BY <1>5 DEF Init, FdOwnership, Registering, Born
<1> QED BY <1>1, <1>3, <1>4, <1>6, <1>7 DEF ReactorInv, TypeOK

\* The inductive invariant holds in every reachable state.
THEOREM ReactorInvariant == Spec => []ReactorInv
<1>1. ReactorInv /\ [Next]_vars => ReactorInv'
  BY TypeStep, PhasesStep, HoldersStep, TickStep, FdStep, KickStep DEF ReactorInv
<1> QED BY <1>1, ReactorInit, PTL DEF Spec

\* Every variable keeps its type, whatever the threads do in whatever order.
THEOREM ReactorTypeCorrect == Spec => []TypeOK
<1>1. ReactorInv => TypeOK
  BY DEF ReactorInv
<1> QED BY <1>1, ReactorInvariant, PTL

\* pacerTick of one session never runs on two workers, and is not even queued
\* twice: what lets RTSPSession keep its playback state without a lock.
THEOREM TicksAreExclusive == Spec => []TickExclusive
<1>1. ReactorInv => TickExclusive
  BY DEF ReactorInv
<1> QED BY <1>1, ReactorInvariant, PTL

\* A live session's descriptor is its own: the shared_ptr copies that Logic,
\* the Pacer and the workers hold keep the number from being reused.
THEOREM DescriptorsAreOwned == Spec => []FdOwnership
<1>1. ReactorInv => FdOwnership
  BY DEF ReactorInv
<1> QED BY <1>1, ReactorInvariant, PTL

\* logic_efd_ is never left unreadable with a command queued and Logic asleep.
THEOREM KicksAreNotLost == Spec => []NoLostKick
<1>1. ReactorInv => NoLostKick
  BY DEF ReactorInv
<1> QED BY <1>1, ReactorInvariant, PTL

\* When run() clears sessions_ every thread is joined and holds nothing.
THEOREM ShutdownIsDrained == Spec => []DrainedBeforeClear
<1>1. ReactorInv => DrainedBeforeClear
  <2> SUFFICES ASSUME ReactorInv, mpc \in {"clear", "done"}
               PROVE  /\ tasks = <<>> /\ \A s \in Sessions : ~HeldOutside(s)
                      /\ mpc = "done" => \A s \in Sessions : ~Alive(s)
    BY DEF DrainedBeforeClear
  <2>1. lsess = NoSess /\ active = {} /\ tasks = <<>> /\ \A w \in Workers : wsess[w] = NoSess
    BY ReactorAssumption DEF ReactorInv, Phases, Holders
  <2>2. \A s \in Sessions : ~HeldOutside(s)
    BY <2>1, ReactorAssumption DEF HeldOutside
  <2> QED BY <2>1, <2>2, ReactorAssumption DEF ReactorInv, Phases, Alive, InMap
<1> QED BY <1>1, ReactorInvariant, PTL

\* The Pacer is joined before its pool is closed.
THEOREM NoLateSubmit == Spec => []NoSubmitAfterClose
<1>1. ReactorInv => NoSubmitAfterClose
  BY DEF ReactorInv, Phases, NoSubmitAfterClose
<1> QED BY <1>1, ReactorInvariant, PTL

-----------------------------------------------------------------------------
(* The in-flight slot.                                                     *)

\* The slots, the Pacer's hand and the pool as SlotOwned sees them.
slots == <<inFlight, tasks, psess, wpc, wsess>>

\* A claimed slot keeps its tick when every handler returns.
LEMMA SlotStep ==
  ASSUME "throw" \notin Outcomes, ReactorInv, SlotOwned, [Next]_vars
  PROVE  SlotOwned'
<1> USE DEF client, table, session, control, dispatcher, logic, pacer, pool
<1>0. /\ inFlight \in [Sessions -> BOOLEAN] /\ tasks \in Seq(Sessions) /\ Len(tasks) \in Nat
      /\ wpc \in [Workers -> WorkerPC] /\ wsess \in [Workers -> Sessions \cup {NoSess}]
      /\ ppc = "submit" => psess \in Sessions
  BY DEF ReactorInv, TypeOK, TypeSession, TypePool, TypePacer, Holders
<1>1. ASSUME UNCHANGED slots, ppc = "submit" => ppc' = "submit" PROVE SlotOwned'
  BY <1>1 DEF SlotOwned, Owned, Submitting, Ticking, slots
<1>2. CASE \/ \E s \in Sessions : SendRequest(s)
           \/ DispatcherExit \/ SignalEvent \/ AcceptEvent \/ AcceptDone
           \/ \E s \in Sessions, fd \in FDs : AcceptClient(s, fd)
           \/ \E ok \in BOOLEAN : RegisterClient(ok)
           \/ \E fd \in FDs : CloseEvent(fd)
           \/ \E fd \in FDs : ReadEvent(fd)
           \/ PushCommand \/ KickLogic
  BY <1>1, <1>2 DEF SendRequest, DispatcherExit, SignalEvent, AcceptEvent, AcceptDone,
     AcceptClient, RegisterClient, CloseEvent, closeSession, ReadEvent, PushCommand, KickLogic,
     slots
<1>3. CASE LogicHead \/ LogicRead \/ RouteCommand \/ QueueDrained \/ pushCommand \/ KickPacer
  BY <1>1, <1>3 DEF LogicHead, LogicRead, RouteCommand, QueueDrained, pushCommand, KickPacer,
     slots
<1>4. CASE PacerHead \/ PacerWakes \/ Snapshot \/ RoundDone
  BY <1>1, <1>4 DEF PacerHead, PacerWakes, Snapshot, RoundDone, slots
<1>5. CASE \/ Stop \/ JoinDispatcher \/ UnblockLogic \/ JoinThreads \/ ShutdownPool
           \/ ClearSessions \/ UNCHANGED vars
  BY <1>1, <1>5 DEF Stop, JoinDispatcher, UnblockLogic, JoinThreads, ShutdownPool,
     ClearSessions, vars, slots
<1>6. CASE Submit
  <2>1. psess \in Sessions /\ tasks' = Append(tasks, psess)
    BY <1>0, <1>6 DEF Submit
  <2>2. /\ Len(tasks') = Len(tasks) + 1 /\ tasks'[Len(tasks)+1] = psess
        /\ \A i \in 1..Len(tasks) : tasks'[i] = tasks[i]
    BY <1>0, <2>1, PushFacts
  <2>3. \A s \in Sessions : Owned(s) => Owned(s)'
    BY <1>0, <1>6, <2>2 DEF Submit, Owned, Submitting, Ticking
  <2> QED BY <1>6, <2>3 DEF Submit, SlotOwned
<1>7. ASSUME NEW s \in Sessions, tryClaimPacerTick(s) PROVE SlotOwned'
  <2>1. \A t \in Sessions : inFlight'[t] => inFlight[t] \/ t = s
    BY <1>0, <1>7 DEF tryClaimPacerTick
  <2>2. \A t \in Sessions : Owned(t) => Owned(t)'
    BY <1>7 DEF tryClaimPacerTick, Owned, Submitting, Ticking
  <2>3. ~inFlight[s] => Owned(s)'
    BY <1>7 DEF tryClaimPacerTick, Owned, Submitting
  <2> QED BY <2>1, <2>2, <2>3 DEF SlotOwned
<1>8. ASSUME NEW w \in Workers, PopTask(w) PROVE SlotOwned'
  <2>1. /\ Head(tasks) = tasks[1] /\ Len(tasks') = Len(tasks) - 1
        /\ \A i \in 1..Len(tasks') : tasks'[i] = tasks[i+1]
    BY <1>0, <1>8, PopFacts DEF PopTask
  <2>2. /\ wpc[w] = "pop" /\ wpc'[w] = "tick" /\ wsess'[w] = tasks[1]
        /\ \A v \in Workers \ {w} : wpc'[v] = wpc[v] /\ wsess'[v] = wsess[v]
        /\ UNCHANGED <<inFlight, ppc, psess>>
    BY <1>0, <1>8, <2>1 DEF PopTask
  <2>3. ASSUME NEW s \in Sessions, NEW i \in 1..Len(tasks), tasks[i] = s PROVE Owned(s)'
    <3>1. CASE i = 1
      BY <2>2, <2>3, <3>1 DEF Owned, Ticking
    <3>2. CASE i # 1
      <4>1. i - 1 \in 1..Len(tasks') /\ tasks'[i-1] = s
        BY <1>0, <2>1, <2>3, <3>2
      <4> QED BY <4>1 DEF Owned
    <3> QED BY <3>1, <3>2
  <2>4. \A s \in Sessions, v \in Workers : Ticking(v, s) => Ticking(v, s)'
    BY <2>2 DEF Ticking
  <2>5. \A s \in Sessions : Submitting(s) => Submitting(s)'
    BY <2>2 DEF Submitting
  <2>6. \A s \in Sessions : Owned(s) => Owned(s)'
    BY <2>3, <2>4, <2>5 DEF Owned
  <2> QED BY <2>2, <2>6 DEF SlotOwned
<1>9. ASSUME NEW w \in Workers, WorkerExit(w) \/ TickMedia(w) \/ TaskDone(w) PROVE SlotOwned'
  <2>1. \A s \in Sessions, v \in Workers : Ticking(v, s) => Ticking(v, s)'
    BY <1>0, <1>9 DEF WorkerExit, TickMedia, TaskDone, Ticking
  <2>2. UNCHANGED <<inFlight, ppc, psess, tasks>>
    BY <1>9 DEF WorkerExit, TickMedia, TaskDone
  <2> QED BY <2>1, <2>2 DEF SlotOwned, Owned, Submitting
<1>10. ASSUME NEW w \in Workers, NEW outcome \in Outcomes, HandleRequest(w, outcome)
       PROVE  SlotOwned'
  <2>1. NextPlace(outcome) \in {"tick", "release"}
    BY DEF NextPlace
  <2>2. \A s \in Sessions, v \in Workers : Ticking(v, s) => Ticking(v, s)'
    BY <1>0, <1>10, <2>1 DEF HandleRequest, Ticking
  <2>3. UNCHANGED <<inFlight, ppc, psess, tasks>>
    BY <1>10 DEF HandleRequest
  <2> QED BY <2>2, <2>3 DEF SlotOwned, Owned, Submitting
<1>11. ASSUME NEW w \in Workers, releasePacerTick(w) PROVE SlotOwned'
  <2>1. wsess[w] \in Sessions
    BY <1>11 DEF releasePacerTick, ReactorInv, Holders
  <2>2. ~inFlight'[wsess[w]] /\ \A s \in Sessions \ {wsess[w]} : inFlight'[s] = inFlight[s]
    BY <1>0, <1>11, <2>1 DEF releasePacerTick
  <2>3. \A s \in Sessions \ {wsess[w]}, v \in Workers : Ticking(v, s) => Ticking(v, s)'
    BY <1>0, <1>11 DEF releasePacerTick, Ticking
  <2>4. UNCHANGED <<ppc, psess, tasks>>
    BY <1>11 DEF releasePacerTick
  <2>5. \A s \in Sessions \ {wsess[w]} : Owned(s) => Owned(s)'
    BY <2>3, <2>4 DEF Owned, Submitting
  <2> QED BY <2>2, <2>5 DEF SlotOwned
<1> QED
  BY NextCases, <1>2, <1>3, <1>4, <1>5, <1>6, <1>7, <1>8, <1>9, <1>10, <1>11

\* As long as no handler throws, a claimed in-flight slot has a tick that will
\* free it: Pacer, pool and workers never lose a session.  The premise is needed,
\* as the run reactor_slot_leak shows.
THEOREM SlotsAreFreed ==
  ASSUME "throw" \notin Outcomes
  PROVE  Spec => []SlotOwned
<1>1. Init => SlotOwned
  BY DEF Init, SlotOwned
<1>2. ReactorInv /\ SlotOwned /\ [Next]_vars => SlotOwned'
  BY SlotStep
<1> QED BY <1>1, <1>2, ReactorInvariant, PTL DEF Spec

-----------------------------------------------------------------------------
(* Complete and in order: from the socket to the session.                  *)

\* A request in the Dispatcher's hand or in cmd_queue_ carries the descriptor of
\* the session that read it; a socket holds requests of its own client.
Origins ==
  /\ dreqs # <<>> => dpc \in {"push", "kick"}
  /\ \A i \in 1..Len(dreqs) : dreqs[i].from \in accepted /\ fdOf[dreqs[i].from] = dfd
  /\ \A i \in 1..Len(cmdQueue) :
       cmdQueue[i].req.from \in accepted /\ fdOf[cmdQueue[i].req.from] = cmdQueue[i].fd
  /\ \A s \in Sessions : \A i \in 1..Len(unread[s]) : unread[s][i].from = s

\* Logic has one request in hand between the lookup and the session's queue.
InHand == lreq # <<>> => lpc = "deliver"

\* A connection that was not closed yet, accepted or not.
Open(s) == InMap(s) \/ s \notin accepted

Ordered ==
  \A s \in Sessions :
    Open(s) => taken[s] <= sent[s] /\ InOrder(Pipeline(s), s, taken[s], sent[s])

RequestInv == Origins /\ InHand /\ Ordered

\* The next request of the client comes in at the end.
LEMMA InOrderAppend ==
  ASSUME NEW s \in Sessions, NEW q \in Seq(Request), NEW lo \in Nat, NEW hi \in Nat,
         lo <= hi, InOrder(q, s, lo, hi)
  PROVE  InOrder(Append(q, [from |-> s, n |-> hi + 1]), s, lo, hi + 1)
<1> DEFINE r == [from |-> s, n |-> hi + 1]
           p == Append(q, r)
           own == {i \in 1..Len(q) : q[i].from = s}
           ownP == {i \in 1..Len(p) : p[i].from = s}
<1>1. {q[i].n : i \in own} = lo + 1 .. hi /\ \A i, j \in own : i < j => q[i].n < q[j].n
  BY DEF InOrder
<1>2. /\ Len(q) \in Nat /\ Len(p) = Len(q) + 1 /\ p[Len(q) + 1] = r
      /\ \A i \in 1..Len(q) : p[i] = q[i]
  BY PushFacts DEF Request
<1>3. ownP = own \cup {Len(q) + 1} /\ Len(q) + 1 \notin own
  BY <1>2
<1>4. \A i \in own : p[i] = q[i] /\ i < Len(q) + 1 /\ q[i].n \in lo + 1 .. hi
  BY <1>1, <1>2
<1>5. {p[i].n : i \in ownP} = lo + 1 .. hi + 1
  <2>1. \A i \in ownP : p[i].n \in lo + 1 .. hi + 1
    BY <1>2, <1>3, <1>4
  <2>2. \A n \in lo + 1 .. hi + 1 : \E i \in ownP : p[i].n = n
    <3> TAKE n \in lo + 1 .. hi + 1
    <3>1. CASE n = hi + 1
      BY <1>2, <1>3, <3>1
    <3>2. CASE n \in lo + 1 .. hi
      <4>1. PICK i \in own : q[i].n = n
        BY <1>1, <3>2
      <4>2. i \in ownP
        BY <1>3
      <4> HIDE DEF p, own, ownP
      <4> QED BY <1>4, <4>1, <4>2
    <3>3. n = hi + 1 \/ n \in lo + 1 .. hi
      OBVIOUS
    <3> QED BY <3>1, <3>2, <3>3
  <2> QED BY <2>1, <2>2
<1>6. \A i, j \in ownP : i < j => p[i].n < p[j].n
  <2>1. \A i \in own : p[i].n < p[Len(q) + 1].n
    BY <1>2, <1>4
  <2>2. \A i \in own : ~(Len(q) + 1 < i)
    BY <1>2
  <2> QED BY <1>1, <1>2, <1>3, <1>4, <2>1, <2>2
<1> QED BY <1>5, <1>6 DEF InOrder

\* The next request is taken from the front; if it is the client's own, it is the
\* oldest one not taken yet.
LEMMA InOrderTail ==
  ASSUME NEW s \in Sessions, NEW q \in Seq(Request), q # <<>>, NEW lo \in Nat, NEW hi \in Nat,
         lo <= hi, InOrder(q, s, lo, hi)
  PROVE  LET l == IF Head(q).from = s THEN lo + 1 ELSE lo
         IN  l <= hi /\ InOrder(Tail(q), s, l, hi)
<1> DEFINE p == Tail(q)
           own == {i \in 1..Len(q) : q[i].from = s}
           ownP == {i \in 1..Len(p) : p[i].from = s}
<1>1. {q[i].n : i \in own} = lo + 1 .. hi /\ \A i, j \in own : i < j => q[i].n < q[j].n
  BY DEF InOrder
<1>2. /\ Len(q) \in Nat /\ 1 \in 1..Len(q) /\ Head(q) = q[1] /\ Len(p) = Len(q) - 1
      /\ \A i \in 1..Len(p) : p[i] = q[i+1] /\ i + 1 \in 1..Len(q)
  BY PopFacts
<1>3. /\ \A i \in ownP : i + 1 \in own /\ p[i] = q[i+1]
      /\ \A j \in own : j # 1 => j - 1 \in ownP /\ p[j-1] = q[j]
  <2>1. \A i \in ownP : i + 1 \in own /\ p[i] = q[i+1]
    BY <1>2
  <2>2. ASSUME NEW j \in own, j # 1 PROVE j - 1 \in ownP /\ p[j-1] = q[j]
    <3>1. j - 1 \in 1..Len(p) /\ (j - 1) + 1 = j
      BY <1>2, <2>2
    <3> QED BY <1>2, <2>2, <3>1
  <2> QED BY <2>1, <2>2
<1>4. \A i \in own : q[i].n \in lo + 1 .. hi
  BY <1>1
<1>5. \A i, j \in ownP : i < j => p[i].n < p[j].n
  <2> TAKE i, j \in ownP
  <2>1. i + 1 \in own /\ j + 1 \in own /\ p[i] = q[i+1] /\ p[j] = q[j+1] /\ i \in Nat /\ j \in Nat
    BY <1>2, <1>3
  <2>2. i < j => i + 1 < j + 1
    BY <2>1
  <2> QED BY <1>1, <2>1, <2>2
<1>6. CASE q[1].from # s
  <2>1. 1 \notin own
    BY <1>6
  <2>2. {p[i].n : i \in ownP} = {q[i].n : i \in own}
    BY <1>3, <2>1
  <2> QED BY <1>1, <1>2, <1>5, <1>6, <2>2 DEF InOrder
<1>7. CASE q[1].from = s
  <2>1. 1 \in own /\ \A j \in own : j # 1 => 1 < j
    BY <1>2, <1>7
  <2>2. q[1].n \in lo + 1 .. hi /\ \A j \in own : j # 1 => q[1].n < q[j].n
    BY <1>1, <1>4, <2>1
  <2>3. q[1].n = lo + 1
    <3>1. lo + 1 \in lo + 1 .. hi
      BY <2>2
    <3>2. PICK j \in own : q[j].n = lo + 1
      BY <1>1, <3>1
    <3> QED BY <2>2, <3>2
  <2>4. \A i \in ownP : p[i].n \in (lo + 1) + 1 .. hi
    <3> TAKE i \in ownP
    <3>1. i + 1 \in own /\ i + 1 # 1 /\ p[i] = q[i+1]
      BY <1>2, <1>3
    <3>2. q[i+1].n \in lo + 1 .. hi /\ q[1].n < q[i+1].n
      BY <1>4, <2>2, <3>1
    <3> QED BY <2>3, <3>1, <3>2
  <2>5. \A n \in (lo + 1) + 1 .. hi : \E i \in ownP : p[i].n = n
    <3> TAKE n \in (lo + 1) + 1 .. hi
    <3>1. n \in lo + 1 .. hi
      OBVIOUS
    <3>2. PICK j \in own : q[j].n = n
      BY <1>1, <3>1
    <3>3. j # 1
      BY <2>3, <3>2
    <3> QED BY <1>3, <3>2, <3>3
  <2>6. {p[i].n : i \in ownP} = (lo + 1) + 1 .. hi
    BY <2>4, <2>5
  <2>7. lo + 1 <= hi
    BY <2>2
  <2> QED BY <1>2, <1>5, <1>7, <2>6, <2>7 DEF InOrder
<1> QED BY <1>6, <1>7

\* Requests of other clients in between make no difference.
LEMMA InOrderForeign ==
  ASSUME NEW s \in Sessions, NEW a \in Seq(Request), NEW x \in Seq(Request),
         NEW b \in Seq(Request), NEW lo, NEW hi, \A i \in 1..Len(x) : x[i].from # s
  PROVE  InOrder(a \o x \o b, s, lo, hi) <=> InOrder(a \o b, s, lo, hi)
<1> DEFINE p == a \o x \o b
           q == a \o b
           ownP == {i \in 1..Len(p) : p[i].from = s}
           ownQ == {i \in 1..Len(q) : q[i].from = s}
           At(i) == IF i <= Len(a) THEN i ELSE i + Len(x)
<1>1. Len(a) \in Nat /\ Len(x) \in Nat /\ Len(b) \in Nat
  OBVIOUS
<1>2. Len(p) = Len(a) + Len(x) + Len(b) /\ Len(q) = Len(a) + Len(b)
  BY <1>1
<1>3. /\ \A i \in 1..Len(a) : p[i] = a[i] /\ q[i] = a[i]
      /\ \A i \in 1..Len(x) : p[Len(a) + i] = x[i]
      /\ \A i \in 1..Len(b) : p[Len(a) + Len(x) + i] = b[i] /\ q[Len(a) + i] = b[i]
  BY <1>1, <1>2
<1>4. \A i \in 1..Len(q) : At(i) \in 1..Len(p) /\ p[At(i)] = q[i]
  <2> TAKE i \in 1..Len(q)
  <2>1. CASE i <= Len(a)
    BY <1>1, <1>2, <1>3, <2>1
  <2>2. CASE ~(i <= Len(a))
    <3>1. i - Len(a) \in 1..Len(b) /\ i = Len(a) + (i - Len(a))
          /\ At(i) = Len(a) + Len(x) + (i - Len(a))
      BY <1>1, <1>2, <2>2
    <3>2. q[i] = b[i - Len(a)] /\ p[At(i)] = b[i - Len(a)]
      BY <1>3, <3>1
    <3> QED BY <1>1, <1>2, <3>1, <3>2
  <2> QED BY <2>1, <2>2
<1>5. \A j \in ownP : \E i \in ownQ : At(i) = j /\ q[i] = p[j]
  <2> TAKE j \in ownP
  <2>1. j \in 1..Len(p) /\ p[j].from = s
    OBVIOUS
  <2>2. CASE j <= Len(a)
    BY <1>1, <1>2, <1>3, <2>1, <2>2
  <2>3. CASE Len(a) < j /\ j <= Len(a) + Len(x)
    <3>1. j - Len(a) \in 1..Len(x) /\ j = Len(a) + (j - Len(a))
      BY <1>1, <1>2, <2>1, <2>3
    <3> QED BY <1>3, <2>1, <3>1
  <2>4. CASE Len(a) + Len(x) < j
    <3>1. /\ j - Len(x) \in 1..Len(q) /\ ~(j - Len(x) <= Len(a))
          /\ (j - Len(x)) + Len(x) = j
      BY <1>1, <1>2, <2>1, <2>4
    <3>2. At(j - Len(x)) = j
      BY <3>1
    <3>3. p[j] = q[j - Len(x)]
      BY <1>4, <3>1, <3>2
    <3> QED BY <2>1, <3>1, <3>2, <3>3
  <2> QED BY <1>1, <2>1, <2>2, <2>3, <2>4
<1>6. \A i, j \in 1..Len(q) : i < j <=> At(i) < At(j)
  BY <1>1, <1>2
<1>7. \A i \in ownQ : At(i) \in ownP /\ p[At(i)] = q[i]
  BY <1>4
<1>8. {p[i].n : i \in ownP} = {q[i].n : i \in ownQ}
  <2> HIDE DEF At, p, q, ownP, ownQ
  <2> QED BY <1>5, <1>7
<1> HIDE DEF At
<1>9. (\A i, j \in ownP : i < j => p[i].n < p[j].n) <=> (\A i, j \in ownQ : i < j => q[i].n < q[j].n)
  <2>1. ASSUME \A i, j \in ownP : i < j => p[i].n < p[j].n, NEW i \in ownQ, NEW j \in ownQ, i < j
        PROVE  q[i].n < q[j].n
    <3>1. At(i) \in ownP /\ At(j) \in ownP /\ p[At(i)] = q[i] /\ p[At(j)] = q[j]
      BY <1>7
    <3>2. At(i) < At(j)
      BY <1>6, <2>1
    <3> HIDE DEF p, q, ownP, ownQ
    <3> QED BY <2>1, <3>1, <3>2
  <2>2. ASSUME \A i, j \in ownQ : i < j => q[i].n < q[j].n, NEW i \in ownP, NEW j \in ownP, i < j
        PROVE  p[i].n < p[j].n
    <3>1. PICK k \in ownQ : At(k) = i /\ q[k] = p[i]
      BY <1>5
    <3>2. PICK l \in ownQ : At(l) = j /\ q[l] = p[j]
      BY <1>5
    <3>3. k < l
      BY <1>6, <2>2, <3>1, <3>2
    <3> QED BY <2>2, <3>1, <3>2, <3>3
  <2> QED BY <2>1, <2>2
<1> QED BY <1>8, <1>9 DEF InOrder

\* Every step keeps requests under the descriptor they were read from, and Logic's
\* hand empty outside the hand-over.
LEMMA OriginsStep ==
  ASSUME ReactorInv, RequestInv, [Next]_vars
  PROVE  Origins' /\ InHand'
<1> USE DEF client, table, session, control, dispatcher, logic, pacer, pool
<1>0. /\ dreqs \in Seq(Request) /\ cmdQueue \in Seq(Command) /\ unread \in [Sessions -> Seq(Request)]
      /\ fdOf \in [Sessions -> FDs \cup {NoFd}] /\ accepted \subseteq Sessions
      /\ Origins /\ InHand
  BY DEF ReactorInv, TypeOK, TypeDispatcher, TypeCommands, TypeClient, TypeTable, RequestInv, InHand
<1>1. ASSUME UNCHANGED <<accepted, unread, fdOf, cmdQueue, dreqs>>,
             dreqs # <<>> => dpc' \in {"push", "kick"} /\ dfd' = dfd
      PROVE  Origins'
  BY <1>0, <1>1 DEF RequestInv, Origins
<1>2. UNCHANGED <<lpc, lreq>> => InHand'
  BY DEF RequestInv, InHand
<1>3. ASSUME NEW s \in Sessions, SendRequest(s) PROVE Origins' /\ InHand'
  <2> DEFINE r == [from |-> s, n |-> sent[s] + 1]
  <2>1. r \in Request
    BY DEF Request, ReactorInv, TypeOK, TypeClient
  <2>2. /\ unread' = [unread EXCEPT ![s] = Append(unread[s], r)]
        /\ UNCHANGED <<accepted, fdOf, cmdQueue, dreqs, dpc, dfd, lpc, lreq>>
    BY <1>3 DEF SendRequest
  <2> HIDE DEF r
  <2>3. \A i \in 1..Len(unread'[s]) : unread'[s][i].from = s
    <3>1. r.from = s
      BY DEF r
    <3>2. unread'[s] = Append(unread[s], r) /\ unread[s] \in Seq(Request)
      BY <1>0, <2>2
    <3>3. \A i \in 1..Len(unread[s]) : unread[s][i].from = s
      BY DEF RequestInv, Origins
    <3>4. /\ Len(unread[s]) \in Nat /\ Len(unread'[s]) = Len(unread[s]) + 1
          /\ \A i \in 1..Len(unread[s]) : unread'[s][i] = unread[s][i]
          /\ unread'[s][Len(unread[s]) + 1] = r
      BY <2>1, <3>2, PushFacts
    <3> QED BY <3>1, <3>3, <3>4
  <2>4. \A t \in Sessions \ {s} : unread'[t] = unread[t]
    BY <1>0, <2>2
  <2>5. \A t \in Sessions : \A i \in 1..Len(unread'[t]) : unread'[t][i].from = t
    BY <2>3, <2>4 DEF RequestInv, Origins
  <2> QED BY <1>2, <2>2, <2>5 DEF RequestInv, Origins
<1>4. CASE \/ DispatcherExit \/ SignalEvent \/ AcceptEvent \/ AcceptDone
           \/ \E ok \in BOOLEAN : RegisterClient(ok)
           \/ \E fd \in FDs : CloseEvent(fd)
  <2>1. dreqs = <<>>
    BY <1>4 DEF RequestInv, Origins, DispatcherExit, SignalEvent, AcceptEvent, AcceptDone,
       RegisterClient, CloseEvent
  <2> QED BY <1>1, <1>2, <1>4, <2>1 DEF DispatcherExit, SignalEvent, AcceptEvent, AcceptDone,
       RegisterClient, CloseEvent, closeSession
<1>5. ASSUME NEW s \in Sessions, NEW fd \in FDs, AcceptClient(s, fd) PROVE Origins' /\ InHand'
  <2>1. /\ dreqs = <<>> /\ s \notin accepted
        /\ \A t \in accepted : t \in accepted' /\ fdOf'[t] = fdOf[t]
        /\ UNCHANGED <<unread, cmdQueue, dreqs, lpc, lreq>>
    BY <1>0, <1>5 DEF RequestInv, Origins, AcceptClient
  <2>2. Len(dreqs') = 0
    BY <2>1
  <2> QED BY <1>2, <2>1, <2>2 DEF RequestInv, Origins
<1>6. ASSUME NEW fd \in FDs, ReadEvent(fd) PROVE Origins' /\ InHand'
  <2> DEFINE t == sessions[fd]
  <2>1. t \in Sessions /\ t \in accepted /\ fdOf[t] = fd
    <3>1. t \in Sessions
      BY <1>6, EventSession DEF ReadEvent
    <3>2. InMap(t)
      BY DEF InMap
    <3>3. t # NoSess
      BY <3>1, ReactorAssumption
    <3> QED BY <3>1, <3>2, <3>3 DEF ReactorInv, Born, Alive, FdOwnership
  <2>2. /\ dreqs' = unread[t] /\ unread' = [unread EXCEPT ![t] = <<>>] /\ dfd' = fd /\ dpc' = "push"
        /\ UNCHANGED <<accepted, fdOf, cmdQueue, lpc, lreq>>
    BY <1>6 DEF ReadEvent
  <2> HIDE DEF t
  <2>3. \A i \in 1..Len(dreqs') : dreqs'[i].from = t
    BY <2>1, <2>2 DEF RequestInv, Origins
  <2>4. \A s \in Sessions : unread'[s] = unread[s] \/ Len(unread'[s]) = 0
    BY <1>0, <2>1, <2>2
  <2>5. \A s \in Sessions : \A i \in 1..Len(unread'[s]) : unread'[s][i].from = s
    BY <2>4 DEF RequestInv, Origins
  <2> QED BY <1>2, <2>1, <2>2, <2>3, <2>5 DEF RequestInv, Origins
<1>7. CASE PushCommand
  <2> DEFINE e == [fd |-> dfd, req |-> Head(dreqs)]
  <2>1. dreqs # <<>> /\ dfd \in FDs
    BY <1>7 DEF PushCommand, ReactorInv, Holders
  <2>2. /\ Len(dreqs) \in Nat /\ 1 \in 1..Len(dreqs) /\ dreqs[1] \in Request /\ Head(dreqs) = dreqs[1]
        /\ \A i \in 1..Len(Tail(dreqs)) : Tail(dreqs)[i] = dreqs[i+1] /\ i + 1 \in 1..Len(dreqs)
    BY <1>0, <2>1, PopFacts
  <2>3. e \in Command /\ e.req = dreqs[1] /\ e.fd = dfd
    BY <2>1, <2>2 DEF Command
  <2>4. /\ cmdQueue' = Append(cmdQueue, e) /\ dreqs' = Tail(dreqs) /\ dpc' = "kick"
        /\ UNCHANGED <<accepted, fdOf, unread, dfd, lpc, lreq>>
    BY <1>7 DEF PushCommand
  <2> HIDE DEF e
  <2>5. /\ Len(cmdQueue) \in Nat /\ Len(cmdQueue') = Len(cmdQueue) + 1
        /\ \A i \in 1..Len(cmdQueue) : cmdQueue'[i] = cmdQueue[i]
        /\ cmdQueue'[Len(cmdQueue) + 1] = e
    BY <1>0, <2>3, <2>4, PushFacts
  <2>6. \A i \in 1..Len(dreqs) : dreqs[i].from \in accepted /\ fdOf[dreqs[i].from] = dfd
    BY DEF RequestInv, Origins
  <2>7. \A i \in 1..Len(dreqs') : dreqs'[i].from \in accepted' /\ fdOf'[dreqs'[i].from] = dfd'
    BY <2>2, <2>4, <2>6
  <2>8. e.req.from \in accepted /\ fdOf[e.req.from] = e.fd
    BY <2>2, <2>3, <2>6
  <2>9. \A i \in 1..Len(cmdQueue') :
          cmdQueue'[i].req.from \in accepted' /\ fdOf'[cmdQueue'[i].req.from] = cmdQueue'[i].fd
    <3> TAKE i \in 1..Len(cmdQueue')
    <3>1. CASE i \in 1..Len(cmdQueue)
      BY <2>4, <2>5, <3>1 DEF RequestInv, Origins
    <3>2. CASE i = Len(cmdQueue) + 1
      BY <2>4, <2>5, <2>8, <3>2
    <3> QED BY <2>5, <3>1, <3>2
  <2> QED BY <1>2, <2>4, <2>7, <2>9 DEF RequestInv, Origins
<1>8. CASE KickLogic
  BY <1>1, <1>2, <1>8 DEF KickLogic
<1>9. CASE RouteCommand
  <2>1. cmdQueue # <<>> /\ cmdQueue' = Tail(cmdQueue)
        /\ UNCHANGED <<accepted, fdOf, unread, dreqs, dfd, dpc>>
    BY <1>9 DEF RouteCommand
  <2>2. \A i \in 1..Len(cmdQueue') : cmdQueue'[i] = cmdQueue[i+1] /\ i + 1 \in 1..Len(cmdQueue)
    BY <1>0, <2>1, PopFacts
  <2>3. Origins'
    BY <2>1, <2>2 DEF RequestInv, Origins
  <2>4. InHand'
    BY <1>9 DEF RouteCommand, RequestInv, InHand
  <2> QED BY <2>3, <2>4
<1>10. CASE LogicHead \/ LogicRead \/ QueueDrained \/ KickPacer \/ pushCommand
  BY <1>0, <1>1, <1>10 DEF LogicHead, LogicRead, QueueDrained, KickPacer, pushCommand, InHand,
     RequestInv, Origins
<1>11. CASE \/ PacerHead \/ PacerWakes \/ Snapshot \/ Submit \/ RoundDone
            \/ \E s \in Sessions : tryClaimPacerTick(s)
  BY <1>1, <1>2, <1>11 DEF PacerHead, PacerWakes, Snapshot, Submit, RoundDone, tryClaimPacerTick,
     RequestInv, Origins
<1>12. CASE \E w \in Workers : \/ PopTask(w) \/ WorkerExit(w) \/ TickMedia(w)
                               \/ releasePacerTick(w) \/ TaskDone(w)
                               \/ \E outcome \in Outcomes : HandleRequest(w, outcome)
  BY <1>1, <1>2, <1>12 DEF PopTask, WorkerExit, TickMedia, releasePacerTick, TaskDone,
     HandleRequest, RequestInv, Origins
<1>13. CASE \/ Stop \/ JoinDispatcher \/ UnblockLogic \/ JoinThreads \/ ShutdownPool
            \/ ClearSessions \/ UNCHANGED vars
  BY <1>1, <1>2, <1>13 DEF Stop, JoinDispatcher, UnblockLogic, JoinThreads, ShutdownPool,
     ClearSessions, vars, RequestInv, Origins
<1> QED
  BY NextCases, <1>3, <1>4, <1>5, <1>6, <1>7, <1>8, <1>9, <1>10, <1>11, <1>12, <1>13

\* The parts of a pipeline make a sequence.
LEMMA Joined ==
  ASSUME NEW S, NEW a \in Seq(S), NEW b \in Seq(S), NEW c \in Seq(S), NEW d \in Seq(S), NEW e \in Seq(S)
  PROVE  a \o b \o c \in Seq(S) /\ a \o b \o c \o d \o e \in Seq(S)
BY ConcatProperties

\* Every command carries a request.
LEMMA CommandRequests ==
  ASSUME NEW q \in Seq(Command)
  PROVE  \A i \in 1..Len(q) : q[i].req \in Request
<1> TAKE i \in 1..Len(q)
<1>1. q[i] \in Command
  OBVIOUS
<1> QED BY <1>1 DEF Command

\* The parts of the pipeline are sequences of requests.
LEMMA PipelineParts ==
  ASSUME TypeOK
  PROVE  /\ Commanded \in Seq(Request) /\ dreqs \in Seq(Request)
         /\ \A s \in Sessions : /\ cmdq[s] \in Seq(Request) /\ Routed(s) \in Seq(Request)
                                /\ unread[s] \in Seq(Request) /\ Pipeline(s) \in Seq(Request)
<1>1. cmdQueue \in Seq(Command) /\ Len(cmdQueue) \in Nat
  BY DEF TypeOK, TypeCommands
<1>2. Commanded \in Seq(Request)
  <2>1. \A i \in 1..Len(cmdQueue) : cmdQueue[i].req \in Request
    BY <1>1, CommandRequests
  <2> QED BY <1>1, <2>1 DEF Commanded
<1>3. dreqs \in Seq(Request) /\ lreq \in Seq(Request)
  BY DEF TypeOK, TypeDispatcher, TypeLogic
<1>4. ASSUME NEW s \in Sessions
      PROVE  /\ cmdq[s] \in Seq(Request) /\ Routed(s) \in Seq(Request)
             /\ unread[s] \in Seq(Request) /\ Pipeline(s) \in Seq(Request)
  <2>1. cmdq[s] \in Seq(Request) /\ unread[s] \in Seq(Request)
    BY DEF TypeOK, TypeSession, TypeClient
  <2>2. Routed(s) \in Seq(Request)
    BY <1>3 DEF Routed
  <2> QED BY <1>2, <1>3, <2>1, <2>2, Joined DEF Pipeline
<1> QED BY <1>2, <1>3, <1>4

\* A command pushed or popped shows in the requests of cmd_queue_.
LEMMA CommandedPush ==
  ASSUME TypeOK, NEW e \in Command, cmdQueue' = Append(cmdQueue, e)
  PROVE  Commanded' = Commanded \o <<e.req>>
<1>1. cmdQueue \in Seq(Command) /\ e.req \in Request /\ Commanded \in Seq(Request)
  BY PipelineParts DEF TypeOK, TypeCommands, Command
<1>2. /\ Len(cmdQueue) \in Nat /\ Len(cmdQueue') = Len(cmdQueue) + 1
      /\ \A i \in 1..Len(cmdQueue) : cmdQueue'[i] = cmdQueue[i]
      /\ cmdQueue'[Len(cmdQueue) + 1] = e
  BY <1>1, PushFacts
<1>3. /\ Commanded' = [i \in 1..Len(cmdQueue) + 1 |-> cmdQueue'[i].req]
      /\ Commanded = [i \in 1..Len(cmdQueue) |-> cmdQueue[i].req]
  BY <1>2 DEF Commanded
<1>4. Len(Commanded) = Len(cmdQueue)
  BY <1>2, <1>3
<1>5. Commanded' = Append(Commanded, e.req)
  <2>1. /\ Append(Commanded, e.req) \in Seq(Request)
        /\ Len(Append(Commanded, e.req)) = Len(cmdQueue) + 1
        /\ \A i \in 1..Len(cmdQueue) : Append(Commanded, e.req)[i] = Commanded[i]
        /\ Append(Commanded, e.req)[Len(cmdQueue) + 1] = e.req
    BY <1>1, <1>4, PushFacts
  <2>2. \A i \in 1..Len(cmdQueue) + 1 : cmdQueue'[i].req = Append(Commanded, e.req)[i]
    BY <1>2, <1>3, <2>1
  <2>3. \A i \in 1..Len(cmdQueue) + 1 : cmdQueue'[i].req \in Request
    BY <1>1, <1>2, CommandRequests
  <2>4. Commanded' \in Seq(Request) /\ Len(Commanded') = Len(cmdQueue) + 1
    BY <1>2, <1>3, <2>3
  <2>5. \A i \in 1..Len(Commanded') : Commanded'[i] = Append(Commanded, e.req)[i]
    BY <1>3, <2>2, <2>4
  <2> QED BY <2>1, <2>4, <2>5, SeqEqual
<1> QED BY <1>1, <1>5, AppendIsConcat

LEMMA CommandedPop ==
  ASSUME TypeOK, cmdQueue # <<>>, cmdQueue' = Tail(cmdQueue)
  PROVE  /\ Commanded = <<Head(cmdQueue).req>> \o Commanded' /\ Commanded' \in Seq(Request)
         /\ Head(cmdQueue) = cmdQueue[1] /\ 1 \in 1..Len(cmdQueue) /\ cmdQueue[1] \in Command
         /\ Head(cmdQueue).req \in Request
<1>1. cmdQueue \in Seq(Command)
  BY DEF TypeOK, TypeCommands
<1>2. /\ Len(cmdQueue) \in Nat /\ 1 \in 1..Len(cmdQueue) /\ cmdQueue[1] \in Command
      /\ Head(cmdQueue) = cmdQueue[1] /\ cmdQueue' \in Seq(Command)
      /\ Len(cmdQueue') = Len(cmdQueue) - 1
      /\ \A i \in 1..Len(cmdQueue') : cmdQueue'[i] = cmdQueue[i+1] /\ i + 1 \in 1..Len(cmdQueue)
  BY <1>1, PopFacts
<1>3. Head(cmdQueue).req \in Request
  BY <1>2 DEF Command
<1>4. /\ Commanded = [i \in 1..Len(cmdQueue) |-> cmdQueue[i].req]
      /\ Commanded' = [i \in 1..Len(cmdQueue) - 1 |-> cmdQueue'[i].req]
  BY <1>2 DEF Commanded
<1>5. Commanded' \in Seq(Request)
  <2>1. \A i \in 1..Len(cmdQueue') : cmdQueue'[i].req \in Request
    BY <1>2, CommandRequests
  <2> QED BY <1>2, <1>4, <2>1
<1>6. Len(Commanded') = Len(cmdQueue) - 1
  BY <1>2, <1>4
<1>7. \A i \in 1..Len(cmdQueue) : (<<Head(cmdQueue).req>> \o Commanded')[i] = cmdQueue[i].req
  <2> TAKE i \in 1..Len(cmdQueue)
  <2>1. <<Head(cmdQueue).req>> \in Seq(Request) /\ Len(<<Head(cmdQueue).req>>) = 1
    BY <1>3
  <2>2. CASE i = 1
    BY <1>2, <1>5, <1>6, <2>1, <2>2, ConcatProperties
  <2>3. CASE i # 1
    <3>1. i - 1 \in 1..Len(cmdQueue') /\ (i - 1) + 1 = i
      BY <1>2, <2>3
    <3>2. (<<Head(cmdQueue).req>> \o Commanded')[i] = Commanded'[i - 1]
      BY <1>2, <1>5, <1>6, <2>1, <2>3, ConcatProperties
    <3> QED BY <1>2, <1>4, <3>1, <3>2
  <2> QED BY <2>2, <2>3
<1>8. /\ <<Head(cmdQueue).req>> \o Commanded' \in Seq(Request)
      /\ Len(<<Head(cmdQueue).req>> \o Commanded') = Len(cmdQueue)
  <2>1. <<Head(cmdQueue).req>> \in Seq(Request) /\ Len(<<Head(cmdQueue).req>>) = 1
    BY <1>3
  <2>2. /\ <<Head(cmdQueue).req>> \o Commanded' \in Seq(Request)
        /\ Len(<<Head(cmdQueue).req>> \o Commanded') = Len(<<Head(cmdQueue).req>>) + Len(Commanded')
    BY <1>5, <2>1, ConcatProperties, Zenon
  <2>3. Len(cmdQueue) \in Nat /\ 1 + (Len(cmdQueue) - 1) = Len(cmdQueue)
    BY <1>2
  <2> QED BY <1>6, <2>1, <2>2, <2>3, Zenon
<1>9. Commanded \in Seq(Request) /\ Len(Commanded) = Len(cmdQueue)
  BY <1>2, <1>4, PipelineParts
<1> QED BY <1>2, <1>3, <1>4, <1>5, <1>7, <1>8, <1>9, SeqEqual

\* Requests of other clients anywhere in the third or fourth part make no difference.
LEMMA PipelineForeign ==
  ASSUME NEW s \in Sessions, NEW a \in Seq(Request), NEW b \in Seq(Request), NEW c \in Seq(Request),
         NEW d \in Seq(Request), NEW e \in Seq(Request), NEW x \in Seq(Request), NEW lo, NEW hi
  PROVE  (\A i \in 1..Len(x) : x[i].from # s) =>
           /\ InOrder(a \o b \o (x \o c) \o d \o e, s, lo, hi) <=> InOrder(a \o b \o c \o d \o e, s, lo, hi)
           /\ InOrder(a \o b \o c \o x \o e, s, lo, hi) <=> InOrder(a \o b \o c \o <<>> \o e, s, lo, hi)
<1> DEFINE ab == a \o b
           xc == x \o c
           abx == ab \o x
           de == d \o e
           y == c \o de
           abc == ab \o c
<1>1. ab \in Seq(Request) /\ xc \in Seq(Request) /\ de \in Seq(Request)
  BY ConcatProperties
<1> HIDE DEF ab, de
<1>2. y \in Seq(Request) /\ abc \in Seq(Request) /\ abx \in Seq(Request)
  BY <1>1, ConcatProperties
<1>9. ab \o xc = abx \o c
  BY <1>1, SMTT(30)
<1> HIDE DEF xc
<1>3. abc \o d \o e = ab \o y /\ ab \o xc \o d \o e = ab \o x \o y
  <2>1. abc \o de = ab \o y
    BY <1>1, SMTT(30)
  <2> HIDE DEF abc
  <2>2. abc \o d \o e = abc \o de
    BY <1>2, SMTT(30) DEF de
  <2> HIDE DEF abx
  <2>0. abx \in Seq(Request) /\ de \in Seq(Request)
    BY <1>1, <1>2
  <2>3. abx \o c \o de = abx \o y
    BY <2>0
  <2> DEFINE abxc == abx \o c
  <2>4. abxc \in Seq(Request)
    BY <1>2, ConcatProperties
  <2> HIDE DEF abxc
  <2>5. abxc \o d \o e = abxc \o de
    BY <2>4, SMTT(30) DEF de
  <2>6. ab \o xc \o d \o e = abx \o y
    BY <1>9, <2>3, <2>5, Zenon DEF abxc
  <2> QED BY <2>1, <2>2, <2>6, Zenon DEF abx
<1>4. abc \o <<>> = abc
  <2> HIDE DEF abc
  <2> QED BY <1>2
<1> HIDE DEF y, abc, abx
<1> HAVE \A i \in 1..Len(x) : x[i].from # s
<1>5. InOrder(ab \o x \o y, s, lo, hi) <=> InOrder(ab \o y, s, lo, hi)
  BY <1>1, <1>2, InOrderForeign
<1>6. InOrder(abc \o x \o e, s, lo, hi) <=> InOrder(abc \o e, s, lo, hi)
  BY <1>1, <1>2, InOrderForeign
<1>7. InOrder(ab \o xc \o d \o e, s, lo, hi) <=> InOrder(abc \o d \o e, s, lo, hi)
  BY <1>3, <1>5, Zenon
<1>8. InOrder(abc \o x \o e, s, lo, hi) <=> InOrder(abc \o <<>> \o e, s, lo, hi)
  BY <1>4, <1>6, Zenon
<1> QED BY <1>7, <1>8, Zenon DEF xc, ab, abc

\* A queue is its first element and the rest.
LEMMA Unfold ==
  ASSUME NEW S, NEW q \in Seq(S), q # <<>>
  PROVE  q = <<Head(q)>> \o Tail(q) /\ <<Head(q)>> \in Seq(S) /\ Tail(q) \in Seq(S) /\ Head(q) \in S
OBVIOUS
LEMMA Fold ==
  ASSUME NEW S, NEW h \in S, NEW q \in Seq(S)
  PROVE  Tail(<<h>> \o q) = q /\ Head(<<h>> \o q) = h /\ <<h>> \o q # <<>> /\ <<h>> \in Seq(S)
OBVIOUS

\* Requests that move on from one part of the pipeline to the next stay in order.
LEMMA OrderedMoves ==
  ASSUME NEW s \in Sessions, NEW a \in Seq(Request), NEW b \in Seq(Request), NEW c \in Seq(Request),
         NEW d \in Seq(Request), NEW e \in Seq(Request), NEW x \in Seq(Request), NEW lo, NEW hi
  PROVE  /\ InOrder(a \o b \o c \o (x \o d) \o e, s, lo, hi) => InOrder(a \o b \o (c \o x) \o d \o e, s, lo, hi)
         /\ InOrder(a \o <<>> \o (x \o c) \o d \o e, s, lo, hi) => InOrder(a \o x \o c \o d \o e, s, lo, hi)
         /\ InOrder(a \o x \o c \o d \o e, s, lo, hi) => InOrder((a \o x) \o <<>> \o c \o d \o e, s, lo, hi)
         /\ InOrder(a \o b \o c \o <<>> \o x, s, lo, hi) => InOrder(a \o b \o c \o x \o <<>>, s, lo, hi)
<1>1. a \o b \o (c \o x) \o d \o e = a \o b \o c \o (x \o d) \o e
  BY SMTT(30)
<1>2. a \o x \o c \o d \o e = a \o <<>> \o (x \o c) \o d \o e
  BY SMTT(30)
<1>3. (a \o x) \o <<>> \o c \o d \o e = a \o x \o c \o d \o e
  BY SMTT(30)
<1>4. a \o b \o c \o x \o <<>> = a \o b \o c \o <<>> \o x
  BY SMTT(30)
<1> QED BY <1>1, <1>2, <1>3, <1>4, Zenon

\* A request in at the end of the last part ...
LEMMA OrderedSend ==
  ASSUME NEW s \in Sessions, NEW a \in Seq(Request), NEW b \in Seq(Request), NEW c \in Seq(Request),
         NEW d \in Seq(Request), NEW e \in Seq(Request), NEW lo \in Nat, NEW hi \in Nat, lo <= hi
  PROVE  InOrder(a \o b \o c \o d \o e, s, lo, hi) =>
           InOrder(a \o b \o c \o d \o Append(e, [from |-> s, n |-> hi + 1]), s, lo, hi + 1)
<1> DEFINE r == [from |-> s, n |-> hi + 1]
           x == <<r>>
<1>1. r \in Request
  BY DEF Request
<1> HIDE DEF r
<1>2. Append(e, r) = e \o x
  BY <1>1
<1>8. x \in Seq(Request)
  BY <1>1
<1> HIDE DEF x
<1>3. a \o b \o c \o d \o (e \o x) = (a \o b \o c \o d \o e) \o x
  <2> DEFINE abc == a \o b \o c
             abcd == abc \o d
  <2>1. abc \in Seq(Request)
    BY Joined
  <2> HIDE DEF abc
  <2>2. abcd \in Seq(Request)
    BY <2>1, ConcatProperties
  <2> HIDE DEF abcd
  <2>3. abcd \o (e \o x) = (abcd \o e) \o x
    BY <1>8, <2>2, SMTT(30)
  <2> QED BY <2>3, Zenon DEF abc, abcd
<1>4. a \o b \o c \o d \o e \in Seq(Request)
  BY Joined
<1> DEFINE q == a \o b \o c \o d \o e
<1> HAVE InOrder(q, s, lo, hi)
<1> HIDE DEF q
<1>5. q \in Seq(Request)
  BY <1>4, Zenon DEF q
<1>6. Append(q, r) = q \o x
  BY <1>1, <1>5 DEF x
<1>7. InOrder(Append(q, r), s, lo, hi + 1)
  BY <1>5, InOrderAppend DEF r
<1> QED BY <1>2, <1>3, <1>6, <1>7, Zenon DEF q, r

\* ... and out at the front of the first.
LEMMA OrderedTake ==
  ASSUME NEW s \in Sessions, NEW a \in Seq(Request), NEW b \in Seq(Request), NEW c \in Seq(Request),
         NEW d \in Seq(Request), NEW e \in Seq(Request), NEW lo \in Nat, NEW hi \in Nat, lo <= hi,
         a # <<>>
  PROVE  LET l == IF Head(a).from = s THEN lo + 1 ELSE lo
         IN  InOrder(a \o b \o c \o d \o e, s, lo, hi) =>
               l <= hi /\ InOrder(Tail(a) \o b \o c \o d \o e, s, l, hi)
<1> DEFINE x == <<Head(a)>>
           t == Tail(a)
           p == t \o b \o c \o d \o e
           q == a \o b \o c \o d \o e
           l == IF Head(a).from = s THEN lo + 1 ELSE lo
<1>1. a = x \o t /\ x \in Seq(Request) /\ t \in Seq(Request) /\ Head(a) \in Request
  BY Unfold
<1> HIDE DEF t
<1>2. p \in Seq(Request) /\ q \in Seq(Request)
  BY <1>1, Joined
<1>3. Tail(x \o p) = p /\ Head(x \o p) = Head(a) /\ x \o p # <<>>
  <2> HIDE DEF p
  <2> QED BY <1>1, <1>2, Fold
<1>4. q = x \o p
  <2> HIDE DEF x
  <2>1. x \in Seq(Request) /\ t \in Seq(Request)
    BY <1>1
  <2>2. (x \o t) \o b \o c \o d \o e = x \o p
    <3> DEFINE tb == t \o b
               tbc == tb \o c
               tbcd == tbc \o d
    <3>1. tb \in Seq(Request)
      BY <2>1, ConcatProperties
    <3>2. (x \o t) \o b = x \o tb
      BY <2>1
    <3> HIDE DEF tb
    <3>3. tbc \in Seq(Request)
      BY <3>1, ConcatProperties
    <3>4. (x \o tb) \o c = x \o tbc
      BY <2>1, <3>1, SMTT(30)
    <3> HIDE DEF tbc
    <3>5. tbcd \in Seq(Request)
      BY <3>3, ConcatProperties
    <3>6. (x \o tbc) \o d = x \o tbcd
      BY <2>1, <3>3, SMTT(30)
    <3> HIDE DEF tbcd
    <3>7. (x \o tbcd) \o e = x \o (tbcd \o e)
      BY <2>1, <3>5, SMTT(30)
    <3> QED BY <3>2, <3>4, <3>6, <3>7, Zenon DEF tb, tbc, tbcd
  <2> QED BY <1>1, <2>2, Zenon
<1> SUFFICES InOrder(q, s, lo, hi) => l <= hi /\ InOrder(p, s, l, hi)
  BY DEF t
<1> HAVE InOrder(q, s, lo, hi)
<1> HIDE DEF p, q
<1>5. Tail(q) = p /\ Head(q) = Head(a) /\ q # <<>>
  BY <1>3, <1>4, Zenon
<1> QED BY <1>2, <1>5, InOrderTail

\* The pipeline and its ends as Ordered sees them.
pipeline == <<cmdq, lsess, lreq, cmdQueue, dreqs, unread, taken, sent>>

\* A step that leaves the pipeline alone and opens no connection anew keeps the order.
LEMMA OrderedFrame ==
  ASSUME Ordered, UNCHANGED pipeline,
         \A s \in Sessions : Open(s)' => Open(s)
  PROVE  Ordered'
<1> SUFFICES ASSUME NEW s \in Sessions, Open(s)'
             PROVE  taken'[s] <= sent'[s] /\ InOrder(Pipeline(s)', s, taken'[s], sent'[s])
  BY DEF Ordered
<1>1. taken[s] <= sent[s] /\ InOrder(Pipeline(s), s, taken[s], sent[s])
  BY DEF Ordered
<1>2. Pipeline(s)' = Pipeline(s) /\ taken' = taken /\ sent' = sent
  BY Zenon DEF pipeline, Pipeline, Routed, Commanded
<1> QED BY <1>1, <1>2, Zenon

\* Every step keeps the requests of an open connection complete and in order.
LEMMA OrderedStep ==
  ASSUME ReactorInv, RequestInv, [Next]_vars
  PROVE  Ordered'
<1> USE DEF client, table, session, control, dispatcher, logic, pacer, pool
<1>0. /\ TypeOK /\ Ordered /\ Origins /\ InHand
      /\ unread \in [Sessions -> Seq(Request)] /\ cmdq \in [Sessions -> Seq(Request)]
      /\ sessions \in [FDs -> Sessions \cup {NoSess}] /\ NoSess \notin Sessions
      /\ taken \in [Sessions -> Nat] /\ sent \in [Sessions -> Nat]
  BY ReactorAssumption DEF ReactorInv, TypeOK, TypeClient, TypeSession, TypeTable, RequestInv
<1>1. /\ Commanded \in Seq(Request) /\ dreqs \in Seq(Request)
      /\ \A s \in Sessions : /\ cmdq[s] \in Seq(Request) /\ Routed(s) \in Seq(Request)
                             /\ unread[s] \in Seq(Request)
  BY <1>0, PipelineParts
<1>2. \A s \in Sessions : Open(s) =>
        taken[s] <= sent[s] /\ InOrder(Pipeline(s), s, taken[s], sent[s])
  BY <1>0 DEF Ordered
<1>3. UNCHANGED <<sessions, accepted>> => \A s \in Sessions : Open(s)' => Open(s)
  BY DEF Open, InMap
<1>4. ASSUME NEW s \in Sessions, SendRequest(s) PROVE Ordered'
  <2> SUFFICES ASSUME NEW t \in Sessions, Open(t)'
               PROVE  taken'[t] <= sent'[t] /\ InOrder(Pipeline(t)', t, taken'[t], sent'[t])
    BY DEF Ordered
  <2>1. Open(t)
    BY <1>3, <1>4 DEF SendRequest
  <2>2. /\ taken' = taken /\ cmdq' = cmdq /\ Routed(t)' = Routed(t) /\ Commanded' = Commanded
        /\ dreqs' = dreqs
    BY <1>4 DEF SendRequest, Routed, Commanded
  <2>3. CASE t # s
    <3>1. unread'[t] = unread[t] /\ sent'[t] = sent[t]
      BY <1>0, <1>4, <2>3 DEF SendRequest
    <3> QED BY <1>2, <2>1, <2>2, <3>1, Zenon DEF Pipeline
  <2>4. CASE t = s
    <3> DEFINE u == Append(unread[s], [from |-> s, n |-> sent[s] + 1])
    <3>1. unread'[s] = u /\ sent'[s] = sent[s] + 1
      BY <1>0, <1>4 DEF SendRequest
    <3>2. taken[s] <= sent[s] /\ InOrder(Pipeline(s), s, taken[s], sent[s])
      BY <1>2, <2>1, <2>4
    <3>3. taken[s] \in Nat /\ sent[s] \in Nat
      BY <1>0
    <3>4. InOrder(cmdq[s] \o Routed(s) \o Commanded \o dreqs \o u, s, taken[s], sent[s] + 1)
      BY <1>1, <3>2, <3>3, OrderedSend DEF Pipeline
    <3>5. taken[s] <= sent[s] + 1
      BY <3>2, <3>3
    <3> HIDE DEF u
    <3> QED BY <2>2, <2>4, <3>1, <3>4, <3>5, Zenon DEF Pipeline
  <2> QED BY <2>3, <2>4
<1>5. CASE DispatcherExit \/ SignalEvent \/ AcceptEvent \/ AcceptDone \/ KickLogic
  BY <1>0, <1>3, <1>5, OrderedFrame DEF DispatcherExit, SignalEvent, AcceptEvent, AcceptDone, KickLogic,
     pipeline
<1>6. ASSUME NEW s \in Sessions, NEW fd \in FDs, AcceptClient(s, fd) PROVE Ordered'
  <2>1. ASSUME NEW t \in Sessions, Open(t)' PROVE Open(t)
    <3>1. CASE t = s
      BY <1>6, <3>1 DEF AcceptClient, Open
    <3>2. CASE t # s
      <4>1. InMap(t)' => InMap(t)
        BY <1>0, <1>6, <3>2 DEF AcceptClient, InMap
      <4> QED BY <1>6, <2>1, <3>2, <4>1 DEF AcceptClient, Open
    <3> QED BY <3>1, <3>2
  <2> QED BY <1>0, <1>6, <2>1, OrderedFrame DEF AcceptClient, pipeline
<1>7. CASE \/ \E ok \in BOOLEAN : RegisterClient(ok)
           \/ \E fd \in FDs : CloseEvent(fd)
           \/ ClearSessions
  <2>1. accepted' = accepted /\ \A t \in Sessions, g \in FDs : sessions'[g] = t => sessions[g] = t
    BY <1>0, <1>7 DEF RegisterClient, CloseEvent, closeSession, ClearSessions
  <2>2. \A t \in Sessions : Open(t)' => Open(t)
    BY <2>1 DEF Open, InMap
  <2> QED BY <1>0, <1>7, <2>2, OrderedFrame DEF RegisterClient, CloseEvent, closeSession, ClearSessions,
     pipeline
<1>8. ASSUME NEW fd \in FDs, ReadEvent(fd) PROVE Ordered'
  <2> DEFINE t == sessions[fd]
  <2>1. t \in Sessions
    BY <1>8, EventSession DEF ReadEvent
  <2>2. /\ dreqs' = unread[t] /\ unread' = [unread EXCEPT ![t] = <<>>] /\ dreqs = <<>>
        /\ taken' = taken /\ sent' = sent /\ cmdq' = cmdq /\ Commanded' = Commanded
        /\ \A s \in Sessions : Routed(s)' = Routed(s)
    BY <1>0, <1>8 DEF ReadEvent, Origins, Routed, Commanded
  <2> HIDE DEF t
  <2> SUFFICES ASSUME NEW s \in Sessions, Open(s)'
               PROVE  taken'[s] <= sent'[s] /\ InOrder(Pipeline(s)', s, taken'[s], sent'[s])
    BY DEF Ordered
  <2>3. Open(s)
    BY <1>3, <1>8 DEF ReadEvent
  <2>4. /\ taken[s] <= sent[s]
        /\ InOrder(cmdq[s] \o Routed(s) \o Commanded \o <<>> \o unread[s], s, taken[s], sent[s])
    BY <1>2, <2>2, <2>3, Zenon DEF Pipeline
  <2>5. InOrder(cmdq[s] \o Routed(s) \o Commanded \o unread[t] \o unread'[s], s, taken[s], sent[s])
    <3>1. CASE s = t
      <4>1. unread'[s] = <<>>
        BY <1>0, <2>1, <2>2, <3>1
      <4>2. InOrder(cmdq[s] \o Routed(s) \o Commanded \o unread[s] \o <<>>, s, taken[s], sent[s])
        BY <1>1, <2>4, OrderedMoves
      <4> QED BY <3>1, <4>1, <4>2, Zenon
    <3>2. CASE s # t
      <4>1. unread'[s] = unread[s]
        BY <1>0, <2>1, <2>2, <3>2
      <4>2. \A i \in 1..Len(unread[t]) : unread[t][i].from # s
        BY <1>0, <2>1, <3>2 DEF Origins
      <4>3. unread[t] \in Seq(Request)
        BY <1>1, <2>1
      <4>4. InOrder(cmdq[s] \o Routed(s) \o Commanded \o unread[t] \o unread[s], s, taken[s], sent[s])
        BY <1>1, <2>4, <4>2, <4>3, PipelineForeign
      <4> QED BY <4>1, <4>4, Zenon
    <3> QED BY <3>1, <3>2
  <2> QED BY <2>2, <2>4, <2>5, Zenon DEF Pipeline
<1>9. CASE PushCommand
  <2> DEFINE h == Head(dreqs)
             x == <<h>>
             d == Tail(dreqs)
             e == [fd |-> dfd, req |-> h]
  <2>1. dreqs # <<>> /\ dfd \in FDs
    BY <1>9 DEF PushCommand, ReactorInv, Holders
  <2>2. dreqs = x \o d /\ x \in Seq(Request) /\ d \in Seq(Request) /\ h \in Request
    BY <1>1, <2>1, Unfold
  <2>3. e \in Command /\ e.req = h
    BY <2>1, <2>2 DEF Command
  <2>4. /\ cmdQueue' = Append(cmdQueue, e) /\ dreqs' = d
        /\ taken' = taken /\ sent' = sent /\ cmdq' = cmdq /\ unread' = unread
        /\ \A s \in Sessions : Routed(s)' = Routed(s)
    BY <1>9 DEF PushCommand, Routed
  <2> HIDE DEF e
  <2>5. Commanded' = Commanded \o x
    BY <1>0, <2>3, <2>4, CommandedPush
  <2> HIDE DEF x, h, d
  <2> SUFFICES ASSUME NEW s \in Sessions, Open(s)'
               PROVE  taken'[s] <= sent'[s] /\ InOrder(Pipeline(s)', s, taken'[s], sent'[s])
    BY DEF Ordered
  <2>6. Open(s)
    BY <1>3, <1>9 DEF PushCommand
  <2>7. /\ taken[s] <= sent[s]
        /\ InOrder(cmdq[s] \o Routed(s) \o Commanded \o (x \o d) \o unread[s], s, taken[s], sent[s])
    BY <1>2, <2>2, <2>6, Zenon DEF Pipeline
  <2>8. x \in Seq(Request) /\ d \in Seq(Request)
    BY <2>2
  <2>9. InOrder(cmdq[s] \o Routed(s) \o (Commanded \o x) \o d \o unread[s], s, taken[s], sent[s])
    BY <1>1, <2>7, <2>8, OrderedMoves
  <2> QED BY <2>4, <2>5, <2>7, <2>9, Zenon DEF Pipeline
<1>10. CASE RouteCommand
  <2> DEFINE c == Head(cmdQueue)
             x == <<c.req>>
             t == sessions[c.fd]
  <2>1. /\ cmdQueue # <<>> /\ cmdQueue' = Tail(cmdQueue) /\ lpc = "pop"
        /\ dreqs' = dreqs /\ taken' = taken /\ sent' = sent /\ cmdq' = cmdq /\ unread' = unread
        /\ IF t = NoSess THEN lsess' = lsess /\ lreq' = lreq ELSE lsess' = t /\ lreq' = x
    BY <1>10 DEF RouteCommand
  <2>2. /\ Commanded = x \o Commanded' /\ Commanded' \in Seq(Request) /\ c.req \in Request
        /\ c = cmdQueue[1] /\ 1 \in 1..Len(cmdQueue) /\ c \in Command
    BY <1>0, <2>1, CommandedPop
  <2>3. lsess = NoSess
    BY <2>1 DEF ReactorInv, Holders
  <2>4. \A s \in Sessions : Routed(s) = <<>>
    BY <1>0, <2>3 DEF Routed
  <2>5. x \in Seq(Request) /\ Len(x) = 1 /\ x[1] = c.req
    BY <2>2
  <2>6. c.req.from \in accepted /\ fdOf[c.req.from] = c.fd
    BY <1>0, <2>2 DEF Origins
  <2>7. c.fd \in FDs
    BY <2>2 DEF Command
  <2> HIDE DEF c, x, t
  <2> SUFFICES ASSUME NEW s \in Sessions, Open(s)'
               PROVE  taken'[s] <= sent'[s] /\ InOrder(Pipeline(s)', s, taken'[s], sent'[s])
    BY DEF Ordered
  <2>8. Open(s)
    BY <1>3, <1>10 DEF RouteCommand
  <2>9. /\ taken[s] <= sent[s]
        /\ InOrder(cmdq[s] \o <<>> \o (x \o Commanded') \o dreqs \o unread[s], s, taken[s], sent[s])
    BY <1>2, <2>2, <2>4, <2>8, Zenon DEF Pipeline
  <2>10. CASE t = s
    <3>1. Routed(s)' = x
      BY <1>0, <2>1, <2>10 DEF Routed
    <3>2. InOrder(cmdq[s] \o x \o Commanded' \o dreqs \o unread[s], s, taken[s], sent[s])
      BY <1>1, <2>2, <2>5, <2>9, OrderedMoves
    <3> QED BY <2>1, <2>9, <3>1, <3>2, Zenon DEF Pipeline
  <2>11. CASE t # s
    <3>1. Routed(s)' = <<>>
      BY <1>0, <2>1, <2>3, <2>11 DEF Routed
    <3>2. c.req.from # s
      <4> SUFFICES ASSUME c.req.from = s PROVE FALSE
        OBVIOUS
      <4>1. PICK g \in FDs : sessions[g] = s
        BY <2>6, <2>8 DEF Open, InMap
      <4>2. fdOf[s] = g
        BY <1>0, <4>1 DEF ReactorInv, FdOwnership
      <4> QED BY <2>6, <2>11, <4>1, <4>2 DEF t
    <3>3. \A i \in 1..Len(x) : x[i].from # s
      BY <2>5, <3>2
    <3>4. <<>> \in Seq(Request)
      OBVIOUS
    <3>5. InOrder(cmdq[s] \o <<>> \o Commanded' \o dreqs \o unread[s], s, taken[s], sent[s])
      BY <1>1, <2>2, <2>5, <2>9, <3>3, <3>4, PipelineForeign
    <3> QED BY <2>1, <2>9, <3>1, <3>5, Zenon DEF Pipeline
  <2> QED BY <2>10, <2>11
<1>11. CASE pushCommand
  <2>1. lsess \in Sessions
    BY <1>11 DEF pushCommand, ReactorInv, Holders
  <2>2. /\ cmdq' = [cmdq EXCEPT ![lsess] = @ \o lreq] /\ lreq' = <<>> /\ lsess' = lsess
        /\ dreqs' = dreqs /\ taken' = taken /\ sent' = sent /\ Commanded' = Commanded
        /\ unread' = unread
    BY <1>11 DEF pushCommand, Commanded
  <2> SUFFICES ASSUME NEW s \in Sessions, Open(s)'
               PROVE  taken'[s] <= sent'[s] /\ InOrder(Pipeline(s)', s, taken'[s], sent'[s])
    BY DEF Ordered
  <2>3. Open(s)
    BY <1>3, <1>11 DEF pushCommand
  <2>4. taken[s] <= sent[s] /\ InOrder(Pipeline(s), s, taken[s], sent[s])
    BY <1>2, <2>3
  <2>5. Routed(s)' = <<>>
    BY <2>2 DEF Routed
  <2>6. CASE s = lsess
    <3>1. Routed(s) = lreq /\ cmdq'[s] = cmdq[s] \o lreq
      BY <1>0, <2>1, <2>2, <2>6 DEF Routed
    <3>2. InOrder((cmdq[s] \o lreq) \o <<>> \o Commanded \o dreqs \o unread[s], s, taken[s], sent[s])
      <4>1. InOrder(cmdq[s] \o lreq \o Commanded \o dreqs \o unread[s], s, taken[s], sent[s])
        BY <2>4, <3>1, Zenon DEF Pipeline
      <4>2. lreq \in Seq(Request)
        BY <1>1, <3>1
      <4> QED BY <1>1, <4>1, <4>2, OrderedMoves
    <3> QED BY <2>2, <2>4, <2>5, <3>1, <3>2, Zenon DEF Pipeline
  <2>7. CASE s # lsess
    <3>1. Routed(s) = <<>> /\ cmdq'[s] = cmdq[s]
      BY <1>0, <2>1, <2>2, <2>7 DEF Routed
    <3> QED BY <2>2, <2>4, <2>5, <3>1, Zenon DEF Pipeline
  <2> QED BY <2>6, <2>7
<1>12. CASE KickPacer
  <2>1. /\ lsess' = NoSess /\ lreq = <<>>
        /\ dreqs' = dreqs /\ taken' = taken /\ sent' = sent /\ Commanded' = Commanded
        /\ unread' = unread /\ cmdq' = cmdq
    BY <1>0, <1>12 DEF KickPacer, InHand, Commanded
  <2> SUFFICES ASSUME NEW s \in Sessions, Open(s)'
               PROVE  taken'[s] <= sent'[s] /\ InOrder(Pipeline(s)', s, taken'[s], sent'[s])
    BY DEF Ordered
  <2>2. Open(s)
    BY <1>3, <1>12 DEF KickPacer
  <2>3. Routed(s)' = Routed(s)
    BY <1>0, <2>1 DEF Routed
  <2> QED BY <1>2, <2>1, <2>2, <2>3, Zenon DEF Pipeline
<1>13. ASSUME NEW w \in Workers, NEW outcome \in Outcomes, HandleRequest(w, outcome) PROVE Ordered'
  <2> DEFINE t == wsess[w]
             l == IF Head(cmdq[t]).from = t THEN taken[t] + 1 ELSE taken[t]
  <2>1. t \in Sessions /\ cmdq[t] # <<>>
    BY <1>13 DEF HandleRequest, ReactorInv, Holders
  <2>2. /\ cmdq' = [cmdq EXCEPT ![t] = Tail(cmdq[t])] /\ taken' = [taken EXCEPT ![t] = l]
        /\ dreqs' = dreqs /\ sent' = sent /\ Commanded' = Commanded /\ unread' = unread
        /\ \A s \in Sessions : Routed(s)' = Routed(s)
    BY <1>13 DEF HandleRequest, Commanded, Routed
  <2> HIDE DEF t
  <2> SUFFICES ASSUME NEW s \in Sessions, Open(s)'
               PROVE  taken'[s] <= sent'[s] /\ InOrder(Pipeline(s)', s, taken'[s], sent'[s])
    BY DEF Ordered
  <2>3. Open(s)
    BY <1>3, <1>13 DEF HandleRequest
  <2>4. taken[s] <= sent[s] /\ InOrder(Pipeline(s), s, taken[s], sent[s])
    BY <1>2, <2>3
  <2>5. CASE s = t
    <3>1. cmdq'[t] = Tail(cmdq[t]) /\ taken'[t] = l
      BY <1>0, <2>1, <2>2
    <3>2. taken[t] \in Nat /\ sent[t] \in Nat
      BY <1>0, <2>1
    <3>3. /\ l <= sent[t]
          /\ InOrder(Tail(cmdq[t]) \o Routed(t) \o Commanded \o dreqs \o unread[t], t, l, sent[t])
      <4>1. /\ taken[t] <= sent[t]
            /\ InOrder(cmdq[t] \o Routed(t) \o Commanded \o dreqs \o unread[t], t, taken[t], sent[t])
        BY <2>4, <2>5, Zenon DEF Pipeline
      <4>2. /\ cmdq[t] \in Seq(Request) /\ Routed(t) \in Seq(Request) /\ Commanded \in Seq(Request)
            /\ dreqs \in Seq(Request) /\ unread[t] \in Seq(Request)
        BY <1>1, <2>1
      <4> DEFINE a == cmdq[t]
                 b == Routed(t)
                 c == unread[t]
                 lo == taken[t]
                 hi == sent[t]
      <4>3. /\ a \in Seq(Request) /\ b \in Seq(Request) /\ c \in Seq(Request) /\ a # <<>>
            /\ lo \in Nat /\ hi \in Nat /\ lo <= hi
            /\ InOrder(a \o b \o Commanded \o dreqs \o c, t, lo, hi)
        BY <2>1, <3>2, <4>1, <4>2
      <4> HIDE DEF a, b, c, lo, hi
      <4>4. LET m == IF Head(a).from = t THEN lo + 1 ELSE lo
            IN  m <= hi /\ InOrder(Tail(a) \o b \o Commanded \o dreqs \o c, t, m, hi)
        BY <2>1, <4>2, <4>3, OrderedTake
      <4> QED BY <4>4, Zenon DEF a, b, c, lo, hi
    <3> HIDE DEF l
    <3> QED BY <2>1, <2>2, <2>5, <3>1, <3>3, Zenon DEF Pipeline
  <2>6. CASE s # t
    <3>1. cmdq'[s] = cmdq[s] /\ taken'[s] = taken[s]
      BY <1>0, <2>1, <2>2, <2>6
    <3> QED BY <2>2, <2>4, <3>1, Zenon DEF Pipeline
  <2> QED BY <2>5, <2>6
<1>14. CASE LogicHead \/ LogicRead \/ QueueDrained
  BY <1>0, <1>3, <1>14, OrderedFrame DEF LogicHead, LogicRead, QueueDrained, pipeline
<1>15. CASE \/ PacerHead \/ PacerWakes \/ Snapshot \/ Submit \/ RoundDone
            \/ \E s \in Sessions : tryClaimPacerTick(s)
  BY <1>0, <1>3, <1>15, OrderedFrame DEF PacerHead, PacerWakes, Snapshot, Submit, RoundDone,
     tryClaimPacerTick, pipeline
<1>16. CASE \E w \in Workers : \/ PopTask(w) \/ WorkerExit(w) \/ TickMedia(w)
                               \/ releasePacerTick(w) \/ TaskDone(w)
  BY <1>0, <1>3, <1>16, OrderedFrame DEF PopTask, WorkerExit, TickMedia, releasePacerTick, TaskDone,
     pipeline
<1>17. CASE \/ Stop \/ JoinDispatcher \/ UnblockLogic \/ JoinThreads \/ ShutdownPool
            \/ UNCHANGED vars
  BY <1>0, <1>3, <1>17, OrderedFrame DEF Stop, JoinDispatcher, UnblockLogic, JoinThreads, ShutdownPool,
     vars, pipeline
<1> QED
  BY NextCases, <1>4, <1>5, <1>6, <1>7, <1>8, <1>9, <1>10, <1>11, <1>12, <1>13, <1>14, <1>15,
     <1>16, <1>17

\* While a session is in sessions_, the socket, the Dispatcher's and Logic's hands,
\* cmd_queue_ and the session's own queue together hold exactly the requests its
\* client sent and it has not taken, in the order they were sent; also when other
\* clients reuse descriptors and when handlers throw.
THEOREM RequestsStayInOrder == Spec => []OwnRequestsInOrder
<1>1. Init => RequestInv
  <2> SUFFICES ASSUME Init PROVE RequestInv
    OBVIOUS
  <2>1. Origins /\ InHand
    BY DEF Init, Origins, InHand
  <2>2. ASSUME NEW s \in Sessions PROVE taken[s] <= sent[s] /\ InOrder(Pipeline(s), s, taken[s], sent[s])
    <3>1. taken[s] = 0 /\ sent[s] = 0 /\ Pipeline(s) = <<>>
      BY DEF Init, Pipeline, Routed, Commanded
    <3>2. InOrder(<<>>, s, 0, 0)
      BY DEF InOrder
    <3> QED BY <3>1, <3>2
  <2> QED BY <2>1, <2>2 DEF RequestInv, Ordered
<1>2. ReactorInv /\ RequestInv /\ [Next]_vars => RequestInv'
  BY OriginsStep, OrderedStep DEF RequestInv
<1>3. RequestInv => OwnRequestsInOrder
  BY DEF RequestInv, Ordered, OwnRequestsInOrder, Open
<1> QED BY <1>1, <1>2, <1>3, ReactorInvariant, PTL DEF Spec
=============================================================================
