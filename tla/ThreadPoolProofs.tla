--------------------------- MODULE ThreadPoolProofs ---------------------------
(***************************************************************************)
(* ThreadPool for any number of workers, clients and tasks: types, and     *)
(* that shutdown drains the queue while other threads submit.              *)
(***************************************************************************)
EXTENDS ThreadPool, SequenceTheorems, TLAPS

\* What the place of a client or of a worker tells about its call of tasks_ and
\* about the task it holds.
Places ==
  /\ \A k \in Client :
       /\ cpc[k] \in {"idle", "submit", "shutdown", "join"} => call[k] = tasks!NoCall
       /\ cpc[k] = "push" => call[k].op = "push" /\ call[k].val = mine[k]
       /\ cpc[k] = "close" => call[k].op = "close"
       /\ cpc[k] \in {"submit", "push"} <=> mine[k] # None
  /\ \A w \in Worker :
       /\ wpc[w] \in {"loop", "run", "exited"} => call[w] = tasks!NoCall
       /\ wpc[w] = "pop" => /\ call[w].op = "pop"
                            /\ call[w].res = "ok" <=> call[w].val # None

\* The places a task passes through once its push has taken effect.
Queued(t)     == \E i \in 1 .. Len(queue) : queue[i] = t
Carries(w, t) == task[w] = t \/ (wpc[w] = "pop" /\ call[w].val = t)
Entered(t)    == Queued(t) \/ (\E w \in Worker : Carries(w, t)) \/ runs[t] # 0

\* The push of this client has taken effect, its submit has not returned yet.
Entering(k, t) == mine[k] = t /\ cpc[k] = "push" /\ call[k].res = "ok"

\* A task is in one place at a time, and is run at most once.
OnePlace ==
  /\ \A i, j \in 1 .. Len(queue) : queue[i] = queue[j] => i = j
  /\ \A t \in Task :
       /\ \A w \in Worker : Carries(w, t) => ~Queued(t) /\ runs[t] = 0
       /\ \A v, w \in Worker : Carries(v, t) /\ Carries(w, t) => v = w
       /\ runs[t] # 0 => runs[t] = 1 /\ ~Queued(t)

\* A task has entered the pool exactly if submit has returned its future or is
\* about to; a task that is being submitted, accepted or refused is only that.
Ledger ==
  /\ \A t \in Task : Entered(t) <=> t \in accepted \/ \E k \in Client : Entering(k, t)
  /\ accepted \cap refused = {}
  /\ \A k \in Client : mine[k] \notin accepted \cup refused
  /\ \A k, m \in Client : mine[k] = mine[m] /\ mine[k] # None => k = m

\* A pop fails and a worker ends only when the queue is closed and drained.
Drained ==
  /\ \A w \in Worker :
       wpc[w] = "exited" \/ (wpc[w] = "pop" /\ call[w].res = "fail") => closed /\ queue = <<>>
  /\ stopped => \A w \in Worker : wpc[w] = "exited"

PoolInv == TypeOK /\ Places /\ OnePlace /\ Ledger /\ Drained

-----------------------------------------------------------------------------
(* The five ways in which a call of tasks_ takes effect here.              *)

Puts(k) ==
  /\ cpc[k] = "push" /\ call[k].res = "pending" /\ ~closed
  /\ queue' = Append(queue, mine[k])
  /\ call' = [call EXCEPT ![k] = [op |-> "push", val |-> mine[k], res |-> "ok"]]
  /\ UNCHANGED <<closed, wpc, task, cpc, mine, shutdownDone, history>>

Refuses(k) ==
  /\ cpc[k] = "push" /\ call[k].res = "pending" /\ closed
  /\ call' = [call EXCEPT ![k] = [op |-> "push", val |-> mine[k], res |-> "fail"]]
  /\ UNCHANGED <<queue, closed, wpc, task, cpc, mine, shutdownDone, history>>

Closes(k) ==
  /\ cpc[k] = "close" /\ closed' = TRUE
  /\ call' = [call EXCEPT ![k] = [op |-> "close", val |-> None, res |-> "ok"]]
  /\ UNCHANGED <<queue, wpc, task, cpc, mine, shutdownDone, history>>

Takes(w) ==
  /\ wpc[w] = "pop" /\ call[w].res = "pending" /\ queue # <<>>
  /\ queue' = Tail(queue)
  /\ call' = [call EXCEPT ![w] = [op |-> "pop", val |-> Head(queue), res |-> "ok"]]
  /\ UNCHANGED <<closed, wpc, task, cpc, mine, shutdownDone, history>>

Misses(w) ==
  /\ wpc[w] = "pop" /\ call[w].res = "pending" /\ queue = <<>> /\ closed
  /\ call' = [call EXCEPT ![w] = [op |-> "pop", val |-> None, res |-> "fail"]]
  /\ UNCHANGED <<queue, closed, wpc, task, cpc, mine, shutdownDone, history>>

\* A call of tasks_ that takes effect is a client's push or close, or a worker's
\* pop; the queue has no limit, so a push is refused only once it is closed.
LEMMA QueueCases ==
  ASSUME PoolInv, NEW c \in Worker \cup Client, QueueStep(c)
  PROVE  \/ c \in Client /\ (Puts(c) \/ Refuses(c) \/ Closes(c))
         \/ c \in Worker /\ (Takes(c) \/ Misses(c))
<1> USE DEF tasks!Pending, tasks!Answer, tasks!Pushes, tasks!Pops
<1>1. /\ c \in Client /\ c \notin Worker
          => /\ cpc[c] \in {"idle", "submit", "push", "shutdown", "close", "join"}
             /\ call[c].op \in {"none", "push", "close"}
             /\ call[c].op = "push" => cpc[c] = "push" /\ call[c].val = mine[c]
             /\ call[c].op = "close" => cpc[c] = "close"
      /\ c \in Worker
          => /\ wpc[c] \in {"loop", "pop", "run", "exited"}
             /\ call[c].op \in {"none", "pop"}
             /\ call[c].op = "pop" => wpc[c] = "pop"
  BY PoolAssumption DEF PoolInv, TypeOK, Places, tasks!NoCall
<1>2. c \in Worker => c \notin Client
  BY PoolAssumption
<1>3. CASE tasks!Put(c)
  BY <1>1, <1>2, <1>3 DEF QueueStep, tasks!Put, Puts
<1>4. CASE tasks!Refuse(c)
  BY <1>1, <1>2, <1>4 DEF QueueStep, tasks!Refuse, Refuses, tasks!Full
<1>5. CASE tasks!Take(c)
  BY <1>1, <1>2, <1>5 DEF QueueStep, tasks!Take, Takes
<1>6. CASE tasks!Miss(c)
  BY <1>1, <1>2, <1>6 DEF QueueStep, tasks!Miss, Misses
<1>7. CASE tasks!Close(c)
  BY <1>1, <1>2, <1>7 DEF QueueStep, tasks!Close, Closes
<1> QED BY <1>3, <1>4, <1>5, <1>6, <1>7 DEF QueueStep, tasks!TakeEffect

\* A step is a step of one action.
LEMMA NextCases ==
  ASSUME PoolInv, [Next]_vars
  PROVE  \/ \E k \in Client, t \in Task : submit(k, t)
         \/ \E k \in Client : submitPush(k)
         \/ \E k \in Client : submitReturn(k)
         \/ \E k \in Client : shutdown(k)
         \/ \E k \in Client : shutdownClose(k)
         \/ \E k \in Client : shutdownClosed(k)
         \/ \E k \in Client : shutdownJoin(k)
         \/ \E w \in Worker : workerPop(w)
         \/ \E w \in Worker : workerPopped(w)
         \/ \E w \in Worker : workerRun(w)
         \/ \E k \in Client : Puts(k)
         \/ \E k \in Client : Refuses(k)
         \/ \E k \in Client : Closes(k)
         \/ \E w \in Worker : Takes(w)
         \/ \E w \in Worker : Misses(w)
         \/ UNCHANGED vars
BY QueueCases DEF Next, WorkerStep, ClientStep, Quiet

-----------------------------------------------------------------------------
(* Types and places.                                                       *)

\* A call that is made or answered is a record of its operation, its value and
\* its answer; NoCall is the absence of a call.
LEMMA CallMade ==
  /\ \A op \in {"push", "pop", "close"}, v \in Task \cup {None}, r \in {"pending", "ok", "fail"} :
       /\ [op |-> op, val |-> v, res |-> r] \in tasks!Call
       /\ [op |-> op, val |-> v, res |-> r] # tasks!NoCall
  /\ tasks!NoCall \in tasks!Call
BY DEF tasks!Call, tasks!NoCall, tasks!Op, tasks!Pushes, tasks!Pops

\* A call has an answer and a value of the right kind.
LEMMA CallFields ==
  ASSUME NEW c \in tasks!Call
  PROVE  c.val \in Task \cup {None} /\ c.res \in {"pending", "ok", "fail"}
BY DEF tasks!Call, tasks!NoCall

\* A step that changes the call and the state of one client only.
LEMMA ClientFrame ==
  ASSUME TypeOK, Places, NEW k \in Client, NEW c \in tasks!Call,
         NEW p \in {"idle", "submit", "push", "shutdown", "close", "join"},
         NEW m \in Task \cup {None},
         call' = [call EXCEPT ![k] = c], cpc' = [cpc EXCEPT ![k] = p],
         mine' = [mine EXCEPT ![k] = m], UNCHANGED <<wpc, task>>,
         p \in {"idle", "submit", "shutdown", "join"} => c = tasks!NoCall,
         p = "push" => c.op = "push" /\ c.val = m,
         p = "close" => c.op = "close",
         p \in {"submit", "push"} <=> m # None,
         queue' \in Seq(Task), closed' \in BOOLEAN, shutdownDone' \in BOOLEAN,
         stopped' \in BOOLEAN, runs' \in [Task -> Nat],
         accepted' \subseteq Task, refused' \subseteq Task
  PROVE  TypeOK' /\ Places'
<1>1. /\ call' \in [Worker \cup Client -> tasks!Call]
      /\ cpc' \in [Client -> {"idle", "submit", "push", "shutdown", "close", "join"}]
      /\ mine' \in [Client -> Task \cup {None}]
  BY DEF TypeOK
<1>2. TypeOK'
  BY <1>1 DEF TypeOK
<1>3. /\ call'[k] = c /\ cpc'[k] = p /\ mine'[k] = m
      /\ \A u \in Worker \cup Client : u # k => call'[u] = call[u]
      /\ \A u \in Client : u # k => cpc'[u] = cpc[u] /\ mine'[u] = mine[u]
      /\ \A w \in Worker : w # k
  BY PoolAssumption DEF TypeOK
<1>4. Places'
  BY <1>3 DEF Places
<1> QED BY <1>2, <1>4

\* A step that changes the call and the state of one worker only.
LEMMA WorkerFrame ==
  ASSUME TypeOK, Places, NEW w \in Worker, NEW c \in tasks!Call,
         NEW p \in {"loop", "pop", "run", "exited"}, NEW m \in Task \cup {None},
         call' = [call EXCEPT ![w] = c], wpc' = [wpc EXCEPT ![w] = p],
         task' = [task EXCEPT ![w] = m],
         UNCHANGED <<closed, cpc, mine, shutdownDone, stopped, accepted, refused>>,
         p \in {"loop", "run", "exited"} => c = tasks!NoCall,
         p = "pop" => c.op = "pop" /\ (c.res = "ok" <=> c.val # None),
         p = "run" <=> m # None,
         queue' \in Seq(Task), runs' \in [Task -> Nat]
  PROVE  TypeOK' /\ Places'
<1>1. /\ call' \in [Worker \cup Client -> tasks!Call]
      /\ wpc' \in [Worker -> {"loop", "pop", "run", "exited"}]
      /\ task' \in [Worker -> Task \cup {None}]
  BY DEF TypeOK
<1>2. /\ call'[w] = c /\ wpc'[w] = p /\ task'[w] = m
      /\ \A u \in Worker \cup Client : u # w => call'[u] = call[u]
      /\ \A u \in Worker : u # w => wpc'[u] = wpc[u] /\ task'[u] = task[u]
      /\ \A k \in Client : w # k
  BY PoolAssumption DEF TypeOK
<1>3. TypeOK'
  BY <1>1, <1>2 DEF TypeOK
<1>4. Places'
  BY <1>2 DEF Places
<1> QED BY <1>3, <1>4

\* Every step keeps the types and the places.
LEMMA TypeStep == PoolInv /\ [Next]_vars => TypeOK' /\ Places'
<1> SUFFICES ASSUME PoolInv, [Next]_vars PROVE TypeOK' /\ Places'
  OBVIOUS
<1> USE DEF history, pool
<1>0. /\ TypeOK /\ Places
      /\ queue \in Seq(Task) /\ closed \in BOOLEAN /\ shutdownDone \in BOOLEAN
      /\ stopped \in BOOLEAN /\ runs \in [Task -> Nat]
      /\ accepted \subseteq Task /\ refused \subseteq Task
      /\ call \in [Worker \cup Client -> tasks!Call]
      /\ wpc \in [Worker -> {"loop", "pop", "run", "exited"}]
      /\ task \in [Worker -> Task \cup {None}]
      /\ cpc \in [Client -> {"idle", "submit", "push", "shutdown", "close", "join"}]
      /\ mine \in [Client -> Task \cup {None}]
      /\ None \notin Task
  BY PoolAssumption DEF PoolInv, TypeOK
<1>1. ASSUME NEW k \in Client, NEW t \in Task, submit(k, t) PROVE TypeOK' /\ Places'
  <2>1. CASE closed
    BY <1>0, <1>1, <2>1 DEF submit, TypeOK, Places
  <2>2. CASE ~closed
    <3>1. call' = [call EXCEPT ![k] = tasks!NoCall]
      BY <1>0, <1>1 DEF submit, Places
    <3> QED BY <1>0, <1>1, <2>2, <3>1, ClientFrame, CallMade DEF submit
  <2> QED BY <2>1, <2>2
<1>2. ASSUME NEW k \in Client, submitPush(k) PROVE TypeOK' /\ Places'
  <2>1. mine[k] \in Task /\ mine' = [mine EXCEPT ![k] = mine[k]]
    BY <1>0, <1>2 DEF submitPush, Places
  <2> DEFINE c == [op |-> "push", val |-> mine[k], res |-> "pending"]
  <2>2. c \in tasks!Call /\ c.op = "push" /\ c.val = mine[k]
    BY <2>1, CallMade
  <2>3. call' = [call EXCEPT ![k] = c]
    BY <1>2 DEF submitPush, tasks!Invoke
  <2>4. /\ queue' \in Seq(Task) /\ closed' \in BOOLEAN /\ shutdownDone' \in BOOLEAN
        /\ stopped' \in BOOLEAN /\ runs' \in [Task -> Nat]
        /\ accepted' \subseteq Task /\ refused' \subseteq Task
        /\ wpc' = wpc /\ task' = task
    BY <1>0, <1>2 DEF submitPush, tasks!Invoke
  <2>5. cpc' = [cpc EXCEPT ![k] = "push"] /\ mine[k] # None
    BY <1>0, <1>2, <2>1 DEF submitPush, tasks!Invoke
  <2> HIDE DEF c
  <2> QED BY <1>0, <2>1, <2>2, <2>3, <2>4, <2>5, ClientFrame
<1>3. ASSUME NEW k \in Client, submitReturn(k) PROVE TypeOK' /\ Places'
  <2>1. mine[k] \in Task
    BY <1>0, <1>3 DEF submitReturn, Places
  <2>2. accepted' \subseteq Task /\ refused' \subseteq Task
    BY <1>0, <1>3, <2>1 DEF submitReturn
  <2> QED BY <1>0, <1>3, <2>2, ClientFrame, CallMade DEF submitReturn, tasks!Return
<1>4. ASSUME NEW k \in Client, shutdown(k) PROVE TypeOK' /\ Places'
  <2>1. call[k] = tasks!NoCall /\ mine[k] = None
    BY <1>0, <1>4 DEF shutdown, Places
  <2>2. call' = [call EXCEPT ![k] = tasks!NoCall] /\ mine' = [mine EXCEPT ![k] = None]
    BY <1>0, <1>4, <2>1 DEF shutdown
  <2> QED BY <1>0, <1>4, <2>2, ClientFrame, CallMade DEF shutdown
<1>5. ASSUME NEW k \in Client, shutdownClose(k) PROVE TypeOK' /\ Places'
  <2>1. mine[k] = None /\ mine' = [mine EXCEPT ![k] = None]
    BY <1>0, <1>5 DEF shutdownClose, Places
  <2> DEFINE c == [op |-> "close", val |-> None, res |-> "pending"]
  <2>2. c \in tasks!Call /\ c.op = "close"
    BY CallMade
  <2>3. call' = [call EXCEPT ![k] = c]
    BY <1>5 DEF shutdownClose, tasks!Invoke
  <2>4. /\ queue' \in Seq(Task) /\ closed' \in BOOLEAN /\ shutdownDone' \in BOOLEAN
        /\ stopped' \in BOOLEAN /\ runs' \in [Task -> Nat]
        /\ accepted' \subseteq Task /\ refused' \subseteq Task
        /\ wpc' = wpc /\ task' = task
    BY <1>0, <1>5 DEF shutdownClose, tasks!Invoke
  <2>5. cpc' = [cpc EXCEPT ![k] = "close"]
    BY <1>5, <2>1 DEF shutdownClose, tasks!Invoke
  <2> HIDE DEF c
  <2> QED BY <1>0, <2>1, <2>2, <2>3, <2>4, <2>5, ClientFrame
<1>6. ASSUME NEW k \in Client, shutdownClosed(k) PROVE TypeOK' /\ Places'
  <2>1. mine[k] = None /\ mine' = [mine EXCEPT ![k] = None]
    BY <1>0, <1>6 DEF shutdownClosed, Places
  <2> QED BY <1>0, <1>6, <2>1, ClientFrame, CallMade DEF shutdownClosed, tasks!Return
<1>7. ASSUME NEW k \in Client, shutdownJoin(k) PROVE TypeOK' /\ Places'
  <2>1. call[k] = tasks!NoCall /\ mine[k] = None
    BY <1>0, <1>7 DEF shutdownJoin, Places
  <2>2. call' = [call EXCEPT ![k] = tasks!NoCall] /\ mine' = [mine EXCEPT ![k] = None]
    BY <1>0, <1>7, <2>1 DEF shutdownJoin
  <2>3. stopped' \in BOOLEAN
    BY <1>7 DEF shutdownJoin
  <2>4. /\ queue' \in Seq(Task) /\ closed' \in BOOLEAN /\ shutdownDone' \in BOOLEAN
        /\ runs' \in [Task -> Nat] /\ accepted' \subseteq Task /\ refused' \subseteq Task
        /\ wpc' = wpc /\ task' = task /\ cpc' = [cpc EXCEPT ![k] = "idle"]
    BY <1>0, <1>7 DEF shutdownJoin
  <2> QED BY <1>0, <2>2, <2>3, <2>4, ClientFrame, CallMade
<1>8. ASSUME NEW w \in Worker, workerPop(w) PROVE TypeOK' /\ Places'
  <2>1. task[w] = None /\ task' = [task EXCEPT ![w] = None]
    BY <1>0, <1>8 DEF workerPop, TypeOK
  <2> DEFINE c == [op |-> "pop", val |-> None, res |-> "pending"]
  <2>2. c \in tasks!Call /\ c.op = "pop" /\ (c.res = "ok" <=> c.val # None)
    BY CallMade
  <2>3. call' = [call EXCEPT ![w] = c]
    BY <1>8 DEF workerPop, tasks!Invoke
  <2>4. /\ queue' \in Seq(Task) /\ runs' \in [Task -> Nat] /\ closed' = closed /\ cpc' = cpc
        /\ mine' = mine /\ shutdownDone' = shutdownDone /\ stopped' = stopped
        /\ accepted' = accepted /\ refused' = refused
    BY <1>0, <1>8 DEF workerPop, tasks!Invoke
  <2>5. wpc' = [wpc EXCEPT ![w] = "pop"]
    BY <1>8, <2>1 DEF workerPop, tasks!Invoke
  <2> HIDE DEF c
  <2> QED BY <1>0, <2>1, <2>2, <2>3, <2>4, <2>5, WorkerFrame
<1>9. ASSUME NEW w \in Worker, workerPopped(w) PROVE TypeOK' /\ Places'
  <2>1. call[w].val \in Task \cup {None} /\ (call[w].res = "ok" <=> call[w].val # None)
    BY <1>0, <1>9, CallFields DEF workerPopped, Places
  <2> QED BY <1>0, <1>9, <2>1, WorkerFrame, CallMade DEF workerPopped, tasks!Return
<1>10. ASSUME NEW w \in Worker, workerRun(w) PROVE TypeOK' /\ Places'
  <2>1. call' = [call EXCEPT ![w] = tasks!NoCall] /\ task[w] \in Task
    BY <1>0, <1>10 DEF workerRun, Places, TypeOK
  <2>2. runs' \in [Task -> Nat]
    BY <1>0, <1>10, <2>1 DEF workerRun
  <2> QED BY <1>0, <1>10, <2>1, <2>2, WorkerFrame, CallMade DEF workerRun
<1>11. ASSUME NEW k \in Client, NEW r \in {"ok", "fail"}, cpc[k] = "push", queue' \in Seq(Task),
              call' = [call EXCEPT ![k] = [op |-> "push", val |-> mine[k], res |-> r]],
              UNCHANGED <<closed, wpc, task, cpc, mine, shutdownDone, history>>
       PROVE  TypeOK' /\ Places'
  <2>1. /\ mine[k] \in Task /\ mine' = [mine EXCEPT ![k] = mine[k]]
        /\ cpc' = [cpc EXCEPT ![k] = "push"]
    BY <1>0, <1>11 DEF Places
  <2> DEFINE c == [op |-> "push", val |-> mine[k], res |-> r]
  <2>2. c \in tasks!Call /\ c.op = "push" /\ c.val = mine[k]
    BY <2>1, CallMade
  <2>3. call' = [call EXCEPT ![k] = c]
    BY <1>11
  <2>4. /\ queue' \in Seq(Task) /\ closed' \in BOOLEAN /\ shutdownDone' \in BOOLEAN
        /\ stopped' \in BOOLEAN /\ runs' \in [Task -> Nat]
        /\ accepted' \subseteq Task /\ refused' \subseteq Task
        /\ wpc' = wpc /\ task' = task
    BY <1>0, <1>11
  <2>5. mine[k] # None
    BY <1>0, <2>1
  <2> HIDE DEF c
  <2> QED BY <1>0, <2>1, <2>2, <2>3, <2>4, <2>5, ClientFrame
<1>12. ASSUME NEW k \in Client, Puts(k) PROVE TypeOK' /\ Places'
  <2>1. mine[k] \in Task
    BY <1>0, <1>12 DEF Places, Puts
  <2>2. queue' \in Seq(Task)
    BY <1>0, <1>12, <2>1 DEF Puts
  <2> QED BY <1>11, <1>12, <2>2 DEF Puts
<1>13. ASSUME NEW k \in Client, Refuses(k) PROVE TypeOK' /\ Places'
  BY <1>0, <1>11, <1>13 DEF Refuses
<1>14. ASSUME NEW k \in Client, Closes(k) PROVE TypeOK' /\ Places'
  <2>1. /\ mine[k] = None /\ mine' = [mine EXCEPT ![k] = None]
        /\ cpc' = [cpc EXCEPT ![k] = "close"]
    BY <1>0, <1>14 DEF Places, Closes
  <2> DEFINE c == [op |-> "close", val |-> None, res |-> "ok"]
  <2>2. c \in tasks!Call /\ c.op = "close"
    BY CallMade
  <2>3. call' = [call EXCEPT ![k] = c] /\ closed' \in BOOLEAN
    BY <1>14 DEF Closes
  <2>4. /\ queue' \in Seq(Task) /\ closed' \in BOOLEAN /\ shutdownDone' \in BOOLEAN
        /\ stopped' \in BOOLEAN /\ runs' \in [Task -> Nat]
        /\ accepted' \subseteq Task /\ refused' \subseteq Task
        /\ wpc' = wpc /\ task' = task
    BY <1>0, <1>14, <2>3 DEF Closes
  <2>5. cpc' = [cpc EXCEPT ![k] = "close"]
    BY <1>14, <2>1 DEF Closes
  <2> HIDE DEF c
  <2> QED BY <1>0, <2>1, <2>2, <2>3, <2>4, <2>5, ClientFrame
<1>15. ASSUME NEW w \in Worker, NEW v \in Task \cup {None}, NEW r \in {"ok", "fail"},
              r = "ok" <=> v # None, wpc[w] = "pop", queue' \in Seq(Task),
              call' = [call EXCEPT ![w] = [op |-> "pop", val |-> v, res |-> r]],
              UNCHANGED <<closed, wpc, task, cpc, mine, shutdownDone, history>>
       PROVE  TypeOK' /\ Places'
  <2>1. task' = [task EXCEPT ![w] = None] /\ wpc' = [wpc EXCEPT ![w] = "pop"]
    BY <1>0, <1>15 DEF TypeOK
  <2> DEFINE c == [op |-> "pop", val |-> v, res |-> r]
  <2>2. c \in tasks!Call /\ c.op = "pop" /\ (c.res = "ok" <=> c.val # None)
    BY <1>15, CallMade
  <2>3. call' = [call EXCEPT ![w] = c]
    BY <1>15
  <2>4. /\ queue' \in Seq(Task) /\ runs' \in [Task -> Nat] /\ closed' = closed /\ cpc' = cpc
        /\ mine' = mine /\ shutdownDone' = shutdownDone /\ stopped' = stopped
        /\ accepted' = accepted /\ refused' = refused
    BY <1>0, <1>15
  <2>5. wpc' = [wpc EXCEPT ![w] = "pop"]
    BY <1>15, <2>1
  <2> HIDE DEF c
  <2> QED BY <1>0, <2>1, <2>2, <2>3, <2>4, <2>5, WorkerFrame
<1>16. ASSUME NEW w \in Worker, Takes(w) PROVE TypeOK' /\ Places'
  <2>1. Head(queue) \in Task /\ Tail(queue) \in Seq(Task)
    BY <1>0, <1>16 DEF Takes
  <2> QED BY <1>0, <1>15, <1>16, <2>1 DEF Takes
<1>17. ASSUME NEW w \in Worker, Misses(w) PROVE TypeOK' /\ Places'
  BY <1>0, <1>15, <1>17 DEF Misses
<1>18. CASE UNCHANGED vars
  BY <1>0, <1>18 DEF TypeOK, Places, vars
<1> QED
  BY NextCases, <1>1, <1>2, <1>3, <1>4, <1>5, <1>6, <1>7, <1>8, <1>9, <1>10, <1>12,
     <1>13, <1>14, <1>16, <1>17, <1>18

-----------------------------------------------------------------------------
(* Where a task is.                                                        *)

\* Every step but Puts, Takes and workerRun leaves each task where it is.
LEMMA TasksStay ==
  ASSUME PoolInv, [Next]_vars,
         ~\E k \in Client : Puts(k), ~\E w \in Worker : Takes(w), ~\E w \in Worker : workerRun(w)
  PROVE  /\ queue' = queue /\ runs' = runs
         /\ \A w \in Worker, t \in Task : Carries(w, t)' <=> Carries(w, t)
<1> USE DEF history, pool
<1> DEFINE Stay == /\ queue' = queue /\ runs' = runs
                   /\ \A w \in Worker, t \in Task : Carries(w, t)' <=> Carries(w, t)
<1>0. /\ call \in [Worker \cup Client -> tasks!Call] /\ None \notin Task
      /\ wpc \in [Worker -> {"loop", "pop", "run", "exited"}]
      /\ task \in [Worker -> Task \cup {None}]
      /\ \A k \in Client, w \in Worker : k # w
      /\ \A w \in Worker : wpc[w] = "run" <=> task[w] # None
  BY PoolAssumption DEF PoolInv, TypeOK
<1>1. ASSUME NEW k \in Client, queue' = queue, runs' = runs, wpc' = wpc, task' = task,
             \A w \in Worker : call'[w] = call[w]
      PROVE  Stay
  BY <1>1 DEF Carries
<1>2. ASSUME NEW k \in Client, NEW t \in Task, submit(k, t) PROVE Stay
  BY <1>1, <1>2 DEF submit
<1>3. ASSUME NEW k \in Client, submitPush(k) \/ shutdownClose(k) PROVE Stay
  BY <1>0, <1>1, <1>3 DEF submitPush, shutdownClose, tasks!Invoke
<1>4. ASSUME NEW k \in Client, submitReturn(k) \/ shutdownClosed(k) PROVE Stay
  BY <1>0, <1>1, <1>4 DEF submitReturn, shutdownClosed, tasks!Return
<1>5. ASSUME NEW k \in Client, shutdown(k) \/ shutdownJoin(k) PROVE Stay
  BY <1>1, <1>5 DEF shutdown, shutdownJoin
<1>6. ASSUME NEW k \in Client, Refuses(k) \/ Closes(k) PROVE Stay
  BY <1>0, <1>1, <1>6 DEF Refuses, Closes
<1>7. ASSUME NEW w \in Worker, workerPop(w) PROVE Stay
  <2>1. /\ \A v \in Worker \ {w} : call'[v] = call[v] /\ wpc'[v] = wpc[v]
        /\ call'[w].val = None /\ wpc[w] = "loop" /\ task' = task
    BY <1>0, <1>7 DEF workerPop, tasks!Invoke
  <2> QED BY <1>0, <1>7, <2>1 DEF workerPop, tasks!Invoke, Carries
<1>8. ASSUME NEW w \in Worker, workerPopped(w) PROVE Stay
  <2>1. /\ \A v \in Worker \ {w} : call'[v] = call[v] /\ wpc'[v] = wpc[v] /\ task'[v] = task[v]
        /\ task'[w] = call[w].val /\ wpc'[w] # "pop" /\ wpc[w] = "pop" /\ task[w] = None
    BY <1>0, <1>8 DEF workerPopped, tasks!Return
  <2> QED BY <1>0, <1>8, <2>1 DEF workerPopped, tasks!Return, Carries
<1>9. ASSUME NEW w \in Worker, Misses(w) PROVE Stay
  <2>1. /\ \A v \in Worker \ {w} : call'[v] = call[v]
        /\ call'[w].val = None /\ task' = task /\ wpc' = wpc
    BY <1>0, <1>9 DEF Misses
  <2>2. call[w].val = None \/ call[w].val \notin Task
    BY <1>9 DEF Misses, PoolInv, Places
  <2> QED BY <1>0, <1>9, <2>1, <2>2 DEF Misses, Carries
<1>10. CASE UNCHANGED vars
  BY <1>10 DEF vars, Carries
<1> QED
  BY NextCases, <1>2, <1>3, <1>4, <1>5, <1>6, <1>7, <1>8, <1>9, <1>10

\* A push that takes effect puts its task at the end of the queue.
LEMMA PutsEffect ==
  ASSUME PoolInv, NEW k \in Client, Puts(k)
  PROVE  /\ mine[k] \in Task /\ ~Entered(mine[k])
         /\ Len(queue') = Len(queue) + 1 /\ queue'[Len(queue) + 1] = mine[k]
         /\ \A i \in 1 .. Len(queue) : queue'[i] = queue[i]
         /\ \A t \in Task : Queued(t)' <=> Queued(t) \/ t = mine[k]
         /\ \A w \in Worker, t \in Task : Carries(w, t)' <=> Carries(w, t)
<1>1. mine[k] \in Task /\ queue \in Seq(Task) /\ queue' = Append(queue, mine[k])
  BY PoolAssumption DEF Puts, PoolInv, TypeOK, Places
<1>2. ~Entered(mine[k])
  <2>1. mine[k] \notin accepted /\ \A m \in Client : Entering(m, mine[k]) => m = k
    BY <1>1, PoolAssumption DEF PoolInv, Ledger, Entering
  <2>2. ~Entering(k, mine[k])
    BY DEF Puts, Entering
  <2> QED BY <1>1, <2>1, <2>2 DEF PoolInv, Ledger
<1>3. /\ Len(queue') = Len(queue) + 1 /\ queue'[Len(queue) + 1] = mine[k] /\ Len(queue) \in Nat
      /\ \A i \in 1 .. Len(queue) : queue'[i] = queue[i]
  BY <1>1
<1>4. \A t \in Task : Queued(t)' <=> Queued(t) \/ t = mine[k]
  BY <1>3 DEF Queued
<1>5. \A w \in Worker, t \in Task : Carries(w, t)' <=> Carries(w, t)
  <2>1. \A w \in Worker : call'[w] = call[w]
    BY PoolAssumption DEF Puts, PoolInv, TypeOK
  <2> QED BY <2>1 DEF Puts, Carries
<1> QED BY <1>1, <1>2, <1>3, <1>4, <1>5

\* A pop that takes effect moves the oldest task from the queue to its worker.
LEMMA TakesEffect ==
  ASSUME PoolInv, NEW w \in Worker, Takes(w)
  PROVE  /\ Head(queue) \in Task
         /\ \A t \in Task : t = Head(queue) => Queued(t) /\ ~Queued(t)'
         /\ Len(queue') = Len(queue) - 1
         /\ \A i \in 1 .. Len(queue') : queue'[i] = queue[i + 1]
         /\ \A t \in Task : t # Head(queue) => (Queued(t)' <=> Queued(t))
         /\ \A v \in Worker, t \in Task :
              Carries(v, t)' <=> Carries(v, t) \/ (v = w /\ t = Head(queue))
<1>1. /\ queue \in Seq(Task) /\ queue # <<>> /\ queue' = Tail(queue)
  BY DEF Takes, PoolInv, TypeOK
<1>2. /\ Len(queue') = Len(queue) - 1 /\ Len(queue) \in Nat \ {0} /\ Head(queue) = queue[1]
      /\ \A i \in 1 .. Len(queue') : queue'[i] = queue[i + 1]
      /\ Head(queue) \in Task
  BY <1>1
<1>3. \A t \in Task : t # Head(queue) => (Queued(t)' <=> Queued(t))
  <2> TAKE t \in Task
  <2> HAVE t # Head(queue)
  <2>1. ASSUME NEW i \in 1 .. Len(queue), queue[i] = t PROVE Queued(t)'
    <3>1. i - 1 \in 1 .. Len(queue') /\ queue'[i - 1] = t
      BY <1>2, <2>1
    <3> QED BY <3>1 DEF Queued
  <2>2. ASSUME NEW i \in 1 .. Len(queue'), queue'[i] = t PROVE Queued(t)
    <3>1. i + 1 \in 1 .. Len(queue) /\ queue[i + 1] = t
      BY <1>2, <2>2
    <3> QED BY <3>1 DEF Queued
  <2> QED BY <2>1, <2>2 DEF Queued
<1>4. \A t \in Task : t = Head(queue) => Queued(t) /\ ~Queued(t)'
  <2>1. Queued(Head(queue))
    BY <1>2 DEF Queued
  <2>2. ASSUME NEW i \in 1 .. Len(queue') PROVE queue'[i] # Head(queue)
    <3>1. i + 1 \in 1 .. Len(queue) /\ i + 1 # 1 /\ 1 \in 1 .. Len(queue)
      BY <1>2
    <3>2. queue[i + 1] # queue[1]
      BY <3>1 DEF PoolInv, OnePlace
    <3> QED BY <1>2, <3>2
  <2> QED BY <2>1, <2>2 DEF Queued
<1>5. \A v \in Worker, t \in Task :
        Carries(v, t)' <=> Carries(v, t) \/ (v = w /\ t = Head(queue))
  <2>1. /\ \A v \in Worker \ {w} : call'[v] = call[v]
        /\ call'[w].val = Head(queue) /\ wpc[w] = "pop" /\ wpc' = wpc /\ task' = task
        /\ task[w] = None /\ call[w].val = None /\ None \notin Task
    BY PoolAssumption DEF Takes, PoolInv, TypeOK, Places
  <2> QED BY <1>2, <2>1 DEF Carries
<1> QED BY <1>2, <1>3, <1>4, <1>5

\* A task that is run leaves its worker and is counted.
LEMMA RunEffect ==
  ASSUME PoolInv, NEW w \in Worker, workerRun(w)
  PROVE  /\ task[w] \in Task /\ Carries(w, task[w]) /\ runs'[task[w]] = runs[task[w]] + 1
         /\ queue' = queue
         /\ \A t \in Task : t # task[w] => runs'[t] = runs[t]
         /\ \A v \in Worker, t \in Task :
              Carries(v, t)' <=> Carries(v, t) /\ (v # w \/ t # task[w])
<1>1. /\ task[w] \in Task /\ Carries(w, task[w]) /\ wpc[w] = "run" /\ queue' = queue
      /\ None \notin Task
  BY PoolAssumption DEF workerRun, PoolInv, TypeOK, Carries, pool
<1>2. /\ runs'[task[w]] = runs[task[w]] + 1
      /\ \A t \in Task : t # task[w] => runs'[t] = runs[t]
  BY <1>1 DEF workerRun, PoolInv, TypeOK
<1>3. /\ \A v \in Worker \ {w} : task'[v] = task[v] /\ wpc'[v] = wpc[v]
      /\ task'[w] = None /\ wpc'[w] = "loop" /\ call' = call
  BY DEF workerRun, PoolInv, TypeOK, pool
<1>4. \A v \in Worker, t \in Task :
        Carries(v, t)' <=> Carries(v, t) /\ (v # w \/ t # task[w])
  BY <1>1, <1>3 DEF Carries
<1> QED BY <1>1, <1>2, <1>4

\* A task is never in two places and never run twice.
LEMMA OnePlaceStep == PoolInv /\ [Next]_vars => OnePlace'
<1> SUFFICES ASSUME PoolInv, [Next]_vars PROVE OnePlace'
  OBVIOUS
<1>0. OnePlace /\ runs \in [Task -> Nat] /\ queue \in Seq(Task) /\ Len(queue) \in Nat
  BY DEF PoolInv, TypeOK
<1>1. CASE /\ ~\E k \in Client : Puts(k)
           /\ ~\E w \in Worker : Takes(w)
           /\ ~\E w \in Worker : workerRun(w)
  <2>1. /\ queue' = queue /\ runs' = runs
        /\ \A w \in Worker, t \in Task : Carries(w, t)' <=> Carries(w, t)
    BY <1>1, TasksStay
  <2>2. \A t \in Task : Queued(t)' <=> Queued(t)
    BY <2>1 DEF Queued
  <2> QED BY <1>0, <2>1, <2>2 DEF OnePlace
<1>2. ASSUME NEW k \in Client, Puts(k) PROVE OnePlace'
  <2>1. /\ mine[k] \in Task /\ ~Entered(mine[k])
        /\ Len(queue') = Len(queue) + 1 /\ queue'[Len(queue) + 1] = mine[k]
        /\ \A i \in 1 .. Len(queue) : queue'[i] = queue[i]
        /\ \A t \in Task : Queued(t)' <=> Queued(t) \/ t = mine[k]
        /\ \A w \in Worker, t \in Task : Carries(w, t)' <=> Carries(w, t)
        /\ runs' = runs
    BY <1>2, PutsEffect DEF Puts, history
  <2>2. \A i \in 1 .. Len(queue) : queue[i] # mine[k]
    BY <2>1 DEF Entered, Queued
  <2>3. \A i, j \in 1 .. Len(queue') : queue'[i] = queue'[j] => i = j
    <3> SUFFICES ASSUME NEW i \in 1 .. Len(queue'), NEW j \in 1 .. Len(queue'),
                        queue'[i] = queue'[j]
                 PROVE  i = j
      OBVIOUS
    <3>1. /\ i \in 1 .. Len(queue) \/ i = Len(queue) + 1
          /\ j \in 1 .. Len(queue) \/ j = Len(queue) + 1
      BY <1>0, <2>1
    <3>2. CASE i \in 1 .. Len(queue) /\ j \in 1 .. Len(queue)
      BY <1>0, <2>1, <3>2 DEF OnePlace
    <3> QED BY <2>1, <2>2, <3>1, <3>2
  <2>4. \A t \in Task : /\ \A w \in Worker : Carries(w, t)' => ~Queued(t)' /\ runs'[t] = 0
                        /\ \A v, w \in Worker : Carries(v, t)' /\ Carries(w, t)' => v = w
                        /\ runs'[t] # 0 => runs'[t] = 1 /\ ~Queued(t)'
    BY <1>0, <2>1 DEF OnePlace, Entered
  <2> QED BY <2>3, <2>4 DEF OnePlace
<1>3. ASSUME NEW w \in Worker, Takes(w) PROVE OnePlace'
  <2>1. /\ Head(queue) \in Task
        /\ \A t \in Task : t = Head(queue) => Queued(t) /\ ~Queued(t)'
        /\ Len(queue') = Len(queue) - 1
        /\ \A i \in 1 .. Len(queue') : queue'[i] = queue[i + 1]
        /\ \A t \in Task : t # Head(queue) => (Queued(t)' <=> Queued(t))
        /\ \A v \in Worker, t \in Task :
              Carries(v, t)' <=> Carries(v, t) \/ (v = w /\ t = Head(queue))
        /\ runs' = runs
    BY <1>3, TakesEffect DEF Takes, history
  <2>2. \A i, j \in 1 .. Len(queue') : queue'[i] = queue'[j] => i = j
    <3> SUFFICES ASSUME NEW i \in 1 .. Len(queue'), NEW j \in 1 .. Len(queue'),
                        queue'[i] = queue'[j]
                 PROVE  i = j
      OBVIOUS
    <3>1. i + 1 \in 1 .. Len(queue) /\ j + 1 \in 1 .. Len(queue)
      BY <1>0, <2>1
    <3>2. queue[i + 1] = queue[j + 1]
      BY <2>1
    <3>3. i + 1 = j + 1
      BY <1>0, <3>1, <3>2 DEF OnePlace
    <3> QED BY <3>3
  <2>3. \A t \in Task : /\ \A v \in Worker : Carries(v, t)' => ~Queued(t)' /\ runs'[t] = 0
                        /\ \A u, v \in Worker : Carries(u, t)' /\ Carries(v, t)' => u = v
                        /\ runs'[t] # 0 => runs'[t] = 1 /\ ~Queued(t)'
    BY <1>0, <2>1 DEF OnePlace
  <2> QED BY <2>2, <2>3 DEF OnePlace
<1>4. ASSUME NEW w \in Worker, workerRun(w) PROVE OnePlace'
  <2>1. /\ task[w] \in Task /\ Carries(w, task[w]) /\ runs'[task[w]] = runs[task[w]] + 1
        /\ queue' = queue
        /\ \A t \in Task : t # task[w] => runs'[t] = runs[t]
        /\ \A v \in Worker, t \in Task :
              Carries(v, t)' <=> Carries(v, t) /\ (v # w \/ t # task[w])
    BY <1>4, RunEffect
  <2>2. \A t \in Task : Queued(t)' <=> Queued(t)
    BY <2>1 DEF Queued
  <2> QED BY <1>0, <2>1, <2>2 DEF OnePlace
<1> QED BY <1>1, <1>2, <1>3, <1>4

\* A worker ends only when nothing is left to run, and nothing comes later.
LEMMA DrainedStep == PoolInv /\ [Next]_vars => Drained'
<1> SUFFICES ASSUME PoolInv, [Next]_vars PROVE Drained'
  OBVIOUS
<1> USE DEF history, pool
<1>0. /\ call \in [Worker \cup Client -> tasks!Call]
      /\ wpc \in [Worker -> {"loop", "pop", "run", "exited"}]
      /\ \A k \in Client, w \in Worker : k # w
      /\ Drained
  BY PoolAssumption DEF PoolInv, TypeOK
<1>1. ASSUME queue' = queue, closed => closed', stopped' = stopped, wpc' = wpc,
             \A w \in Worker : call'[w] = call[w]
      PROVE  Drained'
  BY <1>0, <1>1 DEF Drained
<1>2. ASSUME NEW k \in Client, NEW t \in Task, submit(k, t) PROVE Drained'
  BY <1>1, <1>2 DEF submit
<1>3. ASSUME NEW k \in Client, submitPush(k) \/ shutdownClose(k) PROVE Drained'
  BY <1>0, <1>1, <1>3 DEF submitPush, shutdownClose, tasks!Invoke
<1>4. ASSUME NEW k \in Client, submitReturn(k) \/ shutdownClosed(k) PROVE Drained'
  BY <1>0, <1>1, <1>4 DEF submitReturn, shutdownClosed, tasks!Return
<1>5. ASSUME NEW k \in Client, shutdown(k) PROVE Drained'
  BY <1>1, <1>5 DEF shutdown
<1>6. ASSUME NEW k \in Client, shutdownJoin(k) PROVE Drained'
  BY <1>0, <1>6 DEF shutdownJoin, Drained
<1>7. ASSUME NEW k \in Client, Refuses(k) \/ Closes(k) PROVE Drained'
  BY <1>0, <1>1, <1>7 DEF Refuses, Closes
<1>8. ASSUME NEW k \in Client, Puts(k) PROVE Drained'
  <2>1. \A w \in Worker : call'[w] = call[w]
    BY <1>0, <1>8 DEF Puts
  <2> QED BY <1>0, <1>8, <2>1 DEF Puts, Drained
<1>9. ASSUME NEW w \in Worker, workerPop(w) PROVE Drained'
  <2>1. /\ \A v \in Worker \ {w} : call'[v] = call[v] /\ wpc'[v] = wpc[v]
        /\ call'[w].res = "pending" /\ wpc'[w] = "pop" /\ wpc[w] = "loop"
    BY <1>0, <1>9 DEF workerPop, tasks!Invoke
  <2> QED BY <1>0, <1>9, <2>1 DEF workerPop, tasks!Invoke, Drained
<1>10. ASSUME NEW w \in Worker, workerPopped(w) PROVE Drained'
  <2>1. /\ \A v \in Worker \ {w} : call'[v] = call[v] /\ wpc'[v] = wpc[v]
        /\ wpc[w] = "pop" /\ wpc'[w] = IF call[w].res = "ok" THEN "run" ELSE "exited"
        /\ call[w].res \in {"ok", "fail"}
    BY <1>0, <1>10, CallFields DEF workerPopped, tasks!Return
  <2> QED BY <1>0, <1>10, <2>1 DEF workerPopped, tasks!Return, Drained
<1>11. ASSUME NEW w \in Worker, workerRun(w) PROVE Drained'
  <2>1. /\ \A v \in Worker \ {w} : wpc'[v] = wpc[v]
        /\ wpc'[w] = "loop" /\ wpc[w] = "run"
    BY <1>0, <1>11 DEF workerRun
  <2> QED BY <1>0, <1>11, <2>1 DEF workerRun, Drained
<1>12. ASSUME NEW w \in Worker, Takes(w) PROVE Drained'
  <2>1. \A v \in Worker \ {w} : call'[v] = call[v]
    BY <1>0, <1>12 DEF Takes
  <2>2. call'[w].res = "ok"
    BY <1>0, <1>12 DEF Takes
  <2> QED BY <1>0, <1>12, <2>1, <2>2 DEF Takes, Drained
<1>13. ASSUME NEW w \in Worker, Misses(w) PROVE Drained'
  <2>1. \A v \in Worker \ {w} : call'[v] = call[v]
    BY <1>0, <1>13 DEF Misses
  <2> QED BY <1>0, <1>13, <2>1 DEF Misses, Drained
<1>14. CASE UNCHANGED vars
  BY <1>1, <1>14 DEF vars
<1> QED
  BY NextCases, <1>2, <1>3, <1>4, <1>5, <1>6, <1>7, <1>8, <1>9, <1>10, <1>11, <1>12,
     <1>13, <1>14

\* A task enters the pool by a push and in no other way, and never leaves it.
LEMMA EnteredStep ==
  ASSUME PoolInv, [Next]_vars, ~\E k \in Client : Puts(k)
  PROVE  \A t \in Task : Entered(t)' <=> Entered(t)
<1>0. runs \in [Task -> Nat] /\ OnePlace
  BY DEF PoolInv, TypeOK
<1>1. CASE ~(\E w \in Worker : Takes(w)) /\ ~(\E w \in Worker : workerRun(w))
  <2>1. /\ queue' = queue /\ runs' = runs
        /\ \A w \in Worker, t \in Task : Carries(w, t)' <=> Carries(w, t)
    BY <1>1, TasksStay
  <2>2. \A t \in Task : Queued(t)' <=> Queued(t)
    BY <2>1 DEF Queued
  <2> QED BY <2>1, <2>2 DEF Entered
<1>2. ASSUME NEW w \in Worker, Takes(w) PROVE \A t \in Task : Entered(t)' <=> Entered(t)
  <2>1. /\ \A t \in Task : t = Head(queue) => Queued(t) /\ ~Queued(t)'
        /\ \A t \in Task : t # Head(queue) => (Queued(t)' <=> Queued(t))
        /\ \A v \in Worker, t \in Task :
              Carries(v, t)' <=> Carries(v, t) \/ (v = w /\ t = Head(queue))
        /\ runs' = runs
    BY <1>2, TakesEffect DEF Takes, history
  <2> QED BY <2>1 DEF Entered
<1>3. ASSUME NEW w \in Worker, workerRun(w) PROVE \A t \in Task : Entered(t)' <=> Entered(t)
  <2>1. /\ task[w] \in Task /\ Carries(w, task[w]) /\ runs'[task[w]] = runs[task[w]] + 1
        /\ queue' = queue
        /\ \A t \in Task : t # task[w] => runs'[t] = runs[t]
        /\ \A v \in Worker, t \in Task :
              Carries(v, t)' <=> Carries(v, t) /\ (v # w \/ t # task[w])
    BY <1>3, RunEffect
  <2>2. \A t \in Task : Queued(t)' <=> Queued(t)
    BY <2>1 DEF Queued
  <2> QED BY <1>0, <2>1, <2>2 DEF Entered
<1> QED BY <1>1, <1>2, <1>3

\* Who submits, who was accepted and who was refused, against what entered.
LEMMA LedgerStep == PoolInv /\ [Next]_vars => Ledger'
<1> SUFFICES ASSUME PoolInv, [Next]_vars PROVE Ledger'
  OBVIOUS
<1> USE DEF history, pool
<1>0. /\ call \in [Worker \cup Client -> tasks!Call]
      /\ cpc \in [Client -> {"idle", "submit", "push", "shutdown", "close", "join"}]
      /\ mine \in [Client -> Task \cup {None}] /\ None \notin Task
      /\ accepted \subseteq Task /\ refused \subseteq Task
      /\ \A k \in Client, w \in Worker : k # w
      /\ Ledger /\ Places
  BY PoolAssumption DEF PoolInv, TypeOK
<1>1. ASSUME mine' = mine, accepted' = accepted, refused' = refused,
             ~\E k \in Client : Puts(k),
             \A m \in Client, t \in Task : Entering(m, t)' <=> Entering(m, t)
      PROVE  Ledger'
  <2>1. \A t \in Task : Entered(t)' <=> Entered(t)
    BY <1>1, EnteredStep
  <2> QED BY <1>0, <1>1, <2>1 DEF Ledger
<1>2. ASSUME NEW k \in Client, NEW t \in Task, submit(k, t) PROVE Ledger'
  <2>1. /\ ~\E m \in Client : Puts(m)
        /\ t \notin accepted \cup refused /\ \A m \in Client : mine[m] # t
        /\ cpc[k] = "idle"
    BY <1>2 DEF submit, Puts, Fresh
  <2>2. \A u \in Task : Entered(u)' <=> Entered(u)
    BY <2>1, EnteredStep
  <2>3. \A m \in Client, u \in Task : Entering(m, u)' <=> Entering(m, u)
    BY <1>0, <1>2, <2>1 DEF submit, Entering
  <2>4. CASE closed
    BY <1>0, <1>2, <2>1, <2>2, <2>3, <2>4 DEF submit, Ledger
  <2>5. CASE ~closed
    <3>1. /\ mine'[k] = t /\ \A m \in Client \ {k} : mine'[m] = mine[m]
          /\ accepted' = accepted /\ refused' = refused
      BY <1>0, <1>2, <2>5 DEF submit
    <3> QED BY <1>0, <2>1, <2>2, <2>3, <3>1 DEF Ledger
  <2> QED BY <2>4, <2>5
<1>3. ASSUME NEW k \in Client, submitPush(k) PROVE Ledger'
  <2>1. /\ ~\E m \in Client : Puts(m)
        /\ mine' = mine /\ accepted' = accepted /\ refused' = refused
    BY <1>0, <1>3 DEF submitPush, tasks!Invoke, Puts
  <2>2. /\ call'[k].res = "pending" /\ cpc[k] = "submit"
        /\ \A m \in Client \ {k} : call'[m] = call[m] /\ cpc'[m] = cpc[m]
    BY <1>0, <1>3 DEF submitPush, tasks!Invoke
  <2>3. \A m \in Client, t \in Task : Entering(m, t)' <=> Entering(m, t)
    BY <2>1, <2>2 DEF Entering
  <2> QED BY <1>1, <2>1, <2>3
<1>4. ASSUME NEW k \in Client, submitReturn(k) PROVE Ledger'
  <2>1. /\ mine[k] \in Task /\ mine[k] \notin accepted \cup refused
        /\ cpc[k] = "push" /\ cpc'[k] = "idle" /\ mine'[k] = None
        /\ \A m \in Client \ {k} :
             /\ call'[m] = call[m] /\ cpc'[m] = cpc[m] /\ mine'[m] = mine[m]
             /\ mine[m] # mine[k]
    BY <1>0, <1>4 DEF submitReturn, tasks!Return, Places, Ledger
  <2>2. ~\E m \in Client : Puts(m)
    BY <1>0, <1>4, <2>1 DEF Puts, submitReturn
  <2>3. \A t \in Task : Entered(t)' <=> Entered(t)
    BY <2>2, EnteredStep
  <2>4. /\ \A m \in Client \ {k}, t \in Task : Entering(m, t)' <=> Entering(m, t)
        /\ \A t \in Task : ~Entering(k, t)'
        /\ \A t \in Task : Entering(k, t) <=> t = mine[k] /\ call[k].res = "ok"
    BY <2>1 DEF Entering
  <2>5. CASE call[k].res = "ok" /\ accepted' = accepted \cup {mine[k]} /\ refused' = refused
    <3>1. \A t \in Task : Entered(t)' <=> t \in accepted' \/ \E m \in Client : Entering(m, t)'
      BY <1>0, <2>3, <2>4, <2>5 DEF Ledger
    <3>2. /\ accepted' \cap refused' = {}
          /\ \A m \in Client : mine'[m] \notin accepted' \cup refused'
          /\ \A m, n \in Client : mine'[m] = mine'[n] /\ mine'[m] # None => m = n
      BY <1>0, <2>1, <2>5 DEF Ledger
    <3> QED BY <3>1, <3>2 DEF Ledger
  <2>6. CASE call[k].res = "fail" /\ accepted' = accepted /\ refused' = refused \cup {mine[k]}
    <3>1. \A t \in Task : Entered(t)' <=> t \in accepted' \/ \E m \in Client : Entering(m, t)'
      BY <1>0, <2>3, <2>4, <2>6 DEF Ledger
    <3>2. /\ accepted' \cap refused' = {}
          /\ \A m \in Client : mine'[m] \notin accepted' \cup refused'
          /\ \A m, n \in Client : mine'[m] = mine'[n] /\ mine'[m] # None => m = n
      BY <1>0, <2>1, <2>6 DEF Ledger
    <3> QED BY <3>1, <3>2 DEF Ledger
  <2> QED BY <1>4, <2>5, <2>6 DEF submitReturn
<1>5. ASSUME NEW k \in Client, shutdown(k) \/ shutdownJoin(k) PROVE Ledger'
  <2>1. /\ ~\E m \in Client : Puts(m)
        /\ mine' = mine /\ accepted' = accepted /\ refused' = refused
    BY <1>0, <1>5 DEF shutdown, shutdownJoin, Puts
  <2>2. \A m \in Client, t \in Task : Entering(m, t)' <=> Entering(m, t)
    BY <1>0, <1>5 DEF shutdown, shutdownJoin, Entering
  <2> QED BY <1>1, <2>1, <2>2
<1>6. ASSUME NEW k \in Client, shutdownClose(k) \/ shutdownClosed(k) PROVE Ledger'
  <2>1. /\ ~\E m \in Client : Puts(m)
        /\ mine' = mine /\ accepted' = accepted /\ refused' = refused
        /\ cpc[k] # "push" /\ cpc'[k] # "push"
        /\ \A m \in Client \ {k} : call'[m] = call[m] /\ cpc'[m] = cpc[m]
    BY <1>0, <1>6 DEF shutdownClose, shutdownClosed, tasks!Invoke, tasks!Return, Puts
  <2>2. \A m \in Client, t \in Task : Entering(m, t)' <=> Entering(m, t)
    BY <2>1 DEF Entering
  <2> QED BY <1>1, <2>1, <2>2
<1>7. ASSUME NEW k \in Client, Refuses(k) PROVE Ledger'
  <2>1. /\ ~\E m \in Client : Puts(m)
        /\ mine' = mine /\ accepted' = accepted /\ refused' = refused /\ cpc' = cpc
        /\ call[k].res = "pending" /\ call'[k].res = "fail"
        /\ \A m \in Client \ {k} : call'[m] = call[m]
    BY <1>0, <1>7 DEF Refuses, Puts
  <2>2. \A m \in Client, t \in Task : Entering(m, t)' <=> Entering(m, t)
    BY <2>1 DEF Entering
  <2> QED BY <1>1, <2>1, <2>2
<1>8. ASSUME NEW k \in Client, Closes(k) PROVE Ledger'
  <2>1. ~\E m \in Client : Puts(m)
    <3>1. call'[k].op = "close"
      BY <1>0, <1>8 DEF Closes
    <3>2. ASSUME NEW m \in Client, Puts(m) PROVE FALSE
      <4>1. call'[m].op = "push" /\ cpc[m] = "push"
        BY <1>0, <3>2 DEF Puts
      <4>2. m # k
        BY <1>8, <4>1 DEF Closes
      <4>3. call'[m] = call[m] /\ call'[m].res = "ok" /\ call[m].res = "pending"
        BY <1>0, <1>8, <3>2, <4>2 DEF Puts, Closes
      <4> QED BY <4>3
    <3> QED BY <3>2
  <2>2. /\ mine' = mine /\ accepted' = accepted /\ refused' = refused /\ cpc' = cpc
        /\ cpc[k] = "close" /\ \A m \in Client \ {k} : call'[m] = call[m]
    BY <1>0, <1>8 DEF Closes
  <2>3. \A m \in Client, t \in Task : Entering(m, t)' <=> Entering(m, t)
    BY <2>2 DEF Entering
  <2> QED BY <1>1, <2>1, <2>2, <2>3
<1>9. ASSUME NEW k \in Client, Puts(k) PROVE Ledger'
  <2>1. /\ mine[k] \in Task /\ ~Entered(mine[k])
        /\ \A t \in Task : Queued(t)' <=> Queued(t) \/ t = mine[k]
        /\ \A w \in Worker, t \in Task : Carries(w, t)' <=> Carries(w, t)
    BY <1>9, PutsEffect
  <2>2. /\ mine' = mine /\ accepted' = accepted /\ refused' = refused /\ cpc' = cpc
        /\ runs' = runs /\ cpc[k] = "push" /\ call[k].res = "pending" /\ call'[k].res = "ok"
        /\ \A m \in Client \ {k} : call'[m] = call[m]
    BY <1>0, <1>9 DEF Puts
  <2>3. \A t \in Task : Entered(t)' <=> Entered(t) \/ t = mine[k]
    BY <2>1, <2>2 DEF Entered
  <2>4. \A m \in Client, t \in Task :
          Entering(m, t)' <=> Entering(m, t) \/ (m = k /\ t = mine[k])
    BY <2>2 DEF Entering
  <2> QED BY <1>0, <2>1, <2>2, <2>3, <2>4 DEF Ledger
<1>10. ASSUME NEW w \in Worker, workerPop(w) \/ workerPopped(w) \/ workerRun(w) PROVE Ledger'
  <2>1. /\ mine' = mine /\ accepted' = accepted /\ refused' = refused /\ cpc' = cpc
        /\ \A m \in Client : call'[m] = call[m]
    BY <1>0, <1>10 DEF workerPop, workerPopped, workerRun, tasks!Invoke, tasks!Return
  <2>2. ~\E m \in Client : Puts(m)
    BY <1>0, <2>1 DEF Puts
  <2>3. \A m \in Client, t \in Task : Entering(m, t)' <=> Entering(m, t)
    BY <2>1 DEF Entering
  <2> QED BY <1>1, <2>1, <2>2, <2>3
<1>11. ASSUME NEW w \in Worker, Takes(w) \/ Misses(w) PROVE Ledger'
  <2>1. /\ mine' = mine /\ accepted' = accepted /\ refused' = refused /\ cpc' = cpc
        /\ \A m \in Client : call'[m] = call[m]
    BY <1>0, <1>11 DEF Takes, Misses
  <2>2. ~\E m \in Client : Puts(m)
    BY <1>0, <2>1 DEF Puts
  <2>3. \A m \in Client, t \in Task : Entering(m, t)' <=> Entering(m, t)
    BY <2>1 DEF Entering
  <2> QED BY <1>1, <2>1, <2>2, <2>3
<1>12. CASE UNCHANGED vars
  <2>1. /\ mine' = mine /\ accepted' = accepted /\ refused' = refused /\ cpc' = cpc
        /\ call' = call
    BY <1>12 DEF vars
  <2>2. ~\E m \in Client : Puts(m)
    BY <1>0, <2>1 DEF Puts
  <2>3. \A m \in Client, t \in Task : Entering(m, t)' <=> Entering(m, t)
    BY <2>1 DEF Entering
  <2> QED BY <1>1, <2>1, <2>2, <2>3
<1> QED
  BY NextCases, <1>2, <1>3, <1>4, <1>5, <1>6, <1>7, <1>8, <1>9, <1>10, <1>11, <1>12

-----------------------------------------------------------------------------

\* The initial state: an empty queue, every worker at the top of its loop.
LEMMA PoolInit == Init => PoolInv
<1> SUFFICES ASSUME Init PROVE PoolInv
  OBVIOUS
<1>0. /\ queue = <<>> /\ Len(queue) = 0 /\ closed = FALSE
      /\ call = [c \in Worker \cup Client |-> tasks!NoCall]
  BY DEF Init, tasks!Init
<1>1. TypeOK
  <2>1. queue \in Seq(Task) /\ call \in [Worker \cup Client -> tasks!Call]
    BY <1>0, CallMade
  <2>2. closed \in BOOLEAN /\ shutdownDone \in BOOLEAN /\ stopped \in BOOLEAN
    BY <1>0 DEF Init
  <2>3. /\ wpc \in [Worker -> {"loop", "pop", "run", "exited"}]
        /\ task \in [Worker -> Task \cup {None}]
        /\ cpc \in [Client -> {"idle", "submit", "push", "shutdown", "close", "join"}]
        /\ mine \in [Client -> Task \cup {None}]
        /\ \A w \in Worker : wpc[w] = "run" <=> task[w] # None
        /\ runs \in [Task -> Nat] /\ accepted \subseteq Task /\ refused \subseteq Task
    BY DEF Init
  <2> QED BY <2>1, <2>2, <2>3 DEF TypeOK
<1>2. Places
  BY <1>0 DEF Init, Places
<1>3. \A t \in Task : runs[t] = 0 /\ ~Queued(t) /\ \A w \in Worker : ~Carries(w, t)
  BY <1>0, PoolAssumption DEF Init, Queued, Carries
<1>4. OnePlace
  BY <1>0, <1>3 DEF OnePlace
<1>5. Ledger
  BY <1>3 DEF Init, Ledger, Entered, Entering
<1>6. Drained
  BY DEF Init, Drained
<1> QED BY <1>1, <1>2, <1>4, <1>5, <1>6 DEF PoolInv

\* Each task of ThreadPool is in one place, entered exactly if its submit was or
\* will be answered with a future, and workers end only on a drained queue.
THEOREM PoolInvariant == Spec => []PoolInv
<1>1. PoolInv /\ [Next]_vars => PoolInv'
  BY TypeStep, OnePlaceStep, LedgerStep, DrainedStep DEF PoolInv
<1> QED BY <1>1, PoolInit, PTL DEF Spec

\* Every value of ThreadPool has its type, and a worker runs exactly when it has
\* a task.
THEOREM PoolTypeCorrect == Spec => []TypeOK
<1>1. PoolInv => TypeOK
  BY DEF PoolInv
<1> QED BY <1>1, PoolInvariant, PTL

\* submit racing shutdown, for any number of clients, workers and tasks: no task
\* runs twice, none whose submit threw runs, and after shutdown every accepted
\* task has run and every worker has ended.
THEOREM ShutdownDrainsQueue == Spec => []ShutdownDrains
<1>1. PoolInv => ShutdownDrains
  <2> SUFFICES ASSUME PoolInv PROVE ShutdownDrains
    OBVIOUS
  <2>1. \A t \in Task : runs[t] <= 1
    <3>1. \A t \in Task : runs[t] = 0 \/ runs[t] = 1
      BY DEF PoolInv, OnePlace
    <3> QED BY <3>1
  <2>2. \A t \in refused : runs[t] = 0
    BY DEF PoolInv, TypeOK, Ledger, Entered, Entering
  <2>3. ASSUME stopped
        PROVE  (\A t \in accepted : runs[t] = 1) /\ \A w \in Worker : wpc[w] = "exited"
    <3>1. \A w \in Worker : wpc[w] = "exited" /\ task[w] = None
      BY <2>3 DEF PoolInv, Drained, TypeOK
    <3>2. queue = <<>>
      BY <3>1, PoolAssumption DEF PoolInv, Drained
    <3>3. \A t \in Task : ~Queued(t) /\ \A w \in Worker : ~Carries(w, t)
      BY <3>1, <3>2, PoolAssumption DEF Queued, Carries
    <3>4. \A t \in accepted : t \in Task /\ Entered(t)
      BY DEF PoolInv, Ledger, TypeOK
    <3> QED BY <3>1, <3>3, <3>4 DEF Entered, PoolInv, OnePlace
  <2> QED BY <2>1, <2>2, <2>3 DEF ShutdownDrains
<1> QED BY <1>1, PoolInvariant, PTL
=============================================================================
