----------------------------- MODULE ThreadPool -----------------------------
(***************************************************************************)
(* ThreadPool<N>: N workers that pop callables from tasks_, an unbounded   *)
(* BlockingQueue, until it is closed and empty.  tasks_ is what            *)
(* BlockingQueue is shown to implement, module BoundedFifo: its calls are  *)
(* made by Invoke and end with Return, and take effect in between.         *)
(*                                                                         *)
(* Clients submit tasks and shut the pool down, also at the same time.  A  *)
(* task is one callable; it ends, and an exception stays in its future.    *)
(***************************************************************************)
EXTENDS Naturals, Sequences

CONSTANTS Worker, Client, Task, None

\* static_assert(N >= 1)
ASSUME PoolAssumption ==
  /\ Worker # {} /\ Worker \cap Client = {}
  /\ None \notin Task

VARIABLES
  queue, closed, call,  \* tasks_
  wpc, task,            \* each worker: where it is, the task it popped
  cpc, mine,            \* each client: where it is, the task it submits
  shutdownDone,         \* shutdown_done_
  runs,                 \* how often each task has been run
  accepted, refused,    \* tasks whose submit() returned a future, or threw
  stopped               \* a shutdown() that joined the workers has returned

pool     == <<queue, closed, call>>
history  == <<runs, accepted, refused, stopped>>
vars     == <<pool, wpc, task, cpc, mine, shutdownDone, history>>

tasks == INSTANCE BoundedFifo WITH Caller <- Worker \cup Client, Item <- Task, Capacity <- 0

Init ==
  /\ tasks!Init
  /\ wpc = [w \in Worker |-> "loop"] /\ task = [w \in Worker |-> None]
  /\ cpc = [k \in Client |-> "idle"] /\ mine = [k \in Client |-> None]
  /\ shutdownDone = FALSE
  /\ runs = [t \in Task |-> 0]
  /\ accepted = {} /\ refused = {} /\ stopped = FALSE

-----------------------------------------------------------------------------
(* submit                                                                  *)

\* A callable that was not submitted before.
Fresh(t) == t \notin accepted \cup refused /\ \A k \in Client : mine[k] # t

\* is_closed() takes and releases the queue's lock: the answer may be stale.
submit(k, t) ==
  /\ cpc[k] = "idle" /\ Fresh(t)
  /\ \/ /\ closed
        /\ refused' = refused \cup {t}
        /\ UNCHANGED <<cpc, mine>>
     \/ /\ ~closed
        /\ cpc' = [cpc EXCEPT ![k] = "submit"]
        /\ mine' = [mine EXCEPT ![k] = t]
        /\ UNCHANGED refused
  /\ UNCHANGED <<pool, wpc, task, shutdownDone, runs, accepted, stopped>>

submitPush(k) ==
  /\ cpc[k] = "submit"
  /\ tasks!Invoke(k, "push", mine[k])
  /\ cpc' = [cpc EXCEPT ![k] = "push"]
  /\ UNCHANGED <<wpc, task, mine, shutdownDone, history>>

\* push has thrown, or submit returns the future.
submitReturn(k) ==
  /\ cpc[k] = "push"
  /\ tasks!Return(k)
  /\ \/ /\ call[k].res = "ok"
        /\ accepted' = accepted \cup {mine[k]}
        /\ UNCHANGED refused
     \/ /\ call[k].res = "fail"
        /\ refused' = refused \cup {mine[k]}
        /\ UNCHANGED accepted
  /\ cpc' = [cpc EXCEPT ![k] = "idle"]
  /\ mine' = [mine EXCEPT ![k] = None]
  /\ UNCHANGED <<wpc, task, shutdownDone, runs, stopped>>

-----------------------------------------------------------------------------
(* shutdown                                                                *)

\* A second caller returns at once, whether or not the first is done.
shutdown(k) ==
  /\ cpc[k] = "idle" /\ ~shutdownDone
  /\ shutdownDone' = TRUE
  /\ cpc' = [cpc EXCEPT ![k] = "shutdown"]
  /\ UNCHANGED <<pool, wpc, task, mine, history>>

shutdownClose(k) ==
  /\ cpc[k] = "shutdown"
  /\ tasks!Invoke(k, "close", None)
  /\ cpc' = [cpc EXCEPT ![k] = "close"]
  /\ UNCHANGED <<wpc, task, mine, shutdownDone, history>>

shutdownClosed(k) ==
  /\ cpc[k] = "close"
  /\ tasks!Return(k)
  /\ cpc' = [cpc EXCEPT ![k] = "join"]
  /\ UNCHANGED <<wpc, task, mine, shutdownDone, history>>

\* Mutant: the threads are detached, not joined.
shutdownDetach(k) ==
  /\ cpc[k] = "join"
  /\ stopped' = TRUE
  /\ cpc' = [cpc EXCEPT ![k] = "idle"]
  /\ UNCHANGED <<pool, wpc, task, mine, shutdownDone, runs, accepted, refused>>

shutdownJoin(k) ==
  /\ cpc[k] = "join"
  /\ \A w \in Worker : wpc[w] = "exited"
  /\ stopped' = TRUE
  /\ cpc' = [cpc EXCEPT ![k] = "idle"]
  /\ UNCHANGED <<pool, wpc, task, mine, shutdownDone, runs, accepted, refused>>

-----------------------------------------------------------------------------
(* workerLoop                                                              *)

workerPop(w) ==
  /\ wpc[w] = "loop"
  /\ tasks!Invoke(w, "pop", None)
  /\ wpc' = [wpc EXCEPT ![w] = "pop"]
  /\ UNCHANGED <<task, cpc, mine, shutdownDone, history>>

\* Mutant: the loop ends as soon as the queue is closed.
workerQuitsEarly(w) ==
  /\ wpc[w] = "pop"
  /\ tasks!Return(w)
  /\ task' = [task EXCEPT ![w] = call[w].val]
  /\ wpc' = [wpc EXCEPT ![w] = IF call[w].res = "ok" /\ ~closed THEN "run" ELSE "exited"]
  /\ UNCHANGED <<cpc, mine, shutdownDone, history>>

\* Mutant: an empty result is skipped, not the end of the loop.
workerContinues(w) ==
  /\ wpc[w] = "pop"
  /\ tasks!Return(w)
  /\ task' = [task EXCEPT ![w] = call[w].val]
  /\ wpc' = [wpc EXCEPT ![w] = IF call[w].res = "ok" THEN "run" ELSE "loop"]
  /\ UNCHANGED <<cpc, mine, shutdownDone, history>>

\* Mutant: the result of pop is used without asking whether there is one.
workerRunsNothing(w) ==
  /\ wpc[w] = "pop"
  /\ tasks!Return(w)
  /\ task' = [task EXCEPT ![w] = call[w].val]
  /\ wpc' = [wpc EXCEPT ![w] = "run"]
  /\ UNCHANGED <<cpc, mine, shutdownDone, history>>

workerPopped(w) ==
  /\ wpc[w] = "pop"
  /\ tasks!Return(w)
  /\ task' = [task EXCEPT ![w] = call[w].val]
  /\ wpc' = [wpc EXCEPT ![w] = IF call[w].res = "ok" THEN "run" ELSE "exited"]
  /\ UNCHANGED <<cpc, mine, shutdownDone, history>>

workerRun(w) ==
  /\ wpc[w] = "run"
  /\ runs' = [runs EXCEPT ![task[w]] = @ + 1]
  /\ task' = [task EXCEPT ![w] = None]
  /\ wpc' = [wpc EXCEPT ![w] = "loop"]
  /\ UNCHANGED <<pool, cpc, mine, shutdownDone, accepted, refused, stopped>>

-----------------------------------------------------------------------------

\* A call of tasks_ that has begun takes effect.
QueueStep(c) ==
  /\ tasks!TakeEffect(c)
  /\ UNCHANGED <<wpc, task, cpc, mine, shutdownDone, history>>

WorkerStep(w) == workerPop(w) \/ workerPopped(w) \/ workerRun(w) \/ QueueStep(w)

\* What a client does once it is in submit or shutdown.
ClientStep(k) ==
  \/ submitPush(k) \/ submitReturn(k)
  \/ shutdownClose(k) \/ shutdownClosed(k) \/ shutdownJoin(k)
  \/ QueueStep(k)

\* Everything was submitted, the pool is down and nobody is in it.
Quiet ==
  /\ stopped /\ accepted \cup refused = Task /\ \A k \in Client : cpc[k] = "idle"
  /\ UNCHANGED vars

Next ==
  \/ \E w \in Worker : WorkerStep(w)
  \/ \E k \in Client : ClientStep(k) \/ shutdown(k) \/ \E t \in Task : submit(k, t)
  \/ Quiet

\* Tasks end, threads are scheduled, and tasks_ answers whenever it can, which is
\* what its specification promises.
Spec ==
  /\ Init /\ [][Next]_vars
  /\ \A w \in Worker : WF_vars(WorkerStep(w))
  /\ \A k \in Client : WF_vars(ClientStep(k))

-----------------------------------------------------------------------------

\* Values of the right kind, and a worker runs exactly when it has a task.
TypeOK ==
  /\ queue \in Seq(Task) /\ closed \in BOOLEAN
  /\ call \in [Worker \cup Client -> tasks!Call]
  /\ wpc \in [Worker -> {"loop", "pop", "run", "exited"}]
  /\ task \in [Worker -> Task \cup {None}]
  /\ cpc \in [Client -> {"idle", "submit", "push", "shutdown", "close", "join"}]
  /\ mine \in [Client -> Task \cup {None}]
  /\ \A w \in Worker : wpc[w] = "run" <=> task[w] # None
  /\ shutdownDone \in BOOLEAN /\ stopped \in BOOLEAN
  /\ runs \in [Task -> Nat] /\ accepted \subseteq Task /\ refused \subseteq Task

\* submit racing shutdown: no task runs twice, one whose submit threw never runs,
\* and when the shutdown that closed the queue returns, every accepted task has
\* run and no worker is left.
ShutdownDrains ==
  /\ \A t \in Task : runs[t] <= 1
  /\ \A t \in refused : runs[t] = 0
  /\ stopped => /\ \A t \in accepted : runs[t] = 1
                /\ \A w \in Worker : wpc[w] = "exited"

\* A future that submit returned becomes ready, whatever shutdown does meanwhile.
EveryTaskRuns == \A t \in Task : t \in accepted ~> runs[t] = 1

\* shutdown comes back: each worker blocked in pop is woken and finds the end.
ShutdownReturns == \A k \in Client : cpc[k] = "shutdown" ~> stopped
=============================================================================
