---------------------------- MODULE BlockingQueue ----------------------------
(***************************************************************************)
(* BlockingQueue<T, Capacity>: a deque behind one mutex, with the          *)
(* condition variables not_empty_ and not_full_.                           *)
(*                                                                         *)
(* One action is one critical section of mutex_, or one notification made  *)
(* after the mutex was released.  Waiting releases the mutex and enters    *)
(* the condition variable in the same step; a woken thread takes the mutex *)
(* again later and tests its condition anew, and in between other threads  *)
(* may take what it was woken for.  A timed wait may expire at any moment  *)
(* and any wait may end for no reason.                                     *)
(***************************************************************************)
EXTENDS Naturals, Sequences, FiniteSets

CONSTANTS
  Caller, Item, Capacity, None,
  MayCall     \* the operations each caller uses

VARIABLES
  queue,      \* queue_
  closed,     \* closed_
  call,       \* the call each thread is in: operation, argument or result
  pc,         \* where it is in that call
  notEmpty,   \* threads waiting on not_empty_
  notFull     \* threads waiting on not_full_

vars == <<queue, closed, call, pc, notEmpty, notFull>>

Fifo == INSTANCE BoundedFifo WITH queue <- queue, closed <- closed, call <- call

ASSUME QueueAssumption ==
  /\ Capacity \in Nat
  /\ None \notin Item
  /\ IsFiniteSet(Caller)
  /\ MayCall \in [Caller -> SUBSET Fifo!Op]

PC == {"idle", "lock", "wait", "expired", "notify", "allEmpty", "allFull", "return"}
Timed == {"push_for", "pop_for"}
Waits == {"push", "pop"} \cup Timed

is_full == Capacity # 0 /\ Len(queue) >= Capacity

\* About to take mutex_: at the start of the call, or after a wait.
Runs(t, ops) == pc[t] \in {"lock", "expired"} /\ call[t].op \in ops

\* A timed wait that has expired is not taken up again.
CanWait(t) == call[t].op \in Waits /\ pc[t] = "lock"

Init ==
  /\ queue = <<>> /\ closed = FALSE
  /\ call = [t \in Caller |-> Fifo!NoCall]
  /\ pc = [t \in Caller |-> "idle"]
  /\ notEmpty = {} /\ notFull = {}

Begin(t, op, v) ==
  /\ pc[t] = "idle" /\ op \in MayCall[t]
  /\ call' = [call EXCEPT ![t] = [op |-> op, val |-> v, res |-> "pending"]]
  /\ pc' = [pc EXCEPT ![t] = "lock"]
  /\ UNCHANGED <<queue, closed, notEmpty, notFull>>

Answer(t, v, r) == call' = [call EXCEPT ![t] = [op |-> call[t].op, val |-> v, res |-> r]]

-----------------------------------------------------------------------------
(* push, push_for, try_push                                                *)

\* Mutant: closed_ is not tested again after the wait.
enqueueUnchecked(t) ==
  /\ Runs(t, Fifo!Pushes) /\ ~is_full
  /\ queue' = Append(queue, call[t].val)
  /\ Answer(t, call[t].val, "ok")
  /\ pc' = [pc EXCEPT ![t] = "notify"]
  /\ UNCHANGED <<closed, notEmpty, notFull>>

enqueue(t) ==
  /\ Runs(t, Fifo!Pushes) /\ ~closed /\ ~is_full
  /\ queue' = Append(queue, call[t].val)
  /\ Answer(t, call[t].val, "ok")
  /\ pc' = [pc EXCEPT ![t] = "notify"]
  /\ UNCHANGED <<closed, notEmpty, notFull>>

\* push throws, the others return false.
pushFails(t) ==
  /\ Runs(t, Fifo!Pushes)
  /\ closed \/ (is_full /\ ~CanWait(t))
  /\ Answer(t, call[t].val, "fail")
  /\ pc' = [pc EXCEPT ![t] = "return"]
  /\ UNCHANGED <<queue, closed, notEmpty, notFull>>

\* Mutant: push waits on the other condition variable.
pushWaitsNotEmpty(t) ==
  /\ Runs(t, Fifo!Pushes) /\ CanWait(t)
  /\ ~closed /\ is_full
  /\ notEmpty' = notEmpty \cup {t}
  /\ pc' = [pc EXCEPT ![t] = "wait"]
  /\ UNCHANGED <<queue, closed, call, notFull>>

pushWaits(t) ==
  /\ Runs(t, Fifo!Pushes) /\ CanWait(t)
  /\ ~closed /\ is_full
  /\ notFull' = notFull \cup {t}
  /\ pc' = [pc EXCEPT ![t] = "wait"]
  /\ UNCHANGED <<queue, closed, call, notEmpty>>

\* Mutant: push returns without notifying.
notifyNobody(t) ==
  /\ pc[t] = "notify"
  /\ pc' = [pc EXCEPT ![t] = "return"]
  /\ UNCHANGED <<queue, closed, call, notEmpty, notFull>>

\* not_empty_.notify_one() after lk.unlock().
notify_one(t) ==
  /\ pc[t] = "notify"
  /\ \/ /\ notEmpty = {}
        /\ pc' = [pc EXCEPT ![t] = "return"]
        /\ UNCHANGED notEmpty
     \/ \E w \in notEmpty :
          /\ pc' = [pc EXCEPT ![t] = "return", ![w] = "lock"]
          /\ notEmpty' = notEmpty \ {w}
  /\ UNCHANGED <<queue, closed, call, notFull>>

-----------------------------------------------------------------------------
(* pop, pop_for, try_pop; dequeue notifies not_full_ under the mutex.      *)

dequeue(t) ==
  /\ Runs(t, Fifo!Pops) /\ queue # <<>>
  /\ queue' = Tail(queue)
  /\ Answer(t, Head(queue), "ok")
  /\ \/ /\ notFull = {}
        /\ pc' = [pc EXCEPT ![t] = "return"]
        /\ UNCHANGED notFull
     \/ \E w \in notFull :
          /\ pc' = [pc EXCEPT ![t] = "return", ![w] = "lock"]
          /\ notFull' = notFull \ {w}
  /\ UNCHANGED <<closed, notEmpty>>

popFails(t) ==
  /\ Runs(t, Fifo!Pops) /\ queue = <<>>
  /\ closed \/ ~CanWait(t)
  /\ Answer(t, None, "fail")
  /\ pc' = [pc EXCEPT ![t] = "return"]
  /\ UNCHANGED <<queue, closed, notEmpty, notFull>>

popWaits(t) ==
  /\ Runs(t, Fifo!Pops) /\ CanWait(t)
  /\ ~closed /\ queue = <<>>
  /\ notEmpty' = notEmpty \cup {t}
  /\ pc' = [pc EXCEPT ![t] = "wait"]
  /\ UNCHANGED <<queue, closed, call, notFull>>

-----------------------------------------------------------------------------
(* close, and the ends of waits that no notification causes                *)

close(t) ==
  /\ Runs(t, {"close"})
  /\ closed' = TRUE
  /\ Answer(t, None, "ok")
  /\ pc' = [pc EXCEPT ![t] = "allEmpty"]
  /\ UNCHANGED <<queue, notEmpty, notFull>>

closeNotifiesEmpty(t) ==
  /\ pc[t] = "allEmpty"
  /\ pc' = [u \in Caller |-> IF u \in notEmpty THEN "lock" ELSE IF u = t THEN "allFull" ELSE pc[u]]
  /\ notEmpty' = {}
  /\ UNCHANGED <<queue, closed, call, notFull>>

closeNotifiesFull(t) ==
  /\ pc[t] = "allFull"
  /\ pc' = [u \in Caller |-> IF u \in notFull THEN "lock" ELSE IF u = t THEN "return" ELSE pc[u]]
  /\ notFull' = {}
  /\ UNCHANGED <<queue, closed, call, notEmpty>>

leaveWait(t, place) ==
  /\ pc[t] = "wait"
  /\ pc' = [pc EXCEPT ![t] = place]
  /\ notEmpty' = notEmpty \ {t} /\ notFull' = notFull \ {t}
  /\ UNCHANGED <<queue, closed, call>>

timeout(t)  == call[t].op \in Timed /\ leaveWait(t, "expired")
spurious(t) == leaveWait(t, "lock")

Finish(t) ==
  /\ pc[t] = "return"
  /\ pc' = [pc EXCEPT ![t] = "idle"]
  /\ call' = [call EXCEPT ![t] = Fifo!NoCall]
  /\ UNCHANGED <<queue, closed, notEmpty, notFull>>

\* What a thread does once it is in a call.
Step(t) ==
  \/ enqueue(t) \/ pushFails(t) \/ pushWaits(t) \/ notify_one(t)
  \/ dequeue(t) \/ popFails(t) \/ popWaits(t)
  \/ close(t) \/ closeNotifiesEmpty(t) \/ closeNotifiesFull(t)
  \/ timeout(t) \/ Finish(t)

Next ==
  \E t \in Caller :
    \/ \E v \in Item, op \in Fifo!Pushes : Begin(t, op, v)
    \/ \E op \in Fifo!Pops \cup {"close"} : Begin(t, op, None)
    \/ Step(t)
    \/ spurious(t)

Spec == Init /\ [][Next]_vars

\* The scheduler runs every thread.  A deadline is absolute, so a call that waits
\* again and again is past it one day: strong fairness.  Nobody has to begin a
\* call, and no wait has to end spuriously.
FairSpec == Spec /\ \A t \in Caller : WF_vars(Step(t)) /\ SF_vars(timeout(t))

-----------------------------------------------------------------------------

\* Values of the right kind, and a thread is in the condition variable that
\* fits its call exactly while it waits.
TypeOK ==
  /\ queue \in Seq(Item)
  /\ closed \in BOOLEAN
  /\ call \in [Caller -> Fifo!Call]
  /\ pc \in [Caller -> PC]
  /\ notEmpty = {t \in Caller : pc[t] = "wait" /\ call[t].op \in Fifo!Pops}
  /\ notFull = {t \in Caller : pc[t] = "wait" /\ call[t].op \in Fifo!Pushes}

\* Poppers and pushers that will look at the queue without being notified.
Poppers  == {t \in Caller : Runs(t, Fifo!Pops)}
Pushers  == {t \in Caller : Runs(t, Fifo!Pushes)}
Notifying == {t \in Caller : pc[t] = "notify"}

\* No wake-up is lost (wait in push and pop, notify_one after the unlock): while
\* a pop waits, every element is matched by a pop already on its way or a
\* notification still to come; while a push waits, every free place is matched by
\* a push on its way; and after close() nobody waits without a notify_all to come.
NoLostWakeup ==
  /\ notEmpty # {} => Len(queue) <= Cardinality(Poppers) + Cardinality(Notifying)
  /\ notFull # {} /\ ~closed => Capacity - Len(queue) <= Cardinality(Pushers)
  /\ closed /\ notEmpty # {} => \E t \in Caller : pc[t] = "allEmpty"
  /\ closed /\ notFull # {} => \E t \in Caller : pc[t] \in {"allEmpty", "allFull"}

\* The queue is a linearizable bounded FIFO whose calls return whenever they can:
\* the effect of each operation is in one critical section, and waiting,
\* notifying, expiring and waking for nothing change nothing a caller can see.
ImplementsFifo == Fifo!FairSpec
=============================================================================
