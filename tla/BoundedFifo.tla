----------------------------- MODULE BoundedFifo -----------------------------
(***************************************************************************)
(* What BlockingQueue<T, Capacity> promises its callers, without locks or  *)
(* condition variables: every call takes effect at one instant between its *)
(* invocation and its return, on a first-in first-out queue that can be    *)
(* closed for pushing and is drained after that.                           *)
(*                                                                         *)
(* Only pop() and push() wait, and only while there is nothing to do for   *)
(* them: a call that could take effect from some moment on does return.    *)
(***************************************************************************)
EXTENDS Naturals, Sequences

CONSTANTS
  Caller,     \* threads that use the queue
  Item,       \* values pushed
  Capacity,   \* template parameter: largest length, 0 for no limit
  None        \* std::nullopt

VARIABLES
  queue,   \* the elements, oldest first
  closed,  \* close() has been called
  call     \* what each caller is in the middle of

vars == <<queue, closed, call>>

Pushes == {"push", "push_for", "try_push"}
Pops   == {"pop", "pop_for", "try_pop"}
Op     == Pushes \cup Pops \cup {"close"}

NoCall == [op |-> "none", val |-> None, res |-> "ok"]
Call   == [op : Op, val : Item \cup {None}, res : {"pending", "ok", "fail"}] \cup {NoCall}

Full == Capacity # 0 /\ Len(queue) >= Capacity

Pending(c, ops) == call[c].op \in ops /\ call[c].res = "pending"
Answer(c, v, r) == call' = [call EXCEPT ![c] = [op |-> call[c].op, val |-> v, res |-> r]]

Init ==
  /\ queue = <<>> /\ closed = FALSE
  /\ call = [c \in Caller |-> NoCall]

Invoke(c, op, v) ==
  /\ call[c] = NoCall
  /\ call' = [call EXCEPT ![c] = [op |-> op, val |-> v, res |-> "pending"]]
  /\ UNCHANGED <<queue, closed>>

Put(c) ==
  /\ Pending(c, Pushes) /\ ~closed /\ ~Full
  /\ queue' = Append(queue, call[c].val)
  /\ Answer(c, call[c].val, "ok")
  /\ UNCHANGED closed

\* push throws, push_for and try_push return false.
Refuse(c) ==
  /\ Pending(c, Pushes)
  /\ closed \/ (Full /\ call[c].op # "push")
  /\ Answer(c, call[c].val, "fail")
  /\ UNCHANGED <<queue, closed>>

Take(c) ==
  /\ Pending(c, Pops) /\ queue # <<>>
  /\ queue' = Tail(queue)
  /\ Answer(c, Head(queue), "ok")
  /\ UNCHANGED closed

\* The pops return std::nullopt.
Miss(c) ==
  /\ Pending(c, Pops) /\ queue = <<>>
  /\ closed \/ call[c].op # "pop"
  /\ Answer(c, None, "fail")
  /\ UNCHANGED <<queue, closed>>

Close(c) ==
  /\ Pending(c, {"close"})
  /\ closed' = TRUE
  /\ Answer(c, None, "ok")
  /\ UNCHANGED queue

TakeEffect(c) == Put(c) \/ Refuse(c) \/ Take(c) \/ Miss(c) \/ Close(c)

Return(c) ==
  /\ call[c] # NoCall /\ call[c].res # "pending"
  /\ call' = [call EXCEPT ![c] = NoCall]
  /\ UNCHANGED <<queue, closed>>

Next ==
  \E c \in Caller :
    \/ \E v \in Item, op \in Pushes : Invoke(c, op, v)
    \/ \E op \in Pops \cup {"close"} : Invoke(c, op, None)
    \/ TakeEffect(c)
    \/ Return(c)

Spec == Init /\ [][Next]_vars

Liveness == \A c \in Caller : WF_vars(TakeEffect(c)) /\ WF_vars(Return(c))

FairSpec == Spec /\ Liveness
=============================================================================
