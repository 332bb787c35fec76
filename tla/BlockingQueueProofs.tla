------------------------- MODULE BlockingQueueProofs -------------------------
(***************************************************************************)
(* BlockingQueue for every set of callers, every set of items and every    *)
(* capacity: its invariants, and that it implements BoundedFifo.           *)
(***************************************************************************)
EXTENDS BlockingQueue, SequenceTheorems, FiniteSetTheorems, TLAPS

\* What the place of a thread tells about its call: the call has an answer
\* exactly from its critical section on, only timed calls expire, and what a
\* push carries is an item.
Places ==
  \A t \in Caller :
    /\ pc[t] = "idle" <=> call[t] = Fifo!NoCall
    /\ pc[t] \in {"lock", "wait", "expired"} => call[t].res = "pending"
    /\ pc[t] \in {"notify", "allEmpty", "allFull", "return"} => call[t].res # "pending"
    /\ pc[t] = "expired" => call[t].op \in Timed
    /\ call[t].op \in Fifo!Pushes => call[t].val \in Item

QueueInv == TypeOK /\ Places

-----------------------------------------------------------------------------

\* A call that is made or answered is a record of its operation, its value and
\* its answer.
LEMMA CallMade ==
  ASSUME NEW op \in Fifo!Op, NEW v \in Item \cup {None}, NEW r \in {"pending", "ok", "fail"}
  PROVE  /\ [op |-> op, val |-> v, res |-> r] \in Fifo!Call
         /\ [op |-> op, val |-> v, res |-> r] # Fifo!NoCall
BY DEF Fifo!Call, Fifo!NoCall, Fifo!Op, Fifo!Pushes, Fifo!Pops

\* The fields of a call; only the absence of a call has no operation.
LEMMA CallFields ==
  ASSUME NEW c \in Fifo!Call
  PROVE  /\ c.op \in Fifo!Op \cup {"none"} /\ c.val \in Item \cup {None}
         /\ c.res \in {"pending", "ok", "fail"}
         /\ c # Fifo!NoCall <=> c.op \in Fifo!Op
BY DEF Fifo!Call, Fifo!NoCall, Fifo!Op, Fifo!Pushes, Fifo!Pops

\* The absence of a call.
LEMMA NoCallFields ==
  Fifo!NoCall \in Fifo!Call /\ Fifo!NoCall.op = "none" /\ Fifo!NoCall.res = "ok"
BY DEF Fifo!Call, Fifo!NoCall

\* A step is a step of one action of one thread.
LEMMA NextCases ==
  ASSUME [Next]_vars
  PROVE  \/ \E t \in Caller, op \in Fifo!Pushes, v \in Item : Begin(t, op, v)
         \/ \E t \in Caller, op \in Fifo!Pops \cup {"close"} : Begin(t, op, None)
         \/ \E t \in Caller : enqueue(t)
         \/ \E t \in Caller : pushFails(t)
         \/ \E t \in Caller : pushWaits(t)
         \/ \E t \in Caller : notify_one(t)
         \/ \E t \in Caller : dequeue(t)
         \/ \E t \in Caller : popFails(t)
         \/ \E t \in Caller : popWaits(t)
         \/ \E t \in Caller : close(t)
         \/ \E t \in Caller : closeNotifiesEmpty(t)
         \/ \E t \in Caller : closeNotifiesFull(t)
         \/ \E t \in Caller, place \in {"lock", "expired"} :
              leaveWait(t, place) /\ (place = "expired" => call[t].op \in Timed)
         \/ \E t \in Caller : Finish(t)
         \/ UNCHANGED vars
BY DEF Next, Step, timeout, spurious

-----------------------------------------------------------------------------
(* The type invariant with Places is inductive.                            *)

\* A step that changes the call of one thread only, to a well-formed one.
LEMMA TypeFrame ==
  ASSUME QueueInv, NEW t \in Caller, NEW c \in Fifo!Call, NEW p \in PC \ {"wait"},
         call' = [call EXCEPT ![t] = c], pc' = [pc EXCEPT ![t] = p],
         queue' \in Seq(Item), closed' \in BOOLEAN,
         pc[t] # "wait", UNCHANGED <<notEmpty, notFull>>,
         p = "idle" <=> c = Fifo!NoCall,
         p \in {"lock", "expired"} => c.res = "pending",
         p \in {"notify", "allEmpty", "allFull", "return"} => c.res # "pending",
         p = "expired" => c.op \in Timed,
         c.op \in Fifo!Pushes => c.val \in Item
  PROVE  QueueInv'
<1>1. call' \in [Caller -> Fifo!Call] /\ pc' \in [Caller -> PC]
  BY DEF QueueInv, TypeOK
<1>2. /\ \A u \in Caller : u # t => call'[u] = call[u] /\ pc'[u] = pc[u]
      /\ call'[t] = c /\ pc'[t] = p
  BY DEF QueueInv, TypeOK
<1>3. /\ notEmpty' = {u \in Caller : pc'[u] = "wait" /\ call'[u].op \in Fifo!Pops}
      /\ notFull' = {u \in Caller : pc'[u] = "wait" /\ call'[u].op \in Fifo!Pushes}
  BY <1>2 DEF QueueInv, TypeOK
<1>4. Places'
  BY <1>2 DEF QueueInv, Places
<1> QED BY <1>1, <1>3, <1>4 DEF QueueInv, TypeOK

\* Every step keeps the types, the waiting sets and the places.
LEMMA TypeStep == QueueInv /\ [Next]_vars => QueueInv'
<1> SUFFICES ASSUME QueueInv, [Next]_vars PROVE QueueInv'
  OBVIOUS
<1> USE DEF PC
<1>0. /\ \A t \in Caller : call[t] \in Fifo!Call /\ pc[t] \in PC
      /\ queue \in Seq(Item) /\ closed \in BOOLEAN
  BY DEF QueueInv, TypeOK
<1>1. ASSUME NEW t \in Caller, NEW op \in Fifo!Pushes, NEW v \in Item, Begin(t, op, v)
      PROVE  QueueInv'
  <2>1. [op |-> op, val |-> v, res |-> "pending"] \in Fifo!Call \ {Fifo!NoCall}
    BY CallMade DEF Fifo!Op
  <2> QED BY <1>0, <1>1, <2>1, TypeFrame DEF Begin
<1>2. ASSUME NEW t \in Caller, NEW op \in Fifo!Pops \cup {"close"}, Begin(t, op, None)
      PROVE  QueueInv'
  <2>1. [op |-> op, val |-> None, res |-> "pending"] \in Fifo!Call \ {Fifo!NoCall}
    BY CallMade DEF Fifo!Op
  <2>2. op \notin Fifo!Pushes
    BY DEF Fifo!Pushes, Fifo!Pops
  <2> QED BY <1>0, <1>2, <2>1, <2>2, TypeFrame DEF Begin
<1>3. ASSUME NEW t \in Caller, pc[t] \in {"lock", "expired"}, NEW v \in Item \cup {None},
             NEW r \in {"ok", "fail"}, call[t].op \in Fifo!Op,
             call[t].op \in Fifo!Pushes => v = call[t].val
      PROVE  LET c == [op |-> call[t].op, val |-> v, res |-> r]
             IN  /\ c \in Fifo!Call \ {Fifo!NoCall} /\ c.res # "pending"
                 /\ c.op \in Fifo!Pushes => c.val \in Item
  BY <1>3, CallMade DEF QueueInv, Places
<1>4. ASSUME NEW t \in Caller, enqueue(t) PROVE QueueInv'
  <2>1. call[t].val \in Item /\ call[t].op \in Fifo!Op
    BY <1>4 DEF enqueue, Runs, QueueInv, Places, Fifo!Op
  <2> DEFINE c == [op |-> call[t].op, val |-> call[t].val, res |-> "ok"]
  <2>2. /\ c \in Fifo!Call \ {Fifo!NoCall} /\ c.res # "pending"
        /\ c.op \in Fifo!Pushes => c.val \in Item
    BY <1>3, <1>4, <2>1 DEF enqueue, Runs
  <2>3. queue' \in Seq(Item) /\ closed' \in BOOLEAN
    BY <1>0, <1>4, <2>1 DEF enqueue
  <2>4. call' = [call EXCEPT ![t] = c] /\ pc' = [pc EXCEPT ![t] = "notify"]
    BY <1>4 DEF enqueue, Answer
  <2>5. pc[t] # "wait" /\ UNCHANGED <<notEmpty, notFull>>
    BY <1>4 DEF enqueue, Runs
  <2> HIDE DEF c
  <2> QED BY <2>2, <2>3, <2>4, <2>5, TypeFrame
<1>5. ASSUME NEW t \in Caller, pushFails(t) PROVE QueueInv'
  <2>1. call[t].val \in Item /\ call[t].op \in Fifo!Op
    BY <1>5 DEF pushFails, Runs, QueueInv, Places, Fifo!Op
  <2> DEFINE c == [op |-> call[t].op, val |-> call[t].val, res |-> "fail"]
  <2>2. /\ c \in Fifo!Call \ {Fifo!NoCall} /\ c.res # "pending"
        /\ c.op \in Fifo!Pushes => c.val \in Item
    BY <1>3, <1>5, <2>1 DEF pushFails, Runs
  <2>3. call' = [call EXCEPT ![t] = c] /\ pc' = [pc EXCEPT ![t] = "return"]
    BY <1>5 DEF pushFails, Answer
  <2>4. pc[t] # "wait" /\ UNCHANGED <<queue, closed, notEmpty, notFull>>
    BY <1>5 DEF pushFails, Runs
  <2> HIDE DEF c
  <2> QED BY <1>0, <2>2, <2>3, <2>4, TypeFrame
<1>6. ASSUME NEW t \in Caller, popFails(t) PROVE QueueInv'
  <2>1. call[t].op \in Fifo!Op /\ call[t].op \notin Fifo!Pushes
    BY <1>6 DEF popFails, Runs, Fifo!Op, Fifo!Pops, Fifo!Pushes
  <2> DEFINE c == [op |-> call[t].op, val |-> None, res |-> "fail"]
  <2>2. /\ c \in Fifo!Call \ {Fifo!NoCall} /\ c.res # "pending"
        /\ c.op \in Fifo!Pushes => c.val \in Item
    BY <1>3, <1>6, <2>1 DEF popFails, Runs
  <2>3. call' = [call EXCEPT ![t] = c] /\ pc' = [pc EXCEPT ![t] = "return"]
    BY <1>6 DEF popFails, Answer
  <2>4. pc[t] # "wait" /\ UNCHANGED <<queue, closed, notEmpty, notFull>>
    BY <1>6 DEF popFails, Runs
  <2> HIDE DEF c
  <2> QED BY <1>0, <2>2, <2>3, <2>4, TypeFrame
<1>7. ASSUME NEW t \in Caller, close(t) PROVE QueueInv'
  <2>1. call[t].op \in Fifo!Op /\ call[t].op \notin Fifo!Pushes
    BY <1>7 DEF close, Runs, Fifo!Op, Fifo!Pushes
  <2> DEFINE c == [op |-> call[t].op, val |-> None, res |-> "ok"]
  <2>2. /\ c \in Fifo!Call \ {Fifo!NoCall} /\ c.res # "pending"
        /\ c.op \in Fifo!Pushes => c.val \in Item
    BY <1>3, <1>7, <2>1 DEF close, Runs
  <2>3. call' = [call EXCEPT ![t] = c] /\ pc' = [pc EXCEPT ![t] = "allEmpty"]
    BY <1>7 DEF close, Answer
  <2>4. pc[t] # "wait" /\ closed' \in BOOLEAN /\ UNCHANGED <<queue, notEmpty, notFull>>
    BY <1>7 DEF close, Runs
  <2> HIDE DEF c
  <2> QED BY <1>0, <2>2, <2>3, <2>4, TypeFrame
<1>8. ASSUME NEW t \in Caller, Finish(t) PROVE QueueInv'
  <2>1. Fifo!NoCall \in Fifo!Call /\ Fifo!NoCall.op \notin Fifo!Pushes
    BY NoCallFields DEF Fifo!Pushes
  <2> QED BY <1>0, <1>8, <2>1, TypeFrame DEF Finish
<1>9. ASSUME NEW t \in Caller, dequeue(t) PROVE QueueInv'
  <2>1. call[t].op \in Fifo!Op /\ call[t].op \notin Fifo!Pushes /\ pc[t] # "wait"
    BY <1>9 DEF dequeue, Runs, Fifo!Op, Fifo!Pops, Fifo!Pushes
  <2>2. Head(queue) \in Item /\ Tail(queue) \in Seq(Item)
    BY <1>0, <1>9 DEF dequeue
  <2> DEFINE c == [op |-> call[t].op, val |-> Head(queue), res |-> "ok"]
  <2>3. c \in Fifo!Call \ {Fifo!NoCall} /\ c.res # "pending" /\ c.op = call[t].op
    BY <1>3, <1>9, <2>1, <2>2 DEF dequeue, Runs
  <2>4. call' = [call EXCEPT ![t] = c]
    BY <1>9 DEF dequeue, Answer
  <2>5. queue' \in Seq(Item) /\ closed' \in BOOLEAN /\ UNCHANGED notEmpty
    BY <1>0, <1>9, <2>2 DEF dequeue
  <2> HIDE DEF c
  <2>6. CASE pc' = [pc EXCEPT ![t] = "return"] /\ UNCHANGED notFull
    BY <2>1, <2>3, <2>4, <2>5, <2>6, TypeFrame
  <2>7. ASSUME NEW w \in notFull, pc' = [pc EXCEPT ![t] = "return", ![w] = "lock"],
               notFull' = notFull \ {w}
        PROVE  QueueInv'
    <3>1. /\ w \in Caller /\ w # t /\ pc[w] = "wait" /\ call[w].op \in Fifo!Pushes
          /\ call[w].op \notin Fifo!Pops
      BY <2>1, <2>7 DEF QueueInv, TypeOK, Fifo!Pops, Fifo!Pushes
    <3>2. /\ \A u \in Caller \ {t, w} : call'[u] = call[u] /\ pc'[u] = pc[u]
          /\ call'[t] = c /\ pc'[t] = "return" /\ call'[w] = call[w] /\ pc'[w] = "lock"
      BY <2>4, <2>7, <3>1 DEF QueueInv, TypeOK
    <3>3. call' \in [Caller -> Fifo!Call] /\ pc' \in [Caller -> PC]
      BY <2>3, <2>4, <2>7, <3>1 DEF QueueInv, TypeOK
    <3>4. /\ notEmpty' = {u \in Caller : pc'[u] = "wait" /\ call'[u].op \in Fifo!Pops}
          /\ notFull' = {u \in Caller : pc'[u] = "wait" /\ call'[u].op \in Fifo!Pushes}
      BY <2>1, <2>3, <2>5, <2>7, <3>1, <3>2 DEF QueueInv, TypeOK
    <3>5. Places'
      BY <2>1, <2>3, <3>1, <3>2 DEF QueueInv, Places
    <3> QED BY <2>5, <3>3, <3>4, <3>5 DEF QueueInv, TypeOK
  <2> QED BY <1>9, <2>6, <2>7 DEF dequeue
<1>10. ASSUME NEW t \in Caller, Runs(t, Fifo!Pushes), pc' = [pc EXCEPT ![t] = "wait"],
              notFull' = notFull \cup {t}, UNCHANGED <<queue, closed, call, notEmpty>>
       PROVE  QueueInv'
  <2>1. pc[t] \in {"lock", "expired"} /\ call[t].op \in Fifo!Pushes \ Fifo!Pops
    BY <1>10 DEF Runs, Fifo!Pushes, Fifo!Pops
  <2>2. pc' \in [Caller -> PC] /\ pc'[t] = "wait" /\ \A u \in Caller \ {t} : pc'[u] = pc[u]
    BY <1>10 DEF QueueInv, TypeOK
  <2> QED BY <1>10, <2>1, <2>2 DEF QueueInv, TypeOK, Places
<1>11. ASSUME NEW t \in Caller, Runs(t, Fifo!Pops), pc' = [pc EXCEPT ![t] = "wait"],
              notEmpty' = notEmpty \cup {t}, UNCHANGED <<queue, closed, call, notFull>>
       PROVE  QueueInv'
  <2>1. pc[t] \in {"lock", "expired"} /\ call[t].op \in Fifo!Pops \ Fifo!Pushes
    BY <1>11 DEF Runs, Fifo!Pushes, Fifo!Pops
  <2>2. pc' \in [Caller -> PC] /\ pc'[t] = "wait" /\ \A u \in Caller \ {t} : pc'[u] = pc[u]
    BY <1>11 DEF QueueInv, TypeOK
  <2> QED BY <1>11, <2>1, <2>2 DEF QueueInv, TypeOK, Places
<1>12. ASSUME NEW t \in Caller, notify_one(t) PROVE QueueInv'
  <2>1. CASE pc' = [pc EXCEPT ![t] = "return"] /\ UNCHANGED notEmpty
    <3>1. \A u \in Caller : pc'[u] = IF u = t THEN "return" ELSE pc[u]
      BY <2>1 DEF QueueInv, TypeOK
    <3> QED BY <1>12, <2>1, <3>1 DEF notify_one, QueueInv, TypeOK, Places
  <2>2. ASSUME NEW w \in notEmpty, pc' = [pc EXCEPT ![t] = "return", ![w] = "lock"],
               notEmpty' = notEmpty \ {w}
        PROVE  QueueInv'
    <3>1. /\ w \in Caller /\ w # t /\ pc[w] = "wait" /\ call[w].op \in Fifo!Pops \ Fifo!Pushes
          /\ pc[t] = "notify" /\ UNCHANGED <<queue, closed, call, notFull>>
      BY <1>12, <2>2 DEF notify_one, QueueInv, TypeOK, Fifo!Pops, Fifo!Pushes
    <3>2. /\ \A u \in Caller \ {t, w} : pc'[u] = pc[u]
          /\ pc'[t] = "return" /\ pc'[w] = "lock" /\ pc' \in [Caller -> PC]
      BY <2>2, <3>1 DEF QueueInv, TypeOK
    <3> QED BY <2>2, <3>1, <3>2 DEF QueueInv, TypeOK, Places
  <2> QED BY <1>12, <2>1, <2>2 DEF notify_one
<1>13. ASSUME NEW t \in Caller, closeNotifiesEmpty(t) PROVE QueueInv'
  <2>1. /\ \A u \in Caller : pc'[u] = IF u \in notEmpty THEN "lock"
                                      ELSE IF u = t THEN "allFull" ELSE pc[u]
        /\ pc' \in [Caller -> PC] /\ pc[t] = "allEmpty"
        /\ notEmpty' = {} /\ UNCHANGED <<queue, closed, call, notFull>>
    BY <1>0, <1>13 DEF closeNotifiesEmpty
  <2>2. \A u \in Caller : u \in notEmpty => pc[u] = "wait" /\ u \notin notFull
    BY DEF QueueInv, TypeOK, Fifo!Pops, Fifo!Pushes
  <2> QED BY <2>1, <2>2 DEF QueueInv, TypeOK, Places
<1>14. ASSUME NEW t \in Caller, closeNotifiesFull(t) PROVE QueueInv'
  <2>1. /\ \A u \in Caller : pc'[u] = IF u \in notFull THEN "lock"
                                      ELSE IF u = t THEN "return" ELSE pc[u]
        /\ pc' \in [Caller -> PC] /\ pc[t] = "allFull"
        /\ notFull' = {} /\ UNCHANGED <<queue, closed, call, notEmpty>>
    BY <1>0, <1>14 DEF closeNotifiesFull
  <2>2. \A u \in Caller : u \in notFull => pc[u] = "wait" /\ u \notin notEmpty
    BY DEF QueueInv, TypeOK, Fifo!Pops, Fifo!Pushes
  <2> QED BY <2>1, <2>2 DEF QueueInv, TypeOK, Places
<1>15. ASSUME NEW t \in Caller, NEW place \in {"lock", "expired"}, leaveWait(t, place),
              place = "expired" => call[t].op \in Timed
       PROVE  QueueInv'
  <2>1. /\ pc[t] = "wait" /\ pc'[t] = place /\ pc' \in [Caller -> PC]
        /\ \A u \in Caller \ {t} : pc'[u] = pc[u]
        /\ notEmpty' = notEmpty \ {t} /\ notFull' = notFull \ {t}
        /\ UNCHANGED <<queue, closed, call>>
    BY <1>15 DEF leaveWait, QueueInv, TypeOK
  <2> QED BY <1>15, <2>1 DEF QueueInv, TypeOK, Places
<1>16. CASE UNCHANGED vars
  BY <1>16 DEF QueueInv, TypeOK, Places, vars
<1>17. ASSUME NEW t \in Caller, pushWaits(t) PROVE QueueInv'
  BY <1>17, <1>10 DEF pushWaits
<1>18. ASSUME NEW t \in Caller, popWaits(t) PROVE QueueInv'
  BY <1>18, <1>11 DEF popWaits
<1> QED
  BY NextCases, <1>1, <1>2, <1>4, <1>5, <1>6, <1>7, <1>8, <1>9, <1>12, <1>13, <1>14,
     <1>15, <1>16, <1>17, <1>18

-----------------------------------------------------------------------------
(* No wake-up is lost: NoLostWakeup is inductive relative to QueueInv.     *)

PopsWoken   == notEmpty # {} => Len(queue) <= Cardinality(Poppers) + Cardinality(Notifying)
PushesWoken == notFull # {} /\ ~closed => Capacity - Len(queue) <= Cardinality(Pushers)
CloseWakes  ==
  /\ closed /\ notEmpty # {} => \E t \in Caller : pc[t] = "allEmpty"
  /\ closed /\ notFull # {} => \E t \in Caller : pc[t] \in {"allEmpty", "allFull"}

\* NoLostWakeup is about the pops, the pushes and close().
LEMMA WakeupParts == NoLostWakeup <=> PopsWoken /\ PushesWoken /\ CloseWakes
BY DEF NoLostWakeup, PopsWoken, PushesWoken, CloseWakes

\* Sets of callers are finite; what is added to or taken from one counts once.
LEMMA CallerSets ==
  ASSUME NEW S \in SUBSET Caller
  PROVE  /\ Cardinality(S) \in Nat
         /\ \A T \in SUBSET S : Cardinality(T) <= Cardinality(S)
         /\ \A x \in S : Cardinality(S \ {x}) = Cardinality(S) - 1
         /\ \A x \in Caller \ S : Cardinality(S \cup {x}) = Cardinality(S) + 1
<1>1. IsFiniteSet(S)
  BY QueueAssumption, FS_Subset
<1>2. Cardinality(S) \in Nat
  BY <1>1, FS_CardinalityType
<1>3. \A T \in SUBSET S : Cardinality(T) <= Cardinality(S)
  BY <1>1, FS_Subset
<1>4. \A x \in S : Cardinality(S \ {x}) = Cardinality(S) - 1
  BY <1>1, FS_RemoveElement
<1>5. \A x \in Caller \ S : Cardinality(S \cup {x}) = Cardinality(S) + 1
  BY <1>1, FS_AddElement
<1> QED BY <1>2, <1>3, <1>4, <1>5

\* The callers on their way, and those that still have to notify.
LEMMA CountedSets ==
  /\ Poppers \in SUBSET Caller /\ Pushers \in SUBSET Caller /\ Notifying \in SUBSET Caller
  /\ Poppers' \in SUBSET Caller /\ Pushers' \in SUBSET Caller /\ Notifying' \in SUBSET Caller
BY DEF Poppers, Pushers, Notifying

\* A step keeps PopsWoken when it leaves the elements alone, makes no first
\* waiting pop and takes no pop or notification off its way.
LEMMA PopsWokenFrame ==
  ASSUME QueueInv, PopsWoken, notEmpty' # {} => notEmpty # {},
         Poppers \subseteq Poppers', Notifying \subseteq Notifying', UNCHANGED queue
  PROVE  PopsWoken'
<1>1. /\ Cardinality(Poppers) <= Cardinality(Poppers')
      /\ Cardinality(Notifying) <= Cardinality(Notifying')
      /\ Cardinality(Poppers) \in Nat /\ Cardinality(Poppers') \in Nat
      /\ Cardinality(Notifying) \in Nat /\ Cardinality(Notifying') \in Nat
  BY CallerSets, CountedSets
<1>2. Len(queue) \in Nat
  BY DEF QueueInv, TypeOK
<1> QED BY <1>1, <1>2 DEF PopsWoken

\* The same for the free places and the pushes.
LEMMA PushesWokenFrame ==
  ASSUME QueueInv, PushesWoken, notFull' # {} => notFull # {}, closed => closed',
         Pushers \subseteq Pushers', UNCHANGED queue
  PROVE  PushesWoken'
<1>1. /\ Cardinality(Pushers) <= Cardinality(Pushers')
      /\ Cardinality(Pushers) \in Nat /\ Cardinality(Pushers') \in Nat
  BY CallerSets, CountedSets
<1>2. Len(queue) \in Nat /\ Capacity \in Nat
  BY QueueAssumption DEF QueueInv, TypeOK
<1> QED BY <1>1, <1>2 DEF PushesWoken

\* A waiting pop: every element has a pop or a notification on its way.
LEMMA PopsWokenStep == QueueInv /\ PopsWoken /\ [Next]_vars => PopsWoken'
<1> SUFFICES ASSUME QueueInv, PopsWoken, [Next]_vars PROVE PopsWoken'
  OBVIOUS
<1>0. /\ pc \in [Caller -> PC] /\ call \in [Caller -> Fifo!Call] /\ Len(queue) \in Nat
      /\ queue \in Seq(Item)
      /\ \A t \in notEmpty : t \in Caller /\ pc[t] = "wait" /\ call[t].op \in Fifo!Pops
      /\ \A t \in notFull : t \in Caller /\ pc[t] = "wait" /\ call[t].op \in Fifo!Pushes
  BY DEF QueueInv, TypeOK
<1>0a. Fifo!Pops \cap Fifo!Pushes = {}
  BY DEF Fifo!Pops, Fifo!Pushes
<1>1. ASSUME NEW t \in Caller, NEW op, NEW v, Begin(t, op, v) PROVE PopsWoken'
  <2>1. Poppers \subseteq Poppers' /\ Notifying \subseteq Notifying'
    BY <1>0, <1>1 DEF Begin, Poppers, Notifying, Runs
  <2> QED BY <1>1, <2>1, PopsWokenFrame DEF Begin
<1>2. ASSUME NEW t \in Caller, enqueue(t) PROVE PopsWoken'
  <2>1. Poppers' = Poppers /\ Notifying' = Notifying \cup {t} /\ t \notin Notifying
    BY <1>0, <1>0a, <1>2 DEF enqueue, Answer, Poppers, Notifying, Runs
  <2>2. Cardinality(Notifying') = Cardinality(Notifying) + 1
    BY <2>1, CallerSets, CountedSets
  <2>3. Len(queue') = Len(queue) + 1 /\ notEmpty' = notEmpty
    BY <1>0, <1>2 DEF enqueue
  <2>4. Cardinality(Poppers) \in Nat /\ Cardinality(Notifying) \in Nat
    BY CallerSets, CountedSets
  <2> QED BY <1>0, <2>1, <2>2, <2>3, <2>4 DEF PopsWoken
<1>3. ASSUME NEW t \in Caller, pushFails(t) PROVE PopsWoken'
  <2>1. Poppers' = Poppers /\ Notifying' = Notifying
    BY <1>0, <1>0a, <1>3 DEF pushFails, Answer, Poppers, Notifying, Runs
  <2> QED BY <1>3, <2>1, PopsWokenFrame DEF pushFails
<1>4. ASSUME NEW t \in Caller, pushWaits(t) PROVE PopsWoken'
  <2>1. Poppers' = Poppers /\ Notifying' = Notifying
    BY <1>0, <1>0a, <1>4 DEF pushWaits, Poppers, Notifying, Runs
  <2> QED BY <1>4, <2>1, PopsWokenFrame DEF pushWaits
<1>5. ASSUME NEW t \in Caller, notify_one(t) PROVE PopsWoken'
  <2>1. CASE notEmpty' = {}
    BY <2>1 DEF PopsWoken
  <2>2. ASSUME NEW w \in notEmpty, pc' = [pc EXCEPT ![t] = "return", ![w] = "lock"],
               pc[t] = "notify", UNCHANGED <<queue, call>>
        PROVE  PopsWoken'
    <3>1. /\ Poppers' = Poppers \cup {w} /\ w \in Caller \ Poppers
          /\ Notifying' = Notifying \ {t} /\ t \in Notifying
      BY <1>0, <2>2 DEF Poppers, Notifying, Runs
    <3>2. /\ Cardinality(Poppers') = Cardinality(Poppers) + 1
          /\ Cardinality(Notifying') = Cardinality(Notifying) - 1
          /\ Cardinality(Poppers) \in Nat /\ Cardinality(Notifying) \in Nat
      BY <3>1, CallerSets, CountedSets
    <3> QED BY <1>0, <2>2, <3>2 DEF PopsWoken
  <2> QED BY <1>5, <2>1, <2>2 DEF notify_one
<1>6. ASSUME NEW t \in Caller, dequeue(t) PROVE PopsWoken'
  <2>1. Notifying' = Notifying /\ Poppers' = Poppers \ {t} /\ t \in Poppers
    <3>1. CASE pc' = [pc EXCEPT ![t] = "return"]
      BY <1>0, <1>6, <3>1 DEF dequeue, Answer, Poppers, Notifying, Runs
    <3>2. ASSUME NEW w \in notFull, pc' = [pc EXCEPT ![t] = "return", ![w] = "lock"]
          PROVE  Notifying' = Notifying /\ Poppers' = Poppers \ {t} /\ t \in Poppers
      BY <1>0, <1>0a, <1>6, <3>2 DEF dequeue, Answer, Poppers, Notifying, Runs
    <3> QED BY <1>6, <3>1, <3>2 DEF dequeue
  <2>2. /\ Cardinality(Poppers') = Cardinality(Poppers) - 1
        /\ Cardinality(Poppers) \in Nat /\ Cardinality(Notifying) \in Nat
    BY <2>1, CallerSets, CountedSets
  <2>3. Len(queue') = Len(queue) - 1 /\ notEmpty' = notEmpty
    BY <1>0, <1>6 DEF dequeue
  <2> QED BY <1>0, <2>1, <2>2, <2>3 DEF PopsWoken
<1>7. ASSUME NEW t \in Caller, popFails(t) \/ popWaits(t) PROVE PopsWoken'
  <2>1. Len(queue') = 0
    BY <1>7 DEF popFails, popWaits
  <2>2. Cardinality(Poppers') \in Nat /\ Cardinality(Notifying') \in Nat
    BY CallerSets, CountedSets
  <2> QED BY <2>1, <2>2 DEF PopsWoken
<1>8. ASSUME NEW t \in Caller, close(t) PROVE PopsWoken'
  <2>1. Poppers \subseteq Poppers' /\ Notifying \subseteq Notifying'
    BY <1>0, <1>8 DEF close, Answer, Poppers, Notifying, Runs, Fifo!Pops
  <2> QED BY <1>8, <2>1, PopsWokenFrame DEF close
<1>9. ASSUME NEW t \in Caller, closeNotifiesEmpty(t) PROVE PopsWoken'
  BY <1>9 DEF closeNotifiesEmpty, PopsWoken
<1>10. ASSUME NEW t \in Caller, closeNotifiesFull(t) PROVE PopsWoken'
  <2>1. Poppers \subseteq Poppers' /\ Notifying \subseteq Notifying'
    BY <1>0, <1>10 DEF closeNotifiesFull, Poppers, Notifying, Runs
  <2> QED BY <1>10, <2>1, PopsWokenFrame DEF closeNotifiesFull
<1>11. ASSUME NEW t \in Caller, NEW place \in {"lock", "expired"}, leaveWait(t, place)
       PROVE  PopsWoken'
  <2>1. Poppers \subseteq Poppers' /\ Notifying \subseteq Notifying'
    BY <1>0, <1>11 DEF leaveWait, Poppers, Notifying, Runs
  <2> QED BY <1>11, <2>1, PopsWokenFrame DEF leaveWait
<1>12. ASSUME NEW t \in Caller, Finish(t) PROVE PopsWoken'
  <2>1. Poppers \subseteq Poppers' /\ Notifying \subseteq Notifying'
    BY <1>0, <1>12 DEF Finish, Poppers, Notifying, Runs
  <2> QED BY <1>12, <2>1, PopsWokenFrame DEF Finish
<1>13. CASE UNCHANGED vars
  BY <1>13 DEF PopsWoken, vars, Poppers, Notifying, Runs
<1> QED
  BY NextCases, <1>1, <1>2, <1>3, <1>4, <1>5, <1>6, <1>7, <1>8, <1>9, <1>10, <1>11,
     <1>12, <1>13

\* A waiting push: every free place has a push on its way.
LEMMA PushesWokenStep == QueueInv /\ PushesWoken /\ [Next]_vars => PushesWoken'
<1> SUFFICES ASSUME QueueInv, PushesWoken, [Next]_vars PROVE PushesWoken'
  OBVIOUS
<1>0. /\ pc \in [Caller -> PC] /\ call \in [Caller -> Fifo!Call] /\ Len(queue) \in Nat
      /\ queue \in Seq(Item) /\ Capacity \in Nat
      /\ \A t \in notEmpty : t \in Caller /\ pc[t] = "wait" /\ call[t].op \in Fifo!Pops
      /\ \A t \in notFull : t \in Caller /\ pc[t] = "wait" /\ call[t].op \in Fifo!Pushes
  BY QueueAssumption DEF QueueInv, TypeOK
<1>0a. Fifo!Pops \cap Fifo!Pushes = {}
  BY DEF Fifo!Pops, Fifo!Pushes
<1>1. ASSUME NEW t \in Caller, NEW op, NEW v, Begin(t, op, v) PROVE PushesWoken'
  <2>1. Pushers \subseteq Pushers'
    BY <1>0, <1>1 DEF Begin, Pushers, Runs
  <2> QED BY <1>1, <2>1, PushesWokenFrame DEF Begin
<1>2. ASSUME NEW t \in Caller, enqueue(t) PROVE PushesWoken'
  <2>1. Pushers' = Pushers \ {t} /\ t \in Pushers
    BY <1>0, <1>2 DEF enqueue, Answer, Pushers, Runs
  <2>2. Cardinality(Pushers') = Cardinality(Pushers) - 1 /\ Cardinality(Pushers) \in Nat
    BY <2>1, CallerSets, CountedSets
  <2>3. Len(queue') = Len(queue) + 1 /\ notFull' = notFull /\ closed' = closed
    BY <1>0, <1>2 DEF enqueue
  <2> QED BY <1>0, <2>2, <2>3 DEF PushesWoken
<1>3. ASSUME NEW t \in Caller, pushFails(t) \/ pushWaits(t) PROVE PushesWoken'
  <2>1. closed' \/ Len(queue') >= Capacity
    BY <1>3 DEF pushFails, pushWaits, is_full
  <2>2. Cardinality(Pushers') \in Nat /\ Len(queue') \in Nat
    BY <1>0, <1>3, CallerSets, CountedSets DEF pushFails, pushWaits
  <2> QED BY <1>0, <2>1, <2>2 DEF PushesWoken
<1>4. ASSUME NEW t \in Caller, notify_one(t) PROVE PushesWoken'
  <2>1. Pushers \subseteq Pushers'
    <3>1. CASE pc' = [pc EXCEPT ![t] = "return"]
      BY <1>0, <1>4, <3>1 DEF notify_one, Pushers, Runs
    <3>2. ASSUME NEW w \in notEmpty, pc' = [pc EXCEPT ![t] = "return", ![w] = "lock"]
          PROVE  Pushers \subseteq Pushers'
      BY <1>0, <1>4, <3>2 DEF notify_one, Pushers, Runs
    <3> QED BY <1>4, <3>1, <3>2 DEF notify_one
  <2> QED BY <1>4, <2>1, PushesWokenFrame DEF notify_one
<1>5. ASSUME NEW t \in Caller, dequeue(t) PROVE PushesWoken'
  <2>1. CASE notFull' = {}
    BY <2>1 DEF PushesWoken
  <2>2. ASSUME NEW w \in notFull, pc' = [pc EXCEPT ![t] = "return", ![w] = "lock"]
        PROVE  PushesWoken'
    <3>1. Pushers' = Pushers \cup {w} /\ w \in Caller \ Pushers
      BY <1>0, <1>0a, <1>5, <2>2 DEF dequeue, Answer, Pushers, Runs
    <3>2. Cardinality(Pushers') = Cardinality(Pushers) + 1 /\ Cardinality(Pushers) \in Nat
      BY <3>1, CallerSets, CountedSets
    <3>3. Len(queue') = Len(queue) - 1 /\ closed' = closed
      BY <1>0, <1>5 DEF dequeue
    <3> QED BY <1>0, <2>2, <3>2, <3>3 DEF PushesWoken
  <2> QED BY <1>5, <2>1, <2>2 DEF dequeue
<1>6. ASSUME NEW t \in Caller, popFails(t) PROVE PushesWoken'
  <2>1. Pushers' = Pushers
    BY <1>0, <1>0a, <1>6 DEF popFails, Answer, Pushers, Runs
  <2> QED BY <1>6, <2>1, PushesWokenFrame DEF popFails
<1>7. ASSUME NEW t \in Caller, popWaits(t) PROVE PushesWoken'
  <2>1. Pushers' = Pushers
    BY <1>0, <1>0a, <1>7 DEF popWaits, Pushers, Runs
  <2> QED BY <1>7, <2>1, PushesWokenFrame DEF popWaits
<1>8. ASSUME NEW t \in Caller, close(t) PROVE PushesWoken'
  BY <1>8 DEF close, PushesWoken
<1>9. ASSUME NEW t \in Caller, closeNotifiesEmpty(t) PROVE PushesWoken'
  <2>1. Pushers \subseteq Pushers'
    BY <1>0, <1>9 DEF closeNotifiesEmpty, Pushers, Runs
  <2> QED BY <1>9, <2>1, PushesWokenFrame DEF closeNotifiesEmpty
<1>10. ASSUME NEW t \in Caller, closeNotifiesFull(t) PROVE PushesWoken'
  BY <1>10 DEF closeNotifiesFull, PushesWoken
<1>11. ASSUME NEW t \in Caller, NEW place \in {"lock", "expired"}, leaveWait(t, place)
       PROVE  PushesWoken'
  <2>1. Pushers \subseteq Pushers'
    BY <1>0, <1>11 DEF leaveWait, Pushers, Runs
  <2> QED BY <1>11, <2>1, PushesWokenFrame DEF leaveWait
<1>12. ASSUME NEW t \in Caller, Finish(t) PROVE PushesWoken'
  <2>1. Pushers \subseteq Pushers'
    BY <1>0, <1>12 DEF Finish, Pushers, Runs
  <2> QED BY <1>12, <2>1, PushesWokenFrame DEF Finish
<1>13. CASE UNCHANGED vars
  BY <1>13 DEF PushesWoken, vars, Pushers, Runs
<1> QED
  BY NextCases, <1>1, <1>2, <1>3, <1>4, <1>5, <1>6, <1>7, <1>8, <1>9, <1>10, <1>11,
     <1>12, <1>13

\* Nobody begins to wait on a closed queue, and the two notify_all of close()
\* empty the condition variables one after the other.
LEMMA CloseWakesStep == QueueInv /\ CloseWakes /\ [Next]_vars => CloseWakes'
<1> SUFFICES ASSUME QueueInv, CloseWakes, [Next]_vars PROVE CloseWakes'
  OBVIOUS
<1>0. /\ pc \in [Caller -> PC]
      /\ \A t \in notEmpty \cup notFull : t \in Caller /\ pc[t] = "wait"
  BY DEF QueueInv, TypeOK
<1>1. ASSUME closed' => closed, closed => notEmpty' \subseteq notEmpty /\ notFull' \subseteq notFull,
             \A t \in Caller : pc[t] \in {"allEmpty", "allFull"} => pc'[t] = pc[t]
      PROVE  CloseWakes'
  BY <1>0, <1>1 DEF CloseWakes
<1>2. ASSUME NEW t \in Caller, NEW op, NEW v, Begin(t, op, v) PROVE CloseWakes'
  BY <1>0, <1>1, <1>2 DEF Begin
<1>3. ASSUME NEW t \in Caller,
             enqueue(t) \/ pushFails(t) \/ pushWaits(t) \/ popFails(t) \/ popWaits(t)
      PROVE  CloseWakes'
  BY <1>0, <1>1, <1>3 DEF enqueue, pushFails, pushWaits, popFails, popWaits, Runs
<1>4. ASSUME NEW t \in Caller, notify_one(t) PROVE CloseWakes'
  <2>1. \A u \in Caller : pc[u] \in {"allEmpty", "allFull"} => pc'[u] = pc[u]
    BY <1>0, <1>4 DEF notify_one
  <2> QED BY <1>1, <1>4, <2>1 DEF notify_one
<1>5. ASSUME NEW t \in Caller, dequeue(t) PROVE CloseWakes'
  <2>1. \A u \in Caller : pc[u] \in {"allEmpty", "allFull"} => pc'[u] = pc[u]
    BY <1>0, <1>5 DEF dequeue, Runs
  <2> QED BY <1>1, <1>5, <2>1 DEF dequeue
<1>6. ASSUME NEW t \in Caller, close(t) PROVE CloseWakes'
  <2>1. pc'[t] = "allEmpty"
    BY <1>0, <1>6 DEF close
  <2> QED BY <2>1 DEF CloseWakes
<1>7. ASSUME NEW t \in Caller, closeNotifiesEmpty(t) PROVE CloseWakes'
  <2>1. pc'[t] = "allFull"
    BY <1>0, <1>7 DEF closeNotifiesEmpty
  <2> QED BY <1>7, <2>1 DEF closeNotifiesEmpty, CloseWakes
<1>8. ASSUME NEW t \in Caller, closeNotifiesFull(t) PROVE CloseWakes'
  <2>1. \A u \in Caller : pc[u] = "allEmpty" => pc'[u] = "allEmpty"
    BY <1>0, <1>8 DEF closeNotifiesFull
  <2> QED BY <1>8, <2>1 DEF closeNotifiesFull, CloseWakes
<1>9. ASSUME NEW t \in Caller, NEW place \in {"lock", "expired"}, leaveWait(t, place)
      PROVE  CloseWakes'
  BY <1>0, <1>1, <1>9 DEF leaveWait
<1>10. ASSUME NEW t \in Caller, Finish(t) PROVE CloseWakes'
  BY <1>0, <1>1, <1>10 DEF Finish
<1>11. CASE UNCHANGED vars
  BY <1>11 DEF CloseWakes, vars
<1> QED
  BY NextCases, <1>2, <1>3, <1>4, <1>5, <1>6, <1>7, <1>8, <1>9, <1>10, <1>11

-----------------------------------------------------------------------------

\* The initial state: an empty open queue and no thread in a call.
LEMMA QueueInit == Init => QueueInv /\ NoLostWakeup
<1> SUFFICES ASSUME Init PROVE QueueInv /\ NoLostWakeup
  OBVIOUS
<1>1. TypeOK
  <2>1. queue \in Seq(Item) /\ call \in [Caller -> Fifo!Call] /\ pc \in [Caller -> PC]
    BY NoCallFields DEF Init, PC
  <2>2. \A t \in Caller : pc[t] # "wait"
    BY DEF Init
  <2>3. closed \in BOOLEAN /\ notEmpty = {} /\ notFull = {}
    BY DEF Init
  <2> QED BY <2>1, <2>2, <2>3 DEF TypeOK
<1>2. Places
  BY NoCallFields DEF Init, Places, Fifo!Pushes
<1>3. NoLostWakeup
  BY DEF Init, NoLostWakeup
<1> QED BY <1>1, <1>2, <1>3 DEF QueueInv

\* The types and the places of BlockingQueue hold in every state.
THEOREM QueueInvariant == Spec => []QueueInv
<1>1. Init => QueueInv
  BY QueueInit
<1> QED BY <1>1, TypeStep, PTL DEF Spec

\* Every value of BlockingQueue has its type, and a thread is in the condition
\* variable that fits its call exactly while it waits.
THEOREM QueueTypeCorrect == Spec => []TypeOK
<1>1. QueueInv => TypeOK
  BY DEF QueueInv
<1> QED BY <1>1, QueueInvariant, PTL

\* No wake-up of push, pop or close is lost, for every capacity and any number
\* of threads, although push notifies after it has released the mutex.
THEOREM WakeupsAreNotLost == Spec => []NoLostWakeup
<1>1. Init => NoLostWakeup
  BY QueueInit
<1>2. QueueInv /\ NoLostWakeup /\ [Next]_vars => NoLostWakeup'
  <2> SUFFICES ASSUME QueueInv, NoLostWakeup, [Next]_vars PROVE NoLostWakeup'
    OBVIOUS
  <2>1. PopsWoken' /\ PushesWoken' /\ CloseWakes'
    BY WakeupParts, PopsWokenStep, PushesWokenStep, CloseWakesStep
  <2> QED BY <2>1 DEF NoLostWakeup, PopsWoken, PushesWoken, CloseWakes
<1> QED BY <1>1, <1>2, QueueInvariant, PTL DEF Spec

-----------------------------------------------------------------------------
(* The queue implements the bounded FIFO, step by step.                    *)

\* A thread at its critical section has a pending call.
LEMMA RunsIsPending ==
  ASSUME QueueInv, NEW t \in Caller, NEW ops, Runs(t, ops)
  PROVE  Fifo!Pending(t, ops)
BY DEF Runs, QueueInv, Places, Fifo!Pending

\* Each critical section is one abstract operation; waiting, notifying,
\* expiring and waking for no reason are stuttering steps.
LEMMA FifoStep == QueueInv /\ [Next]_vars => [Fifo!Next]_(Fifo!vars)
<1> SUFFICES ASSUME QueueInv, [Next]_vars PROVE Fifo!Next \/ UNCHANGED Fifo!vars
  OBVIOUS
<1>1. ASSUME NEW t \in Caller, NEW op \in Fifo!Pushes, NEW v \in Item, Begin(t, op, v)
      PROVE  Fifo!Next
  <2>1. Fifo!Invoke(t, op, v)
    BY <1>1 DEF Begin, Fifo!Invoke, QueueInv, Places
  <2> QED BY <2>1 DEF Fifo!Next
<1>2. ASSUME NEW t \in Caller, NEW op \in Fifo!Pops \cup {"close"}, Begin(t, op, None)
      PROVE  Fifo!Next
  <2>1. Fifo!Invoke(t, op, None)
    BY <1>2 DEF Begin, Fifo!Invoke, QueueInv, Places
  <2> QED BY <2>1 DEF Fifo!Next
<1>3. ASSUME NEW t \in Caller, Fifo!TakeEffect(t) \/ Fifo!Return(t) PROVE Fifo!Next
  BY <1>3 DEF Fifo!Next
<1>4. ASSUME NEW t \in Caller, enqueue(t) PROVE Fifo!Next
  <2>1. Fifo!Put(t)
    BY <1>4, RunsIsPending DEF enqueue, is_full, Answer, Fifo!Put, Fifo!Full, Fifo!Answer
  <2> QED BY <1>3, <2>1 DEF Fifo!TakeEffect
<1>5. ASSUME NEW t \in Caller, pushFails(t) PROVE Fifo!Next
  <2>1. ~CanWait(t) => call[t].op # "push"
    BY <1>5 DEF pushFails, Runs, CanWait, Waits, QueueInv, Places, Timed
  <2>2. Fifo!Refuse(t)
    BY <1>5, <2>1, RunsIsPending
       DEF pushFails, is_full, Answer, Fifo!Refuse, Fifo!Full, Fifo!Answer
  <2> QED BY <1>3, <2>2 DEF Fifo!TakeEffect
<1>6. ASSUME NEW t \in Caller, dequeue(t) PROVE Fifo!Next
  <2>1. Fifo!Take(t)
    BY <1>6, RunsIsPending DEF dequeue, Answer, Fifo!Take, Fifo!Answer
  <2> QED BY <1>3, <2>1 DEF Fifo!TakeEffect
<1>7. ASSUME NEW t \in Caller, popFails(t) PROVE Fifo!Next
  <2>1. ~CanWait(t) => call[t].op # "pop"
    BY <1>7 DEF popFails, Runs, CanWait, Waits, QueueInv, Places, Timed
  <2>2. Fifo!Miss(t)
    BY <1>7, <2>1, RunsIsPending DEF popFails, Answer, Fifo!Miss, Fifo!Answer
  <2> QED BY <1>3, <2>2 DEF Fifo!TakeEffect
<1>8. ASSUME NEW t \in Caller, close(t) PROVE Fifo!Next
  <2>1. Fifo!Close(t)
    BY <1>8, RunsIsPending DEF close, Answer, Fifo!Close, Fifo!Answer
  <2> QED BY <1>3, <2>1 DEF Fifo!TakeEffect
<1>9. ASSUME NEW t \in Caller, Finish(t) PROVE Fifo!Next
  <2>1. Fifo!Return(t)
    BY <1>9 DEF Finish, Fifo!Return, QueueInv, Places
  <2> QED BY <1>3, <2>1
<1>10. ASSUME NEW t \in Caller,
              \/ pushWaits(t) \/ notify_one(t) \/ popWaits(t)
              \/ closeNotifiesEmpty(t) \/ closeNotifiesFull(t)
              \/ \E place \in {"lock", "expired"} : leaveWait(t, place)
       PROVE  UNCHANGED Fifo!vars
  BY <1>10 DEF pushWaits, notify_one, popWaits, closeNotifiesEmpty, closeNotifiesFull,
               leaveWait, Fifo!vars
<1>11. CASE UNCHANGED vars
  BY <1>11 DEF vars, Fifo!vars
<1> QED
  BY NextCases, <1>1, <1>2, <1>4, <1>5, <1>6, <1>7, <1>8, <1>9, <1>10, <1>11

\* BlockingQueue is a linearizable bounded FIFO that close() shuts for pushing:
\* the safety part of ImplementsFifo.
THEOREM QueueImplementsFifo == Spec => Fifo!Spec
<1>1. Init => Fifo!Init
  BY DEF Init, Fifo!Init
<1> QED BY <1>1, FifoStep, QueueInvariant, PTL DEF Spec, Fifo!Spec
=============================================================================
