-------------------------------- MODULE Queue --------------------------------
(***************************************************************************)
(* The blocking queue of lib/queue.c, used by several threads: queue_send, *)
(* queue_recv and the three queries, each a sequence of steps on the       *)
(* fields of struct queue_s under its mutex.  Threads take turns between   *)
(* any two accesses to shared memory, so nothing here relies on the mutex  *)
(* working: that it does is a property (LockDiscipline).                   *)
(*                                                                         *)
(* Elements are opaque values and the pointers p_write and p_read count    *)
(* elements from p_head.  queue_empty_wait is added by module QueueDrain.  *)
(***************************************************************************)
EXTENDS Integers, Sequences

CONSTANTS
  Threads, Senders, Receivers, Queriers,  \* who calls queue_send, queue_recv, the queries
  Limited, MaxCalls,                      \* Limited threads make at most MaxCalls calls
  Cancellable,                            \* threads another thread may pthread_cancel
  Values, NoVal,                          \* elements; NoVal is no element
  NoThread,                               \* the mutex is free
  nmemb, SizeMax,                         \* capacity; largest size_t
  Deadlines                               \* kinds of timeout the callers pass

ASSUME QueueAssumption ==
  /\ Senders \subseteq Threads /\ Receivers \subseteq Threads
  /\ Queriers \subseteq Threads /\ NoThread \notin Threads
  /\ MaxCalls \in Nat
  /\ NoVal \notin Values
  /\ nmemb \in Nat \ {0} /\ SizeMax \in Nat /\ nmemb <= SizeMax
  /\ Deadlines \subseteq {"future", "past", "invalid"}

VARIABLES
  lock,            \* owner of q->lock
  avail, p_write, p_read, buf,
  pc,              \* where each thread is
  op,              \* the operation it called last
  val,             \* *p of a send or recv, the answer of a query
  tmp,             \* avail as loaded by avail++ or avail--
  ret,             \* result of the last pthread_cond_timedwait
  deadline,        \* the absolute time ts, relative to now
  calls,           \* calls made by Limited threads
  cancelled        \* threads with a pending pthread_cancel

queueVars == <<avail, p_write, p_read, buf>>
waitVars  == <<ret, deadline>>
callVars  == <<op, calls>>
vars == <<lock, queueVars, pc, val, tmp, waitVars, callVars, cancelled>>

Slots == 0..(nmemb - 1)
p_head == 0
p_tail == nmemb - 1
Queries == {"is_empty", "is_full", "space_available"}

Goto(t, l) == pc' = [pc EXCEPT ![t] = l]
-----------------------------------------------------------------------------
(* The fields and what the _locked helpers read from them.                 *)

queue_is_empty_locked == avail = 0
queue_is_full_locked  == nmemb = avail

\* The answer to each query, an int.
Answer_OffByOne(o) == IF o = "space_available" THEN nmemb - avail + 1 ELSE 0
Answer(o) ==
  IF o = "is_empty" THEN IF queue_is_empty_locked THEN 1 ELSE 0
  ELSE IF o = "is_full" THEN IF queue_is_full_locked THEN 1 ELSE 0
  ELSE nmemb - avail

\* The condition under which operation o waits.
Blocked(o) ==
  \/ o = "send" /\ queue_is_full_locked
  \/ o = "recv" /\ queue_is_empty_locked
  \/ o = "empty_wait" /\ ~queue_is_empty_locked

NextSlot_NoWrap(p) == p + 1
NextSlot(p) == IF p = p_tail THEN p_head ELSE p + 1

\* size_t arithmetic of avail++ and avail--.
Inc(n) == IF n = SizeMax THEN 0 ELSE n + 1
Dec(n) == IF n = 0 THEN SizeMax ELSE n - 1

\* Each condition variable is named by the operation that waits on it:
\* cond_write by "send", cond_read by "recv", cond_empty by "empty_wait".
Waiting(o) == {u \in Threads : pc[u] = "parked" /\ op[u] = o}
Woken(o) == [u \in Threads |-> IF u \in Waiting(o) THEN "relock" ELSE pc[u]]

\* The waiters a successful call wakes: a send wakes receivers.
Peer_Own(o) == o
Peer(o) == IF o = "send" THEN "recv" ELSE "send"
-----------------------------------------------------------------------------
Init ==
  /\ lock = NoThread
  /\ avail = 0 /\ p_write = p_head /\ p_read = p_head
  /\ buf = [s \in Slots |-> NoVal]
  /\ pc = [t \in Threads |-> "idle"]
  /\ op = [t \in Threads |-> "none"]
  /\ val = [t \in Threads |-> NoVal]
  /\ tmp = [t \in Threads |-> 0]
  /\ ret = [t \in Threads |-> "0"]
  /\ deadline = [t \in Threads |-> "none"]
  /\ calls = [t \in Threads |-> 0]
  /\ cancelled = {}

\* A thread between two calls makes another one.
Begin(t, o, v, d, l) ==
  /\ pc[t] = "idle" /\ t \notin cancelled
  /\ t \in Limited => calls[t] < MaxCalls
  /\ calls' = [calls EXCEPT ![t] = IF t \in Limited THEN @ + 1 ELSE @]
  /\ op' = [op EXCEPT ![t] = o]
  /\ val' = [val EXCEPT ![t] = v]
  /\ deadline' = [deadline EXCEPT ![t] = d]
  /\ Goto(t, l)
  /\ UNCHANGED <<lock, queueVars, tmp, ret, cancelled>>

CallSend(t)  == t \in Senders   /\ \E v \in Values, d \in Deadlines : Begin(t, "send", v, d, "lock")
CallRecv(t)  == t \in Receivers /\ \E d \in Deadlines : Begin(t, "recv", NoVal, d, "lock")
CallQuery(t) == t \in Queriers  /\ \E o \in Queries : Begin(t, o, NoVal, "none", "lock")
Call(t) == CallSend(t) \/ CallRecv(t) \/ CallQuery(t)

Lock_Forgotten(t) ==
  /\ pc[t] = "lock"
  /\ Goto(t, "check")
  /\ UNCHANGED <<lock, queueVars, val, tmp, waitVars, callVars, cancelled>>
\* pthread_mutex_lock
Lock(t) ==
  /\ pc[t] = "lock" /\ lock = NoThread
  /\ lock' = t
  /\ Goto(t, "check")
  /\ UNCHANGED <<queueVars, val, tmp, waitVars, callVars, cancelled>>

Query(t) ==
  /\ pc[t] = "check" /\ op[t] \in Queries
  /\ val' = [val EXCEPT ![t] = Answer(op[t])]
  /\ Goto(t, "unlock")
  /\ UNCHANGED <<lock, queueVars, tmp, waitVars, callVars, cancelled>>

Check_Unguarded(t) ==
  /\ pc[t] = "check" /\ op[t] \in {"send", "recv"}
  /\ Goto(t, "copy")
  /\ UNCHANGED <<lock, queueVars, val, tmp, waitVars, callVars, cancelled>>
\* The first half of "if(blocked && wait(q, timeout))".
Check(t) ==
  /\ pc[t] = "check" /\ op[t] \in {"send", "recv"}
  /\ Goto(t, IF Blocked(op[t]) THEN "loop" ELSE "copy")
  /\ UNCHANGED <<lock, queueVars, val, tmp, waitVars, callVars, cancelled>>

\* while(blocked && ret == 0)
Loop(t) ==
  /\ pc[t] = "loop"
  /\ Goto(t, IF Blocked(op[t]) /\ ret[t] = "0" THEN "wait" ELSE "result")
  /\ UNCHANGED <<lock, queueVars, val, tmp, waitVars, callVars, cancelled>>

\* pthread_cond_timedwait releases the mutex and blocks in one step; with a
\* malformed deadline it returns at once, the mutex still held.
Wait(t) ==
  /\ pc[t] = "wait"
  /\ \/ /\ deadline[t] # "invalid"
        /\ lock' = NoThread
        /\ Goto(t, "parked")
        /\ UNCHANGED ret
     \/ /\ deadline[t] = "invalid"
        /\ ret' = [ret EXCEPT ![t] = "EINVAL"]
        /\ Goto(t, "loop")
        /\ UNCHANGED lock
  /\ UNCHANGED <<queueVars, val, tmp, deadline, callVars, cancelled>>

\* Real time passes the deadline of a waiting call.
Expire(t) ==
  /\ pc[t] \in {"loop", "wait", "parked", "relock"} /\ deadline[t] = "future"
  /\ deadline' = [deadline EXCEPT ![t] = "past"]
  /\ UNCHANGED <<lock, queueVars, pc, val, tmp, ret, callVars, cancelled>>

Timeout(t) ==
  /\ pc[t] = "parked" /\ deadline[t] = "past"
  /\ ret' = [ret EXCEPT ![t] = "ETIMEDOUT"]
  /\ Goto(t, "relock")
  /\ UNCHANGED <<lock, queueVars, val, tmp, deadline, callVars, cancelled>>

\* A wakeup without a broadcast, which POSIX allows before the deadline.
Spurious(t) ==
  /\ pc[t] = "parked" /\ deadline[t] = "future"
  /\ Goto(t, "relock")
  /\ UNCHANGED <<lock, queueVars, val, tmp, waitVars, callVars, cancelled>>

\* pthread_cond_timedwait takes the mutex again before it returns.
Relock(t) ==
  /\ pc[t] = "relock" /\ lock = NoThread
  /\ lock' = t
  /\ Goto(t, "loop")
  /\ UNCHANGED <<queueVars, val, tmp, waitVars, callVars, cancelled>>

Result_TrustsRet(t) ==
  /\ pc[t] = "result" /\ op[t] \in {"send", "recv"}
  /\ Goto(t, IF ret[t] = "0" THEN "copy" ELSE IF op[t] = "recv" THEN "fail" ELSE "refuse")
  /\ UNCHANGED <<lock, queueVars, val, tmp, waitVars, callVars, cancelled>>
\* "return blocked" of the wait function, not its ret, decides the call.
Result(t) ==
  /\ pc[t] = "result" /\ op[t] \in {"send", "recv"}
  /\ Goto(t, IF ~Blocked(op[t]) THEN "copy" ELSE IF op[t] = "recv" THEN "fail" ELSE "refuse")
  /\ UNCHANGED <<lock, queueVars, val, tmp, waitVars, callVars, cancelled>>

\* memcpy into or out of the ring.
Copy(t) ==
  /\ pc[t] = "copy"
  /\ \/ /\ op[t] = "send"
        /\ buf' = [buf EXCEPT ![p_write] = val[t]]
        /\ UNCHANGED val
     \/ /\ op[t] = "recv"
        /\ val' = [val EXCEPT ![t] = buf[p_read]]
        /\ UNCHANGED buf
  /\ Goto(t, "advance")
  /\ UNCHANGED <<lock, avail, p_write, p_read, tmp, waitVars, callVars, cancelled>>

Advance(t) ==
  /\ pc[t] = "advance"
  /\ \/ op[t] = "send" /\ p_write' = NextSlot(p_write) /\ UNCHANGED p_read
     \/ op[t] = "recv" /\ p_read' = NextSlot(p_read) /\ UNCHANGED p_write
  /\ Goto(t, "load")
  /\ UNCHANGED <<lock, avail, buf, val, tmp, waitVars, callVars, cancelled>>

\* avail++ and avail-- are a load and a store.
Load(t) ==
  /\ pc[t] = "load"
  /\ tmp' = [tmp EXCEPT ![t] = avail]
  /\ Goto(t, "store")
  /\ UNCHANGED <<lock, queueVars, val, waitVars, callVars, cancelled>>

Store(t) ==
  /\ pc[t] = "store"
  /\ avail' = IF op[t] = "send" THEN Inc(tmp[t]) ELSE Dec(tmp[t])
  /\ tmp' = [tmp EXCEPT ![t] = 0]
  /\ Goto(t, "signal")
  /\ UNCHANGED <<lock, p_write, p_read, buf, val, waitVars, callVars, cancelled>>

\* pthread_cond_broadcast
Signal(t) ==
  /\ pc[t] = "signal"
  /\ pc' = [Woken(Peer(op[t])) EXCEPT ![t] = "unlock"]
  /\ UNCHANGED <<lock, queueVars, val, tmp, waitVars, callVars, cancelled>>

Fail_Silent(t) ==
  /\ pc[t] = "fail"
  /\ Goto(t, "refuse")
  /\ UNCHANGED <<lock, queueVars, val, tmp, waitVars, callVars, cancelled>>
\* A receive that found nothing wakes the threads waiting for that.
Fail(t) ==
  /\ pc[t] = "fail"
  /\ pc' = [Woken("empty_wait") EXCEPT ![t] = "refuse"]
  /\ UNCHANGED <<lock, queueVars, val, tmp, waitVars, callVars, cancelled>>

\* pthread_mutex_unlock and return; "refuse" returns -1.
Unlock(t) ==
  /\ pc[t] \in {"unlock", "refuse"}
  /\ lock' = NoThread
  /\ ret' = [ret EXCEPT ![t] = "0"]
  /\ deadline' = [deadline EXCEPT ![t] = "none"]
  /\ Goto(t, "idle")
  /\ UNCHANGED <<queueVars, val, tmp, callVars, cancelled>>

\* pthread_cancel by some other thread, at any time.
Cancel(t) ==
  /\ t \in Cancellable \ cancelled
  /\ cancelled' = cancelled \cup {t}
  /\ UNCHANGED <<lock, queueVars, pc, val, tmp, waitVars, callVars>>

CancelDisabled_Never(t) == FALSE
\* PTHREAD_CANCEL_DISABLE holds from the start of a wait function to its end.
CancelDisabled(t) == pc[t] \in {"loop", "wait", "parked", "relock"}

\* A pending cancellation acts at a cancellation point: outside the library
\* (usleep, printf), or inside pthread_cond_timedwait, which would take the
\* mutex again and end the thread with it.
Die(t) ==
  /\ t \in cancelled /\ ~CancelDisabled(t)
  /\ pc[t] \in {"idle", "parked"}
  /\ pc[t] = "parked" => lock = NoThread
  /\ lock' = IF pc[t] = "parked" THEN t ELSE lock
  /\ Goto(t, "dead")
  /\ UNCHANGED <<queueVars, val, tmp, waitVars, callVars, cancelled>>
-----------------------------------------------------------------------------
\* The steps a thread takes by itself once it runs.
Step(t) ==
  \/ Lock(t) \/ Query(t) \/ Check(t) \/ Loop(t) \/ Wait(t) \/ Timeout(t)
  \/ Relock(t) \/ Result(t) \/ Copy(t) \/ Advance(t) \/ Load(t) \/ Store(t)
  \/ Signal(t) \/ Fail(t) \/ Unlock(t) \/ Die(t)

Next ==
  \E t \in Threads : Call(t) \/ Step(t) \/ Expire(t) \/ Spurious(t) \/ Cancel(t)

Spec == Init /\ [][Next]_vars

\* Running threads are scheduled and time passes.
Fairness == \A t \in Threads : WF_vars(Step(t)) /\ WF_vars(Expire(t))
FairSpec == Spec /\ Fairness
-----------------------------------------------------------------------------
(* Properties                                                              *)

Updating == {"copy", "advance", "load", "store"}
Critical == {"check", "loop", "wait", "result", "signal", "fail", "refuse", "unlock"} \cup Updating
Locations == Critical \cup {"idle", "lock", "parked", "relock", "dead"}

\* Every field keeps its type; in particular the two pointers stay inside
\* the ring and avail never leaves 0..nmemb (queue_send, queue_recv).
TypeOK ==
  /\ lock \in Threads \cup {NoThread}
  /\ avail \in 0..nmemb /\ p_write \in Slots /\ p_read \in Slots
  /\ buf \in [Slots -> Values \cup {NoVal}]
  /\ pc \in [Threads -> Locations]
  /\ op \in [Threads -> Queries \cup {"none", "send", "recv"}]
  /\ val \in [Threads -> Values \cup {NoVal} \cup Int]
  /\ tmp \in [Threads -> 0..nmemb]
  /\ ret \in [Threads -> {"0", "ETIMEDOUT", "EINVAL"}]
  /\ deadline \in [Threads -> Deadlines \cup {"none", "past"}]
  /\ calls \in [Threads -> Nat]
  /\ cancelled \subseteq Threads

\* A thread owns the mutex exactly while it is between the lock and the
\* unlock of its call: no two threads touch the ring at once, and a thread
\* that is cancelled leaves the mutex free (the setcancelstate pairs).
LockDiscipline == \A t \in Threads : pc[t] \in Critical <=> lock = t

\* A thread sleeps in pthread_cond_timedwait only while what it waits for
\* has not happened, or the thread that made it happen is about to broadcast.
NoLostWakeup ==
  \A t \in Threads :
    pc[t] = "parked" =>
      Blocked(op[t]) \/ \E u \in Threads : pc[u] = "signal" /\ Peer(op[u]) = op[t]

\* The i-th slot from p in ring order, 0 <= i <= nmemb.
Slot(p, i) == IF p + i < nmemb THEN p + i ELSE p + i - nmemb

\* Whenever no call is in the middle of moving an element, avail is the
\* number of elements from the read pointer to the write pointer.
AvailCountsMessages ==
  (\A t \in Threads : pc[t] \notin Updating) =>
    avail <= nmemb /\ p_write = Slot(p_read, avail)

\* A query's answer goes stale as other threads run, but not against its
\* only user: the room a sole sender was told of stays, and a message a sole
\* receiver was told of stays, until it makes its next call.
SoleCallerQuery ==
  \A t \in Threads :
    pc[t] \in {"unlock", "idle"} =>
      /\ Senders = {t} /\ op[t] = "space_available" => val[t] <= nmemb - avail
      /\ Receivers = {t} /\ op[t] = "is_empty" => (val[t] = 0 => avail > 0)

\* Every call returns, whatever the other threads do and even when they are
\* cancelled: no lost wakeup, no mutex left locked, no wait past its deadline.
EveryCallReturns ==
  \A t \in Threads : pc[t] # "idle" ~> pc[t] \in {"idle", "dead"}
-----------------------------------------------------------------------------
(* Refinement of QueueFifo.  A call takes effect when it stores avail.  At  *)
(* that moment a receive has already moved p_read, so the oldest message   *)
(* is one slot back while a receive is between Advance and Store.          *)

Taking == \E t \in Threads : op[t] = "recv" /\ pc[t] \in {"load", "store"}
FirstSlot == IF ~Taking THEN p_read ELSE IF p_read = p_head THEN p_tail ELSE p_read - 1
Items == [i \in 1..avail |-> buf[Slot(FirstSlot, i - 1)]]

StageOf(l) ==
  IF l \in {"idle", "dead"} THEN l
  ELSE IF l \in {"signal", "unlock", "answered"} THEN "done"
  ELSE IF l \in {"fail", "refuse"} THEN "refused" ELSE "pending"
Stage == [t \in Threads |-> StageOf(pc[t])]
Result_val == [t \in Threads |->
                 IF op[t] = "recv" /\ Stage[t] = "pending" THEN NoVal ELSE val[t]]

Fifo == INSTANCE QueueFifo WITH
          items <- Items, stage <- Stage, call <- op, val <- Result_val

\* The queue is a bounded FIFO in which every call takes effect atomically;
\* it refuses a send only when full and a receive only when empty.
ImplementsFifo == Fifo!Spec
=============================================================================
