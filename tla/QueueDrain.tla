----------------------------- MODULE QueueDrain -----------------------------
(***************************************************************************)
(* queue_empty_wait, and the program of examples/queue_multithreaded that  *)
(* uses it: main fills the queue, starts readers, sends as much again,     *)
(* waits for the queue to drain, asks for the space in it, then cancels    *)
(* and joins the readers.                                                  *)
(*                                                                         *)
(* queue_empty_wait never locks the mutex it hands to pthread_cond_timed-  *)
(* wait and to pthread_mutex_unlock.  POSIX leaves that undefined; a       *)
(* default glibc mutex has no owner check and is simply released, whoever  *)
(* holds it, which is what Wait and DrainUnlock do here.                   *)
(***************************************************************************)
EXTENDS Queue

CONSTANT main

VARIABLE status   \* of the process: "running", or the way main has returned
drainVars == <<vars, status>>

\* The program: main sends and the readers receive.
DrainProgram ==
  /\ Senders = {main} /\ Limited = {main} /\ main \notin Receivers
  /\ Threads = Receivers \cup {main}
  /\ MaxCalls = 2 * nmemb                 \* ELEMENT_COUNT is both
-----------------------------------------------------------------------------
\* main has returned from its last send.
Sent == calls[main] = MaxCalls /\ pc[main] = "idle"

\* The last queue_empty_wait of main returned 0.
Drained == Sent /\ op[main] = "empty_wait" /\ val[main] = 0

\* The readers run once the queue has been filled.
Started == calls[main] > nmemb \/ (calls[main] = nmemb /\ pc[main] = "idle")

\* queue_space_available has answered.
CleaningUp == Sent /\ op[main] = "space_available"

\* while(queue_empty_wait(q, 1000))
CallDrain ==
  /\ Sent /\ ~Drained /\ ~CleaningUp
  /\ op' = [op EXCEPT ![main] = "empty_wait"]
  /\ val' = [val EXCEPT ![main] = NoVal]
  /\ \E d \in Deadlines : deadline' = [deadline EXCEPT ![main] = d]
  /\ Goto(main, "loop")
  /\ UNCHANGED <<lock, queueVars, tmp, ret, calls, cancelled>>

DrainUnlock ==
  /\ pc[main] = "result" /\ op[main] = "empty_wait"
  /\ lock' = NoThread
  /\ Goto(main, "answer")
  /\ UNCHANGED <<queueVars, val, tmp, waitVars, callVars, cancelled>>

DrainAnswer_IgnoresTimeout ==
  /\ pc[main] = "answer"
  /\ val' = [val EXCEPT ![main] = 0]
  /\ Goto(main, "answered")
  /\ UNCHANGED <<lock, queueVars, tmp, waitVars, callVars, cancelled>>
\* return !queue_is_empty_locked(q), after the unlock.
DrainAnswer ==
  /\ pc[main] = "answer"
  /\ val' = [val EXCEPT ![main] = IF queue_is_empty_locked THEN 0 ELSE 1]
  /\ Goto(main, "answered")
  /\ UNCHANGED <<lock, queueVars, tmp, waitVars, callVars, cancelled>>

DrainReturn ==
  /\ pc[main] = "answered"
  /\ ret' = [ret EXCEPT ![main] = "0"]
  /\ deadline' = [deadline EXCEPT ![main] = "none"]
  /\ Goto(main, "idle")
  /\ UNCHANGED <<lock, queueVars, val, tmp, callVars, cancelled>>

\* queue_space_available(q): main calls it, and from Lock on it is a query
\* like any other.
CallSpace ==
  /\ Drained
  /\ op' = [op EXCEPT ![main] = "space_available"]
  /\ val' = [val EXCEPT ![main] = NoVal]
  /\ Goto(main, "lock")
  /\ UNCHANGED <<lock, queueVars, tmp, waitVars, calls, cancelled>>

\* pthread_cancel of a reader, the readers before it having been joined.
CancelReader(r) ==
  /\ CleaningUp /\ r \in Receivers
  /\ \A u \in cancelled : pc[u] = "dead"
  /\ Cancel(r)

\* The steps of main that are its own program, not the queue's.
Main == CallDrain \/ DrainUnlock \/ DrainAnswer \/ DrainReturn \/ CallSpace
        \/ \E r \in Receivers : CancelReader(r)

CallReader(r) == Started /\ CallRecv(r)

\* The steps on the queue.
DrainStep ==
  \/ Main \/ CallSend(main)
  \/ \E r \in Receivers : CallReader(r)
  \/ \E t \in Threads : Step(t) \/ Expire(t) \/ Spurious(t)

\* pthread_create of a reader fails: main returns -1, and the process ends
\* with the readers it has already started, wherever they are.
CreateFails ==
  /\ calls[main] = nmemb /\ pc[main] = "idle"
  /\ \E r \in Receivers : op[r] = "none"
  /\ status' = "failed"
  /\ UNCHANGED vars

\* The last reader is joined and main returns 0.
MainReturns ==
  /\ CleaningUp /\ \A r \in Receivers : pc[r] = "dead"
  /\ status' = "returned"
  /\ UNCHANGED vars

DrainInit == Init /\ status = "running"

Running(A) == status = "running" /\ A /\ UNCHANGED status

DrainNext == Running(DrainStep) \/ (status = "running" /\ (CreateFails \/ MainReturns))

DrainSpec == DrainInit /\ [][DrainNext]_drainVars

\* Threads are scheduled, readers call queue_recv for ever and their 100 ms
\* pass; a thread waiting for the mutex gets it sooner or later, since the
\* readers sleep between calls.  Nothing is assumed of main's own timeout.
DrainFairness ==
  /\ WF_drainVars(Running(Main)) /\ WF_drainVars(Running(CallSend(main)))
  /\ WF_drainVars(status = "running" /\ MainReturns)
  /\ \A t \in Threads :
       /\ WF_drainVars(Running(Step(t)))
       /\ SF_drainVars(Running(Lock(t))) /\ SF_drainVars(Running(Relock(t)))
  /\ \A r \in Receivers :
       WF_drainVars(Running(CallReader(r))) /\ WF_drainVars(Running(Expire(r)))
DrainFairSpec == DrainSpec /\ DrainFairness
-----------------------------------------------------------------------------
(* Properties                                                              *)

\* When queue_empty_wait has told main that the queue is empty, every
\* message a send accepted has been received and no reader is still moving
\* one, and this stays so through the query up to the cancels: the space
\* main prints is the whole queue, and cancelling loses no message.
DrainedIsEmpty ==
  /\ Drained \/ CleaningUp => avail = 0 /\ p_read = p_write
  /\ CleaningUp => val[main] = nmemb

\* Unless a reader cannot be started the program ends: the sends return,
\* queue_empty_wait notices the empty queue through the broadcast of a
\* receive that found nothing, main gets the mutex for its last query, and
\* the readers, never cancelled while they hold it, can all be joined.
ProgramEnds == <>(status # "running")
=============================================================================
