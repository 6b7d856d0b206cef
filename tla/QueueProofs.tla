----------------------------- MODULE QueueProofs -----------------------------
(***************************************************************************)
(* The safety of module Queue for every number of threads, every capacity  *)
(* and every kind of timeout.                                              *)
(*                                                                         *)
(* None of the invariants but LockDiscipline is inductive by itself.  The  *)
(* strengthening IInv says what a thread inside a call knows: which call   *)
(* it is in (CallInv), that the condition it tested still holds            *)
(* (CountInv), and how far the pointers are from avail (RingInv).          *)
(*                                                                         *)
(* The second part shows that Queue implements QueueFifo: Store is the     *)
(* instant at which a send or a receive takes effect, Result the one at    *)
(* which it is refused, Query the one at which a query is answered; every  *)
(* other step of a call is invisible.                                      *)
(*                                                                         *)
(* The last part does both for QueueDrain with one reader.                 *)
(***************************************************************************)
EXTENDS QueueDrain, SequenceTheorems, TLAPS

Waits == {"loop", "wait", "parked", "relock", "result"}
Moves == {"load", "store"}

\* Only queue_send and queue_recv wait, move an element or are refused; a
\* sender keeps the element it was given.
CallInv ==
  \A t \in Threads :
    /\ pc[t] \in Waits \cup Updating \cup {"signal", "fail", "refuse"} => op[t] \in {"send", "recv"}
    /\ op[t] = "send" => t \in Senders /\ val[t] \in Values
    /\ op[t] = "recv" => t \in Receivers

\* Between its test and its store of avail a call relies on the test.
CountInv ==
  \A t \in Threads :
    /\ pc[t] \in Updating => ~Blocked(op[t])
    /\ pc[t] = "wait" => Blocked(op[t])
    /\ pc[t] = "store" => tmp[t] = avail

PrevSlot(p) == IF p = p_head THEN p_tail ELSE p - 1

\* The write pointer is avail slots after the read pointer, except that a
\* call which has moved its pointer has not stored avail yet.
RingInv ==
  /\ (\A t \in Threads : pc[t] \notin Moves) => p_write = Slot(p_read, avail)
  /\ \A t \in Threads : pc[t] \in Moves =>
       /\ op[t] = "send" => p_write = NextSlot(Slot(p_read, avail))
       /\ op[t] = "recv" => p_write = Slot(PrevSlot(p_read), avail)

\* The answer of a query is a number until its thread calls again.
QueryInv ==
  \A t \in Threads :
    pc[t] \in {"unlock", "idle"} /\ op[t] \in Queries => val[t] \in Int

IInv ==
  /\ TypeOK /\ LockDiscipline /\ CallInv /\ CountInv /\ RingInv
  /\ NoLostWakeup /\ QueryInv /\ SoleCallerQuery
-----------------------------------------------------------------------------
(* The ring and its counter.                                               *)

\* Walking the ring: one slot past the i-th is the (i+1)-th, and moving the
\* start of the walk forward shortens it by one (the wrap of queue_send and
\* queue_recv at p_tail).
LEMMA RingWalk ==
  ASSUME NEW p \in Slots, NEW i \in 0..nmemb
  PROVE  /\ Slot(p, i) \in Slots
         /\ NextSlot(p) \in Slots /\ PrevSlot(p) \in Slots
         /\ PrevSlot(NextSlot(p)) = p /\ NextSlot(PrevSlot(p)) = p
         /\ i < nmemb => NextSlot(Slot(p, i)) = Slot(p, i + 1)
         /\ i > 0 => Slot(NextSlot(p), i - 1) = Slot(p, i)
BY QueueAssumption DEF QueueAssumption, Slots, Slot, NextSlot, PrevSlot, p_head, p_tail

\* A call that passed its test stores a count within the capacity.
LEMMA StoredCount ==
  ASSUME NEW n \in 0..nmemb
  PROVE  /\ n # nmemb => Inc(n) = n + 1 /\ Inc(n) \in 0..nmemb
         /\ n # 0 => Dec(n) = n - 1 /\ Dec(n) \in 0..nmemb
BY QueueAssumption DEF QueueAssumption, Inc, Dec

-----------------------------------------------------------------------------
(* Each part of IInv is preserved by every step, given the parts before it. *)

\* The mutex: a thread enters and leaves Critical with the lock, and a
\* cancelled thread never dies inside a wait.
LEMMA LockStep ==
  ASSUME TypeOK, LockDiscipline, [Next]_vars
  PROVE  LockDiscipline'
<1> USE QueueAssumption DEF QueueAssumption, TypeOK, Locations, LockDiscipline,
       Critical, Updating, Goto, queueVars, waitVars, callVars
<1>1. ASSUME NEW t \in Threads, CallSend(t) PROVE LockDiscipline'
  BY <1>1 DEF CallSend, Begin
<1>2. ASSUME NEW t \in Threads, CallRecv(t) PROVE LockDiscipline'
  BY <1>2 DEF CallRecv, Begin
<1>3. ASSUME NEW t \in Threads, CallQuery(t) PROVE LockDiscipline'
  BY <1>3 DEF CallQuery, Begin
<1>4. ASSUME NEW t \in Threads, Lock(t) PROVE LockDiscipline'
  BY <1>4 DEF Lock
<1>5. ASSUME NEW t \in Threads, Query(t) PROVE LockDiscipline'
  BY <1>5 DEF Query
<1>6. ASSUME NEW t \in Threads, Check(t) PROVE LockDiscipline'
  BY <1>6 DEF Check
<1>7. ASSUME NEW t \in Threads, Loop(t) PROVE LockDiscipline'
  BY <1>7 DEF Loop
<1>8. ASSUME NEW t \in Threads, Wait(t) PROVE LockDiscipline'
  BY <1>8 DEF Wait
<1>9. ASSUME NEW t \in Threads, Timeout(t) PROVE LockDiscipline'
  BY <1>9 DEF Timeout
<1>10. ASSUME NEW t \in Threads, Relock(t) PROVE LockDiscipline'
  BY <1>10 DEF Relock
<1>11. ASSUME NEW t \in Threads, Result(t) PROVE LockDiscipline'
  BY <1>11 DEF Result
<1>12. ASSUME NEW t \in Threads, Copy(t) PROVE LockDiscipline'
  BY <1>12 DEF Copy
<1>13. ASSUME NEW t \in Threads, Advance(t) PROVE LockDiscipline'
  BY <1>13 DEF Advance
<1>14. ASSUME NEW t \in Threads, Load(t) PROVE LockDiscipline'
  BY <1>14 DEF Load
<1>15. ASSUME NEW t \in Threads, Store(t) PROVE LockDiscipline'
  BY <1>15 DEF Store
<1>16. ASSUME NEW t \in Threads, Signal(t) PROVE LockDiscipline'
  BY <1>16 DEF Signal, Woken, Waiting, Peer
<1>17. ASSUME NEW t \in Threads, Fail(t) PROVE LockDiscipline'
  BY <1>17 DEF Fail, Woken, Waiting
<1>18. ASSUME NEW t \in Threads, Unlock(t) PROVE LockDiscipline'
  BY <1>18 DEF Unlock
<1>19. ASSUME NEW t \in Threads, Die(t) PROVE LockDiscipline'
  BY <1>19 DEF Die, CancelDisabled
<1>20. ASSUME NEW t \in Threads, Expire(t) PROVE LockDiscipline'
  BY <1>20 DEF Expire
<1>21. ASSUME NEW t \in Threads, Spurious(t) PROVE LockDiscipline'
  BY <1>21 DEF Spurious
<1>22. ASSUME NEW t \in Threads, Cancel(t) PROVE LockDiscipline'
  BY <1>22 DEF Cancel
<1>23. CASE UNCHANGED vars
  BY <1>23 DEF vars
<1>24. QED
  BY <1>1, <1>2, <1>3, <1>4, <1>5, <1>6, <1>7, <1>8, <1>9, <1>10, <1>11, <1>12, <1>13,
     <1>14, <1>15, <1>16, <1>17, <1>18, <1>19, <1>20, <1>21, <1>22, <1>23 DEF Next,
     Call, Step

\* The operation of a thread is settled when its call begins.
LEMMA CallStep ==
  ASSUME TypeOK, CallInv, [Next]_vars
  PROVE  CallInv'
<1> USE QueueAssumption DEF QueueAssumption, TypeOK, CallInv, Queries, Updating, Waits,
       Goto, queueVars, waitVars, callVars
<1>1. ASSUME NEW t \in Threads, CallSend(t) PROVE CallInv'
  BY <1>1 DEF CallSend, Begin
<1>2. ASSUME NEW t \in Threads, CallRecv(t) PROVE CallInv'
  BY <1>2 DEF CallRecv, Begin
<1>3. ASSUME NEW t \in Threads, CallQuery(t) PROVE CallInv'
  BY <1>3 DEF CallQuery, Begin
<1>4. ASSUME NEW t \in Threads, Lock(t) PROVE CallInv'
  BY <1>4 DEF Lock
<1>5. ASSUME NEW t \in Threads, Query(t) PROVE CallInv'
  BY <1>5 DEF Query
<1>6. ASSUME NEW t \in Threads, Check(t) PROVE CallInv'
  BY <1>6 DEF Check
<1>7. ASSUME NEW t \in Threads, Loop(t) PROVE CallInv'
  BY <1>7 DEF Loop
<1>8. ASSUME NEW t \in Threads, Wait(t) PROVE CallInv'
  BY <1>8 DEF Wait
<1>9. ASSUME NEW t \in Threads, Timeout(t) PROVE CallInv'
  BY <1>9 DEF Timeout
<1>10. ASSUME NEW t \in Threads, Relock(t) PROVE CallInv'
  BY <1>10 DEF Relock
<1>11. ASSUME NEW t \in Threads, Result(t) PROVE CallInv'
  BY <1>11 DEF Result
<1>12. ASSUME NEW t \in Threads, Copy(t) PROVE CallInv'
  BY <1>12 DEF Copy
<1>13. ASSUME NEW t \in Threads, Advance(t) PROVE CallInv'
  BY <1>13 DEF Advance
<1>14. ASSUME NEW t \in Threads, Load(t) PROVE CallInv'
  BY <1>14 DEF Load
<1>15. ASSUME NEW t \in Threads, Store(t) PROVE CallInv'
  BY <1>15 DEF Store
<1>16. ASSUME NEW t \in Threads, Signal(t) PROVE CallInv'
  BY <1>16 DEF Signal, Woken, Waiting, Peer
<1>17. ASSUME NEW t \in Threads, Fail(t) PROVE CallInv'
  BY <1>17 DEF Fail, Woken, Waiting
<1>18. ASSUME NEW t \in Threads, Unlock(t) PROVE CallInv'
  BY <1>18 DEF Unlock
<1>19. ASSUME NEW t \in Threads, Die(t) PROVE CallInv'
  BY <1>19 DEF Die, CancelDisabled
<1>20. ASSUME NEW t \in Threads, Expire(t) PROVE CallInv'
  BY <1>20 DEF Expire
<1>21. ASSUME NEW t \in Threads, Spurious(t) PROVE CallInv'
  BY <1>21 DEF Spurious
<1>22. ASSUME NEW t \in Threads, Cancel(t) PROVE CallInv'
  BY <1>22 DEF Cancel
<1>23. CASE UNCHANGED vars
  BY <1>23 DEF vars
<1>24. QED
  BY <1>1, <1>2, <1>3, <1>4, <1>5, <1>6, <1>7, <1>8, <1>9, <1>10, <1>11, <1>12, <1>13,
     <1>14, <1>15, <1>16, <1>17, <1>18, <1>19, <1>20, <1>21, <1>22, <1>23 DEF Next,
     Call, Step

\* What a call tested stays true until it stores avail, since only the
\* thread with the mutex stores avail.
LEMMA CountStep ==
  ASSUME TypeOK, LockDiscipline, CallInv, CountInv, [Next]_vars
  PROVE  CountInv'
<1> USE QueueAssumption DEF QueueAssumption, TypeOK, CallInv, CountInv, Waits,
       LockDiscipline, Critical, Updating, Blocked, queue_is_full_locked,
       queue_is_empty_locked, Goto, queueVars, waitVars, callVars
<1>1. ASSUME NEW t \in Threads, CallSend(t) PROVE CountInv'
  BY <1>1 DEF CallSend, Begin
<1>2. ASSUME NEW t \in Threads, CallRecv(t) PROVE CountInv'
  BY <1>2 DEF CallRecv, Begin
<1>3. ASSUME NEW t \in Threads, CallQuery(t) PROVE CountInv'
  BY <1>3 DEF CallQuery, Begin
<1>4. ASSUME NEW t \in Threads, Lock(t) PROVE CountInv'
  BY <1>4 DEF Lock
<1>5. ASSUME NEW t \in Threads, Query(t) PROVE CountInv'
  BY <1>5 DEF Query
<1>6. ASSUME NEW t \in Threads, Check(t) PROVE CountInv'
  BY <1>6 DEF Check
<1>7. ASSUME NEW t \in Threads, Loop(t) PROVE CountInv'
  BY <1>7 DEF Loop
<1>8. ASSUME NEW t \in Threads, Wait(t) PROVE CountInv'
  BY <1>8 DEF Wait
<1>9. ASSUME NEW t \in Threads, Timeout(t) PROVE CountInv'
  BY <1>9 DEF Timeout
<1>10. ASSUME NEW t \in Threads, Relock(t) PROVE CountInv'
  BY <1>10 DEF Relock
<1>11. ASSUME NEW t \in Threads, Result(t) PROVE CountInv'
  BY <1>11 DEF Result
<1>12. ASSUME NEW t \in Threads, Copy(t) PROVE CountInv'
  BY <1>12 DEF Copy
<1>13. ASSUME NEW t \in Threads, Advance(t) PROVE CountInv'
  BY <1>13 DEF Advance
<1>14. ASSUME NEW t \in Threads, Load(t) PROVE CountInv'
  BY <1>14 DEF Load
<1>15. ASSUME NEW t \in Threads, Store(t) PROVE CountInv'
  BY <1>15 DEF Store
<1>16. ASSUME NEW t \in Threads, Signal(t) PROVE CountInv'
  BY <1>16 DEF Signal, Woken, Waiting, Peer
<1>17. ASSUME NEW t \in Threads, Fail(t) PROVE CountInv'
  BY <1>17 DEF Fail, Woken, Waiting
<1>18. ASSUME NEW t \in Threads, Unlock(t) PROVE CountInv'
  BY <1>18 DEF Unlock
<1>19. ASSUME NEW t \in Threads, Die(t) PROVE CountInv'
  BY <1>19 DEF Die, CancelDisabled
<1>20. ASSUME NEW t \in Threads, Expire(t) PROVE CountInv'
  BY <1>20 DEF Expire
<1>21. ASSUME NEW t \in Threads, Spurious(t) PROVE CountInv'
  BY <1>21 DEF Spurious
<1>22. ASSUME NEW t \in Threads, Cancel(t) PROVE CountInv'
  BY <1>22 DEF Cancel
<1>23. CASE UNCHANGED vars
  BY <1>23 DEF vars
<1>24. QED
  BY <1>1, <1>2, <1>3, <1>4, <1>5, <1>6, <1>7, <1>8, <1>9, <1>10, <1>11, <1>12, <1>13,
     <1>14, <1>15, <1>16, <1>17, <1>18, <1>19, <1>20, <1>21, <1>22, <1>23 DEF Next,
     Call, Step

\* The fields keep their types; Store needs the tested condition.
LEMMA TypeStep ==
  ASSUME TypeOK, CallInv, CountInv, [Next]_vars
  PROVE  TypeOK'
<1> USE QueueAssumption DEF QueueAssumption, TypeOK, Locations, Critical, Updating,
       Queries, Goto, queueVars, waitVars, callVars
<1>1. ASSUME NEW t \in Threads, CallSend(t) PROVE TypeOK'
  BY <1>1 DEF CallSend, Begin
<1>2. ASSUME NEW t \in Threads, CallRecv(t) PROVE TypeOK'
  BY <1>2 DEF CallRecv, Begin
<1>3. ASSUME NEW t \in Threads, CallQuery(t) PROVE TypeOK'
  BY <1>3 DEF CallQuery, Begin
<1>4. ASSUME NEW t \in Threads, Lock(t) PROVE TypeOK'
  BY <1>4 DEF Lock
<1>5. ASSUME NEW t \in Threads, Query(t) PROVE TypeOK'
  BY <1>5 DEF Query, Answer
<1>6. ASSUME NEW t \in Threads, Check(t) PROVE TypeOK'
  BY <1>6 DEF Check
<1>7. ASSUME NEW t \in Threads, Loop(t) PROVE TypeOK'
  BY <1>7 DEF Loop
<1>8. ASSUME NEW t \in Threads, Wait(t) PROVE TypeOK'
  <2>1. CASE deadline[t] = "invalid"
    BY <1>8, <2>1 DEF Wait
  <2>2. CASE deadline[t] # "invalid"
    BY <1>8, <2>2 DEF Wait
  <2>3. QED
    BY <2>1, <2>2
<1>9. ASSUME NEW t \in Threads, Timeout(t) PROVE TypeOK'
  BY <1>9 DEF Timeout
<1>10. ASSUME NEW t \in Threads, Relock(t) PROVE TypeOK'
  BY <1>10 DEF Relock
<1>11. ASSUME NEW t \in Threads, Result(t) PROVE TypeOK'
  BY <1>11 DEF Result
<1>12. ASSUME NEW t \in Threads, Copy(t) PROVE TypeOK'
  <2>1. CASE op[t] = "send"
    BY <1>12, <2>1 DEF Copy, CallInv
  <2>2. CASE op[t] = "recv"
    BY <1>12, <2>2 DEF Copy
  <2>3. QED
    BY <1>12, <2>1, <2>2 DEF Copy
<1>13. ASSUME NEW t \in Threads, Advance(t) PROVE TypeOK'
  <2>1. NextSlot(p_write) \in Slots /\ NextSlot(p_read) \in Slots
    BY RingWalk
  <2>2. QED
    BY <1>13, <2>1 DEF Advance
<1>14. ASSUME NEW t \in Threads, Load(t) PROVE TypeOK'
  BY <1>14 DEF Load
<1>15. ASSUME NEW t \in Threads, Store(t) PROVE TypeOK'
  <2>1. avail' \in 0..nmemb
    BY <1>15, StoredCount DEF Store, CallInv, CountInv, Blocked, queue_is_full_locked,
       queue_is_empty_locked
  <2>2. QED
    BY <1>15, <2>1 DEF Store
<1>16. ASSUME NEW t \in Threads, Signal(t) PROVE TypeOK'
  BY <1>16 DEF Signal, Woken, Waiting, Peer
<1>17. ASSUME NEW t \in Threads, Fail(t) PROVE TypeOK'
  BY <1>17 DEF Fail, Woken, Waiting
<1>18. ASSUME NEW t \in Threads, Unlock(t) PROVE TypeOK'
  BY <1>18 DEF Unlock
<1>19. ASSUME NEW t \in Threads, Die(t) PROVE TypeOK'
  BY <1>19 DEF Die, CancelDisabled
<1>20. ASSUME NEW t \in Threads, Expire(t) PROVE TypeOK'
  BY <1>20 DEF Expire
<1>21. ASSUME NEW t \in Threads, Spurious(t) PROVE TypeOK'
  BY <1>21 DEF Spurious
<1>22. ASSUME NEW t \in Threads, Cancel(t) PROVE TypeOK'
  BY <1>22 DEF Cancel
<1>23. CASE UNCHANGED vars
  BY <1>23 DEF vars
<1>24. QED
  BY <1>1, <1>2, <1>3, <1>4, <1>5, <1>6, <1>7, <1>8, <1>9, <1>10, <1>11, <1>12, <1>13,
     <1>14, <1>15, <1>16, <1>17, <1>18, <1>19, <1>20, <1>21, <1>22, <1>23 DEF Next,
     Call, Step

\* The pointers follow avail.
LEMMA RingStep ==
  ASSUME TypeOK, LockDiscipline, CallInv, CountInv, RingInv, [Next]_vars
  PROVE  RingInv'
<1> USE QueueAssumption DEF QueueAssumption, TypeOK, CallInv, RingInv, Moves, Waits,
       LockDiscipline, Critical, Updating, Goto, queueVars, waitVars, callVars
<1>1. ASSUME NEW t \in Threads, CallSend(t) PROVE RingInv'
  BY <1>1 DEF CallSend, Begin
<1>2. ASSUME NEW t \in Threads, CallRecv(t) PROVE RingInv'
  BY <1>2 DEF CallRecv, Begin
<1>3. ASSUME NEW t \in Threads, CallQuery(t) PROVE RingInv'
  BY <1>3 DEF CallQuery, Begin
<1>4. ASSUME NEW t \in Threads, Lock(t) PROVE RingInv'
  BY <1>4 DEF Lock
<1>5. ASSUME NEW t \in Threads, Query(t) PROVE RingInv'
  BY <1>5 DEF Query
<1>6. ASSUME NEW t \in Threads, Check(t) PROVE RingInv'
  BY <1>6 DEF Check
<1>7. ASSUME NEW t \in Threads, Loop(t) PROVE RingInv'
  BY <1>7 DEF Loop
<1>8. ASSUME NEW t \in Threads, Wait(t) PROVE RingInv'
  BY <1>8 DEF Wait
<1>9. ASSUME NEW t \in Threads, Timeout(t) PROVE RingInv'
  BY <1>9 DEF Timeout
<1>10. ASSUME NEW t \in Threads, Relock(t) PROVE RingInv'
  BY <1>10 DEF Relock
<1>11. ASSUME NEW t \in Threads, Result(t) PROVE RingInv'
  BY <1>11 DEF Result
<1>12. ASSUME NEW t \in Threads, Copy(t) PROVE RingInv'
  BY <1>12 DEF Copy
<1>13. ASSUME NEW t \in Threads, Advance(t) PROVE RingInv'
  <2>1. /\ pc[t] = "advance" /\ lock = t /\ ~Blocked(op[t]) /\ op[t] \in {"send", "recv"}
        /\ \A u \in Threads : pc[u] \notin Moves
        /\ p_write = Slot(p_read, avail)
    BY <1>13 DEF Advance, CountInv
  <2>2. \A u \in Threads : pc'[u] \in Moves => u = t
    BY <1>13, <2>1 DEF Advance
  <2>3. CASE op[t] = "send"
    BY <1>13, <2>1, <2>2, <2>3 DEF Advance
  <2>4. CASE op[t] = "recv"
    <3>1. PrevSlot(p_read') = p_read
      BY <1>13, <2>4, RingWalk DEF Advance
    <3>2. QED
      BY <1>13, <2>1, <2>2, <2>4, <3>1 DEF Advance
  <2>5. QED
    BY <2>1, <2>3, <2>4
<1>14. ASSUME NEW t \in Threads, Load(t) PROVE RingInv'
  BY <1>14 DEF Load
<1>15. ASSUME NEW t \in Threads, Store(t) PROVE RingInv'
  <2>1. /\ pc[t] = "store" /\ tmp[t] = avail /\ ~Blocked(op[t]) /\ op[t] \in {"send", "recv"}
        /\ op[t] = "send" => p_write = NextSlot(Slot(p_read, avail))
        /\ op[t] = "recv" => p_write = Slot(PrevSlot(p_read), avail)
    BY <1>15 DEF Store, CountInv
  <2>2. \A u \in Threads : pc'[u] \notin Moves
    BY <1>15 DEF Store
  <2>3. p_write' = p_write /\ p_read' = p_read
    BY <1>15 DEF Store
  <2>4. CASE op[t] = "send"
    <3>1. avail' = avail + 1 /\ avail < nmemb
      BY <1>15, <2>1, <2>4, StoredCount DEF Store, Blocked, queue_is_full_locked
    <3>2. NextSlot(Slot(p_read, avail)) = Slot(p_read, avail + 1)
      BY <3>1, RingWalk
    <3>3. QED
      BY <2>1, <2>2, <2>3, <2>4, <3>1, <3>2
  <2>5. CASE op[t] = "recv"
    <3>1. avail' = avail - 1 /\ avail > 0
      BY <1>15, <2>1, <2>5, StoredCount DEF Store, Blocked, queue_is_empty_locked
    <3>2. Slot(NextSlot(PrevSlot(p_read)), avail - 1) = Slot(PrevSlot(p_read), avail)
      BY <3>1, RingWalk
    <3>3. NextSlot(PrevSlot(p_read)) = p_read
      BY RingWalk
    <3>4. QED
      BY <2>1, <2>2, <2>3, <2>5, <3>1, <3>2, <3>3
  <2>6. QED
    BY <2>1, <2>4, <2>5
<1>16. ASSUME NEW t \in Threads, Signal(t) PROVE RingInv'
  BY <1>16 DEF Signal, Woken, Waiting, Peer
<1>17. ASSUME NEW t \in Threads, Fail(t) PROVE RingInv'
  BY <1>17 DEF Fail, Woken, Waiting
<1>18. ASSUME NEW t \in Threads, Unlock(t) PROVE RingInv'
  BY <1>18 DEF Unlock
<1>19. ASSUME NEW t \in Threads, Die(t) PROVE RingInv'
  BY <1>19 DEF Die, CancelDisabled
<1>20. ASSUME NEW t \in Threads, Expire(t) PROVE RingInv'
  BY <1>20 DEF Expire
<1>21. ASSUME NEW t \in Threads, Spurious(t) PROVE RingInv'
  BY <1>21 DEF Spurious
<1>22. ASSUME NEW t \in Threads, Cancel(t) PROVE RingInv'
  BY <1>22 DEF Cancel
<1>23. CASE UNCHANGED vars
  BY <1>23 DEF vars
<1>24. QED
  BY <1>1, <1>2, <1>3, <1>4, <1>5, <1>6, <1>7, <1>8, <1>9, <1>10, <1>11, <1>12, <1>13,
     <1>14, <1>15, <1>16, <1>17, <1>18, <1>19, <1>20, <1>21, <1>22, <1>23 DEF Next,
     Call, Step

\* A sleeper's condition changes only at Store, by a thread that broadcasts
\* next and holds the mutex until it has.
LEMMA WakeupStep ==
  ASSUME TypeOK, LockDiscipline, CallInv, CountInv, NoLostWakeup, [Next]_vars
  PROVE  NoLostWakeup'
<1> USE QueueAssumption DEF QueueAssumption, TypeOK, CallInv, CountInv, NoLostWakeup,
       Waits, LockDiscipline, Critical, Updating, Peer, Blocked, queue_is_full_locked,
       queue_is_empty_locked, Goto, queueVars, waitVars, callVars
<1>1. ASSUME NEW t \in Threads, CallSend(t) PROVE NoLostWakeup'
  BY <1>1 DEF CallSend, Begin
<1>2. ASSUME NEW t \in Threads, CallRecv(t) PROVE NoLostWakeup'
  BY <1>2 DEF CallRecv, Begin
<1>3. ASSUME NEW t \in Threads, CallQuery(t) PROVE NoLostWakeup'
  BY <1>3 DEF CallQuery, Begin
<1>4. ASSUME NEW t \in Threads, Lock(t) PROVE NoLostWakeup'
  BY <1>4 DEF Lock
<1>5. ASSUME NEW t \in Threads, Query(t) PROVE NoLostWakeup'
  BY <1>5 DEF Query
<1>6. ASSUME NEW t \in Threads, Check(t) PROVE NoLostWakeup'
  BY <1>6 DEF Check
<1>7. ASSUME NEW t \in Threads, Loop(t) PROVE NoLostWakeup'
  BY <1>7 DEF Loop
<1>8. ASSUME NEW t \in Threads, Wait(t) PROVE NoLostWakeup'
  BY <1>8 DEF Wait
<1>9. ASSUME NEW t \in Threads, Timeout(t) PROVE NoLostWakeup'
  BY <1>9 DEF Timeout
<1>10. ASSUME NEW t \in Threads, Relock(t) PROVE NoLostWakeup'
  BY <1>10 DEF Relock
<1>11. ASSUME NEW t \in Threads, Result(t) PROVE NoLostWakeup'
  BY <1>11 DEF Result
<1>12. ASSUME NEW t \in Threads, Copy(t) PROVE NoLostWakeup'
  BY <1>12 DEF Copy
<1>13. ASSUME NEW t \in Threads, Advance(t) PROVE NoLostWakeup'
  BY <1>13 DEF Advance
<1>14. ASSUME NEW t \in Threads, Load(t) PROVE NoLostWakeup'
  BY <1>14 DEF Load
<1>15. ASSUME NEW t \in Threads, Store(t) PROVE NoLostWakeup'
  BY <1>15 DEF Store, Inc, Dec
<1>16. ASSUME NEW t \in Threads, Signal(t) PROVE NoLostWakeup'
  BY <1>16 DEF Signal, Woken, Waiting, Peer
<1>17. ASSUME NEW t \in Threads, Fail(t) PROVE NoLostWakeup'
  BY <1>17 DEF Fail, Woken, Waiting
<1>18. ASSUME NEW t \in Threads, Unlock(t) PROVE NoLostWakeup'
  BY <1>18 DEF Unlock
<1>19. ASSUME NEW t \in Threads, Die(t) PROVE NoLostWakeup'
  BY <1>19 DEF Die, CancelDisabled
<1>20. ASSUME NEW t \in Threads, Expire(t) PROVE NoLostWakeup'
  BY <1>20 DEF Expire
<1>21. ASSUME NEW t \in Threads, Spurious(t) PROVE NoLostWakeup'
  BY <1>21 DEF Spurious
<1>22. ASSUME NEW t \in Threads, Cancel(t) PROVE NoLostWakeup'
  BY <1>22 DEF Cancel
<1>23. CASE UNCHANGED vars
  BY <1>23 DEF vars
<1>24. QED
  BY <1>1, <1>2, <1>3, <1>4, <1>5, <1>6, <1>7, <1>8, <1>9, <1>10, <1>11, <1>12, <1>13,
     <1>14, <1>15, <1>16, <1>17, <1>18, <1>19, <1>20, <1>21, <1>22, <1>23 DEF Next,
     Call, Step

\* A query's answer is spoilt only by a call of the same kind of user.
LEMMA QueryStep ==
  ASSUME TypeOK, LockDiscipline, CallInv, CountInv, QueryInv, SoleCallerQuery, [Next]_vars
  PROVE  (QueryInv /\ SoleCallerQuery)'
<1> USE QueueAssumption DEF QueueAssumption, TypeOK, CallInv, QueryInv,
       SoleCallerQuery, Queries, Waits, LockDiscipline, Critical, Updating, Goto,
       queueVars, waitVars, callVars
<1>1. ASSUME NEW t \in Threads, CallSend(t) PROVE (QueryInv /\ SoleCallerQuery)'
  BY <1>1 DEF CallSend, Begin
<1>2. ASSUME NEW t \in Threads, CallRecv(t) PROVE (QueryInv /\ SoleCallerQuery)'
  BY <1>2 DEF CallRecv, Begin
<1>3. ASSUME NEW t \in Threads, CallQuery(t) PROVE (QueryInv /\ SoleCallerQuery)'
  BY <1>3 DEF CallQuery, Begin
<1>4. ASSUME NEW t \in Threads, Lock(t) PROVE (QueryInv /\ SoleCallerQuery)'
  BY <1>4 DEF Lock
<1>5. ASSUME NEW t \in Threads, Query(t) PROVE (QueryInv /\ SoleCallerQuery)'
  BY <1>5 DEF Query, Answer, queue_is_empty_locked, queue_is_full_locked
<1>6. ASSUME NEW t \in Threads, Check(t) PROVE (QueryInv /\ SoleCallerQuery)'
  BY <1>6 DEF Check
<1>7. ASSUME NEW t \in Threads, Loop(t) PROVE (QueryInv /\ SoleCallerQuery)'
  BY <1>7 DEF Loop
<1>8. ASSUME NEW t \in Threads, Wait(t) PROVE (QueryInv /\ SoleCallerQuery)'
  BY <1>8 DEF Wait
<1>9. ASSUME NEW t \in Threads, Timeout(t) PROVE (QueryInv /\ SoleCallerQuery)'
  BY <1>9 DEF Timeout
<1>10. ASSUME NEW t \in Threads, Relock(t) PROVE (QueryInv /\ SoleCallerQuery)'
  BY <1>10 DEF Relock
<1>11. ASSUME NEW t \in Threads, Result(t) PROVE (QueryInv /\ SoleCallerQuery)'
  BY <1>11 DEF Result
<1>12. ASSUME NEW t \in Threads, Copy(t) PROVE (QueryInv /\ SoleCallerQuery)'
  BY <1>12 DEF Copy
<1>13. ASSUME NEW t \in Threads, Advance(t) PROVE (QueryInv /\ SoleCallerQuery)'
  BY <1>13 DEF Advance
<1>14. ASSUME NEW t \in Threads, Load(t) PROVE (QueryInv /\ SoleCallerQuery)'
  BY <1>14 DEF Load
<1>15. ASSUME NEW t \in Threads, Store(t) PROVE (QueryInv /\ SoleCallerQuery)'
  BY <1>15 DEF Store, CountInv, Inc, Dec, Blocked, queue_is_full_locked,
     queue_is_empty_locked
<1>16. ASSUME NEW t \in Threads, Signal(t) PROVE (QueryInv /\ SoleCallerQuery)'
  BY <1>16 DEF Signal, Woken, Waiting, Peer
<1>17. ASSUME NEW t \in Threads, Fail(t) PROVE (QueryInv /\ SoleCallerQuery)'
  BY <1>17 DEF Fail, Woken, Waiting
<1>18. ASSUME NEW t \in Threads, Unlock(t) PROVE (QueryInv /\ SoleCallerQuery)'
  BY <1>18 DEF Unlock
<1>19. ASSUME NEW t \in Threads, Die(t) PROVE (QueryInv /\ SoleCallerQuery)'
  BY <1>19 DEF Die, CancelDisabled
<1>20. ASSUME NEW t \in Threads, Expire(t) PROVE (QueryInv /\ SoleCallerQuery)'
  BY <1>20 DEF Expire
<1>21. ASSUME NEW t \in Threads, Spurious(t) PROVE (QueryInv /\ SoleCallerQuery)'
  BY <1>21 DEF Spurious
<1>22. ASSUME NEW t \in Threads, Cancel(t) PROVE (QueryInv /\ SoleCallerQuery)'
  BY <1>22 DEF Cancel
<1>23. CASE UNCHANGED vars
  BY <1>23 DEF vars
<1>24. QED
  BY <1>1, <1>2, <1>3, <1>4, <1>5, <1>6, <1>7, <1>8, <1>9, <1>10, <1>11, <1>12, <1>13,
     <1>14, <1>15, <1>16, <1>17, <1>18, <1>19, <1>20, <1>21, <1>22, <1>23 DEF Next,
     Call, Step

-----------------------------------------------------------------------------
(* The theorems.                                                           *)

\* A fresh queue satisfies the invariant.
LEMMA InitIInv == Init => IInv
<1> SUFFICES ASSUME Init PROVE IInv
  OBVIOUS
<1> USE QueueAssumption DEF QueueAssumption, Init, Queries, Critical, Updating, Waits,
       Moves
<1>1. TypeOK
  BY DEF TypeOK, Slots, Locations, p_head
<1>2. LockDiscipline /\ CallInv /\ CountInv /\ NoLostWakeup /\ QueryInv /\ SoleCallerQuery
  BY DEF LockDiscipline, CallInv, CountInv, NoLostWakeup, QueryInv, SoleCallerQuery
<1>3. RingInv
  BY DEF RingInv, Slot, p_head
<1>4. QED
  BY <1>1, <1>2, <1>3 DEF IInv

\* Every step of any thread preserves it.
LEMMA NextIInv == IInv /\ [Next]_vars => IInv'
BY LockStep, CallStep, CountStep, TypeStep, RingStep, WakeupStep, QueryStep DEF IInv

\* IInv holds in every reachable state of the queue.
THEOREM Inductive == Spec => []IInv
BY InitIInv, NextIInv, PTL DEF Spec

\* The fields of struct queue_s keep their types: p_write and p_read never
\* leave the ring and avail never leaves 0..nmemb, for any use of
\* queue_send, queue_recv and the queries by any number of threads.
THEOREM TypeCorrect == Spec => []TypeOK
BY Inductive, PTL DEF IInv

\* Calls exclude each other on the mutex and no cancelled thread keeps it.
THEOREM MutualExclusion == Spec => []LockDiscipline
BY Inductive, PTL DEF IInv

\* No thread sleeps in queue_send or queue_recv past the event it waits for.
THEOREM WakeupsAreNotLost == Spec => []NoLostWakeup
BY Inductive, PTL DEF IInv

\* avail counts the elements between the two pointers.
THEOREM AvailIsExact == Spec => []AvailCountsMessages
<1>1. IInv => AvailCountsMessages
  BY QueueAssumption DEF QueueAssumption, IInv, TypeOK, RingInv, AvailCountsMessages,
     Updating, Moves
<1>2. QED
  BY Inductive, <1>1, PTL

\* The only sender may rely on queue_space_available, the only receiver on
\* queue_is_empty, until its next call.
THEOREM SoleCallerMayTrustQuery == Spec => []SoleCallerQuery
BY Inductive, PTL DEF IInv
-----------------------------------------------------------------------------
(* The refinement of QueueFifo                                             *)

\* The element in flight: a sender's is in the slot past the last message
\* once copied, a receiver's is the oldest message once copied, and a
\* receiver that has not copied has nothing.
DataInv ==
  \A t \in Threads :
    /\ op[t] = "send" /\ pc[t] \in Moves \cup {"advance"} => buf[Slot(p_read, avail)] = val[t]
    /\ op[t] = "recv" /\ pc[t] = "advance" => val[t] = buf[p_read]
    /\ op[t] = "recv" /\ pc[t] \in Moves => val[t] = buf[PrevSlot(p_read)]
    /\ op[t] = "recv" /\ pc[t] \in Waits \cup {"lock", "check", "copy", "fail", "refuse"} => val[t] = NoVal
-----------------------------------------------------------------------------
\* Only the thread with the mutex touches the ring.
LEMMA DataStep ==
  ASSUME IInv, DataInv, [Next]_vars
  PROVE  DataInv'
<1> USE QueueAssumption DEF QueueAssumption, IInv, TypeOK, CallInv, DataInv, Moves,
       Waits, Queries, LockDiscipline, Critical, Updating, Goto, queueVars, waitVars,
       callVars
<1>1. ASSUME NEW t \in Threads, CallSend(t) PROVE DataInv'
  BY <1>1 DEF CallSend, Begin
<1>2. ASSUME NEW t \in Threads, CallRecv(t) PROVE DataInv'
  BY <1>2 DEF CallRecv, Begin
<1>3. ASSUME NEW t \in Threads, CallQuery(t) PROVE DataInv'
  BY <1>3 DEF CallQuery, Begin
<1>4. ASSUME NEW t \in Threads, Lock(t) PROVE DataInv'
  BY <1>4 DEF Lock
<1>5. ASSUME NEW t \in Threads, Query(t) PROVE DataInv'
  BY <1>5 DEF Query
<1>6. ASSUME NEW t \in Threads, Check(t) PROVE DataInv'
  BY <1>6 DEF Check
<1>7. ASSUME NEW t \in Threads, Loop(t) PROVE DataInv'
  BY <1>7 DEF Loop
<1>8. ASSUME NEW t \in Threads, Wait(t) PROVE DataInv'
  BY <1>8 DEF Wait
<1>9. ASSUME NEW t \in Threads, Timeout(t) PROVE DataInv'
  BY <1>9 DEF Timeout
<1>10. ASSUME NEW t \in Threads, Relock(t) PROVE DataInv'
  BY <1>10 DEF Relock
<1>11. ASSUME NEW t \in Threads, Result(t) PROVE DataInv'
  BY <1>11 DEF Result
<1>12. ASSUME NEW t \in Threads, Copy(t) PROVE DataInv'
  BY <1>12 DEF Copy, RingInv
<1>13. ASSUME NEW t \in Threads, Advance(t) PROVE DataInv'
  <2>1. p_read \in Slots /\ PrevSlot(NextSlot(p_read)) = p_read
    BY RingWalk
  <2>2. CASE op[t] = "send"
    BY <1>13, <2>2 DEF Advance
  <2>3. CASE op[t] = "recv"
    BY <1>13, <2>1, <2>3 DEF Advance
  <2>4. QED
    BY <1>13, <2>2, <2>3 DEF Advance
<1>14. ASSUME NEW t \in Threads, Load(t) PROVE DataInv'
  BY <1>14 DEF Load
<1>15. ASSUME NEW t \in Threads, Store(t) PROVE DataInv'
  BY <1>15 DEF Store
<1>16. ASSUME NEW t \in Threads, Signal(t) PROVE DataInv'
  BY <1>16 DEF Signal, Woken, Waiting, Peer
<1>17. ASSUME NEW t \in Threads, Fail(t) PROVE DataInv'
  BY <1>17 DEF Fail, Woken, Waiting
<1>18. ASSUME NEW t \in Threads, Unlock(t) PROVE DataInv'
  BY <1>18 DEF Unlock
<1>19. ASSUME NEW t \in Threads, Die(t) PROVE DataInv'
  BY <1>19 DEF Die, CancelDisabled
<1>20. ASSUME NEW t \in Threads, Expire(t) PROVE DataInv'
  BY <1>20 DEF Expire
<1>21. ASSUME NEW t \in Threads, Spurious(t) PROVE DataInv'
  BY <1>21 DEF Spurious
<1>22. ASSUME NEW t \in Threads, Cancel(t) PROVE DataInv'
  BY <1>22 DEF Cancel
<1>23. CASE UNCHANGED vars
  BY <1>23 DEF vars
<1>24. QED
  BY <1>1, <1>2, <1>3, <1>4, <1>5, <1>6, <1>7, <1>8, <1>9, <1>10, <1>11, <1>12, <1>13,
     <1>14, <1>15, <1>16, <1>17, <1>18, <1>19, <1>20, <1>21, <1>22, <1>23 DEF Next,
     Call, Step

\* The part of TypeOK that the messages in the ring depend on.
RingType == avail \in 0..nmemb /\ p_read \in Slots /\ buf \in [Slots -> Values \cup {NoVal}]

\* IInv includes RingType.
LEMMA RingTyped == IInv => RingType
BY DEF IInv, TypeOK, RingType

\* The queue reads as a sequence of avail elements.
LEMMA ItemsSeq ==
  ASSUME RingType
  PROVE  /\ FirstSlot \in Slots
         /\ Items \in Seq(Values \cup {NoVal}) /\ Len(Items) = avail
         /\ \A i \in 1..avail : Items[i] = buf[Slot(FirstSlot, i - 1)]
<1>1. avail \in Nat /\ avail <= nmemb /\ p_read \in Slots /\ buf \in [Slots -> Values \cup {NoVal}]
  BY QueueAssumption DEF QueueAssumption, RingType
<1>2. FirstSlot \in Slots
  BY <1>1, QueueAssumption DEF QueueAssumption, FirstSlot, Slots, p_head, p_tail
<1>3. \A i \in 1..avail : buf[Slot(FirstSlot, i - 1)] \in Values \cup {NoVal}
  <2> SUFFICES ASSUME NEW i \in 1..avail PROVE buf[Slot(FirstSlot, i - 1)] \in Values \cup {NoVal}
    OBVIOUS
  <2>1. i - 1 \in 0..nmemb
    BY <1>1, QueueAssumption DEF QueueAssumption
  <2>2. Slot(FirstSlot, i - 1) \in Slots
    BY <1>2, <2>1, RingWalk
  <2>3. QED
    BY <1>1, <2>2
<1>4. Items \in [1..avail -> Values \cup {NoVal}]
  BY <1>3 DEF Items
<1>5. QED
  BY <1>1, <1>2, <1>4, IsASeq, LenProperties DEF Items

\* A step that leaves the ring alone leaves the messages alone.
LEMMA SameItems ==
  ASSUME UNCHANGED <<avail, buf, FirstSlot>>
  PROVE  Items' = Items
BY DEF Items

\* What blocks a send and what blocks a receive.
LEMMA WhyBlocked ==
  ASSUME NEW o \in {"send", "recv"}, Blocked(o)
  PROVE  (o = "send" /\ avail = nmemb) \/ (o = "recv" /\ avail = 0)
BY DEF Blocked, queue_is_empty_locked, queue_is_full_locked

\* A fresh queue is an empty FIFO that nobody uses.
LEMMA InitFifo == Init => Fifo!Init
BY DEF Init, Fifo!Init, Items, Stage, StageOf, Result_val
-----------------------------------------------------------------------------
(* Every step of Queue is a step of QueueFifo or changes none of its state. *)

\* The store of avail in queue_send appends the sender's element.
LEMMA StorePuts ==
  ASSUME IInv, DataInv, NEW t \in Threads, Store(t), op[t] = "send"
  PROVE  avail < nmemb /\ Items' = Append(Items, val[t])
<1> USE QueueAssumption DEF QueueAssumption
<1>1. /\ pc[t] = "store" /\ tmp[t] = avail /\ avail # nmemb /\ avail \in 0..nmemb
      /\ \A u \in Threads \ {t} : pc[u] \notin Moves
      /\ buf[Slot(p_read, avail)] = val[t] /\ val[t] \in Values
  BY DEF Store, IInv, TypeOK, LockDiscipline, CountInv, CallInv, DataInv, Critical,
     Updating, Moves,
         Blocked, queue_is_full_locked
<1>2. avail' = avail + 1 /\ UNCHANGED <<buf, p_read>>
  BY <1>1, StoredCount DEF Store
<1>3. FirstSlot = p_read /\ FirstSlot' = p_read
  <2>1. ~Taking /\ ~Taking'
    BY <1>1 DEF Taking, Moves, Store, Goto, callVars, IInv, TypeOK
  <2>2. QED
    BY <1>2, <2>1 DEF FirstSlot
<1>4. /\ Items \in Seq(Values \cup {NoVal}) /\ Len(Items) = avail
      /\ \A i \in 1..avail : Items[i] = buf[Slot(p_read, i - 1)]
  BY <1>3, ItemsSeq, RingTyped
<1>5. Items' = [i \in 1..(avail + 1) |-> buf[Slot(p_read, i - 1)]]
  BY <1>2, <1>3 DEF Items
<1>6. /\ Append(Items, val[t]) \in [1..(avail + 1) -> Values \cup {NoVal}]
      /\ \A i \in 1..(avail + 1) : Append(Items, val[t])[i] = buf[Slot(p_read, i - 1)]
  <2>1. /\ Append(Items, val[t]) \in Seq(Values \cup {NoVal})
        /\ Len(Append(Items, val[t])) = avail + 1
        /\ \A i \in 1..avail : Append(Items, val[t])[i] = Items[i]
        /\ Append(Items, val[t])[avail + 1] = val[t]
    BY <1>1, <1>4, AppendProperties
  <2>2. Append(Items, val[t]) \in [1..(avail + 1) -> Values \cup {NoVal}]
    BY <2>1, LenProperties
  <2>3. ASSUME NEW i \in 1..(avail + 1)
        PROVE  Append(Items, val[t])[i] = buf[Slot(p_read, i - 1)]
    <3>1. CASE i = avail + 1
      <4>1. i - 1 = avail
        BY <1>1, <3>1
      <4>2. QED
        BY <1>1, <2>1, <3>1, <4>1
    <3>2. CASE i # avail + 1
      <4>1. i \in 1..avail
        BY <1>1, <3>2
      <4>2. QED
        BY <1>4, <2>1, <4>1
    <3>3. QED
      BY <3>1, <3>2
  <2>4. QED
    BY <2>2, <2>3
<1>7. QED
  BY <1>1, <1>5, <1>6

\* The store of avail in queue_recv removes the element that was copied.
LEMMA StoreTakes ==
  ASSUME RingType, NEW L, pc \in [Threads -> L], NEW t \in Threads, Store(t), op[t] = "recv",
         tmp[t] = avail, avail # 0, val[t] = buf[PrevSlot(p_read)],
         \A u \in Threads \ {t} : pc[u] \in Moves => op[u] # "recv"
  PROVE  Items # <<>> /\ Items' = Tail(Items) /\ val[t] = Head(Items)
<1> USE QueueAssumption DEF QueueAssumption
<1>1. avail \in 0..nmemb /\ p_read \in Slots /\ pc[t] = "store"
  BY DEF RingType, Store
<1>2. avail' = avail - 1 /\ UNCHANGED <<buf, p_read>>
  BY <1>1, StoredCount DEF Store
<1>3. FirstSlot = PrevSlot(p_read) /\ FirstSlot' = p_read
  <2>1. Taking
    BY <1>1 DEF Taking
  <2>2. ~Taking'
    BY <1>1 DEF Taking, Moves, Store, Goto, callVars
  <2>3. QED
    BY <1>2, <2>1, <2>2 DEF FirstSlot, PrevSlot
<1>4. /\ Items \in Seq(Values \cup {NoVal}) /\ Len(Items) = avail
      /\ \A i \in 1..avail : Items[i] = buf[Slot(PrevSlot(p_read), i - 1)]
  BY <1>3, ItemsSeq
<1>5. /\ Items # <<>> /\ Head(Items) = Items[1]
      /\ Tail(Items) \in Seq(Values \cup {NoVal}) /\ Len(Tail(Items)) = avail - 1
      /\ \A i \in 1..(avail - 1) : Tail(Items)[i] = Items[i + 1]
  BY <1>1, <1>4, HeadTailProperties, EmptySeq
<1>6. Items[1] = val[t]
  <2>1. Slot(PrevSlot(p_read), 0) = PrevSlot(p_read)
    <3>1. PrevSlot(p_read) \in Slots
      BY <1>1, RingWalk
    <3>2. QED
      BY <3>1 DEF Slot, Slots
  <2>2. 1 \in 1..avail /\ 1 - 1 = 0
    BY <1>1
  <2>3. QED
    BY <1>1, <1>4, <2>1, <2>2
<1>7. Items' = [i \in 1..(avail - 1) |-> buf[Slot(p_read, i - 1)]]
  BY <1>2, <1>3 DEF Items
<1>8. \A i \in 1..(avail - 1) : Slot(p_read, i - 1) = Slot(PrevSlot(p_read), i)
  BY <1>1, RingWalk
<1>9. Tail(Items) \in [1..(avail - 1) -> Values \cup {NoVal}]
  BY <1>5, LenProperties
<1>10. ASSUME NEW i \in 1..(avail - 1)
       PROVE  Tail(Items)[i] = buf[Slot(p_read, i - 1)]
  <2>1. i + 1 \in 1..avail /\ (i + 1) - 1 = i
    BY <1>1
  <2>2. Tail(Items)[i] = buf[Slot(PrevSlot(p_read), i)]
    BY <1>4, <1>5, <2>1
  <2>3. QED
    BY <1>8, <2>2
<1>11. Items' = Tail(Items)
  BY <1>7, <1>9, <1>10
<1>12. QED
  BY <1>5, <1>6, <1>11

\* A call begins as an invocation.
LEMMA CallInvokes ==
  ASSUME NEW L, NEW O, NEW V,
         pc \in [Threads -> L], op \in [Threads -> O], val \in [Threads -> V],
         NEW t \in Threads, NEW o \in Queries \cup {"send", "recv"}, NEW v, NEW d,
         Begin(t, o, v, d, "lock"), o # "send" => v = NoVal
  PROVE  Fifo!Invoke(t, o, v)
<1> USE DEF Begin, Goto, queueVars, Queries
<1>1. Items' = Items
  BY DEF Items, FirstSlot, Taking
<1>2. Stage[t] = "idle" /\ Stage' = [Stage EXCEPT ![t] = "pending"]
  BY DEF Stage, StageOf
<1>3. Result_val' = [Result_val EXCEPT ![t] = v]
  BY <1>2 DEF Result_val, Stage
<1>4. QED
  BY <1>1, <1>2, <1>3 DEF Fifo!Invoke

\* Every step of the queue maps to a step of QueueFifo or to a stutter.
LEMMA StepFifo ==
  ASSUME IInv, DataInv, [Next]_vars
  PROVE  [Fifo!Next]_Fifo!vars
<1> USE QueueAssumption DEF QueueAssumption, IInv, TypeOK, CallInv, Waits, Updating,
       Moves, Goto, queueVars, waitVars, callVars
<1> DEFINE View == <<Stage, op, Result_val>>
<1>a. ASSUME UNCHANGED View, Items' = Items PROVE UNCHANGED Fifo!vars
  BY <1>a DEF Fifo!vars
<1>b. Len(Items) = avail /\ (avail = 0 => Items = <<>>)
  BY RingTyped, ItemsSeq, EmptySeq
<1>1. ASSUME NEW t \in Threads, CallSend(t) PROVE [Fifo!Next]_Fifo!vars
  <2>1. PICK v \in Values, d \in Deadlines : Begin(t, "send", v, d, "lock")
    BY <1>1 DEF CallSend
  <2>2. Fifo!Invoke(t, "send", v)
    BY <2>1, CallInvokes
  <2>3. QED
    BY <2>2 DEF Fifo!Next
<1>2. ASSUME NEW t \in Threads, CallRecv(t) PROVE [Fifo!Next]_Fifo!vars
  <2>1. PICK d \in Deadlines : Begin(t, "recv", NoVal, d, "lock")
    BY <1>2 DEF CallRecv
  <2>2. Fifo!Invoke(t, "recv", NoVal)
    BY <2>1, CallInvokes
  <2>3. QED
    BY <2>2 DEF Fifo!Next
<1>3. ASSUME NEW t \in Threads, CallQuery(t) PROVE [Fifo!Next]_Fifo!vars
  <2>1. PICK o \in Queries : Begin(t, o, NoVal, "none", "lock")
    BY <1>3 DEF CallQuery
  <2>2. Fifo!Invoke(t, o, NoVal)
    BY <2>1, CallInvokes DEF Queries
  <2>3. QED
    BY <2>2 DEF Fifo!Next, Queries, Fifo!Queries
<1>4. ASSUME NEW t \in Threads, Lock(t) PROVE UNCHANGED Fifo!vars
  <2>1. UNCHANGED View
    BY <1>4 DEF Lock, Stage, StageOf, Result_val
  <2>2. Items' = Items
    BY <1>4 DEF Lock, Items, FirstSlot, Taking
  <2>3. QED
    BY <1>a, <2>1, <2>2
<1>5. ASSUME NEW t \in Threads, Query(t) PROVE [Fifo!Next]_Fifo!vars
  <2>1. Items' = Items /\ Len(Items) = avail
    BY <1>5, <1>b DEF Query, Items, FirstSlot, Taking
  <2>2. Answer(op[t]) = Fifo!Answer(op[t], Len(Items))
    BY <1>5, <2>1 DEF Query, Queries, Answer, Fifo!Answer, queue_is_empty_locked,
       queue_is_full_locked
  <2>3. Fifo!Observe(t)
    BY <1>5, <2>1, <2>2, ZenonT(60) DEF Query, Queries, Fifo!Queries, Fifo!Observe, Stage, StageOf,
       Result_val
  <2>4. QED
    BY <2>3 DEF Fifo!Next
<1>6. ASSUME NEW t \in Threads, Check(t) PROVE UNCHANGED Fifo!vars
  <2>1. UNCHANGED View
    BY <1>6 DEF Check, Stage, StageOf, Result_val
  <2>2. Items' = Items
    BY <1>6 DEF Check, Items, FirstSlot, Taking
  <2>3. QED
    BY <1>a, <2>1, <2>2
<1>7. ASSUME NEW t \in Threads, Loop(t) PROVE UNCHANGED Fifo!vars
  <2>1. UNCHANGED View
    BY <1>7 DEF Loop, Stage, StageOf, Result_val
  <2>2. Items' = Items
    BY <1>7 DEF Loop, Items, FirstSlot, Taking
  <2>3. QED
    BY <1>a, <2>1, <2>2
<1>8. ASSUME NEW t \in Threads, Wait(t) PROVE UNCHANGED Fifo!vars
  <2>1. UNCHANGED View
    BY <1>8 DEF Wait, Stage, StageOf, Result_val
  <2>2. Items' = Items
    BY <1>8 DEF Wait, Items, FirstSlot, Taking
  <2>3. QED
    BY <1>a, <2>1, <2>2
<1>9. ASSUME NEW t \in Threads, Timeout(t) PROVE UNCHANGED Fifo!vars
  <2>1. UNCHANGED View
    BY <1>9 DEF Timeout, Stage, StageOf, Result_val
  <2>2. Items' = Items
    BY <1>9 DEF Timeout, Items, FirstSlot, Taking
  <2>3. QED
    BY <1>a, <2>1, <2>2
<1>10. ASSUME NEW t \in Threads, Relock(t) PROVE UNCHANGED Fifo!vars
  <2>1. UNCHANGED View
    BY <1>10 DEF Relock, Stage, StageOf, Result_val
  <2>2. Items' = Items
    BY <1>10 DEF Relock, Items, FirstSlot, Taking
  <2>3. QED
    BY <1>a, <2>1, <2>2
<1>11. ASSUME NEW t \in Threads, Result(t) PROVE [Fifo!Next]_Fifo!vars
  <2>1. Items' = Items /\ Len(Items) = avail
    BY <1>11, <1>b DEF Result, Items, FirstSlot, Taking
  <2>2. CASE Blocked(op[t])
    <3>1. (op[t] = "send" /\ avail = nmemb) \/ (op[t] = "recv" /\ avail = 0)
      <4>1. op[t] \in {"send", "recv"}
        BY <1>11 DEF Result
      <4>2. QED
        BY <2>2, <4>1, WhyBlocked
    <3>2. (op[t] = "send" /\ Len(Items) = nmemb) \/ (op[t] = "recv" /\ Items = <<>>)
      BY <1>b, <3>1
    <3>3. Stage[t] = "pending" /\ Stage' = [Stage EXCEPT ![t] = "refused"]
      BY <1>11, <2>2 DEF Result, Stage, StageOf
    <3>4. Result_val' = Result_val
      BY <1>11, <3>3 DEF Result, DataInv, Result_val
    <3>5. Fifo!Refuse(t)
      BY <1>11, <2>1, <3>2, <3>3, <3>4 DEF Result, Fifo!Refuse
    <3>6. QED
      BY <3>5 DEF Fifo!Next
  <2>3. CASE ~Blocked(op[t])
    <3>1. UNCHANGED View
      BY <1>11, <2>3 DEF Result, Stage, StageOf, Result_val
    <3>2. QED
      BY <1>a, <2>1, <3>1
  <2>4. QED
    BY <2>2, <2>3
<1>12. ASSUME NEW t \in Threads, Copy(t) PROVE [Fifo!Next]_Fifo!vars
  <2>1. UNCHANGED View
    BY <1>12 DEF Copy, Stage, StageOf, Result_val
  <2>2. FirstSlot' = FirstSlot
    BY <1>12 DEF Copy, FirstSlot, Taking
  <2>3. CASE op[t] = "recv"
    BY <1>12, <1>a, <2>1, <2>2, <2>3, SameItems DEF Copy
  <2>4. CASE op[t] = "send"
    <3>1. /\ FirstSlot = p_read /\ avail # nmemb
          /\ p_write = Slot(p_read, avail)
          /\ avail' = avail /\ buf' = [buf EXCEPT ![p_write] = val[t]]
      BY <1>12, <2>4 DEF Copy, LockDiscipline, Critical, RingInv, CountInv, Blocked,
                          queue_is_full_locked, FirstSlot, Taking
    <3>2. \A i \in 1..avail : Slot(p_read, i - 1) # p_write
      BY <3>1 DEF Slot, Slots
    <3>3. Items' = Items
      BY <2>2, <3>1, <3>2 DEF Items
    <3>4. QED
      BY <1>a, <2>1, <3>3
  <2>5. QED
    BY <1>12, <2>3, <2>4 DEF Copy
<1>13. ASSUME NEW t \in Threads, Advance(t) PROVE [Fifo!Next]_Fifo!vars
  <2>1. UNCHANGED View
    BY <1>13 DEF Advance, Stage, StageOf, Result_val
  <2>2. PrevSlot(NextSlot(p_read)) = p_read
    BY RingWalk
  <2>3. ~Taking
    BY <1>13 DEF Advance, Taking, LockDiscipline, Critical
  <2>4. CASE op[t] = "send"
    <3>1. ~Taking' /\ p_read' = p_read
      BY <1>13, <2>3, <2>4 DEF Advance, Taking
    <3>2. QED
      BY <1>13, <1>a, <2>1, <2>3, <3>1, SameItems DEF Advance, FirstSlot
  <2>5. CASE op[t] = "recv"
    <3>1. Taking' /\ p_read' = NextSlot(p_read)
      BY <1>13, <2>5 DEF Advance, Taking
    <3>2. FirstSlot' = FirstSlot
      BY <2>2, <2>3, <3>1 DEF FirstSlot, PrevSlot
    <3>3. QED
      BY <1>13, <1>a, <2>1, <3>2, SameItems DEF Advance
  <2>6. QED
    BY <1>13, <2>4, <2>5 DEF Advance
<1>14. ASSUME NEW t \in Threads, Load(t) PROVE UNCHANGED Fifo!vars
  <2>1. UNCHANGED View
    BY <1>14 DEF Load, Stage, StageOf, Result_val
  <2>2. Items' = Items
    BY <1>14 DEF Load, Items, FirstSlot, Taking
  <2>3. QED
    BY <1>a, <2>1, <2>2
<1>15. ASSUME NEW t \in Threads, Store(t) PROVE [Fifo!Next]_Fifo!vars
  <2>1. CASE op[t] = "send"
    <3>1. avail < nmemb /\ Items' = Append(Items, val[t]) /\ Len(Items) = avail
      BY <1>15, <1>b, <2>1, StorePuts
    <3>2. Fifo!Put(t)
      BY <1>15, <2>1, <3>1, ZenonT(60) DEF Store, Fifo!Put, Stage, StageOf, Result_val
    <3>3. QED
      BY <3>2 DEF Fifo!Next
  <2>2. CASE op[t] = "recv"
    <3>1. Items # <<>> /\ Items' = Tail(Items) /\ val[t] = Head(Items)
      <4>1. /\ pc[t] = "store" /\ tmp[t] = avail /\ avail # 0 /\ val[t] = buf[PrevSlot(p_read)]
            /\ \A u \in Threads \ {t} : pc[u] \in Moves => op[u] # "recv"
        BY <1>15, <2>2 DEF Store, LockDiscipline, CountInv, DataInv, Critical, Blocked,
           queue_is_empty_locked
      <4>2. QED
        BY <1>15, <2>2, <4>1, RingTyped, StoreTakes
    <3>2. Fifo!Take(t)
      BY <1>15, <2>2, <3>1, ZenonT(60) DEF Store, Fifo!Take, Stage, StageOf, Result_val
    <3>3. QED
      BY <3>2 DEF Fifo!Next
  <2>3. QED
    BY <1>15, <2>1, <2>2 DEF Store
<1>16. ASSUME NEW t \in Threads, Signal(t) PROVE UNCHANGED Fifo!vars
  <2>1. UNCHANGED View
    BY <1>16 DEF Signal, Woken, Waiting, Stage, StageOf, Result_val
  <2>2. Items' = Items
    BY <1>16 DEF Signal, Woken, Waiting, Items, FirstSlot, Taking
  <2>3. QED
    BY <1>a, <2>1, <2>2
<1>17. ASSUME NEW t \in Threads, Fail(t) PROVE UNCHANGED Fifo!vars
  <2>1. UNCHANGED View
    BY <1>17 DEF Fail, Woken, Waiting, Stage, StageOf, Result_val
  <2>2. Items' = Items
    BY <1>17 DEF Fail, Woken, Waiting, Items, FirstSlot, Taking
  <2>3. QED
    BY <1>a, <2>1, <2>2
<1>18. ASSUME NEW t \in Threads, Unlock(t) PROVE [Fifo!Next]_Fifo!vars
  <2>1. Items' = Items
    BY <1>18 DEF Unlock, Items, FirstSlot, Taking
  <2>2. Stage[t] \in {"done", "refused"} /\ Stage' = [Stage EXCEPT ![t] = "idle"]
    BY <1>18 DEF Unlock, Stage, StageOf
  <2>3. Result_val' = Result_val
    BY <1>18, <2>2 DEF Unlock, Result_val
  <2>4. Fifo!Return(t)
    BY <1>18, <2>1, <2>2, <2>3 DEF Unlock, Fifo!Return
  <2>5. QED
    BY <2>4 DEF Fifo!Next
<1>19. ASSUME NEW t \in Threads, Die(t) PROVE [Fifo!Next]_Fifo!vars
  <2>1. Items' = Items
    BY <1>19 DEF Die, CancelDisabled, Items, FirstSlot, Taking
  <2>2. Fifo!Stop(t)
    BY <1>19, <2>1, ZenonT(90) DEF Die, CancelDisabled, Fifo!Stop, Stage, StageOf, Result_val
  <2>3. QED
    BY <2>2 DEF Fifo!Next
<1>20. ASSUME NEW t \in Threads, Expire(t) PROVE UNCHANGED Fifo!vars
  <2>1. UNCHANGED View
    BY <1>20 DEF Expire, Stage, StageOf, Result_val
  <2>2. Items' = Items
    BY <1>20 DEF Expire, Items, FirstSlot, Taking
  <2>3. QED
    BY <1>a, <2>1, <2>2
<1>21. ASSUME NEW t \in Threads, Spurious(t) PROVE UNCHANGED Fifo!vars
  <2>1. UNCHANGED View
    BY <1>21 DEF Spurious, Stage, StageOf, Result_val
  <2>2. Items' = Items
    BY <1>21 DEF Spurious, Items, FirstSlot, Taking
  <2>3. QED
    BY <1>a, <2>1, <2>2
<1>22. ASSUME NEW t \in Threads, Cancel(t) PROVE UNCHANGED Fifo!vars
  <2>1. UNCHANGED View
    BY <1>22 DEF Cancel, Stage, StageOf, Result_val
  <2>2. Items' = Items
    BY <1>22 DEF Cancel, Items, FirstSlot, Taking
  <2>3. QED
    BY <1>a, <2>1, <2>2
<1>23. CASE UNCHANGED vars
  <2>1. UNCHANGED View /\ Items' = Items
    BY <1>23 DEF vars, Stage, Result_val, Items, FirstSlot, Taking
  <2>2. QED
    BY <1>a, <2>1
<1>24. QED
  BY <1>1, <1>2, <1>3, <1>4, <1>5, <1>6, <1>7, <1>8, <1>9, <1>10, <1>11, <1>12, <1>13,
     <1>14, <1>15, <1>16, <1>17, <1>18, <1>19, <1>20, <1>21, <1>22, <1>23 DEF Next,
     Call, Step

\* The queue of lib/queue.c is a bounded FIFO whose sends, receives and
\* queries each take effect at one instant: no element is lost, duplicated
\* or reordered, a send is refused only when the queue is full and a receive
\* only when it is empty.
THEOREM Refinement == Spec => ImplementsFifo
<1>1. Init => DataInv
  BY DEF Init, DataInv
<1>2. IInv /\ DataInv /\ [Next]_vars => DataInv'
  BY DataStep
<1>3. Spec => []DataInv
  BY <1>1, <1>2, Inductive, PTL DEF Spec
<1>4. IInv /\ DataInv /\ [Next]_vars => [Fifo!Next]_Fifo!vars
  BY StepFifo
<1>5. QED
  BY InitFifo, <1>3, <1>4, Inductive, PTL DEF Spec, ImplementsFifo, Fifo!Spec
-----------------------------------------------------------------------------
(* The program of examples/queue_multithreaded.  While main sends it is a  *)
(* program of module Queue, and IInv holds.  Once main drains the mutex    *)
(* protects nothing, but then the only reader is the only thread that      *)
(* moves an element, which is all that the counts and pointers need.       *)

\* A program with a single reader.
OneReader == \E r : Receivers = {r}

\* Where main is in queue_empty_wait and in queue_space_available, and
\* between two of these calls.
DrainLocations == {"idle", "loop", "wait", "parked", "relock", "result", "answer", "answered", "dead"}
SpaceLocations == {"idle", "lock", "check", "unlock", "dead"}

\* main has begun to wait for the queue to drain: it sends no more.
MainDrains ==
  /\ \/ op[main] = "empty_wait" /\ pc[main] \in DrainLocations
     \/ op[main] = "space_available" /\ pc[main] \in SpaceLocations
  /\ calls \in [Threads -> Nat] /\ calls[main] = MaxCalls

\* The fields keep their types while main drains.
DrainTypeOK ==
  /\ avail \in 0..nmemb /\ p_write \in Slots /\ p_read \in Slots
  /\ buf \in [Slots -> Values \cup {NoVal}]
  /\ pc \in [Threads -> Locations \cup {"answer", "answered"}]
  /\ op \in [Threads -> {"none", "recv", "empty_wait", "space_available"}]
  /\ val \in [Threads -> Values \cup {NoVal} \cup Int]
  /\ tmp \in [Threads -> 0..nmemb]

\* What the reader r knows inside its call although the mutex may have been
\* released under it: nobody else moves an element any more.
ReaderInv(r) ==
  /\ op[r] \in {"none", "recv"}
  /\ pc[r] \notin {"answer", "answered"}
  /\ pc[r] \in Waits \cup Updating \cup {"signal", "fail", "refuse"} => op[r] = "recv"
  /\ pc[r] \in Updating => avail # 0
  /\ pc[r] = "store" => tmp[r] = avail
  /\ pc[r] \notin Moves => p_write = Slot(p_read, avail)
  /\ pc[r] \in Moves => p_write = Slot(PrevSlot(p_read), avail)

ReaderData(r) ==
  /\ pc[r] = "advance" => val[r] = buf[p_read]
  /\ pc[r] \in Moves => val[r] = buf[PrevSlot(p_read)]
  /\ op[r] = "recv" /\ pc[r] \in Waits \cup {"lock", "check", "copy", "fail", "refuse"} => val[r] = NoVal

\* The answer 0 of queue_empty_wait stays true, so that main is told of a
\* queue that is all space.
AnswerInv ==
  /\ op[main] = "empty_wait" /\ pc[main] \in {"answered", "idle"} /\ val[main] = 0 => avail = 0
  /\ op[main] = "space_available" =>
       avail = 0 /\ (pc[main] \in {"unlock", "idle"} => val[main] = nmemb)

\* Before main drains, the program is one of those module Queue allows.
SendingInv == IInv /\ DataInv /\ \A t \in Threads : op[t] \notin Queries
DrainingInv(r) == DrainTypeOK /\ MainDrains /\ ReaderInv(r) /\ ReaderData(r) /\ AnswerInv
DrainInv == SendingInv \/ \E r \in Receivers : DrainingInv(r)

\* Until main starts to drain, every step is one of module Queue.
LEMMA SendingStep ==
  ASSUME DrainProgram, SendingInv, DrainStep, ~CallDrain
  PROVE  Next /\ SendingInv'
<1>1. \A t \in Threads : op[t] # "empty_wait" /\ pc[t] \in Locations
  BY DEF SendingInv, IInv, TypeOK, Queries
<1>2. main \in Threads /\ Receivers \subseteq Threads
  BY DEF DrainProgram
<1>3. ~DrainUnlock /\ ~DrainAnswer /\ ~DrainReturn /\ ~Drained /\ ~CleaningUp
  BY <1>1, <1>2 DEF DrainUnlock, DrainAnswer, DrainReturn, Drained, CleaningUp, Locations, Critical,
     Updating, SendingInv, Queries
<1>4. ASSUME NEW t \in Threads, CallSend(t) \/ CallRecv(t) PROVE Next /\ SendingInv'
  <2>1. Next
    BY <1>4 DEF Next, Call
  <2>2. \A u \in Threads : op'[u] \notin Queries
    BY <1>4 DEF CallSend, CallRecv, Begin, SendingInv, IInv, TypeOK, Queries
  <2>3. QED
    BY <2>1, <2>2, NextIInv, DataStep DEF SendingInv
<1>5. ASSUME NEW t \in Threads, Step(t) \/ Expire(t) \/ Spurious(t) PROVE Next /\ SendingInv'
  <2>1. Next
    BY <1>5 DEF Next
  <2>2. UNCHANGED op
    BY <1>5 DEF Step, Lock, Query, Check, Loop, Wait, Timeout, Relock, Result, Copy, Advance,
       Load, Store, Signal, Fail, Unlock, Die, Expire, Spurious, callVars
  <2>3. QED
    BY <2>1, <2>2, NextIInv, DataStep DEF SendingInv
<1>6. QED
  BY <1>2, <1>3, <1>4, <1>5 DEF DrainStep, Main, CallSpace, CancelReader, CallReader

\* main stops sending with the mutex free of it, so that the reader is the
\* only one that can be moving an element.
LEMMA DrainBegins ==
  ASSUME DrainProgram, NEW r, Receivers = {r}, SendingInv, CallDrain
  PROVE  DrainingInv(r)'
<1> USE DEF CallDrain, Sent, Goto, queueVars
<1>1. /\ main \in Threads /\ r \in Threads /\ r # main /\ r \notin Senders
      /\ Threads = {main, r} /\ main \notin Receivers
  BY DEF DrainProgram
<1>2. DrainTypeOK'
  <2>1. op[r] \in {"none", "recv"}
    BY <1>1 DEF SendingInv, IInv, TypeOK, CallInv, Queries
  <2>2. op' \in [Threads -> {"none", "recv", "empty_wait", "space_available"}]
    BY <1>1, <2>1 DEF SendingInv, IInv, TypeOK
  <2>3. QED
    <3>1. /\ avail' \in 0..nmemb /\ p_write' \in Slots /\ p_read' \in Slots
          /\ buf' \in [Slots -> Values \cup {NoVal}] /\ tmp' \in [Threads -> 0..nmemb]
      BY DEF SendingInv, IInv, TypeOK
    <3>2. pc' \in [Threads -> Locations \cup {"answer", "answered"}]
      BY <1>1 DEF SendingInv, IInv, TypeOK, Locations, Critical
    <3>3. val' \in [Threads -> Values \cup {NoVal} \cup Int]
      BY <1>1 DEF SendingInv, IInv, TypeOK
    <3>4. QED
      BY <2>2, <3>1, <3>2, <3>3 DEF DrainTypeOK
<1>3. MainDrains'
  BY <1>1 DEF MainDrains, DrainLocations, SendingInv, IInv, TypeOK, callVars
<1>4. ReaderInv(r)'
  BY <1>1 DEF ReaderInv, SendingInv, IInv, TypeOK, CallInv, CountInv, RingInv, Moves, Waits,
     Updating, Blocked, queue_is_empty_locked, Locations, Critical, Queries
<1>5. ReaderData(r)'
  BY <1>1 DEF ReaderData, SendingInv, IInv, TypeOK, CallInv, DataInv, Moves, Waits, Updating
<1>6. AnswerInv'
  BY <1>1 DEF AnswerInv, SendingInv, IInv, TypeOK
<1>7. QED
  BY <1>2, <1>3, <1>4, <1>5, <1>6 DEF DrainingInv

\* While main drains, whoever has the mutex, the reader alone moves elements.
LEMMA DrainingStep ==
  ASSUME DrainProgram, NEW r, Receivers = {r}, DrainingInv(r), [DrainStep]_vars
  PROVE  DrainingInv(r)'
<1> USE QueueAssumption DEF QueueAssumption, DrainProgram, DrainingInv, DrainTypeOK, MainDrains,
       DrainLocations, SpaceLocations, ReaderInv, ReaderData, AnswerInv, Moves, Waits, Updating, Locations, Critical,
       Goto, queueVars, waitVars, callVars
<1>0. main \in Threads /\ r \in Threads /\ r # main /\ Threads = {main, r}
  OBVIOUS
<1>1. CASE CallDrain
  BY <1>0, <1>1 DEF CallDrain, CleaningUp, Sent, queue_is_empty_locked
<1>2. CASE DrainUnlock
  BY <1>0, <1>2 DEF DrainUnlock, Sent, queue_is_empty_locked
<1>3. CASE DrainAnswer
  BY <1>0, <1>3 DEF DrainAnswer, Sent, queue_is_empty_locked
<1>4. CASE DrainReturn
  BY <1>0, <1>4 DEF DrainReturn, Sent, queue_is_empty_locked
<1>5. CASE CancelReader(r)
  BY <1>0, <1>5 DEF CancelReader, Cancel
<1>6. CASE CallSend(main)
  BY <1>0, <1>6 DEF CallSend, Begin
<1>7. CASE CallReader(r)
  BY <1>0, <1>7 DEF CallReader, CallRecv, Begin
<1>8. ASSUME NEW t \in Threads, Lock(t) PROVE DrainingInv(r)'
  BY <1>0, <1>8 DEF Lock, Blocked, queue_is_empty_locked
<1>9. ASSUME NEW t \in Threads, Query(t) PROVE DrainingInv(r)'
  <2>1. t = main /\ op[main] = "space_available" /\ avail = 0
    BY <1>0, <1>9 DEF Query, Queries
  <2>2. val' = [val EXCEPT ![main] = nmemb]
    BY <1>9, <2>1 DEF Query, Answer
  <2>3. QED
    BY <1>0, <1>9, <2>1, <2>2 DEF Query
<1>10. ASSUME NEW t \in Threads, Check(t) PROVE DrainingInv(r)'
  BY <1>0, <1>10 DEF Check, Blocked, queue_is_empty_locked
<1>11. ASSUME NEW t \in Threads, Loop(t) PROVE DrainingInv(r)'
  BY <1>0, <1>11 DEF Loop, Blocked, queue_is_empty_locked
<1>12. ASSUME NEW t \in Threads, Wait(t) PROVE DrainingInv(r)'
  BY <1>0, <1>12 DEF Wait, Blocked, queue_is_empty_locked
<1>13. ASSUME NEW t \in Threads, Timeout(t) PROVE DrainingInv(r)'
  BY <1>0, <1>13 DEF Timeout, Blocked, queue_is_empty_locked
<1>14. ASSUME NEW t \in Threads, Relock(t) PROVE DrainingInv(r)'
  BY <1>0, <1>14 DEF Relock, Blocked, queue_is_empty_locked
<1>15. ASSUME NEW t \in Threads, Result(t) PROVE DrainingInv(r)'
  BY <1>0, <1>15 DEF Result, Blocked, queue_is_empty_locked
<1>16. ASSUME NEW t \in Threads, Copy(t) PROVE DrainingInv(r)'
  BY <1>0, <1>16 DEF Copy, Blocked, queue_is_empty_locked
<1>17. ASSUME NEW t \in Threads, Advance(t) PROVE DrainingInv(r)'
  <2>1. t = r /\ pc[r] = "advance" /\ op[r] = "recv" /\ p_read' = NextSlot(p_read)
    BY <1>0, <1>17 DEF Advance
  <2>2. NextSlot(p_read) \in Slots /\ PrevSlot(NextSlot(p_read)) = p_read
    BY RingWalk
  <2>3. QED
    BY <1>0, <1>17, <2>1, <2>2 DEF Advance
<1>18. ASSUME NEW t \in Threads, Load(t) PROVE DrainingInv(r)'
  BY <1>0, <1>18 DEF Load, Blocked, queue_is_empty_locked
<1>19. ASSUME NEW t \in Threads, Store(t) PROVE DrainingInv(r)'
  <2>1. t = r /\ pc[r] = "store" /\ op[r] = "recv" /\ tmp[r] = avail /\ avail # 0
    BY <1>0, <1>19 DEF Store
  <2>2. avail' = avail - 1 /\ avail' \in 0..nmemb
    BY <1>0, <1>19, <2>1, StoredCount DEF Store
  <2>3. Slot(PrevSlot(p_read), avail) = Slot(p_read, avail - 1)
    <3>1. PrevSlot(p_read) \in Slots /\ NextSlot(PrevSlot(p_read)) = p_read
      BY RingWalk
    <3>2. QED
      BY <2>1, <3>1, RingWalk
  <2>4. QED
    BY <1>0, <1>19, <2>1, <2>2, <2>3 DEF Store
<1>20. ASSUME NEW t \in Threads, Signal(t) PROVE DrainingInv(r)'
  BY <1>0, <1>20 DEF Signal, Woken, Waiting, Peer, Blocked, queue_is_empty_locked
<1>21. ASSUME NEW t \in Threads, Fail(t) PROVE DrainingInv(r)'
  BY <1>0, <1>21 DEF Fail, Woken, Waiting, Blocked, queue_is_empty_locked
<1>22. ASSUME NEW t \in Threads, Unlock(t) PROVE DrainingInv(r)'
  BY <1>0, <1>22 DEF Unlock, Blocked, queue_is_empty_locked
<1>23. ASSUME NEW t \in Threads, Die(t) PROVE DrainingInv(r)'
  BY <1>0, <1>23 DEF Die, CancelDisabled, Blocked, queue_is_empty_locked
<1>24. ASSUME NEW t \in Threads, Expire(t) PROVE DrainingInv(r)'
  BY <1>0, <1>24 DEF Expire, Blocked, queue_is_empty_locked
<1>25. ASSUME NEW t \in Threads, Spurious(t) PROVE DrainingInv(r)'
  BY <1>0, <1>25 DEF Spurious, Blocked, queue_is_empty_locked
<1>26. CASE UNCHANGED vars
  BY <1>26 DEF vars
<1>27. CASE CallSpace
  BY <1>0, <1>27 DEF CallSpace, Drained, Sent
<1>28. QED
  BY <1>27, <1>0, <1>1, <1>2, <1>3, <1>4, <1>5, <1>6, <1>7, <1>8, <1>9, <1>10, <1>11, <1>12, <1>13, <1>14, <1>15, <1>16, <1>17, <1>18, <1>19, <1>20, <1>21, <1>22, <1>23, <1>24, <1>25, <1>26 DEF DrainStep, Main, Step

\* The two phases of the program, and the step from one to the other.
LEMMA DrainInvStep ==
  ASSUME DrainProgram, NEW r, Receivers = {r}, DrainInv, [DrainStep]_vars
  PROVE  DrainInv'
<1>1. CASE SendingInv /\ UNCHANGED vars
  BY <1>1, NextIInv, DataStep DEF SendingInv, DrainInv, vars, callVars
<1>2. CASE SendingInv /\ DrainStep /\ ~CallDrain
  BY <1>2, SendingStep DEF DrainInv
<1>3. CASE SendingInv /\ CallDrain
  BY <1>3, DrainBegins DEF DrainInv
<1>4. CASE DrainingInv(r)
  BY <1>4, DrainingStep DEF DrainInv
<1>5. QED
  BY <1>1, <1>2, <1>3, <1>4 DEF DrainInv

\* The end of the process changes nothing of the queue.
LEMMA DrainStepOrEnd == [DrainNext]_drainVars => [DrainStep]_vars
BY DEF DrainNext, Running, CreateFails, MainReturns, drainVars

\* The program starts in the first phase.
LEMMA InitDrain == Init => DrainInv
<1>1. Init => DataInv /\ \A t \in Threads : op[t] \notin Queries
  BY DEF Init, DataInv, Queries
<1>2. QED
  BY <1>1, InitIInv DEF DrainInv, SendingInv

\* With one reader the answer of queue_empty_wait can be trusted: when main
\* goes on, the queue is empty and no element is in flight, until it cancels
\* the reader; the space it asks for in between is the whole queue.
THEOREM DrainedMeansEmpty ==
  ASSUME DrainProgram, OneReader
  PROVE  DrainSpec => []DrainedIsEmpty
<1>1. PICK r : Receivers = {r}
  BY DEF OneReader
<1>3. DrainInv /\ [DrainNext]_drainVars => DrainInv'
  BY <1>1, DrainInvStep, DrainStepOrEnd
<1>4. DrainInv => DrainedIsEmpty
  <2>1. main \in Threads
    BY DEF DrainProgram
  <2>2. CASE SendingInv
    BY <2>1, <2>2 DEF SendingInv, IInv, TypeOK, DrainedIsEmpty, Drained, CleaningUp, Queries
  <2>3. CASE DrainingInv(r)
    <3>0. CleaningUp => val[main] = nmemb
      BY <2>3 DEF DrainingInv, AnswerInv, CleaningUp, Sent
    <3>1. SUFFICES ASSUME Drained \/ CleaningUp PROVE avail = 0 /\ p_read = p_write
      BY <3>0 DEF DrainedIsEmpty
    <3>2. avail = 0
      BY <2>3, <3>1 DEF DrainingInv, AnswerInv, Drained, CleaningUp, Sent
    <3>3. p_write = Slot(p_read, 0) /\ p_read \in Slots
      BY <2>3, <3>2 DEF DrainingInv, DrainTypeOK, ReaderInv, Moves, Updating
    <3>4. QED
      BY <3>2, <3>3, QueueAssumption DEF QueueAssumption, Slot, Slots
  <2>4. QED
    BY <1>1, <2>2, <2>3 DEF DrainInv
<1>5. QED
  BY InitDrain, <1>3, <1>4, PTL DEF DrainSpec, DrainInit

\* main calls queue_empty_wait or queue_space_available; neither touches the
\* ring on its way in.
LEMMA MainInvokes ==
  ASSUME NEW L, NEW O, NEW V, main \in Threads,
         pc \in [Threads -> L], op \in [Threads -> O], val \in [Threads -> V],
         \A t \in Threads : op[t] = "recv" => t # main,
         NEW o \in {"empty_wait", "space_available"}, NEW l \in {"loop", "lock"},
         pc[main] = "idle", pc' = [pc EXCEPT ![main] = l], op' = [op EXCEPT ![main] = o],
         val' = [val EXCEPT ![main] = NoVal], UNCHANGED queueVars
  PROVE  Fifo!Invoke(main, o, NoVal)
<1> USE DEF queueVars
<1>1. Items' = Items
  BY DEF Items, FirstSlot, Taking
<1>2. Stage[main] = "idle" /\ Stage' = [Stage EXCEPT ![main] = "pending"]
  BY DEF Stage, StageOf
<1>3. Result_val' = [Result_val EXCEPT ![main] = NoVal]
  BY <1>2 DEF Result_val, Stage
<1>4. QED
  BY <1>1, <1>2, <1>3 DEF Fifo!Invoke

\* While main drains, the reader's calls and main's take effect as those of
\* a FIFO do.
LEMMA DrainingFifo ==
  ASSUME DrainProgram, NEW r, Receivers = {r}, DrainingInv(r), [DrainStep]_vars
  PROVE  [Fifo!Next]_Fifo!vars
<1> USE QueueAssumption DEF QueueAssumption, DrainProgram, DrainingInv, DrainTypeOK, MainDrains,
       DrainLocations, SpaceLocations, ReaderInv, Moves, Waits, Updating, Goto, queueVars, waitVars, callVars
<1> DEFINE View == <<Stage, op, Result_val>>
<1>a. ASSUME UNCHANGED View, Items' = Items PROVE [Fifo!Next]_Fifo!vars
  BY <1>a DEF Fifo!vars
<1>b. RingType /\ Len(Items) = avail /\ (avail = 0 => Items = <<>>)
  BY ItemsSeq, EmptySeq DEF RingType
<1>0. main \in Threads /\ r \in Threads /\ r # main /\ Threads = {main, r}
  OBVIOUS
<1>1. CASE CallDrain
  <2>1. Fifo!Invoke(main, "empty_wait", NoVal)
    BY <1>0, <1>1, MainInvokes DEF CallDrain, Sent
  <2>2. QED
    BY <1>0, <2>1 DEF Fifo!Next, Fifo!Queries
<1>2. CASE DrainUnlock
  <2>1. UNCHANGED View
    BY <1>0, <1>2 DEF DrainUnlock, Stage, StageOf, Result_val
  <2>2. Items' = Items
    BY <1>0, <1>2 DEF DrainUnlock, Items, FirstSlot, Taking
  <2>3. QED
    BY <1>a, <2>1, <2>2
<1>3. CASE DrainAnswer
  <2>1. Items' = Items
    BY <1>0, <1>3 DEF DrainAnswer, Items, FirstSlot, Taking
  <2>2. (IF queue_is_empty_locked THEN 0 ELSE 1) = Fifo!Answer(op[main], Len(Items))
    <3>1. op[main] = "empty_wait"
      BY <1>3 DEF DrainAnswer
    <3>2. QED
      BY <1>b, <3>1 DEF Fifo!Answer, queue_is_empty_locked
  <2>3. Stage[main] = "pending" /\ Stage' = [Stage EXCEPT ![main] = "done"]
    BY <1>0, <1>3 DEF DrainAnswer, Stage, StageOf
  <2>4. Result_val' = [Result_val EXCEPT ![main] = Fifo!Answer(op[main], Len(Items))]
    BY <1>0, <1>3, <2>2, <2>3 DEF DrainAnswer, Result_val, Stage
  <2>5. Fifo!Observe(main)
    BY <1>0, <1>3, <2>1, <2>3, <2>4 DEF DrainAnswer, Fifo!Observe, Fifo!Queries
  <2>6. QED
    BY <1>0, <2>5 DEF Fifo!Next
<1>4. CASE DrainReturn
  <2>1. Items' = Items
    BY <1>0, <1>4 DEF DrainReturn, Items, FirstSlot, Taking
  <2>2. Stage[main] = "done" /\ Stage' = [Stage EXCEPT ![main] = "idle"]
    BY <1>0, <1>4 DEF DrainReturn, Stage, StageOf
  <2>3. Result_val' = Result_val
    BY <1>0, <1>4, <2>2 DEF DrainReturn, Result_val, Stage
  <2>4. Fifo!Return(main)
    BY <1>0, <1>4, <2>1, <2>2, <2>3 DEF DrainReturn, Fifo!Return
  <2>5. QED
    BY <1>0, <2>4 DEF Fifo!Next
<1>5. CASE CancelReader(r)
  <2>1. UNCHANGED View
    BY <1>0, <1>5 DEF CancelReader, Cancel, Stage, Result_val
  <2>2. Items' = Items
    BY <1>0, <1>5 DEF CancelReader, Cancel, Items, FirstSlot, Taking
  <2>3. QED
    BY <1>a, <2>1, <2>2
<1>6. CASE CallSend(main)
  BY <1>0, <1>6 DEF CallSend, Begin
<1>7. CASE CallReader(r)
  <2>1. PICK d \in Deadlines : Begin(r, "recv", NoVal, d, "lock")
    BY <1>7 DEF CallReader, CallRecv
  <2>2. Fifo!Invoke(r, "recv", NoVal)
    BY <1>0, <2>1, CallInvokes
  <2>3. QED
    BY <1>0, <2>2 DEF Fifo!Next
<1>8. ASSUME NEW t \in Threads, Lock(t) PROVE [Fifo!Next]_Fifo!vars
  <2>1. UNCHANGED View
    BY <1>0, <1>8 DEF Lock, Stage, StageOf, Result_val
  <2>2. Items' = Items
    BY <1>0, <1>8 DEF Lock, Items, FirstSlot, Taking
  <2>3. QED
    BY <1>a, <2>1, <2>2
<1>9. ASSUME NEW t \in Threads, Query(t) PROVE [Fifo!Next]_Fifo!vars
  <2>0. t = main /\ pc[main] = "check" /\ op[main] = "space_available"
    BY <1>0, <1>9 DEF Query, Queries
  <2>1. Items' = Items
    BY <1>0, <1>9 DEF Query, Items, FirstSlot, Taking
  <2>2. Answer(op[main]) = Fifo!Answer(op[main], Len(Items))
    BY <1>b, <2>0 DEF Answer, Fifo!Answer
  <2>3. Stage[main] = "pending" /\ Stage' = [Stage EXCEPT ![main] = "done"]
    BY <1>0, <1>9, <2>0 DEF Query, Stage, StageOf
  <2>4. Result_val' = [Result_val EXCEPT ![main] = Fifo!Answer(op[main], Len(Items))]
    BY <1>0, <1>9, <2>0, <2>2, <2>3 DEF Query, Result_val, Stage
  <2>5. Fifo!Observe(main)
    BY <1>0, <1>9, <2>0, <2>1, <2>3, <2>4 DEF Query, Fifo!Observe, Fifo!Queries
  <2>6. QED
    BY <1>0, <2>5 DEF Fifo!Next
<1>10. ASSUME NEW t \in Threads, Check(t) PROVE [Fifo!Next]_Fifo!vars
  <2>1. UNCHANGED View
    BY <1>0, <1>10 DEF Check, Stage, StageOf, Result_val
  <2>2. Items' = Items
    BY <1>0, <1>10 DEF Check, Items, FirstSlot, Taking
  <2>3. QED
    BY <1>a, <2>1, <2>2
<1>11. ASSUME NEW t \in Threads, Loop(t) PROVE [Fifo!Next]_Fifo!vars
  <2>1. UNCHANGED View
    BY <1>0, <1>11 DEF Loop, Stage, StageOf, Result_val
  <2>2. Items' = Items
    BY <1>0, <1>11 DEF Loop, Items, FirstSlot, Taking
  <2>3. QED
    BY <1>a, <2>1, <2>2
<1>12. ASSUME NEW t \in Threads, Wait(t) PROVE [Fifo!Next]_Fifo!vars
  <2>1. UNCHANGED View
    BY <1>0, <1>12 DEF Wait, Stage, StageOf, Result_val
  <2>2. Items' = Items
    BY <1>0, <1>12 DEF Wait, Items, FirstSlot, Taking
  <2>3. QED
    BY <1>a, <2>1, <2>2
<1>13. ASSUME NEW t \in Threads, Timeout(t) PROVE [Fifo!Next]_Fifo!vars
  <2>1. UNCHANGED View
    BY <1>0, <1>13 DEF Timeout, Stage, StageOf, Result_val
  <2>2. Items' = Items
    BY <1>0, <1>13 DEF Timeout, Items, FirstSlot, Taking
  <2>3. QED
    BY <1>a, <2>1, <2>2
<1>14. ASSUME NEW t \in Threads, Relock(t) PROVE [Fifo!Next]_Fifo!vars
  <2>1. UNCHANGED View
    BY <1>0, <1>14 DEF Relock, Stage, StageOf, Result_val
  <2>2. Items' = Items
    BY <1>0, <1>14 DEF Relock, Items, FirstSlot, Taking
  <2>3. QED
    BY <1>a, <2>1, <2>2
<1>15. ASSUME NEW t \in Threads, Load(t) PROVE [Fifo!Next]_Fifo!vars
  <2>1. UNCHANGED View
    BY <1>0, <1>15 DEF Load, Stage, StageOf, Result_val
  <2>2. Items' = Items
    BY <1>0, <1>15 DEF Load, Items, FirstSlot, Taking
  <2>3. QED
    BY <1>a, <2>1, <2>2
<1>16. ASSUME NEW t \in Threads, Signal(t) PROVE [Fifo!Next]_Fifo!vars
  <2>1. UNCHANGED View
    BY <1>0, <1>16 DEF Signal, Woken, Waiting, Peer, Stage, StageOf, Result_val
  <2>2. Items' = Items
    BY <1>0, <1>16 DEF Signal, Woken, Waiting, Peer, Items, FirstSlot, Taking
  <2>3. QED
    BY <1>a, <2>1, <2>2
<1>17. ASSUME NEW t \in Threads, Fail(t) PROVE [Fifo!Next]_Fifo!vars
  <2>1. UNCHANGED View
    BY <1>0, <1>17 DEF Fail, Woken, Waiting, Stage, StageOf, Result_val
  <2>2. Items' = Items
    BY <1>0, <1>17 DEF Fail, Woken, Waiting, Items, FirstSlot, Taking
  <2>3. QED
    BY <1>a, <2>1, <2>2
<1>18. ASSUME NEW t \in Threads, Expire(t) PROVE [Fifo!Next]_Fifo!vars
  <2>1. UNCHANGED View
    BY <1>0, <1>18 DEF Expire, Stage, StageOf, Result_val
  <2>2. Items' = Items
    BY <1>0, <1>18 DEF Expire, Items, FirstSlot, Taking
  <2>3. QED
    BY <1>a, <2>1, <2>2
<1>19. ASSUME NEW t \in Threads, Spurious(t) PROVE [Fifo!Next]_Fifo!vars
  <2>1. UNCHANGED View
    BY <1>0, <1>19 DEF Spurious, Stage, StageOf, Result_val
  <2>2. Items' = Items
    BY <1>0, <1>19 DEF Spurious, Items, FirstSlot, Taking
  <2>3. QED
    BY <1>a, <2>1, <2>2
<1>20. ASSUME NEW t \in Threads, Result(t) PROVE [Fifo!Next]_Fifo!vars
  <2>0. t = r /\ op[r] = "recv" /\ val[r] = NoVal
    BY <1>0, <1>20 DEF Result, ReaderData
  <2>1. Items' = Items
    BY <1>0, <1>20 DEF Result, Items, FirstSlot, Taking
  <2>2. CASE avail = 0
    <3>1. Stage[r] = "pending" /\ Stage' = [Stage EXCEPT ![r] = "refused"]
      BY <1>0, <1>20, <2>0, <2>2 DEF Result, Blocked, queue_is_empty_locked, Stage, StageOf
    <3>2. Result_val' = Result_val
      BY <1>0, <1>20, <2>0, <3>1 DEF Result, Result_val
    <3>3. Fifo!Refuse(r)
      BY <1>0, <1>b, <1>20, <2>0, <2>1, <2>2, <3>1, <3>2 DEF Result, Fifo!Refuse
    <3>4. QED
      BY <1>0, <3>3 DEF Fifo!Next
  <2>3. CASE avail # 0
    <3>1. UNCHANGED View
      BY <1>0, <1>20, <2>0, <2>3 DEF Result, Blocked, queue_is_empty_locked, Stage, StageOf, Result_val
    <3>2. QED
      BY <1>a, <2>1, <3>1
  <2>4. QED
    BY <2>2, <2>3
<1>21. ASSUME NEW t \in Threads, Copy(t) PROVE [Fifo!Next]_Fifo!vars
  <2>1. t = r /\ op[r] = "recv" /\ UNCHANGED <<buf, avail, p_read>>
    BY <1>0, <1>21 DEF Copy
  <2>2. UNCHANGED View
    BY <1>0, <1>21, <2>1 DEF Copy, Stage, StageOf, Result_val
  <2>3. Items' = Items
    BY <1>0, <1>21, <2>1 DEF Copy, Items, FirstSlot, Taking
  <2>4. QED
    BY <1>a, <2>2, <2>3
<1>22. ASSUME NEW t \in Threads, Advance(t) PROVE [Fifo!Next]_Fifo!vars
  <2>1. t = r /\ op[r] = "recv" /\ p_read' = NextSlot(p_read) /\ UNCHANGED <<buf, avail>>
    BY <1>0, <1>22 DEF Advance
  <2>2. UNCHANGED View
    BY <1>0, <1>22, <2>1 DEF Advance, Stage, StageOf, Result_val
  <2>3. ~Taking /\ Taking'
    BY <1>0, <1>22, <2>1 DEF Advance, Taking
  <2>4. PrevSlot(NextSlot(p_read)) = p_read
    BY RingWalk
  <2>5. FirstSlot' = FirstSlot
    BY <2>1, <2>3, <2>4 DEF FirstSlot, PrevSlot
  <2>6. QED
    BY <1>a, <2>1, <2>2, <2>5, SameItems
<1>23. ASSUME NEW t \in Threads, Store(t) PROVE [Fifo!Next]_Fifo!vars
  <2>1. /\ t = r /\ pc[r] = "store" /\ op[r] = "recv" /\ tmp[r] = avail /\ avail # 0
        /\ val[r] = buf[PrevSlot(p_read)]
        /\ \A u \in Threads \ {r} : pc[u] \in Moves => op[u] # "recv"
    BY <1>0, <1>23 DEF Store, ReaderData
  <2>2. Items # <<>> /\ Items' = Tail(Items) /\ val[r] = Head(Items)
    BY <1>0, <1>b, <1>23, <2>1, StoreTakes
  <2>3. Stage[r] = "pending" /\ Stage' = [Stage EXCEPT ![r] = "done"]
    BY <1>0, <1>23, <2>1 DEF Store, Stage, StageOf
  <2>4. Result_val' = [Result_val EXCEPT ![r] = Head(Items)]
    <3>1. val' = val /\ op' = op /\ op[main] # "recv"
      BY <1>0, <1>23 DEF Store
    <3>2. ASSUME NEW u \in Threads PROVE Result_val'[u] = [Result_val EXCEPT ![r] = Head(Items)][u]
      <4>1. CASE u = r
        BY <2>1, <2>2, <2>3, <3>1, <4>1 DEF Result_val, Stage
      <4>2. CASE u = main
        BY <1>0, <3>1, <4>2 DEF Result_val
      <4>3. QED
        BY <1>0, <4>1, <4>2
    <3>3. QED
      BY <3>2 DEF Result_val
  <2>5. Fifo!Take(r)
    BY <1>0, <1>23, <2>1, <2>2, <2>3, <2>4 DEF Store, Fifo!Take
  <2>6. QED
    BY <1>0, <2>5 DEF Fifo!Next
<1>24. ASSUME NEW t \in Threads, Unlock(t) PROVE [Fifo!Next]_Fifo!vars
  <2>1. Items' = Items
    BY <1>0, <1>24 DEF Unlock, Items, FirstSlot, Taking
  <2>2. Stage[t] \in {"done", "refused"} /\ Stage' = [Stage EXCEPT ![t] = "idle"]
    BY <1>0, <1>24 DEF Unlock, Stage, StageOf
  <2>3. Result_val' = Result_val
    BY <1>0, <1>24, <2>2 DEF Unlock, Result_val
  <2>4. Fifo!Return(t)
    BY <1>24, <2>1, <2>2, <2>3 DEF Unlock, Fifo!Return
  <2>5. QED
    BY <2>4 DEF Fifo!Next
<1>25. ASSUME NEW t \in Threads, Die(t) PROVE [Fifo!Next]_Fifo!vars
  <2>1. Items' = Items
    BY <1>0, <1>25 DEF Die, CancelDisabled, Items, FirstSlot, Taking
  <2>2. Stage[t] = "idle" /\ Stage' = [Stage EXCEPT ![t] = "dead"]
    BY <1>0, <1>25 DEF Die, CancelDisabled, Stage, StageOf
  <2>3. Result_val' = Result_val
    BY <1>0, <1>25, <2>2 DEF Die, Result_val
  <2>4. Fifo!Stop(t)
    BY <1>25, <2>1, <2>2, <2>3 DEF Die, Fifo!Stop
  <2>5. QED
    BY <2>4 DEF Fifo!Next
<1>26. CASE UNCHANGED vars
  <2>1. UNCHANGED View /\ Items' = Items
    BY <1>26 DEF vars, Stage, Result_val, Items, FirstSlot, Taking
  <2>2. QED
    BY <1>a, <2>1
<1>27. CASE CallSpace
  <2>1. Fifo!Invoke(main, "space_available", NoVal)
    BY <1>0, <1>27, MainInvokes DEF CallSpace, Drained, Sent
  <2>2. QED
    BY <1>0, <2>1 DEF Fifo!Next, Fifo!Queries
<1>28. QED
  BY <1>27, <1>0, <1>1, <1>2, <1>3, <1>4, <1>5, <1>6, <1>7, <1>8, <1>9, <1>10, <1>11, <1>12, <1>13, <1>14, <1>15, <1>16, <1>17, <1>18, <1>19, <1>20, <1>21, <1>22, <1>23, <1>24, <1>25, <1>26 DEF DrainStep, Main, Step

\* Although queue_empty_wait releases a mutex it does not hold, the program
\* of examples/queue_multithreaded with one reader uses a FIFO: every message
\* main sends is received once and in order, and queue_empty_wait answers
\* whether the queue was empty at some instant of the call.
THEOREM DrainRefinement ==
  ASSUME DrainProgram, OneReader
  PROVE  DrainSpec => ImplementsFifo
<1>1. PICK r : Receivers = {r}
  BY DEF OneReader
<1>2. DrainSpec => []DrainInv
  <2>1. DrainInv /\ [DrainNext]_drainVars => DrainInv'
    BY <1>1, DrainInvStep, DrainStepOrEnd
  <2>2. QED
    BY InitDrain, <2>1, PTL DEF DrainSpec, DrainInit
<1>3. DrainInv /\ [DrainNext]_drainVars => [Fifo!Next]_Fifo!vars
  <2> SUFFICES ASSUME DrainInv, [DrainStep]_vars PROVE [Fifo!Next]_Fifo!vars
    BY DrainStepOrEnd
  <2>1. CASE DrainingInv(r)
    BY <1>1, <2>1, DrainingFifo
  <2>2. CASE SendingInv /\ UNCHANGED vars
    BY <2>2, StepFifo DEF SendingInv
  <2>3. CASE SendingInv /\ DrainStep /\ ~CallDrain
    BY <2>3, SendingStep, StepFifo DEF SendingInv
  <2>4. CASE SendingInv /\ CallDrain
    <3>1. main \in Threads /\ main \notin Receivers
      BY DEF DrainProgram
    <3>2. Fifo!Invoke(main, "empty_wait", NoVal)
      BY <2>4, <3>1, MainInvokes DEF SendingInv, IInv, TypeOK, CallInv, CallDrain, Sent, Goto
    <3>3. QED
      BY <3>1, <3>2 DEF Fifo!Next, Fifo!Queries
  <2>5. QED
    BY <1>1, <2>1, <2>2, <2>3, <2>4 DEF DrainInv
<1>4. QED
  BY InitFifo, <1>2, <1>3, PTL DEF DrainSpec, DrainInit, ImplementsFifo, Fifo!Spec
=============================================================================
