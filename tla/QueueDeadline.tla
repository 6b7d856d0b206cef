---------------------------- MODULE QueueDeadline ----------------------------
(***************************************************************************)
(* The deadline of a waiting call: queue_send_wait, queue_recv_wait and    *)
(* queue_empty_wait read the clock, queue_ts_add adds the timeout in       *)
(* milliseconds, and pthread_cond_timedwait waits until that time on a     *)
(* queue whose condition never comes.  The code's 1000 and 1000000l are    *)
(* MsPerSec and NsPerMs, its 999999999l is Nsec - 1.                       *)
(***************************************************************************)
EXTENDS Integers

CONSTANTS MsPerSec, NsPerMs, MaxSec, Timeouts

ASSUME DeadlineAssumption ==
  /\ MsPerSec \in Nat \ {0} /\ NsPerMs \in Nat \ {0}
  /\ MaxSec \in Nat /\ Timeouts \subseteq Int

VARIABLES now, start, ts, timeout, stage
vars == <<now, start, ts, timeout, stage>>

Nsec == MsPerSec * NsPerMs
Timespec == [tv_sec : Int, tv_nsec : Int]

\* The times pthread_cond_timedwait accepts.
Valid(t) == t.tv_nsec \in 0..(Nsec - 1)
Time(t) == t.tv_sec * Nsec + t.tv_nsec

\* Division and remainder of C truncate towards zero.
CDiv(a, b) == IF a >= 0 THEN a \div b ELSE -((-a) \div b)
CMod(a, b) == a - b * CDiv(a, b)

Sum(t, ms) == t.tv_nsec + CMod(ms, MsPerSec) * NsPerMs

queue_ts_add_NoCarry(t, ms) ==
  [tv_sec |-> t.tv_sec + CDiv(ms, MsPerSec),
   tv_nsec |-> IF Sum(t, ms) > Nsec - 1 THEN Sum(t, ms) - (Nsec - 1) ELSE Sum(t, ms)]
queue_ts_add_LateCarry(t, ms) ==
  IF Sum(t, ms) > Nsec
  THEN [tv_sec |-> t.tv_sec + CDiv(ms, MsPerSec) + 1, tv_nsec |-> Sum(t, ms) - (Nsec - 1)]
  ELSE [tv_sec |-> t.tv_sec + CDiv(ms, MsPerSec), tv_nsec |-> Sum(t, ms)]
queue_ts_add_CarryTwice(t, ms) ==
  IF Sum(t, ms) > Nsec - 1
  THEN [tv_sec |-> t.tv_sec + CDiv(ms, MsPerSec) + 2, tv_nsec |-> Sum(t, ms) - (Nsec - 1)]
  ELSE [tv_sec |-> t.tv_sec + CDiv(ms, MsPerSec), tv_nsec |-> Sum(t, ms)]
queue_ts_add(t, ms) ==
  IF Sum(t, ms) > Nsec - 1
  THEN [tv_sec |-> t.tv_sec + CDiv(ms, MsPerSec) + 1, tv_nsec |-> Sum(t, ms) - (Nsec - 1)]
  ELSE [tv_sec |-> t.tv_sec + CDiv(ms, MsPerSec), tv_nsec |-> Sum(t, ms)]
-----------------------------------------------------------------------------
Init ==
  /\ now \in [tv_sec : {0}, tv_nsec : 0..(Nsec - 1)]
  /\ start = now /\ ts = now
  /\ timeout \in Timeouts
  /\ stage = "entry"

\* clock_gettime(CLOCK_REALTIME, &ts)
ReadClock ==
  /\ stage = "entry"
  /\ start' = now /\ ts' = now
  /\ stage' = "read"
  /\ UNCHANGED <<now, timeout>>

\* if(timeout) queue_ts_add(&ts, timeout)
AddTimeout ==
  /\ stage = "read"
  /\ ts' = IF timeout # 0 THEN queue_ts_add(ts, timeout) ELSE ts
  /\ stage' = "waiting"
  /\ UNCHANGED <<now, start, timeout>>

\* pthread_cond_timedwait refuses a malformed time, else returns once it is
\* past.
Einval ==
  /\ stage = "waiting" /\ ~Valid(ts)
  /\ stage' = "EINVAL"
  /\ UNCHANGED <<now, start, ts, timeout>>

Etimedout ==
  /\ stage = "waiting" /\ Valid(ts) /\ Time(now) >= Time(ts)
  /\ stage' = "ETIMEDOUT"
  /\ UNCHANGED <<now, start, ts, timeout>>

\* The clock, up to the bound MaxSec.
Tick ==
  /\ stage \in {"entry", "read", "waiting"} /\ now.tv_sec <= MaxSec
  /\ now' = IF now.tv_nsec = Nsec - 1
            THEN [tv_sec |-> now.tv_sec + 1, tv_nsec |-> 0]
            ELSE [tv_sec |-> now.tv_sec, tv_nsec |-> now.tv_nsec + 1]
  /\ UNCHANGED <<start, ts, timeout, stage>>

Next == ReadClock \/ AddTimeout \/ Einval \/ Etimedout \/ Tick
Spec == Init /\ [][Next]_vars
-----------------------------------------------------------------------------
(* Properties                                                              *)

\* A call with a timeout of some milliseconds does not give up before they
\* have passed, wherever in a second it began (queue_ts_add's carry).
NeverEarly ==
  stage = "ETIMEDOUT" /\ timeout >= 0 => Time(now) >= Time(start) + timeout * NsPerMs

\* pthread_cond_timedwait rejects the deadline only of a negative timeout:
\* queue_ts_add hands it a normalised timespec otherwise.
EinvalOnlyNegative == stage = "EINVAL" => timeout < 0

\* The deadline is the timeout after the clock reading, or one nanosecond
\* later when the second carries (queue_ts_add subtracts 999999999).
DeadlineWithinOneNs ==
  stage \in {"waiting", "ETIMEDOUT"} /\ timeout >= 0 =>
    Time(ts) - Time(start) - timeout * NsPerMs \in {0, 1}
=============================================================================
