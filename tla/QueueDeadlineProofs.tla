------------------------- MODULE QueueDeadlineProofs -------------------------
(***************************************************************************)
(* The deadline of a waiting call, for every timeout and every subdivision *)
(* of the second.  The arithmetic is in AddExact; the invariant carries it *)
(* from AddTimeout to the end of the wait.                                 *)
(***************************************************************************)
EXTENDS QueueDeadline, TLAPS

\* Products of the integers that occur here.
LEMMA Distribute ==
  ASSUME NEW a \in Int, NEW b \in Int, NEW c \in Int
  PROVE  /\ (a + b) * c = a * c + b * c
         /\ (a * b) * c = b * (a * c)
         /\ a * b \in Int
         /\ a >= 0 /\ b >= 0 => a * b >= 0
OBVIOUS

\* The quotient and the remainder of a timeout that is not negative.
LEMMA Split ==
  ASSUME NEW ms \in Nat
  PROVE  /\ CDiv(ms, MsPerSec) \in Nat
         /\ CMod(ms, MsPerSec) \in 0..(MsPerSec - 1)
         /\ ms = MsPerSec * CDiv(ms, MsPerSec) + CMod(ms, MsPerSec)
BY DeadlineAssumption DEF DeadlineAssumption, CDiv, CMod

\* The milliseconds past the whole seconds are less than a second.
LEMMA Remainder ==
  ASSUME NEW r \in 0..(MsPerSec - 1)
  PROVE  r * NsPerMs \in Nat /\ r * NsPerMs + 1 <= Nsec /\ Nsec \in Nat \ {0}
<1> USE DeadlineAssumption DEF DeadlineAssumption
<1>1. r * NsPerMs \in Nat /\ (MsPerSec - r) * NsPerMs \in Nat
  BY Distribute
<1>2. (MsPerSec - r) * NsPerMs >= 1
  <2> DEFINE k == (MsPerSec - r) - 1
  <2>1. k \in Nat /\ k * NsPerMs >= 0 /\ k * NsPerMs \in Int
    BY Distribute
  <2>2. (k + 1) * NsPerMs = k * NsPerMs + NsPerMs
    BY <2>1, Distribute
  <2>3. MsPerSec - r = k + 1
    OBVIOUS
  <2> HIDE DEF k
  <2>4. QED
    BY <2>1, <2>2, <2>3
<1>3. Nsec = (MsPerSec - r) * NsPerMs + r * NsPerMs
  <2>1. MsPerSec = (MsPerSec - r) + r /\ MsPerSec - r \in Int
    OBVIOUS
  <2>2. ((MsPerSec - r) + r) * NsPerMs = (MsPerSec - r) * NsPerMs + r * NsPerMs
    BY <2>1, Distribute
  <2>3. QED
    BY <2>1, <2>2 DEF Nsec
<1>4. QED
  BY <1>1, <1>2, <1>3

\* queue_ts_add on a valid time and a timeout that is not negative.
LEMMA AddExact ==
  ASSUME NEW t \in Timespec, Valid(t), NEW ms \in Nat
  PROVE  LET d == queue_ts_add(t, ms) IN
           /\ d \in Timespec /\ Valid(d)
           /\ Time(d) - Time(t) - ms * NsPerMs \in {0, 1}
<1> USE DeadlineAssumption DEF DeadlineAssumption
<1> DEFINE q == CDiv(ms, MsPerSec)
           r == CMod(ms, MsPerSec)
           R == r * NsPerMs
           s == t.tv_sec
           n == t.tv_nsec
<1>1. q \in Nat /\ r \in 0..(MsPerSec - 1) /\ ms = MsPerSec * q + r
  BY Split
<1>2. R \in Nat /\ R + 1 <= Nsec /\ Nsec \in Nat \ {0}
  BY <1>1, Remainder
<1>3. ms * NsPerMs = q * Nsec + R
  <2>1. (MsPerSec * q) * NsPerMs = q * Nsec /\ MsPerSec * q \in Int
    BY <1>1, Distribute DEF Nsec
  <2>2. (MsPerSec * q + r) * NsPerMs = (MsPerSec * q) * NsPerMs + r * NsPerMs
    BY <1>1, <2>1, Distribute
  <2>3. QED
    BY <1>1, <2>1, <2>2
<1>4. s \in Int /\ n \in 0..(Nsec - 1) /\ t = [tv_sec |-> s, tv_nsec |-> n]
  BY DEF Timespec, Valid
<1>5. /\ (s + q) * Nsec = s * Nsec + q * Nsec
      /\ ((s + q) + 1) * Nsec = (s * Nsec + q * Nsec) + Nsec
      /\ s * Nsec \in Int /\ q * Nsec \in Int
  <2>1. s \in Int /\ q \in Int /\ s + q \in Int /\ Nsec \in Int
    BY <1>1, <1>2, <1>4
  <2> HIDE DEF s, q
  <2>2. (s + q) * Nsec = s * Nsec + q * Nsec /\ s * Nsec \in Int /\ q * Nsec \in Int
    BY <2>1, Distribute
  <2>3. ((s + q) + 1) * Nsec = (s + q) * Nsec + 1 * Nsec
    BY <2>1, Distribute
  <2>4. QED
    BY <2>1, <2>2, <2>3
<1>6. Sum(t, ms) = n + R
  BY DEF Sum
<1> HIDE DEF q, r, R, s, n
<1>7. CASE n + R > Nsec - 1
  <2>1. queue_ts_add(t, ms) = [tv_sec |-> (s + q) + 1, tv_nsec |-> n + R - (Nsec - 1)]
    BY <1>1, <1>2, <1>4, <1>6, <1>7 DEF queue_ts_add, q, s
  <2>2. n + R - (Nsec - 1) \in 0..(Nsec - 1)
    BY <1>2, <1>4, <1>7
  <2>3. Time(queue_ts_add(t, ms)) = (s * Nsec + q * Nsec) + Nsec + (n + R - (Nsec - 1))
    BY <1>5, <2>1 DEF Time
  <2>4. Time(t) = s * Nsec + n
    BY DEF Time, s, n
  <2>5. Time(queue_ts_add(t, ms)) - Time(t) - ms * NsPerMs = 1
    BY <1>2, <1>3, <1>4, <1>5, <2>3, <2>4
  <2>6. QED
    BY <1>1, <1>2, <1>4, <2>1, <2>2, <2>5 DEF Timespec, Valid
<1>8. CASE ~(n + R > Nsec - 1)
  <2>1. queue_ts_add(t, ms) = [tv_sec |-> s + q, tv_nsec |-> n + R]
    BY <1>6, <1>8 DEF queue_ts_add, q, s
  <2>2. n + R \in 0..(Nsec - 1)
    BY <1>2, <1>4, <1>8
  <2>3. Time(queue_ts_add(t, ms)) = (s * Nsec + q * Nsec) + (n + R)
    BY <1>5, <2>1 DEF Time
  <2>4. Time(t) = s * Nsec + n
    BY DEF Time, s, n
  <2>5. Time(queue_ts_add(t, ms)) - Time(t) - ms * NsPerMs = 0
    BY <1>2, <1>3, <1>4, <1>5, <2>3, <2>4
  <2>6. QED
    BY <1>1, <1>2, <1>4, <2>1, <2>2, <2>5 DEF Timespec, Valid
<1>9. QED
  BY <1>7, <1>8
-----------------------------------------------------------------------------
Stages == {"entry", "read", "waiting", "EINVAL", "ETIMEDOUT"}

\* The inductive invariant: the clock readings are valid times, and once
\* the timeout is added the deadline of a timeout that is not negative is
\* valid and at most a nanosecond late.
DeadlineInv ==
  /\ now \in Timespec /\ start \in Timespec /\ ts \in Timespec
  /\ Valid(now) /\ Valid(start)
  /\ timeout \in Int /\ stage \in Stages
  /\ stage = "read" => ts = start
  /\ stage \in {"waiting", "EINVAL", "ETIMEDOUT"} /\ timeout >= 0 =>
       Valid(ts) /\ Time(ts) - Time(start) - timeout * NsPerMs \in {0, 1}
  /\ stage = "ETIMEDOUT" => Time(now) >= Time(ts)
  /\ stage = "EINVAL" => ~Valid(ts)

\* The clock starts at a valid time.
LEMMA InitDeadline == Init => DeadlineInv
BY DeadlineAssumption DEF DeadlineAssumption, Init, DeadlineInv, Timespec, Valid, Stages, Nsec

\* Every step preserves the invariant.
LEMMA NextDeadline == DeadlineInv /\ [Next]_vars => DeadlineInv'
<1> SUFFICES ASSUME DeadlineInv, [Next]_vars PROVE DeadlineInv'
  OBVIOUS
<1> USE DEF DeadlineInv, Stages
<1>1. Nsec \in Nat \ {0}
  BY Remainder, DeadlineAssumption DEF DeadlineAssumption
<1>2. CASE ReadClock
  BY <1>2 DEF ReadClock
<1>3. CASE AddTimeout
  <2>1. CASE timeout = 0
    <3>1. ts' = start
      BY <1>3, <2>1 DEF AddTimeout
    <3>2. Time(start) \in Int /\ 0 * NsPerMs = 0
      BY <1>1, DeadlineAssumption, Distribute DEF DeadlineAssumption, Time, Timespec
    <3>3. Time(ts') - Time(start') - timeout' * NsPerMs = 0
      BY <1>3, <2>1, <3>1, <3>2 DEF AddTimeout
    <3>4. QED
      BY <1>3, <3>1, <3>3 DEF AddTimeout
  <2>2. CASE timeout > 0
    <3>1. ts' = queue_ts_add(start, timeout)
      BY <1>3, <2>2 DEF AddTimeout
    <3>2. /\ ts' \in Timespec /\ Valid(ts')
          /\ Time(ts') - Time(start) - timeout * NsPerMs \in {0, 1}
      BY <2>2, <3>1, AddExact
    <3>3. QED
      BY <1>3, <3>2 DEF AddTimeout
  <2>3. CASE timeout < 0
    <3>1. ts' \in Timespec
      BY <1>1, <1>3, <2>3, DeadlineAssumption
         DEF DeadlineAssumption, AddTimeout, queue_ts_add, Sum, CDiv, CMod, Timespec
    <3>2. QED
      BY <1>3, <2>3, <3>1 DEF AddTimeout
  <2>4. QED
    BY <2>1, <2>2, <2>3
<1>4. CASE Einval
  BY <1>4 DEF Einval
<1>5. CASE Etimedout
  BY <1>5 DEF Etimedout
<1>6. CASE Tick
  <2>1. now' \in Timespec /\ Valid(now')
    BY <1>1, <1>6 DEF Tick, Timespec, Valid
  <2>2. QED
    BY <1>6, <2>1 DEF Tick
<1>7. CASE UNCHANGED vars
  BY <1>7 DEF vars
<1>8. QED
  BY <1>2, <1>3, <1>4, <1>5, <1>6, <1>7 DEF Next

\* The invariant holds throughout a wait.
THEOREM DeadlineInductive == Spec => []DeadlineInv
BY InitDeadline, NextDeadline, PTL DEF Spec

\* A waiting queue_send, queue_recv or queue_empty_wait with a timeout that
\* is not negative never returns ETIMEDOUT before the timeout has passed.
THEOREM WaitsLongEnough == Spec => []NeverEarly
<1>1. DeadlineInv => NeverEarly
  <2> SUFFICES ASSUME DeadlineInv, stage = "ETIMEDOUT", timeout >= 0
               PROVE  Time(now) >= Time(start) + timeout * NsPerMs
    BY DEF NeverEarly
  <2>1. Time(ts) - Time(start) - timeout * NsPerMs \in {0, 1} /\ Time(now) >= Time(ts)
    BY DEF DeadlineInv
  <2>2. /\ Time(ts) \in Int /\ Time(start) \in Int /\ Time(now) \in Int
        /\ timeout * NsPerMs \in Int
    BY DeadlineAssumption, Distribute DEF DeadlineAssumption, DeadlineInv, Time, Timespec, Nsec
  <2>3. QED
    BY <2>1, <2>2
<1>2. QED
  BY <1>1, DeadlineInductive, PTL

\* Such a wait is never refused for a malformed deadline.
THEOREM DeadlineIsWellFormed == Spec => []EinvalOnlyNegative
<1>1. DeadlineInv => EinvalOnlyNegative
  BY DEF DeadlineInv, EinvalOnlyNegative
<1>2. QED
  BY <1>1, DeadlineInductive, PTL

\* Its deadline is exact but for the nanosecond queue_ts_add adds on a carry.
THEOREM DeadlineIsTight == Spec => []DeadlineWithinOneNs
<1>1. DeadlineInv => DeadlineWithinOneNs
  BY DEF DeadlineInv, DeadlineWithinOneNs
<1>2. QED
  BY <1>1, DeadlineInductive, PTL
=============================================================================
