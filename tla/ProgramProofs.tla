---------------------------- MODULE ProgramProofs ----------------------------
(***************************************************************************)
(* The programs of Programs, for every value of their constants that meets *)
(* the assumptions of their modules.  Each has its own invariant; a step   *)
(* of the program that runs is a step of its module (OneProgram).          *)
(* The vector, a specification of its own, comes last.                     *)
(***************************************************************************)
EXTENDS Cvector, Programs, SequenceTheorems, FiniteSetTheorems,
        NaturalsInduction, WellFoundedInduction, TLAPS

\* The program chosen at first runs alone.
LEMMA OneProgram ==
  ASSUME [ProgramNext]_<<prog, st>>
  PROVE  /\ prog' = prog
         /\ prog = "timer" => [Timers!Next]_st
         /\ prog = "timestamp" => [Stamps!Next]_st
         /\ prog = "pipe" => [Pipes!Next]_st
         /\ prog = "sysreg" => [Sysregs!Next]_st
         /\ prog = "sockets" => [Socks!Next]_st
BY DEF ProgramNext, Only

-----------------------------------------------------------------------------
(* posix/timer                                                             *)

Itimerspec == [it_value : Nat, it_interval : Nat]
Countdown == [ticks : Nat \cup {-1}, interval : Nat]

\* A countdown that is known counts one period and reloads it or nothing.
Reloads(c) == c # Timers!Unknown => c.interval \in {0, Period}

TimerRecord ==
  st = [ pc |-> st.pc, tim |-> st.tim, stored_value |-> st.stored_value, pending |-> st.pending,
         overrun |-> st.overrun, icanon |-> st.icanon, echo |-> st.echo, shown |-> st.shown,
         ran |-> st.ran, held |-> st.held ]
TimerType ==
  /\ TimerRecord
  /\ st.tim \in Itimerspec /\ st.stored_value \in [it_value : Nat \cup {-1}, it_interval : Nat]
  /\ st.ran \in Countdown /\ st.held \in Countdown

TimerInv == TimerType /\ Reloads(st.ran) /\ Reloads(st.held) /\ Timers!CountdownConserved

\* No countdown is known before the first key.
LEMMA TimerStart == ASSUME Timers!TimerAssumption, Timers!Init PROVE TimerInv
<1>1. PICK stored \in [it_value : Garbage \cup {Timers!Invalid}, it_interval : Garbage], icanon \in BOOLEAN, echo \in BOOLEAN :
        st = [ pc |-> "create", tim |-> Timers!Spec0, stored_value |-> stored, pending |-> FALSE,
               overrun |-> 0, icanon |-> icanon, echo |-> echo, shown |-> 0,
               ran |-> Timers!Unknown, held |-> Timers!Unknown ]
  BY DEF Timers!Init
<1>2. stored \in [it_value : Nat \cup {-1}, it_interval : Nat]
  BY DEF Timers!TimerAssumption, Timers!Invalid
<1>3. TimerType
  BY <1>1, <1>2 DEF TimerType, TimerRecord, Timers!Spec0, Timers!Unknown, Itimerspec, Countdown
<1> QED
  BY <1>1, <1>3 DEF TimerInv, Reloads, Timers!CountdownConserved

\* What a step must do to the countdowns.
LEMMA Starts ==
  ASSUME Timers!TimerAssumption, TimerInv, TimerRecord', NEW i \in {0, Period},
         st'.tim = [it_value |-> Period, it_interval |-> i], st'.ran = Timers!Loaded(i),
         st'.stored_value = st.stored_value, st'.held = st.held
  PROVE  TimerInv'
BY DEF TimerInv, TimerType, Reloads, Timers!CountdownConserved, Timers!Accounts, Timers!Unknown,
       Itimerspec, Countdown, Timers!Loaded, Timers!TimerAssumption

\* The steps of the program and of the kernel.
LEMMA TimerStep == ASSUME Timers!TimerAssumption, TimerInv, [Timers!Next]_st PROVE TimerInv'
<1> USE DEF TimerInv, TimerRecord, TimerType, Reloads, Timers!CountdownConserved, Timers!Accounts,
            Timers!Unknown, Itimerspec, Countdown
<1>1. CASE Timers!Create
  BY <1>1 DEF Timers!Create
<1>2. CASE Timers!Start
  <2>1. CASE st' = [st EXCEPT !.pc = "err"]
    BY <2>1
  <2>2. CASE st' = Timers!getchar_once([st EXCEPT !.tim = Timers!default_value,
                                                  !.ran = Timers!Loaded(Period), !.pc = "loop"])
    <3>1. /\ TimerRecord' /\ st'.tim = Timers!default_value /\ st'.ran = Timers!Loaded(Period)
          /\ st'.stored_value = st.stored_value /\ st'.held = st.held
      BY <2>2 DEF Timers!getchar_once
    <3> QED
      BY <3>1, Starts DEF Timers!default_value
  <2> QED
    BY <1>2, <2>1, <2>2 DEF Timers!Start
<1>3. CASE Timers!Show
  BY <1>3 DEF Timers!Show
<1>4. CASE Timers!Pause
  BY <1>4 DEF Timers!Pause, Timers!Stopped, Timers!Spec0
<1>5. CASE Timers!Resume
  BY <1>5 DEF Timers!Resume, Timers!Settable, Timers!Invalid, Timers!Spec0
<1>6. CASE Timers!Quit
  BY <1>6 DEF Timers!Quit
<1>7. CASE Timers!End
  BY <1>7 DEF Timers!End, Timers!termios_reset, Timers!Stopped, Timers!Spec0
<1>8. ASSUME NEW i \in {0, Period}, Timers!Restart([it_value |-> Period, it_interval |-> i])
      PROVE  TimerInv'
  <2>1. /\ TimerRecord' /\ st'.tim = [it_value |-> Period, it_interval |-> i]
        /\ st'.ran = Timers!Loaded(i) /\ st'.stored_value = st.stored_value /\ st'.held = st.held
    BY <1>8 DEF Timers!Restart
  <2> QED
    BY <2>1, Starts
<1>9. CASE Timers!Restart(Timers!default_value) \/ Timers!Restart(Timers!once_value)
  BY <1>8, <1>9 DEF Timers!default_value, Timers!once_value
<1>10. CASE Timers!Tick
  <2>1. CASE /\ st.tim.it_value > 1
             /\ st' = [st EXCEPT !.tim.it_value = @ - 1,
                                 !.ran = IF @ = Timers!Unknown THEN @
                                         ELSE [ticks |-> @.ticks + 1, interval |-> @.interval]]
    <3>1. st'.tim = [it_value |-> st.tim.it_value - 1, it_interval |-> st.tim.it_interval]
      BY <2>1
    <3>2. TimerRecord' /\ st'.stored_value = st.stored_value /\ st'.held = st.held
      BY <2>1
    <3>3. CASE st.ran = Timers!Unknown
      <4>1. st'.ran = st.ran
        BY <2>1, <3>3
      <4> QED
        BY <2>1, <3>1, <3>2, <3>3, <4>1
    <3>4. CASE st.ran # Timers!Unknown
      <4>1. st'.ran = [ticks |-> st.ran.ticks + 1, interval |-> st.ran.interval]
        BY <2>1, <3>4
      <4>2. Timers!Accounts(st.tim, st.ran)
        BY <2>1, <3>4
      <4> QED
        BY <2>1, <3>1, <3>2, <3>4, <4>1, <4>2
    <3> QED
      BY <3>3, <3>4
  <2>2. ASSUME st.tim.it_value = 1, NEW pending, NEW overrun,
               st' = [st EXCEPT !.tim.it_value = st.tim.it_interval,
                                !.ran = IF @ = Timers!Unknown THEN @ ELSE Timers!Loaded(st.tim.it_interval),
                                !.pending = pending, !.overrun = overrun]
        PROVE  TimerInv'
    <3>1. st'.tim = [it_value |-> st.tim.it_interval, it_interval |-> st.tim.it_interval]
      BY <2>2
    <3>2. /\ TimerRecord' /\ st'.stored_value = st.stored_value /\ st'.held = st.held
          /\ st'.ran = IF st.ran = Timers!Unknown THEN st.ran ELSE Timers!Loaded(st.tim.it_interval)
      BY <2>2
    <3>3. st.ran # Timers!Unknown => st.tim.it_interval \in {0, Period}
      BY <2>2
    <3> QED
      BY <3>1, <3>2, <3>3 DEF Timers!Loaded, Timers!TimerAssumption
  <2> HIDE DEF TimerInv, Timers!Unknown
  <2> QED
    BY <1>10, <2>1, <2>2, Zenon DEF Timers!Tick
<1>11. CASE Timers!alrm_handler
  BY <1>11 DEF Timers!alrm_handler
<1>12. CASE UNCHANGED st
  BY <1>12
<1> QED
  BY <1>1, <1>2, <1>3, <1>4, <1>5, <1>6, <1>7, <1>9, <1>10, <1>11, <1>12 DEF Timers!Next

CountdownInv == prog = "timer" => TimerInv

\* CountdownConserved: pausing and resuming (p and r), however often and in
\* whatever order with the other keys, loses and stretches no countdown.
THEOREM CountdownSurvivesPauses == ProgramSpec => []CountdownConserved
<1>1. ProgramInit => CountdownInv
  BY TimerStart, ProgramsAssumption DEF ProgramInit, CountdownInv, ProgramsAssumption
<1>2. CountdownInv /\ [ProgramNext]_<<prog, st>> => CountdownInv'
  BY OneProgram, TimerStep, ProgramsAssumption DEF CountdownInv, ProgramsAssumption
<1>3. CountdownInv => CountdownConserved
  BY DEF CountdownInv, TimerInv, CountdownConserved
<1> QED
  BY <1>1, <1>2, <1>3, PTL DEF ProgramSpec

TerminalInv == TimerRecord /\ (st.pc = "done" => st.icanon = TRUE /\ st.echo = TRUE)

\* Only End leads to "done", and after it no key is read.
LEMMA TerminalStep == ASSUME TerminalInv, [Timers!Next]_st PROVE TerminalInv'
<1> USE DEF TerminalInv, TimerRecord
<1>1. CASE Timers!Create \/ Timers!Start \/ Timers!Show
  BY <1>1 DEF Timers!Create, Timers!Start, Timers!Show, Timers!getchar_once
<1>2. CASE Timers!Pause \/ Timers!Resume \/ Timers!Quit
  BY <1>2 DEF Timers!Pause, Timers!Resume, Timers!Quit, Timers!Stopped
<1>3. CASE Timers!Restart(Timers!default_value) \/ Timers!Restart(Timers!once_value)
  BY <1>3 DEF Timers!Restart
<1>4. CASE Timers!End
  BY <1>4 DEF Timers!End, Timers!termios_reset, Timers!Stopped
<1>5. CASE Timers!Tick
  BY <1>5 DEF Timers!Tick
<1>6. CASE Timers!alrm_handler \/ UNCHANGED st
  BY <1>6 DEF Timers!alrm_handler
<1> QED
  BY <1>1, <1>2, <1>3, <1>4, <1>5, <1>6 DEF Timers!Next

-----------------------------------------------------------------------------
(* lib/timestamp.c                                                         *)

\* The period and what div and mod make of a part of it.
LEMMA PeriodFits ==
  ASSUME Stamps!TimestampAssumption
  PROVE  Stamps!PeriodNs \in Nat \ {0} /\ 2 * Stamps!PeriodNs < Word
BY DEF Stamps!TimestampAssumption, Stamps!PeriodNs

\* Division with a remainder.
LEMMA DivMod ==
  ASSUME NEW x \in Nat, NEW n \in Nat \ {0}
  PROVE  \E q \in Nat, r \in 0..(n - 1) : q = x \div n /\ r = x % n /\ q * n + r = x
<1>1. \A y \in Nat, m \in Nat \ {0} : y = m * (y \div m) + (y % m)
  OBVIOUS
<1>2. x \div n \in Nat /\ x % n \in 0..(n - 1)
  OBVIOUS
<1>3. PICK q \in Nat, r \in 0..(n - 1) : q = x \div n /\ r = x % n
  BY <1>2
<1>4. x = n * q + r
  BY <1>1, <1>3
<1> QED
  BY <1>3, <1>4

\* A quotient is in range when what was divided is.
LEMMA Quotient ==
  ASSUME NEW n \in Nat \ {0}, NEW m \in Nat, NEW q \in Nat, NEW r \in 0..(n - 1), q * n + r < m * n
  PROVE  q \in 0..(m - 1)
<1>1. ASSUME q >= m PROVE FALSE
  <2>1. (q - m) * n >= 0
    BY <1>1
  <2>2. (q - m) * n = q * n - m * n
    OBVIOUS
  <2> QED
    BY <2>1, <2>2
<1> QED
  BY <1>1

\* The timer and the time since the reset make one period.
StampInv ==
  /\ st = [pc |-> st.pc, left |-> st.left, elapsed |-> st.elapsed, since |-> st.since, at |-> st.at]
  /\ st.left \in 0..Stamps!PeriodNs
  /\ st.left > 0 => st.since = Stamps!PeriodNs - st.left
  /\ st.pc \in {"loop", "reset"} => st.left > 0
  /\ Stamps!ElapsedExact

\* The subtraction of timestamp_elapsed neither wraps nor loses a borrow.
LEMMA ElapsedIsExact ==
  ASSUME Stamps!TimestampAssumption, NEW x \in 1..Stamps!PeriodNs
  PROVE  LET e == Stamps!Elapsed([tv_sec |-> x \div NsInS, tv_nsec |-> x % NsInS])
         IN  /\ e.tv_nsec \in 0..(NsInS - 1) /\ e.tv_sec \in 0..(MaxSec - 1)
             /\ e.tv_sec * NsInS + e.tv_nsec = Stamps!PeriodNs - x
<1> DEFINE n == Stamps!PeriodNs - x
<1>1. Stamps!PeriodNs \in Nat \ {0} /\ 2 * Stamps!PeriodNs < Word /\ Word \in Nat
  BY PeriodFits DEF Stamps!TimestampAssumption
<1>2. NsInS \in Nat \ {0} /\ MaxSec \in Nat /\ x \in Nat /\ n \in Nat
  BY <1>1 DEF Stamps!TimestampAssumption
<1>3. PICK s \in Nat, f \in 0..(NsInS - 1) :
        s = x \div NsInS /\ f = x % NsInS /\ s * NsInS + f = x
  BY <1>2, DivMod
<1>4. n < Stamps!PeriodNs /\ n % Word = n /\ n = MaxSec * NsInS - x
  BY <1>1 DEF Stamps!PeriodNs
<1> HIDE DEF n
<1>5. PICK q \in Nat, r \in 0..(NsInS - 1) :
        q = n \div NsInS /\ r = n % NsInS /\ q * NsInS + r = n
  BY <1>2, DivMod
<1>6. q \in 0..(MaxSec - 1)
  BY <1>2, <1>4, <1>5, Quotient DEF Stamps!PeriodNs
<1> DEFINE e == Stamps!Elapsed([tv_sec |-> x \div NsInS, tv_nsec |-> x % NsInS])
<1>7. e = [tv_sec |-> n \div NsInS, tv_nsec |-> n % NsInS]
  <2>1. MaxSec * NsInS - (s * NsInS + f) = n
    BY <1>3, <1>4
  <2>2. Stamps!Elapsed([tv_sec |-> s, tv_nsec |-> f])
          = [tv_sec |-> (n % Word) \div NsInS, tv_nsec |-> (n % Word) % NsInS]
    BY <2>1, Zenon DEF Stamps!Elapsed
  <2> QED
    BY <1>3, <1>4, <2>2, Zenon
<1> HIDE DEF e
<1>8. e.tv_sec = q /\ e.tv_nsec = r
  BY <1>5, <1>7
<1>9. Stamps!PeriodNs - x = n
  BY <1>4 DEF Stamps!PeriodNs
<1>10. /\ e.tv_nsec \in 0..(NsInS - 1) /\ e.tv_sec \in 0..(MaxSec - 1)
       /\ e.tv_sec * NsInS + e.tv_nsec = Stamps!PeriodNs - x
  BY <1>5, <1>6, <1>8, <1>9
<1> QED
  BY <1>10, Zenon DEF e

\* Every key and every tick keep the balance.
LEMMA StampStep == ASSUME Stamps!TimestampAssumption, StampInv, [Stamps!Next]_st PROVE StampInv'
<1>0. Stamps!PeriodNs \in Nat \ {0}
  BY PeriodFits
<1>1. ASSUME NEW pc, st.left > 0, st' = [Stamps!timestamp_elapsed EXCEPT !.pc = pc] PROVE StampInv'
  <2>1. st.left \in 1..Stamps!PeriodNs /\ st.since = Stamps!PeriodNs - st.left
    BY <1>0, <1>1 DEF StampInv
  <2>2. /\ st'.elapsed = Stamps!Elapsed([tv_sec |-> st.left \div NsInS, tv_nsec |-> st.left % NsInS])
        /\ st'.at = st.since /\ st'.left = st.left /\ st'.since = st.since
        /\ st' = [pc |-> st'.pc, left |-> st'.left, elapsed |-> st'.elapsed, since |-> st'.since, at |-> st'.at]
    BY <1>1 DEF StampInv, Stamps!timestamp_elapsed, Stamps!Remaining
  <2>3. Stamps!ElapsedExact'
    BY <2>1, <2>2, ElapsedIsExact DEF Stamps!ElapsedExact
  <2> QED
    BY <1>1, <2>1, <2>2, <2>3 DEF StampInv
<1>2. ASSUME NEW pc, st' = [Stamps!timestamp_reset EXCEPT !.pc = pc] PROVE StampInv'
  <2>1. /\ st'.left = Stamps!PeriodNs /\ st'.since = 0 /\ st'.elapsed = st.elapsed /\ st'.at = st.at
        /\ st' = [pc |-> st'.pc, left |-> st'.left, elapsed |-> st'.elapsed, since |-> st'.since, at |-> st'.at]
    BY <1>2 DEF StampInv, Stamps!timestamp_reset
  <2>2. Stamps!ElapsedExact'
    BY <2>1 DEF StampInv, Stamps!ElapsedExact
  <2> QED
    BY <1>0, <2>1, <2>2 DEF StampInv
<1>3. CASE Stamps!Create
  <2>1. CASE st' = [st EXCEPT !.pc = "done"]
    BY <2>1 DEF StampInv, Stamps!ElapsedExact
  <2> QED
    BY <1>2, <1>3, <2>1 DEF Stamps!Create
<1>4. CASE Stamps!ShowElapsed
  <2>1. st' = [Stamps!timestamp_elapsed EXCEPT !.pc = "loop"] /\ st.left > 0
    BY <1>4 DEF Stamps!ShowElapsed, StampInv, Stamps!timestamp_elapsed
  <2> QED
    BY <1>1, <2>1
<1>5. CASE Stamps!Reset
  BY <1>2, <1>5 DEF Stamps!Reset
<1>6. CASE Stamps!ShowReset
  BY <1>1, <1>6 DEF Stamps!ShowReset, StampInv
<1>7. CASE Stamps!Quit
  <2>1. /\ st'.left = 0 /\ st'.pc = "done" /\ st'.elapsed = st.elapsed /\ st'.at = st.at
        /\ st' = [pc |-> st'.pc, left |-> st'.left, elapsed |-> st'.elapsed, since |-> st'.since, at |-> st'.at]
    BY <1>7 DEF Stamps!Quit, StampInv
  <2>2. Stamps!ElapsedExact'
    BY <2>1 DEF StampInv, Stamps!ElapsedExact
  <2> QED
    BY <1>0, <2>1, <2>2 DEF StampInv
<1>8. CASE Stamps!Tick
  <2>1. /\ st'.left = IF st.left = 1 THEN Stamps!PeriodNs ELSE st.left - 1
        /\ st'.since = (st.since + 1) % Stamps!PeriodNs
        /\ st'.elapsed = st.elapsed /\ st'.at = st.at
        /\ st' = [pc |-> st'.pc, left |-> st'.left, elapsed |-> st'.elapsed, since |-> st'.since, at |-> st'.at]
    BY <1>8 DEF Stamps!Tick, StampInv
  <2>2. st.left \in 1..Stamps!PeriodNs /\ st.since = Stamps!PeriodNs - st.left
    BY <1>0, <1>8 DEF Stamps!Tick, StampInv
  <2>3. st'.left \in 1..Stamps!PeriodNs /\ st'.since = Stamps!PeriodNs - st'.left
    <3>1. CASE st.left = 1
      BY <1>0, <2>1, <2>2, <3>1
    <3>2. CASE st.left # 1
      <4>1. st.since + 1 \in 0..(Stamps!PeriodNs - 1)
        BY <1>0, <2>2, <3>2
      <4>2. (st.since + 1) % Stamps!PeriodNs = st.since + 1
        BY <1>0, <4>1
      <4> QED
        BY <1>0, <2>1, <2>2, <3>2, <4>2
    <3> QED
      BY <3>1, <3>2
  <2> QED
    BY <1>0, <2>1, <2>3 DEF StampInv, Stamps!ElapsedExact
<1>9. CASE UNCHANGED st
  BY <1>9 DEF StampInv, Stamps!ElapsedExact
<1> QED
  BY <1>3, <1>4, <1>5, <1>6, <1>7, <1>8, <1>9 DEF Stamps!Next

\* Nothing is measured at first.
LEMMA StampStart == ASSUME Stamps!TimestampAssumption, Stamps!Init PROVE StampInv
<1>1. NsInS \in Nat \ {0} /\ MaxSec \in Nat \ {0} /\ Stamps!PeriodNs \in Nat
  BY PeriodFits DEF Stamps!TimestampAssumption
<1> QED
  BY <1>1 DEF Stamps!Init, StampInv, Stamps!ElapsedExact

ElapsedInv == prog = "timestamp" => StampInv

\* ElapsedExact: timestamp_elapsed stores exactly the time since the last
\* reset, for every scale of seconds and nanoseconds, at every place of the
\* borrow and across the reload of the timer.
THEOREM StampsAreExact == ProgramSpec => []ElapsedExact
<1>1. ProgramInit => ElapsedInv
  BY StampStart, ProgramsAssumption DEF ProgramInit, ElapsedInv, ProgramsAssumption
<1>2. ElapsedInv /\ [ProgramNext]_<<prog, st>> => ElapsedInv'
  BY OneProgram, StampStep, ProgramsAssumption DEF ElapsedInv, ProgramsAssumption
<1>3. ElapsedInv => ElapsedExact
  BY DEF ElapsedInv, StampInv, ElapsedExact
<1> QED
  BY <1>1, <1>2, <1>3, PTL DEF ProgramSpec
-----------------------------------------------------------------------------
(* lib/sysreg.c                                                            *)

\* The file of the field at k is open while it is read, and no other.
SysregInv ==
  /\ st = [pc |-> st.pc, k |-> st.k, open |-> st.open, filled |-> st.filled,
           got |-> st.got, status |-> st.status]
  /\ st.open = IF st.pc = "read" THEN {Sysregs!fields[st.k]} ELSE {}

\* Every call leaves the files as the invariant says.
LEMMA SysregStep == ASSUME SysregInv, [Sysregs!Next]_st PROVE SysregInv'
<1>1. CASE Sysregs!sysreg_write_scratch
  BY <1>1 DEF SysregInv, Sysregs!sysreg_write_scratch, Sysregs!Exit
<1>2. CASE Sysregs!OpenField
  BY <1>2 DEF SysregInv, Sysregs!OpenField, Sysregs!Exit
<1>3. CASE Sysregs!ReadField
  <2>1. PICK n \in 0..Size :
          st' = [st EXCEPT !.filled[st.k] = n, !.open = @ \ {Sysregs!fields[st.k]},
                           !.k = IF @ < Len(Sysregs!fields) THEN @ + 1 ELSE @,
                           !.pc = IF st.k < Len(Sysregs!fields) THEN "open" ELSE "print"]
    BY <1>3 DEF Sysregs!ReadField
  <2>2. st.open = {Sysregs!fields[st.k]}
    BY <1>3 DEF SysregInv, Sysregs!ReadField
  <2>3. /\ st'.pc \in {"open", "print"} /\ st'.open = st.open \ {Sysregs!fields[st.k]}
        /\ st' = [pc |-> st'.pc, k |-> st'.k, open |-> st'.open, filled |-> st'.filled,
                  got |-> st'.got, status |-> st'.status]
    BY <2>1 DEF SysregInv
  <2>4. st'.open = {}
    BY <2>2, <2>3
  <2> QED
    BY <2>3, <2>4 DEF SysregInv
<1>4. CASE Sysregs!PrintInfo
  BY <1>4 DEF SysregInv, Sysregs!PrintInfo
<1>5. CASE Sysregs!sysreg_read_scratch
  BY <1>5 DEF SysregInv, Sysregs!sysreg_read_scratch, Sysregs!Exit
<1>6. CASE UNCHANGED st
  BY <1>6 DEF SysregInv
<1> QED
  BY <1>1, <1>2, <1>3, <1>4, <1>5, <1>6 DEF Sysregs!Next

-----------------------------------------------------------------------------
(* main, socket_tcp, socket_udp and socket_port of the echo programs       *)

\* Beside the accepted sockets only the one in sd is ever open, and only once
\* bind has succeeded; sd is never the number of an accepted one.
SocketRecord ==
  st = [prog |-> st.prog, pc |-> st.pc, left |-> st.left, sd |-> st.sd,
        open |-> st.open, accepted |-> st.accepted, status |-> st.status]
Descriptors(pc, sd, open, accepted) ==
  /\ sd \in Int
  /\ open = accepted \/ (open = accepted \cup {sd} /\ sd >= 0)
  /\ pc \in {"start", "resolve", "walk", "done"} => open = accepted
  /\ pc \notin {"serve", "done"} => accepted = {}
  /\ sd \notin accepted
SocketInv == SocketRecord /\ Descriptors(st.pc, st.sd, st.open, st.accepted)

\* Every call, whether it succeeds or fails.
LEMMA SocketStep == ASSUME Socks!SocketsAssumption, SocketInv, [Socks!Next]_st PROVE SocketInv'
<1>0. \A fd \in Socks!NewFds : fd \in Nat /\ fd \notin st.open
  BY DEF Socks!NewFds, Socks!SocketsAssumption
<1>a. SocketRecord
  BY DEF SocketInv
<1>b. Descriptors(st.pc, st.sd, st.open, st.accepted)
  BY DEF SocketInv
<1>c. ASSUME NEW pc, NEW sd, NEW open, NEW accepted, SocketRecord', Descriptors(pc, sd, open, accepted),
             st'.pc = pc, st'.sd = sd, st'.open = open, st'.accepted = accepted
      PROVE  SocketInv'
  BY <1>c DEF SocketInv
<1>1. CASE Socks!Start
  <2>1. /\ st.pc = "start" /\ st'.pc \in {"resolve", "done"} /\ SocketRecord'
        /\ st'.sd = st.sd /\ st'.open = st.open /\ st'.accepted = st.accepted
    BY <1>1, <1>a DEF Socks!Start, Socks!Exit, SocketRecord
  <2>2. Descriptors(st'.pc, st.sd, st.open, st.accepted)
    BY <1>b, <2>1 DEF Descriptors
  <2> QED
    BY <1>c, <2>1, <2>2
<1>2. CASE Socks!Resolve
  <2>1. /\ st.pc = "resolve" /\ st'.pc \in {"walk", "got"} /\ SocketRecord'
        /\ st'.sd = -1 /\ st'.open = st.open /\ st'.accepted = st.accepted
    BY <1>2, <1>a DEF Socks!Resolve, SocketRecord
  <2>2. Descriptors(st'.pc, -1, st.open, st.accepted)
    BY <1>b, <2>1 DEF Descriptors
  <2> QED
    BY <1>c, <2>1, <2>2
<1>3. CASE Socks!TryAddress
  <2>1. st.pc = "walk"
    BY <1>3 DEF Socks!TryAddress
  <2>2. st.open = {} /\ st.accepted = {}
    BY <1>b, <2>1 DEF Descriptors
  <2>3. CASE st' = [st EXCEPT !.left = @ - 1, !.sd = -1]
    <3>1. /\ st'.pc = "walk" /\ SocketRecord'
          /\ st'.sd = -1 /\ st'.open = st.open /\ st'.accepted = st.accepted
      BY <1>a, <2>1, <2>3 DEF SocketRecord
    <3>2. Descriptors("walk", -1, st.open, st.accepted)
      BY <2>2 DEF Descriptors
    <3> QED
      BY <1>c, <3>1, <3>2
  <2>4. ASSUME NEW fd \in Socks!NewFds,
               st' = [st EXCEPT !.left = @ - 1, !.sd = fd, !.open = @ \cup {fd}, !.pc = "got"]
        PROVE  SocketInv'
    <3>1. /\ st'.pc = "got" /\ SocketRecord'
          /\ st'.sd = fd /\ st'.open = st.open \cup {fd} /\ st'.accepted = st.accepted
      BY <1>a, <2>4 DEF SocketRecord
    <3>2. Descriptors("got", fd, st.open \cup {fd}, st.accepted)
      BY <1>0, <2>2 DEF Descriptors
    <3> QED
      BY <1>c, <3>1, <3>2
  <2>5. ASSUME NEW fd \in Socks!NewFds, st' = [st EXCEPT !.left = @ - 1, !.sd = fd]
        PROVE  SocketInv'
    <3>1. /\ st'.pc = "walk" /\ SocketRecord'
          /\ st'.sd = fd /\ st'.open = st.open /\ st'.accepted = st.accepted
      BY <1>a, <2>1, <2>5 DEF SocketRecord
    <3>2. Descriptors("walk", fd, st.open, st.accepted)
      BY <1>0, <2>2 DEF Descriptors
    <3> QED
      BY <1>c, <3>1, <3>2
  <2> QED
    BY <1>3, <2>3, <2>4, <2>5 DEF Socks!TryAddress
<1>4. CASE Socks!WalkEnds
  <2>1. /\ st.pc = "walk" /\ st'.pc = "got" /\ SocketRecord'
        /\ st'.sd = st.sd /\ st'.open = st.open /\ st'.accepted = st.accepted
    BY <1>4, <1>a DEF Socks!WalkEnds, SocketRecord
  <2>2. Descriptors("got", st.sd, st.open, st.accepted)
    BY <1>b, <2>1 DEF Descriptors
  <2> QED
    BY <1>c, <2>1, <2>2
<1>5. CASE Socks!Got
  <2>1. /\ st.pc = "got" /\ SocketRecord'
        /\ IF st.sd < 0 THEN st'.pc = "done" ELSE st'.pc \in {"serve", "prepare"}
        /\ st'.sd = st.sd /\ st'.open = st.open /\ st'.accepted = st.accepted
    BY <1>5, <1>a DEF Socks!Got, Socks!Exit, SocketRecord
  <2>2. Descriptors(st'.pc, st.sd, st.open, st.accepted)
    BY <1>b, <2>1 DEF Descriptors
  <2> QED
    BY <1>c, <2>1, <2>2
<1>6. CASE Socks!socket_port \/ Socks!Connect
  <2>1. /\ st.pc = "prepare" /\ st'.pc = "serve" /\ SocketRecord'
        /\ st'.sd = st.sd /\ st'.open = st.open /\ st'.accepted = st.accepted
    BY <1>6, <1>a DEF Socks!socket_port, Socks!Connect, SocketRecord
  <2>2. Descriptors("serve", st.sd, st.open, st.accepted)
    BY <1>b, <2>1 DEF Descriptors
  <2> QED
    BY <1>c, <2>1, <2>2
<1>7. CASE Socks!PrepareFails \/ Socks!Served
  <2>1. /\ st'.pc = "done" /\ SocketRecord'
        /\ st'.sd = st.sd /\ st'.open = st.open \ {st.sd} /\ st'.accepted = st.accepted
    BY <1>7, <1>a DEF Socks!PrepareFails, Socks!Served, Socks!Exit, SocketRecord
  <2>2. Descriptors("done", st.sd, st.open \ {st.sd}, st.accepted)
    BY <1>b DEF Descriptors
  <2> QED
    BY <1>c, <2>1, <2>2
<1>8. CASE Socks!Accept
  <2>1. PICK fd \in Socks!NewFds :
          st' = [st EXCEPT !.open = @ \cup {fd}, !.accepted = @ \cup {fd}]
    BY <1>8 DEF Socks!Accept
  <2>2. st.pc = "serve" /\ st.sd \in st.open
    BY <1>8 DEF Socks!Accept
  <2>3. /\ st'.pc = "serve" /\ SocketRecord' /\ st'.sd = st.sd
        /\ st'.open = st.open \cup {fd} /\ st'.accepted = st.accepted \cup {fd}
    BY <1>a, <2>1, <2>2 DEF SocketRecord
  <2>4. Descriptors("serve", st.sd, st.open \cup {fd}, st.accepted \cup {fd})
    BY <1>0, <1>b, <2>2 DEF Descriptors
  <2> QED
    BY <1>c, <2>3, <2>4
<1>9. CASE UNCHANGED st
  BY <1>9 DEF SocketInv, SocketRecord, Descriptors
<1> QED
  BY <1>1, <1>2, <1>3, <1>4, <1>5, <1>6, <1>7, <1>8, <1>9 DEF Socks!Next

\* No descriptor is open at first.
LEMMA SocketStart == Socks!Init => SocketInv
BY DEF Socks!Init, SocketInv, SocketRecord, Descriptors
-----------------------------------------------------------------------------
(* posix/pipe                                                              *)

\* The bytes behind the k-th, in order.
Behind(s, k) == s \in Seq(Nat) /\ \A i \in 1..Len(s) : s[i] = k + i

\* Two pieces of the stream, and a piece cut in two.
LEMMA Glue ==
  ASSUME NEW from \in Nat, NEW one, NEW two, Behind(one, from), Behind(two, from + Len(one))
  PROVE  Behind(one \o two, from) /\ Len(one \o two) = Len(one) + Len(two)
<1>1. one \in Seq(Nat) /\ two \in Seq(Nat) /\ Len(one) \in Nat /\ Len(two) \in Nat
  BY LenProperties DEF Behind
<1>2. /\ one \o two \in Seq(Nat) /\ Len(one \o two) = Len(one) + Len(two)
      /\ \A i \in 1..(Len(one) + Len(two)) :
           (one \o two)[i] = IF i <= Len(one) THEN one[i] ELSE two[i - Len(one)]
  BY <1>1, ConcatProperties
<1> QED
  BY <1>1, <1>2 DEF Behind
LEMMA Cut ==
  ASSUME NEW from \in Nat, NEW one, Behind(one, from), NEW at \in 0..Len(one)
  PROVE  /\ Behind(SubSeq(one, 1, at), from) /\ Len(SubSeq(one, 1, at)) = at
         /\ Behind(SubSeq(one, at + 1, Len(one)), from + at)
         /\ Len(SubSeq(one, at + 1, Len(one))) = Len(one) - at
<1>1. one \in Seq(Nat) /\ Len(one) \in Nat
  BY LenProperties DEF Behind
<1>2. /\ SubSeq(one, 1, at) \in Seq(Nat) /\ Len(SubSeq(one, 1, at)) = at
      /\ \A i \in 1..at : SubSeq(one, 1, at)[i] = one[i]
  BY <1>1
<1>3. /\ SubSeq(one, at + 1, Len(one)) \in Seq(Nat) /\ Len(SubSeq(one, at + 1, Len(one))) = Len(one) - at
      /\ \A i \in 1..(Len(one) - at) : SubSeq(one, at + 1, Len(one))[i] = one[at + i]
  BY <1>1
<1> QED
  BY <1>1, <1>2, <1>3, SMTT(60) DEF Behind

\* Where the bytes are: received, then with fread, then in the pipe, then with
\* source.
Stream(received, buf, pipe, wbuf) ==
  /\ Behind(received, 0) /\ Behind(buf, Len(received))
  /\ Behind(pipe, Len(received) + Len(buf))
  /\ Behind(wbuf, Len(received) + Len(buf) + Len(pipe))

\* The bytes of count chunks, all but short of them full and none empty.
Chunks(bytes, count, short) ==
  bytes \in (count * (BUF_SZ - 1) - short * (BUF_SZ - 2))..(count * (BUF_SZ - 1))

\* One more chunk, and a weaker count of the short ones.
LEMMA OneMoreChunk ==
  ASSUME BUF_SZ \in Nat, BUF_SZ >= 2, NEW l \in Nat, NEW c \in Nat, NEW e \in Nat,
         Chunks(l, c, e), NEW n \in 1..(BUF_SZ - 1)
  PROVE  /\ Chunks(l + n, c + 1, e + 1) /\ Chunks(l, c, e + 1)
         /\ n = BUF_SZ - 1 => Chunks(l + n, c + 1, e)
<1>1. PICK d \in Nat, g \in Nat : d = BUF_SZ - 1 /\ g = BUF_SZ - 2 /\ d = g + 1 /\ n \in 1..d
  OBVIOUS
<1>2. PICK f \in Nat, x \in Nat : f = c * d /\ x = e * g
  BY <1>1
<1>3. (c + 1) * d = f + d /\ (e + 1) * g = x + g
  BY <1>1, <1>2
<1>4. l \in (f - x)..f
  BY <1>1, <1>2 DEF Chunks
<1>5. /\ l + n \in ((f + d) - (x + g))..(f + d) /\ l \in (f - (x + g))..f
      /\ n = d => l + n \in ((f + d) - x)..(f + d)
  BY <1>1, <1>2, <1>4
<1>6. /\ Chunks(l + n, c + 1, e + 1) <=> l + n \in ((f + d) - (x + g))..(f + d)
      /\ Chunks(l, c, e + 1) <=> l \in (f - (x + g))..f
      /\ Chunks(l + n, c + 1, e) <=> l + n \in ((f + d) - x)..(f + d)
  BY <1>1, <1>2, <1>3, Zenon DEF Chunks
<1> QED
  BY <1>1, <1>5, <1>6

\* Chunks are full until the end of the file, which comes once, but for those
\* a read error cut short.
PipeInv ==
  /\ st = [ spc |-> st.spc, wbuf |-> st.wbuf, pipe |-> st.pipe, writer |-> st.writer,
            kpc |-> st.kpc, buf |-> st.buf, count |-> st.count, received |-> st.received,
            printed |-> st.printed, errors |-> st.errors ]
  /\ Stream(st.received, st.buf, st.pipe, st.wbuf)
  /\ st.count \in Nat /\ st.errors \in Nat /\ Len(st.buf) <= BUF_SZ - 1
  /\ st.spc = "malloc" => Len(st.received) + Len(st.buf) + Len(st.pipe) + Len(st.wbuf) = 0
  /\ st.writer # FALSE \/ (st.spc = "done" /\ (st.wbuf = <<>> \/ st.kpc = "failed"))
  /\ \/ Chunks(Len(st.received), st.count, st.errors)
     \/ /\ st.pipe = <<>> /\ st.writer = FALSE /\ st.buf = <<>>
        /\ Chunks(Len(st.received), st.count, st.errors + 1)

\* The four pieces.
LEMMA Pieces ==
  ASSUME PipeInv
  PROVE  \E received, buf, pipe, wbuf \in Seq(Nat) :
           /\ st.received = received /\ st.buf = buf /\ st.pipe = pipe /\ st.wbuf = wbuf
           /\ Stream(received, buf, pipe, wbuf)
BY DEF PipeInv, Stream, Behind

\* What ShowChunk leaves, if a read error has cut the chunk or not.
Shown(s, err) == IF err = 0 THEN s ELSE [s EXCEPT !.errors = @ + 1]
PipeRecord(sp, wb, pi, wr, kp, bu, n, re, pr, er) ==
  [ spc |-> sp, wbuf |-> wb, pipe |-> pi, writer |-> wr, kpc |-> kp, buf |-> bu,
    count |-> n, received |-> re, printed |-> pr, errors |-> er ]

IsPipeRecord(s) ==
  s = PipeRecord(s.spc, s.wbuf, s.pipe, s.writer, s.kpc, s.buf, s.count, s.received, s.printed, s.errors)
ShownOf(s, t, cut) ==
  /\ IsPipeRecord(t)
  /\ t.spc = s.spc /\ t.wbuf = s.wbuf /\ t.pipe = s.pipe /\ t.writer = s.writer /\ t.kpc = s.kpc
  /\ t.buf = <<>> /\ t.count = s.count + 1 /\ t.received = s.received \o s.buf
  /\ t.printed = s.printed \o SubSeq(s.buf, 1, Pipes!Strlen(s.buf))
  /\ t.errors = s.errors + cut

LEMMA ShowsOne ==
  ASSUME NEW rec, IsPipeRecord(rec), rec.errors \in Nat, NEW cut \in {0, 1}
  PROVE  ShownOf(rec, Shown(Pipes!ShowChunk(rec), cut), cut)
<1>1. PICK spc, wbuf, pipe, writer, kpc, buf, count, received, printed, errors :
        /\ spc = rec.spc /\ wbuf = rec.wbuf /\ pipe = rec.pipe /\ writer = rec.writer
        /\ kpc = rec.kpc /\ buf = rec.buf /\ count = rec.count /\ received = rec.received
        /\ printed = rec.printed /\ errors = rec.errors /\ errors \in Nat
  OBVIOUS
<1>2. PICK l, m, q, z : /\ l = count + 1 /\ m = received \o buf /\ z = <<>>
                        /\ q = printed \o SubSeq(buf, 1, Pipes!Strlen(buf))
  OBVIOUS
<1>3. rec = PipeRecord(spc, wbuf, pipe, writer, kpc, buf, count, received, printed, errors)
  BY <1>1, Zenon DEF IsPipeRecord
<1>4. Pipes!ShowChunk(rec) = [rec EXCEPT !.count = l, !.received = m, !.printed = q, !.buf = z]
  BY <1>1, <1>2, Zenon DEF Pipes!ShowChunk
<1>5. Pipes!ShowChunk(rec) = PipeRecord(spc, wbuf, pipe, writer, kpc, z, l, m, q, errors)
  BY <1>3, <1>4 DEF PipeRecord
<1>6. PICK u : u = PipeRecord(spc, wbuf, pipe, writer, kpc, z, l, m, q, errors)
  OBVIOUS
<1>7. Shown(u, cut) = PipeRecord(spc, wbuf, pipe, writer, kpc, z, l, m, q, errors + cut)
  <2>1. CASE cut = 0
    <3>1. errors + cut = errors /\ Shown(u, cut) = u
      BY<1>1,  <2>1 DEF Shown
    <3> QED
      BY <1>6, <3>1
  <2>2. CASE cut = 1
    <3>1. Shown(u, cut) = [u EXCEPT !.errors = u.errors + 1]
      BY <2>2 DEF Shown
    <3>2. u.errors = errors
      BY <1>6 DEF PipeRecord
    <3>3. PICK k \in Nat : k = errors + cut /\ k = errors + 1
      BY<1>1,  <2>2
    <3>4. [u EXCEPT !.errors = k] = PipeRecord(spc, wbuf, pipe, writer, kpc, z, l, m, q, k)
      BY <1>6 DEF PipeRecord
    <3> QED
      BY <3>1, <3>2, <3>3, <3>4
  <2> QED
    BY <2>1, <2>2
<1>8. PICK t, sum : t = Shown(Pipes!ShowChunk(rec), cut) /\ sum = errors + cut
  OBVIOUS
<1>9. t = PipeRecord(spc, wbuf, pipe, writer, kpc, z, l, m, q, sum)
  BY <1>5, <1>6, <1>7, <1>8, Zenon
<1>10. /\ t.spc = spc /\ t.wbuf = wbuf /\ t.pipe = pipe /\ t.writer = writer /\ t.kpc = kpc
       /\ t.buf = z /\ t.count = l /\ t.received = m /\ t.printed = q /\ t.errors = sum
  BY <1>9 DEF PipeRecord
<1>11. IsPipeRecord(t)
  BY <1>9, <1>10, Zenon DEF IsPipeRecord
<1> QED
  BY <1>1, <1>2, <1>8, <1>10, <1>11, Zenon DEF ShownOf

\* Every step of source, of sink and of the kernel between them.
LEMMA PipeStep == ASSUME Pipes!PipeAssumption, PipeInv, [Pipes!Next]_st PROVE PipeInv'
<1>0. BUF_SZ \in Nat /\ BUF_SZ >= 2 /\ Capacity \in Nat /\ SEND_CNT \in Nat
  BY DEF Pipes!PipeAssumption
<1>8. PICK pr \in Seq(Nat), bu \in Seq(Nat), pi \in Seq(Nat), wb \in Seq(Nat) :
        /\ st.received = pr /\ st.buf = bu /\ st.pipe = pi /\ st.wbuf = wb
        /\ Stream(pr, bu, pi, wb)
  BY Pieces
<1>9. PICK lp \in Nat, lb \in Nat, li \in Nat, lw \in Nat :
        lp = Len(pr) /\ lb = Len(bu) /\ li = Len(pi) /\ lw = Len(wb)
  BY LenProperties
<1>10. (bu = <<>> <=> lb = 0) /\ (pi = <<>> <=> li = 0) /\ (wb = <<>> <=> lw = 0)
  BY <1>9, EmptySeq
<1>11. /\ Behind(pr, 0) /\ Behind(bu, lp) /\ Behind(pi, lp + lb) /\ Behind(wb, lp + lb + li)
  BY <1>8, <1>9 DEF Stream
<1>12. PICK d \in Nat, c \in Nat, e \in Nat : d = BUF_SZ - 1 /\ c = st.count /\ e = st.errors
  BY <1>0, SMTT(60) DEF PipeInv
<1>14. Len(st.received) = lp /\ Len(st.buf) = lb /\ Len(st.pipe) = li /\ Len(st.wbuf) = lw
  BY <1>8, <1>9
<1>13. /\ lb <= d
       /\ st.spc = "malloc" => lp = 0 /\ lb = 0 /\ li = 0 /\ lw = 0
       /\ st.writer # FALSE \/ (st.spc = "done" /\ (wb = <<>> \/ st.kpc = "failed"))
       /\ Chunks(lp, c, e) \/ (pi = <<>> /\ st.writer = FALSE /\ bu = <<>>)
  <2>1. lb <= d
    BY <1>12, <1>14 DEF PipeInv
  <2>2. st.spc = "malloc" => lp + lb + li + lw = 0
    BY <1>14 DEF PipeInv
  <2>3. st.writer # FALSE \/ (st.spc = "done" /\ (wb = <<>> \/ st.kpc = "failed"))
    BY <1>8 DEF PipeInv
  <2>4. Chunks(lp, c, e) \/ (pi = <<>> /\ st.writer = FALSE /\ bu = <<>>)
    BY <1>8, <1>12, <1>14 DEF PipeInv
  <2>5. st.spc = "malloc" => lp = 0 /\ lb = 0 /\ li = 0 /\ lw = 0
    BY <2>2
  <2> QED
    BY <2>1, <2>3, <2>4, <2>5, Zenon
<1>1. CASE Pipes!Write
  <2>1. PICK block \in {<<>>, [i \in 1..SEND_CNT |-> i]} :
          st.spc = "malloc" /\ st' = [st EXCEPT !.spc = "exit", !.wbuf = block]
    BY <1>1 DEF Pipes!Write
  <2>2. Behind(block, 0)
    <3>1. CASE block = <<>>
      BY <3>1 DEF Behind
    <3>2. CASE block = [i \in 1..SEND_CNT |-> i]
      <4>1. [i \in 1..SEND_CNT |-> i] \in Seq(Nat) /\ Len([i \in 1..SEND_CNT |-> i]) = SEND_CNT
        BY <1>0
      <4> QED
        BY <1>0, <3>2, <4>1 DEF Behind
    <3> QED
      BY <2>1, <3>1, <3>2
  <2>3. lp = 0 /\ lb = 0 /\ li = 0
    BY <1>13, <2>1
  <2>4. Stream(pr, bu, pi, block)
    BY <1>9, <1>11, <2>2, <2>3 DEF Stream
  <2> QED
    BY <1>0, <1>8, <2>1, <2>4 DEF PipeInv
<1>2. CASE Pipes!Flush
  <2>1. PICK n \in 1..Capacity :
          /\ st.kpc # "failed" /\ n <= Len(st.wbuf)
          /\ st' = [st EXCEPT !.pipe = @ \o SubSeq(st.wbuf, 1, n), !.wbuf = SubSeq(@, n + 1, Len(@))]
    BY <1>2 DEF Pipes!Flush
  <2>2. n \in 0..Len(wb) /\ n \in Nat /\ n >= 1 /\ wb # <<>>
    BY <1>0, <1>8, <1>9, <1>10, <2>1, SMTT(60)
  <2>3. PICK a, b : a = SubSeq(wb, 1, n) /\ b = SubSeq(wb, n + 1, Len(wb))
    OBVIOUS
  <2>4. Behind(a, lp + lb + li) /\ Len(a) = n /\ Behind(b, lp + lb + li + n)
    BY <1>11, <2>2, <2>3, Cut, SMTT(60)
  <2>5. Behind(pi \o a, lp + lb) /\ Len(pi \o a) = li + n
    <3>1. PICK k \in Nat : k = lp + lb
      OBVIOUS
    <3>2. Behind(pi, k) /\ Behind(a, k + Len(pi))
      BY <1>9, <1>11, <2>4, <3>1
    <3>3. Behind(pi \o a, k) /\ Len(pi \o a) = Len(pi) + Len(a)
      BY <3>2, Glue
    <3> QED
      BY <1>9, <2>4, <3>1, <3>3
  <2>6. Stream(pr, bu, pi \o a, b)
    <3>1. Behind(b, Len(pr) + Len(bu) + Len(pi \o a))
      BY <1>9, <2>2, <2>4, <2>5
    <3> QED
      BY <1>9, <1>11, <2>5, <3>1 DEF Stream
  <2>7. st.writer # FALSE /\ st.spc # "malloc"
    BY <1>10, <1>13, <2>1, <2>2
  <2>8. st' = [st EXCEPT !.pipe = pi \o a, !.wbuf = b]
    BY <1>8, <2>1, <2>3
  <2> QED
    BY <1>0, <1>8, <2>6, <2>7, <2>8 DEF PipeInv
<1>3. CASE Pipes!Exit
  BY <1>3 DEF Pipes!Exit, PipeInv
<1>4. CASE Pipes!Read
  <2>1. PICK n \in 1..(BUF_SZ - 1 - Len(st.buf)) :
          /\ n <= Len(st.pipe)
          /\ st' = [st EXCEPT !.buf = @ \o SubSeq(st.pipe, 1, n), !.pipe = SubSeq(@, n + 1, Len(@))]
    BY <1>4 DEF Pipes!Read
  <2>2. n \in 0..Len(pi) /\ n \in Nat /\ n >= 1 /\ n + lb <= d /\ pi # <<>>
    <3>1. n \in 1..(d - lb) /\ n <= li
      BY <1>12, <1>14, <2>1
    <3> QED
      BY <1>9, <1>10, <3>1
  <2>3. PICK a, b : a = SubSeq(pi, 1, n) /\ b = SubSeq(pi, n + 1, Len(pi))
    OBVIOUS
  <2>4. Behind(a, lp + lb) /\ Len(a) = n /\ Behind(b, lp + lb + n) /\ Len(b) = li - n
    BY <1>9, <1>11, <2>2, <2>3, Cut
  <2>5. Behind(bu \o a, lp) /\ Len(bu \o a) = lb + n
    <3>1. Behind(bu, lp) /\ Behind(a, lp + Len(bu))
      BY <1>9, <1>11, <2>4
    <3>2. Behind(bu \o a, lp) /\ Len(bu \o a) = Len(bu) + Len(a)
      BY <3>1, Glue
    <3> QED
      BY <1>9, <2>4, <3>2
  <2>6. Stream(pr, bu \o a, b, wb)
    <3>1. Behind(b, Len(pr) + Len(bu \o a)) /\ Behind(wb, Len(pr) + Len(bu \o a) + Len(b))
      BY <1>9, <1>11, <2>2, <2>4, <2>5
    <3> QED
      BY <1>9, <1>11, <2>5, <3>1 DEF Stream
  <2>7. st.spc # "malloc" /\ Len(bu \o a) <= BUF_SZ - 1
    <3>1. st.spc # "malloc"
      BY <1>10, <1>13, <2>2
    <3>2. Len(bu \o a) <= d
      BY <2>2, <2>5
    <3> QED
      BY <1>12, <3>1, <3>2
  <2>8. st' = [st EXCEPT !.buf = bu \o a, !.pipe = b]
    BY <1>8, <2>1, <2>3
  <2> QED
    BY <1>0, <1>8, <2>2, <2>6, <2>7, <2>8 DEF PipeInv
<1>5. CASE Pipes!Received \/ (Pipes!FreadError /\ st.buf # <<>>)
  <2>0. PICK err \in {0, 1} :
          /\ Len(bu) = BUF_SZ - 1 \/ (pi = <<>> /\ st.writer = FALSE) \/ err = 1
          /\ bu # <<>> /\ st' = Shown(Pipes!ShowChunk(st), err)
    <3>1. CASE Pipes!Received
      BY <1>8, <3>1 DEF Pipes!Received, Pipes!FreadReturns, Pipes!Eof, Shown
    <3>2. CASE Pipes!FreadError /\ st.buf # <<>>
      BY <1>8, <3>2 DEF Pipes!FreadError, Shown
    <3> QED
      BY <1>5, <3>1, <3>2
  <2>2. Behind(pr \o bu, 0) /\ Len(pr \o bu) = lp + lb
    <3>1. Behind(bu, 0 + Len(pr))
      BY <1>9, <1>11
    <3> QED
      BY <1>9, <1>11, <3>1, Glue
  <2>3. Stream(pr \o bu, <<>>, pi, wb)
    <3>1. Len(<<>>) = 0 /\ Behind(<<>>, lp + lb)
      BY DEF Behind
    <3> QED
      BY <1>9, <1>11, <2>2, <3>1 DEF Stream
  <2>4. Chunks(lp, c, e) /\ lb >= 1 /\ lb <= d /\ st.spc # "malloc"
    BY <1>10, <1>13, <2>0, SMTT(60)
  <2>5. lb \in 1..(BUF_SZ - 1)
    BY <1>12, <2>4
  <2>6. /\ Chunks(lp + lb, c + 1, e + 1)
        /\ lb = BUF_SZ - 1 => Chunks(lp + lb, c + 1, e)
    BY <1>0, <2>4, <2>5, OneMoreChunk
  <2>7. /\ st'.received = pr \o bu /\ st'.buf = <<>> /\ st'.pipe = pi /\ st'.wbuf = wb
        /\ st'.writer = st.writer /\ st'.spc = st.spc /\ st'.kpc = st.kpc
        /\ st'.count = c + 1 /\ st'.errors = e + err
        /\ st' = [ spc |-> st'.spc, wbuf |-> st'.wbuf, pipe |-> st'.pipe, writer |-> st'.writer,
                   kpc |-> st'.kpc, buf |-> st'.buf, count |-> st'.count, received |-> st'.received,
                   printed |-> st'.printed, errors |-> st'.errors ]
    <3>1. IsPipeRecord(st) /\ st.errors \in Nat
      BY DEF PipeInv, IsPipeRecord, PipeRecord
    <3>2. ShownOf(st, st', err)
      BY <2>0, <3>1, ShowsOne
    <3>3. st' = PipeRecord(st'.spc, st'.wbuf, st'.pipe, st'.writer, st'.kpc, st'.buf, st'.count,
                           st'.received, st'.printed, st'.errors)
      BY <3>2, Zenon DEF ShownOf, IsPipeRecord
    <3> QED
      BY <1>8, <1>12, <3>2, <3>3, Zenon DEF ShownOf, PipeRecord
  <2>8. \/ Chunks(Len(st'.received), st'.count, st'.errors)
        \/ /\ st'.pipe = <<>> /\ st'.writer = FALSE /\ st'.buf = <<>>
           /\ Chunks(Len(st'.received), st'.count, st'.errors + 1)
    <3>1. CASE err = 1
      BY <2>2, <2>6, <2>7, <3>1
    <3>2. CASE err = 0
      <4>1. e + err = e /\ (lb = BUF_SZ - 1 \/ (pi = <<>> /\ st.writer = FALSE))
        BY <1>9, <2>0, <3>2
      <4>2. /\ Len(st'.received) = lp + lb /\ st'.count = c + 1 /\ st'.errors = e
            /\ st'.pipe = pi /\ st'.writer = st.writer /\ st'.buf = <<>>
        BY <2>2, <2>7, <4>1
      <4> QED
        BY <2>6, <4>1, <4>2, Zenon
    <3> QED
      BY <3>1, <3>2
  <2>9. Len(<<>>) <= BUF_SZ - 1 /\ c + 1 \in Nat /\ e + err \in Nat
    BY <1>0
  <2> QED
    BY <1>13, <2>3, <2>4, <2>7, <2>8, <2>9 DEF PipeInv
<1>6. CASE Pipes!EndOfFile \/ (Pipes!FreadError /\ st.buf = <<>>)
  BY <1>6 DEF Pipes!EndOfFile, Pipes!FreadError, PipeInv
<1>7. CASE UNCHANGED st
  BY <1>7 DEF PipeInv
<1> QED
  BY <1>1, <1>2, <1>3, <1>4, <1>5, <1>6, <1>7, Zenon DEF Pipes!Next, Pipes!Source, Pipes!Sink

\* Nothing is on its way at first.
LEMMA PipeStart == ASSUME Pipes!PipeAssumption, Pipes!Init PROVE PipeInv
<1>1. Len(<<>>) = 0 /\ \A k \in Nat : Behind(<<>>, k)
  BY DEF Behind
<1>2. Stream(<<>>, <<>>, <<>>, <<>>)
  BY <1>1 DEF Stream
<1>3. Chunks(0, 0, 0)
  BY DEF Chunks, Pipes!PipeAssumption
<1> QED
  BY <1>1, <1>2, <1>3 DEF Pipes!Init, PipeInv, Pipes!PipeAssumption

\* The four pieces make one stream without a gap.
LEMMA PipeImplies == ASSUME Pipes!PipeAssumption, PipeInv PROVE Pipes!ChunksInOrder
<1>1. PICK pr \in Seq(Nat), bu \in Seq(Nat), pi \in Seq(Nat), wb \in Seq(Nat) :
        /\ st.received = pr /\ st.buf = bu /\ st.pipe = pi /\ st.wbuf = wb
        /\ Stream(pr, bu, pi, wb)
  BY Pieces
<1>2. Behind(pr \o bu, 0) /\ Len(pr \o bu) = Len(pr) + Len(bu)
  <2>1. Behind(pr, 0) /\ Behind(bu, 0 + Len(pr))
    BY <1>1 DEF Stream
  <2> QED
    BY <2>1, Glue
<1>3. PICK a \in Seq(Nat) : a = pr \o bu
  BY <1>2 DEF Behind
<1>4. Behind(a \o pi, 0) /\ Len(a \o pi) = Len(a) + Len(pi)
  <2>1. Behind(a, 0) /\ Behind(pi, 0 + Len(a))
    BY <1>1, <1>2, <1>3 DEF Stream
  <2> QED
    BY <2>1, Glue
<1>5. PICK b \in Seq(Nat) : b = a \o pi
  BY <1>4 DEF Behind
<1>6. Behind(b \o wb, 0)
  <2>1. Behind(b, 0) /\ Behind(wb, 0 + Len(b))
    BY <1>1, <1>2, <1>3, <1>4, <1>5 DEF Stream
  <2> QED
    BY <2>1, Glue
<1>7. PICK all \in Seq(Nat) : all = b \o wb
  BY <1>6 DEF Behind
<1>8. all = [i \in 1..Len(all) |-> i]
  <2>1. \A i \in 1..Len(all) : all[i] = i
    BY <1>6, <1>7 DEF Behind
  <2>2. all = [i \in 1..Len(all) |-> all[i]]
    OBVIOUS
  <2> QED
    BY <2>1, <2>2
<1>9. all = st.received \o st.buf \o st.pipe \o st.wbuf
  BY <1>1, <1>3, <1>5, <1>7
<1>10. PICK l \in Nat, c \in Nat, e \in Nat : l = Len(st.received) /\ c = st.count /\ e = st.errors
  BY <1>1, LenProperties DEF PipeInv
<1>11. Chunks(l, c, IF Pipes!Eof /\ st.buf = <<>> THEN e + 1 ELSE e)
  <2>1. CASE Chunks(l, c, e)
    <3>1. BUF_SZ \in Nat /\ BUF_SZ >= 2 /\ 1 \in 1..(BUF_SZ - 1)
      BY DEF Pipes!PipeAssumption
    <3>2. Chunks(l, c, e + 1)
      BY <2>1, <3>1, OneMoreChunk
    <3> QED
      BY <2>1, <3>2
  <2>2. CASE ~Chunks(l, c, e)
    BY <1>10, <2>2 DEF PipeInv, Pipes!Eof
  <2> QED
    BY <2>1, <2>2
<1>12. PICK short \in Nat :
         /\ short = st.errors + (IF Pipes!Eof /\ st.buf = <<>> THEN 1 ELSE 0)
         /\ short = IF Pipes!Eof /\ st.buf = <<>> THEN e + 1 ELSE e
  BY <1>10
<1>13. Len(st.received) \in
         (st.count * (BUF_SZ - 1) - short * (BUF_SZ - 2))..(st.count * (BUF_SZ - 1))
  BY <1>10, <1>11, <1>12 DEF Chunks
<1> QED
  BY <1>8, <1>9, <1>12, <1>13, Zenon DEF Pipes!ChunksInOrder

StreamInv == prog = "pipe" => PipeInv

\* ChunksInOrder: source and sink, for every length of the stream, every size
\* of chunk and every capacity of the pipe: nothing is lost, repeated or out
\* of order on its way to sink, and only the last chunk of a stream that has
\* ended and those cut by a read error are short.
THEOREM SinkReceivesTheStream == ProgramSpec => []ChunksInOrder
<1>1. ProgramInit => StreamInv
  BY PipeStart, ProgramsAssumption DEF ProgramInit, StreamInv, ProgramsAssumption
<1>2. StreamInv /\ [ProgramNext]_<<prog, st>> => StreamInv'
  BY OneProgram, PipeStep, ProgramsAssumption DEF StreamInv, ProgramsAssumption
<1>3. StreamInv => ChunksInOrder
  BY PipeImplies, ProgramsAssumption DEF StreamInv, ChunksInOrder, ProgramsAssumption
<1> QED
  BY <1>1, <1>2, <1>3, PTL DEF ProgramSpec
-----------------------------------------------------------------------------
(* What sink prints: the first NUL of a chunk                              *)

\* A set of numbers that is not empty has a least one.
LEMMA Least ==
  ASSUME NEW S \in SUBSET Nat, S # {}
  PROVE  \E x \in S : \A y \in S : x <= y
<1>1. PICK x \in S : \A y \in S : ~(<<y, x>> \in OpToRel(<, Nat))
  BY NatLessThanWellFounded, WFMin
<1>2. ASSUME NEW y \in S PROVE x <= y
  <2>1. <<y, x>> \in OpToRel(<, Nat) <=> <<y, x>> \in Nat \X Nat /\ y < x
    BY Zenon DEF OpToRel
  <2>2. ~(y < x)
    BY <1>1, <2>1, Zenon
  <2> QED
    BY <2>2
<1> QED
  BY <1>2

LEMMA Remainder ==
  ASSUME NEW d \in Nat \ {0}, NEW c \in Nat, NEW m \in 0..(d - 1)
  PROVE  (c * d + m) % d = m
<1>1. PICK x \in Nat : x = c * d + m
  OBVIOUS
<1>2. PICK q \in Nat, r \in 0..(d - 1) : r = x % d /\ q * d + r = x
  BY DivMod
<1>3. (c - q) * d = r - m
  BY <1>1, <1>2
<1>4. ASSUME c - q >= 1 PROVE FALSE
  <2>1. PICK e \in Nat : e = c - q - 1
    BY <1>4
  <2>2. e * d >= 0 /\ (c - q) * d = e * d + d
    BY <2>1
  <2> QED
    BY <1>3, <2>2
<1>5. ASSUME q - c >= 1 PROVE FALSE
  <2>1. PICK e \in Nat : e = q - c - 1
    BY <1>5
  <2>2. e * d >= 0 /\ (c - q) * d = -(e * d + d)
    BY <2>1
  <2> QED
    BY <1>3, <2>2
<1>6. c = q
  BY <1>4, <1>5
<1> QED
  BY <1>1, <1>2, <1>6

\* Strlen is the number of bytes before the first NUL.
Stops(chunk, n) ==
  /\ \A i \in 1..n : ~Pipes!Nul(chunk[i])
  /\ n < Len(chunk) => Pipes!Nul(chunk[n + 1])
LEMMA StrlenStops ==
  ASSUME NEW chunk \in Seq(Nat)
  PROVE  Pipes!Strlen(chunk) \in 0..Len(chunk) /\ Stops(chunk, Pipes!Strlen(chunk))
<1>0. Len(chunk) \in Nat
  BY LenProperties
<1>1. \E n \in 0..Len(chunk) : Stops(chunk, n)
  <2> DEFINE S == {k \in 1..Len(chunk) : Pipes!Nul(chunk[k])}
  <2>1. CASE S = {}
    <3>1. \A i \in 1..Len(chunk) : ~Pipes!Nul(chunk[i])
      BY <2>1
    <3>2. PICK n \in 0..Len(chunk) : n = Len(chunk) /\ ~(n < Len(chunk))
      BY <1>0
    <3> QED
      BY <3>1, <3>2, Zenon DEF Stops
  <2>2. CASE S # {}
    <3>1. S \in SUBSET Nat
      OBVIOUS
    <3>2. PICK x \in S : \A y \in S : x <= y
      BY <2>2, <3>1, Least
    <3>3. x \in 1..Len(chunk) /\ Pipes!Nul(chunk[x])
      OBVIOUS
    <3>4. ASSUME NEW i \in 1..(x - 1) PROVE ~Pipes!Nul(chunk[i])
      BY <1>0, <3>2, <3>3
    <3>5. x - 1 \in 0..Len(chunk) /\ (x - 1) + 1 = x
      BY <1>0, <3>3
    <3> QED
      BY <3>3, <3>4, <3>5 DEF Stops
  <2> QED
    BY <2>1, <2>2
<1>2. Pipes!Strlen(chunk) = CHOOSE n \in 0..Len(chunk) : Stops(chunk, n)
  BY Zenon DEF Pipes!Strlen, Stops
<1> QED
  BY <1>1, <1>2

\* p is what is printed of the first l bytes.
Shows(l, p) ==
  /\ p \in Seq(Nat)
  /\ \A i, k \in 1..Len(p) : i < k => p[i] < p[k]
  /\ {p[i] : i \in 1..Len(p)} = {b \in 1..l : Pipes!Visible(b)}

\* A chunk that begins where a block of the stream does: what it shows.
Whole(l) == \E c \in Nat : l = c * (BUF_SZ - 1)

LEMMA ChunkShows ==
  ASSUME BUF_SZ \in Nat, BUF_SZ >= 2, NEW l \in Nat, Whole(l),
         NEW chunk, Behind(chunk, l), Len(chunk) <= BUF_SZ - 1,
         NEW n \in 0..Len(chunk), Stops(chunk, n), NEW i \in 1..Len(chunk)
  PROVE  Pipes!Visible(l + i) <=> i <= n
<1>1. chunk \in Seq(Nat) /\ Len(chunk) \in Nat /\ \A k \in 1..Len(chunk) : chunk[k] = l + k
  BY LenProperties DEF Behind
<1>2. PICK d \in Nat \ {0} : d = BUF_SZ - 1
  OBVIOUS
<1>3. PICK m \in 0..(d - 1) : m = i - 1
  BY <1>1, <1>2
<1>a. PICK c \in Nat : l = c * (BUF_SZ - 1)
  BY DEF Whole
<1>4. (l + i) - 1 = c * d + m
  BY <1>2, <1>3, <1>a
<1>5. ((l + i) - 1) % (BUF_SZ - 1) = m
  BY <1>2, <1>4, Remainder
<1>6. Pipes!Visible(l + i) <=> \A b \in ((l + i) - m)..(l + i) : ~Pipes!Nul(b)
  BY <1>5 DEF Pipes!Visible
<1>7. (l + i) - m = l + 1
  BY <1>3
<1>8. Pipes!Visible(l + i) <=> \A b \in (l + 1)..(l + i) : ~Pipes!Nul(b)
  BY <1>6, <1>7
<1>9. ASSUME i <= n PROVE \A b \in (l + 1)..(l + i) : ~Pipes!Nul(b)
  <2> SUFFICES ASSUME NEW b \in (l + 1)..(l + i) PROVE ~Pipes!Nul(b)
    OBVIOUS
  <2>0. n \in Int /\ n <= Len(chunk) /\ b \in Int /\ b >= l + 1 /\ b <= l + i
    BY <1>1
  <2>1. PICK j \in Nat : j = b - l /\ j \in 1..n /\ j \in 1..Len(chunk)
    BY <1>1, <1>9, <2>0
  <2>2. chunk[j] = b
    <3>1. chunk[j] = l + j
      BY <1>1, <2>1, Zenon
    <3>2. l + j = b
      BY <2>0, <2>1
    <3> QED
      BY <3>1, <3>2
  <2> QED
    BY <2>1, <2>2 DEF Stops
<1>10. ASSUME ~(i <= n) PROVE ~(\A b \in (l + 1)..(l + i) : ~Pipes!Nul(b))
  <2>1. n + 1 \in 1..Len(chunk) /\ n < Len(chunk) /\ l + (n + 1) \in (l + 1)..(l + i)
    BY <1>1, <1>10
  <2>2. Pipes!Nul(chunk[n + 1]) /\ chunk[n + 1] = l + (n + 1)
    BY <1>1, <2>1 DEF Stops
  <2> QED
    BY <2>1, <2>2
<1> QED
  BY <1>8, <1>9, <1>10

LEMMA ShowsMore ==
  ASSUME BUF_SZ \in Nat, BUF_SZ >= 2, NEW l \in Nat, Whole(l),
         NEW chunk, Behind(chunk, l), Len(chunk) <= BUF_SZ - 1, NEW p, Shows(l, p)
  PROVE  Shows(l + Len(chunk), p \o SubSeq(chunk, 1, Pipes!Strlen(chunk)))
<1>1. chunk \in Seq(Nat)
  BY DEF Behind
<1>2. PICK n \in 0..Len(chunk) : n = Pipes!Strlen(chunk) /\ Stops(chunk, n)
  BY <1>1, StrlenStops
<1>3. PICK a : a = SubSeq(chunk, 1, n) /\ Behind(a, l) /\ Len(a) = n
  <2>1. Behind(SubSeq(chunk, 1, n), l) /\ Len(SubSeq(chunk, 1, n)) = n
    BY Cut
  <2> QED
    BY <2>1, Zenon
<1>4. PICK len \in Nat, np \in Nat : len = Len(chunk) /\ np = Len(p) /\ n \in 0..len
  BY <1>1, LenProperties DEF Shows
<1>5. p \in Seq(Nat) /\ a \in Seq(Nat) /\ n \in Nat
  BY <1>3, <1>4 DEF Shows, Behind
<1>6. PICK q, lq :
        /\ q = p \o a /\ q \in Seq(Nat) /\ lq = Len(q) /\ lq = np + n /\ lq \in Nat
  <2>1. p \o a \in Seq(Nat) /\ Len(p \o a) = Len(p) + Len(a)
    BY <1>5, ConcatProperties
  <2>2. np + n \in Nat /\ Len(p \o a) = np + n
    BY <1>3, <1>4, <1>5, <2>1
  <2> QED
    BY <2>1, <2>2
<1>7. /\ \A i \in 1..np : q[i] = p[i]
      /\ \A i \in 1..n : q[np + i] = l + i
  <2>1. \A i \in 1..(np + n) : q[i] = IF i <= np THEN p[i] ELSE a[i - np]
    BY <1>3, <1>4, <1>5, <1>6, ConcatProperties
  <2>2. \A i \in 1..n : a[i] = l + i
    BY <1>3 DEF Behind
  <2>3. ASSUME NEW i \in 1..np PROVE q[i] = p[i]
    <3>1. i \in 1..(np + n) /\ i <= np
      BY <1>5
    <3> QED
      BY <2>1, <3>1, Zenon
  <2>4. ASSUME NEW i \in 1..n PROVE q[np + i] = l + i
    <3>1. np + i \in 1..(np + n) /\ ~(np + i <= np) /\ (np + i) - np = i
      BY <1>5
    <3>2. q[np + i] = a[(np + i) - np]
      BY <2>1, <3>1, Zenon
    <3> QED
      BY <2>2, <3>1, <3>2
  <2> QED
    BY <2>3, <2>4
<1>8. \A i \in 1..np : p[i] \in 1..l /\ Pipes!Visible(p[i])
  BY <1>4 DEF Shows
<1>9. \A i \in 1..len : Pipes!Visible(l + i) <=> i <= n
  BY <1>2, <1>4, ChunkShows
<1>10. ASSUME NEW i \in 1..lq, NEW k \in 1..lq, i < k PROVE q[i] < q[k]
  <2>1. CASE k <= np
    <3>1. i \in 1..np /\ k \in 1..np
      BY <1>5, <1>6, <1>10, <2>1
    <3> QED
      BY <1>4, <1>7, <1>10, <3>1 DEF Shows
  <2>2. CASE ~(k <= np)
    <3>1. PICK y \in 1..n : k = np + y /\ y = k - np
      BY <1>5, <1>6, <2>2
    <3>2. q[k] = l + y
      BY <1>7, <3>1
    <3>3. CASE i <= np
      <4>1. i \in 1..np
        BY <1>6, <3>3
      <4>2. q[i] = p[i] /\ p[i] \in 1..l
        BY <1>7, <1>8, <4>1
      <4> QED
        BY <3>1, <3>2, <4>2
    <3>4. CASE ~(i <= np)
      <4>1. PICK x \in 1..n : i = np + x /\ x = i - np
        BY <1>5, <1>6, <3>4
      <4>2. q[i] = l + x
        BY <1>7, <4>1
      <4> QED
        BY <1>10, <3>1, <3>2, <4>1, <4>2
    <3> QED
      BY <3>3, <3>4
  <2> QED
    BY <2>1, <2>2
<1>11. ASSUME NEW i \in 1..lq PROVE q[i] \in 1..(l + len) /\ Pipes!Visible(q[i])
  <2>1. CASE i <= np
    <3>1. i \in 1..np
      BY <1>6, <2>1
    <3> QED
      BY <1>7, <1>8, <3>1
  <2>2. CASE ~(i <= np)
    <3>0. i \in Int /\ i >= 1 /\ i <= np + n /\ n <= len /\ i > np
      BY <1>4, <1>5, <1>6, <2>2
    <3>1. PICK x \in Nat : i = np + x /\ x >= 1 /\ x <= n /\ x <= len
      <4>1. i - np \in Nat /\ i = np + (i - np)
        BY <3>0
      <4> QED
        BY <3>0, <4>1
    <3>2. q[i] = l + x
      BY <1>5, <1>7, <3>1
    <3>3. Pipes!Visible(l + x) /\ l + x \in 1..(l + len)
      <4>1. x \in 1..len /\ l + x \in 1..(l + len)
        BY <3>1
      <4>2. Pipes!Visible(l + x) <=> x <= n
        BY <1>9, <4>1, Zenon
      <4> QED
        BY <3>1, <4>1, <4>2
    <3> QED
      BY <3>2, <3>3
  <2> QED
    BY <2>1, <2>2
<1>12. ASSUME NEW b \in 1..(l + len), Pipes!Visible(b) PROVE \E i \in 1..lq : q[i] = b
  <2>1. CASE b <= l
    <3>1. b \in 1..l
      BY <2>1
    <3>2. PICK i \in 1..np : p[i] = b
      BY <1>4, <1>12, <3>1 DEF Shows
    <3>3. i \in 1..lq
      BY <1>5, <1>6
    <3> QED
      BY <1>7, <3>2, <3>3
  <2>2. CASE ~(b <= l)
    <3>1. PICK x \in 1..len : b = l + x
      BY <2>2
    <3>2. x \in 1..n
      BY <1>9, <1>12, <3>1
    <3>3. np + x \in 1..lq
      BY <1>5, <1>6, <3>2
    <3>4. q[np + x] = b
      BY <1>7, <3>1, <3>2
    <3> QED
      BY <3>3, <3>4
  <2> QED
    BY <2>1, <2>2
<1>13. {q[i] : i \in 1..lq} = {b \in 1..(l + len) : Pipes!Visible(b)}
  BY <1>11, <1>12
<1>14. Shows(l + len, q)
  <2>1. 1..Len(q) = 1..lq
    BY <1>6
  <2> QED
    BY <1>6, <1>10, <1>13, <2>1, Zenon DEF Shows
<1> QED
  BY <1>2, <1>3, <1>4, <1>6, <1>14, Zenon

\* The text printed is that of the bytes received, as long as no chunk was cut
\* by an error: all but the last are then blocks of the stream.
NulInv == PipeInv /\ (st.errors = 0 => Shows(Len(st.received), st.printed))

LEMMA NulStep == ASSUME Pipes!PipeAssumption, NulInv, [Pipes!Next]_st PROVE NulInv'
<1>0. BUF_SZ \in Nat /\ BUF_SZ >= 2 /\ PipeInv /\ PipeInv'
  BY PipeStep DEF Pipes!PipeAssumption, NulInv
<1>a. IsPipeRecord(st) /\ st.errors \in Nat
  BY <1>0 DEF PipeInv, IsPipeRecord, PipeRecord
<1>1. CASE st'.errors = st.errors /\ st'.received = st.received /\ st'.printed = st.printed
  BY <1>0, <1>1 DEF NulInv
<1>2. CASE Pipes!Write \/ Pipes!Flush \/ Pipes!Exit \/ Pipes!Read \/ Pipes!EndOfFile \/ UNCHANGED st
  <2>1. st'.errors = st.errors /\ st'.received = st.received /\ st'.printed = st.printed
    <3>1. CASE Pipes!Write \/ Pipes!Exit \/ Pipes!EndOfFile \/ UNCHANGED st
      BY <1>a, <3>1 DEF Pipes!Write, Pipes!Exit, Pipes!EndOfFile, IsPipeRecord, PipeRecord
    <3>2. CASE Pipes!Flush
      BY <1>a, <3>2 DEF Pipes!Flush, IsPipeRecord, PipeRecord
    <3>3. CASE Pipes!Read
      BY <1>a, <3>3 DEF Pipes!Read, IsPipeRecord, PipeRecord
    <3> QED
      BY <1>2, <3>1, <3>2, <3>3
  <2> QED
    BY <1>1, <2>1
<1>3. CASE Pipes!Received
  <2>1. st.buf # <<>> /\ st' = Pipes!ShowChunk(st)
    BY <1>3 DEF Pipes!Received
  <2>2. ShownOf(st, st', 0)
    <3>1. ShownOf(st, Shown(Pipes!ShowChunk(st), 0), 0)
      BY <1>a, ShowsOne
    <3> QED
      BY <2>1, <3>1, Zenon DEF Shown
  <2>3. ASSUME st.errors = 0 PROVE Shows(Len(st'.received), st'.printed)
    <3>1. PICK l \in Nat, c \in Nat : l = Len(st.received) /\ c = st.count
      BY <1>0, LenProperties DEF PipeInv, Stream, Behind
    <3>2. Chunks(l, c, 0)
      BY <1>0, <2>1, <2>3, <3>1 DEF PipeInv
    <3>3. l = c * (BUF_SZ - 1)
      <4>1. PICK f \in Nat : f = c * (BUF_SZ - 1)
        BY <1>0
      <4>2. l \in (f - 0 * (BUF_SZ - 2))..f
        BY <3>2, <4>1 DEF Chunks
      <4>3. 0 * (BUF_SZ - 2) = 0
        BY <1>0
      <4> QED
        BY <4>1, <4>2, <4>3
    <3>a. Whole(l)
      BY <3>3 DEF Whole
    <3>4. Behind(st.buf, l) /\ Len(st.buf) <= BUF_SZ - 1 /\ Behind(st.received, 0)
      BY <1>0, <3>1 DEF PipeInv, Stream
    <3>5. Shows(l, st.printed)
      BY <2>3, <3>1 DEF NulInv
    <3>6. Shows(l + Len(st.buf), st.printed \o SubSeq(st.buf, 1, Pipes!Strlen(st.buf)))
      BY <1>0, <3>a, <3>4, <3>5, ShowsMore
    <3>7. Len(st.received \o st.buf) = l + Len(st.buf)
      BY <3>1, <3>4 DEF Behind
    <3>8. /\ st'.received = st.received \o st.buf
          /\ st'.printed = st.printed \o SubSeq(st.buf, 1, Pipes!Strlen(st.buf))
      BY <2>2 DEF ShownOf
    <3> QED
      BY <3>6, <3>7, <3>8, Zenon
  <2>4. st'.errors = st.errors
    BY <1>a, <2>2 DEF ShownOf
  <2> QED
    BY <1>0, <2>3, <2>4 DEF NulInv
<1>4. CASE Pipes!FreadError
  <2>1. CASE st.buf = <<>> /\ st' = [st EXCEPT !.kpc = "failed"]
    <3>1. st'.errors = st.errors /\ st'.received = st.received /\ st'.printed = st.printed
      BY <1>a, <2>1 DEF IsPipeRecord, PipeRecord
    <3> QED
      BY <1>1, <3>1
  <2>2. CASE st' = [Pipes!ShowChunk(st) EXCEPT !.errors = @ + 1]
    <3>1. ShownOf(st, Shown(Pipes!ShowChunk(st), 1), 1)
      BY <1>a, ShowsOne
    <3>2. Shown(Pipes!ShowChunk(st), 1) = st'
      BY <2>2 DEF Shown
    <3>3. st'.errors = st.errors + 1
      BY <3>1, <3>2 DEF ShownOf
    <3> QED
      BY <1>0, <1>a, <3>3 DEF NulInv
  <2> QED
    BY <1>4, <2>1, <2>2, Zenon DEF Pipes!FreadError
<1> QED
  BY <1>2, <1>3, <1>4, Zenon DEF Pipes!Next, Pipes!Source, Pipes!Sink

NulStreamInv == prog = "pipe" => NulInv

\* PrintedUpToNul: unless reading fails, what sink has printed of the bytes it
\* received is, of every block of BUF_SZ - 1 bytes of the stream, the part
\* before its first NUL, for every size of chunk and every place of the NULs.
THEOREM SinkPrintsUpToNul == ProgramSpec => []PrintedUpToNul
<1>1. ProgramInit => NulStreamInv
  <2>1. ASSUME Pipes!Init PROVE NulInv
    <3>1. PipeInv
      BY <2>1, PipeStart, ProgramsAssumption DEF ProgramsAssumption
    <3>2. st.received = <<>> /\ st.printed = <<>>
      BY <2>1 DEF Pipes!Init
    <3>3. <<>> \in Seq(Nat) /\ Len(<<>>) = 0
      OBVIOUS
    <3>4. Shows(0, <<>>)
      BY <3>3 DEF Shows
    <3> QED
      BY <3>1, <3>2, <3>3, <3>4 DEF NulInv
  <2> QED
    BY <2>1 DEF ProgramInit, NulStreamInv
<1>2. NulStreamInv /\ [ProgramNext]_<<prog, st>> => NulStreamInv'
  BY OneProgram, NulStep, ProgramsAssumption DEF NulStreamInv, ProgramsAssumption
<1>3. NulStreamInv => PrintedUpToNul
  BY Zenon DEF NulStreamInv, NulInv, Shows, PrintedUpToNul, Pipes!PrintedUpToNul
<1> QED
  BY <1>1, <1>2, <1>3, PTL DEF ProgramSpec
-----------------------------------------------------------------------------
(* What every program gives back                                           *)

ReturnInv == /\ prog = "timer" => TerminalInv
             /\ prog = "sysreg" => SysregInv
             /\ prog = "sockets" => SocketInv

\* EverythingReturned: every way out of main, the failed ones too, leaves the
\* terminal in canonical mode with echo (termios_reset), the files of sysreg
\* closed, and of the sockets of the echo programs only those open that
\* accept has returned to tcp_server.
THEOREM NothingIsKept == ProgramSpec => []EverythingReturned
<1>1. ProgramInit => ReturnInv
  <2>1. Timers!Init => TerminalInv
    BY DEF Timers!Init, TerminalInv, TimerRecord
  <2>2. Sysregs!Init => SysregInv
    BY DEF Sysregs!Init, SysregInv
  <2> QED
    BY <2>1, <2>2, SocketStart DEF ProgramInit, ReturnInv
<1>2. ReturnInv /\ [ProgramNext]_<<prog, st>> => ReturnInv'
  BY OneProgram, TerminalStep, SysregStep, SocketStep, ProgramsAssumption DEF ReturnInv, ProgramsAssumption
<1>3. ReturnInv => EverythingReturned
  <2>1. TerminalInv => Timers!TerminalReset
    BY DEF TerminalInv, Timers!TerminalReset
  <2>2. SysregInv => Sysregs!FilesClosed
    BY DEF SysregInv, Sysregs!FilesClosed
  <2>3. SocketInv => Socks!SocketsClosed
    BY DEF SocketInv, Descriptors, Socks!SocketsClosed
  <2> QED
    BY <2>1, <2>2, <2>3 DEF ReturnInv, EverythingReturned
<1> QED
  BY <1>1, <1>2, <1>3, PTL DEF ProgramSpec
-----------------------------------------------------------------------------
(* FlattenSeq: the functions it is defined by exist and are unique         *)

\* f puts the first j sequences of ss together.
Flat(ss, j, f) == f = [i \in 1..j |-> IF i = 1 THEN ss[i] ELSE f[i - 1] \o ss[i]]

\* f and g are the same on the first j places.
Agree(f, g, j) == \A i \in 1..j : f[i] = g[i]

\* Two such functions agree where both are defined.
LEMMA FlatUnique ==
  \A ss, tt, f, g : \A j, k \in Nat :
    j <= k /\ Flat(ss, j, f) /\ Flat(tt, k, g) /\ Agree(ss, tt, j) => Agree(f, g, j)
<1> SUFFICES ASSUME NEW ss, NEW tt, NEW f, NEW g, NEW j \in Nat, NEW k \in Nat, j <= k,
                    Flat(ss, j, f), Flat(tt, k, g), Agree(ss, tt, j)
             PROVE  Agree(f, g, j)
  OBVIOUS
<1> USE DEF Agree
<1> DEFINE S == {i \in 1..j : f[i] # g[i]}
<1>1. SUFFICES ASSUME S # {} PROVE FALSE
  OBVIOUS
<1>a. S \in SUBSET Nat
  OBVIOUS
<1>b. \A i \in 1..j : f[i] = IF i = 1 THEN ss[i] ELSE f[i - 1] \o ss[i]
  BY DEF Flat
<1>c. \A i \in 1..k : g[i] = IF i = 1 THEN tt[i] ELSE g[i - 1] \o tt[i]
  BY DEF Flat
<1>2. PICK i \in S : \A y \in S : i <= y
  BY <1>1, <1>a, Least
<1>3. /\ i \in 1..j /\ i \in 1..k
      /\ f[i] = IF i = 1 THEN ss[i] ELSE f[i - 1] \o ss[i]
      /\ g[i] = IF i = 1 THEN tt[i] ELSE g[i - 1] \o tt[i]
  BY <1>2, <1>b, <1>c
<1>4. i # 1 => f[i - 1] = g[i - 1]
  <2>1. i # 1 => i - 1 \in 1..j /\ i - 1 \notin S
    BY <1>2, <1>3
  <2> QED
    BY <2>1
<1> QED
  BY <1>2, <1>3, <1>4

\* They are made of the elements of ss.
LEMMA FlatIsSeq ==
  ASSUME NEW S, NEW ss, NEW j \in Nat, NEW f, Flat(ss, j, f), \A i \in 1..j : ss[i] \in Seq(S)
  PROVE  \A i \in 1..j : f[i] \in Seq(S)
<1> DEFINE T == {i \in 1..j : f[i] \notin Seq(S)}
<1>1. SUFFICES ASSUME T # {} PROVE FALSE
  OBVIOUS
<1>2. T \in SUBSET Nat
  OBVIOUS
<1>3. PICK i \in T : \A y \in T : i <= y
  BY <1>1, <1>2, Least
<1>4. \A k \in 1..j : f[k] = IF k = 1 THEN ss[k] ELSE f[k - 1] \o ss[k]
  BY DEF Flat
<1>5. i # 1 => f[i - 1] \in Seq(S)
  <2>1. i # 1 => i - 1 \in 1..j /\ i - 1 \notin T
    BY <1>3
  <2> QED
    BY <2>1
<1>6. i \in 1..j /\ f[i] \notin Seq(S) /\ ss[i] \in Seq(S)
  BY <1>3
<1>7. f[i] = IF i = 1 THEN ss[i] ELSE f[i - 1] \o ss[i]
  BY <1>4, <1>6
<1>8. i # 1 => f[i - 1] \o ss[i] \in Seq(S)
  BY <1>5, <1>6, ConcatProperties
<1> QED
  BY <1>6, <1>7, <1>8

\* There is one of every length.
LEMMA FlatExists ==
  ASSUME NEW ss, NEW b \in Nat
  PROVE  \E f : Flat(ss, b, f)
<1> DEFINE S == {j \in Nat : ~ \E f : Flat(ss, j, f)}
<1>1. SUFFICES ASSUME S # {} PROVE FALSE
  OBVIOUS
<1>3. PICK j \in S : \A y \in S : j <= y
  BY <1>1, Least
<1>4. j # 0
  <2>1. Flat(ss, 0, [i \in 1..0 |-> ss])
    BY DEF Flat
  <2> QED
    BY <1>3, <2>1
<1>5. PICK f : Flat(ss, j - 1, f)
  <2>1. j - 1 \in Nat /\ j - 1 \notin S
    BY <1>3, <1>4
  <2> QED
    BY <2>1
<1>6. PICK g : g = [i \in 1..j |-> IF i = j THEN (IF j = 1 THEN ss[j] ELSE f[j - 1] \o ss[j]) ELSE f[i]]
  OBVIOUS
<1>7. \A i \in 1..(j - 1) : f[i] = IF i = 1 THEN ss[i] ELSE f[i - 1] \o ss[i]
  BY <1>5 DEF Flat
<1>8. ASSUME NEW i \in 1..j
      PROVE  g[i] = IF i = 1 THEN ss[i] ELSE g[i - 1] \o ss[i]
  <2>1. CASE i = j
    <3>1. i # 1 => g[i - 1] = f[i - 1]
      BY <1>6, <2>1
    <3> QED
      BY <1>6, <2>1, <3>1
  <2>2. CASE i # j
    <3>1. i \in 1..(j - 1) /\ g[i] = f[i] /\ (i # 1 => g[i - 1] = f[i - 1])
      BY <1>6, <2>2
    <3> QED
      BY <1>7, <3>1
  <2> QED
    BY <2>1, <2>2
<1>9. Flat(ss, j, g)
  BY <1>6, <1>8 DEF Flat
<1> QED
  BY <1>3, <1>9

\* What FlattenSeq returns.
LEMMA FlattenIs ==
  ASSUME NEW ss, Len(ss) \in Nat \ {0}, NEW f, Flat(ss, Len(ss), f)
  PROVE  Substrs!FlattenSeq(ss) = f[Len(ss)]
<1> DEFINE c == CHOOSE g : g = [i \in 1..Len(ss) |-> IF i = 1 THEN ss[i] ELSE g[i - 1] \o ss[i]]
<1>1. Flat(ss, Len(ss), c)
  BY FlatExists DEF Flat
<1>2. Substrs!FlattenSeq(ss) = c[Len(ss)]
  BY DEF Substrs!FlattenSeq
<1> HIDE DEF c
<1>3. PICK n \in Nat \ {0} : n = Len(ss)
  OBVIOUS
<1>4. \A i \in 1..n : c[i] = f[i]
  <2>1. Agree(ss, ss, n) /\ Flat(ss, n, c) /\ Flat(ss, n, f)
    BY <1>1, <1>3 DEF Agree
  <2>2. Agree(c, f, n)
    BY <2>1, FlatUnique
  <2> QED
    BY <2>2 DEF Agree
<1> QED
  BY <1>2, <1>3, <1>4

\* FlattenSeq and the end of its argument; sequences stay sequences.
LEMMA FlattenAppend ==
  ASSUME NEW S, NEW ss \in Seq(Seq(S)), NEW s \in Seq(S)
  PROVE  /\ Substrs!FlattenSeq(ss) \in Seq(S)
         /\ Substrs!FlattenSeq(Append(ss, s)) = Substrs!FlattenSeq(ss) \o s
<1>1. PICK n \in Nat : n = Len(ss)
  OBVIOUS
<1>2. PICK tt : tt = Append(ss, s)
  OBVIOUS
<1>3. Len(tt) = n + 1 /\ tt[n + 1] = s /\ (\A i \in 1..n : tt[i] = ss[i]) /\ (\A i \in 1..n : ss[i] \in Seq(S))
  <2>1. \A Q : \A a \in Seq(Q), b \in Q :
          Len(Append(a, b)) = Len(a) + 1 /\ Append(a, b)[Len(a) + 1] = b
          /\ (\A i \in 1..Len(a) : Append(a, b)[i] = a[i]) /\ \A i \in 1..Len(a) : a[i] \in Q
    BY AppendProperties, ElementOfSeq
  <2> QED
    BY <1>1, <1>2, <2>1
<1>4. PICK f : Flat(ss, n, f)
  BY FlatExists
<1>5. PICK g : Flat(tt, n + 1, g)
  <2>1. n + 1 \in Nat
    OBVIOUS
  <2> QED
    BY <2>1, FlatExists
<1>6. \A i \in 1..n : f[i] = g[i]
  <2>1. PICK m \in Nat : m = n + 1
    OBVIOUS
  <2>2. n <= m /\ Flat(tt, m, g)
    BY <1>5, <2>1
  <2>3. Agree(ss, tt, n)
    BY <1>3 DEF Agree
  <2>4. Agree(f, g, n)
    BY <1>4, <2>2, <2>3, FlatUnique
  <2> QED
    BY <2>4 DEF Agree
<1>7. Substrs!FlattenSeq(tt) = g[n + 1]
  BY <1>3, <1>5, FlattenIs
<1>8. g[n + 1] = IF n + 1 = 1 THEN tt[n + 1] ELSE g[n] \o tt[n + 1]
  <2>1. \A i \in 1..(n + 1) : g[i] = IF i = 1 THEN tt[i] ELSE g[i - 1] \o tt[i]
    BY <1>5 DEF Flat
  <2>2. n + 1 \in 1..(n + 1) /\ (n + 1) - 1 = n
    OBVIOUS
  <2> QED
    BY <2>1, <2>2
<1>9. CASE n = 0
  <2>1. ss = <<>>
    BY <1>1, <1>9, EmptySeq
  <2>2. Substrs!FlattenSeq(ss) = <<>>
    BY <1>1, <1>9, <2>1 DEF Substrs!FlattenSeq
  <2> QED
    BY <1>2, <1>3, <1>7, <1>8, <1>9, <2>2
<1>10. CASE n # 0
  <2>1. Substrs!FlattenSeq(ss) = f[n]
    BY <1>1, <1>4, <1>10, FlattenIs
  <2>2. \A i \in 1..n : f[i] \in Seq(S)
    BY <1>3, <1>4, FlatIsSeq
  <2>3. n \in 1..n
    BY <1>10
  <2>4. f[n] \in Seq(S) /\ f[n] = g[n]
    BY <1>6, <2>2, <2>3
  <2>5. g[n + 1] = g[n] \o s
    BY <1>3, <1>8, <1>10
  <2> QED
    BY <1>2, <1>7, <2>1, <2>4, <2>5
<1> QED
  BY <1>9, <1>10

-----------------------------------------------------------------------------
(* lib/cstring.c: iter_substr                                              *)

Chars == {Sep, Char}

\* The pieces p put together again, and what goes between p and one more.
JoinedWith(p) ==
  Substrs!FlattenSeq([i \in DOMAIN p |-> (IF i = 1 THEN <<>> ELSE <<Sep>>) \o p[i]])
Between(p) == IF p = <<>> THEN <<>> ELSE <<Sep>>

\* Facts about sequences of any set, also of sequences.
LEMMA AppendFacts ==
  \A Q : \A a \in Seq(Q), b \in Q :
    /\ Append(a, b) \in Seq(Q) /\ Len(Append(a, b)) = Len(a) + 1 /\ Len(a) \in Nat
    /\ DOMAIN a = 1..Len(a) /\ DOMAIN Append(a, b) = 1..(Len(a) + 1)
    /\ Append(a, b)[Len(a) + 1] = b /\ (\A i \in 1..Len(a) : Append(a, b)[i] = a[i])
    /\ \A i \in 1..Len(a) : a[i] \in Q
BY AppendProperties, ElementOfSeq, LenProperties

\* A separator is a string, as is nothing.
LEMMA SepIsSeq == <<>> \in Seq(Chars) /\ <<Sep>> \in Seq(Chars)
<1>1. Sep \in Chars
  BY DEF Chars
<1> QED
  BY <1>1

\* One more piece.
LEMMA JoinAppend ==
  ASSUME NEW p \in Seq(Seq(Chars)), NEW s \in Seq(Chars)
  PROVE  /\ JoinedWith(p) \in Seq(Chars)
         /\ JoinedWith(Append(p, s)) = (JoinedWith(p) \o Between(p)) \o s
<1>1. PICK n \in Nat : n = Len(p)
  BY LenProperties
<1>2. PICK q : q = [i \in 1..n |-> (IF i = 1 THEN <<>> ELSE <<Sep>>) \o p[i]]
  OBVIOUS
<1>3. DOMAIN p = 1..n /\ DOMAIN Append(p, s) = 1..(n + 1) /\ Append(p, s)[n + 1] = s
      /\ (\A i \in 1..n : Append(p, s)[i] = p[i]) /\ \A i \in 1..n : p[i] \in Seq(Chars)
  BY <1>1, AppendFacts
<1>4. q \in Seq(Seq(Chars)) /\ Len(q) = n
  <2>1. \A i \in 1..n : q[i] \in Seq(Chars)
    <3> SUFFICES ASSUME NEW i \in 1..n PROVE q[i] \in Seq(Chars)
      OBVIOUS
    <3>1. p[i] \in Seq(Chars)
      BY <1>3
    <3>2. PICK b \in Seq(Chars) : b = IF i = 1 THEN <<>> ELSE <<Sep>>
      BY SepIsSeq
    <3>3. b \o p[i] \in Seq(Chars)
      BY <3>1, <3>2, ConcatProperties
    <3> QED
      BY <1>2, <3>2, <3>3
  <2> QED
    BY <1>2, <2>1
<1>5. PICK t \in Seq(Chars) : t = Between(p) \o s
  <2>1. Between(p) \in Seq(Chars)
    BY SepIsSeq DEF Between
  <2> QED
    BY <2>1, ConcatProperties
<1>6. [i \in 1..(n + 1) |-> (IF i = 1 THEN <<>> ELSE <<Sep>>) \o Append(p, s)[i]] = Append(q, t)
  <2>1. /\ DOMAIN Append(q, t) = 1..(n + 1) /\ Append(q, t)[n + 1] = t
        /\ \A i \in 1..n : Append(q, t)[i] = q[i]
    BY <1>4, AppendFacts
  <2>2. Append(q, t) = [i \in 1..(n + 1) |-> Append(q, t)[i]]
    <3>1. Append(q, t) \in Seq(Seq(Chars)) /\ Len(Append(q, t)) = n + 1
      BY <1>4, AppendFacts
    <3> QED
      BY <3>1, LenProperties
  <2>3. ASSUME NEW i \in 1..(n + 1)
        PROVE  (IF i = 1 THEN <<>> ELSE <<Sep>>) \o Append(p, s)[i] = Append(q, t)[i]
    <3>1. CASE i = n + 1
      <4>1. (i = 1) <=> (p = <<>>)
        BY <1>1, <3>1, EmptySeq
      <4> QED
        BY <1>3, <1>5, <2>1, <3>1, <4>1 DEF Between
    <3>2. CASE i # n + 1
      <4>1. i \in 1..n
        BY <3>2
      <4> QED
        BY <1>2, <1>3, <2>1, <4>1
    <3> QED
      BY <3>1, <3>2
  <2> QED
    BY <2>2, <2>3
<1>7. JoinedWith(p) = Substrs!FlattenSeq(q) /\ JoinedWith(Append(p, s)) = Substrs!FlattenSeq(Append(q, t))
  BY <1>2, <1>3, <1>6 DEF JoinedWith
<1>8. PICK j \in Seq(Chars) : j = JoinedWith(p)
  BY <1>4, <1>5, <1>7, FlattenAppend
<1>9. JoinedWith(Append(p, s)) = j \o t
  BY <1>4, <1>5, <1>7, <1>8, FlattenAppend
<1>10. PICK b \in Seq(Chars) : b = Between(p)
  BY SepIsSeq DEF Between
<1>11. j \o (b \o s) = (j \o b) \o s
  OBVIOUS
<1> QED
  BY <1>5, <1>8, <1>9, <1>10, <1>11

\* No piece is no text.
LEMMA JoinEmpty == JoinedWith(<<>>) = <<>>
BY EmptySeq DEF JoinedWith, Substrs!FlattenSeq

\* j is what lies before the separator in front of n, all of arg for n = NULL.
SplitAt(arg, j, n) ==
  /\ n = 0 => j = arg
  /\ n # 0 => n \in 2..(Len(arg) + 1) /\ j = SubSeq(arg, 1, n - 2) /\ arg[n - 1] = Sep

\* The piece in str, not yet printed, counts as cut off.
SubstrInv ==
  /\ st = [ arg |-> st.arg, nxt |-> st.nxt, str |-> st.str, pieces |-> st.pieces,
            oom |-> st.oom, heap |-> st.heap, pc |-> st.pc ]
  /\ st.arg \in Seq(Chars) /\ st.str \in Seq({Char}) /\ st.pieces \in Seq(Seq({Char}))
  /\ st.nxt \in Nat /\ st.pc \in {"substr", "body", "done"}
  /\ st.heap = IF st.pc = "body" THEN 1 ELSE 0
  /\ Substrs!IsPrefix(JoinedWith(st.pieces), st.arg)
  /\ st.pc = "substr" =>
       \/ st.pieces = <<>> /\ st.nxt = 1
       \/ st.pieces # <<>> /\ SplitAt(st.arg, JoinedWith(st.pieces), st.nxt)
  /\ st.pc = "body" => SplitAt(st.arg, JoinedWith(Append(st.pieces, st.str)), st.nxt)
  /\ st.pc = "done" => st.oom = TRUE \/ JoinedWith(st.pieces) = st.arg

\* strchr finds the first separator, or says that there is none.
LEMMA StrchrFinds ==
  ASSUME st.arg \in Seq(Chars), NEW h \in Nat \ {0}
  PROVE  LET n == Substrs!strchr(h)
         IN  /\ n \in Nat
             /\ n = 0 => \A i \in h..Len(st.arg) : st.arg[i] # Sep
             /\ n # 0 => n \in h..Len(st.arg) /\ st.arg[n] = Sep /\ \A i \in h..(n - 1) : st.arg[i] # Sep
<1> DEFINE at == {i \in h..Len(st.arg) : st.arg[i] = Sep}
           c == CHOOSE i \in at : \A k \in at : i <= k
           n == Substrs!strchr(h)
<1>1. Len(st.arg) \in Nat
  BY LenProperties
<1>2. n = IF at = {} THEN 0 ELSE c
  BY DEF Substrs!strchr, Substrs!NoPos
<1>3. CASE at = {}
  <2>1. n = 0
    BY <1>2, <1>3
  <2> HIDE DEF n
  <2> QED
    BY <1>3, <2>1 DEF n
<1>4. CASE at # {}
  <2>1. at \in SUBSET Nat
    BY <1>1
  <2>2. c \in at /\ \A k \in at : c <= k
    BY <1>4, <2>1, Least, Zenon
  <2> HIDE DEF c
  <2>3. n = c
    BY <1>2, <1>4
  <2> HIDE DEF n
  <2>4. n \in h..Len(st.arg) /\ st.arg[n] = Sep /\ \A i \in h..(n - 1) : st.arg[i] # Sep
    BY <1>1, <2>2, <2>3
  <2> QED
    BY <1>1, <2>4 DEF n
<1> QED
  BY <1>3, <1>4

\* The start of a string is a prefix of it.
LEMMA StartIsPrefix ==
  ASSUME NEW a \in Seq(Chars), NEW k \in 0..Len(a)
  PROVE  Substrs!IsPrefix(SubSeq(a, 1, k), a)
<1>1. Len(a) \in Nat /\ \A i \in 1..k : a[i] \in Chars
  BY LenProperties, ElementOfSeq
<1>2. SubSeq(a, 1, k) \in Seq(Chars) /\ Len(SubSeq(a, 1, k)) = k
  BY <1>1, SubSeqProperties
<1>3. SubSeq(SubSeq(a, 1, k), 1, k) = SubSeq(a, 1, k)
  BY <1>2, SubSeqFull
<1> QED
  BY <1>1, <1>2, <1>3 DEF Substrs!IsPrefix

\* A piece without separator.
LEMMA PieceIsPlain ==
  ASSUME NEW a \in Seq(Chars), NEW h \in Nat \ {0}, NEW e \in Nat, e <= Len(a),
         \A i \in h..e : a[i] # Sep
  PROVE  SubSeq(a, h, e) \in Seq({Char})
<1>1. \A i \in h..e : a[i] \in {Char}
  <2> SUFFICES ASSUME NEW i \in h..e PROVE a[i] = Char
    OBVIOUS
  <2>1. i \in 1..Len(a)
    BY LenProperties
  <2>2. a[i] \in Chars
    BY <2>1, ElementOfSeq
  <2> QED
    BY <2>2 DEF Chars
<1> QED
  BY <1>1, SubSeqProperties

\* What one call of substr cuts off.
LEMMA CutsPiece ==
  ASSUME Substrs!SubstrAssumption, SubstrInv, st.pc = "substr", st.nxt # 0
  PROVE  LET n == Substrs!strchr(st.nxt)
             end == IF n = 0 THEN Len(st.arg) ELSE n - 1
             str == SubSeq(st.arg, st.nxt, end)
         IN  str \in Seq({Char}) /\ SplitAt(st.arg, JoinedWith(Append(st.pieces, str)), Substrs!After(n))
<1>1. PICK a \in Seq(Chars), h \in Nat \ {0}, p \in Seq(Seq({Char})) : a = st.arg /\ h = st.nxt /\ p = st.pieces
  BY DEF SubstrInv
<1>2. PICK n : n = Substrs!strchr(st.nxt)
  OBVIOUS
<1>3. /\ n \in Nat
      /\ n = 0 => \A i \in h..Len(a) : a[i] # Sep
      /\ n # 0 => n \in h..Len(a) /\ a[n] = Sep /\ \A i \in h..(n - 1) : a[i] # Sep
  <2>1. st.arg \in Seq(Chars) /\ st.nxt \in Nat \ {0}
    BY <1>1
  <2> QED
    BY <1>1, <1>2, <2>1, StrchrFinds
<1>4. Len(a) \in Nat
  BY LenProperties
<1>5. PICK e \in Nat : (n = 0 => e = Len(a)) /\ (n # 0 => e = n - 1)
  <2>1. CASE n = 0
    BY <1>4, <2>1
  <2>2. CASE n # 0
    BY <1>3, <2>2
  <2> QED
    BY <2>1, <2>2
<1>6. h - 1 \in 0..e /\ e <= Len(a)
  <2>1. h \in 1..(Len(a) + 1)
    BY <1>1, <1>4 DEF SubstrInv, SplitAt
  <2> QED
    BY <1>3, <1>4, <1>5, <2>1
<1>7. PICK s : s = SubSeq(a, h, e)
  OBVIOUS
<1>8. s \in Seq({Char}) /\ s \in Seq(Chars)
  <2>1. \A i \in h..e : a[i] # Sep
    BY <1>3, <1>5
  <2>2. s \in Seq({Char})
    BY <1>6, <1>7, <2>1, PieceIsPlain
  <2>3. {Char} \subseteq Chars
    BY DEF Chars
  <2> QED
    BY <2>2, <2>3, SeqMonotonic
<1>9. p \in Seq(Seq(Chars))
  <2>1. Seq({Char}) \subseteq Seq(Chars)
    <3>1. {Char} \subseteq Chars
      BY DEF Chars
    <3> QED
      BY <3>1, SeqMonotonic
  <2> QED
    BY <2>1, SeqMonotonic
<1>10. PICK j \in Seq(Chars) : j = JoinedWith(p)
  BY <1>9, <1>8, JoinAppend
<1>11. j \o Between(p) = SubSeq(a, 1, h - 1)
  <2>1. CASE p = <<>> /\ h = 1
    <3>1. j = <<>> /\ Between(p) = <<>>
      BY <1>10, <2>1, JoinEmpty DEF Between
    <3>2. SubSeq(a, 1, h - 1) = <<>>
      BY <2>1, SubSeqEmpty
    <3> QED
      BY <3>1, <3>2, ConcatEmptySeq
  <2>2. CASE p # <<>> /\ SplitAt(a, j, h)
    <3>1. h - 1 \in 1..Len(a) /\ j = SubSeq(a, 1, (h - 1) - 1) /\ a[h - 1] = Sep
      BY <1>4, <2>2 DEF SplitAt
    <3>2. SubSeq(a, 1, h - 1) = SubSeq(a, 1, (h - 1) - 1) \o <<a[h - 1]>>
      <4>1. 1 \in 1..Len(a) /\ h - 1 \in 1..Len(a)
        BY <1>4, <3>1
      <4> QED
        BY <4>1, SubSeqRecursiveSecond
    <3> QED
      BY <2>2, <3>1, <3>2 DEF Between
  <2> QED
    BY <1>1, <1>10, <2>1, <2>2 DEF SubstrInv
<1>12. JoinedWith(Append(p, s)) = SubSeq(a, 1, e)
  <2>1. JoinedWith(Append(p, s)) = SubSeq(a, 1, h - 1) \o s
    BY <1>8, <1>9, <1>10, <1>11, JoinAppend
  <2>2. SubSeq(a, 1, h - 1) \o SubSeq(a, (h - 1) + 1, e) = SubSeq(a, 1, e)
    <3>1. 1 \in 1..(Len(a) + 1) /\ h - 1 \in (1 - 1)..Len(a) /\ e \in (h - 1)..Len(a)
      BY <1>4, <1>6
    <3> QED
      BY <3>1, ConcatAdjacentSubSeq
  <2>3. (h - 1) + 1 = h
    OBVIOUS
  <2> QED
    BY <1>7, <2>1, <2>2, <2>3
<1>13. SplitAt(a, JoinedWith(Append(p, s)), Substrs!After(n))
  <2>1. CASE n = 0
    <3>1. SubSeq(a, 1, Len(a)) = a
      BY SubSeqFull
    <3> QED
      BY <1>5, <1>12, <2>1, <3>1 DEF SplitAt, Substrs!After, Substrs!NoPos
  <2>2. CASE n # 0
    <3>1. Substrs!After(n) = n + 1
      BY <2>2 DEF Substrs!After, Substrs!NoPos
    <3>2. n + 1 \in 2..(Len(a) + 1) /\ (n + 1) - 2 = e /\ a[(n + 1) - 1] = Sep
      BY <1>3, <1>4, <1>5, <2>2
    <3> QED
      BY <1>3, <1>12, <3>1, <3>2 DEF SplitAt
  <2> QED
    BY <2>1, <2>2
<1> QED
  BY <1>1, <1>2, <1>5, <1>7, <1>8, <1>13

\* What is cut off is always the start of the argument.
LEMMA SplitIsPrefix ==
  ASSUME NEW a \in Seq(Chars), NEW j, NEW n \in Nat, SplitAt(a, j, n)
  PROVE  Substrs!IsPrefix(j, a)
<1>1. Len(a) \in Nat
  BY LenProperties
<1>2. CASE n = 0
  <2>1. j = SubSeq(a, 1, Len(a)) /\ Len(a) \in 0..Len(a)
    BY <1>1, <1>2, SubSeqFull DEF SplitAt
  <2> QED
    BY <2>1, StartIsPrefix
<1>3. CASE n # 0
  <2>1. j = SubSeq(a, 1, n - 2) /\ n - 2 \in 0..Len(a)
    BY <1>1, <1>3 DEF SplitAt
  <2> QED
    BY <2>1, StartIsPrefix
<1> QED
  BY <1>2, <1>3

\* A call of substr and the body of the loop.
LEMMA SubstrStep ==
  ASSUME Substrs!SubstrAssumption, SubstrInv, [Substrs!Next]_st
  PROVE  SubstrInv'
<1>1. CASE Substrs!substr
  <2>1. PICK n : n = Substrs!strchr(st.nxt)
    OBVIOUS
  <2>2. PICK e : e = IF n = 0 THEN Len(st.arg) ELSE n - 1
    OBVIOUS
  <2>3. PICK s : s = SubSeq(st.arg, st.nxt, e)
    OBVIOUS
  <2>4. PICK w : w = Substrs!After(n)
    OBVIOUS
  <2>5. /\ st.pc = "substr"
        /\ \/ st.nxt = 0 /\ st' = [st EXCEPT !.pc = "done"]
           \/ st.nxt # 0 /\ st' = [st EXCEPT !.nxt = w, !.str = s, !.heap = st.heap + 1, !.pc = "body"]
           \/ st.nxt # 0 /\ st' = [st EXCEPT !.nxt = w, !.oom = TRUE, !.pc = "done"]
    BY <1>1, <2>1, <2>2, <2>3, <2>4 DEF Substrs!substr, Substrs!NoPos
  <2>6. CASE st.nxt = 0 /\ st' = [st EXCEPT !.pc = "done"]
    <3>1. JoinedWith(st.pieces) = st.arg
      BY <2>5, <2>6 DEF SubstrInv, SplitAt
    <3>2. st' = [arg |-> st.arg, nxt |-> st.nxt, str |-> st.str, pieces |-> st.pieces,
                 oom |-> st.oom, heap |-> st.heap, pc |-> "done"]
      BY <2>6 DEF SubstrInv
    <3> QED
      BY <2>5, <3>1, <3>2 DEF SubstrInv
  <2>7. st.nxt # 0 => w \in Nat
    <3> SUFFICES ASSUME st.nxt # 0 PROVE w \in Nat
      OBVIOUS
    <3>1. st.nxt \in Nat \ {0} /\ st.arg \in Seq(Chars)
      BY DEF SubstrInv
    <3>2. n \in Nat
      BY <2>1, <3>1, StrchrFinds
    <3> QED
      BY <2>4, <3>2 DEF Substrs!After, Substrs!NoPos
  <2>8. CASE st.nxt # 0 /\ st' = [st EXCEPT !.nxt = w, !.str = s, !.heap = st.heap + 1, !.pc = "body"]
    <3>1. s \in Seq({Char}) /\ SplitAt(st.arg, JoinedWith(Append(st.pieces, s)), w)
      BY <2>1, <2>2, <2>3, <2>4, <2>5, <2>8, CutsPiece
    <3>2. st' = [arg |-> st.arg, nxt |-> w, str |-> s, pieces |-> st.pieces,
                 oom |-> st.oom, heap |-> st.heap + 1, pc |-> "body"]
      BY <2>8 DEF SubstrInv
    <3>a. st.heap = 0
      BY <2>5 DEF SubstrInv
    <3>3. SplitAt(st'.arg, JoinedWith(Append(st'.pieces, st'.str)), st'.nxt)
      BY <3>1, <3>2
    <3>4. st'.nxt \in Nat
      BY <2>7, <2>8, <3>2
    <3>5. st'.heap = 1 /\ st'.pc = "body"
      BY <3>2, <3>a
    <3> QED
      BY <3>1, <3>2, <3>3, <3>4, <3>5 DEF SubstrInv
  <2>9. CASE st.nxt # 0 /\ st' = [st EXCEPT !.nxt = w, !.oom = TRUE, !.pc = "done"]
    BY <2>5, <2>7, <2>9 DEF SubstrInv
  <2> QED
    BY <2>5, <2>6, <2>8, <2>9
<1>2. CASE Substrs!Body
  <2>1. PICK p : p = Append(st.pieces, st.str)
    OBVIOUS
  <2>2. st.pc = "body" /\ st' = [st EXCEPT !.pc = "substr", !.pieces = p, !.heap = st.heap - 1]
    BY <1>2, <2>1 DEF Substrs!Body
  <2>3. p \in Seq(Seq({Char})) /\ p # <<>>
    BY <2>1, AppendProperties DEF SubstrInv
  <2>4. SplitAt(st.arg, JoinedWith(p), st.nxt)
    BY <2>1, <2>2 DEF SubstrInv
  <2>5. Substrs!IsPrefix(JoinedWith(p), st.arg)
    BY <2>4, SplitIsPrefix DEF SubstrInv
  <2>6. st' = [arg |-> st.arg, nxt |-> st.nxt, str |-> st.str, pieces |-> p,
               oom |-> st.oom, heap |-> st.heap - 1, pc |-> "substr"]
    BY <2>2 DEF SubstrInv
  <2>7. st.heap = 1
    BY <2>2 DEF SubstrInv
  <2> QED
    BY <2>3, <2>4, <2>5, <2>6, <2>7 DEF SubstrInv
<1>3. CASE UNCHANGED st
  BY <1>3 DEF SubstrInv
<1> QED
  BY <1>1, <1>2, <1>3 DEF Substrs!Next

\* Nothing has been cut off at first.
LEMMA SubstrStart == ASSUME Substrs!SubstrAssumption, Substrs!Init PROVE SubstrInv
<1>1. PICK arg \in UNION {[1..n -> {Sep, Char}] : n \in 0..MaxStr} :
        st = [ arg |-> arg, nxt |-> 1, str |-> <<>>, pieces |-> <<>>, oom |-> FALSE, heap |-> 0, pc |-> "substr" ]
  BY DEF Substrs!Init
<1>2. arg \in Seq(Chars)
  BY SeqDef DEF Chars, Substrs!SubstrAssumption
<1>3. <<>> \in Seq({Char}) /\ <<>> \in Seq(Seq({Char}))
  BY EmptySeq
<1>4. Substrs!IsPrefix(JoinedWith(<<>>), arg)
  <2>1. JoinedWith(<<>>) = SubSeq(arg, 1, 0) /\ 0 \in 0..Len(arg)
    <3>1. SubSeq(arg, 1, 0) = <<>>
      BY SubSeqEmpty
    <3>2. Len(arg) \in Nat
      BY <1>2, LenProperties
    <3>3. 0 \in 0..Len(arg)
      BY <3>2
    <3> QED
      BY <3>1, <3>3, JoinEmpty
  <2> QED
    BY <1>2, <2>1, StartIsPrefix
<1> QED
  BY <1>1, <1>2, <1>3, <1>4 DEF SubstrInv

\* The invariant says more than SplitExact.
LEMMA SubstrImplies == SubstrInv => Substrs!SplitExact
<1> SUFFICES ASSUME SubstrInv PROVE Substrs!SplitExact
  OBVIOUS
<1>1. Substrs!Joined = JoinedWith(st.pieces)
  BY DEF Substrs!Joined, JoinedWith
<1>2. \A i \in DOMAIN st.pieces : \A c \in DOMAIN st.pieces[i] : st.pieces[i][c] = Char
  <2> SUFFICES ASSUME NEW i \in DOMAIN st.pieces, NEW c \in DOMAIN st.pieces[i] PROVE st.pieces[i][c] \in {Char}
    OBVIOUS
  <2>1. PICK p \in Seq(Seq({Char})) : p = st.pieces
    BY DEF SubstrInv
  <2>2. i \in 1..Len(p)
    BY <2>1, LenProperties
  <2>3. PICK s \in Seq({Char}) : s = p[i]
    BY <2>2, ElementOfSeq
  <2>4. c \in 1..Len(s)
    BY <2>1, <2>3, LenProperties
  <2> QED
    BY <2>1, <2>3, <2>4, ElementOfSeq
<1> QED
  BY <1>1, <1>2 DEF SubstrInv, Substrs!SplitExact

SplitInv == prog = "substr" => SubstrInv

\* SplitExact: the pieces iter_substr hands out, put together again with a
\* separator between any two, are the string, whatever it is and wherever
\* its separators are; when strndup fails they are the start of it.
THEOREM SplitsAtSeparators == ProgramSpec => []SplitExact
<1>1. ProgramInit => SplitInv
  BY ProgramsAssumption, SubstrStart DEF ProgramInit, ProgramsAssumption, SplitInv
<1>2. SplitInv /\ [ProgramNext]_<<prog, st>> => SplitInv'
  <2>1. [ProgramNext]_<<prog, st>> => prog' = prog /\ (prog = "substr" => [Substrs!Next]_st)
    BY DEF ProgramNext, Only
  <2> QED
    BY <2>1, ProgramsAssumption, SubstrStep DEF ProgramsAssumption, SplitInv
<1>3. SplitInv => SplitExact
  BY SubstrImplies DEF SplitInv, SplitExact
<1> QED
  BY <1>1, <1>2, <1>3, PTL DEF ProgramSpec

-----------------------------------------------------------------------------
(* lib/printlog.c                                                          *)

Cell == ({"row", "hex", "char"} \X Nat) \cup {<<"blank">>}
Funs == {"dump", "hexdump"}
Label(o) == <<"row", o>>
Hex(o) == <<"hex", o>>
Blank == <<"blank">>
Plain(o) == <<"char", o>>

\* The row at offset o of a dump of size bytes by fun, as RowOf has it.
RowWidth(size, o) == IF size - o < Row THEN size - o ELSE Row
RowAt(fun, size, o) ==
  <<<<"row", o>>>> \o [k \in 1..RowWidth(size, o) |-> <<"hex", o + k - 1>>]
  \o IF fun = "dump" THEN <<>>
     ELSE [k \in 1..(Row - RowWidth(size, o)) |-> <<"blank">>]
          \o [k \in 1..RowWidth(size, o) |-> <<"char", o + k - 1>>]

\* The cells of a row of width w at o.
IsRow(fun, o, w, r) ==
  /\ r \in Seq(Cell) /\ Len(r) = IF fun = "dump" THEN 1 + w ELSE 1 + Row + w
  /\ r[1] = Label(o)
  /\ \A c \in 1..w : r[1 + c] = Hex(o + c - 1)
  /\ fun = "hexdump" => /\ \A c \in (w + 1)..Row : r[1 + c] = Blank
                        /\ \A c \in 1..w : r[1 + Row + c] = Plain(o + c - 1)

\* A function on 1..n is a sequence.
LEMMA SeqOfFun == \A S : \A n \in Nat : \A f \in [1..n -> S] : f \in Seq(S) /\ Len(f) = n
OBVIOUS

\* One element is a sequence.
LEMMA SeqOfOne == \A S : \A x \in S : <<x>> \in Seq(S) /\ Len(<<x>>) = 1 /\ <<x>>[1] = x
OBVIOUS

\* r is a, of length m, before b, of length n; and with c, of length l, behind.
Joined2(r, a, b, m, n) ==
  /\ Len(r) = m + n
  /\ \A i \in 1..m : r[i] = a[i]
  /\ \A i \in 1..n : r[m + i] = b[i]
Joined3(r, a, b, c, m, n, l) ==
  /\ Len(r) = m + n + l
  /\ \A i \in 1..m : r[i] = a[i]
  /\ \A i \in 1..n : r[m + i] = b[i]
  /\ \A i \in 1..l : r[m + n + i] = c[i]

\* Two sequences in a row.
LEMMA Concat2 ==
  \A S : \A a, b \in Seq(S) : a \o b \in Seq(S) /\ Joined2(a \o b, a, b, Len(a), Len(b))
BY DEF Joined2

\* Three sequences in a row.
LEMMA Concat3 ==
  \A S : \A a, b, c \in Seq(S) :
    a \o b \o c \in Seq(S) /\ Joined3(a \o b \o c, a, b, c, Len(a), Len(b), Len(c))
BY DEF Joined3

\* What a row consists of.
LEMMA RowCells ==
  ASSUME Row \in Nat \ {0}, NEW fun \in Funs, NEW size \in Nat, NEW o \in Nat, o < size
  PROVE  RowWidth(size, o) \in 1..Row /\ IsRow(fun, o, RowWidth(size, o), RowAt(fun, size, o))
<1>1. PICK w \in 1..Row : w = RowWidth(size, o)
  BY DEF RowWidth
<1>2. PICK a : a = <<Label(o)>>
  OBVIOUS
<1>3. PICK h : h = [k \in 1..w |-> Hex(o + k - 1)]
  OBVIOUS
<1>4. PICK b : b = [k \in 1..(Row - w) |-> Blank]
  OBVIOUS
<1>5. PICK t : t = [k \in 1..w |-> Plain(o + k - 1)]
  OBVIOUS
<1>a. a \in Seq(Cell) /\ Len(a) = 1 /\ a[1] = Label(o)
  <2>1. Label(o) \in Cell
    BY DEF Cell, Label
  <2> QED
    BY <1>2, <2>1, SeqOfOne
<1>h. h \in Seq(Cell) /\ Len(h) = w /\ \A k \in 1..w : h[k] = Hex(o + k - 1)
  <2>1. h \in [1..w -> Cell]
    BY <1>3 DEF Cell, Hex
  <2>2. w \in Nat
    OBVIOUS
  <2>3. h \in Seq(Cell) /\ Len(h) = w
    BY <2>1, <2>2, SeqOfFun
  <2>4. \A k \in 1..w : h[k] = Hex(o + k - 1)
    BY <1>3
  <2> QED
    BY <2>3, <2>4
<1>b. b \in Seq(Cell) /\ Len(b) = Row - w /\ \A k \in 1..(Row - w) : b[k] = Blank
  <2>1. b \in [1..(Row - w) -> Cell] /\ Row - w \in Nat
    BY <1>4 DEF Cell, Blank
  <2> QED
    BY <1>4, <2>1, SeqOfFun
<1>t. t \in Seq(Cell) /\ Len(t) = w /\ \A k \in 1..w : t[k] = Plain(o + k - 1)
  <2>1. t \in [1..w -> Cell]
    BY <1>5 DEF Cell, Plain
  <2>2. w \in Nat
    OBVIOUS
  <2>3. t \in Seq(Cell) /\ Len(t) = w
    BY <2>1, <2>2, SeqOfFun
  <2>4. \A k \in 1..w : t[k] = Plain(o + k - 1)
    BY <1>5
  <2> QED
    BY <2>3, <2>4
<1>6. CASE fun = "dump"
  <2>1. RowAt(fun, size, o) = a \o h \o <<>>
    BY <1>1, <1>2, <1>3, <1>6 DEF RowAt, Label, Hex, Blank, Plain
  <2>2. PICK r : r = a \o h /\ r \in Seq(Cell) /\ r = RowAt(fun, size, o)
    BY <1>a, <1>h, <2>1, ConcatProperties, ConcatEmptySeq
  <2>3. Len(r) = 1 + w /\ (\A i \in 1..1 : r[i] = a[i]) /\ \A i \in 1..w : r[1 + i] = h[i]
    <3>1. Joined2(r, a, h, 1, w)
      BY <1>a, <1>h, <2>2, Concat2
    <3> QED
      BY <3>1 DEF Joined2
  <2>4. r[1] = Label(o) /\ \A c \in 1..w : r[1 + c] = Hex(o + c - 1)
    <3>1. 1 \in 1..1
      OBVIOUS
    <3> QED
      BY <1>a, <1>h, <2>3, <3>1
  <2> QED
    BY <1>1, <1>6, <2>2, <2>3, <2>4 DEF IsRow
<1>7. CASE fun = "hexdump"
  <2>1. PICK x \in Seq(Cell) : x = b \o t
    BY <1>b, <1>t, ConcatProperties
  <2>2. Len(x) = Row /\ (\A k \in 1..(Row - w) : x[k] = Blank)
        /\ \A k \in 1..w : x[(Row - w) + k] = Plain(o + k - 1)
    <3>1. Row - w \in Nat /\ w \in Nat
      OBVIOUS
    <3>2. /\ Len(x) = (Row - w) + w /\ (\A i \in 1..(Row - w) : x[i] = b[i])
          /\ \A i \in 1..w : x[(Row - w) + i] = t[i]
      <4>1. Joined2(x, b, t, Row - w, w)
        BY <1>b, <1>t, <2>1, Concat2
      <4> QED
        BY <4>1 DEF Joined2
    <3>3. Len(x) = Row
      BY <3>2
    <3> QED
      BY <1>b, <1>t, <3>2, <3>3
  <2>3. RowAt(fun, size, o) = a \o h \o x
    BY <1>1, <1>2, <1>3, <1>4, <1>5, <1>7, <2>1 DEF RowAt, Label, Hex, Blank, Plain
  <2>4. PICK r : r = RowAt(fun, size, o)
    OBVIOUS
  <2>a. /\ r \in Seq(Cell) /\ Len(r) = 1 + w + Row
        /\ \A i \in 1..1 : r[i] = a[i]
        /\ \A i \in 1..w : r[1 + i] = h[i]
        /\ \A i \in 1..Row : r[1 + w + i] = x[i]
    <3>1. r \in Seq(Cell) /\ Joined3(r, a, h, x, 1, w, Row)
      <4>1. a \in Seq(Cell) /\ h \in Seq(Cell) /\ x \in Seq(Cell)
        BY <1>a, <1>h, <2>1
      <4>2. a \o h \o x \in Seq(Cell) /\ Joined3(a \o h \o x, a, h, x, Len(a), Len(h), Len(x))
        BY <4>1, Concat3, Zenon
      <4>3. Len(a) = 1 /\ Len(h) = w /\ Len(x) = Row /\ r = a \o h \o x
        BY <1>a, <1>h, <2>2, <2>3, <2>4
      <4> QED
        BY <4>2, <4>3
    <3> QED
      BY <3>1 DEF Joined3
  <2>5. r[1] = Label(o) /\ \A c \in 1..w : r[1 + c] = Hex(o + c - 1)
    <3>1. 1 \in 1..1
      OBVIOUS
    <3> QED
      BY <1>a, <1>h, <2>a, <3>1
  <2>b. Len(r) = 1 + Row + w
    BY <2>a
  <2>6. ASSUME NEW c \in (w + 1)..Row PROVE r[1 + c] = Blank
    <3>1. c - w \in 1..Row /\ c - w \in 1..(Row - w) /\ 1 + w + (c - w) = 1 + c
      OBVIOUS
    <3> QED
      BY <2>2, <2>a, <3>1
  <2>7. ASSUME NEW c \in 1..w PROVE r[1 + Row + c] = Plain(o + c - 1)
    <3>1. (Row - w) + c \in 1..Row /\ 1 + w + ((Row - w) + c) = 1 + Row + c
      OBVIOUS
    <3> QED
      BY <2>2, <2>a, <3>1
  <2> QED
    BY <1>1, <1>7, <2>a, <2>b, <2>4, <2>5, <2>6, <2>7 DEF IsRow
<1> QED
  BY <1>6, <1>7 DEF Funs

\* The number of rows, the rows, and the cells of the first k rows.
RowCount(size) == (size + Row - 1) \div Row
Rows(fun, size, k) == [r \in 1..k |-> RowAt(fun, size, (r - 1) * Row)]
Dumped(fun, size, k) == Substrs!FlattenSeq(Rows(fun, size, k))

\* A row starts inside the buffer exactly if it is one of the rows.
LEMMA RowStarts ==
  ASSUME Row \in Nat \ {0}
  PROVE  \A size, k \in Nat : RowCount(size) \in Nat /\ (k * Row < size <=> k < RowCount(size))
<1> SUFFICES ASSUME NEW size \in Nat, NEW k \in Nat
             PROVE  RowCount(size) \in Nat /\ (k * Row < size <=> k < RowCount(size))
  OBVIOUS
<1>1. PICK n \in Nat, r \in 0..(Row - 1) : n = RowCount(size) /\ n * Row + r = size + Row - 1
  <2>1. size + Row - 1 \in Nat
    OBVIOUS
  <2> QED
    BY <2>1, DivMod DEF RowCount
<1>2. ASSUME k >= n, k * Row < size PROVE FALSE
  <2>1. (k - n) * Row >= 0
    BY <1>2
  <2>2. (k - n) * Row = k * Row - n * Row
    OBVIOUS
  <2> QED
    BY <1>1, <1>2, <2>1, <2>2
<1>3. ASSUME k < n, k * Row >= size PROVE FALSE
  <2>1. PICK d \in Nat : d = n - k - 1
    BY <1>3
  <2>2. d * Row >= 0 /\ n = k + d + 1
    BY <2>1
  <2>3. n * Row = k * Row + d * Row + Row
    BY <2>2
  <2> QED
    BY <1>1, <1>3, <2>2, <2>3
<1> QED
  BY <1>1, <1>2, <1>3

\* One more row.
LEMMA RowsAppend ==
  ASSUME Row \in Nat \ {0}
  PROVE  \A fun \in Funs, size, k \in Nat :
           k <= RowCount(size) => Rows(fun, size, k) \in Seq(Seq(Cell)) /\ Len(Rows(fun, size, k)) = k
<1> SUFFICES ASSUME NEW fun \in Funs, NEW size \in Nat, NEW k \in Nat, k <= RowCount(size)
             PROVE  Rows(fun, size, k) \in Seq(Seq(Cell)) /\ Len(Rows(fun, size, k)) = k
  OBVIOUS
<1>1. RowCount(size) \in Nat
  BY RowStarts
<1>2. ASSUME NEW r \in 1..k PROVE RowAt(fun, size, (r - 1) * Row) \in Seq(Cell)
  <2>1. PICK j \in Nat : j = r - 1 /\ j < RowCount(size)
    BY <1>1
  <2>2. j * Row \in Nat /\ j * Row < size
    BY <2>1, RowStarts
  <2>3. IsRow(fun, j * Row, RowWidth(size, j * Row), RowAt(fun, size, j * Row))
    BY <2>2, RowCells
  <2> QED
    BY <2>1, <2>3 DEF IsRow
<1>3. Rows(fun, size, k) \in [1..k -> Seq(Cell)]
  BY <1>2 DEF Rows
<1> QED
  BY <1>3, SeqOfFun

\* The first rows grow by a row.
LEMMA DumpedRow ==
  ASSUME Row \in Nat \ {0}
  PROVE  \A fun \in Funs, size, k \in Nat :
           /\ k <= RowCount(size) => Dumped(fun, size, k) \in Seq(Cell)
           /\ k < RowCount(size) =>
                Dumped(fun, size, k + 1) = Dumped(fun, size, k) \o RowAt(fun, size, k * Row)
<1> SUFFICES ASSUME NEW fun \in Funs, NEW size \in Nat, NEW k \in Nat
             PROVE  /\ k <= RowCount(size) => Dumped(fun, size, k) \in Seq(Cell)
                    /\ k < RowCount(size) =>
                         Dumped(fun, size, k + 1) = Dumped(fun, size, k) \o RowAt(fun, size, k * Row)
  OBVIOUS
<1>0. RowCount(size) \in Nat
  BY RowStarts
<1> SUFFICES ASSUME k <= RowCount(size)
             PROVE  /\ Dumped(fun, size, k) \in Seq(Cell)
                    /\ k < RowCount(size) =>
                         Dumped(fun, size, k + 1) = Dumped(fun, size, k) \o RowAt(fun, size, k * Row)
  BY <1>0
<1>1. PICK p \in Seq(Seq(Cell)) : p = Rows(fun, size, k) /\ Len(p) = k
  BY RowsAppend
<1>2. Dumped(fun, size, k) \in Seq(Cell)
  <2>1. <<>> \in Seq(Cell)
    OBVIOUS
  <2> QED
    BY <1>1, <2>1, FlattenAppend DEF Dumped
<1>3. ASSUME k < RowCount(size)
      PROVE  Dumped(fun, size, k + 1) = Dumped(fun, size, k) \o RowAt(fun, size, k * Row)
  <2>1. PICK q : q = RowAt(fun, size, k * Row)
    OBVIOUS
  <2>2. q \in Seq(Cell)
    <3>1. k * Row \in Nat /\ k * Row < size
      BY <1>3, RowStarts
    <3>2. IsRow(fun, k * Row, RowWidth(size, k * Row), RowAt(fun, size, k * Row))
      BY <3>1, RowCells
    <3> QED
      BY <2>1, <3>2 DEF IsRow
  <2>3. Rows(fun, size, k + 1) = Append(p, q)
    <3>1. k + 1 \in Nat /\ k + 1 <= RowCount(size)
      BY <1>3, RowStarts
    <3>2. PICK t \in Seq(Seq(Cell)) : t = Rows(fun, size, k + 1) /\ Len(t) = k + 1
      BY <3>1, RowsAppend
    <3>3. \A i \in 1..k : t[i] = p[i]
      BY <1>1, <3>2 DEF Rows
    <3>4. t[k + 1] = q
      <4>1. k + 1 \in 1..(k + 1) /\ (k + 1) - 1 = k
        OBVIOUS
      <4> QED
        BY <2>1, <3>2, <4>1 DEF Rows
    <3>5. t = Append(p, q)
      <4>1. \A Q : \A a, u \in Seq(Q), b \in Q :
              Len(u) = Len(a) + 1 /\ u[Len(a) + 1] = b /\ (\A i \in 1..Len(a) : u[i] = a[i])
              => u = Append(a, b)
        OBVIOUS
      <4> QED
        BY <1>1, <2>2, <3>2, <3>3, <3>4, <4>1
    <3> QED
      BY <3>2, <3>5
  <2>4. Substrs!FlattenSeq(Append(p, q)) = Substrs!FlattenSeq(p) \o q
    BY <2>2, FlattenAppend
  <2> QED
    BY <1>1, <2>1, <2>3, <2>4 DEF Dumped
<1> QED
  BY <1>2, <1>3

\* s begins t.
Begins(s, t) == \E u \in Seq(Cell) : t = s \o u

\* What begins a sequence is a prefix of it.
LEMMA BeginsIsPrefix ==
  ASSUME NEW s \in Seq(Cell), NEW t, Begins(s, t)
  PROVE  Dumps!IsPrefix(s, t)
<1>1. PICK u \in Seq(Cell) : t = s \o u
  BY DEF Begins
<1>2. t \in Seq(Cell) /\ Len(t) = Len(s) + Len(u) /\ \A i \in 1..Len(s) : t[i] = s[i]
  BY <1>1, ConcatProperties
<1>3. Len(s) \in Nat /\ Len(u) \in Nat
  OBVIOUS
<1>4. SubSeq(s, 1, Len(s)) = SubSeq(t, 1, Len(s))
  BY <1>2, <1>3
<1> QED
  BY <1>2, <1>3, <1>4 DEF Dumps!IsPrefix

\* The first rows begin the dump.
LEMMA DumpedBegins ==
  ASSUME Row \in Nat \ {0}, NEW fun \in Funs, NEW size \in Nat, NEW k \in Nat, k <= RowCount(size)
  PROVE  Begins(Dumped(fun, size, k), Dumped(fun, size, RowCount(size)))
<1>1. PICK n \in Nat : n = RowCount(size)
  BY RowStarts
<1> DEFINE S == {j \in k..n : ~ Begins(Dumped(fun, size, k), Dumped(fun, size, j))}
<1>2. SUFFICES ASSUME S # {} PROVE FALSE
  BY <1>1
<1>3. S \in SUBSET Nat
  OBVIOUS
<1>4. PICK j \in S : \A y \in S : j <= y
  BY <1>2, <1>3, Least
<1>5. PICK s \in Seq(Cell) : s = Dumped(fun, size, k)
  BY DumpedRow
<1>6. j # k
  <2>1. s = s \o <<>> /\ <<>> \in Seq(Cell)
    BY ConcatEmptySeq
  <2>2. Begins(s, s)
    BY <2>1 DEF Begins
  <2> QED
    BY <1>4, <1>5, <2>2
<1>7. PICK i \in k..n : i = j - 1 /\ i \notin S /\ i + 1 = j
  BY <1>4, <1>6
<1>8. PICK u \in Seq(Cell) : Dumped(fun, size, i) = s \o u
  BY <1>5, <1>7 DEF Begins
<1>9. PICK q \in Seq(Cell) : Dumped(fun, size, j) = Dumped(fun, size, i) \o q
  <2>1. i \in Nat /\ i < RowCount(size)
    BY <1>1, <1>4, <1>7
  <2>2. i * Row \in Nat /\ i * Row < size
    BY <2>1, RowStarts
  <2>3. IsRow(fun, i * Row, RowWidth(size, i * Row), RowAt(fun, size, i * Row))
    BY <2>2, RowCells
  <2>4. RowAt(fun, size, i * Row) \in Seq(Cell)
    BY <2>3 DEF IsRow
  <2>5. Dumped(fun, size, i + 1) = Dumped(fun, size, i) \o RowAt(fun, size, i * Row)
    BY <2>1, DumpedRow
  <2> QED
    BY <1>7, <2>4, <2>5
<1>10. Dumped(fun, size, j) = s \o (u \o q) /\ u \o q \in Seq(Cell)
  <2>1. \A a, b, c \in Seq(Cell) : (a \o b) \o c = a \o (b \o c) /\ b \o c \in Seq(Cell)
    OBVIOUS
  <2> QED
    BY <1>8, <1>9, <2>1
<1> QED
  BY <1>4, <1>5, <1>10 DEF Begins

\* The first k rows and the first m cells of the row behind them.
Printed(fun, size, k, m, out) ==
  out = Dumped(fun, size, k) \o SubSeq(RowAt(fun, size, k * Row), 1, m)
RowLen(fun, size, o) ==
  IF fun = "dump" THEN 1 + RowWidth(size, o) ELSE 1 + Row + RowWidth(size, o)

\* A row is printed cell by cell, and is then one of the rows.
LEMMA PrintedCell ==
  ASSUME Row \in Nat \ {0}, NEW fun \in Funs, NEW size \in Nat, NEW k \in Nat, k * Row < size
  PROVE  LET l == RowLen(fun, size, k * Row)
             r == RowAt(fun, size, k * Row)
         IN  /\ Printed(fun, size, k, 1, Append(Dumped(fun, size, k), r[1]))
             /\ \A out : \A m \in 1..(l - 1) :
                  Printed(fun, size, k, m, out) => Printed(fun, size, k, m + 1, Append(out, r[m + 1]))
             /\ \A out : Printed(fun, size, k, l, out) => out = Dumped(fun, size, k + 1)
             /\ \A out : \A m \in 1..l :
                  Printed(fun, size, k, m, out) =>
                    out \in Seq(Cell) /\ Begins(out, Dumped(fun, size, RowCount(size)))
<1>1. PICK l : l = RowLen(fun, size, k * Row)
  OBVIOUS
<1>2. PICK r : r = RowAt(fun, size, k * Row)
  OBVIOUS
<1>3. r \in Seq(Cell) /\ l \in Nat \ {0} /\ Len(r) = l
  <2>1. PICK o \in Nat : o = k * Row /\ o < size
    OBVIOUS
  <2>2. RowWidth(size, o) \in 1..Row /\ IsRow(fun, o, RowWidth(size, o), RowAt(fun, size, o))
    BY <2>1, RowCells
  <2> QED
    BY <1>1, <1>2, <2>1, <2>2 DEF IsRow, RowLen
<1>4. k < RowCount(size) /\ RowCount(size) \in Nat
  BY RowStarts
<1>5. PICK d \in Seq(Cell) : d = Dumped(fun, size, k)
  BY <1>4, DumpedRow
<1>6. Dumped(fun, size, k + 1) = d \o r
  BY <1>2, <1>4, <1>5, DumpedRow
<1>7. \A m \in 0..(l - 1) : d \o SubSeq(r, 1, m + 1) = Append(d \o SubSeq(r, 1, m), r[m + 1])
  <2> SUFFICES ASSUME NEW m \in 0..(l - 1)
               PROVE  d \o SubSeq(r, 1, m + 1) = Append(d \o SubSeq(r, 1, m), r[m + 1])
    OBVIOUS
  <2>1. PICK s \in Seq(Cell) : s = SubSeq(r, 1, m)
    <3>1. m <= Len(r) /\ SubSeq(r, 1, m) \in Seq(Cell)
      BY <1>3
    <3> QED
      BY <3>1
  <2>2. r[m + 1] \in Cell
    BY <1>3, ElementOfSeq
  <2>3. SubSeq(r, 1, m + 1) = Append(s, r[m + 1])
    BY <1>3, <2>1
  <2>4. \A a, b \in Seq(Cell) : \A c \in Cell : a \o Append(b, c) = Append(a \o b, c)
    OBVIOUS
  <2> QED
    BY <2>1, <2>2, <2>3, <2>4
<1>8. SubSeq(r, 1, 0) = <<>> /\ d \o <<>> = d /\ SubSeq(r, 1, l) = r
  BY <1>3, ConcatEmptySeq
<1>a. Printed(fun, size, k, 1, Append(d, r[1]))
  <2>1. 0 \in 0..(l - 1) /\ 0 + 1 = 1
    BY <1>3
  <2>2. d \o SubSeq(r, 1, 1) = Append(d \o SubSeq(r, 1, 0), r[1])
    BY <1>7, <2>1
  <2> QED
    BY <1>2, <1>5, <1>8, <2>2 DEF Printed
<1>b. ASSUME NEW out, NEW m \in 1..(l - 1), Printed(fun, size, k, m, out)
      PROVE  Printed(fun, size, k, m + 1, Append(out, r[m + 1]))
  <2>1. m \in 0..(l - 1)
    BY <1>3
  <2> QED
    BY <1>2, <1>5, <1>7, <1>b, <2>1 DEF Printed
<1>c. ASSUME NEW out, Printed(fun, size, k, l, out) PROVE out = Dumped(fun, size, k + 1)
  BY <1>2, <1>5, <1>6, <1>8, <1>c DEF Printed
<1>d. ASSUME NEW out, NEW m \in 1..l, Printed(fun, size, k, m, out)
      PROVE  out \in Seq(Cell) /\ Begins(out, Dumped(fun, size, RowCount(size)))
  <2>1. PICK s, t : s = SubSeq(r, 1, m) /\ t = SubSeq(r, m + 1, l)
    OBVIOUS
  <2>2. s \in Seq(Cell) /\ t \in Seq(Cell) /\ r = s \o t
    BY <1>3, <2>1
  <2>3. out = d \o s
    BY <1>2, <1>5, <1>d, <2>1 DEF Printed
  <2>4. k + 1 \in Nat /\ k + 1 <= RowCount(size)
    BY <1>4
  <2>5. PICK u \in Seq(Cell) : Dumped(fun, size, RowCount(size)) = (d \o r) \o u
    <3>1. Begins(Dumped(fun, size, k + 1), Dumped(fun, size, RowCount(size)))
      BY <2>4, DumpedBegins
    <3> QED
      BY <1>6, <3>1 DEF Begins
  <2>6. \A a, b, c \in Seq(Cell) : (a \o b) \o c = a \o (b \o c) /\ a \o b \in Seq(Cell)
    OBVIOUS
  <2>7. (d \o (s \o t)) \o u = (d \o s) \o (t \o u) /\ t \o u \in Seq(Cell) /\ d \o s \in Seq(Cell)
    <3>1. d \o (s \o t) = (d \o s) \o t /\ d \o s \in Seq(Cell) /\ t \o u \in Seq(Cell)
      BY <2>2, <2>6
    <3>2. ((d \o s) \o t) \o u = (d \o s) \o (t \o u)
      <4>1. PICK e \in Seq(Cell) : e = d \o s
        BY <3>1
      <4>2. (e \o t) \o u = e \o (t \o u)
        BY <2>2, <2>6, Zenon
      <4> QED
        BY <4>1, <4>2
    <3> QED
      BY <3>1, <3>2
  <2> QED
    BY <2>2, <2>3, <2>5, <2>7 DEF Begins
<1> QED
  BY <1>1, <1>2, <1>5, <1>a, <1>b, <1>c, <1>d

\* What the cell is that comes next.
LEMMA PrintedKinds ==
  ASSUME Row \in Nat \ {0}, NEW fun \in Funs, NEW size \in Nat, NEW k \in Nat, NEW o \in Nat,
         o = k * Row, o < size, NEW out
  PROVE  LET w == RowWidth(size, o)
         IN  /\ Printed(fun, size, k, 1, Append(Dumped(fun, size, k), Label(o)))
             /\ \A i \in 0..(w - 1) : Printed(fun, size, k, 1 + i, out) =>
                  Printed(fun, size, k, 1 + (i + 1), Append(out, Hex(o + i)))
             /\ fun = "hexdump" => \A i \in w..(Row - 1) : Printed(fun, size, k, 1 + i, out) =>
                  Printed(fun, size, k, 1 + (i + 1), Append(out, Blank))
             /\ fun = "hexdump" => \A i \in 0..(w - 1) : Printed(fun, size, k, 1 + Row + i, out) =>
                  Printed(fun, size, k, 1 + Row + (i + 1), Append(out, Plain(o + i)))
<1>1. PICK w \in 1..Row : w = RowWidth(size, o)
  BY RowCells
<1>2. PICK r : r = RowAt(fun, size, o)
  OBVIOUS
<1>3. IsRow(fun, o, w, r)
  BY <1>1, <1>2, RowCells
<1>4. PICK l \in Nat : l = RowLen(fun, size, o) /\ l = IF fun = "dump" THEN 1 + w ELSE 1 + Row + w
  BY <1>1 DEF RowLen
<1>5. /\ Printed(fun, size, k, 1, Append(Dumped(fun, size, k), r[1]))
      /\ \A m \in 1..(l - 1) :
           Printed(fun, size, k, m, out) => Printed(fun, size, k, m + 1, Append(out, r[m + 1]))
  BY <1>2, <1>4, PrintedCell
<1>6. Printed(fun, size, k, 1, Append(Dumped(fun, size, k), Label(o)))
  BY <1>3, <1>5 DEF IsRow
<1>7. ASSUME NEW i \in 0..(w - 1), Printed(fun, size, k, 1 + i, out)
      PROVE  Printed(fun, size, k, 1 + (i + 1), Append(out, Hex(o + i)))
  <2>1. 1 + i \in 1..(l - 1) /\ (1 + i) + 1 = 1 + (i + 1) /\ i + 1 \in 1..w /\ o + (i + 1) - 1 = o + i
    BY <1>4
  <2>2. r[1 + (i + 1)] = Hex(o + i)
    BY <1>3, <2>1 DEF IsRow
  <2> QED
    BY <1>5, <1>7, <2>1, <2>2
<1>8. ASSUME fun = "hexdump", NEW i \in w..(Row - 1), Printed(fun, size, k, 1 + i, out)
      PROVE  Printed(fun, size, k, 1 + (i + 1), Append(out, Blank))
  <2>1. 1 + i \in 1..(l - 1) /\ (1 + i) + 1 = 1 + (i + 1) /\ i + 1 \in (w + 1)..Row
    BY <1>4, <1>8
  <2>2. r[1 + (i + 1)] = Blank
    BY <1>3, <1>8, <2>1 DEF IsRow
  <2> QED
    BY <1>5, <1>8, <2>1, <2>2
<1>9. ASSUME fun = "hexdump", NEW i \in 0..(w - 1), Printed(fun, size, k, 1 + Row + i, out)
      PROVE  Printed(fun, size, k, 1 + Row + (i + 1), Append(out, Plain(o + i)))
  <2>1. /\ 1 + Row + i \in 1..(l - 1) /\ (1 + Row + i) + 1 = 1 + Row + (i + 1) /\ i + 1 \in 1..w
        /\ o + (i + 1) - 1 = o + i
    BY <1>4, <1>9
  <2>2. r[1 + Row + (i + 1)] = Plain(o + i)
    BY <1>3, <1>9, <2>1 DEF IsRow
  <2> QED
    BY <1>5, <1>9, <2>1, <2>2
<1> QED
  BY <1>1, <1>6, <1>7, <1>8, <1>9

\* The bytes from o on.
Rest(size, o) == IF o < size THEN size - o ELSE 0
Upto(n, w) == IF n > w THEN w ELSE n

DumpType ==
  /\ st = [ fun |-> st.fun, size |-> st.size, pc |-> st.pc, i |-> st.i, hlen |-> st.hlen,
            tlen |-> st.tlen, last |-> st.last, out |-> st.out ]
  /\ st.fun \in Funs /\ st.size \in Nat /\ st.pc \in {"while", "hex", "chars", "done"}
  /\ st.i \in 0..Row /\ st.hlen \in Nat /\ st.tlen \in Nat /\ st.last \in Int /\ st.last <= st.size

\* k rows are out; the row at o = k * Row is being printed in hex or chars.
DumpAt(k, o) ==
  /\ o = k * Row
  /\ st.pc \in {"while", "done"} =>
       /\ k <= RowCount(st.size) /\ st.out = Dumped(st.fun, st.size, k)
       /\ st.hlen = Rest(st.size, o) /\ (st.fun = "hexdump" => st.tlen = st.hlen)
  /\ st.pc = "done" => st.hlen = 0
  /\ st.pc = "hex" =>
       /\ o < st.size /\ st.hlen = Rest(st.size, o + st.i) /\ (st.fun = "hexdump" => st.tlen = st.size - o)
       /\ st.fun = "dump" => Printed(st.fun, st.size, k, 1 + Upto(st.i, RowWidth(st.size, o)), st.out)
       /\ st.fun = "hexdump" => Printed(st.fun, st.size, k, 1 + st.i, st.out)
  /\ st.pc = "chars" =>
       /\ st.fun = "hexdump" /\ o < st.size /\ st.hlen = Rest(st.size, o + Row)
       /\ st.tlen = Rest(st.size, o + st.i)
       /\ Printed(st.fun, st.size, k, 1 + Row + Upto(st.i, RowWidth(st.size, o)), st.out)

PrintInv == DumpType /\ \E k, o \in Nat : DumpAt(k, o)

\* What is left, and where the loops stand in a row.
LEMMA RowPlace ==
  ASSUME Row \in Nat \ {0}
  PROVE  \A size, o \in Nat : \A i \in 0..Row : LET w == RowWidth(size, o) IN
           o < size =>
             /\ w \in 1..Row
             /\ i < Row /\ Rest(size, o + i) > 0 =>
                  /\ i \in 0..(w - 1) /\ size - Rest(size, o + i) = o + i
                  /\ Upto(i, w) = i /\ Upto(i + 1, w) = i + 1
                  /\ Rest(size, o + i) - 1 = Rest(size, o + (i + 1))
             /\ i < Row /\ ~(Rest(size, o + i) > 0) =>
                  /\ i \in w..(Row - 1) /\ Upto(i, w) = w /\ Upto(i + 1, w) = w
                  /\ Rest(size, o + i) = 0 /\ Rest(size, o + (i + 1)) = 0
             /\ Upto(Row, w) = w /\ Upto(0, w) = 0 /\ Rest(size, o) = size - o
BY DEF RowWidth, Rest, Upto

\* while: the label of a row.
LEMMA DumpStartRow ==
  ASSUME Row \in Nat \ {0}, PrintInv, Dumps!StartRow
  PROVE  PrintInv'
<1>1. PICK k \in Nat, o \in Nat : DumpAt(k, o)
  BY DEF PrintInv
<1>2. DumpType
  BY DEF PrintInv
<1>3. st.pc = "while" /\ Dumps!Left > 0 /\ Dumps!Left = st.hlen
  BY <1>1, <1>2 DEF Dumps!StartRow, Dumps!Left, DumpAt, DumpType, Funs
<1>4. o < st.size /\ st.hlen = st.size - o /\ st.size - Dumps!Left = o
  BY <1>1, <1>2, <1>3 DEF DumpAt, Rest, DumpType
<1>5. o % Row = 0
  <2>1. PICK q \in Nat, r \in 0..(Row - 1) : r = o % Row /\ q * Row + r = o
    BY DivMod
  <2>2. o = k * Row
    BY <1>1 DEF DumpAt
  <2>3. (k - q) * Row = r
    BY <2>1, <2>2
  <2>4. ASSUME k - q >= 1 PROVE FALSE
    <3>1. PICK d \in Nat : d = k - q - 1
      BY <2>4
    <3>2. d * Row >= 0 /\ (k - q) * Row = d * Row + Row
      BY <3>1
    <3> QED
      BY <2>3, <3>2
  <2>5. ASSUME k - q <= 0 PROVE r = 0
    <3>1. PICK d \in Nat : d = q - k
      BY <2>5
    <3>2. d * Row >= 0 /\ (k - q) * Row = -(d * Row)
      BY <3>1
    <3> QED
      BY <2>3, <3>2
  <2> QED
    BY <2>1, <2>4, <2>5
<1>6. st' = [ fun |-> st.fun, size |-> st.size, pc |-> "hex", i |-> 0, hlen |-> st.hlen,
              tlen |-> st.tlen, last |-> st.last, out |-> Append(st.out, Label(o)) ]
  BY <1>2, <1>4, <1>5 DEF Dumps!StartRow, DumpType, Label
<1>7. Printed(st.fun, st.size, k, 1, Append(st.out, Label(o)))
  <2>1. o = k * Row /\ st.out = Dumped(st.fun, st.size, k) /\ st.fun \in Funs /\ st.size \in Nat
    BY <1>1, <1>2, <1>3 DEF DumpAt, DumpType
  <2> QED
    BY <1>4, <2>1, PrintedKinds
<1>8. DumpType'
  BY <1>2, <1>6 DEF DumpType
<1>9. DumpAt(k, o)'
  <2>1. Upto(0, RowWidth(st.size, o)) = 0 /\ 1 + 0 = 1 /\ o + 0 = o
    BY <1>2, <1>4, RowPlace DEF DumpType
  <2>2. st.fun = "hexdump" => st.tlen = st.size - o
    BY <1>1, <1>3, <1>4 DEF DumpAt
  <2>3. o = k * Row /\ st.hlen = Rest(st.size, o)
    BY <1>1, <1>3 DEF DumpAt
  <2> QED
    BY <1>4, <1>6, <1>7, <2>1, <2>2, <2>3 DEF DumpAt
<1> QED
  BY <1>8, <1>9 DEF PrintInv

\* What Read returns stays inside, but for the one byte behind.
LEMMA ReadWithin ==
  ASSUME DumpType, NEW len \in Nat
  PROVE  Dumps!Read(len) \in Int /\ Dumps!Read(len) <= st.size
BY DEF Dumps!Read, DumpType

\* The hex loop prints a byte, a blank behind the last, or nothing.
LEMMA DumpHexCell ==
  ASSUME Row \in Nat \ {0}, PrintInv, Dumps!HexCell
  PROVE  PrintInv'
<1>1. PICK k \in Nat, o \in Nat : DumpAt(k, o)
  BY DEF PrintInv
<1>2. DumpType /\ st.pc = "hex" /\ st.i \in 0..Row /\ st.i < Row /\ st.fun \in Funs /\ st.size \in Nat /\ st.hlen \in Nat
  BY DEF PrintInv, Dumps!HexCell, DumpType
<1>3. /\ o = k * Row /\ o < st.size /\ st.hlen = Rest(st.size, o + st.i)
      /\ (st.fun = "hexdump" => st.tlen = st.size - o)
      /\ st.fun = "dump" => Printed(st.fun, st.size, k, 1 + Upto(st.i, RowWidth(st.size, o)), st.out)
      /\ st.fun = "hexdump" => Printed(st.fun, st.size, k, 1 + st.i, st.out)
  BY <1>1, <1>2 DEF DumpAt
<1>4. PICK l : l = Dumps!Read(st.hlen) /\ l \in Int /\ l <= st.size
  BY <1>2, ReadWithin
<1>5. PICK w \in 1..Row : w = RowWidth(st.size, o)
  BY <1>2, <1>3, RowPlace
<1>6. CASE st.hlen > 0
  <2>1. /\ st.i \in 0..(w - 1) /\ st.size - st.hlen = o + st.i
        /\ Upto(st.i, w) = st.i /\ Upto(st.i + 1, w) = st.i + 1
        /\ st.hlen - 1 = Rest(st.size, o + (st.i + 1))
    BY <1>2, <1>3, <1>5, <1>6 DEF RowWidth, Rest, Upto
  <2>2. st' = [ fun |-> st.fun, size |-> st.size, pc |-> "hex", i |-> st.i + 1, hlen |-> st.hlen - 1,
                tlen |-> st.tlen, last |-> l, out |-> Append(st.out, Hex(o + st.i)) ]
    BY <1>2, <1>4, <1>6, <2>1 DEF Dumps!HexCell, DumpType, Hex
  <2>3. Printed(st.fun, st.size, k, 1 + (st.i + 1), Append(st.out, Hex(o + st.i)))
    <3>1. Printed(st.fun, st.size, k, 1 + st.i, st.out)
      BY <1>2, <1>3, <1>5, <2>1 DEF Funs
    <3> QED
      BY <1>2, <1>3, <1>5, <2>1, <3>1, PrintedKinds
  <2>4. DumpType'
    <3>1. st.i + 1 \in 0..Row /\ st.hlen - 1 \in Nat
      BY <1>2, <1>6
    <3> QED
      BY <1>2, <1>4, <2>2, <3>1 DEF DumpType
  <2>5. DumpAt(k, o)'
    BY <1>3, <1>5, <2>1, <2>2, <2>3 DEF DumpAt
  <2> QED
    BY <2>4, <2>5 DEF PrintInv
<1>7. CASE ~(st.hlen > 0)
  <2>1. /\ st.i \in w..(Row - 1) /\ Upto(st.i, w) = w /\ Upto(st.i + 1, w) = w
        /\ st.hlen = 0 /\ Rest(st.size, o + (st.i + 1)) = 0
    BY <1>2, <1>3, <1>5, <1>7 DEF RowWidth, Rest, Upto
  <2>2. PICK out : out = IF st.fun = "hexdump" THEN Append(st.out, Blank) ELSE st.out
    OBVIOUS
  <2>3. st' = [ fun |-> st.fun, size |-> st.size, pc |-> "hex", i |-> st.i + 1, hlen |-> st.hlen,
                tlen |-> st.tlen, last |-> l, out |-> out ]
    BY <1>2, <1>4, <1>7, <2>2 DEF Dumps!HexCell, DumpType, Blank
  <2>4. st.fun = "hexdump" => Printed(st.fun, st.size, k, 1 + (st.i + 1), out)
    BY <1>2, <1>3, <1>5, <2>1, <2>2, PrintedKinds
  <2>5. st.fun = "dump" => Printed(st.fun, st.size, k, 1 + Upto(st.i + 1, w), out)
    BY <1>3, <1>5, <2>1, <2>2
  <2>6. DumpType'
    <3>1. st.i + 1 \in 0..Row
      BY <1>2
    <3> QED
      BY <1>2, <1>4, <2>3, <3>1 DEF DumpType
  <2>7. DumpAt(k, o)'
    BY <1>3, <1>5, <2>1, <2>3, <2>4, <2>5 DEF DumpAt
  <2> QED
    BY <2>6, <2>7 DEF PrintInv
<1> QED
  BY <1>6, <1>7

\* A row that is out: the loops go on with the one behind it.
LEMMA NextRow ==
  ASSUME Row \in Nat \ {0}
  PROVE  \A fun \in Funs, size, k, o \in Nat : \A out :
           o = k * Row /\ o < size /\ Printed(fun, size, k, RowLen(fun, size, o), out) =>
             /\ k + 1 \in Nat /\ o + Row \in Nat /\ o + Row = (k + 1) * Row
             /\ k + 1 <= RowCount(size) /\ out = Dumped(fun, size, k + 1)
<1> SUFFICES ASSUME NEW fun \in Funs, NEW size \in Nat, NEW k \in Nat, NEW o \in Nat, NEW out,
                    o = k * Row, o < size, Printed(fun, size, k, RowLen(fun, size, o), out)
             PROVE  /\ k + 1 \in Nat /\ o + Row \in Nat /\ o + Row = (k + 1) * Row
                    /\ k + 1 <= RowCount(size) /\ out = Dumped(fun, size, k + 1)
  OBVIOUS
<1>1. k < RowCount(size) /\ RowCount(size) \in Nat
  BY RowStarts
<1>2. out = Dumped(fun, size, k + 1)
  BY PrintedCell
<1> QED
  BY <1>1, <1>2

\* The hex loop ends; dump is then done with the row.
LEMMA DumpHexDone ==
  ASSUME Row \in Nat \ {0}, PrintInv, Dumps!HexDone
  PROVE  PrintInv'
<1>1. PICK k \in Nat, o \in Nat : DumpAt(k, o)
  BY DEF PrintInv
<1>2. DumpType /\ st.pc = "hex" /\ st.i = Row /\ st.fun \in Funs /\ st.size \in Nat /\ st.hlen \in Nat
  BY DEF PrintInv, Dumps!HexDone, DumpType
<1>3. /\ o = k * Row /\ o < st.size /\ st.hlen = Rest(st.size, o + Row)
      /\ (st.fun = "hexdump" => st.tlen = st.size - o)
      /\ st.fun = "dump" => Printed(st.fun, st.size, k, 1 + Upto(Row, RowWidth(st.size, o)), st.out)
      /\ st.fun = "hexdump" => Printed(st.fun, st.size, k, 1 + Row, st.out)
  BY <1>1, <1>2 DEF DumpAt
<1>5. PICK w \in 1..Row :
        w = RowWidth(st.size, o) /\ Upto(Row, w) = w /\ Upto(0, w) = 0 /\ Rest(st.size, o) = st.size - o
  <2>1. Row \in 0..Row
    OBVIOUS
  <2> QED
    BY <1>2, <1>3, <2>1, RowPlace
<1>6. CASE st.fun = "dump"
  <2>1. st' = [ fun |-> st.fun, size |-> st.size, pc |-> "while", i |-> 0, hlen |-> st.hlen,
                tlen |-> st.tlen, last |-> st.last, out |-> st.out ]
    BY <1>2, <1>6 DEF Dumps!HexDone, DumpType
  <2>2. Printed(st.fun, st.size, k, RowLen(st.fun, st.size, o), st.out)
    BY <1>3, <1>5, <1>6 DEF RowLen
  <2>3. /\ k + 1 \in Nat /\ o + Row \in Nat /\ o + Row = (k + 1) * Row
        /\ k + 1 <= RowCount(st.size) /\ st.out = Dumped(st.fun, st.size, k + 1)
    BY <1>2, <1>3, <2>2, NextRow
  <2>4. DumpType'
    BY <1>2, <2>1 DEF DumpType
  <2>5. DumpAt(k + 1, o + Row)'
    BY <1>3, <1>6, <2>1, <2>3 DEF DumpAt
  <2> QED
    BY <2>3, <2>4, <2>5 DEF PrintInv
<1>7. CASE st.fun = "hexdump"
  <2>1. st' = [ fun |-> st.fun, size |-> st.size, pc |-> "chars", i |-> 0, hlen |-> st.hlen,
                tlen |-> st.tlen, last |-> st.last, out |-> st.out ]
    BY <1>2, <1>7 DEF Dumps!HexDone, DumpType
  <2>2. DumpType'
    BY <1>2, <2>1 DEF DumpType
  <2>3. 1 + Row + 0 = 1 + Row /\ o + 0 = o
    OBVIOUS
  <2>4. DumpAt(k, o)'
    BY <1>3, <1>5, <1>7, <2>1, <2>3 DEF DumpAt
  <2> QED
    BY <2>2, <2>4 DEF PrintInv
<1> QED
  BY <1>2, <1>6, <1>7 DEF Funs

\* The loop over the characters prints a byte or nothing.
LEMMA DumpCharCell ==
  ASSUME Row \in Nat \ {0}, PrintInv, Dumps!CharCell
  PROVE  PrintInv'
<1>1. PICK k \in Nat, o \in Nat : DumpAt(k, o)
  BY DEF PrintInv
<1>2. DumpType /\ st.pc = "chars" /\ st.i \in 0..Row /\ st.i < Row /\ st.fun \in Funs /\ st.size \in Nat /\ st.tlen \in Nat
  BY DEF PrintInv, Dumps!CharCell, DumpType
<1>3. /\ o = k * Row /\ o < st.size /\ st.fun = "hexdump" /\ st.hlen = Rest(st.size, o + Row)
      /\ st.tlen = Rest(st.size, o + st.i)
      /\ Printed(st.fun, st.size, k, 1 + Row + Upto(st.i, RowWidth(st.size, o)), st.out)
  BY <1>1, <1>2 DEF DumpAt
<1>4. PICK l : l = Dumps!Read(st.tlen) /\ l \in Int /\ l <= st.size
  BY <1>2, ReadWithin
<1>5. PICK w \in 1..Row : w = RowWidth(st.size, o)
  BY <1>2, <1>3, RowPlace
<1>6. CASE st.tlen > 0
  <2>1. /\ st.i \in 0..(w - 1) /\ st.size - st.tlen = o + st.i
        /\ Upto(st.i, w) = st.i /\ Upto(st.i + 1, w) = st.i + 1
        /\ st.tlen - 1 = Rest(st.size, o + (st.i + 1))
    BY <1>2, <1>3, <1>5, <1>6 DEF RowWidth, Rest, Upto
  <2>2. st' = [ fun |-> st.fun, size |-> st.size, pc |-> "chars", i |-> st.i + 1, hlen |-> st.hlen,
                tlen |-> st.tlen - 1, last |-> l, out |-> Append(st.out, Plain(o + st.i)) ]
    BY <1>2, <1>4, <1>6, <2>1 DEF Dumps!CharCell, DumpType, Plain
  <2>3. Printed(st.fun, st.size, k, 1 + Row + (st.i + 1), Append(st.out, Plain(o + st.i)))
    <3>1. Printed(st.fun, st.size, k, 1 + Row + st.i, st.out)
      BY <1>3, <1>5, <2>1
    <3> QED
      BY <1>2, <1>3, <1>5, <2>1, <3>1, PrintedKinds
  <2>4. DumpType'
    <3>1. st.i + 1 \in 0..Row /\ st.tlen - 1 \in Nat
      BY <1>2, <1>6
    <3> QED
      BY <1>2, <1>4, <2>2, <3>1 DEF DumpType
  <2>5. DumpAt(k, o)'
    BY <1>3, <1>5, <2>1, <2>2, <2>3 DEF DumpAt
  <2> QED
    BY <2>4, <2>5 DEF PrintInv
<1>7. CASE ~(st.tlen > 0)
  <2>1. /\ st.i \in w..(Row - 1) /\ Upto(st.i, w) = w /\ Upto(st.i + 1, w) = w
        /\ st.tlen = 0 /\ Rest(st.size, o + (st.i + 1)) = 0
    BY <1>2, <1>3, <1>5, <1>7 DEF RowWidth, Rest, Upto
  <2>2. st' = [ fun |-> st.fun, size |-> st.size, pc |-> "chars", i |-> st.i + 1, hlen |-> st.hlen,
                tlen |-> st.tlen, last |-> l, out |-> st.out ]
    BY <1>2, <1>4, <1>7 DEF Dumps!CharCell, DumpType
  <2>3. DumpType'
    <3>1. st.i + 1 \in 0..Row
      BY <1>2
    <3> QED
      BY <1>2, <1>4, <2>2, <3>1 DEF DumpType
  <2>4. DumpAt(k, o)'
    BY <1>3, <1>5, <2>1, <2>2 DEF DumpAt
  <2> QED
    BY <2>3, <2>4 DEF PrintInv
<1> QED
  BY <1>6, <1>7

\* The row of hexdump is out.
LEMMA DumpCharsDone ==
  ASSUME Row \in Nat \ {0}, PrintInv, Dumps!CharsDone
  PROVE  PrintInv'
<1>1. PICK k \in Nat, o \in Nat : DumpAt(k, o)
  BY DEF PrintInv
<1>2. DumpType /\ st.pc = "chars" /\ st.i = Row /\ st.fun \in Funs /\ st.size \in Nat
  BY DEF PrintInv, Dumps!CharsDone, DumpType
<1>3. /\ o = k * Row /\ o < st.size /\ st.fun = "hexdump" /\ st.hlen = Rest(st.size, o + Row)
      /\ st.tlen = Rest(st.size, o + Row)
      /\ Printed(st.fun, st.size, k, 1 + Row + Upto(Row, RowWidth(st.size, o)), st.out)
  BY <1>1, <1>2 DEF DumpAt
<1>4. PICK w \in 1..Row : w = RowWidth(st.size, o) /\ Upto(Row, w) = w
  <2>1. Row \in 0..Row
    OBVIOUS
  <2> QED
    BY <1>2, <1>3, <2>1, RowPlace
<1>5. st' = [ fun |-> st.fun, size |-> st.size, pc |-> "while", i |-> st.i, hlen |-> st.hlen,
              tlen |-> st.tlen, last |-> st.last, out |-> st.out ]
  BY <1>2 DEF Dumps!CharsDone, DumpType
<1>6. Printed(st.fun, st.size, k, RowLen(st.fun, st.size, o), st.out)
  BY <1>3, <1>4 DEF RowLen
<1>7. /\ k + 1 \in Nat /\ o + Row \in Nat /\ o + Row = (k + 1) * Row
      /\ k + 1 <= RowCount(st.size) /\ st.out = Dumped(st.fun, st.size, k + 1)
  BY <1>2, <1>3, <1>6, NextRow
<1>8. DumpType'
  BY <1>2, <1>5 DEF DumpType
<1>9. DumpAt(k + 1, o + Row)'
  BY <1>3, <1>5, <1>7 DEF DumpAt
<1> QED
  BY <1>7, <1>8, <1>9 DEF PrintInv

\* Nothing is left.
LEMMA DumpEnd ==
  ASSUME Row \in Nat \ {0}, PrintInv, Dumps!End
  PROVE  PrintInv'
<1>1. PICK k \in Nat, o \in Nat : DumpAt(k, o)
  BY DEF PrintInv
<1>2. DumpType /\ st.pc = "while" /\ Dumps!Left = 0
  BY DEF PrintInv, Dumps!End
<1>3. st.hlen = 0
  BY <1>1, <1>2 DEF DumpAt, DumpType, Dumps!Left, Funs
<1>4. st' = [ fun |-> st.fun, size |-> st.size, pc |-> "done", i |-> st.i, hlen |-> st.hlen,
              tlen |-> st.tlen, last |-> st.last, out |-> st.out ]
  BY <1>2 DEF Dumps!End, DumpType
<1>5. DumpType'
  BY <1>2, <1>4 DEF DumpType
<1>6. DumpAt(k, o)'
  BY <1>1, <1>2, <1>3, <1>4 DEF DumpAt
<1> QED
  BY <1>5, <1>6 DEF PrintInv

\* Every step of a dump.
LEMMA DumpStep ==
  ASSUME Dumps!PrintlogAssumption, PrintInv, [Dumps!Next]_st
  PROVE  PrintInv'
<1>1. Row \in Nat \ {0}
  BY DEF Dumps!PrintlogAssumption
<1>2. CASE Dumps!Next
  BY <1>1, <1>2, DumpStartRow, DumpHexCell, DumpHexDone, DumpCharCell, DumpCharsDone, DumpEnd DEF Dumps!Next
<1>3. CASE UNCHANGED st
  <2>1. DumpType'
    BY <1>3 DEF PrintInv, DumpType
  <2>2. PICK k \in Nat, o \in Nat : DumpAt(k, o)
    BY DEF PrintInv
  <2>3. DumpAt(k, o)'
    BY <1>3, <2>2 DEF DumpAt
  <2> QED
    BY <2>1, <2>3 DEF PrintInv
<1> QED
  BY <1>2, <1>3

\* Nothing is printed at first.
LEMMA DumpStart ==
  ASSUME Dumps!PrintlogAssumption, Dumps!Init
  PROVE  PrintInv
<1>1. Row \in Nat \ {0} /\ MaxSize \in Nat
  BY DEF Dumps!PrintlogAssumption
<1>2. PICK fun \in Funs, size \in 0..MaxSize :
        st = [ fun |-> fun, size |-> size, pc |-> "while", i |-> 0, hlen |-> size, tlen |-> size,
               last |-> -1, out |-> <<>> ]
  BY DEF Dumps!Init, Funs
<1>3. DumpType
  BY <1>1, <1>2 DEF DumpType
<1>4. Dumped(fun, size, 0) = <<>>
  <2>1. Rows(fun, size, 0) = <<>>
    BY DEF Rows
  <2> QED
    BY <2>1 DEF Dumped, Substrs!FlattenSeq
<1>5. Rest(size, 0) = size /\ 0 = 0 * Row /\ 0 <= RowCount(size)
  BY <1>1, RowStarts DEF Rest
<1>6. DumpAt(0, 0)
  BY <1>2, <1>4, <1>5 DEF DumpAt
<1> QED
  BY <1>3, <1>6 DEF PrintInv

\* The rows of Printlog.
LEMMA RowsExpected ==
  ASSUME Row \in Nat \ {0}, st.size \in Nat
  PROVE  Dumps!Expected = Dumped(st.fun, st.size, RowCount(st.size))
<1>1. ASSUME NEW o PROVE Dumps!RowOf(o) = RowAt(st.fun, st.size, o)
  BY DEF Dumps!RowOf, Dumps!InRow, RowAt, RowWidth
<1>2. \A ss : Dumps!FlattenSeq(ss) = Substrs!FlattenSeq(ss)
  BY DEF Dumps!FlattenSeq, Substrs!FlattenSeq
<1>3. Dumps!Expected = Dumps!FlattenSeq(Rows(st.fun, st.size, RowCount(st.size)))
  BY <1>1 DEF Dumps!Expected, Rows, RowCount
<1> QED
  BY <1>2, <1>3 DEF Dumped

\* The invariant gives DumpExact.
LEMMA DumpImplies ==
  ASSUME Dumps!PrintlogAssumption, PrintInv
  PROVE  Dumps!DumpExact
<1>1. Row \in Nat \ {0}
  BY DEF Dumps!PrintlogAssumption
<1>2. PICK k \in Nat, o \in Nat : DumpAt(k, o)
  BY DEF PrintInv
<1>3. DumpType /\ st.fun \in Funs /\ st.size \in Nat /\ st.i \in 0..Row
  BY DEF PrintInv, DumpType
<1>4. PICK e : e = Dumped(st.fun, st.size, RowCount(st.size)) /\ Dumps!Expected = e
  BY <1>1, <1>3, RowsExpected
<1>5. RowCount(st.size) \in Nat /\ o = k * Row
  BY <1>1, <1>2, <1>3, RowStarts DEF DumpAt
<1>6. CASE st.pc \in {"while", "done"}
  <2>1. k <= RowCount(st.size) /\ st.out = Dumped(st.fun, st.size, k) /\ st.hlen = Rest(st.size, o)
        /\ (st.pc = "done" => st.hlen = 0)
    BY <1>2, <1>6 DEF DumpAt
  <2>2. st.out \in Seq(Cell) /\ Begins(st.out, e)
    BY <1>1, <1>3, <1>4, <2>1, DumpedRow, DumpedBegins
  <2>3. Dumps!IsPrefix(st.out, e)
    BY <2>2, BeginsIsPrefix
  <2>4. ASSUME st.pc = "done" PROVE st.out = e
    <3>1. ~(o < st.size)
      BY <1>3, <2>1, <2>4 DEF Rest
    <3>2. k = RowCount(st.size)
      BY <1>1, <1>3, <1>5, <2>1, <3>1, RowStarts
    <3> QED
      BY <1>4, <2>1, <3>2
  <2> QED
    BY <1>3, <1>4, <2>3, <2>4 DEF Dumps!DumpExact, DumpType
<1>7. CASE st.pc \in {"hex", "chars"}
  <2>1. o < st.size
    BY <1>2, <1>7 DEF DumpAt
  <2>2. PICK w \in 1..Row : w = RowWidth(st.size, o)
    BY <1>1, <1>3, <2>1, RowPlace
  <2>3. Upto(st.i, w) \in 0..w
    BY <1>3 DEF Upto
  <2>4. PICK l \in Nat : l = RowLen(st.fun, st.size, o)
                         /\ l = IF st.fun = "dump" THEN 1 + w ELSE 1 + Row + w
    BY <1>1, <2>2 DEF RowLen
  <2>5. PICK m \in 1..l : Printed(st.fun, st.size, k, m, st.out)
    <3>1. CASE st.pc = "hex" /\ st.fun = "dump"
      <4>1. 1 + Upto(st.i, w) \in 1..l
        BY <1>1, <2>3, <2>4, <3>1
      <4>2. Printed(st.fun, st.size, k, 1 + Upto(st.i, w), st.out)
        BY <1>2, <2>2, <3>1 DEF DumpAt
      <4> QED
        BY <4>1, <4>2
    <3>2. CASE st.pc = "hex" /\ st.fun = "hexdump"
      <4>1. 1 + st.i \in 1..l
        BY <1>1, <1>3, <2>4, <3>2
      <4>2. Printed(st.fun, st.size, k, 1 + st.i, st.out)
        BY <1>2, <3>2 DEF DumpAt
      <4> QED
        BY <4>1, <4>2
    <3>3. CASE st.pc = "chars"
      <4>1. st.fun = "hexdump" /\ Printed(st.fun, st.size, k, 1 + Row + Upto(st.i, w), st.out)
        BY <1>2, <2>2, <3>3 DEF DumpAt
      <4>2. 1 + Row + Upto(st.i, w) \in 1..l
        BY <1>1, <2>3, <2>4, <4>1
      <4> QED
        BY <4>1, <4>2
    <3> QED
      BY <1>3, <1>7, <3>1, <3>2, <3>3 DEF Funs
  <2>6. st.out \in Seq(Cell) /\ Begins(st.out, e)
    BY <1>1, <1>3, <1>4, <1>5, <2>1, <2>4, <2>5, PrintedCell
  <2>7. Dumps!IsPrefix(st.out, e)
    BY <2>6, BeginsIsPrefix
  <2> QED
    BY <1>3, <1>4, <1>7, <2>7 DEF Dumps!DumpExact, DumpType
<1> QED
  BY <1>3, <1>6, <1>7 DEF DumpType

DumpInv == prog = "printlog" => PrintInv

\* DumpExact: dump and hexdump print every byte once, in its row and column,
\* for every size of the buffer and every length of a row, and read no further
\* than the one byte behind the buffer.
THEOREM DumpsExactly == ProgramSpec => []DumpExact
<1>1. ProgramInit => DumpInv
  BY ProgramsAssumption, DumpStart DEF ProgramInit, ProgramsAssumption, DumpInv
<1>2. DumpInv /\ [ProgramNext]_<<prog, st>> => DumpInv'
  <2>1. [ProgramNext]_<<prog, st>> => prog' = prog /\ (prog = "printlog" => [Dumps!Next]_st)
    BY DEF ProgramNext, Only
  <2> QED
    BY <2>1, ProgramsAssumption, DumpStep DEF ProgramsAssumption, DumpInv
<1>3. DumpInv => DumpExact
  BY ProgramsAssumption, DumpImplies DEF ProgramsAssumption, DumpInv, DumpExact
<1> QED
  BY <1>1, <1>2, <1>3, PTL DEF ProgramSpec

-----------------------------------------------------------------------------
(* posix/module                                                            *)

Entries == Modules \cup {Dummy}
Calls == {"init", "exit"} \X Entries

\* Every object is linked in once.
LinkOrder(link, n) ==
  /\ n \in Nat /\ link \in [1..n -> Entries]
  /\ \A p, q \in 1..n : link[p] = link[q] => p = q
  /\ \A m \in Modules : \E p \in 1..n : link[p] = m

\* The walk over the sections has passed the entry of m at p.
InitPast(p, m) ==
  \/ st.pc # "init"
  \/ \E j \in 1..3 : Inits!initcall_levels[j] = st.at[m] /\ (j < st.level \/ (j = st.level /\ p < st.fn))
ExitPast(p) == st.pc = "done" \/ (st.pc = "exit" /\ p < st.fn)

\* c is called nowhere, at one place.
NotYet(called, c) == \A i \in 1..Len(called) : called[i] # c
Once(called, c) == \E i \in 1..Len(called) : \A k \in 1..Len(called) : called[k] = c <=> k = i

\* No initcall behind one of a higher level or behind an exitcall.
NoneBehind(called, at) ==
  \A m, n \in Modules : \A i, k \in 1..Len(called) :
    called[i] = <<"init", m>> =>
      /\ called[k] = <<"init", n>> /\ at[m] < at[n] => i < k
      /\ called[k] = <<"exit", n>> => i < k

ModuleType(n) ==
  /\ st = [ link |-> st.link, at |-> st.at, pc |-> st.pc, level |-> st.level, fn |-> st.fn,
            called |-> st.called ]
  /\ LinkOrder(st.link, n) /\ st.at \in [Modules -> Inits!Levels] /\ st.pc \in {"init", "exit", "done"}
  /\ st.level \in 1..4 /\ st.fn \in 1..(n + 1) /\ st.called \in Seq(Calls)

ModuleInv(n) ==
  /\ ModuleType(n)
  /\ \A m \in Modules : \A p \in 1..n : st.link[p] = m =>
       /\ InitPast(p, m) => Once(st.called, <<"init", m>>)
       /\ ~InitPast(p, m) => NotYet(st.called, <<"init", m>>)
       /\ ExitPast(p) => Once(st.called, <<"exit", m>>)
       /\ ~ExitPast(p) => NotYet(st.called, <<"exit", m>>)
  /\ NoneBehind(st.called, st.at)

\* ModuleCalls has the FiniteSets of its own.
LEMMA SameFiniteSets ==
  \A S : Inits!Cardinality(S) = Cardinality(S) /\ (Inits!IsFiniteSet(S) <=> IsFiniteSet(S))
BY DEF Inits!Cardinality, Cardinality, Inits!IsFiniteSet, IsFiniteSet

\* The orders of SetToSeqs miss no object.
LEMMA LinkComplete ==
  ASSUME IsFiniteSet(Modules), NEW link \in Inits!SetToSeqs(Modules \cup {Dummy})
  PROVE  \E n \in Nat : LinkOrder(link, n)
<1>1. IsFiniteSet(Entries) /\ Cardinality(Entries) \in Nat
  BY FS_AddElement, FS_CardinalityType DEF Entries
<1>2. PICK n \in Nat : n = Cardinality(Entries)
  BY <1>1
<1>3. link \in [1..n -> Entries] /\ \A p, q \in 1..n : p # q => link[p] # link[q]
  BY <1>2, SameFiniteSets DEF Inits!SetToSeqs, Entries
<1>4. link \in Injection(1..n, Entries)
  BY <1>3 DEF Injection, IsInjective
<1>5. Cardinality(1..n) = n
  <2>1. 1 \in Int /\ n \in Int
    OBVIOUS
  <2>2. Cardinality(1..n) = IF 1 > n THEN 0 ELSE n - 1 + 1
    BY <2>1, FS_Interval
  <2> QED
    BY <2>2
<1>6. link \in Surjection(1..n, Entries)
  BY <1>1, <1>2, <1>4, <1>5, FS_Injection
<1>7. \A m \in Entries : \E p \in 1..n : link[p] = m
  BY <1>6 DEF Surjection
<1> QED
  BY <1>3, <1>7 DEF LinkOrder, Entries

\* One more call.
LEMMA CallAppended ==
  \A s \in Seq(Calls) : \A c \in Calls : \A d :
    /\ d # c /\ Once(s, d) => Once(Append(s, c), d)
    /\ d # c /\ NotYet(s, d) => NotYet(Append(s, c), d)
    /\ NotYet(s, c) => Once(Append(s, c), c)
<1> SUFFICES ASSUME NEW s \in Seq(Calls), NEW c \in Calls, NEW d
             PROVE  /\ d # c /\ Once(s, d) => Once(Append(s, c), d)
                    /\ d # c /\ NotYet(s, d) => NotYet(Append(s, c), d)
                    /\ NotYet(s, c) => Once(Append(s, c), c)
  OBVIOUS
<1>0. PICK n \in Nat : n = Len(s)
  OBVIOUS
<1>1. PICK t : n = Len(s) /\ t = Append(s, c)
  BY <1>0
<1>2. Len(t) = n + 1 /\ t[n + 1] = c /\ \A i \in 1..n : t[i] = s[i]
  BY <1>1
<1>3. ASSUME d # c, Once(s, d) PROVE Once(t, d)
  <2>1. PICK i \in 1..n : \A k \in 1..n : s[k] = d <=> k = i
    BY <1>1, <1>3 DEF Once
  <2>2. i \in 1..(n + 1) /\ \A k \in 1..(n + 1) : t[k] = d <=> k = i
    BY <1>2, <1>3, <2>1
  <2>3. i \in 1..Len(t) /\ \A k \in 1..Len(t) : t[k] = d <=> k = i
    BY <1>2, <2>2
  <2> QED
    BY <2>3 DEF Once
<1>4. ASSUME d # c, NotYet(s, d) PROVE NotYet(t, d)
  BY <1>1, <1>2, <1>4 DEF NotYet
<1>5. ASSUME NotYet(s, c) PROVE Once(t, c)
  <2>1. n + 1 \in 1..(n + 1) /\ \A k \in 1..(n + 1) : t[k] = c <=> k = n + 1
    BY <1>1, <1>2, <1>5 DEF NotYet
  <2>2. n + 1 \in 1..Len(t) /\ \A k \in 1..Len(t) : t[k] = c <=> k = n + 1
    BY <1>2, <2>1
  <2> QED
    BY <2>2 DEF Once
<1> QED
  BY <1>1, <1>3, <1>4, <1>5

\* The entry called is the first from fn on.
LEMMA FirstFrom ==
  ASSUME st.fn \in Nat, NEW n \in Nat, NEW section \in SUBSET (1..n), Inits!Before(section)
  PROVE  LET p == Inits!Min(Inits!From(section))
         IN  p \in section /\ p >= st.fn /\ \A q \in section : q >= st.fn => p <= q
<1> DEFINE F == Inits!From(section)
<1>1. F \in SUBSET Nat /\ F # {} /\ F = {p \in section : p >= st.fn}
  <2>1. F = {p \in section : p >= st.fn} /\ F # {}
    BY DEF Inits!From, Inits!Before
  <2>2. section \in SUBSET Nat
    OBVIOUS
  <2> HIDE DEF F
  <2> QED
    BY <2>1, <2>2
<1>2. PICK p : p = Inits!Min(F)
  OBVIOUS
<1> HIDE DEF F
<1>3. p \in F /\ \A q \in F : p <= q
  <2>1. \E x \in F : \A y \in F : x <= y
    BY <1>1, Least
  <2> QED
    BY <1>2, <2>1, Zenon DEF Inits!Min
<1> QED
  BY <1>1, <1>2, <1>3 DEF F

\* The table has every level once, the lower ones first.
LEMMA LevelOrder ==
  /\ Len(Inits!initcall_levels) = 3
  /\ \A l \in Inits!Levels : \E j \in 1..3 : Inits!initcall_levels[j] = l
  /\ \A j \in 1..3 : Inits!initcall_levels[j] \in Inits!Levels
  /\ \A j, k \in 1..3 : Inits!initcall_levels[j] = Inits!initcall_levels[k] => j = k
  /\ \A j, k \in 1..3 : j <= k => ~(Inits!initcall_levels[k] < Inits!initcall_levels[j])
BY DEF Inits!initcall_levels, Inits!Levels

\* One more call keeps the order.
LEMMA OrderAppended ==
  ASSUME NEW at, NEW s \in Seq(Calls), NEW c \in Calls, NoneBehind(s, at),
         \A m, n \in Modules : \A k \in 1..Len(s) : c = <<"init", m>> =>
           s[k] # <<"exit", n>> /\ (s[k] = <<"init", n>> => ~(at[m] < at[n])),
         \A m \in Modules : ~(at[m] < at[m])
  PROVE  NoneBehind(Append(s, c), at)
<1>1. PICK t : t = Append(s, c)
  OBVIOUS
<1>2. PICK l \in Nat : l = Len(s)
  OBVIOUS
<1>3. Len(t) = l + 1 /\ t[l + 1] = c /\ \A i \in 1..l : t[i] = s[i]
  BY <1>1, <1>2
<1>4. ASSUME NEW m \in Modules, NEW n \in Modules, NEW i \in 1..(l + 1), NEW k \in 1..(l + 1),
             t[i] = <<"init", m>>
      PROVE  /\ t[k] = <<"init", n>> /\ at[m] < at[n] => i < k
             /\ t[k] = <<"exit", n>> => i < k
  <2>1. CASE i \in 1..l /\ k \in 1..l
    BY <1>2, <1>3, <1>4, <2>1 DEF NoneBehind
  <2>2. CASE i \in 1..l /\ k = l + 1
    BY <2>2
  <2>3. CASE i = l + 1 /\ k \in 1..l
    <3>1. c = <<"init", m>> /\ t[k] = s[k]
      BY <1>3, <1>4, <2>3
    <3>2. s[k] # <<"exit", n>> /\ (s[k] = <<"init", n>> => ~(at[m] < at[n]))
      BY <1>2, <2>3, <3>1
    <3> QED
      BY <3>1, <3>2
  <2>4. CASE i = l + 1 /\ k = l + 1
    BY <1>3, <1>4, <2>4
  <2> QED
    BY <2>1, <2>2, <2>3, <2>4
<1> QED
  BY <1>1, <1>3, <1>4 DEF NoneBehind

\* An initcall.
LEMMA InitcallStep ==
  ASSUME Dummy \notin Modules, NEW n \in Nat, ModuleInv(n), Inits!do_one_initcall
  PROVE  ModuleInv(n)'
<1>1. /\ ModuleType(n) /\ st.pc = "init" /\ st.level \in 1..3 /\ st.fn \in 1..(n + 1)
      /\ LinkOrder(st.link, n) /\ st.called \in Seq(Calls) /\ st.at \in [Modules -> Inits!Levels]
  BY LevelOrder DEF ModuleInv, ModuleType, Inits!do_one_initcall
<1>2. PICK S : S = Inits!InitSection(Inits!initcall_levels[st.level]) /\ Inits!Before(S) /\ st' = Inits!Call("init", S)
  BY DEF Inits!do_one_initcall
<1>3. S = {p \in 1..n : st.link[p] = Dummy \/ st.at[st.link[p]] = Inits!initcall_levels[st.level]}
  BY <1>1, <1>2 DEF Inits!InitSection, LinkOrder
<1>4. PICK p : p = Inits!Min(Inits!From(S)) /\ p \in S /\ p >= st.fn /\ \A q \in S : q >= st.fn => p <= q
  <2>1. S \in SUBSET (1..n) /\ st.fn \in Nat
    BY <1>1, <1>3
  <2> QED
    BY <1>2, <2>1, FirstFrom
<1>5. p \in 1..n /\ (st.link[p] # Dummy => st.at[st.link[p]] = Inits!initcall_levels[st.level])
      /\ st.link[p] \in Entries
  BY <1>1, <1>3, <1>4 DEF LinkOrder
<1>6. PICK c \in Calls : c = <<"init", st.link[p]>>
  BY <1>5 DEF Calls
<1>7. PICK s \in Seq(Calls) : s = Append(st.called, c)
  <2>1. st.called \in Seq(Calls) /\ \A a \in Seq(Calls) : \A b \in Calls : Append(a, b) \in Seq(Calls)
    BY <1>1
  <2> QED
    BY <1>6, <2>1, Zenon
<1>8. st' = [ link |-> st.link, at |-> st.at, pc |-> "init", level |-> st.level, fn |-> p + 1, called |-> s ]
  BY <1>1, <1>2, <1>4, <1>6, <1>7 DEF Inits!Call, ModuleType
<1>9. ModuleType(n)'
  <2>1. p + 1 \in 1..(n + 1)
    BY <1>5
  <2> QED
    BY <1>1, <1>7, <1>8, <2>1 DEF ModuleType
<1>10. ASSUME NEW m \in Modules, NEW q \in 1..n, st.link[q] = m
       PROVE  /\ InitPast(q, m)' => Once(s, <<"init", m>>)
              /\ ~InitPast(q, m)' => NotYet(s, <<"init", m>>)
              /\ ExitPast(q)' => Once(s, <<"exit", m>>)
              /\ ~ExitPast(q)' => NotYet(s, <<"exit", m>>)
  <2>1. ~ExitPast(q) /\ ~ExitPast(q)'
    BY <1>1, <1>8 DEF ExitPast
  <2>2. NotYet(s, <<"exit", m>>)
    <3>1. NotYet(st.called, <<"exit", m>>) /\ c # <<"exit", m>>
      BY <1>6, <1>10, <2>1 DEF ModuleInv
    <3> QED
      BY <1>1, <1>6, <1>7, <3>1, CallAppended
  <2>3. CASE q = p
    <3>1. st.at[m] = Inits!initcall_levels[st.level] /\ c = <<"init", m>>
      BY <1>5, <1>6, <1>10, <2>3
    <3>2. ~InitPast(q, m)
      BY <1>1, <1>4, <1>5, <2>3, <3>1, LevelOrder DEF InitPast
    <3>3. InitPast(q, m)'
      BY <1>1, <1>5, <1>8, <2>3, <3>1 DEF InitPast
    <3>4. Once(s, <<"init", m>>)
      <4>1. NotYet(st.called, <<"init", m>>)
        BY <1>10, <3>2 DEF ModuleInv
      <4>2. NotYet(st.called, c)
        BY <3>1, <4>1
      <4>3. Once(s, c)
        BY <1>1, <1>6, <1>7, <4>2, CallAppended
      <4> QED
        BY <3>1, <4>3
    <3> QED
      BY <2>1, <2>2, <3>3, <3>4
  <2>4. CASE q # p
    <3>1. c # <<"init", m>>
      BY <1>1, <1>5, <1>6, <1>10, <2>4 DEF LinkOrder
    <3>2. ASSUME st.at[m] = Inits!initcall_levels[st.level] PROVE q < st.fn <=> q < p + 1
      <4>1. q \in S
        BY <1>3, <1>10, <3>2
      <4>2. q >= st.fn => p <= q
        BY <1>4, <4>1
      <4> QED
        BY <1>1, <1>4, <1>5, <2>4, <4>2
    <3>3. InitPast(q, m)' <=> InitPast(q, m)
      BY <1>1, <1>8, <3>2 DEF InitPast
    <3>4. /\ InitPast(q, m) => Once(st.called, <<"init", m>>)
          /\ ~InitPast(q, m) => NotYet(st.called, <<"init", m>>)
      BY <1>10 DEF ModuleInv
    <3>5. /\ Once(st.called, <<"init", m>>) => Once(s, <<"init", m>>)
          /\ NotYet(st.called, <<"init", m>>) => NotYet(s, <<"init", m>>)
      BY <1>1, <1>6, <1>7, <3>1, CallAppended
    <3> QED
      BY <2>1, <2>2, <3>3, <3>4, <3>5
  <2> QED
    BY <2>3, <2>4
<1>11. NoneBehind(s, st.at)
  <2>1. ASSUME NEW m \in Modules, NEW o \in Modules, NEW k \in 1..Len(st.called), c = <<"init", m>>
        PROVE  st.called[k] # <<"exit", o>> /\ (st.called[k] = <<"init", o>> => ~(st.at[m] < st.at[o]))
    <3>1. PICK q \in 1..n : st.link[q] = o
      BY <1>1 DEF LinkOrder
    <3>2. ~ExitPast(q) /\ NotYet(st.called, <<"exit", o>>)
      BY <1>1, <3>1 DEF ModuleInv, ExitPast
    <3>3. ASSUME st.called[k] = <<"init", o>> PROVE ~(st.at[m] < st.at[o])
      <4>1. ~NotYet(st.called, <<"init", o>>)
        BY <3>3 DEF NotYet
      <4>2. InitPast(q, o)
        BY <3>1, <4>1 DEF ModuleInv
      <4>3. PICK j \in 1..3 : Inits!initcall_levels[j] = st.at[o] /\ j <= st.level
        BY <1>1, <4>2 DEF InitPast
      <4>4. st.at[m] = Inits!initcall_levels[st.level]
        BY <1>5, <1>6, <2>1
      <4> QED
        BY <1>1, <4>3, <4>4, LevelOrder
    <3> QED
      BY <3>2, <3>3 DEF NotYet
  <2>2. \A m \in Modules : ~(st.at[m] < st.at[m])
    <3>1. ASSUME NEW m \in Modules PROVE ~(st.at[m] < st.at[m])
      <4>1. st.at[m] \in Inits!Levels
        BY <1>1
      <4>2. \A l \in Inits!Levels : ~(l < l)
        BY DEF Inits!Levels
      <4> QED
        BY <4>1, <4>2
    <3> QED
      BY <3>1
  <2>3. NoneBehind(st.called, st.at)
    BY DEF ModuleInv
  <2> QED
    BY <1>1, <1>6, <1>7, <2>1, <2>2, <2>3, OrderAppended
<1> QED
  BY <1>8, <1>9, <1>10, <1>11 DEF ModuleInv

\* A step that calls nothing and passes nothing keeps the invariant.
LEMMA NothingPassed ==
  ASSUME NEW n \in Nat, ModuleInv(n), ModuleType(n)', st'.called = st.called, st'.link = st.link, st'.at = st.at,
         \A m \in Modules : \A p \in 1..n : st.link[p] = m =>
           (InitPast(p, m)' <=> InitPast(p, m)) /\ (ExitPast(p)' <=> ExitPast(p))
  PROVE  ModuleInv(n)'
BY DEF ModuleInv

\* do_initcalls goes on to the next level.
LEMMA NextLevelStep ==
  ASSUME NEW n \in Nat, ModuleInv(n), Inits!NextLevel
  PROVE  ModuleInv(n)'
<1>1. /\ ModuleType(n) /\ st.pc = "init" /\ st.level \in 1..3 /\ st.fn \in 1..(n + 1)
      /\ LinkOrder(st.link, n)
  BY LevelOrder DEF ModuleInv, ModuleType, Inits!NextLevel
<1>2. st' = [ link |-> st.link, at |-> st.at, pc |-> "init", level |-> st.level + 1, fn |-> 1, called |-> st.called ]
  BY <1>1 DEF Inits!NextLevel, ModuleType
<1>3. \A q \in 1..n : st.at[st.link[q]] = Inits!initcall_levels[st.level] => q < st.fn
  <2>1. Inits!From(Inits!InitSection(Inits!initcall_levels[st.level])) = {}
    BY DEF Inits!NextLevel, Inits!Before
  <2>2. DOMAIN st.link = 1..n
    BY <1>1 DEF LinkOrder
  <2> QED
    BY <1>1, <2>1, <2>2 DEF Inits!From, Inits!InitSection
<1>4. ModuleType(n)'
  <2>1. st.level + 1 \in 1..4 /\ 1 \in 1..(n + 1)
    BY <1>1
  <2> QED
    BY <1>1, <1>2, <2>1 DEF ModuleType
<1>5. ASSUME NEW m \in Modules, NEW p \in 1..n, st.link[p] = m
      PROVE  (InitPast(p, m)' <=> InitPast(p, m)) /\ (ExitPast(p)' <=> ExitPast(p))
  <2>1. \A j \in 1..3 : Inits!initcall_levels[j] = st.at[m] =>
          ((j < st.level + 1 \/ (j = st.level + 1 /\ p < 1)) <=> (j < st.level \/ (j = st.level /\ p < st.fn)))
    BY <1>1, <1>3, <1>5
  <2>2. InitPast(p, m)' <=> InitPast(p, m)
    BY <1>1, <1>2, <2>1 DEF InitPast
  <2> QED
    BY <1>1, <1>2, <2>2 DEF ExitPast
<1> QED
  BY <1>2, <1>4, <1>5, NothingPassed

\* do_initcalls returns.
LEMMA InitDoneStep ==
  ASSUME NEW n \in Nat, ModuleInv(n), Inits!InitDone
  PROVE  ModuleInv(n)'
<1>1. ModuleType(n) /\ st.pc = "init" /\ st.level = 4 /\ st.at \in [Modules -> Inits!Levels]
  BY LevelOrder DEF ModuleInv, ModuleType, Inits!InitDone
<1>2. st' = [ link |-> st.link, at |-> st.at, pc |-> "exit", level |-> st.level, fn |-> 1, called |-> st.called ]
  BY <1>1 DEF Inits!InitDone, ModuleType
<1>3. ModuleType(n)'
  <2>1. 1 \in 1..(n + 1)
    OBVIOUS
  <2> QED
    BY <1>1, <1>2, <2>1 DEF ModuleType
<1>4. ASSUME NEW m \in Modules, NEW p \in 1..n, st.link[p] = m
      PROVE  (InitPast(p, m)' <=> InitPast(p, m)) /\ (ExitPast(p)' <=> ExitPast(p))
  <2>1. PICK j \in 1..3 : Inits!initcall_levels[j] = st.at[m] /\ j < st.level
    BY <1>1, LevelOrder
  <2>2. InitPast(p, m) /\ InitPast(p, m)'
    BY <1>2, <2>1 DEF InitPast
  <2>3. ~ExitPast(p) /\ ~ExitPast(p)'
    BY <1>1, <1>2 DEF ExitPast
  <2> QED
    BY <2>2, <2>3
<1> QED
  BY <1>2, <1>3, <1>4, NothingPassed

\* An exitcall.
LEMMA ExitcallStep ==
  ASSUME Dummy \notin Modules, NEW n \in Nat, ModuleInv(n), Inits!do_one_exitcall
  PROVE  ModuleInv(n)'
<1>1. /\ ModuleType(n) /\ st.pc = "exit" /\ st.fn \in 1..(n + 1)
      /\ LinkOrder(st.link, n) /\ st.called \in Seq(Calls) /\ st.at \in [Modules -> Inits!Levels]
  BY DEF ModuleInv, ModuleType, Inits!do_one_exitcall
<1>2. PICK S : S = Inits!ExitSection /\ Inits!Before(S) /\ st' = Inits!Call("exit", S)
  BY DEF Inits!do_one_exitcall
<1>3. S = 1..n
  BY <1>1, <1>2 DEF Inits!ExitSection, LinkOrder
<1>4. PICK p : p = Inits!Min(Inits!From(S)) /\ p \in S /\ p >= st.fn /\ \A q \in S : q >= st.fn => p <= q
  <2>1. S \in SUBSET (1..n) /\ st.fn \in Nat
    BY <1>1, <1>3
  <2> QED
    BY <1>2, <2>1, FirstFrom
<1>5. p \in 1..n /\ st.link[p] \in Entries
  BY <1>1, <1>3, <1>4 DEF LinkOrder
<1>6. PICK c \in Calls : c = <<"exit", st.link[p]>>
  BY <1>5 DEF Calls
<1>7. PICK s \in Seq(Calls) : s = Append(st.called, c)
  <2>1. st.called \in Seq(Calls) /\ \A a \in Seq(Calls) : \A b \in Calls : Append(a, b) \in Seq(Calls)
    BY <1>1
  <2> QED
    BY <1>6, <2>1, Zenon
<1>8. st' = [ link |-> st.link, at |-> st.at, pc |-> "exit", level |-> st.level, fn |-> p + 1, called |-> s ]
  BY <1>1, <1>2, <1>4, <1>6, <1>7 DEF Inits!Call, ModuleType
<1>9. ModuleType(n)'
  <2>1. p + 1 \in 1..(n + 1)
    BY <1>5
  <2> QED
    BY <1>1, <1>7, <1>8, <2>1 DEF ModuleType
<1>10. ASSUME NEW m \in Modules, NEW q \in 1..n, st.link[q] = m
       PROVE  /\ InitPast(q, m)' => Once(s, <<"init", m>>)
              /\ ~InitPast(q, m)' => NotYet(s, <<"init", m>>)
              /\ ExitPast(q)' => Once(s, <<"exit", m>>)
              /\ ~ExitPast(q)' => NotYet(s, <<"exit", m>>)
  <2>1. InitPast(q, m) /\ InitPast(q, m)'
    BY <1>1, <1>8 DEF InitPast
  <2>2. Once(s, <<"init", m>>)
    <3>1. Once(st.called, <<"init", m>>) /\ c # <<"init", m>>
      BY <1>6, <1>10, <2>1 DEF ModuleInv
    <3> QED
      BY <1>1, <1>6, <1>7, <3>1, CallAppended
  <2>3. CASE q = p
    <3>1. c = <<"exit", m>>
      BY <1>6, <1>10, <2>3
    <3>2. ~ExitPast(q) /\ ExitPast(q)'
      BY <1>1, <1>4, <1>5, <1>8, <2>3 DEF ExitPast
    <3>3. Once(s, <<"exit", m>>)
      <4>1. NotYet(st.called, <<"exit", m>>)
        BY <1>10, <3>2 DEF ModuleInv
      <4>2. NotYet(st.called, c)
        BY <3>1, <4>1
      <4>3. Once(s, c)
        BY <1>1, <1>6, <1>7, <4>2, CallAppended
      <4> QED
        BY <3>1, <4>3
    <3> QED
      BY <2>1, <2>2, <3>2, <3>3
  <2>4. CASE q # p
    <3>1. c # <<"exit", m>>
      BY <1>1, <1>5, <1>6, <1>10, <2>4 DEF LinkOrder
    <3>2. q < st.fn <=> q < p + 1
      <4>1. q >= st.fn => p <= q
        BY <1>3, <1>4
      <4> QED
        BY <1>1, <1>4, <1>5, <2>4, <4>1
    <3>3. ExitPast(q)' <=> ExitPast(q)
      BY <1>1, <1>8, <3>2 DEF ExitPast
    <3>4. /\ ExitPast(q) => Once(st.called, <<"exit", m>>)
          /\ ~ExitPast(q) => NotYet(st.called, <<"exit", m>>)
      BY <1>10 DEF ModuleInv
    <3>5. /\ Once(st.called, <<"exit", m>>) => Once(s, <<"exit", m>>)
          /\ NotYet(st.called, <<"exit", m>>) => NotYet(s, <<"exit", m>>)
      BY <1>1, <1>6, <1>7, <3>1, CallAppended
    <3> QED
      BY <2>1, <2>2, <3>3, <3>4, <3>5
  <2> QED
    BY <2>3, <2>4
<1>11. NoneBehind(s, st.at)
  <2>1. \A m \in Modules : c # <<"init", m>>
    BY <1>6
  <2>2. \A m \in Modules : ~(st.at[m] < st.at[m])
    <3>1. ASSUME NEW m \in Modules PROVE ~(st.at[m] < st.at[m])
      <4>1. st.at[m] \in Inits!Levels
        BY <1>1
      <4>2. \A l \in Inits!Levels : ~(l < l)
        BY DEF Inits!Levels
      <4> QED
        BY <4>1, <4>2
    <3> QED
      BY <3>1
  <2>3. NoneBehind(st.called, st.at)
    BY DEF ModuleInv
  <2> QED
    BY <1>1, <1>6, <1>7, <2>1, <2>2, <2>3, OrderAppended
<1> QED
  BY <1>8, <1>9, <1>10, <1>11 DEF ModuleInv

\* main returns.
LEMMA ExitDoneStep ==
  ASSUME NEW n \in Nat, ModuleInv(n), Inits!ExitDone
  PROVE  ModuleInv(n)'
<1>1. ModuleType(n) /\ st.pc = "exit" /\ st.fn \in 1..(n + 1) /\ LinkOrder(st.link, n)
  BY DEF ModuleInv, ModuleType, Inits!ExitDone
<1>2. st' = [ link |-> st.link, at |-> st.at, pc |-> "done", level |-> st.level, fn |-> st.fn, called |-> st.called ]
  BY <1>1 DEF Inits!ExitDone, ModuleType
<1>3. \A q \in 1..n : q < st.fn
  <2>1. Inits!From(Inits!ExitSection) = {}
    BY DEF Inits!ExitDone, Inits!Before
  <2>2. DOMAIN st.link = 1..n
    BY <1>1 DEF LinkOrder
  <2> QED
    BY <1>1, <2>1, <2>2 DEF Inits!From, Inits!ExitSection
<1>4. ModuleType(n)'
  BY <1>1, <1>2 DEF ModuleType
<1>5. ASSUME NEW m \in Modules, NEW p \in 1..n, st.link[p] = m
      PROVE  (InitPast(p, m)' <=> InitPast(p, m)) /\ (ExitPast(p)' <=> ExitPast(p))
  BY <1>1, <1>2, <1>3 DEF InitPast, ExitPast
<1> QED
  BY <1>2, <1>4, <1>5, NothingPassed

\* Every step of the program.
LEMMA ModuleStep ==
  ASSUME Inits!ModuleAssumption, NEW n \in Nat, ModuleInv(n), [Inits!Next]_st
  PROVE  ModuleInv(n)'
<1>1. Dummy \notin Modules
  BY DEF Inits!ModuleAssumption
<1>2. CASE Inits!Next
  BY <1>1, <1>2, InitcallStep, NextLevelStep, InitDoneStep, ExitcallStep, ExitDoneStep DEF Inits!Next
<1>3. CASE UNCHANGED st
  <2>1. ModuleType(n)'
    BY <1>3 DEF ModuleInv, ModuleType
  <2>2. \A m \in Modules : \A p \in 1..n : (InitPast(p, m)' <=> InitPast(p, m)) /\ (ExitPast(p)' <=> ExitPast(p))
    BY <1>3 DEF InitPast, ExitPast
  <2> QED
    BY <1>3, <2>1, <2>2, NothingPassed
<1> QED
  BY <1>2, <1>3

\* Nothing is called at first.
LEMMA ModuleStart ==
  ASSUME Inits!ModuleAssumption, Inits!Init
  PROVE  \E n \in Nat : ModuleInv(n)
<1>1. IsFiniteSet(Modules)
  BY SameFiniteSets DEF Inits!ModuleAssumption
<1>2. PICK link \in Inits!SetToSeqs(Modules \cup {Dummy}), at \in [Modules -> Inits!Levels] :
        st = [ link |-> link, at |-> at, pc |-> "init", level |-> 1, fn |-> 1, called |-> <<>> ]
  BY DEF Inits!Init
<1>3. PICK n \in Nat : LinkOrder(link, n)
  BY <1>1, LinkComplete
<1>4. ModuleType(n)
  <2>1. 1 \in 1..4 /\ 1 \in 1..(n + 1) /\ <<>> \in Seq(Calls)
    OBVIOUS
  <2> QED
    BY <1>2, <1>3, <2>1 DEF ModuleType
<1>5. \A c : NotYet(st.called, c)
  BY <1>2 DEF NotYet
<1>6. ASSUME NEW m \in Modules, NEW p \in 1..n PROVE ~InitPast(p, m) /\ ~ExitPast(p)
  BY <1>2 DEF InitPast, ExitPast
<1>7. NoneBehind(st.called, st.at)
  BY <1>2 DEF NoneBehind
<1> QED
  BY <1>4, <1>5, <1>6, <1>7 DEF ModuleInv

\* The invariant gives CallsByLevel.
LEMMA ModuleImplies ==
  ASSUME NEW n \in Nat, ModuleInv(n)
  PROVE  Inits!CallsByLevel
<1>1. ModuleType(n) /\ st.called \in Seq(Calls) /\ LinkOrder(st.link, n)
  BY DEF ModuleInv, ModuleType
<1>2. DOMAIN st.called = 1..Len(st.called)
  BY <1>1
<1>3. Inits!InOrder
  <2>1. NoneBehind(st.called, st.at)
    BY DEF ModuleInv
  <2> QED
    BY <1>2, <2>1 DEF NoneBehind, Inits!InOrder, Inits!Positions
<1>4. ASSUME NEW kind, NEW m, Once(st.called, <<kind, m>>)
      PROVE  Inits!Cardinality(Inits!Positions(kind, m)) = 1
  <2>1. PICK i \in 1..Len(st.called) : \A k \in 1..Len(st.called) : st.called[k] = <<kind, m>> <=> k = i
    BY <1>4 DEF Once
  <2>2. Inits!Positions(kind, m) = {i}
    BY <1>2, <2>1 DEF Inits!Positions
  <2> QED
    BY <2>2, FS_Singleton, SameFiniteSets
<1>5. ASSUME st.pc = "done", NEW m \in Modules
      PROVE  Once(st.called, <<"init", m>>) /\ Once(st.called, <<"exit", m>>)
  <2>1. PICK p \in 1..n : st.link[p] = m
    BY <1>1 DEF LinkOrder
  <2>2. InitPast(p, m) /\ ExitPast(p)
    BY <1>5 DEF InitPast, ExitPast
  <2> QED
    BY <2>1, <2>2 DEF ModuleInv
<1>6. Inits!CalledOnce
  BY <1>4, <1>5 DEF Inits!CalledOnce
<1> QED
  BY <1>3, <1>6 DEF Inits!CallsByLevel

CallsInv == prog = "module" => \E n \in Nat : ModuleInv(n)

\* CallsByLevel: do_initcalls and do_exitcalls call every registered function
\* once, the levels in order and the exitcalls behind, for any set of modules,
\* any levels and any order the linker chooses.
THEOREM CallsInOrder == ProgramSpec => []CallsByLevel
<1>1. ProgramInit => CallsInv
  BY ProgramsAssumption, ModuleStart DEF ProgramInit, ProgramsAssumption, CallsInv
<1>2. CallsInv /\ [ProgramNext]_<<prog, st>> => CallsInv'
  <2>1. [ProgramNext]_<<prog, st>> => prog' = prog /\ (prog = "module" => [Inits!Next]_st)
    BY DEF ProgramNext, Only
  <2> QED
    BY <2>1, ProgramsAssumption, ModuleStep DEF ProgramsAssumption, CallsInv
<1>3. CallsInv => CallsByLevel
  BY ModuleImplies DEF CallsInv, CallsByLevel
<1> QED
  BY <1>1, <1>2, <1>3, PTL DEF ProgramSpec

-----------------------------------------------------------------------------
(* lib/cvector.c used as examples/vector uses it, for any set of objects.  *)
(* VecInv fixes the number of objects before the first terminator, so each *)
(* walk to the terminator is known to end and where (CountOf); every       *)
(* operation is one change of Vec, and the deque is the cells before it.   *)

Cells == Objects \cup {NULL}

\* A block p whose terminator is behind n objects, none of them twice.
Vec(p, n) ==
  /\ p \in Seq(Cells) /\ n \in Nat /\ n <= Len(p)
  /\ p # <<>> => n < Len(p) /\ p[n + 1] = NULL
  /\ \A i \in 1..n : p[i] \in Objects
  /\ \A i, k \in 1..n : p[i] = p[k] => i = k

Held == {ptrs[i] : i \in 1..countv}

VecInv == Vec(ptrs, countv) /\ allocated = Held /\ freed = {}

\* The walk to the terminator counts the objects before it.
LEMMA CountOf ==
  ASSUME NEW p, NEW n, Vec(p, n)
  PROVE  LET S == {i \in 1..Len(p) : p[i] = NULL}
         IN  n = IF S = {} THEN Len(p) ELSE Min(S) - 1
<1> DEFINE S == {i \in 1..Len(p) : p[i] = NULL}
<1>1. p \in Seq(Cells) /\ n \in Nat /\ Len(p) \in Nat /\ n <= Len(p)
  BY LenProperties DEF Vec
<1>2. CASE p = <<>>
  <2>1. Len(p) = 0 /\ n = 0 /\ S = {}
    BY <1>1, <1>2
  <2> QED
    BY <2>1
<1>3. CASE p # <<>>
  <2>1. n + 1 \in S
    BY <1>1, <1>3 DEF Vec
  <2>2. \A i \in S : n + 1 <= i
    BY <1>1, CvectorAssumption DEF CvectorAssumption, Vec
  <2>3. \A x \in S : (\A y \in S : x <= y) => x = n + 1
    BY <1>1, <2>1, <2>2
  <2> HIDE DEF S
  <2>4. Min(S) = n + 1
    BY <2>1, <2>2, <2>3 DEF Min
  <2>5. n = IF S = {} THEN Len(p) ELSE Min(S) - 1
    BY <1>1, <2>1, <2>4
  <2> QED
    BY <2>5, Zenon DEF S
<1> QED
  BY <1>2, <1>3

\* What SubSeq takes off the front.
LEMMA Prefix ==
  ASSUME NEW p \in Seq(Cells), NEW n \in 0..Len(p)
  PROVE  /\ SubSeq(p, 1, n) \in Seq(Cells) /\ Len(SubSeq(p, 1, n)) = n
         /\ \A i \in 1..n : SubSeq(p, 1, n)[i] = p[i]
<1>1. Len(p) \in Nat /\ \A i \in 1..n : p[i] \in Cells
  BY LenProperties, ElementOfSeq
<1> QED
  BY <1>1, SubSeqProperties

\* The contents are the cells before the terminator.
LEMMA ContentsAre ==
  ASSUME Vec(ptrs, countv)
  PROVE  /\ Contents \in Seq(Cells) /\ Len(Contents) = countv
         /\ \A i \in 1..countv : Contents[i] = ptrs[i]
<1>1. ptrs \in Seq(Cells) /\ countv \in 0..Len(ptrs)
  BY LenProperties DEF Vec
<1> QED
  BY <1>1, Prefix DEF Contents

\* pushv puts x behind the objects and a terminator behind x.
LEMMA PushStep ==
  ASSUME VecInv, NEW x \in Objects, pushv(x)
  PROVE  VecInv' /\ Contents' = Append(Contents, x)
<1> DEFINE n == countv
<1>1. Vec(ptrs, n)
  BY DEF VecInv
<1>2. Contents \in Seq(Cells) /\ Len(Contents) = n /\ \A i \in 1..n : Contents[i] = ptrs[i]
  BY <1>1, ContentsAre
<1>3. n \in Nat /\ \A i \in 1..n : ptrs[i] \in Objects
  BY <1>1 DEF Vec
<1>4. x \notin Held
  BY DEF VecInv, pushv
<1> HIDE DEF n
<1>5. <<x, NULL>> \in Seq(Cells) /\ Len(<<x, NULL>>) = 2
  BY DEF Cells
<1>6. /\ ptrs' \in Seq(Cells) /\ Len(ptrs') = n + 2
      /\ \A i \in 1..n : ptrs'[i] = ptrs[i]
      /\ ptrs'[n + 1] = x /\ ptrs'[n + 2] = NULL
  <2>1. ptrs' = Contents \o <<x, NULL>>
    BY DEF pushv
  <2>2. ptrs' \in Seq(Cells) /\ Len(ptrs') = n + 2
    BY <1>2, <1>3, <1>5, <2>1, ConcatProperties
  <2>3. \A i \in 1..(n + 2) : ptrs'[i] = IF i <= n THEN Contents[i] ELSE <<x, NULL>>[i - n]
    BY <1>2, <1>3, <1>5, <2>1, ConcatProperties
  <2> QED
    BY <1>2, <1>3, <2>2, <2>3, SMTT(60)
<1>7. \A i \in 1..n : ptrs[i] # x
  BY <1>4 DEF Held, n
<1>8. Vec(ptrs', n + 1)
  BY <1>1, <1>3, <1>6, <1>7 DEF Vec
<1>9. countv' = n + 1
  BY <1>8, CountOf DEF countv, Ends
<1>10. VecInv'
  <2>1. Held' = Held \cup {x}
    BY <1>3, <1>6, <1>9 DEF Held, n
  <2> QED
    BY <1>8, <1>9, <2>1 DEF VecInv, pushv
<1>11. Contents' = Append(Contents, x)
  <2>1. Contents' \in Seq(Cells) /\ Len(Contents') = n + 1 /\ \A i \in 1..(n + 1) : Contents'[i] = ptrs'[i]
    BY <1>3, <1>6, <1>9, Prefix DEF Contents
  <2>2. /\ Append(Contents, x) \in Seq(Cells) /\ Len(Append(Contents, x)) = n + 1
        /\ \A i \in 1..(n + 1) : Append(Contents, x)[i] = IF i <= n THEN Contents[i] ELSE x
    BY <1>2, <1>3, AppendProperties DEF Cells
  <2>3. \A i \in 1..(n + 1) : Contents'[i] = Append(Contents, x)[i]
    BY <1>2, <1>3, <1>6, <2>1, <2>2
  <2> QED
    BY <2>1, <2>2, <2>3, SeqEqual
<1> QED
  BY <1>10, <1>11

\* popv overwrites the last object with a second terminator and frees it.
LEMMA PopStep ==
  ASSUME VecInv, popv
  PROVE  /\ VecInv' /\ Contents # <<>> /\ popped' = Contents[Len(Contents)]
         /\ Contents' = SubSeq(Contents, 1, Len(Contents) - 1)
<1> DEFINE n == countv
<1>1. Vec(ptrs, n) /\ n > 0
  BY DEF VecInv, popv
<1>2. Contents \in Seq(Cells) /\ Len(Contents) = n /\ \A i \in 1..n : Contents[i] = ptrs[i]
  BY <1>1, ContentsAre
<1>3. n \in Nat /\ n <= Len(ptrs) /\ Len(ptrs) \in Nat /\ ptrs \in Seq(Cells) /\ \A i \in 1..n : ptrs[i] \in Objects
  BY <1>1, LenProperties DEF Vec
<1>4. ptrs' = [ptrs EXCEPT ![n] = NULL] /\ popped' = ptrs[n] /\ FreeObjects({ptrs[n]})
  BY DEF popv
<1>5. Held = {ptrs[i] : i \in 1..n}
  BY DEF Held
<1> HIDE DEF n
<1>6. /\ ptrs' \in Seq(Cells) /\ Len(ptrs') = Len(ptrs) /\ ptrs'[n] = NULL
      /\ \A i \in 1..(n - 1) : ptrs'[i] = ptrs[i]
  <2>1. n \in 1..Len(ptrs) /\ NULL \in Cells
    BY <1>1, <1>3 DEF Cells
  <2>2. ptrs' \in Seq(Cells) /\ Len(ptrs') = Len(ptrs)
    BY <1>3, <1>4, <2>1, ExceptSeq
  <2>3. ptrs'[n] = NULL /\ \A i \in 1..(n - 1) : ptrs'[i] = ptrs[i]
    BY <1>3, <1>4, <2>1, ExceptSeq
  <2> QED
    BY <2>2, <2>3
<1>7. Vec(ptrs', n - 1)
  BY <1>1, <1>3, <1>6 DEF Vec
<1>8. countv' = n - 1
  BY <1>7, CountOf DEF countv, Ends
<1>9. VecInv'
  <2>1. Held' = {ptrs[i] : i \in 1..(n - 1)}
    BY <1>3, <1>6, <1>8 DEF Held
  <2>2. \A i \in 1..(n - 1) : ptrs[i] # ptrs[n]
    BY <1>1, <1>3 DEF Vec
  <2>3. Held' = Held \ {ptrs[n]} /\ ptrs[n] \in Held
    BY <1>1, <1>3, <1>5, <2>1, <2>2
  <2> QED
    BY <1>4, <1>7, <1>8, <2>3 DEF VecInv, FreeObjects
<1>10. Contents' = SubSeq(Contents, 1, n - 1)
  <2>1. Contents' \in Seq(Cells) /\ Len(Contents') = n - 1 /\ \A i \in 1..(n - 1) : Contents'[i] = ptrs'[i]
    BY <1>1, <1>3, <1>6, <1>8, Prefix DEF Contents
  <2>2. n - 1 \in 0..Len(Contents)
    BY <1>1, <1>2, <1>3
  <2>3. /\ SubSeq(Contents, 1, n - 1) \in Seq(Cells) /\ Len(SubSeq(Contents, 1, n - 1)) = n - 1
        /\ \A i \in 1..(n - 1) : SubSeq(Contents, 1, n - 1)[i] = Contents[i]
    BY <1>2, <2>2, Prefix
  <2>4. \A i \in 1..(n - 1) : Contents'[i] = SubSeq(Contents, 1, n - 1)[i]
    BY <1>2, <1>3, <1>6, <2>1, <2>3
  <2> QED
    BY <2>1, <2>3, <2>4, SeqEqual
<1>11. Contents # <<>> /\ popped' = Contents[n]
  BY <1>1, <1>2, <1>3, <1>4
<1> QED
  BY <1>2, <1>9, <1>10, <1>11

\* popv_front moves every object, and the terminator, one cell down.
LEMMA PopFrontStep ==
  ASSUME VecInv, popv_front
  PROVE  /\ VecInv' /\ Contents # <<>> /\ popped' = Head(Contents)
         /\ Contents' = Tail(Contents)
<1> DEFINE n == countv
<1>1. Vec(ptrs, n) /\ n > 0 /\ ptrs # <<>>
  BY DEF VecInv, popv_front
<1>2. Contents \in Seq(Cells) /\ Len(Contents) = n /\ \A i \in 1..n : Contents[i] = ptrs[i]
  BY <1>1, ContentsAre
<1>3. /\ n \in Nat /\ n < Len(ptrs) /\ Len(ptrs) \in Nat /\ ptrs[n + 1] = NULL
      /\ \A i \in 1..n : ptrs[i] \in Objects
      /\ \A i \in 1..Len(ptrs) : ptrs[i] \in Cells
  BY <1>1, LenProperties, ElementOfSeq DEF Vec
<1>4. /\ ptrs' = [i \in 1..Len(ptrs) |-> IF i <= n THEN ptrs[i + 1] ELSE ptrs[i]]
      /\ popped' = ptrs[1] /\ FreeObjects({ptrs[1]})
  BY DEF popv_front
<1>5. Held = {ptrs[i] : i \in 1..n}
  BY DEF Held
<1> HIDE DEF n
<1>6. /\ ptrs' \in Seq(Cells) /\ Len(ptrs') = Len(ptrs)
      /\ \A i \in 1..n : ptrs'[i] = ptrs[i + 1]
  <2>1. \A i \in 1..Len(ptrs) : (IF i <= n THEN ptrs[i + 1] ELSE ptrs[i]) \in Cells
    BY <1>3
  <2>2. ptrs' \in Seq(Cells) /\ Len(ptrs') = Len(ptrs)
    BY <1>3, <1>4, <2>1
  <2> QED
    BY <1>3, <1>4, <2>2
<1>7. Vec(ptrs', n - 1)
  <2>1. \A i \in 1..(n - 1) : ptrs'[i] = ptrs[i + 1] /\ i + 1 \in 1..n /\ ptrs'[i] \in Objects
    BY <1>3, <1>6
  <2>2. ASSUME NEW i \in 1..(n - 1), NEW k \in 1..(n - 1), ptrs'[i] = ptrs'[k] PROVE i = k
    <3>1. i + 1 = k + 1
      BY <1>1, <2>1, <2>2 DEF Vec
    <3> QED
      BY <3>1
  <2>3. ptrs'[n] = NULL /\ (n - 1) + 1 = n
    BY <1>1, <1>3, <1>6
  <2>4. n - 1 \in Nat /\ n - 1 < Len(ptrs')
    BY <1>1, <1>3, <1>6
  <2> QED
    BY <1>6, <2>1, <2>2, <2>3, <2>4 DEF Vec
<1>8. countv' = n - 1
  BY <1>7, CountOf DEF countv, Ends
<1>9. VecInv'
  <2>1. Held' = {ptrs'[i] : i \in 1..(n - 1)}
    BY <1>8 DEF Held
  <2>2. \A i \in 2..n : ptrs[i] # ptrs[1] /\ i - 1 \in 1..(n - 1) /\ ptrs'[i - 1] = ptrs[i]
    BY <1>1, <1>3, <1>6 DEF Vec
  <2>3. \A i \in 1..(n - 1) : ptrs'[i] = ptrs[i + 1] /\ i + 1 \in 2..n
    BY <1>3, <1>6
  <2>4. \A y : y \in Held' <=> y \in Held /\ y # ptrs[1]
    <3>1. ASSUME NEW y \in Held' PROVE y \in Held /\ y # ptrs[1]
      <4>1. PICK i \in 1..(n - 1) : y = ptrs'[i]
        BY <2>1, <3>1
      <4> QED
        BY <1>3, <1>5, <2>2, <2>3, <4>1, SMTT(60)
    <3>2. ASSUME NEW y \in Held, y # ptrs[1] PROVE y \in Held'
      <4>1. PICK i \in 1..n : y = ptrs[i]
        BY <1>5, <3>2
      <4>2. i \in 2..n
        BY <1>3, <3>2, <4>1
      <4> QED
        BY <2>1, <2>2, <4>1, <4>2
    <3> QED
      BY <3>1, <3>2
  <2>5. Held' = Held \ {ptrs[1]} /\ ptrs[1] \in Held
    BY <1>1, <1>3, <1>5, <2>4
  <2> QED
    BY <1>4, <1>7, <1>8, <2>5 DEF VecInv, FreeObjects
<1>10. Contents # <<>> /\ popped' = Head(Contents)
  BY <1>1, <1>2, <1>3, <1>4
<1>11. Contents' = Tail(Contents)
  <2>1. Contents' \in Seq(Cells) /\ Len(Contents') = n - 1 /\ \A i \in 1..(n - 1) : Contents'[i] = ptrs'[i]
    BY <1>1, <1>3, <1>6, <1>8, Prefix DEF Contents
  <2>2. /\ Tail(Contents) \in Seq(Cells) /\ Len(Tail(Contents)) = n - 1
        /\ \A i \in 1..(n - 1) : Tail(Contents)[i] = Contents[i + 1]
    BY <1>2, <1>10, HeadTailProperties
  <2>3. \A i \in 1..(n - 1) : Contents'[i] = Tail(Contents)[i]
    BY <1>2, <1>3, <1>6, <2>1, <2>2
  <2> QED
    BY <2>1, <2>2, <2>3, SeqEqual
<1> QED
  BY <1>9, <1>10, <1>11

\* freev frees exactly what is allocated.
LEMMA FreeStep ==
  ASSUME VecInv, freev
  PROVE  VecInv' /\ Contents' = <<>> /\ popped' = popped
<1>1. ptrs' = <<>> /\ FreeObjects(Held) /\ popped' = popped
  BY DEF freev, Held
<1>2. Vec(ptrs', 0)
  BY <1>1 DEF Vec
<1>3. countv' = 0
  BY <1>2, CountOf DEF countv, Ends
<1>4. Held' = {}
  BY <1>3 DEF Held
<1>5. VecInv'
  BY <1>1, <1>2, <1>3, <1>4 DEF VecInv, FreeObjects
<1>6. Contents' = <<>>
  BY <1>1, <1>3 DEF Contents
<1> QED
  BY <1>1, <1>5, <1>6
-----------------------------------------------------------------------------
(* The theorems                                                            *)

\* Init establishes the invariant.
LEMMA VecStart == Init => VecInv /\ Contents = <<>>
<1> SUFFICES ASSUME Init PROVE VecInv /\ Contents = <<>>
  OBVIOUS
<1>1. Vec(ptrs, 0)
  BY DEF Init, Vec
<1>2. countv = 0
  BY <1>1, CountOf DEF countv, Ends
<1>3. Held = {}
  BY <1>2 DEF Held
<1> QED
  BY <1>1, <1>2, <1>3 DEF VecInv, Init, Contents

\* Steps that leave the vector as it is.
LEMMA VecIdle ==
  ASSUME VecInv, UNCHANGED <<ptrs, allocated, freed>>
  PROVE  VecInv' /\ Contents' = Contents /\ countv' = countv
<1>1. countv' = countv
  BY DEF countv, Ends
<1> QED
  BY <1>1 DEF VecInv, Vec, Held, Contents

\* Every call preserves the invariant.
LEMMA VecNext == VecInv /\ [Next]_vars => VecInv'
<1> SUFFICES ASSUME VecInv, [Next]_vars PROVE VecInv'
  OBVIOUS
<1>1. ASSUME NEW x \in Objects, pushv(x) PROVE VecInv'
  BY <1>1, PushStep
<1>2. ASSUME NEW x \in Objects, pushv_fails(x) PROVE VecInv'
  BY <1>2, VecIdle DEF pushv_fails, vars
<1>3. CASE popv
  BY <1>3, PopStep
<1>4. CASE popv_front
  BY <1>4, PopFrontStep
<1>5. CASE pop_nothing
  BY <1>5, VecIdle DEF pop_nothing
<1>6. CASE freev
  BY <1>6, FreeStep
<1>7. CASE UNCHANGED vars
  BY <1>7, VecIdle DEF vars
<1> QED
  BY <1>1, <1>2, <1>3, <1>4, <1>5, <1>6, <1>7 DEF Next

\* The invariant says what EachObjectOnce says: the cells before the
\* terminator count the objects.
LEMMA VecImplies == VecInv => EachObjectOnce
<1> SUFFICES ASSUME VecInv PROVE EachObjectOnce
  OBVIOUS
<1>1. Vec(ptrs, countv) /\ countv \in Nat /\ allocated = Held /\ freed = {}
  BY DEF VecInv, Vec
<1>2. ptrs # <<>> => Ends # {}
  <2> SUFFICES ASSUME ptrs # <<>> PROVE Ends # {}
    OBVIOUS
  <2>1. countv + 1 \in 1..Len(ptrs) /\ ptrs[countv + 1] = NULL
    BY <1>1, LenProperties DEF Vec
  <2> QED
    BY <2>1 DEF Ends
<1>3. Cardinality(Held) = countv
  <2> DEFINE n == countv
             f == [i \in 1..n |-> ptrs[i]]
  <2>1. n \in Nat /\ Held = {ptrs[i] : i \in 1..n} /\ \A i, k \in 1..n : ptrs[i] = ptrs[k] => i = k
    BY <1>1 DEF Held, Vec
  <2> HIDE DEF n
  <2>2. f \in Bijection(1..n, Held)
    BY <2>1 DEF Bijection, Injection, Surjection, IsInjective
  <2>3. IsFiniteSet(1..n) /\ Cardinality(1..n) = n
    BY <2>1, FS_Interval
  <2>4. Cardinality(Held) = Cardinality(1..n)
    BY <2>2, <2>3, FS_Bijection DEF ExistsBijection
  <2> QED
    BY <2>3, <2>4 DEF n
<1> QED
  BY <1>1, <1>2, <1>3 DEF EachObjectOnce, Held

\* EachObjectOnce: no sequence of pushes and pops at either end removes the
\* last terminator, and what is in the vector is exactly what is allocated,
\* each object once, so that freev neither misses one nor frees one twice.
THEOREM EveryObjectIsHeldOnce == Spec => []EachObjectOnce
BY VecStart, VecNext, VecImplies, PTL DEF Spec

\* ImplementsDeque: pushv, popv, popv_front and freev are the operations of
\* one sequence, whatever stale cells are behind the terminator.
THEOREM VectorIsADeque == Spec => ImplementsDeque
<1>1. Init => Vector!Init
  BY VecStart DEF Init, Vector!Init
<1>2. VecInv /\ [Next]_vars => [Vector!Next]_Vector!vars
  <2> SUFFICES ASSUME VecInv, [Next]_vars PROVE [Vector!Next]_Vector!vars
    OBVIOUS
  <2>1. ASSUME NEW x \in Objects, pushv(x) PROVE Vector!Push(x)
    BY <2>1, PushStep DEF Vector!Push, pushv
  <2>2. ASSUME NEW x \in Objects, pushv_fails(x) PROVE UNCHANGED Vector!vars
    BY <2>2, VecIdle DEF pushv_fails, vars, Vector!vars
  <2>3. CASE popv
    BY <2>3, PopStep DEF Vector!Pop, Vector!Next
  <2>4. CASE popv_front
    BY <2>4, PopFrontStep DEF Vector!PopFront, Vector!Next
  <2>5. CASE pop_nothing
    <3>1. Contents = <<>>
      BY <2>5, ContentsAre DEF pop_nothing, VecInv
    <3> QED
      BY <2>5, <3>1, VecIdle DEF pop_nothing, Vector!PopNothing, Vector!Next
  <2>6. CASE freev
    BY <2>6, FreeStep DEF Vector!Free, Vector!Next
  <2>7. CASE UNCHANGED vars
    BY <2>7, VecIdle DEF vars, Vector!vars
  <2> QED
    BY <2>1, <2>2, <2>3, <2>4, <2>5, <2>6, <2>7 DEF Next, Vector!Next
<1> QED
  BY <1>1, <1>2, VecStart, VecNext, PTL DEF Spec, ImplementsDeque, Vector!Spec
=============================================================================
