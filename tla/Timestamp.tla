----------------------------- MODULE Timestamp -----------------------------
(***************************************************************************)
(* lib/timestamp.c, driven by the keys of examples/timestamp: a stopwatch  *)
(* made of a silent timer that counts down from the longest period and is  *)
(* reloaded with it.  Seconds and nanoseconds are scaled: NsInS stands for *)
(* TIME_NS_IN_S, MaxSec for INT32_MAX and Word for 2^64.                   *)
(***************************************************************************)
EXTENDS Integers

CONSTANTS NsInS, MaxSec, Word

\* time_t and long have 64 bits, so the period fits a signed word.
TimestampAssumption ==
  /\ NsInS \in Nat \ {0} /\ MaxSec \in Nat \ {0} /\ Word \in Nat
  /\ 2 * MaxSec * NsInS < Word

VARIABLE st   \* the state of the program, a record

PeriodNs == MaxSec * NsInS

Init ==
  st = [ pc |-> "create",
         left |-> 0,    \* nanoseconds the kernel's timer has left; 0 when not set
         elapsed |-> [tv_sec |-> 0, tv_nsec |-> 0],  \* it_value after timestamp_elapsed
         since |-> 0,   \* history: nanoseconds since the last reset, modulo the period
         at |-> 0 ]     \* history: since when elapsed was computed

\* What timer_gettime stores in it_value.
Remaining == [tv_sec |-> st.left \div NsInS, tv_nsec |-> st.left % NsInS]

\* The difference to it_interval in unsigned arithmetic, and ldiv.
Elapsed_NoBorrow(v) ==
  [tv_sec |-> MaxSec - v.tv_sec, tv_nsec |-> (Word - v.tv_nsec) % NsInS]
Elapsed(v) ==
  LET nsec == (MaxSec * NsInS - (v.tv_sec * NsInS + v.tv_nsec)) % Word
  IN  [tv_sec |-> nsec \div NsInS, tv_nsec |-> nsec % NsInS]

timestamp_reset == [st EXCEPT !.left = PeriodNs, !.since = 0]
timestamp_elapsed == [st EXCEPT !.elapsed = Elapsed(Remaining), !.at = st.since]
-----------------------------------------------------------------------------
\* timestamp_create; main gives up when the timer cannot be made or set.
Create ==
  /\ st.pc = "create"
  /\ \/ st' = [timestamp_reset EXCEPT !.pc = "loop"]
     \/ st' = [st EXCEPT !.pc = "done"]

\* Key e.
ShowElapsed == st.pc = "loop" /\ st' = timestamp_elapsed

\* Key r resets and then shows, and time passes in between.
Reset == st.pc = "loop" /\ st' = [timestamp_reset EXCEPT !.pc = "reset"]
ShowReset == st.pc = "reset" /\ st' = [timestamp_elapsed EXCEPT !.pc = "loop"]

\* Key q: timestamp_destory.
Quit == st.pc = "loop" /\ st' = [st EXCEPT !.pc = "done", !.left = 0]

\* The kernel's timer runs, expires silently and is reloaded.
Tick ==
  /\ st.left > 0
  /\ st' = [st EXCEPT !.left = IF @ = 1 THEN PeriodNs ELSE @ - 1,
                      !.since = (@ + 1) % PeriodNs]

Next == Create \/ ShowElapsed \/ Reset \/ ShowReset \/ Quit \/ Tick

Spec == Init /\ [][Next]_st
-----------------------------------------------------------------------------
(* Properties                                                              *)

\* What timestamp_elapsed stores is a well-formed time and exactly the time
\* since the last reset, at every place of the borrow from the seconds.
ElapsedExact ==
  LET e == st.elapsed
  IN  /\ e.tv_nsec \in 0..(NsInS - 1) /\ e.tv_sec \in 0..(MaxSec - 1)
      /\ e.tv_sec * NsInS + e.tv_nsec = st.at
=============================================================================
