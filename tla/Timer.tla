------------------------------- MODULE Timer -------------------------------
(***************************************************************************)
(* posix/timer/timer.c: a POSIX timer steered by keys.  Time is counted in *)
(* ticks.  An itimerspec is the remaining time and the interval to reload; *)
(* a remaining time of 0 is a disarmed timer, and Invalid one whose        *)
(* nanoseconds are out of range.  stored_value is not initialised, so the  *)
(* first state chooses it.  Where timer_settime or timer_gettime fails the *)
(* program reports it and continues, which changes nothing.                *)
(***************************************************************************)
EXTENDS Integers

CONSTANTS
  Period,      \* the five seconds of default_value and once_value
  Garbage,     \* ticks stored_value may hold before it is written
  MaxOverrun   \* expirations counted while SIGALRM is pending

Invalid == -1

TimerAssumption ==
  /\ Period \in Nat \ {0} /\ MaxOverrun \in Nat
  /\ Garbage \subseteq Nat

VARIABLE st   \* the state of the program, a record

(* ran describes the countdown in tim, held the one in stored_value: the   *)
(* ticks it has run since it was loaded and the interval it was loaded     *)
(* with.  Unknown is no countdown, or one from uninitialised memory.       *)
Unknown == [ticks |-> -1, interval |-> 0]
Loaded(interval) == [ticks |-> 0, interval |-> interval]

Spec0 == [it_value |-> 0, it_interval |-> 0]
default_value == [it_value |-> Period, it_interval |-> Period]
once_value == [it_value |-> Period, it_interval |-> 0]

-----------------------------------------------------------------------------
Init ==
  \E stored \in [it_value : Garbage \cup {Invalid}, it_interval : Garbage], icanon, echo \in BOOLEAN :
    st = [ pc |-> "create",
           tim |-> Spec0,                    \* the timer in the kernel
           stored_value |-> stored,
           pending |-> FALSE,                \* SIGALRM was generated, not delivered
           overrun |-> 0,                    \* expirations since (timer_getoverrun)
           icanon |-> icanon, echo |-> echo, \* c_lflag of the terminal
           shown |-> 0,                      \* what the last e or x printed
           ran |-> Unknown, held |-> Unknown ]

\* timer_settime of a new value fails on one that is out of range.
Settable(new) == new.it_value # Invalid

getchar_once(s) == [s EXCEPT !.icanon = FALSE, !.echo = FALSE]
termios_reset(s) == [s EXCEPT !.icanon = TRUE, !.echo = TRUE]

Create == st.pc = "create" /\ \E next \in {"start", "err"} : st' = [st EXCEPT !.pc = next]

Start ==
  /\ st.pc = "start"
  /\ \/ st' = getchar_once([st EXCEPT !.tim = default_value, !.ran = Loaded(Period), !.pc = "loop"])
     \/ st' = [st EXCEPT !.pc = "err"]

\* h, e, x and every other key: the timer is only looked at.
Show ==
  /\ st.pc = "loop"
  /\ \E value \in {st.shown, st.tim.it_value, st.overrun} : st' = [st EXCEPT !.shown = value]

Stopped == [st EXCEPT !.tim = Spec0, !.ran = Unknown]

\* p.  A second pause finds the timer stopped and stores nothing.
Pause_StoresZero ==
  /\ st.pc = "loop"
  /\ st' = [Stopped EXCEPT !.stored_value = st.tim,
                           !.held = IF st.tim.it_value # 0 THEN st.ran ELSE @]
Pause ==
  /\ st.pc = "loop"
  /\ st' = IF st.tim.it_value = 0 THEN Stopped
           ELSE [Stopped EXCEPT !.stored_value = st.tim, !.held = st.ran]

\* r.  The failure of timer_settime leaves stored_value as it is.
Resume ==
  /\ st.pc = "loop" /\ st.stored_value.it_value # 0 /\ Settable(st.stored_value)
  /\ st' = [st EXCEPT !.tim = st.stored_value, !.ran = st.held,
                      !.stored_value = Spec0, !.held = Unknown]

\* i and o.
Restart(new) ==
  /\ st.pc = "loop"
  /\ st' = [st EXCEPT !.tim = new, !.ran = Loaded(new.it_interval)]

Quit == st.pc = "loop" /\ st' = [st EXCEPT !.pc = "end"]

\* timer_delete and termios_reset; also the labels err_timer_delete and err.
End == st.pc \in {"end", "err"} /\ st' = termios_reset([Stopped EXCEPT !.pc = "done"])

\* The kernel: the timer runs, and on expiry is reloaded and signals.
Tick ==
  \/ /\ st.tim.it_value > 1
     /\ st' = [st EXCEPT !.tim.it_value = @ - 1,
                         !.ran = IF @ = Unknown THEN @
                                 ELSE [ticks |-> @.ticks + 1, interval |-> @.interval]]
  \/ /\ st.tim.it_value = 1
     /\ st' = [st EXCEPT !.tim.it_value = st.tim.it_interval,
                         !.ran = IF @ = Unknown THEN @ ELSE Loaded(st.tim.it_interval),
                         !.pending = TRUE,
                         !.overrun = IF ~st.pending THEN 0 ELSE IF @ < MaxOverrun THEN @ + 1 ELSE @]

alrm_handler == st.pending /\ st' = [st EXCEPT !.pending = FALSE]

Next ==
  \/ Create \/ Start \/ Show \/ Pause \/ Resume \/ Quit \/ End
  \/ Restart(default_value) \/ Restart(once_value)
  \/ Tick \/ alrm_handler

Spec == Init /\ [][Next]_st
-----------------------------------------------------------------------------
(* Properties                                                              *)

Accounts(t, c) ==
  t.it_value > 0 /\ c.ticks + t.it_value = Period /\ t.it_interval = c.interval

\* However often the timer is paused (twice in a row too) and resumed, the
\* countdown is neither lost nor stretched: the ticks it has run and the
\* ticks it has left, in the kernel or in stored_value, make one period, and
\* it keeps the mode it was started in (keys p and r).
CountdownConserved ==
  /\ st.ran # Unknown /\ st.tim.it_value # 0 => Accounts(st.tim, st.ran)
  /\ st.held # Unknown => Accounts(st.stored_value, st.held)

\* Every way out of main, the failed ones included, leaves the terminal in
\* canonical mode with echo (termios_reset).
TerminalReset == st.pc = "done" => st.icanon /\ st.echo
=============================================================================
