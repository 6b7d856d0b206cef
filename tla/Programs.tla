------------------------------ MODULE Programs ------------------------------
(***************************************************************************)
(* The programs that keep their state in one record, side by side: the     *)
(* first state chooses one of them, which then runs alone.                 *)
(***************************************************************************)
EXTENDS Integers, Sequences

CONSTANTS
  Period, Garbage, MaxOverrun,    \* Timer
  NsInS, MaxSec, Word,            \* Timestamp
  Modules, Dummy,                 \* ModuleCalls
  SEND_CNT, BUF_SZ, Capacity, ByteMod,  \* Pipe
  Row, MaxSize,                   \* Printlog
  Size,                           \* Sysreg
  Sep, Char, MaxStr,              \* Substr
  MaxAddrs, MaxFd                 \* Sockets

VARIABLES prog, st

Timers == INSTANCE Timer
Stamps == INSTANCE Timestamp
Inits == INSTANCE ModuleCalls
Pipes == INSTANCE Pipe
Dumps == INSTANCE Printlog
Sysregs == INSTANCE Sysreg
Substrs == INSTANCE Substr WITH MaxLen <- MaxStr
Socks == INSTANCE Sockets

ASSUME ProgramsAssumption ==
  /\ Timers!TimerAssumption /\ Stamps!TimestampAssumption /\ Inits!ModuleAssumption
  /\ Pipes!PipeAssumption /\ Dumps!PrintlogAssumption /\ Sysregs!SysregAssumption
  /\ Substrs!SubstrAssumption /\ Socks!SocketsAssumption

ProgramInit ==
  \/ prog = "timer" /\ Timers!Init
  \/ prog = "timestamp" /\ Stamps!Init
  \/ prog = "module" /\ Inits!Init
  \/ prog = "pipe" /\ Pipes!Init
  \/ prog = "printlog" /\ Dumps!Init
  \/ prog = "sysreg" /\ Sysregs!Init
  \/ prog = "substr" /\ Substrs!Init
  \/ prog = "sockets" /\ Socks!Init

Only(p) == prog = p /\ prog' = p

ProgramNext ==
  \/ Only("timer") /\ Timers!Next
  \/ Only("timestamp") /\ Stamps!Next
  \/ Only("module") /\ Inits!Next
  \/ Only("pipe") /\ Pipes!Next
  \/ Only("printlog") /\ Dumps!Next
  \/ Only("sysreg") /\ Sysregs!Next
  \/ Only("substr") /\ Substrs!Next
  \/ Only("sockets") /\ Socks!Next

ProgramSpec == ProgramInit /\ [][ProgramNext]_<<prog, st>>
-----------------------------------------------------------------------------
(* The properties of the programs, each stated and explained in its module *)

\* Pausing and resuming loses and stretches no countdown (timer.c, p and r).
CountdownConserved == prog = "timer" => Timers!CountdownConserved

\* timestamp_elapsed stores exactly the time since the last reset.
ElapsedExact == prog = "timestamp" => Stamps!ElapsedExact

\* do_initcalls and do_exitcalls go by level and call every function once.
CallsByLevel == prog = "module" => Inits!CallsByLevel

\* sink receives the bytes of source in order and in full chunks.
ChunksInOrder == prog = "pipe" => Pipes!ChunksInOrder

\* sink prints of every full chunk what comes before its first NUL.
PrintedUpToNul == prog = "pipe" => Pipes!PrintedUpToNul

\* sink finds the end of the file and ends.
SinkEnds == <>(prog = "pipe" => Pipes!SinkDone)

\* The dumps of printlog.c print every byte once, in its row and column, and
\* read at most the one byte behind the buffer.
DumpExact == prog = "printlog" => Dumps!DumpExact

\* iter_substr splits a string exactly at its separators.
SplitExact == prog = "substr" => Substrs!SplitExact

\* Every way out of main, whichever call failed, gives back what was taken:
\* the timer restores the terminal, sysreg has closed its files and the echo
\* programs the socket they have made, but none of those accept has returned.
EverythingReturned ==
  /\ prog = "timer" => Timers!TerminalReset
  /\ prog = "sysreg" => Sysregs!FilesClosed
  /\ prog = "sockets" => Socks!SocketsClosed
=============================================================================
