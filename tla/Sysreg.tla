------------------------------- MODULE Sysreg -------------------------------
(***************************************************************************)
(* lib/sysreg.c in the order examples/sysreg calls it: write the scratch   *)
(* register, read the four fields of sysreg_info_s from a file each, read  *)
(* the register back.  A call of open may fail, and a read or write may    *)
(* fail or move fewer bytes than asked for.  fread reports a failure as a  *)
(* short count, never as a negative one.                                   *)
(***************************************************************************)
EXTENDS Integers, Sequences

CONSTANTS Size   \* bytes of a field or of the register (4 in the code)

SysregAssumption == Size \in Nat \ {0}

fields == <<"project", "board", "version", "datetime">>

VARIABLE st   \* the state of the program, a record

Init ==
  \E pc \in {"write", "open"} :
    st = [ pc |-> pc, k |-> 1,                  \* the field sysreg_read_info is at
           open |-> {},
           filled |-> [f \in DOMAIN fields |-> 0], \* bytes read into each field
           got |-> -1,                          \* bytes read of the register
           status |-> 0 ]                       \* what main returns

Exit(s, status) == [s EXCEPT !.pc = "done", !.status = status]

\* open, write and close in one call, which nothing else can see.
sysreg_write_scratch ==
  st.pc = "write" /\ (st' = [st EXCEPT !.pc = "open"] \/ st' = Exit(st, -1))

OpenField ==
  /\ st.pc = "open"
  /\ \/ st' = [st EXCEPT !.open = @ \cup {fields[st.k]}, !.pc = "read"]
     \/ st' = Exit(st, -1)

\* fread, the test of its result, and fclose.
ReadField ==
  /\ st.pc = "read"
  /\ \E n \in 0..Size :
       st' = [st EXCEPT !.filled[st.k] = n,
                        !.open = @ \ {fields[st.k]},
                        !.k = IF @ < Len(fields) THEN @ + 1 ELSE @,
                        !.pc = IF st.k < Len(fields) THEN "open" ELSE "print"]

PrintInfo == st.pc = "print" /\ st' = [st EXCEPT !.pc = "scratch"]

sysreg_read_scratch ==
  /\ st.pc = "scratch"
  /\ \/ \E n \in 0..Size : st' = Exit([st EXCEPT !.got = n], 0)
     \/ st' = Exit(st, -1)

Next ==
  sysreg_write_scratch \/ OpenField \/ ReadField \/ PrintInfo \/ sysreg_read_scratch

Spec == Init /\ [][Next]_st
-----------------------------------------------------------------------------
(* Properties                                                              *)

\* At most one file is open at a time and none when main returns, whichever
\* of the calls failed on the way.
FilesClosed ==
  (\A f, g \in st.open : f = g) /\ (st.pc = "done" => st.open = {})
=============================================================================
