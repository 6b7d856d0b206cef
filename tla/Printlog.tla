------------------------------ MODULE Printlog ------------------------------
(***************************************************************************)
(* lib/printlog.c: dump and hexdump of size bytes at p, and fdump and      *)
(* fhexdump, which differ in the stream only.  The output is a sequence of *)
(* cells: the label of a row, a byte in hex, a blank that keeps the        *)
(* columns, a byte as a character.  What a cell looks like is left out, as *)
(* are the title and the line of column numbers.  Row stands for 16.       *)
(***************************************************************************)
EXTENDS Integers, Sequences, SequencesExt

CONSTANTS Row, MaxSize

PrintlogAssumption == Row \in Nat \ {0} /\ MaxSize \in Nat

VARIABLE st   \* the state of one call, a record

Init ==
  \E fun \in {"dump", "hexdump"}, size \in 0..MaxSize :
    st = [ fun |-> fun, size |-> size, pc |-> "while", i |-> 0,
           hlen |-> size, tlen |-> size, \* bytes left in hex (len in dump), as characters
           last |-> -1,                  \* the highest offset read
           out |-> <<>> ]

Left == IF st.fun = "dump" THEN st.hlen ELSE st.tlen
\* buf and len, hbuf and hlen, cbuf and tlen move together.
Read(len) == IF st.size - len > st.last THEN st.size - len ELSE st.last

StartRow ==
  /\ st.pc = "while" /\ Left > 0
  /\ LET o == st.size - Left
     IN  st' = [st EXCEPT !.out = IF o % Row = 0 THEN Append(@, <<"row", o>>) ELSE @,
                          !.pc = "hex", !.i = 0]

\* The byte is read before the test that there is one.
HexCell_LastLost ==
  /\ st.pc = "hex" /\ st.i < Row
  /\ st' = [st EXCEPT !.i = @ + 1, !.last = Read(st.hlen),
                      !.hlen = IF @ > 1 THEN @ - 1 ELSE @,
                      !.out = IF st.hlen > 1 THEN Append(@, <<"hex", st.size - st.hlen>>) ELSE @]
HexCell ==
  /\ st.pc = "hex" /\ st.i < Row
  /\ LET s == [st EXCEPT !.i = @ + 1, !.last = Read(st.hlen)]
     IN  st' = IF st.hlen > 0
               THEN [s EXCEPT !.out = Append(@, <<"hex", st.size - st.hlen>>), !.hlen = @ - 1]
               ELSE [s EXCEPT !.out = IF st.fun = "hexdump" THEN Append(@, <<"blank">>) ELSE @]

HexDone ==
  /\ st.pc = "hex" /\ st.i = Row
  /\ st' = [st EXCEPT !.i = 0, !.pc = IF st.fun = "dump" THEN "while" ELSE "chars"]

CharCell ==
  /\ st.pc = "chars" /\ st.i < Row
  /\ LET s == [st EXCEPT !.i = @ + 1, !.last = Read(st.tlen)]
     IN  st' = IF st.tlen > 0
               THEN [s EXCEPT !.out = Append(@, <<"char", st.size - st.tlen>>), !.tlen = @ - 1]
               ELSE s

CharsDone == st.pc = "chars" /\ st.i = Row /\ st' = [st EXCEPT !.pc = "while"]
End == st.pc = "while" /\ Left = 0 /\ st' = [st EXCEPT !.pc = "done"]

Next == StartRow \/ HexCell \/ HexDone \/ CharCell \/ CharsDone \/ End

Spec == Init /\ [][Next]_st
-----------------------------------------------------------------------------
(* Properties                                                              *)

\* The row that starts at offset o, and the whole dump.
InRow(o) == IF st.size - o < Row THEN st.size - o ELSE Row
RowOf(o) ==
  <<<<"row", o>>>> \o [k \in 1..InRow(o) |-> <<"hex", o + k - 1>>]
  \o IF st.fun = "dump" THEN <<>>
     ELSE [k \in 1..(Row - InRow(o)) |-> <<"blank">>]
          \o [k \in 1..InRow(o) |-> <<"char", o + k - 1>>]
Expected == FlattenSeq([r \in 1..((st.size + Row - 1) \div Row) |-> RowOf((r - 1) * Row)])

\* Every byte is printed once, in order and in its row, for full, partial and
\* no last rows: the two pairs of pointer and counter do not drift apart.  The
\* loops that fill up a short last row read the one byte behind the buffer
\* again and again, and none further on.
DumpExact ==
  /\ IsPrefix(st.out, Expected) /\ (st.pc = "done" => st.out = Expected)
  /\ st.last <= st.size
=============================================================================
