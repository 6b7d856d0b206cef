------------------------------- MODULE Substr -------------------------------
(***************************************************************************)
(* lib/cstring.c: substr, in the loop iter_substr of includes/cstring.h,   *)
(* as examples/comma_separated_list runs it.  A string is a sequence of    *)
(* separators and other characters; NULL is offset 0, NoPos.               *)
(***************************************************************************)
EXTENDS Integers, Sequences, SequencesExt

CONSTANTS Sep, Char, MaxLen

SubstrAssumption == Sep # Char /\ MaxLen \in Nat

NoPos == 0

VARIABLE st   \* the state of the program, a record

Init ==
  \E arg \in UNION {[1..n -> {Sep, Char}] : n \in 0..MaxLen} :
    st = [ arg |-> arg,      \* argv[1]
           nxt |-> 1,        \* where the next piece starts
           str |-> <<>>,     \* the piece substr has returned
           pieces |-> <<>>,  \* what was printed
           oom |-> FALSE,    \* strndup has failed
           heap |-> 0,       \* strings allocated
           pc |-> "substr" ]

\* strchr: the first separator from h on, NULL when there is none.
strchr(h) ==
  LET at == {i \in h..Len(st.arg) : st.arg[i] = Sep}
  IN  IF at = {} THEN NoPos ELSE CHOOSE i \in at : \A k \in at : i <= k

After_DropsEmptyTail(n) == IF n = NoPos \/ n = Len(st.arg) THEN NoPos ELSE n + 1
After(n) == IF n = NoPos THEN NoPos ELSE n + 1

\* A call of substr, in the first or in the third part of the for: the list
\* is used up, or the next piece is copied, or strndup fails.
substr ==
  /\ st.pc = "substr"
  /\ LET n == strchr(st.nxt)
         end == IF n = NoPos THEN Len(st.arg) ELSE n - 1
     IN  \/ st.nxt = NoPos /\ st' = [st EXCEPT !.pc = "done"]
         \/ st.nxt # NoPos /\ st' = [st EXCEPT !.nxt = After(n), !.str = SubSeq(st.arg, st.nxt, end),
                                              !.heap = @ + 1, !.pc = "body"]
         \/ st.nxt # NoPos /\ st' = [st EXCEPT !.nxt = After(n), !.oom = TRUE, !.pc = "done"]

Body ==
  /\ st.pc = "body"
  /\ st' = [st EXCEPT !.pc = "substr", !.pieces = Append(@, st.str), !.heap = @ - 1]

Next == substr \/ Body
Spec == Init /\ [][Next]_st
-----------------------------------------------------------------------------
Joined ==
  FlattenSeq([i \in DOMAIN st.pieces |-> (IF i = 1 THEN <<>> ELSE <<Sep>>) \o st.pieces[i]])

\* The pieces have no separator and, put together again with one between any
\* two, are the argument: no piece is lost or repeated, be it empty, first or
\* last.  When strndup fails the loop stops with the pieces before.
SplitExact ==
  /\ IsPrefix(Joined, st.arg)
  /\ \A i \in DOMAIN st.pieces : \A c \in DOMAIN st.pieces[i] : st.pieces[i][c] = Char
  /\ st.pc = "done" => st.heap = 0 /\ (st.oom \/ Joined = st.arg)
=============================================================================
