------------------------------- MODULE Lists -------------------------------
(***************************************************************************)
(* What includes/list.h promises: every head has a sequence of entries, an *)
(* entry is in at most one of them, and an operation inserts, removes or   *)
(* moves exactly what it is given, where it is told to.                    *)
(***************************************************************************)
EXTENDS Integers, Sequences

CONSTANTS Heads, Entries
VARIABLES
  lists,  \* the entries of each head
  call    \* the last change asked for

At(s, x) == CHOOSE i \in DOMAIN s : s[i] = x
Has(s, x) == \E i \in DOMAIN s : s[i] = x

\* The sequence s put behind, or in front of, the head or entry x.
After(ls, s, x) ==
  [h \in Heads |->
    IF h = x THEN s \o ls[h]
    ELSE IF Has(ls[h], x)
         THEN LET i == At(ls[h], x)
              IN  SubSeq(ls[h], 1, i) \o s \o SubSeq(ls[h], i + 1, Len(ls[h]))
         ELSE ls[h]]
Before(ls, s, x) ==
  [h \in Heads |->
    IF h = x THEN ls[h] \o s
    ELSE IF Has(ls[h], x)
         THEN LET i == At(ls[h], x)
              IN  SubSeq(ls[h], 1, i - 1) \o s \o SubSeq(ls[h], i, Len(ls[h]))
         ELSE ls[h]]
Without(ls, e) ==
  [h \in Heads |->
    IF Has(ls[h], e)
    THEN LET i == At(ls[h], e)
         IN  SubSeq(ls[h], 1, i - 1) \o SubSeq(ls[h], i + 1, Len(ls[h]))
    ELSE ls[h]]

Init == lists = [h \in Heads |-> <<>>] /\ call = <<>>

\* list_add and list_move, list_add_tail and list_move_tail.
Put(e, x) ==
  /\ e # x /\ (x \in Heads \/ \E h \in Heads : Has(lists[h], x))
  /\ \/ call' = <<"after", e, x>> /\ lists' = After(Without(lists, e), <<e>>, x)
     \/ call' = <<"before", e, x>> /\ lists' = Before(Without(lists, e), <<e>>, x)

Delete(e) == call' = <<"delete", e>> /\ lists' = Without(lists, e)

\* list_splice and list_splice_init.
Splice(l, x) ==
  /\ l # x /\ ~Has(lists[l], x) /\ call' = <<"splice", l, x>>
  /\ lists' = After([lists EXCEPT ![l] = <<>>], lists[l], x)

Next ==
  \E x \in Heads \cup Entries :
    \/ \E e \in Entries : Put(e, x) \/ Delete(e)
    \/ \E l \in Heads : Splice(l, x)

Spec == Init /\ [][Next]_<<lists, call>>
=============================================================================
