----------------------------- MODULE LinkedList -----------------------------
(***************************************************************************)
(* includes/list.h: circular doubly linked lists threaded through a        *)
(* list_head in every entry.  A heap is a record of two functions, next    *)
(* and prev; an operation is an operator from heap to heap that makes the  *)
(* assignments of the code in their order, since its arguments may be the  *)
(* same object.  The actions below are the calls a program may make: it    *)
(* adds what is in no list, deletes and moves entries, splices distinct    *)
(* lists, does not use a spliced list head before it is initialised again, *)
(* and while it iterates it removes at most the current entry, and this    *)
(* only under the safe macros.                                             *)
(***************************************************************************)
EXTENDS Integers, Sequences, FiniteSets

CONSTANTS Heads, Entries, LIST_POISON1, LIST_POISON2

Objects == Heads \cup Entries

ASSUME ListAssumption ==
  /\ Heads \cap Entries = {} /\ IsFiniteSet(Objects)
  /\ LIST_POISON1 \notin Objects /\ LIST_POISON2 \notin Objects

VARIABLES
  mem,      \* the heap
  stale,    \* heads that list_splice has emptied and not reinitialised
  it,       \* the loop the program is in: its pos, its n and its head
  visited,  \* history: the entries the loop's body has seen
  due,      \* history: the entries it was to see when it started
  call      \* history: the last change asked for
vars == <<mem, stale, it, visited, due, call>>

NoLoop == [head |-> LIST_POISON1, pos |-> LIST_POISON1, n |-> LIST_POISON1,
           dir |-> "none", safe |-> FALSE]
-----------------------------------------------------------------------------
(* The operations                                                          *)

SetNext(m, x, y) == [m EXCEPT !.next[x] = y]
SetPrev(m, x, y) == [m EXCEPT !.prev[x] = y]

INIT_LIST_HEAD(m, p) == SetPrev(SetNext(m, p, p), p, p)

\* __list_add
list_insert(m, entry, prev, next) ==
  SetNext(SetPrev(SetNext(SetPrev(m, next, entry), entry, next), entry, prev), prev, entry)

list_add(m, entry, head) == list_insert(m, entry, head, m.next[head])

list_add_tail_AfterHead(m, entry, head) == list_insert(m, entry, head, m.next[head])
list_add_tail(m, entry, head) == list_insert(m, entry, m.prev[head], head)

\* __list_del
list_unlink_OneWay(m, prev, next) == SetNext(m, prev, next)
list_unlink(m, prev, next) == SetNext(SetPrev(m, next, prev), prev, next)

list_del(m, entry) ==
  SetPrev(SetNext(list_unlink(m, m.prev[entry], m.next[entry]),
                  entry, LIST_POISON1), entry, LIST_POISON2)

list_del_init(m, entry) == INIT_LIST_HEAD(list_unlink(m, m.prev[entry], m.next[entry]), entry)

list_move(m, list, head) == list_add(list_unlink(m, m.prev[list], m.next[list]), list, head)

list_move_tail(m, list, head) ==
  list_add_tail(list_unlink(m, m.prev[list], m.next[list]), list, head)

list_empty(m, head) == m.next[head] = head

\* __list_splice
list_join(m, list, head) ==
  LET first == m.next[list]
      last == m.prev[list]
      at == m.next[head]
  IN  SetPrev(SetNext(SetNext(SetPrev(m, first, head), head, first), last, at), at, last)

list_splice(m, list, head) == IF list_empty(m, list) THEN m ELSE list_join(m, list, head)

list_splice_init(m, list, head) ==
  IF list_empty(m, list) THEN m ELSE INIT_LIST_HEAD(list_join(m, list, head), list)
-----------------------------------------------------------------------------
(* The calls                                                               *)

Succ(m, dir, x) == IF x \in Objects THEN m[dir][x] ELSE x

\* The objects met from x on, in the direction of dir.
Steps(m, dir, x) ==
  LET p[k \in 0..Cardinality(Objects)] == IF k = 0 THEN x ELSE Succ(m, dir, p[k - 1])
  IN  p

\* The objects behind x up to head, in the direction of dir.
Walk(m, dir, x, head) ==
  LET bound == Cardinality(Objects)
      p == Steps(m, dir, x)
      ends == {k \in 1..bound : p[k] = head}
      len == IF ends = {} THEN bound ELSE (CHOOSE k \in ends : \A l \in ends : k <= l) - 1
  IN  [k \in 1..len |-> p[k]]

\* Objects whose pointers are not to be followed, and the others.
Poisoned == {x \in Entries : mem.next[x] = LIST_POISON1}
Linked == (Objects \ Poisoned) \ stale

\* Entries in no list: deleted, or initialised and alone.
Loose == Poisoned \cup {x \in Entries \ Poisoned : list_empty(mem, x)}
Listed == Linked \ Loose

Idle == it = NoLoop
Calls(m, c) == mem' = m /\ call' = c /\ UNCHANGED <<it, visited, due>>

Init ==
  /\ mem = [next |-> [x \in Objects |-> IF x \in Heads THEN x ELSE LIST_POISON1],
            prev |-> [x \in Objects |-> IF x \in Heads THEN x ELSE LIST_POISON2]]
  /\ stale = {} /\ it = NoLoop /\ visited = <<>> /\ due = <<>> /\ call = <<>>

\* head may be any object of a list: the entry then goes in the middle.
Add(e, head) ==
  /\ Idle /\ e \in Loose /\ head \in Listed
  /\ \/ Calls(list_add(mem, e, head), <<"after", e, head>>)
     \/ Calls(list_add_tail(mem, e, head), <<"before", e, head>>)
  /\ UNCHANGED stale

Delete(e) ==
  /\ Idle /\ e \in Linked \cap Entries
  /\ Calls(list_del(mem, e), <<"delete", e>>) \/ Calls(list_del_init(mem, e), <<"delete", e>>)
  /\ UNCHANGED stale

Move(e, head) ==
  /\ Idle /\ e \in Linked \cap Entries /\ head \in Listed \ {e}
  /\ \/ Calls(list_move(mem, e, head), <<"after", e, head>>)
     \/ Calls(list_move_tail(mem, e, head), <<"before", e, head>>)
  /\ UNCHANGED stale

\* at may be any object of another list.
Splice(list, at) ==
  /\ Idle /\ list \in Linked \cap Heads /\ at \in Listed \ {list}
  /\ \A k \in DOMAIN Walk(mem, "next", list, list) : Walk(mem, "next", list, list)[k] # at
  /\ \/ /\ Calls(list_splice(mem, list, at), <<"splice", list, at>>)
        /\ stale' = IF list_empty(mem, list) THEN stale ELSE stale \cup {list}
     \/ Calls(list_splice_init(mem, list, at), <<"splice", list, at>>) /\ UNCHANGED stale

Reinit(h) ==
  /\ Idle /\ h \in stale
  /\ Calls(INIT_LIST_HEAD(mem, h), call)
  /\ stale' = stale \ {h}
-----------------------------------------------------------------------------
(* The loops.  dir is the pointer a loop follows; a safe loop fetches the  *)
(* successor n of pos before its body runs.  The _entry macros follow the  *)
(* same pointers from container to container.                              *)

StartLoop(h, from, dir, safe) ==
  /\ Idle /\ h \in Linked \cap Heads
  /\ LET pos == mem[dir][from]
     IN  it' = [head |-> h, pos |-> pos, n |-> mem[dir][pos], dir |-> dir, safe |-> safe]
  /\ visited' = <<>> /\ due' = Walk(mem, dir, from, h)
  /\ UNCHANGED <<mem, stale, call>>

list_for_each(h) == StartLoop(h, h, "next", FALSE)
list_for_each_prev(h) == StartLoop(h, h, "prev", FALSE)
list_for_each_safe(h) == StartLoop(h, h, "next", TRUE)
list_for_each_entry_safe_reverse(h) == StartLoop(h, h, "prev", TRUE)

\* list_prepare_entry makes a NULL pos the head.
InList(pos, h) == pos = h \/ \E k \in DOMAIN Walk(mem, "next", h, h) : Walk(mem, "next", h, h)[k] = pos
list_for_each_entry_continue(pos, h) == InList(pos, h) /\ StartLoop(h, pos, "next", FALSE)
list_for_each_entry_safe_continue(pos, h) == InList(pos, h) /\ StartLoop(h, pos, "next", TRUE)

\* The third expression of the for, in the heap m the body has left.
Advance_FromPos(m) == [it EXCEPT !.pos = Succ(m, it.dir, it.pos)]
Advance(m) ==
  IF it.safe THEN [it EXCEPT !.pos = it.n, !.n = Succ(m, it.dir, it.n)]
  ELSE [it EXCEPT !.pos = Succ(m, it.dir, it.pos)]

\* A body that leaves the heap in m.
Body(m, c) ==
  /\ ~Idle /\ it.pos # it.head
  /\ mem' = m /\ it' = Advance(m) /\ call' = c
  /\ visited' = Append(visited, it.pos)
  /\ UNCHANGED <<stale, due>>

Look == Body(mem, call)
Remove ==
  /\ it.safe
  /\ \/ Body(list_del(mem, it.pos), <<"delete", it.pos>>)
     \/ Body(list_del_init(mem, it.pos), <<"delete", it.pos>>)
MoveAway(h) ==
  /\ it.safe /\ h \in (Linked \cap Heads) \ {it.head}
  /\ \/ Body(list_move(mem, it.pos, h), <<"after", it.pos, h>>)
     \/ Body(list_move_tail(mem, it.pos, h), <<"before", it.pos, h>>)

EndLoop ==
  /\ ~Idle /\ it.pos = it.head
  /\ it' = NoLoop /\ visited' = <<>> /\ due' = <<>>
  /\ UNCHANGED <<mem, stale, call>>

Loop(h) ==
  \/ list_for_each(h) \/ list_for_each_prev(h)
  \/ list_for_each_safe(h) \/ list_for_each_entry_safe_reverse(h)
  \/ \E pos \in Objects : \/ list_for_each_entry_continue(pos, h)
                          \/ list_for_each_entry_safe_continue(pos, h)

Next ==
  \/ \E e \in Entries : Delete(e) \/ \E x \in Objects : Add(e, x) \/ Move(e, x)
  \/ \E h \in Heads : \/ \E x \in Objects : Splice(h, x)
                      \/ Reinit(h) \/ Loop(h) \/ MoveAway(h)
  \/ Look \/ Remove \/ EndLoop

Spec == Init /\ [][Next]_vars
-----------------------------------------------------------------------------
(* Properties                                                              *)

\* Whatever the calls and whatever objects they share, next and prev are
\* inverse to each other on what is linked, and lead only to linked objects
\* (never to a poison value, a deleted entry or an abandoned head).
LinksInverse ==
  \A x \in Linked :
    /\ mem.next[x] \in Linked /\ mem.prev[mem.next[x]] = x
    /\ mem.prev[x] \in Linked /\ mem.next[mem.prev[x]] = x

\* A loop visits, each once and in order, the entries that were ahead of it
\* when it started, although the body of a safe one may delete, reinitialise
\* or move away the entry it is at.
VisitsEach ==
  ~Idle => /\ it.pos \in Objects
           /\ visited \o (IF it.pos = it.head THEN <<>>
                          ELSE <<it.pos>> \o Walk(mem, it.dir, it.pos, it.head)) = due

\* The entries of each list, read along next; an abandoned head has none.
listsOf == [h \in Heads |-> IF h \in stale THEN <<>> ELSE Walk(mem, "next", h, h)]
A == INSTANCE Lists WITH lists <- listsOf

\* The heap implements sequences: each call and each loop body changes them
\* as the comment above the operation says.
ImplementsLists == A!Spec
=============================================================================
