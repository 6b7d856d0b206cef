-------------------------- MODULE LinkedListProofs --------------------------
(***************************************************************************)
(* The pointers of includes/list.h for any number of heads and entries.    *)
(*                                                                         *)
(* LinksInverse is not inductive.  Splicing is safe because the walk that  *)
(* looks for the target comes back to its head, so it has met both of the  *)
(* head's neighbours (ComesBack, by the pigeonhole principle).  Deleting   *)
(* the entry a loop is at is safe because the loop is on the ring of its   *)
(* head, which has no other head (OneHead), and the successor it fetched   *)
(* is still on what is left of that ring (RingWithout).  So the invariant  *)
(* names every ring (Named) and says on which one the loop is (LoopInv).   *)
(*                                                                         *)
(* VisitsEach compares walks in different heaps.  The invariant behind it  *)
(* (VisitInv) has the path from the current entry to the head instead,     *)
(* which meets no object twice: taking its first object off the ring       *)
(* leaves the rest as it is (PathTail), and walk and path agree            *)
(* (PathIsWalk).                                                           *)
(*                                                                         *)
(* The refinement needs to know which lists the heap holds (Rep) without   *)
(* walking it: along each list next leads from the head through the        *)
(* entries back to the head, no entry is twice in the lists (Apart), and   *)
(* what is in none points to itself or is poisoned (Out).  What the        *)
(* operations write then puts a sequence behind a point of one list        *)
(* (InsertRep) or takes an entry out of one (RemoveRep), and a walk reads  *)
(* what the heap holds (HoldsIsWalk).                                      *)
(***************************************************************************)
EXTENDS LinkedList, FiniteSetTheorems, SequenceTheorems, WellFoundedInduction, TLAPS

Ptrs == Objects \cup {LIST_POISON1, LIST_POISON2}
Heap == [next : [Objects -> Ptrs], prev : [Objects -> Ptrs]]

\* One assignment.
WroteNext(m, x, y, u) ==
  /\ u \in Heap
  /\ \A k \in Objects : u.prev[k] = m.prev[k] /\ u.next[k] = IF k = x THEN y ELSE m.next[k]
WrotePrev(m, x, y, u) ==
  /\ u \in Heap
  /\ \A k \in Objects : u.next[k] = m.next[k] /\ u.prev[k] = IF k = x THEN y ELSE m.prev[k]

\* SetNext writes one next pointer.
LEMMA NextSet == \A m \in Heap : \A x \in Objects, y \in Ptrs : WroteNext(m, x, y, SetNext(m, x, y))
<1>1. ASSUME NEW m \in Heap, NEW x \in Objects, NEW y \in Ptrs, NEW u, u = SetNext(m, x, y)
      PROVE  WroteNext(m, x, y, u)
  BY <1>1 DEF WroteNext, SetNext, Heap
<1> QED
  BY <1>1

\* SetPrev writes one prev pointer.
LEMMA PrevSet == \A m \in Heap : \A x \in Objects, y \in Ptrs : WrotePrev(m, x, y, SetPrev(m, x, y))
<1>1. ASSUME NEW m \in Heap, NEW x \in Objects, NEW y \in Ptrs, NEW u, u = SetPrev(m, x, y)
      PROVE  WrotePrev(m, x, y, u)
  BY <1>1 DEF WrotePrev, SetPrev, Heap
<1> QED
  BY <1>1

\* __list_del, __list_add, the two assignments of INIT_LIST_HEAD (and of
\* list_del into its entry), __list_splice.
Unlinked(m, p, n, u) ==
  /\ u \in Heap
  /\ \A x \in Objects : /\ u.next[x] = IF x = p THEN n ELSE m.next[x]
                        /\ u.prev[x] = IF x = n THEN p ELSE m.prev[x]
Inserted(m, e, p, n, u) ==
  /\ u \in Heap
  /\ \A x \in Objects : /\ u.next[x] = IF x = p THEN e ELSE IF x = e THEN n ELSE m.next[x]
                        /\ u.prev[x] = IF x = e THEN p ELSE IF x = n THEN e ELSE m.prev[x]
Written(m, e, n, p, u) ==
  /\ u \in Heap
  /\ \A x \in Objects : /\ u.next[x] = IF x = e THEN n ELSE m.next[x]
                        /\ u.prev[x] = IF x = e THEN p ELSE m.prev[x]
Spliced(m, first, last, head, at, u) ==
  /\ u \in Heap
  /\ \A x \in Objects :
       /\ u.next[x] = IF x = last THEN at ELSE IF x = head THEN first ELSE m.next[x]
       /\ u.prev[x] = IF x = at THEN last ELSE IF x = first THEN head ELSE m.prev[x]

\* An object is a pointer.
LEMMA ObjectsArePtrs == \A x \in Objects : x \in Ptrs
BY DEF Ptrs

\* What __list_del writes.
LEMMA UnlinkPtrs == \A m \in Heap : \A p, n \in Objects : Unlinked(m, p, n, list_unlink(m, p, n))
<1>1. ASSUME NEW m \in Heap, NEW p \in Objects, NEW n \in Objects
      PROVE  Unlinked(m, p, n, list_unlink(m, p, n))
  <2>1. PICK a, u : a = SetPrev(m, n, p) /\ u = SetNext(a, p, n)
    OBVIOUS
  <2>2. WrotePrev(m, n, p, a)
    BY <2>1, ObjectsArePtrs, PrevSet
  <2>3. a \in Heap
    BY <2>2 DEF WrotePrev
  <2>4. WroteNext(a, p, n, u)
    BY <2>1, <2>3, ObjectsArePtrs, NextSet
  <2>5. Unlinked(m, p, n, u)
    BY <2>2, <2>4 DEF WrotePrev, WroteNext, Unlinked
  <2> QED
    BY <2>1, <2>5 DEF list_unlink
<1> QED
  BY <1>1

\* What __list_add writes.
LEMMA InsertPtrs ==
  \A m \in Heap : \A e, p, n \in Objects : Inserted(m, e, p, n, list_insert(m, e, p, n))
<1>1. ASSUME NEW m \in Heap, NEW e \in Objects, NEW p \in Objects, NEW n \in Objects
      PROVE  Inserted(m, e, p, n, list_insert(m, e, p, n))
  <2>1. PICK a, b, c, u : /\ a = SetPrev(m, n, e) /\ b = SetNext(a, e, n)
                          /\ c = SetPrev(b, e, p) /\ u = SetNext(c, p, e)
    OBVIOUS
  <2>2. WrotePrev(m, n, e, a)
    BY <2>1, ObjectsArePtrs, PrevSet
  <2>3. a \in Heap
    BY <2>2 DEF WrotePrev
  <2>4. WroteNext(a, e, n, b)
    BY <2>1, <2>3, ObjectsArePtrs, NextSet
  <2>5. b \in Heap
    BY <2>4 DEF WroteNext
  <2>6. WrotePrev(b, e, p, c)
    BY <2>1, <2>5, ObjectsArePtrs, PrevSet
  <2>7. c \in Heap
    BY <2>6 DEF WrotePrev
  <2>8. WroteNext(c, p, e, u)
    BY <2>1, <2>7, ObjectsArePtrs, NextSet
  <2>9. Inserted(m, e, p, n, u)
    BY <2>2, <2>4, <2>6, <2>8 DEF WrotePrev, WroteNext, Inserted
  <2> QED
    BY <2>1, <2>9 DEF list_insert
<1> QED
  BY <1>1

\* What INIT_LIST_HEAD, and list_del into its entry, write.
LEMMA WritePtrs ==
  \A m \in Heap : \A e \in Objects : \A n, p \in Ptrs :
    Written(m, e, n, p, SetPrev(SetNext(m, e, n), e, p))
<1>1. ASSUME NEW m \in Heap, NEW e \in Objects, NEW n \in Ptrs, NEW p \in Ptrs
      PROVE  Written(m, e, n, p, SetPrev(SetNext(m, e, n), e, p))
  <2>1. PICK a, u : a = SetNext(m, e, n) /\ u = SetPrev(a, e, p)
    OBVIOUS
  <2>2. WroteNext(m, e, n, a)
    BY <2>1, NextSet
  <2>3. a \in Heap
    BY <2>2 DEF WroteNext
  <2>4. WrotePrev(a, e, p, u)
    BY <2>1, <2>3, PrevSet
  <2>5. Written(m, e, n, p, u)
    BY <2>2, <2>4 DEF WrotePrev, WroteNext, Written
  <2> QED
    BY <2>1, <2>5
<1> QED
  BY <1>1

\* What __list_splice writes.
LEMMA JoinPtrs ==
  ASSUME NEW m \in Heap, NEW list, NEW head \in Objects, NEW first \in Objects, NEW last \in Objects,
         NEW at \in Objects, first = m.next[list], last = m.prev[list], at = m.next[head]
  PROVE  Spliced(m, first, last, head, at, list_join(m, list, head))
<1>1. PICK a, b, c, u : /\ a = SetPrev(m, first, head) /\ b = SetNext(a, head, first)
                        /\ c = SetNext(b, last, at) /\ u = SetPrev(c, at, last)
  OBVIOUS
<1>2. WrotePrev(m, first, head, a)
  BY <1>1, ObjectsArePtrs, PrevSet
<1>3. a \in Heap
  BY <1>2 DEF WrotePrev
<1>4. WroteNext(a, head, first, b)
  BY <1>1, <1>3, ObjectsArePtrs, NextSet
<1>5. b \in Heap
  BY <1>4 DEF WroteNext
<1>6. WroteNext(b, last, at, c)
  BY <1>1, <1>5, ObjectsArePtrs, NextSet
<1>7. c \in Heap
  BY <1>6 DEF WroteNext
<1>8. WrotePrev(c, at, last, u)
  BY <1>1, <1>7, ObjectsArePtrs, PrevSet
<1>9. Spliced(m, first, last, head, at, u)
  BY <1>2, <1>4, <1>6, <1>8 DEF WrotePrev, WroteNext, Spliced
<1>10. u = list_join(m, list, head)
  BY <1>1 DEF list_join
<1> QED
  BY <1>9, <1>10
-----------------------------------------------------------------------------
(* The rings                                                               *)

Closed(m, L) ==
  \A x \in L : /\ m.next[x] \in L /\ m.prev[m.next[x]] = x
               /\ m.prev[x] \in L /\ m.next[m.prev[x]] = x

\* Every ring has one name, and a head is in the ring of its own name: no
\* ring has two heads.
Named(m, L, own) ==
  /\ own \in [Objects -> Objects]
  /\ \A x \in L : own[m.next[x]] = own[x] /\ (x \in Heads => own[x] = x)

Rings(m, L, own) == m \in Heap /\ L \subseteq Objects /\ Closed(m, L) /\ Named(m, L, own)

SameOutside(m, L, u) == \A x \in Objects \ L : u.next[x] = m.next[x] /\ u.prev[x] = m.prev[x]

\* Pointers outside the rings do not matter.
LEMMA Outside ==
  ASSUME NEW m, NEW L, NEW own, Rings(m, L, own), NEW u \in Heap,
         \A x \in L : u.next[x] = m.next[x] /\ u.prev[x] = m.prev[x]
  PROVE  Rings(u, L, own)
BY DEF Rings, Closed, Named

\* A ring of one can be left out.
LEMMA Alone ==
  ASSUME NEW m, NEW L, NEW own, Rings(m, L, own), NEW e \in L, m.next[e] = e
  PROVE  Rings(m, L \ {e}, own)
<1>1. \A x \in L \ {e} : m.next[x] # e /\ m.prev[x] # e
  BY DEF Rings, Closed
<1> QED
  BY <1>1 DEF Rings, Closed, Named

\* __list_del takes an object out of its ring.
LEMMA UnlinkRings ==
  ASSUME NEW m, NEW L, NEW own, Rings(m, L, own), NEW e \in L,
         NEW u, u = list_unlink(m, m.prev[e], m.next[e])
  PROVE  Rings(u, L \ {e}, own) /\ Unlinked(m, m.prev[e], m.next[e], u)
<1>1. m \in Heap /\ L \subseteq Objects /\ Closed(m, L) /\ Named(m, L, own)
  BY DEF Rings
<1>2. PICK p \in L, n \in L : p = m.prev[e] /\ n = m.next[e]
  BY <1>1 DEF Closed
<1>3. p \in Objects /\ n \in Objects /\ e \in Objects
  BY <1>1, <1>2
<1>4. m.next[p] = e /\ m.prev[n] = e
  BY <1>1, <1>2 DEF Closed
<1>0. Unlinked(m, p, n, u)
  <2>1. u = list_unlink(m, p, n)
    BY <1>2
  <2> QED
    BY <1>1, <1>3, <2>1, UnlinkPtrs
<1>5. /\ u \in Heap
      /\ \A x \in Objects : /\ u.next[x] = IF x = p THEN n ELSE m.next[x]
                            /\ u.prev[x] = IF x = n THEN p ELSE m.prev[x]
  BY <1>0 DEF Unlinked
<1>6. Rings(u, L \ {e}, own)
  <2>1. Closed(u, L \ {e})
    BY <1>1, <1>2, <1>4, <1>3, <1>5 DEF Closed
  <2>2. Named(u, L \ {e}, own)
    BY <1>1, <1>2, <1>4, <1>3, <1>5 DEF Closed, Named
  <2> QED
    BY <1>1, <1>5, <2>1, <2>2 DEF Rings
<1> QED
  BY <1>0, <1>2, <1>6

\* __list_add puts an object that is in no ring behind p.
LEMMA InsertRings ==
  ASSUME NEW m, NEW L, NEW own, Rings(m, L, own), NEW e \in Entries, e \notin L, NEW p \in L, NEW n,
         n = m.next[p], NEW u, u = list_insert(m, e, p, n)
  PROVE  (\E lab : Rings(u, L \cup {e}, lab)) /\ Inserted(m, e, p, n, u)
<1>1. m \in Heap /\ L \subseteq Objects /\ Closed(m, L) /\ Named(m, L, own)
  BY DEF Rings
<1>2. n \in L /\ m.prev[n] = p /\ p \in Objects /\ n \in Objects /\ e \in Objects /\ p # e /\ n # e
  BY <1>1 DEF Closed, Objects
<1>0. Inserted(m, e, p, n, u)
  BY <1>1, <1>2, InsertPtrs
<1>3. /\ u \in Heap
      /\ \A x \in Objects : /\ u.next[x] = IF x = p THEN e ELSE IF x = e THEN n ELSE m.next[x]
                            /\ u.prev[x] = IF x = e THEN p ELSE IF x = n THEN e ELSE m.prev[x]
  BY <1>0 DEF Inserted
<1>4. Closed(u, L \cup {e})
  BY <1>1, <1>2, <1>3 DEF Closed
<1>5. PICK lab : lab = [own EXCEPT ![e] = own[p]]
  OBVIOUS
<1>6. lab \in [Objects -> Objects] /\ \A x \in Objects : lab[x] = IF x = e THEN own[p] ELSE own[x]
  BY <1>1, <1>2, <1>5 DEF Named
<1>7. Named(u, L \cup {e}, lab)
  BY <1>1, <1>2, <1>3, <1>6, ListAssumption DEF Closed, Named, ListAssumption
<1>8. Rings(u, L \cup {e}, lab)
  BY <1>1, <1>2, <1>3, <1>4, <1>7 DEF Rings
<1> QED
  BY <1>0, <1>8

\* INIT_LIST_HEAD makes a ring of one.
LEMMA InitRings ==
  ASSUME NEW m, NEW L, NEW own, Rings(m, L, own), NEW e \in Objects, e \notin L,
         NEW u, u = INIT_LIST_HEAD(m, e)
  PROVE  (\E lab : Rings(u, L \cup {e}, lab)) /\ Written(m, e, e, e, u)
<1>1. m \in Heap /\ L \subseteq Objects /\ Closed(m, L) /\ Named(m, L, own)
  BY DEF Rings
<1>2. e \in Ptrs
  BY DEF Ptrs
<1>0. Written(m, e, e, e, u)
  BY <1>1, <1>2, WritePtrs DEF INIT_LIST_HEAD
<1>3. /\ u \in Heap
      /\ \A x \in Objects : /\ u.next[x] = IF x = e THEN e ELSE m.next[x]
                            /\ u.prev[x] = IF x = e THEN e ELSE m.prev[x]
  BY <1>0 DEF Written
<1>4. Closed(u, L \cup {e})
  BY <1>1, <1>2, <1>3 DEF Closed
<1>5. PICK lab : lab = [own EXCEPT ![e] = e]
  OBVIOUS
<1>6. lab \in [Objects -> Objects] /\ \A x \in Objects : lab[x] = IF x = e THEN e ELSE own[x]
  BY <1>1, <1>2, <1>5 DEF Named
<1>7. Named(u, L \cup {e}, lab)
  BY <1>1, <1>2, <1>3, <1>6 DEF Closed, Named
<1>8. Rings(u, L \cup {e}, lab)
  BY <1>1, <1>2, <1>3, <1>4, <1>7 DEF Rings
<1> QED
  BY <1>0, <1>8

\* list_del poisons the entry it has unlinked.
LEMMA PoisonRings ==
  ASSUME NEW m, NEW L, NEW own, Rings(m, L, own), NEW e \in Objects, e \notin L,
         NEW u, u = SetPrev(SetNext(m, e, LIST_POISON1), e, LIST_POISON2)
  PROVE  Rings(u, L, own) /\ Written(m, e, LIST_POISON1, LIST_POISON2, u)
<1>1. m \in Heap /\ L \subseteq Objects
  BY DEF Rings
<1>2. LIST_POISON1 \in Ptrs /\ LIST_POISON2 \in Ptrs
  BY DEF Ptrs
<1>3. Written(m, e, LIST_POISON1, LIST_POISON2, u)
  BY <1>1, <1>2, WritePtrs
<1>4. u \in Heap /\ \A x \in L : u.next[x] = m.next[x] /\ u.prev[x] = m.prev[x]
  BY <1>1, <1>3 DEF Written
<1> QED
  BY <1>3, <1>4, Outside

\* __list_splice puts the entries of list behind at, and list is in no ring.
LEMMA JoinRings ==
  ASSUME NEW m, NEW L, NEW own, Rings(m, L, own), NEW list \in L \cap Heads, NEW at \in L,
         list # at, m.next[list] # at, m.prev[list] # at, m.next[list] # list,
         NEW u, u = list_join(m, list, at)
  PROVE  (\E lab : Rings(u, L \ {list}, lab)) /\ SameOutside(m, L, u)
<1>1. m \in Heap /\ L \subseteq Objects /\ Closed(m, L) /\ Named(m, L, own)
  BY DEF Rings
<1>2. PICK first \in L, last \in L, n \in L :
        first = m.next[list] /\ last = m.prev[list] /\ n = m.next[at]
  BY <1>1 DEF Closed
<1>3. list \in Objects /\ at \in Objects /\ first \in Objects /\ last \in Objects /\ n \in Objects
  BY <1>1, <1>2
<1>4. /\ first # list /\ last # list /\ last # at /\ n # first /\ n # list
      /\ m.prev[first] = list /\ m.next[last] = list /\ m.prev[n] = at
  BY <1>1, <1>2 DEF Closed
<1>0. Spliced(m, first, last, at, n, u)
  BY <1>1, <1>2, <1>3, JoinPtrs
<1>5. /\ u \in Heap
      /\ \A x \in Objects :
           /\ u.next[x] = IF x = last THEN n ELSE IF x = at THEN first ELSE m.next[x]
           /\ u.prev[x] = IF x = n THEN last ELSE IF x = first THEN at ELSE m.prev[x]
  BY <1>0 DEF Spliced
<1>6. Closed(u, L \ {list})
  BY <1>1, <1>2, <1>3, <1>4, <1>5 DEF Closed
<1>7. PICK lab : lab = [x \in Objects |-> IF own[x] = own[list] THEN own[at] ELSE own[x]]
  OBVIOUS
<1>8. /\ lab \in [Objects -> Objects]
      /\ \A x \in Objects : lab[x] = IF own[x] = own[list] THEN own[at] ELSE own[x]
  BY <1>1, <1>3, <1>7 DEF Named
<1>9. own[first] = own[list] /\ own[last] = own[list] /\ own[n] = own[at]
  BY <1>1, <1>2, <1>4 DEF Named
<1>10. Named(u, L \ {list}, lab)
  <2>1. ASSUME NEW x \in L \ {list} PROVE lab[u.next[x]] = lab[x] /\ (x \in Heads => lab[x] = x)
    <3>1. x \in Objects /\ u.next[x] \in L /\ u.next[x] \in Objects
      BY <1>1, <1>6 DEF Closed
    <3>2. own[u.next[x]] = own[x] \/ own[x] = own[list] \/ x = at
      BY <1>1, <1>5, <1>9, <3>1 DEF Named
    <3>3. x \in Heads => own[x] = x
      BY <1>1 DEF Named
    <3>4. lab[u.next[x]] = lab[x]
      BY <1>1, <1>2, <1>3, <1>5, <1>8, <1>9, <3>1 DEF Named
    <3>5. x \in Heads => lab[x] = x
      BY <1>1, <1>8, <3>1, <3>3 DEF Named
    <3> QED
      BY <3>4, <3>5
  <2> QED
    BY <1>8, <2>1 DEF Named
<1>11. Rings(u, L \ {list}, lab)
  BY <1>1, <1>5, <1>6, <1>10 DEF Rings
<1>12. SameOutside(m, L, u)
  BY <1>2, <1>5 DEF SameOutside
<1> QED
  BY <1>11, <1>12

\* The heap m with the rings of the objects L and the abandoned heads s: what
\* is in no ring is an abandoned head or a deleted entry.
Sound(m, L, s) ==
  /\ \E own : Rings(m, L, own)
  /\ s \subseteq Heads /\ L \cap s = {}
  /\ \A x \in Objects \ L : x \in s \/ (x \in Entries /\ m.next[x] = LIST_POISON1)

\* list_add and list_add_tail.
LEMMA InsertSound ==
  ASSUME NEW m, NEW L, NEW s, Sound(m, L, s), NEW e \in Entries, e \notin L \/ m.next[e] = e,
         NEW p \in L \ {e}, NEW n, n = m.next[p], NEW u, u = list_insert(m, e, p, n)
  PROVE  Sound(u, L \cup {e}, s)
<1>1. PICK own : Rings(m, L, own)
  BY DEF Sound
<1>2. PICK K : K = L \ {e}
  OBVIOUS
<1>3. e \notin K /\ K \cup {e} = L \cup {e} /\ p \in K /\ e \notin s
  BY <1>2, ListAssumption DEF Sound, ListAssumption
<1>4. Rings(m, K, own)
  <2>1. CASE e \in L
    BY <1>1, <1>2, <2>1, Alone
  <2>2. CASE e \notin L
    <3>1. K = L
      BY <1>2, <2>2
    <3> QED
      BY <1>1, <3>1
  <2> QED
    BY <2>1, <2>2
<1>5. (\E lab : Rings(u, K \cup {e}, lab)) /\ Inserted(m, e, p, n, u)
  BY <1>3, <1>4, InsertRings
<1>6. \A x \in Objects \ {e, p} : u.next[x] = m.next[x]
  BY <1>5 DEF Inserted
<1> QED
  BY <1>3, <1>5, <1>6 DEF Sound

\* list_del and list_del_init.
LEMMA DeleteSound ==
  ASSUME NEW m, NEW L, NEW s, Sound(m, L, s), NEW e \in L \cap Entries
  PROVE  Sound(list_del(m, e), L \ {e}, s) /\ Sound(list_del_init(m, e), L, s)
<1>1. PICK own : Rings(m, L, own)
  BY DEF Sound
<1>2. PICK u : u = list_unlink(m, m.prev[e], m.next[e])
  OBVIOUS
<1>3. PICK K : K = L \ {e}
  OBVIOUS
<1>4. Rings(u, K, own) /\ Unlinked(m, m.prev[e], m.next[e], u)
  BY <1>1, <1>2, <1>3, UnlinkRings
<1>5. m.prev[e] \in L /\ L \subseteq Objects /\ e \in Objects /\ e \notin K /\ K \cup {e} = L
  BY <1>1, <1>3 DEF Rings, Closed, Objects
<1>6. \A x \in Objects \ L : u.next[x] = m.next[x]
  BY <1>4, <1>5 DEF Unlinked
<1>7. Sound(list_del(m, e), L \ {e}, s)
  <2>1. PICK v : v = list_del(m, e)
    OBVIOUS
  <2>2. v = SetPrev(SetNext(u, e, LIST_POISON1), e, LIST_POISON2)
    BY <1>2, <2>1 DEF list_del
  <2>3. Rings(v, K, own) /\ Written(u, e, LIST_POISON1, LIST_POISON2, v)
    BY <1>4, <1>5, <2>2, PoisonRings
  <2>4. \A x \in Objects \ K : x \in s \/ (x \in Entries /\ v.next[x] = LIST_POISON1)
    BY <1>5, <1>6, <2>3 DEF Sound, Written
  <2> QED
    BY <1>3, <2>1, <2>3, <2>4 DEF Sound
<1>8. Sound(list_del_init(m, e), L, s)
  <2>1. PICK v : v = list_del_init(m, e)
    OBVIOUS
  <2>2. v = INIT_LIST_HEAD(u, e)
    BY <1>2, <2>1 DEF list_del_init
  <2>3. (\E lab : Rings(v, K \cup {e}, lab)) /\ Written(u, e, e, e, v)
    BY <1>4, <1>5, <2>2, InitRings
  <2>4. \A x \in Objects \ L : x \in s \/ (x \in Entries /\ v.next[x] = LIST_POISON1)
    BY <1>5, <1>6, <2>3 DEF Sound, Written
  <2> QED
    BY <1>5, <2>1, <2>3, <2>4 DEF Sound
<1> QED
  BY <1>7, <1>8

\* list_move and list_move_tail put e behind an object of what is left.
LEMMA MoveSound ==
  ASSUME NEW m, NEW L, NEW s, Sound(m, L, s), NEW e \in L \cap Entries, NEW h \in L \ {e}
  PROVE  Sound(list_move(m, e, h), L, s) /\ Sound(list_move_tail(m, e, h), L, s)
<1>1. PICK own : Rings(m, L, own)
  BY DEF Sound
<1>2. PICK u : u = list_unlink(m, m.prev[e], m.next[e])
  OBVIOUS
<1>3. PICK K : K = L \ {e}
  OBVIOUS
<1>4. Rings(u, K, own) /\ Unlinked(m, m.prev[e], m.next[e], u)
  BY <1>1, <1>2, <1>3, UnlinkRings
<1>5. m.prev[e] \in L /\ L \subseteq Objects /\ e \notin K /\ K \cup {e} = L /\ h \in K
  BY <1>1, <1>3 DEF Rings, Closed
<1>6. \A x \in Objects \ L : u.next[x] = m.next[x]
  BY <1>4, <1>5 DEF Unlinked
<1>7. ASSUME NEW p \in K, NEW n, n = u.next[p], NEW v, v = list_insert(u, e, p, n)
      PROVE  Sound(v, L, s)
  <2>1. (\E lab : Rings(v, K \cup {e}, lab)) /\ Inserted(u, e, p, n, v)
    <3>1. Rings(u, K, own) /\ e \in Entries /\ e \notin K
      BY <1>4, <1>5
    <3> QED
      BY <1>7, <3>1, InsertRings
  <2>2. \A x \in Objects \ L : v.next[x] = m.next[x]
    BY <1>5, <1>6, <2>1 DEF Inserted
  <2> QED
    BY <1>5, <2>1, <2>2 DEF Sound
<1>8. Sound(list_move(m, e, h), L, s)
  <2>1. list_move(m, e, h) = list_insert(u, e, h, u.next[h])
    BY <1>2 DEF list_move, list_add
  <2> QED
    BY <1>5, <1>7, <2>1
<1>9. Sound(list_move_tail(m, e, h), L, s)
  <2>1. list_move_tail(m, e, h) = list_insert(u, e, u.prev[h], h)
    BY <1>2 DEF list_move_tail, list_add_tail
  <2>2. u.prev[h] \in K /\ u.next[u.prev[h]] = h
    BY <1>4, <1>5 DEF Rings, Closed
  <2> QED
    BY <1>7, <2>1, <2>2
<1> QED
  BY <1>8, <1>9

\* list_splice and list_splice_init of a list that is not empty.
LEMMA SpliceSound ==
  ASSUME NEW m, NEW L, NEW s, Sound(m, L, s), NEW list \in L \cap Heads, NEW at \in L,
         list # at, m.next[list] # at, m.prev[list] # at, m.next[list] # list
  PROVE  /\ Sound(list_join(m, list, at), L \ {list}, s \cup {list})
         /\ Sound(INIT_LIST_HEAD(list_join(m, list, at), list), L, s)
<1>1. PICK own : Rings(m, L, own)
  BY DEF Sound
<1>2. PICK u : u = list_join(m, list, at)
  OBVIOUS
<1>3. PICK K : K = L \ {list}
  OBVIOUS
<1>0. (\E lab : Rings(u, L \ {list}, lab)) /\ SameOutside(m, L, u)
  BY <1>1, <1>2, JoinRings
<1>4. PICK lab : /\ Rings(u, K, lab)
                 /\ \A x \in Objects \ L : u.next[x] = m.next[x] /\ u.prev[x] = m.prev[x]
  BY <1>0, <1>3 DEF SameOutside
<1>5. L \subseteq Objects /\ list \in Objects /\ list \notin K /\ K \cup {list} = L
  BY <1>1, <1>3 DEF Rings
<1>6. Sound(u, K, s \cup {list})
  BY <1>3, <1>4 DEF Sound
<1>7. PICK v : v = INIT_LIST_HEAD(u, list)
  OBVIOUS
<1>8. (\E o : Rings(v, K \cup {list}, o)) /\ Written(u, list, list, list, v)
  BY <1>4, <1>5, <1>7, InitRings
<1>9. Sound(v, L, s)
  <2>1. \A x \in Objects \ L : v.next[x] = m.next[x]
    BY <1>4, <1>5, <1>8 DEF Written
  <2> QED
    BY <1>5, <1>8, <2>1 DEF Sound
<1> QED
  BY <1>2, <1>3, <1>6, <1>7, <1>9

\* INIT_LIST_HEAD of an abandoned head.
LEMMA ReinitSound ==
  ASSUME NEW m, NEW L, NEW s, Sound(m, L, s), NEW h \in s
  PROVE  Sound(INIT_LIST_HEAD(m, h), L \cup {h}, s \ {h})
<1>1. PICK own : Rings(m, L, own)
  BY DEF Sound
<1>2. PICK v : v = INIT_LIST_HEAD(m, h)
  OBVIOUS
<1>3. h \in Objects /\ h \notin L
  BY DEF Sound, Objects
<1>4. (\E lab : Rings(v, L \cup {h}, lab)) /\ Written(m, h, h, h, v)
  BY <1>1, <1>2, <1>3, InitRings
<1> QED
  BY <1>2, <1>3, <1>4 DEF Sound, Written

\* The rings of a sound heap are what the program may follow.
LEMMA LinkedIs ==
  ASSUME NEW m, NEW L, NEW s, Sound(m, L, s)
  PROVE  (Objects \ {x \in Entries : m.next[x] = LIST_POISON1}) \ s = L
<1>1. PICK own : Rings(m, L, own)
  BY DEF Sound
<1>2. \A x \in L : m.next[x] # LIST_POISON1 /\ x \in Objects
  BY <1>1, ListAssumption DEF Rings, Closed, ListAssumption
<1> QED
  BY <1>2 DEF Sound
-----------------------------------------------------------------------------
(* The walk along a ring                                                   *)

\* A set of numbers that is not empty has a least one.
LEMMA Least ==
  ASSUME NEW S \in SUBSET Nat, S # {}
  PROVE  \E x \in S : \A y \in S : x <= y
<1>1. PICK x \in S : \A y \in S : ~(<<y, x>> \in OpToRel(<, Nat))
  BY NatLessThanWellFounded, WFMin
<1>2. ASSUME NEW y \in S PROVE x <= y
  <2>1. <<y, x>> \in OpToRel(<, Nat) <=> <<y, x>> \in Nat \X Nat /\ y < x
    BY Zenon DEF OpToRel
  <2>2. ~(y < x)
    BY <1>1, <2>1, Zenon
  <2> QED
    BY <2>2
<1> QED
  BY <1>2

\* The least one is the one CHOOSE finds.
LEMMA LeastIs ==
  ASSUME NEW S \in SUBSET Nat, NEW x \in S, \A y \in S : x <= y
  PROVE  x = CHOOSE k \in S : \A l \in S : k <= l
<1> DEFINE c == CHOOSE k \in S : \A l \in S : k <= l
<1>1. c \in S /\ \A l \in S : c <= l
  BY Zenon
<1> HIDE DEF c
<1>2. x = c
  BY <1>1
<1> QED
  BY <1>2 DEF c

\* f records j steps from x.
Trace(m, dir, x, j, f) == f = [k \in 0..j |-> IF k = 0 THEN x ELSE Succ(m, dir, f[k - 1])]

\* The recursive definition of Steps has a solution of any length.
LEMMA TraceExists ==
  ASSUME NEW m, NEW dir, NEW x, NEW b \in Nat
  PROVE  \E f : Trace(m, dir, x, b, f)
<1> DEFINE S == {j \in Nat : ~ \E f : Trace(m, dir, x, j, f)}
<1>1. SUFFICES S = {}
  BY <1>1
<1>2. SUFFICES ASSUME S # {} PROVE FALSE
  OBVIOUS
<1>3. PICK j \in S : \A y \in S : j <= y
  BY <1>2, Least
<1>4. j # 0
  <2>1. Trace(m, dir, x, 0, [k \in 0..0 |-> x])
    BY DEF Trace
  <2> QED
    BY <1>3, <2>1
<1>5. PICK f : Trace(m, dir, x, j - 1, f)
  <2>1. j - 1 \in Nat /\ j - 1 \notin S
    BY <1>3, <1>4
  <2> QED
    BY <2>1
<1>6. PICK g : g = [k \in 0..j |-> IF k = j THEN Succ(m, dir, f[j - 1]) ELSE f[k]]
  OBVIOUS
<1>7. \A k \in 0..(j - 1) : f[k] = IF k = 0 THEN x ELSE Succ(m, dir, f[k - 1])
  BY <1>5 DEF Trace
<1>8. ASSUME NEW k \in 0..j
      PROVE  g[k] = IF k = 0 THEN x ELSE Succ(m, dir, g[k - 1])
  <2>1. CASE k = 0
    BY <1>4, <1>6, <1>7, <2>1
  <2>2. CASE k # 0
    <3>1. k - 1 \in 0..(j - 1) /\ g[k - 1] = f[k - 1]
      BY <1>6, <2>2
    <3>2. CASE k = j
      BY <1>6, <2>2, <3>1, <3>2
    <3>3. CASE k # j
      <4>1. k \in 0..(j - 1)
        BY <3>3
      <4>2. g[k] = f[k]
        BY <1>6, <3>3
      <4> QED
        BY <1>7, <2>2, <3>1, <4>1, <4>2
    <3> QED
      BY <3>2, <3>3
  <2> QED
    BY <2>1, <2>2
<1>9. Trace(m, dir, x, j, g)
  BY <1>6, <1>8 DEF Trace
<1> QED
  BY <1>3, <1>9

Bound == Cardinality(Objects)

\* The number of objects is a number.
LEMMA BoundIsNat == Bound \in Nat
BY ListAssumption, FS_CardinalityType DEF ListAssumption, Bound

\* Steps follows the pointers.
LEMMA StepsFollow ==
  ASSUME NEW m, NEW dir, NEW x, NEW p, p = Steps(m, dir, x)
  PROVE  \A k \in 0..Bound : p[k] = IF k = 0 THEN x ELSE Succ(m, dir, p[k - 1])
<1>1. PICK f : Trace(m, dir, x, Bound, f)
  BY TraceExists, BoundIsNat
<1>2. p = CHOOSE f0 : Trace(m, dir, x, Bound, f0)
  BY DEF Steps, Trace, Bound
<1>3. Trace(m, dir, x, Bound, p)
  BY <1>1, <1>2
<1> QED
  BY <1>3 DEF Trace

\* A walk does not leave a set that its pointer does not leave.
LEMMA StepsStay ==
  ASSUME NEW m, NEW dir, NEW x, NEW C \in SUBSET Objects, x \in C, \A y \in C : m[dir][y] \in C,
         NEW p, p = Steps(m, dir, x)
  PROVE  \A k \in 0..Bound : p[k] \in C
<1> DEFINE S == {k \in 0..Bound : p[k] \notin C}
<1>1. \A k \in 0..Bound : p[k] = IF k = 0 THEN x ELSE Succ(m, dir, p[k - 1])
  BY StepsFollow
<1>2. SUFFICES ASSUME S # {} PROVE FALSE
  OBVIOUS
<1>0. S \in SUBSET Nat
  BY BoundIsNat
<1>3. PICK k \in S : \A y \in S : k <= y
  BY <1>0, <1>2, Least
<1>4. k # 0
  BY <1>1, <1>3, BoundIsNat
<1>5. k \in 0..Bound /\ k - 1 \in 0..Bound /\ ~(k <= k - 1)
  BY <1>3, <1>4, BoundIsNat
<1>6. p[k - 1] \in C
  BY <1>3, <1>5
<1>7. p[k] = m[dir][p[k - 1]]
  BY <1>1, <1>4, <1>5, <1>6 DEF Succ
<1> QED
  BY <1>3, <1>6, <1>7

Dirs == {"next", "prev"}
Back(dir) == IF dir = "next" THEN "prev" ELSE "next"

\* Either pointer leads round a ring, the other one back.
LEMMA ThereAndBack ==
  ASSUME NEW m, NEW L, Closed(m, L), NEW dir \in Dirs, NEW x \in L
  PROVE  m[dir][x] \in L /\ m[Back(dir)][m[dir][x]] = x
BY DEF Closed, Dirs, Back

\* p goes once round a ring, from x to x.
Cycle(m, dir, x, L, c, p) ==
  /\ c \in Nat \ {0} /\ p[0] = x /\ p[c] = x
  /\ \A i \in 0..c : p[i] \in L
  /\ \A i \in 0..(c - 1) : p[i + 1] = m[dir][p[i]] /\ p[i] = m[Back(dir)][p[i + 1]]
  /\ \A i, k \in 0..(c - 1) : p[i] = p[k] => i = k

\* A walk that starts on a ring comes back to where it started.
LEMMA ComesBack ==
  ASSUME NEW m, NEW L \in SUBSET Objects, Closed(m, L), NEW x \in L, NEW dir \in Dirs,
         NEW p, p = Steps(m, dir, x)
  PROVE  \E c \in 1..Bound : Cycle(m, dir, x, L, c, p)
<1>0. \A y \in L : m[dir][y] \in L /\ m[Back(dir)][m[dir][y]] = y
  BY ThereAndBack
<1>1. \A k \in 0..Bound : p[k] \in L
  BY <1>0, StepsStay
<1>2. \A k \in 1..Bound : p[k] = m[dir][p[k - 1]] /\ m[Back(dir)][p[k]] = p[k - 1] /\ p[0] = x
  <2>1. \A k \in 0..Bound : p[k] = IF k = 0 THEN x ELSE Succ(m, dir, p[k - 1])
    BY StepsFollow
  <2>2. ASSUME NEW k \in 1..Bound
        PROVE  p[k] = m[dir][p[k - 1]] /\ m[Back(dir)][p[k]] = p[k - 1] /\ p[0] = x
    <3>1. k \in 0..Bound /\ k - 1 \in 0..Bound /\ 0 \in 0..Bound /\ k # 0
      BY BoundIsNat
    <3>2. p[k - 1] \in L /\ p[k] = m[dir][p[k - 1]]
      BY <1>1, <2>1, <3>1 DEF Succ
    <3> QED
      BY <1>0, <2>1, <3>1, <3>2
  <2> QED
    BY <2>2
<1>3. PICK i \in 0..Bound, j \in 0..Bound : i < j /\ p[i] = p[j]
  <2>1. IsFiniteSet(0..Bound) /\ Cardinality(0..Bound) = Bound + 1
    BY BoundIsNat, FS_Interval
  <2>2. IsFiniteSet(Objects) /\ Cardinality(Objects) < Cardinality(0..Bound)
    BY <2>1, BoundIsNat, ListAssumption DEF ListAssumption, Bound
  <2>3. PICK f : f = [k \in 0..Bound |-> p[k]]
    OBVIOUS
  <2>4. f \in [0..Bound -> Objects]
    BY <1>1, <2>3
  <2>5. \E a, c \in 0..Bound : a # c /\ f[a] = f[c]
    BY <2>1, <2>2, <2>4, FS_PigeonHole
  <2> QED
    BY <2>3, <2>5, BoundIsNat
<1> DEFINE S == {a \in 0..Bound : \E c \in 0..Bound : a < c /\ p[a] = p[c]}
<1>4. PICK a \in S : \A y \in S : a <= y
  <2>1. S # {} /\ S \in SUBSET Nat
    BY <1>3, BoundIsNat
  <2> QED
    BY <2>1, Least
<1>5. PICK b \in 0..Bound : a < b /\ p[a] = p[b]
  BY <1>4
<1>6. a = 0
  <2>1. SUFFICES ASSUME a # 0 PROVE FALSE
    OBVIOUS
  <2>2. a \in 1..Bound /\ b \in 1..Bound /\ a - 1 \in 0..Bound /\ b - 1 \in 0..Bound /\ a - 1 < b - 1
    BY <1>4, <1>5, <2>1, BoundIsNat
  <2>3. p[a - 1] = p[b - 1]
    BY <1>2, <1>5, <2>2
  <2>4. a - 1 \in S
    BY <2>2, <2>3
  <2> QED
    BY <1>4, <2>2, <2>4, BoundIsNat
<1> DEFINE E == {k \in 1..Bound : p[k] = x}
<1>7. b \in E /\ E \in SUBSET Nat
  BY <1>2, <1>5, <1>6, BoundIsNat
<1>8. PICK c \in E : \A k \in E : c <= k
  BY <1>7, Least
<1>9. c \in 1..Bound /\ p[c] = x /\ p[0] = x
  BY <1>2, <1>8
<1>10. \A k \in 0..(c - 1) : p[k + 1] = m[dir][p[k]] /\ p[k] = m[Back(dir)][p[k + 1]]
  <2>1. ASSUME NEW k \in 0..(c - 1) PROVE k + 1 \in 1..Bound /\ (k + 1) - 1 = k
    BY <1>9, BoundIsNat
  <2> QED
    BY <1>2, <2>1
<1>11. ASSUME NEW k \in 0..(c - 1), NEW l \in 0..(c - 1), k < l, p[k] = p[l] PROVE FALSE
  <2> DEFINE T == {y \in 0..(c - 1) : \E z \in 0..(c - 1) : y < z /\ p[y] = p[z]}
  <2>1. k \in T /\ T \in SUBSET Nat
    BY <1>9, <1>11, BoundIsNat
  <2>2. PICK y \in T : \A t \in T : y <= t
    BY <2>1, Least
  <2>3. PICK z \in 0..(c - 1) : y < z /\ p[y] = p[z]
    BY <2>2
  <2>4. CASE y = 0
    <3>1. z \in E /\ z < c
      BY <1>9, <2>3, <2>4, BoundIsNat
    <3> QED
      BY <1>8, <1>9, <3>1, BoundIsNat
  <2>5. CASE y # 0
    <3>1. /\ y - 1 \in 0..(c - 1) /\ z - 1 \in 0..(c - 1) /\ y - 1 < z - 1
          /\ y \in 1..Bound /\ z \in 1..Bound /\ ~(y <= y - 1)
      BY <1>9, <2>2, <2>3, <2>5, BoundIsNat
    <3>2. p[y - 1] = p[z - 1]
      BY <1>2, <2>3, <3>1
    <3>3. y - 1 \in T
      BY <3>1, <3>2
    <3> QED
      BY <2>2, <3>1, <3>3
  <2> QED
    BY <2>4, <2>5
<1>12. \A k, l \in 0..(c - 1) : p[k] = p[l] => k = l
  BY <1>9, <1>11, BoundIsNat
<1>13. \A k \in 0..c : p[k] \in L
  BY <1>1, <1>9, BoundIsNat
<1>14. Cycle(m, dir, x, L, c, p)
  BY <1>9, <1>10, <1>12, <1>13, BoundIsNat DEF Cycle
<1> QED
  BY <1>9, <1>14

\* The walk from a head to itself meets the objects beside it.
LEMMA WalkMeets ==
  ASSUME NEW m, NEW L \in SUBSET Objects, Closed(m, L), NEW h \in L, m.next[h] # h,
         NEW w, w = Walk(m, "next", h, h), NEW at, \A k \in DOMAIN w : w[k] # at
  PROVE  at # m.next[h] /\ at # m.prev[h]
<1>1. PICK p : p = Steps(m, "next", h)
  OBVIOUS
<1>2. PICK E : E = {k \in 1..Bound : p[k] = h}
  OBVIOUS
<1>3. E # {} /\ E \in SUBSET Nat
  <2>1. PICK c \in 1..Bound : Cycle(m, "next", h, L, c, p)
    BY <1>1, ComesBack DEF Dirs
  <2>2. p[c] = h
    BY <2>1 DEF Cycle
  <2> QED
    BY <1>2, <2>1, <2>2, BoundIsNat
<1>4. PICK e \in E : \A l \in E : e <= l
  BY <1>3, Least
<1>5. e = CHOOSE k \in E : \A l \in E : k <= l
  BY <1>3, <1>4, LeastIs
<1>6. w = [k \in 1..(e - 1) |-> p[k]]
  BY <1>1, <1>2, <1>3, <1>5 DEF Walk, Bound
<1>7. \A k \in 0..Bound : p[k] = IF k = 0 THEN h ELSE Succ(m, "next", p[k - 1])
  BY <1>1, StepsFollow
<1>8. \A k \in 0..Bound : p[k] \in L
  BY <1>1, StepsStay DEF Closed
<1>9. e \in 1..Bound /\ p[e] = h /\ p[0] = h /\ e - 1 \in 0..Bound
  BY <1>2, <1>4, <1>7, BoundIsNat
<1>10. p[e] = m.next[p[e - 1]] /\ p[1] = m.next[h]
  <2>1. 1 \in 0..Bound /\ 1 # 0 /\ 1 - 1 = 0 /\ e \in 0..Bound /\ e # 0
    BY <1>9, BoundIsNat
  <2> QED
    BY <1>7, <1>8, <1>9, <2>1 DEF Succ
<1>11. p[e - 1] = m.prev[h]
  BY <1>8, <1>9, <1>10 DEF Closed
<1>12. e # 1
  BY <1>9, <1>10
<1>13. 1 \in 1..(e - 1) /\ e - 1 \in 1..(e - 1)
  BY <1>9, <1>12, BoundIsNat
<1>14. 1 \in DOMAIN w /\ e - 1 \in DOMAIN w /\ w[1] = p[1] /\ w[e - 1] = p[e - 1]
  BY <1>6, <1>13
<1> QED
  BY <1>10, <1>11, <1>14

\* What a walk from h meets lies in every set that next does not leave.
LEMMA WalkStays ==
  ASSUME NEW m, NEW h, NEW C \in SUBSET Objects, h \in C, \A y \in C : m.next[y] \in C,
         NEW w, w = Walk(m, "next", h, h), NEW k \in DOMAIN w
  PROVE  w[k] \in C
<1>1. PICK p : p = Steps(m, "next", h)
  OBVIOUS
<1>2. PICK E : E = {i \in 1..Bound : p[i] = h}
  OBVIOUS
<1> DEFINE len == IF E = {} THEN Bound ELSE (CHOOSE i \in E : \A l \in E : i <= l) - 1
<1>4. w = [i \in 1..len |-> p[i]]
  BY <1>1, <1>2 DEF Walk, Bound
<1>5. len \in Int /\ len <= Bound
  <2>1. CASE E = {}
    BY <2>1, BoundIsNat
  <2>2. CASE E # {}
    <3>1. E \in SUBSET Nat
      BY <1>2, BoundIsNat
    <3>2. PICK e \in E : \A l \in E : e <= l
      BY <2>2, <3>1, Least
    <3>3. e = CHOOSE i \in E : \A l \in E : i <= l
      BY <3>1, <3>2, LeastIs
    <3>4. len = e - 1 /\ e \in 1..Bound
      BY <1>2, <2>2, <3>3
    <3> QED
      BY <3>4, BoundIsNat
  <2> QED
    BY <2>1, <2>2
<1> HIDE DEF len
<1>6. k \in 0..Bound /\ w[k] = p[k]
  BY <1>4, <1>5, BoundIsNat
<1> QED
  BY <1>1, <1>6, StepsStay
-----------------------------------------------------------------------------
(* The ring a loop is on                                                   *)

Stays(m, C) == \A x \in C : m.next[x] \in C /\ m.prev[x] \in C

\* R is the ring of h: no part of it that has h can be left out.
Ring(m, h, R) ==
  /\ h \in R /\ Stays(m, R)
  /\ \A C \in SUBSET R : h \in C /\ Stays(m, C) => C = R

\* Every linked object is on a ring.
LEMMA RingExists ==
  ASSUME NEW m, NEW L, Closed(m, L), NEW h \in L
  PROVE  \E R \in SUBSET L : Ring(m, h, R)
<1>1. PICK R : R = {x \in L : \A C \in SUBSET L : h \in C /\ Stays(m, C) => x \in C}
  OBVIOUS
<1>2. h \in R /\ R \subseteq L
  BY <1>1
<1>3. ASSUME NEW x \in R PROVE m.next[x] \in R /\ m.prev[x] \in R
  <2>1. m.next[x] \in L /\ m.prev[x] \in L
    BY <1>2 DEF Closed
  <2>2. ASSUME NEW C \in SUBSET L, h \in C, Stays(m, C) PROVE m.next[x] \in C /\ m.prev[x] \in C
    <3>1. x \in C
      BY <1>1, <2>2
    <3> QED
      BY <2>2, <3>1 DEF Stays
  <2> QED
    BY <1>1, <2>1, <2>2
<1>4. ASSUME NEW C \in SUBSET R, h \in C, Stays(m, C) PROVE C = R
  <2>1. C \in SUBSET L
    BY <1>2
  <2>2. \A x \in R : x \in C
    BY <1>1, <1>4, <2>1
  <2> QED
    BY <2>2
<1>5. Stays(m, R)
  BY <1>3 DEF Stays
<1> QED
  BY <1>2, <1>4, <1>5 DEF Ring

\* No ring has two heads.
LEMMA OneHead ==
  ASSUME NEW m, NEW L, NEW own, Rings(m, L, own), NEW h \in Heads, NEW R \in SUBSET L, Ring(m, h, R),
         NEW x \in R \cap Heads
  PROVE  x = h
<1>1. Closed(m, L) /\ Named(m, L, own) /\ h \in R
  BY DEF Rings, Ring
<1>2. PICK C : C = {y \in R : own[y] = own[h]}
  OBVIOUS
<1>3. ASSUME NEW y \in C PROVE m.next[y] \in C /\ m.prev[y] \in C
  <2>1. y \in L /\ y \in R /\ own[y] = own[h]
    BY <1>2
  <2>2. m.next[y] \in R /\ m.prev[y] \in R
    BY <2>1 DEF Ring, Stays
  <2>3. own[m.next[y]] = own[y]
    BY <1>1, <2>1 DEF Named
  <2>4. own[m.prev[y]] = own[y]
    <3>1. m.prev[y] \in L /\ m.next[m.prev[y]] = y
      BY <1>1, <2>1 DEF Closed
    <3> QED
      BY <1>1, <3>1 DEF Named
  <2> QED
    BY <1>2, <2>1, <2>2, <2>3, <2>4
<1>4. C = R
  <2>1. Stays(m, C)
    BY <1>3 DEF Stays
  <2>2. C \in SUBSET R /\ h \in C
    BY <1>1, <1>2
  <2> QED
    BY <2>1, <2>2 DEF Ring
<1>5. own[x] = own[h]
  BY <1>2, <1>4
<1>6. x \in L /\ h \in L /\ x \in Heads
  BY <1>1
<1>7. own[x] = x /\ own[h] = h
  BY <1>1, <1>6 DEF Named
<1> QED
  BY <1>5, <1>7

\* The ring R of m without e, in the heap u.
Bypassed(m, R, e, u) ==
  \A x \in R \ {e} : /\ u.next[x] = IF m.next[x] = e THEN m.next[e] ELSE m.next[x]
                     /\ u.prev[x] = IF m.prev[x] = e THEN m.prev[e] ELSE m.prev[x]

\* What remains of a ring when the current entry is gone.
LEMMA RingWithout ==
  ASSUME NEW m, NEW L, Closed(m, L), NEW h, NEW R \in SUBSET L, Ring(m, h, R),
         NEW e \in R, e # h, NEW u, Bypassed(m, R, e, u)
  PROVE  Ring(u, h, R \ {e}) /\ m.next[e] # e /\ m.prev[e] # e
<1>1. Stays(m, R) /\ h \in R
  BY DEF Ring
<1>2. \A x \in R : m.prev[m.next[x]] = x /\ m.next[m.prev[x]] = x /\ m.next[x] \in R /\ m.prev[x] \in R
  BY <1>1 DEF Closed, Stays
<1>3. PICK K : K = R \ {e}
  OBVIOUS
<1>4. h \in K /\ e \notin K /\ K \subseteq R /\ K # R
  BY <1>1, <1>3
<1>5. m.next[e] # e /\ m.prev[e] # e
  <2>1. SUFFICES ASSUME m.next[e] = e PROVE FALSE
    BY <1>2
  <2>2. Stays(m, K)
    BY <1>2, <1>3, <2>1 DEF Stays
  <2> QED
    BY <1>4, <2>2 DEF Ring
<1>6. \A x \in K : /\ u.next[x] = IF m.next[x] = e THEN m.next[e] ELSE m.next[x]
                   /\ u.prev[x] = IF m.prev[x] = e THEN m.prev[e] ELSE m.prev[x]
  BY <1>3 DEF Bypassed
<1>7. Stays(u, K)
  BY <1>2, <1>3, <1>5, <1>6 DEF Stays
<1>8. ASSUME NEW C \in SUBSET K, h \in C, Stays(u, C) PROVE C = K
  <2>1. \A x \in C : x \in K /\ x \in R /\ x # e
    BY <1>3, <1>8
  <2>2. CASE m.prev[e] \in C
    <3>1. m.next[e] \in C
      <4>1. u.next[m.prev[e]] = m.next[e]
        BY <1>2, <1>6, <2>1, <2>2
      <4> QED
        BY <1>8, <2>2, <4>1 DEF Stays
    <3>2. PICK B : B = C \cup {e}
      OBVIOUS
    <3>3. Stays(m, B)
      BY <1>6, <1>8, <2>1, <2>2, <3>1, <3>2 DEF Stays
    <3>4. B \in SUBSET R /\ h \in B
      BY <1>4, <1>8, <3>2
    <3>5. B = R
      BY <3>3, <3>4 DEF Ring
    <3> QED
      BY <1>3, <2>1, <3>2, <3>5
  <2>3. CASE m.prev[e] \notin C
    <3>1. m.next[e] \notin C
      <4>1. SUFFICES ASSUME m.next[e] \in C PROVE FALSE
        OBVIOUS
      <4>2. m.prev[m.next[e]] = e
        BY <1>2
      <4>3. u.prev[m.next[e]] = m.prev[e]
        BY <1>6, <2>1, <4>1, <4>2
      <4> QED
        BY <1>8, <2>3, <4>1, <4>3 DEF Stays
    <3>2. \A x \in C : m.next[x] # e /\ m.prev[x] # e
      BY <1>2, <2>1, <2>3, <3>1
    <3>3. Stays(m, C)
      BY <1>6, <1>8, <2>1, <3>2 DEF Stays
    <3>4. C \in SUBSET R
      BY <2>1
    <3>5. C = R
      BY <1>8, <3>3, <3>4 DEF Ring
    <3> QED
      BY <1>4, <1>8, <3>5
  <2> QED
    BY <2>2, <2>3
<1> QED
  BY <1>3, <1>4, <1>5, <1>7, <1>8 DEF Ring

\* list_del and list_del_init take e off its ring and leave the rest of it alone.
LEMMA DeleteBypass ==
  ASSUME NEW m, NEW L, NEW own, Rings(m, L, own), NEW R \in SUBSET L, NEW e \in L
  PROVE  Bypassed(m, R, e, list_del(m, e)) /\ Bypassed(m, R, e, list_del_init(m, e))
<1>1. PICK u : u = list_unlink(m, m.prev[e], m.next[e])
  OBVIOUS
<1>2. Rings(u, L \ {e}, own) /\ Unlinked(m, m.prev[e], m.next[e], u)
  BY <1>1, UnlinkRings
<1>3. Closed(m, L) /\ L \subseteq Objects /\ u \in Heap
  BY <1>2 DEF Rings
<1>4. Bypassed(m, R, e, u)
  BY <1>2, <1>3 DEF Unlinked, Bypassed, Closed
<1>5. e \in Objects /\ e \in Ptrs /\ LIST_POISON1 \in Ptrs /\ LIST_POISON2 \in Ptrs
  BY <1>3 DEF Ptrs
<1>6. ASSUME NEW a \in Ptrs, NEW b \in Ptrs, NEW v, Written(u, e, a, b, v) PROVE Bypassed(m, R, e, v)
  BY <1>3, <1>4, <1>6 DEF Written, Bypassed
<1>7. Written(u, e, LIST_POISON1, LIST_POISON2, list_del(m, e))
  BY <1>1, <1>3, <1>5, WritePtrs DEF list_del
<1>8. Written(u, e, e, e, list_del_init(m, e))
  BY <1>1, <1>3, <1>5, WritePtrs DEF list_del_init, INIT_LIST_HEAD
<1> QED
  BY <1>5, <1>6, <1>7, <1>8

\* So do list_move and list_move_tail to an object g of another ring.
LEMMA MoveBypass ==
  ASSUME NEW m, NEW L, NEW own, Rings(m, L, own), NEW R \in SUBSET L, Stays(m, R),
         NEW e \in R, e \in Entries, NEW g \in L \ R
  PROVE  Bypassed(m, R, e, list_move(m, e, g)) /\ Bypassed(m, R, e, list_move_tail(m, e, g))
<1>1. PICK u : u = list_unlink(m, m.prev[e], m.next[e])
  OBVIOUS
<1>2. Rings(u, L \ {e}, own) /\ Unlinked(m, m.prev[e], m.next[e], u)
  BY <1>1, UnlinkRings
<1>3. Closed(m, L) /\ L \subseteq Objects /\ u \in Heap /\ Closed(u, L \ {e})
  BY <1>2 DEF Rings
<1>4. Bypassed(m, R, e, u)
  BY <1>2, <1>3 DEF Unlinked, Bypassed, Closed
<1>5. m.next[e] \in R /\ m.prev[e] \in R /\ m.next[g] \in L \ R /\ m.prev[g] \in L \ R
  BY <1>3 DEF Closed, Stays
<1>6. u.next[g] = m.next[g] /\ u.prev[g] = m.prev[g]
  BY <1>2, <1>3, <1>5 DEF Unlinked
<1>7. ASSUME NEW p \in L \ R, NEW n \in L \ R PROVE Bypassed(m, R, e, list_insert(u, e, p, n))
  <2>1. Inserted(u, e, p, n, list_insert(u, e, p, n))
    BY <1>3, InsertPtrs
  <2>2. \A x \in R \ {e} : x \in Objects /\ x # p /\ x # n
    BY <1>3
  <2>3. \A x \in R \ {e} : /\ list_insert(u, e, p, n).next[x] = u.next[x]
                           /\ list_insert(u, e, p, n).prev[x] = u.prev[x]
    BY <2>1, <2>2 DEF Inserted
  <2> QED
    BY <1>4, <2>3 DEF Bypassed
<1>8. list_move(m, e, g) = list_insert(u, e, g, m.next[g])
  BY <1>1, <1>6 DEF list_move, list_add
<1>9. list_move_tail(m, e, g) = list_insert(u, e, m.prev[g], g)
  BY <1>1, <1>6 DEF list_move_tail, list_add_tail
<1> QED
  BY <1>5, <1>7, <1>8, <1>9
-----------------------------------------------------------------------------
(* The invariant                                                           *)

LoopRecord == it = [head |-> it.head, pos |-> it.pos, n |-> it.n, dir |-> it.dir, safe |-> it.safe]

\* A loop is on the ring of its head, and a safe one knows the next object.
LoopInv ==
  ~Idle => /\ LoopRecord /\ it.head \in Heads /\ it.dir \in {"next", "prev"}
           /\ \E R \in SUBSET Linked :
                /\ Ring(mem, it.head, R) /\ it.pos \in R
                /\ it.safe => it.n = mem[it.dir][it.pos]

IInv == Sound(mem, Linked, stale) /\ LoopInv

\* At first every head is alone and every entry is poisoned.
LEMMA InitInv == Init => IInv
<1> SUFFICES ASSUME Init PROVE IInv
  OBVIOUS
<1>1. mem \in Heap
  BY DEF Init, Heap, Ptrs, Objects
<1>2. \A x \in Heads : x \in Objects /\ mem.next[x] = x /\ mem.prev[x] = x
  BY DEF Init, Objects
<1>3. \A x \in Entries : x \in Objects /\ x \notin Heads /\ mem.next[x] = LIST_POISON1
  BY ListAssumption DEF Init, Objects, ListAssumption
<1>4. Heads \subseteq Objects /\ Closed(mem, Heads)
  BY <1>2 DEF Closed, Objects
<1>5. PICK o : o = [x \in Objects |-> x]
  OBVIOUS
<1>6. Named(mem, Heads, o)
  BY <1>2, <1>5 DEF Named
<1>7. Rings(mem, Heads, o)
  BY <1>1, <1>4, <1>6 DEF Rings
<1>8. Sound(mem, Heads, stale)
  BY <1>3, <1>7 DEF Sound, Objects, Init
<1>9. Linked = Heads
  BY <1>8, LinkedIs DEF Linked, Poisoned
<1>10. LoopInv
  BY DEF LoopInv, Idle, Init
<1> QED
  BY <1>8, <1>9, <1>10 DEF IInv

\* A call made outside a loop keeps the invariant if the heap it leaves is sound.
LEMMA CallKeeps ==
  ASSUME Idle, it' = it, NEW L, Sound(mem', L, stale')
  PROVE  IInv'
<1>1. Linked' = L
  BY LinkedIs DEF Linked, Poisoned
<1>2. LoopInv'
  BY DEF LoopInv, Idle, NoLoop
<1> QED
  BY <1>1, <1>2 DEF IInv

\* list_add and list_add_tail, next to any listed object.
LEMMA AddKeeps ==
  ASSUME IInv, NEW e \in Entries, NEW head \in Objects, Add(e, head)
  PROVE  IInv'
<1>1. PICK L : L = Linked
  OBVIOUS
<1>2. Sound(mem, L, stale) /\ Idle /\ it' = it /\ stale' = stale
  BY <1>1 DEF IInv, Add, Calls
<1>3. PICK own : Rings(mem, L, own)
  BY <1>2 DEF Sound
<1>4. head \in L /\ head # e /\ (e \notin L \/ mem.next[e] = e)
  BY <1>1 DEF Add, Listed, Linked, Loose, list_empty
<1>5. mem.prev[head] \in L \ {e} /\ mem.next[mem.prev[head]] = head
  BY <1>3, <1>4 DEF Rings, Closed
<1>6. CASE mem' = list_add(mem, e, head)
  <2>1. mem' = list_insert(mem, e, head, mem.next[head])
    BY <1>6 DEF list_add
  <2>2. PICK n : n = mem.next[head]
    OBVIOUS
  <2>3. Sound(mem', L \cup {e}, stale)
    BY <1>2, <1>4, <2>1, <2>2, InsertSound
  <2> QED
    BY <1>2, <2>3, CallKeeps
<1>7. CASE mem' = list_add_tail(mem, e, head)
  <2>1. mem' = list_insert(mem, e, mem.prev[head], head)
    BY <1>7 DEF list_add_tail
  <2>2. PICK p : p = mem.prev[head]
    OBVIOUS
  <2>3. Sound(mem', L \cup {e}, stale)
    BY <1>2, <1>4, <1>5, <2>1, <2>2, InsertSound
  <2> QED
    BY <1>2, <2>3, CallKeeps
<1> QED
  BY <1>6, <1>7 DEF Add, Calls

\* list_del and list_del_init.
LEMMA DeleteKeeps ==
  ASSUME IInv, NEW e \in Entries, Delete(e)
  PROVE  IInv'
<1>1. PICK L : L = Linked
  OBVIOUS
<1>2. Sound(mem, L, stale) /\ Idle /\ it' = it /\ stale' = stale /\ e \in L \cap Entries
  BY <1>1 DEF IInv, Delete, Calls
<1>3. Sound(list_del(mem, e), L \ {e}, stale) /\ Sound(list_del_init(mem, e), L, stale)
  BY <1>2, DeleteSound
<1>4. mem' = list_del(mem, e) \/ mem' = list_del_init(mem, e)
  BY DEF Delete, Calls
<1>5. Sound(mem', L \ {e}, stale') \/ Sound(mem', L, stale')
  BY <1>2, <1>3, <1>4
<1> QED
  BY <1>2, <1>5, CallKeeps

\* list_move and list_move_tail, next to any other listed object.
LEMMA MoveKeeps ==
  ASSUME IInv, NEW e \in Entries, NEW head \in Objects, Move(e, head)
  PROVE  IInv'
<1>1. PICK L : L = Linked
  OBVIOUS
<1>2. /\ Sound(mem, L, stale) /\ Idle /\ it' = it /\ stale' = stale
      /\ e \in L \cap Entries /\ head \in L \ {e}
  BY <1>1 DEF IInv, Move, Calls, Listed
<1>3. Sound(list_move(mem, e, head), L, stale) /\ Sound(list_move_tail(mem, e, head), L, stale)
  BY <1>2, MoveSound
<1>4. mem' = list_move(mem, e, head) \/ mem' = list_move_tail(mem, e, head)
  BY DEF Move, Calls
<1>5. Sound(mem', L, stale')
  BY <1>2, <1>3, <1>4
<1> QED
  BY <1>2, <1>5, CallKeeps

\* list_splice and list_splice_init.
LEMMA SpliceKeeps ==
  ASSUME IInv, NEW list \in Heads, NEW at \in Objects, Splice(list, at)
  PROVE  IInv'
<1>1. PICK L : L = Linked
  OBVIOUS
<1>2. /\ Sound(mem, L, stale) /\ Idle /\ it' = it
      /\ list \in L \cap Heads /\ at \in L /\ list # at
  BY <1>1 DEF IInv, Splice, Calls, Listed
<1>3. PICK own : Rings(mem, L, own)
  BY <1>2 DEF Sound
<1>4. CASE mem.next[list] = list
  <2>1. mem' = mem /\ stale' = stale
    BY <1>4 DEF Splice, Calls, list_splice, list_splice_init, list_empty
  <2>2. Sound(mem', L, stale')
    BY <1>2, <2>1
  <2> QED
    BY <1>2, <2>2, CallKeeps
<1>5. CASE mem.next[list] # list
  <2>1. at # mem.next[list] /\ at # mem.prev[list]
    <3>1. PICK w : w = Walk(mem, "next", list, list)
      OBVIOUS
    <3>2. \A k \in DOMAIN w : w[k] # at
      BY <3>1 DEF Splice
    <3>3. L \in SUBSET Objects /\ Closed(mem, L)
      BY <1>3 DEF Rings
    <3> QED
      BY <1>2, <1>5, <3>1, <3>2, <3>3, WalkMeets
  <2>2. /\ Sound(list_join(mem, list, at), L \ {list}, stale \cup {list})
        /\ Sound(INIT_LIST_HEAD(list_join(mem, list, at), list), L, stale)
    BY <1>2, <1>5, <2>1, SpliceSound
  <2>3. \/ mem' = list_join(mem, list, at) /\ stale' = stale \cup {list}
        \/ mem' = INIT_LIST_HEAD(list_join(mem, list, at), list) /\ stale' = stale
    BY <1>5 DEF Splice, Calls, list_splice, list_splice_init, list_empty
  <2>4. Sound(mem', L \ {list}, stale') \/ Sound(mem', L, stale')
    BY <2>2, <2>3
  <2> QED
    BY <1>2, <2>4, CallKeeps
<1> QED
  BY <1>4, <1>5

\* INIT_LIST_HEAD of a head that list_splice has left behind.
LEMMA ReinitKeeps ==
  ASSUME IInv, NEW h \in Heads, Reinit(h)
  PROVE  IInv'
<1>1. PICK L : L = Linked
  OBVIOUS
<1>2. /\ Sound(mem, L, stale) /\ Idle /\ it' = it /\ h \in stale
      /\ mem' = INIT_LIST_HEAD(mem, h) /\ stale' = stale \ {h}
  BY <1>1 DEF IInv, Reinit, Calls
<1>3. Sound(mem', L \cup {h}, stale')
  BY <1>2, ReinitSound
<1> QED
  BY <1>2, <1>3, CallKeeps

\* What a loop starts behind is on the ring of its head.
LEMMA FromRing ==
  ASSUME NEW h, NEW from, from = h \/ InList(from, h),
         NEW R \in SUBSET Objects, h \in R, \A x \in R : mem.next[x] \in R /\ mem.prev[x] \in R
  PROVE  from \in R
<1>1. SUFFICES ASSUME from # h PROVE from \in R
  OBVIOUS
<1>2. PICK w : w = Walk(mem, "next", h, h)
  OBVIOUS
<1>3. PICK k \in DOMAIN w : w[k] = from
  BY <1>1, <1>2 DEF InList
<1> QED
  BY <1>2, <1>3, WalkStays

\* A loop starts behind its head or behind an entry of the list.
LEMMA StartKeeps ==
  ASSUME IInv, NEW h \in Heads, NEW from, NEW dir \in {"next", "prev"}, NEW safe,
         from = h \/ InList(from, h), StartLoop(h, from, dir, safe)
  PROVE  IInv'
<1>1. /\ Sound(mem, Linked, stale) /\ h \in Linked /\ mem' = mem /\ stale' = stale
      /\ it' = [head |-> h, pos |-> mem[dir][from], n |-> mem[dir][mem[dir][from]],
                dir |-> dir, safe |-> safe]
  BY DEF IInv, StartLoop
<1>2. Linked \subseteq Objects /\ Closed(mem, Linked)
  BY <1>1 DEF Sound, Rings
<1>3. PICK R \in SUBSET Linked : Ring(mem, h, R)
  BY <1>1, <1>2, RingExists
<1>4. h \in R /\ \A x \in R : mem.next[x] \in R /\ mem.prev[x] \in R
  BY <1>3 DEF Ring, Stays
<1>5. from \in R
  BY <1>2, <1>4, FromRing
<1>6. mem[dir][from] \in R
  BY <1>4, <1>5
<1>7. Linked' = Linked
  BY <1>1 DEF Linked, Poisoned
<1>8. LoopInv'
  <2>1. LoopRecord' /\ it'.head = h /\ it'.dir = dir /\ it'.pos \in R /\ it'.n = mem'[it'.dir][it'.pos]
    BY <1>1, <1>6 DEF LoopRecord
  <2> QED
    BY <1>1, <1>3, <1>7, <2>1 DEF LoopInv
<1> QED
  BY <1>1, <1>7, <1>8 DEF IInv

\* The start of every kind of loop.
LEMMA LoopKeeps ==
  ASSUME IInv, NEW h \in Heads, Loop(h)
  PROVE  IInv'
<1>1. ASSUME NEW from, NEW dir \in {"next", "prev"}, NEW safe, from = h \/ InList(from, h),
             StartLoop(h, from, dir, safe)
      PROVE  IInv'
  BY <1>1, StartKeeps
<1> QED
  BY <1>1 DEF Loop, list_for_each, list_for_each_prev, list_for_each_safe,
     list_for_each_entry_safe_reverse, list_for_each_entry_continue, list_for_each_entry_safe_continue

\* What a loop that has not ended knows of the entry it is at.
LEMMA AtEntry ==
  ASSUME IInv, ~Idle, it.pos # it.head
  PROVE  \E R \in SUBSET Linked, own \in [Objects -> Objects] :
           /\ Rings(mem, Linked, own) /\ Ring(mem, it.head, R) /\ it.pos \in R
           /\ it.pos \in Entries /\ R \cap Heads = {it.head}
           /\ it.safe => it.n = mem[it.dir][it.pos]
<1>1. PICK R \in SUBSET Linked : /\ Ring(mem, it.head, R) /\ it.pos \in R
                                 /\ it.safe => it.n = mem[it.dir][it.pos]
  BY DEF IInv, LoopInv
<1>2. PICK own \in [Objects -> Objects] : Rings(mem, Linked, own)
  BY DEF IInv, Sound, Rings, Named
<1>3. it.head \in Heads /\ it.head \in R
  BY <1>1 DEF IInv, LoopInv, Ring
<1>4. \A x \in R \cap Heads : x = it.head
  BY <1>1, <1>2, <1>3, OneHead
<1>5. it.pos \in Entries
  BY <1>1, <1>4 DEF Linked, Objects
<1> QED
  BY <1>1, <1>2, <1>3, <1>4, <1>5

\* A body that changes nothing.
LEMMA LookKeeps ==
  ASSUME IInv, Look
  PROVE  IInv'
<1>1. /\ ~Idle /\ it.pos # it.head /\ mem' = mem /\ stale' = stale /\ it' = Advance(mem)
      /\ LoopRecord /\ it.head \in Heads /\ it.dir \in {"next", "prev"} /\ Sound(mem, Linked, stale)
  BY DEF Look, Body, IInv, LoopInv
<1>2. PICK R \in SUBSET Linked, own \in [Objects -> Objects] :
           /\ Rings(mem, Linked, own) /\ Ring(mem, it.head, R) /\ it.pos \in R
           /\ it.safe => it.n = mem[it.dir][it.pos]
  BY <1>1, AtEntry
<1>3. R \subseteq Objects /\ \A x \in R : mem.next[x] \in R /\ mem.prev[x] \in R
  BY <1>2 DEF Rings, Ring, Stays
<1>4. Linked' = Linked
  BY <1>1 DEF Linked, Poisoned
<1>5. mem[it.dir][it.pos] \in R /\ mem[it.dir][it.pos] \in Objects /\ it.pos \in Objects
  BY <1>1, <1>2, <1>3
<1>6. /\ it' = [head |-> it.head, pos |-> it'.pos, n |-> it'.n, dir |-> it.dir, safe |-> it.safe]
      /\ it'.pos = mem[it.dir][it.pos]
      /\ it.safe => it'.n = mem[it.dir][it'.pos]
  <2>1. CASE it.safe
    <3>1. it' = [it EXCEPT !.pos = it.n, !.n = Succ(mem, it.dir, it.n)]
      BY <1>1, <2>1 DEF Advance
    <3>2. it' = [head |-> it.head, pos |-> it.n, n |-> Succ(mem, it.dir, it.n),
                dir |-> it.dir, safe |-> it.safe]
      BY <1>1, <3>1 DEF LoopRecord
    <3> QED
      BY <1>2, <1>5, <2>1, <3>2 DEF Succ
  <2>2. CASE ~it.safe
    <3>1. it' = [it EXCEPT !.pos = Succ(mem, it.dir, it.pos)]
      BY <1>1, <2>2 DEF Advance
    <3>2. it' = [head |-> it.head, pos |-> Succ(mem, it.dir, it.pos), n |-> it.n,
                dir |-> it.dir, safe |-> it.safe]
      BY <1>1, <3>1 DEF LoopRecord
    <3> QED
      BY <1>5, <2>2, <3>2 DEF Succ
  <2> QED
    BY <2>1, <2>2
<1>7. LoopInv'
  <2>1. /\ LoopRecord' /\ it'.head = it.head /\ it'.dir = it.dir /\ it'.safe = it.safe
    BY <1>6 DEF LoopRecord
  <2>2. it'.pos \in R
    BY <1>5, <1>6
  <2>3. it'.safe => it'.n = mem'[it'.dir][it'.pos]
    BY <1>1, <1>6, <2>1
  <2>4. Ring(mem', it'.head, R)
    BY <1>1, <1>2, <2>1
  <2> QED
    BY <1>1, <1>4, <2>1, <2>2, <2>3, <2>4 DEF LoopInv
<1> QED
  BY <1>1, <1>4, <1>7 DEF IInv

\* A safe loop whose body takes the current entry off the ring.
LEMMA BypassKeeps ==
  ASSUME IInv, ~Idle, it.safe, it.pos # it.head, it' = Advance(mem'), stale' = stale,
         NEW R \in SUBSET Linked, NEW own, Rings(mem, Linked, own), Ring(mem, it.head, R), it.pos \in R,
         it.n = mem[it.dir][it.pos], Bypassed(mem, R, it.pos, mem'),
         NEW L, Sound(mem', L, stale), Linked \ {it.pos} \subseteq L
  PROVE  IInv'
<1>1. LoopRecord /\ it.head \in Heads /\ it.dir \in {"next", "prev"}
  BY DEF IInv, LoopInv
<1>2. Linked' = L
  BY LinkedIs DEF Linked, Poisoned
<1>3. Closed(mem, Linked) /\ Linked \subseteq Objects
  BY DEF Rings
<1>4. Ring(mem', it.head, R \ {it.pos}) /\ mem.next[it.pos] # it.pos /\ mem.prev[it.pos] # it.pos
  BY <1>3, RingWithout
<1>5. it.n \in R \ {it.pos} /\ it.n \in Objects
  BY <1>1, <1>3, <1>4 DEF Ring, Stays
<1>6. it' = [it EXCEPT !.pos = it.n, !.n = Succ(mem', it.dir, it.n)]
  BY DEF Advance
<1>7. it' = [head |-> it.head, pos |-> it.n, n |-> mem'[it.dir][it.n], dir |-> it.dir, safe |-> it.safe]
  BY <1>1, <1>5, <1>6 DEF LoopRecord, Succ
<1>8. LoopInv'
  <2>1. /\ LoopRecord' /\ it'.head = it.head /\ it'.dir = it.dir
        /\ it'.pos = it.n /\ it'.n = mem'[it'.dir][it'.pos]
    BY <1>7 DEF LoopRecord
  <2>2. PICK K : K = R \ {it.pos}
    OBVIOUS
  <2>3. K \in SUBSET Linked'
    BY <1>2, <2>2
  <2>4. Ring(mem', it'.head, K) /\ it'.pos \in K
    BY <1>4, <1>5, <2>1, <2>2
  <2> QED
    BY <1>1, <2>1, <2>3, <2>4 DEF LoopInv
<1> QED
  BY <1>2, <1>8 DEF IInv

\* A body that deletes the current entry.
LEMMA RemoveKeeps ==
  ASSUME IInv, Remove
  PROVE  IInv'
<1>1. /\ ~Idle /\ it.safe /\ it.pos # it.head /\ stale' = stale /\ it' = Advance(mem')
      /\ mem' = list_del(mem, it.pos) \/ mem' = list_del_init(mem, it.pos)
  BY DEF Remove, Body
<1>2. PICK R \in SUBSET Linked, own \in [Objects -> Objects] :
           /\ Rings(mem, Linked, own) /\ Ring(mem, it.head, R) /\ it.pos \in R /\ it.pos \in Entries
           /\ it.n = mem[it.dir][it.pos]
  BY <1>1, AtEntry
<1>3. PICK e \in Linked \cap Entries : e = it.pos
  BY <1>2
<1>4. Sound(list_del(mem, e), Linked \ {e}, stale) /\ Sound(list_del_init(mem, e), Linked, stale)
  BY DeleteSound DEF IInv
<1>5. Bypassed(mem, R, e, list_del(mem, e)) /\ Bypassed(mem, R, e, list_del_init(mem, e))
  BY <1>2, DeleteBypass
<1>6. PICK L : Sound(mem', L, stale) /\ Linked \ {it.pos} \subseteq L
  BY <1>1, <1>3, <1>4
<1>7. Bypassed(mem, R, it.pos, mem')
  BY <1>1, <1>3, <1>5
<1> QED
  BY <1>1, <1>2, <1>6, <1>7, BypassKeeps

\* A body that moves the current entry to another list.
LEMMA MoveAwayKeeps ==
  ASSUME IInv, NEW h \in Heads, MoveAway(h)
  PROVE  IInv'
<1>1. /\ ~Idle /\ it.safe /\ it.pos # it.head /\ stale' = stale /\ it' = Advance(mem')
      /\ mem' = list_move(mem, it.pos, h) \/ mem' = list_move_tail(mem, it.pos, h)
      /\ h \in Linked /\ h # it.head
  BY DEF MoveAway, Body
<1>2. PICK R \in SUBSET Linked, own \in [Objects -> Objects] :
           /\ Rings(mem, Linked, own) /\ Ring(mem, it.head, R) /\ it.pos \in R /\ it.pos \in Entries
           /\ R \cap Heads = {it.head}
           /\ it.n = mem[it.dir][it.pos]
  BY <1>1, AtEntry
<1>3. PICK e \in Linked \cap Entries : e = it.pos
  BY <1>2
<1>4. h \in Linked \ R /\ h \in Linked \ {e} /\ e \in R /\ Stays(mem, R)
  BY <1>1, <1>2, <1>3 DEF Ring
<1>5. Sound(list_move(mem, e, h), Linked, stale) /\ Sound(list_move_tail(mem, e, h), Linked, stale)
  BY <1>4, MoveSound DEF IInv
<1>6. Bypassed(mem, R, e, list_move(mem, e, h)) /\ Bypassed(mem, R, e, list_move_tail(mem, e, h))
  BY <1>2, <1>4, MoveBypass
<1>7. Sound(mem', Linked, stale) /\ Linked \ {it.pos} \subseteq Linked /\ Bypassed(mem, R, it.pos, mem')
  BY <1>1, <1>3, <1>5, <1>6
<1> QED
  BY <1>1, <1>2, <1>7, BypassKeeps

\* Every call and every step of a loop keeps the invariant.
LEMMA InvStep == IInv /\ [Next]_vars => IInv'
<1> SUFFICES ASSUME IInv, [Next]_vars PROVE IInv'
  OBVIOUS
<1>1. ASSUME NEW e \in Entries, NEW x \in Objects, Add(e, x) \/ Move(e, x) PROVE IInv'
  BY <1>1, AddKeeps, MoveKeeps
<1>2. ASSUME NEW e \in Entries, Delete(e) PROVE IInv'
  BY <1>2, DeleteKeeps
<1>3. ASSUME NEW h \in Heads, NEW x \in Objects, Splice(h, x) PROVE IInv'
  BY <1>3, SpliceKeeps
<1>4. ASSUME NEW h \in Heads, Reinit(h) \/ Loop(h) \/ MoveAway(h) PROVE IInv'
  BY <1>4, ReinitKeeps, LoopKeeps, MoveAwayKeeps
<1>5. ASSUME Look \/ Remove PROVE IInv'
  BY <1>5, LookKeeps, RemoveKeeps
<1>6. ASSUME EndLoop PROVE IInv'
  BY <1>6 DEF EndLoop, IInv, LoopInv, Idle, Linked, Poisoned
<1>7. ASSUME UNCHANGED vars PROVE IInv'
  BY <1>7 DEF vars, IInv, LoopInv, LoopRecord, Idle, Linked, Poisoned
<1> QED
  BY <1>1, <1>2, <1>3, <1>4, <1>5, <1>6, <1>7 DEF Next

\* Whatever a program does with its lists within the rules, next and prev
\* are inverse on what is linked and lead only to what is linked, for any
\* number of heads and entries (the calls and loops of list.h).
THEOREM PointersAgree == Spec => []LinksInverse
<1>1. IInv => LinksInverse
  <2> SUFFICES ASSUME IInv PROVE LinksInverse
    OBVIOUS
  <2>1. PICK own : Rings(mem, Linked, own)
    BY DEF IInv, Sound
  <2>2. Closed(mem, Linked)
    BY <2>1 DEF Rings
  <2> QED
    BY <2>2 DEF Closed, LinksInverse
<1> QED
  BY <1>1, InitInv, InvStep, PTL DEF Spec
-----------------------------------------------------------------------------
(* What a loop visits                                                      *)

\* q leads from x to h in e steps, meets nothing twice and h last.
Path(m, dir, x, h, e, q) ==
  /\ e \in Nat /\ q \in [0..e -> Objects] /\ q[0] = x /\ q[e] = h
  /\ \A i \in 0..(e - 1) : q[i + 1] = m[dir][q[i]] /\ q[i] # h
  /\ \A i, k \in 0..e : q[i] = q[k] => i = k

\* The objects of a path but for its end.
Ahead(e, q) == [k \in 1..e |-> q[k - 1]]

\* What is ahead is a sequence of objects.
LEMMA AheadIsSeq ==
  ASSUME NEW m, NEW dir, NEW x, NEW h, NEW e, NEW q, Path(m, dir, x, h, e, q)
  PROVE  Ahead(e, q) \in Seq(Objects)
BY DEF Ahead, Path

\* A path is shorter than the walk may be.
LEMMA PathIsShort ==
  ASSUME NEW m, NEW dir, NEW x, NEW h, NEW e, NEW q, Path(m, dir, x, h, e, q)
  PROVE  e + 1 <= Bound
<1>1. e \in Nat /\ q \in [0..e -> Objects] /\ \A i, k \in 0..e : q[i] = q[k] => i = k
  BY DEF Path
<1>2. IsFiniteSet(0..e) /\ Cardinality(0..e) = e + 1
  BY <1>1, FS_Interval
<1>3. IsFiniteSet(Objects)
  BY ListAssumption DEF ListAssumption
<1>4. ~(Cardinality(Objects) < Cardinality(0..e))
  BY <1>1, <1>2, <1>3, FS_PigeonHole
<1> QED
  BY <1>1, <1>2, <1>4, BoundIsNat DEF Bound

\* The walk behind an object is the path from its successor.
LEMMA PathIsWalk ==
  ASSUME NEW m, NEW dir, NEW x, NEW h, NEW e, NEW q, Path(m, dir, x, h, e, q),
         NEW from \in Objects, m[dir][from] = x
  PROVE  Walk(m, dir, from, h) = Ahead(e, q)
<1>1. /\ e \in Nat /\ q \in [0..e -> Objects] /\ q[0] = x /\ q[e] = h
      /\ \A i \in 0..(e - 1) : q[i + 1] = m[dir][q[i]] /\ q[i] # h
  BY DEF Path
<1>2. e + 1 \in 1..Bound /\ Bound \in Nat
  BY <1>1, PathIsShort, BoundIsNat
<1>3. PICK p : p = Steps(m, dir, from)
  OBVIOUS
<1>4. \A k \in 0..Bound : p[k] = IF k = 0 THEN from ELSE Succ(m, dir, p[k - 1])
  BY <1>3, StepsFollow
<1>5. ASSUME NEW k \in 1..(e + 1) PROVE p[k] = q[k - 1]
  <2> DEFINE S == {i \in 1..(e + 1) : p[i] # q[i - 1]}
  <2>1. SUFFICES ASSUME S # {} PROVE FALSE
    OBVIOUS
  <2>2. S \in SUBSET Nat
    BY <1>1
  <2>3. PICK i \in S : \A y \in S : i <= y
    BY <2>1, <2>2, Least
  <2>4. i \in 0..Bound /\ i # 0 /\ i \in 1..(e + 1)
    BY <1>1, <1>2, <2>3
  <2>5. CASE i = 1
    <3>1. 0 \in 0..Bound /\ 1 \in 0..Bound /\ 1 - 1 = 0
      BY <1>2
    <3>2. p[1] = m[dir][from]
      BY <1>4, <3>1 DEF Succ
    <3> QED
      BY <1>1, <2>3, <2>5, <3>1, <3>2
  <2>6. CASE i # 1
    <3>1. /\ i - 1 \in 1..(e + 1) /\ ~(i <= i - 1) /\ i - 2 \in 0..(e - 1)
          /\ (i - 1) - 1 = i - 2 /\ (i - 2) + 1 = i - 1
      BY <1>1, <2>4, <2>6
    <3>2. p[i - 1] = q[i - 2]
      BY <2>3, <3>1
    <3>3. q[i - 2] \in Objects
      BY <1>1, <3>1
    <3>4. p[i] = m[dir][q[i - 2]]
      BY <1>4, <2>4, <3>2, <3>3 DEF Succ
    <3>5. p[i] = q[i - 1]
      BY <1>1, <3>1, <3>4
    <3> QED
      BY <2>3, <3>5
  <2> QED
    BY <2>5, <2>6
<1>6. PICK E : E = {k \in 1..Bound : p[k] = h}
  OBVIOUS
<1>7. e + 1 \in E
  <2>1. e + 1 \in 1..(e + 1) /\ (e + 1) - 1 = e
    BY <1>1
  <2> QED
    BY <1>1, <1>2, <1>5, <1>6, <2>1
<1>8. ASSUME NEW l \in E PROVE e + 1 <= l
  <2>1. SUFFICES ASSUME l < e + 1 PROVE FALSE
    BY <1>1, <1>2, <1>6
  <2>2. l \in 1..(e + 1) /\ l - 1 \in 0..(e - 1)
    BY <1>1, <1>2, <1>6, <2>1
  <2>3. p[l] = h /\ p[l] = q[l - 1]
    BY <1>5, <1>6, <2>2
  <2> QED
    BY <1>1, <2>2, <2>3
<1>9. E \in SUBSET Nat /\ E # {}
  BY <1>2, <1>6, <1>7
<1>10. e + 1 = CHOOSE k \in E : \A l \in E : k <= l
  BY <1>7, <1>8, <1>9, LeastIs
<1>11. Walk(m, dir, from, h) = [k \in 1..((e + 1) - 1) |-> p[k]]
  BY <1>3, <1>6, <1>9, <1>10 DEF Walk, Bound
<1>12. 1..((e + 1) - 1) = 1..e /\ \A k \in 1..e : p[k] = q[k - 1]
  BY <1>1, <1>5
<1> QED
  BY <1>11, <1>12 DEF Ahead

\* The rest of a path, in a heap u that differs only in where x was.
LEMMA PathTail ==
  ASSUME NEW m, NEW dir, NEW x, NEW h, NEW e, NEW q, Path(m, dir, x, h, e, q), x # h,
         NEW u, \A i \in 1..(e - 1) : u[dir][q[i]] = m[dir][q[i]]
  PROVE  /\ e - 1 \in Nat /\ q[1] = m[dir][x]
         /\ Path(u, dir, q[1], h, e - 1, [i \in 0..(e - 1) |-> q[i + 1]])
<1>1. /\ e \in Nat /\ q \in [0..e -> Objects] /\ q[0] = x /\ q[e] = h
      /\ \A i \in 0..(e - 1) : q[i + 1] = m[dir][q[i]] /\ q[i] # h
      /\ \A i, k \in 0..e : q[i] = q[k] => i = k
  BY DEF Path
<1>2. e # 0 /\ e - 1 \in Nat /\ 0 \in 0..(e - 1) /\ 0 + 1 = 1 /\ (e - 1) + 1 = e
  BY <1>1
<1>3. q[1] = m[dir][x]
  BY <1>1, <1>2
<1>4. PICK r : r = [i \in 0..(e - 1) |-> q[i + 1]]
  OBVIOUS
<1>5. r \in [0..(e - 1) -> Objects] /\ r[0] = q[1] /\ r[e - 1] = h
  BY <1>1, <1>2, <1>4
<1>6. ASSUME NEW i \in 0..((e - 1) - 1) PROVE r[i + 1] = u[dir][r[i]] /\ r[i] # h
  <2>1. i \in 0..(e - 1) /\ i + 1 \in 0..(e - 1) /\ i + 1 \in 1..(e - 1)
    BY <1>2
  <2>2. r[i] = q[i + 1] /\ r[i + 1] = q[(i + 1) + 1]
    BY <1>4, <2>1
  <2>3. q[(i + 1) + 1] = m[dir][q[i + 1]] /\ q[i + 1] # h
    BY <1>1, <2>1
  <2> QED
    BY <2>1, <2>2, <2>3
<1>7. ASSUME NEW i \in 0..(e - 1), NEW k \in 0..(e - 1), r[i] = r[k] PROVE i = k
  <2>1. i + 1 \in 0..e /\ k + 1 \in 0..e /\ q[i + 1] = q[k + 1]
    BY <1>2, <1>4, <1>7
  <2>2. i + 1 = k + 1
    BY <1>1, <2>1
  <2> QED
    BY <1>2, <2>2
<1>8. Path(u, dir, q[1], h, e - 1, r)
  BY <1>2, <1>5, <1>6, <1>7 DEF Path
<1> QED
  BY <1>2, <1>3, <1>4, <1>8

\* A path from an object of a ring stays on it.
LEMMA PathStays ==
  ASSUME NEW m, NEW dir, NEW x, NEW h, NEW e, NEW q, Path(m, dir, x, h, e, q),
         NEW C, x \in C, \A y \in C : m[dir][y] \in C
  PROVE  \A i \in 0..e : q[i] \in C
<1> DEFINE S == {i \in 0..e : q[i] \notin C}
<1>1. e \in Nat /\ q[0] = x /\ \A i \in 0..(e - 1) : q[i + 1] = m[dir][q[i]]
  BY DEF Path
<1>2. SUFFICES ASSUME S # {} PROVE FALSE
  OBVIOUS
<1>3. S \in SUBSET Nat
  BY <1>1
<1>4. PICK i \in S : \A y \in S : i <= y
  BY <1>2, <1>3, Least
<1>5. i # 0 /\ i - 1 \in 0..(e - 1) /\ i - 1 \in 0..e /\ ~(i <= i - 1) /\ (i - 1) + 1 = i
  BY <1>1, <1>4
<1>6. q[i - 1] \in C
  BY <1>4, <1>5
<1> QED
  BY <1>1, <1>4, <1>5, <1>6

\* The cycle from h meets all of its ring.
LEMMA CycleCovers ==
  ASSUME NEW m, NEW h, NEW R, Ring(m, h, R), NEW dir \in Dirs, NEW c, NEW p,
         Cycle(m, dir, h, R, c, p)
  PROVE  \A x \in R : \E i \in 0..(c - 1) : p[i] = x
<1>1. /\ c \in Nat \ {0} /\ p[0] = h /\ p[c] = h
      /\ \A i \in 0..c : p[i] \in R
      /\ \A i \in 0..(c - 1) : p[i + 1] = m[dir][p[i]] /\ p[i] = m[Back(dir)][p[i + 1]]
  BY DEF Cycle
<1>2. PICK C : C = {x \in R : \E i \in 0..(c - 1) : p[i] = x}
  OBVIOUS
<1>3. \A i \in 0..c : p[i] \in C
  BY <1>1, <1>2
<1>4. ASSUME NEW x \in C PROVE m[dir][x] \in C /\ m[Back(dir)][x] \in C
  <2>1. PICK i \in 0..(c - 1) : p[i] = x
    BY <1>2
  <2>2. m[dir][x] \in C
    <3>1. i + 1 \in 0..c
      BY <1>1
    <3> QED
      BY <1>1, <1>3, <2>1, <3>1
  <2>3. PICK k \in 1..c : p[k] = x
    <3>1. CASE i = 0
      BY <1>1, <2>1, <3>1
    <3>2. CASE i # 0
      BY <1>1, <2>1, <3>2
    <3> QED
      BY <3>1, <3>2
  <2>4. k - 1 \in 0..(c - 1) /\ k - 1 \in 0..c /\ (k - 1) + 1 = k
    BY <1>1, <2>3
  <2>5. p[k - 1] = m[Back(dir)][x]
    BY <1>1, <2>3, <2>4
  <2> QED
    BY <1>3, <2>2, <2>4, <2>5
<1>5. Stays(m, C)
  BY <1>4 DEF Stays, Dirs, Back
<1>6. h \in C /\ C \in SUBSET R
  BY <1>1, <1>2, <1>3
<1>7. C = R
  BY <1>5, <1>6 DEF Ring
<1> QED
  BY <1>2, <1>7

\* From every object of the ring of h a path leads to h.
LEMMA PathExists ==
  ASSUME NEW m, NEW L \in SUBSET Objects, Closed(m, L), NEW h, NEW R \in SUBSET L, Ring(m, h, R),
         NEW dir \in Dirs, NEW from \in R
  PROVE  \E e, q : Path(m, dir, m[dir][from], h, e, q)
<1>1. Closed(m, R) /\ h \in R /\ R \in SUBSET Objects
  BY DEF Closed, Ring, Stays
<1>2. PICK p : p = Steps(m, dir, h)
  OBVIOUS
<1>3. PICK c \in 1..Bound : Cycle(m, dir, h, R, c, p)
  BY <1>1, <1>2, ComesBack
<1>4. /\ c \in Nat \ {0} /\ p[0] = h /\ p[c] = h
      /\ \A i \in 0..c : p[i] \in R
      /\ \A i \in 0..(c - 1) : p[i + 1] = m[dir][p[i]]
      /\ \A i, k \in 0..(c - 1) : p[i] = p[k] => i = k
  BY <1>3 DEF Cycle
<1>5. PICK a \in 0..(c - 1) : p[a] = from
  BY <1>3, CycleCovers
<1>6. PICK e \in Nat : e = (c - a) - 1
  BY <1>4, <1>5
<1>7. PICK q : q = [i \in 0..e |-> p[(a + 1) + i]]
  OBVIOUS
<1>8. \A i \in 0..e : (a + 1) + i \in 1..c /\ (a + 1) + i \in 0..c /\ ((a + 1) + i = c <=> i = e)
  BY <1>4, <1>5, <1>6
<1>9. q \in [0..e -> Objects] /\ q[0] = m[dir][from] /\ q[e] = h
  <2>1. q \in [0..e -> Objects]
    BY <1>1, <1>4, <1>7, <1>8
  <2>2. 0 \in 0..e /\ e \in 0..e /\ (a + 1) + 0 = a + 1 /\ (a + 1) + e = c
    BY <1>4, <1>5, <1>6
  <2>3. q[0] = p[a + 1] /\ q[e] = p[c]
    BY <1>7, <2>2
  <2> QED
    BY <1>4, <1>5, <2>1, <2>3
<1>10. ASSUME NEW i \in 0..(e - 1) PROVE q[i + 1] = m[dir][q[i]] /\ q[i] # h
  <2>1. /\ i \in 0..e /\ i + 1 \in 0..e /\ (a + 1) + i \in 0..(c - 1) /\ (a + 1) + i # 0
        /\ (a + 1) + (i + 1) = ((a + 1) + i) + 1 /\ 0 \in 0..(c - 1)
    BY <1>4, <1>5, <1>6
  <2>2. q[i] = p[(a + 1) + i] /\ q[i + 1] = p[((a + 1) + i) + 1]
    BY <1>7, <2>1
  <2> QED
    BY <1>4, <2>1, <2>2
<1>11. ASSUME NEW i \in 0..e, NEW k \in 0..e, q[i] = q[k] PROVE i = k
  <2>1. p[(a + 1) + i] = p[(a + 1) + k]
    BY <1>7, <1>11
  <2>2. \A j \in 1..c : p[j] = p[IF j = c THEN 0 ELSE j] /\ (IF j = c THEN 0 ELSE j) \in 0..(c - 1)
    BY <1>4
  <2>3. (IF (a + 1) + i = c THEN 0 ELSE (a + 1) + i) = (IF (a + 1) + k = c THEN 0 ELSE (a + 1) + k)
    BY <1>4, <1>8, <2>1, <2>2
  <2> QED
    BY <1>4, <1>5, <1>6, <2>3
<1>12. Path(m, dir, m[dir][from], h, e, q)
  BY <1>9, <1>10, <1>11 DEF Path
<1> QED
  BY <1>12

\* The path a loop has before it: what it has seen and what is on the path
\* make up what it was to see.
OnPath(e, q) ==
  /\ Path(mem, it.dir, it.pos, it.head, e, q)
  /\ visited \in Seq(Objects) /\ visited \o Ahead(e, q) = due

VisitInv == ~Idle => \E e, q : OnPath(e, q)

\* A body that looks at the current entry or takes it off the ring.
BodyStep(R) ==
  /\ ~Idle /\ it.pos # it.head /\ it.pos \in R /\ it' = Advance(mem')
  /\ visited' = Append(visited, it.pos) /\ due' = due
  /\ \A y \in R : mem[it.dir][y] \in R
  /\ it.safe => it.n = mem[it.dir][it.pos]
  /\ mem' = mem \/ (it.safe /\ Bypassed(mem, R, it.pos, mem'))

\* Every body of a loop is of that kind.
LEMMA Bodies ==
  ASSUME IInv, Look \/ Remove \/ \E h \in Heads : MoveAway(h)
  PROVE  \E R \in SUBSET Linked : BodyStep(R)
<1>1. /\ ~Idle /\ it.pos # it.head /\ it' = Advance(mem')
      /\ visited' = Append(visited, it.pos) /\ due' = due
  BY DEF Look, Remove, MoveAway, Body
<1>2. PICK R \in SUBSET Linked, own \in [Objects -> Objects] :
           /\ Rings(mem, Linked, own) /\ Ring(mem, it.head, R) /\ it.pos \in R /\ it.pos \in Entries
           /\ R \cap Heads = {it.head}
           /\ it.safe => it.n = mem[it.dir][it.pos]
  BY <1>1, AtEntry
<1>3. Stays(mem, R)
  BY <1>2 DEF Ring
<1>4. \A y \in R : mem[it.dir][y] \in R
  BY <1>1, <1>3 DEF Stays, IInv, LoopInv
<1>5. PICK e \in Linked \cap Entries : e = it.pos
  BY <1>2
<1>6. mem' = mem \/ (it.safe /\ Bypassed(mem, R, it.pos, mem'))
  <2>1. CASE Look
    BY <2>1 DEF Look, Body
  <2>2. CASE Remove
    <3>1. Bypassed(mem, R, e, list_del(mem, e)) /\ Bypassed(mem, R, e, list_del_init(mem, e))
      BY <1>2, DeleteBypass
    <3>2. it.safe /\ (mem' = list_del(mem, it.pos) \/ mem' = list_del_init(mem, it.pos))
      BY <2>2 DEF Remove, Body
    <3> QED
      BY <1>5, <3>1, <3>2
  <2>3. ASSUME NEW h \in Heads, MoveAway(h)
        PROVE  it.safe /\ Bypassed(mem, R, it.pos, mem')
    <3>1. /\ it.safe /\ (mem' = list_move(mem, it.pos, h) \/ mem' = list_move_tail(mem, it.pos, h))
          /\ h \in Linked /\ h # it.head
      BY <2>3 DEF MoveAway, Body
    <3>2. h \in Linked \ R /\ e \in R
      BY <1>2, <1>5, <3>1
    <3>3. Bypassed(mem, R, e, list_move(mem, e, h)) /\ Bypassed(mem, R, e, list_move_tail(mem, e, h))
      BY <1>2, <1>3, <3>2, MoveBypass
    <3> QED
      BY <1>5, <3>1, <3>3
  <2> QED
    BY <2>1, <2>2, <2>3
<1> QED
  BY <1>1, <1>2, <1>4, <1>6 DEF BodyStep

\* The loop goes on to the next object of its path.
LEMMA BodyVisits ==
  ASSUME IInv, VisitInv, NEW R \in SUBSET Linked, BodyStep(R)
  PROVE  VisitInv'
<1>1. /\ ~Idle /\ it.pos # it.head /\ it.pos \in R /\ it' = Advance(mem')
      /\ visited' = Append(visited, it.pos) /\ due' = due
      /\ \A y \in R : mem[it.dir][y] \in R
      /\ it.safe => it.n = mem[it.dir][it.pos]
      /\ mem' = mem \/ (it.safe /\ Bypassed(mem, R, it.pos, mem'))
  BY DEF BodyStep
<1>2. LoopRecord /\ it.dir \in Dirs
  BY <1>1 DEF IInv, LoopInv, Dirs
<1>3. PICK e, q : OnPath(e, q)
  BY <1>1 DEF VisitInv
<1>4. Path(mem, it.dir, it.pos, it.head, e, q)
  BY <1>3 DEF OnPath
<1>5. \A i \in 0..e : q[i] \in R
  BY <1>1, <1>4, PathStays
<1>6. /\ e \in Nat /\ q \in [0..e -> Objects] /\ q[0] = it.pos
      /\ \A i \in 0..(e - 1) : q[i + 1] = mem[it.dir][q[i]]
      /\ \A i, k \in 0..e : q[i] = q[k] => i = k
  BY <1>4 DEF Path
<1>7. ASSUME NEW i \in 1..(e - 1) PROVE mem'[it.dir][q[i]] = mem[it.dir][q[i]]
  <2>1. i \in 0..e /\ i + 1 \in 0..e /\ i \in 0..(e - 1) /\ 0 \in 0..e /\ i # 0 /\ i + 1 # 0
    BY <1>6
  <2>2. q[i] \in R \ {it.pos} /\ mem[it.dir][q[i]] # it.pos
    BY <1>5, <1>6, <2>1
  <2> QED
    BY <1>1, <1>2, <2>2 DEF Bypassed, Dirs
<1>8. PICK r : r = [i \in 0..(e - 1) |-> q[i + 1]]
  OBVIOUS
<1>9. e - 1 \in Nat /\ q[1] = mem[it.dir][it.pos] /\ Path(mem', it.dir, q[1], it.head, e - 1, r)
  <2>1. PICK u : u = mem'
    OBVIOUS
  <2>2. \A i \in 1..(e - 1) : u[it.dir][q[i]] = mem[it.dir][q[i]]
    BY <1>7, <2>1
  <2>3. it.pos # it.head
    BY <1>1
  <2>4. /\ e - 1 \in Nat /\ q[1] = mem[it.dir][it.pos]
        /\ Path(u, it.dir, q[1], it.head, e - 1, [i \in 0..(e - 1) |-> q[i + 1]])
    BY <1>4, <2>2, <2>3, PathTail
  <2> QED
    BY <1>8, <2>1, <2>4
<1>10. it'.dir = it.dir /\ it'.head = it.head /\ it'.pos = q[1]
  <2>1. it.pos \in Objects
    BY <1>6
  <2>2. CASE it.safe
    <3>1. it' = [it EXCEPT !.pos = it.n, !.n = Succ(mem', it.dir, it.n)]
      BY <1>1, <2>2 DEF Advance
    <3> QED
      BY <1>1, <1>2, <1>9, <2>2, <3>1 DEF LoopRecord
  <2>3. CASE ~it.safe
    <3>1. it' = [it EXCEPT !.pos = Succ(mem, it.dir, it.pos)]
      BY <1>1, <2>3 DEF Advance
    <3> QED
      BY <1>2, <1>9, <2>1, <3>1 DEF LoopRecord, Succ
  <2> QED
    BY <2>2, <2>3
<1>11. visited' \in Seq(Objects) /\ visited' \o Ahead(e - 1, r) = due'
  <2>1. PICK v \in Seq(Objects) : v = visited
    BY <1>3 DEF OnPath
  <2>2. PICK s \in Seq(Objects) : s = Ahead(e - 1, r)
    BY <1>9, AheadIsSeq
  <2>3. PICK x \in Objects : x = it.pos
    BY <1>6
  <2>4. Ahead(e, q) = <<x>> \o s
    <3>1. Len(s) = e - 1 /\ \A i \in 1..(e - 1) : s[i] = q[i]
      BY <1>8, <1>9, <2>2 DEF Ahead
    <3> QED
      BY <1>6, <1>9, <2>3, <3>1 DEF Ahead
  <2>5. Append(v, x) \o s = v \o (<<x>> \o s) /\ Append(v, x) \in Seq(Objects)
    OBVIOUS
  <2> QED
    BY <1>1, <1>3, <2>1, <2>2, <2>3, <2>4, <2>5 DEF OnPath
<1>12. OnPath(e - 1, r)'
  BY <1>9, <1>10, <1>11 DEF OnPath
<1> QED
  BY <1>12 DEF VisitInv

\* At the start all of the path is still to be seen.
LEMMA StartVisits ==
  ASSUME IInv, NEW h \in Heads, NEW from, NEW dir \in Dirs, NEW safe,
         from = h \/ InList(from, h), StartLoop(h, from, dir, safe)
  PROVE  VisitInv'
<1>1. /\ h \in Linked /\ mem' = mem /\ visited' = <<>> /\ due' = Walk(mem, dir, from, h)
      /\ it' = [head |-> h, pos |-> mem[dir][from], n |-> mem[dir][mem[dir][from]],
                dir |-> dir, safe |-> safe]
  BY DEF StartLoop
<1>2. PICK own : Rings(mem, Linked, own)
  BY DEF IInv, Sound
<1>3. Linked \in SUBSET Objects /\ Closed(mem, Linked)
  BY <1>2 DEF Rings
<1>4. PICK R \in SUBSET Linked : Ring(mem, h, R)
  BY <1>1, <1>3, RingExists
<1>5. h \in R /\ \A x \in R : mem.next[x] \in R /\ mem.prev[x] \in R
  BY <1>4 DEF Ring, Stays
<1>6. from \in R
  BY <1>3, <1>5, FromRing
<1>7. PICK e, q : Path(mem, dir, mem[dir][from], h, e, q)
  BY <1>3, <1>4, <1>6, PathExists
<1>8. Walk(mem, dir, from, h) = Ahead(e, q)
  BY <1>3, <1>6, <1>7, PathIsWalk
<1>9. Ahead(e, q) \in Seq(Objects)
  BY <1>7, AheadIsSeq
<1>10. visited' \in Seq(Objects) /\ visited' \o Ahead(e, q) = due'
  BY <1>1, <1>8, <1>9
<1>11. it'.dir = dir /\ it'.head = h /\ it'.pos = mem[dir][from]
  BY <1>1
<1>12. OnPath(e, q)'
  BY <1>1, <1>7, <1>10, <1>11 DEF OnPath
<1> QED
  BY <1>12 DEF VisitInv

\* Whatever the body of a safe loop does to the entry it is at, a loop visits
\* what was ahead of it when it started, each entry once and in order, for
\* any number of entries (the list_for_each macros).
THEOREM LoopsVisitEachEntry == Spec => []VisitsEach
<1>1. Init => VisitInv
  BY DEF Init, VisitInv, Idle
<1>2. IInv /\ VisitInv /\ [Next]_vars => VisitInv'
  <2> SUFFICES ASSUME IInv, VisitInv, [Next]_vars PROVE VisitInv'
    OBVIOUS
  <2>1. ASSUME Idle, it' = it PROVE VisitInv'
    BY <2>1 DEF VisitInv, Idle, NoLoop
  <2>2. ASSUME NEW e \in Entries, NEW x \in Objects, Add(e, x) \/ Move(e, x) PROVE VisitInv'
    BY <2>1, <2>2 DEF Add, Move, Calls
  <2>3. ASSUME NEW e \in Entries, Delete(e) PROVE VisitInv'
    BY <2>1, <2>3 DEF Delete, Calls
  <2>4. ASSUME NEW h \in Heads, NEW x \in Objects, Splice(h, x) PROVE VisitInv'
    BY <2>1, <2>4 DEF Splice, Calls
  <2>5. ASSUME NEW h \in Heads, Reinit(h) PROVE VisitInv'
    BY <2>1, <2>5 DEF Reinit, Calls
  <2>6. ASSUME NEW h \in Heads, Loop(h) PROVE VisitInv'
    <3>1. ASSUME NEW from, NEW dir \in Dirs, NEW safe, from = h \/ InList(from, h),
                 StartLoop(h, from, dir, safe)
          PROVE  VisitInv'
      BY <3>1, StartVisits
    <3> QED
      BY <2>6, <3>1 DEF Loop, list_for_each, list_for_each_prev, list_for_each_safe, Dirs,
         list_for_each_entry_safe_reverse, list_for_each_entry_continue, list_for_each_entry_safe_continue
  <2>7. ASSUME Look \/ Remove \/ \E h \in Heads : MoveAway(h) PROVE VisitInv'
    BY <2>7, Bodies, BodyVisits
  <2>8. ASSUME EndLoop PROVE VisitInv'
    BY <2>8 DEF EndLoop, VisitInv, Idle
  <2>9. ASSUME UNCHANGED vars PROVE VisitInv'
    BY <2>9 DEF vars, VisitInv, Idle, OnPath
  <2> QED
    BY <2>2, <2>3, <2>4, <2>5, <2>6, <2>7, <2>8, <2>9 DEF Next
<1>3. VisitInv => VisitsEach
  <2> SUFFICES ASSUME VisitInv, ~Idle PROVE VisitsEach
    BY DEF VisitsEach
  <2>1. PICK e, q : OnPath(e, q)
    BY DEF VisitInv
  <2>2. Path(mem, it.dir, it.pos, it.head, e, q)
    BY <2>1 DEF OnPath
  <2>3. /\ e \in Nat /\ q \in [0..e -> Objects] /\ q[0] = it.pos /\ q[e] = it.head
        /\ \A i \in 0..(e - 1) : q[i] # it.head
    BY <2>2 DEF Path
  <2>4. CASE it.pos = it.head
    <3>1. e = 0
      BY <2>3, <2>4
    <3>2. Ahead(e, q) = <<>>
      BY <3>1 DEF Ahead
    <3> QED
      BY <2>1, <2>3, <2>4, <3>2 DEF OnPath, VisitsEach
  <2>5. CASE it.pos # it.head
    <3>1. PICK r : r = [i \in 0..(e - 1) |-> q[i + 1]]
      OBVIOUS
    <3>2. e - 1 \in Nat /\ q[1] = mem[it.dir][it.pos] /\ Path(mem, it.dir, q[1], it.head, e - 1, r)
      BY <2>2, <2>5, <3>1, PathTail
    <3>3. it.pos \in Objects /\ Walk(mem, it.dir, it.pos, it.head) = Ahead(e - 1, r)
      BY <2>3, <3>2, PathIsWalk
    <3>4. PICK s \in Seq(Objects) : s = Ahead(e - 1, r)
      BY <3>2, AheadIsSeq
    <3>5. Len(s) = e - 1 /\ \A i \in 1..(e - 1) : s[i] = q[i]
      BY <3>1, <3>2, <3>4 DEF Ahead
    <3>6. PICK x \in Objects : x = it.pos
      BY <3>3
    <3>7. Ahead(e, q) = <<x>> \o s
      BY <2>3, <3>2, <3>5, <3>6 DEF Ahead
    <3> QED
      BY <2>1, <2>5, <3>3, <3>4, <3>6, <3>7 DEF OnPath, VisitsEach
  <2> QED
    BY <2>4, <2>5
<1> QED
  BY <1>1, <1>2, <1>3, InitInv, InvStep, PTL DEF Spec
-----------------------------------------------------------------------------
(* The lists                                                               *)

\* r is s with t behind its i-th element; r is s without its j-th element.
PutIn(s, i, t, r) ==
  /\ Len(r) = Len(s) + Len(t)
  /\ \A k \in 1..i : r[k] = s[k]
  /\ \A k \in 1..Len(t) : r[i + k] = t[k]
  /\ \A k \in (i + 1)..Len(s) : r[Len(t) + k] = s[k]
TakenOut(s, j, r) ==
  /\ Len(r) = Len(s) - 1
  /\ \A k \in 1..(j - 1) : r[k] = s[k]
  /\ \A k \in j..(Len(s) - 1) : r[k] = s[k + 1]

\* r is a before b.
Joined(a, b, r) ==
  /\ Len(r) = Len(a) + Len(b)
  /\ \A k \in 1..Len(a) : r[k] = a[k]
  /\ \A k \in 1..Len(b) : r[Len(a) + k] = b[k]

\* Two sequences in a row.
LEMMA JoinedIs == \A Q : \A a, b \in Seq(Q) : a \o b \in Seq(Q) /\ Joined(a, b, a \o b)
BY DEF Joined

\* What the sequences of Lists are made of.
LEMMA PutInIs ==
  ASSUME NEW S, NEW s \in Seq(S), NEW t \in Seq(S), NEW i \in 0..Len(s)
  PROVE  LET r == SubSeq(s, 1, i) \o t \o SubSeq(s, i + 1, Len(s))
         IN  r \in Seq(S) /\ PutIn(s, i, t, r)
<1>1. PICK n \in Nat : n = Len(s)
  OBVIOUS
<1>2. PICK a : a = SubSeq(s, 1, i)
  OBVIOUS
<1>3. PICK b : b = SubSeq(s, i + 1, n)
  OBVIOUS
<1>4. a \in Seq(S) /\ Len(a) = i /\ \A k \in 1..i : a[k] = s[k]
  BY <1>1, <1>2
<1>5. b \in Seq(S) /\ Len(b) = n - i /\ \A k \in 1..(n - i) : b[k] = s[i + k]
  BY <1>1, <1>3
<1>6. PICK l \in Nat : l = Len(t)
  OBVIOUS
<1>7. PICK c : c = a \o t
  OBVIOUS
<1>c. c \in Seq(S) /\ Len(c) = i + l /\ (\A k \in 1..i : c[k] = a[k]) /\ \A k \in 1..l : c[i + k] = t[k]
  <2>1. c \in Seq(S) /\ Joined(a, t, c)
    BY <1>4, <1>7, JoinedIs
  <2> QED
    BY <1>4, <1>6, <2>1 DEF Joined
<1>r. PICK r : r = c \o b
  OBVIOUS
<1>8. r \in Seq(S) /\ Len(r) = i + l + (n - i) /\ (\A k \in 1..(i + l) : r[k] = c[k])
      /\ \A k \in 1..(n - i) : r[i + l + k] = b[k]
  <2>1. r \in Seq(S) /\ Joined(c, b, r)
    BY <1>5, <1>c, <1>r, JoinedIs
  <2> QED
    BY <1>5, <1>c, <2>1 DEF Joined
<1>9. \A k \in 1..i : r[k] = s[k]
  BY <1>1, <1>4, <1>6, <1>8, <1>c
<1>10. \A k \in 1..l : r[i + k] = t[k]
  BY <1>1, <1>6, <1>8, <1>c
<1>11. ASSUME NEW k \in (i + 1)..n PROVE r[l + k] = s[k]
  <2>1. PICK x \in 1..(n - i) : i + x = k /\ i + l + x = l + k
    <3>1. k - i \in 1..(n - i) /\ i + (k - i) = k /\ i + l + (k - i) = l + k
      BY <1>1, <1>6
    <3> QED
      BY <3>1
  <2> QED
    BY <1>5, <1>8, <2>1
<1>12. Len(r) = n + l
  BY <1>1, <1>8
<1>13. PutIn(s, i, t, r)
  BY <1>1, <1>6, <1>9, <1>10, <1>11, <1>12 DEF PutIn
<1> QED
  BY <1>1, <1>2, <1>3, <1>7, <1>8, <1>13, <1>r

\* Taking an element out.
LEMMA TakenOutIs ==
  ASSUME NEW S, NEW s \in Seq(S), NEW j \in 1..Len(s)
  PROVE  LET r == SubSeq(s, 1, j - 1) \o SubSeq(s, j + 1, Len(s))
         IN  r \in Seq(S) /\ TakenOut(s, j, r)
<1>1. PICK n \in Nat : n = Len(s)
  OBVIOUS
<1>2. PICK a : a = SubSeq(s, 1, j - 1)
  OBVIOUS
<1>3. PICK b : b = SubSeq(s, j + 1, n)
  OBVIOUS
<1>4. a \in Seq(S) /\ Len(a) = j - 1 /\ \A k \in 1..(j - 1) : a[k] = s[k]
  BY <1>1, <1>2
<1>5. b \in Seq(S) /\ Len(b) = n - j /\ \A k \in 1..(n - j) : b[k] = s[j + k]
  BY <1>1, <1>3
<1>6. PICK r : r = a \o b
  OBVIOUS
<1>7. r \in Seq(S) /\ Len(r) = (j - 1) + (n - j) /\ (\A k \in 1..(j - 1) : r[k] = a[k])
      /\ \A k \in 1..(n - j) : r[(j - 1) + k] = b[k]
  <2>1. r \in Seq(S) /\ Joined(a, b, r)
    BY <1>4, <1>5, <1>6, JoinedIs
  <2> QED
    BY <1>4, <1>5, <2>1 DEF Joined
<1>8. ASSUME NEW k \in j..(n - 1) PROVE r[k] = s[k + 1]
  <2>1. PICK x \in 1..(n - j) : j + x = k + 1 /\ (j - 1) + x = k
    <3>1. k - (j - 1) \in 1..(n - j) /\ j + (k - (j - 1)) = k + 1 /\ (j - 1) + (k - (j - 1)) = k
      BY <1>1
    <3> QED
      BY <3>1
  <2> QED
    BY <1>5, <1>7, <2>1
<1>9. TakenOut(s, j, r)
  BY <1>1, <1>4, <1>7, <1>8 DEF TakenOut
<1> QED
  BY <1>1, <1>2, <1>3, <1>6, <1>7, <1>9

\* The head before and behind its entries.
Pt(h, s, i) == IF i \in 1..Len(s) THEN s[i] ELSE h

\* The heap m holds the lists ls, but for the abandoned heads.
Holds(m, h, s) == \A i \in 0..Len(s) : m.next[Pt(h, s, i)] = Pt(h, s, i + 1)
Apart(ls) ==
  \A g, h \in Heads : \A i \in 1..Len(ls[g]), k \in 1..Len(ls[h]) : ls[g][i] = ls[h][k] => g = h /\ i = k
Rep(m, s, ls) ==
  /\ ls \in [Heads -> Seq(Entries)] /\ Apart(ls)
  /\ \A h \in Heads : h \in s => ls[h] = <<>>
  /\ \A h \in Heads : h \notin s => Holds(m, h, ls[h])

\* x is in no list.
Free(ls, x) == \A h \in Heads : \A i \in 1..Len(ls[h]) : ls[h][i] # x

\* The points of a list that t is put into.
PutInPoints(h, s, i, t, r) ==
  /\ \A k \in 0..i : Pt(h, r, k) = Pt(h, s, k)
  /\ \A k \in 1..Len(t) : Pt(h, r, i + k) = t[k]
  /\ \A k \in (i + 1)..(Len(s) + 1) : Pt(h, r, Len(t) + k) = Pt(h, s, k)

\* They are those of s and t.
LEMMA PutInPts ==
  \A s, t \in Seq(Entries) : \A i \in 0..Len(s) : \A h, r : PutIn(s, i, t, r) => PutInPoints(h, s, i, t, r)
<1> SUFFICES ASSUME NEW s \in Seq(Entries), NEW t \in Seq(Entries), NEW i \in 0..Len(s), NEW h, NEW r, PutIn(s, i, t, r)
             PROVE  PutInPoints(h, s, i, t, r)
  OBVIOUS
<1>0. PICK n \in Nat : n = Len(s)
  OBVIOUS
<1>1. PICK l \in Nat : n = Len(s) /\ l = Len(t)
  BY <1>0
<1>2. /\ Len(r) = n + l /\ (\A k \in 1..i : r[k] = s[k]) /\ (\A k \in 1..l : r[i + k] = t[k])
      /\ \A k \in (i + 1)..n : r[l + k] = s[k]
  BY <1>1 DEF PutIn
<1>3. \A k \in 0..i : Pt(h, r, k) = Pt(h, s, k)
  BY <1>1, <1>2 DEF Pt
<1>4. \A k \in 1..l : Pt(h, r, i + k) = t[k]
  BY <1>1, <1>2 DEF Pt
<1>5. \A k \in (i + 1)..(n + 1) : Pt(h, r, l + k) = Pt(h, s, k)
  BY <1>1, <1>2 DEF Pt
<1> QED
  BY <1>1, <1>3, <1>4, <1>5 DEF PutInPoints

\* The points of a list that an entry is taken out of.
LEMMA TakenOutPts ==
  ASSUME NEW h, NEW s \in Seq(Entries), NEW j \in 1..Len(s), NEW r, TakenOut(s, j, r)
  PROVE  /\ \A k \in 0..(j - 1) : Pt(h, r, k) = Pt(h, s, k)
         /\ \A k \in j..Len(s) : Pt(h, r, k) = Pt(h, s, k + 1)
<1>1. PICK n \in Nat : n = Len(s)
  OBVIOUS
<1>2. Len(r) = n - 1 /\ (\A k \in 1..(j - 1) : r[k] = s[k]) /\ \A k \in j..(n - 1) : r[k] = s[k + 1]
  BY <1>1 DEF TakenOut
<1>3. \A k \in 0..(j - 1) : Pt(h, r, k) = Pt(h, s, k)
  BY <1>1, <1>2 DEF Pt
<1>4. \A k \in j..n : Pt(h, r, k) = Pt(h, s, k + 1)
  BY <1>1, <1>2 DEF Pt
<1> QED
  BY <1>1, <1>3, <1>4

\* Where the elements come from.
LEMMA PutInFrom ==
  ASSUME NEW s \in Seq(Entries), NEW t \in Seq(Entries), NEW i \in 0..Len(s), NEW r, PutIn(s, i, t, r),
         NEW k \in 1..Len(r)
  PROVE  \/ k \in 1..i /\ k \in 1..Len(s) /\ r[k] = s[k]
         \/ k - i \in 1..Len(t) /\ r[k] = t[k - i]
         \/ k - Len(t) \in (i + 1)..Len(s) /\ k - Len(t) \in 1..Len(s) /\ r[k] = s[k - Len(t)]
<1>0. PICK n \in Nat : n = Len(s)
  OBVIOUS
<1>1. PICK l \in Nat : n = Len(s) /\ l = Len(t)
  BY <1>0
<1>2. /\ Len(r) = n + l /\ (\A x \in 1..i : r[x] = s[x]) /\ (\A x \in 1..l : r[i + x] = t[x])
      /\ \A x \in (i + 1)..n : r[l + x] = s[x]
  BY <1>1 DEF PutIn
<1>3. CASE k <= i
  BY <1>1, <1>2, <1>3
<1>4. CASE k > i /\ k <= i + l
  <2>1. k - i \in 1..l /\ i + (k - i) = k
    BY <1>1, <1>2, <1>4
  <2> QED
    BY <1>1, <1>2, <2>1
<1>5. CASE k > i + l
  <2>1. k - l \in (i + 1)..n /\ k - l \in 1..n /\ l + (k - l) = k
    BY <1>1, <1>2, <1>5
  <2> QED
    BY <1>1, <1>2, <2>1
<1> QED
  BY <1>1, <1>2, <1>3, <1>4, <1>5

Distinct(s) == \A j, k \in 1..Len(s) : s[j] = s[k] => j = k
NoneOf(s, t) == \A j \in 1..Len(s), k \in 1..Len(t) : s[j] # t[k]

\* An entry is at most once in the list that t is put into.
LEMMA PutInDistinct ==
  \A s, t \in Seq(Entries) : \A i \in 0..Len(s) : \A r :
    PutIn(s, i, t, r) /\ Distinct(s) /\ Distinct(t) /\ NoneOf(s, t) => Distinct(r)
<1> SUFFICES ASSUME NEW s \in Seq(Entries), NEW t \in Seq(Entries), NEW i \in 0..Len(s), NEW r,
                    PutIn(s, i, t, r), Distinct(s), Distinct(t), NoneOf(s, t),
                    NEW j \in 1..Len(r), NEW k \in 1..Len(r), r[j] = r[k]
             PROVE  j = k
  BY DEF Distinct
<1>0. Len(s) \in Nat /\ Len(t) \in Nat
  OBVIOUS
<1>a. PICK l \in Nat : l = Len(t)
  BY <1>0
<1>b. PICK n \in Nat : n = Len(s)
  BY <1>0
<1>1. \A k0 \in 1..Len(r) :
        \/ k0 \in 1..i /\ k0 \in 1..n /\ r[k0] = s[k0]
        \/ k0 - i \in 1..l /\ r[k0] = t[k0 - i]
        \/ k0 - l \in (i + 1)..n /\ k0 - l \in 1..n /\ r[k0] = s[k0 - l]
  BY <1>a, <1>b, PutInFrom
<1>2. Len(r) = n + l
  BY <1>a, <1>b DEF PutIn
<1>3. /\ \A x, y \in 1..n : s[x] = s[y] => x = y
      /\ \A x, y \in 1..l : t[x] = t[y] => x = y
      /\ \A x \in 1..n, y \in 1..l : s[x] # t[y]
  BY <1>a, <1>b DEF Distinct, NoneOf
<1>4. CASE j \in 1..i /\ j \in 1..n /\ r[j] = s[j]
  <2>1. CASE k \in 1..i /\ k \in 1..n /\ r[k] = s[k]
    BY <1>3, <1>4, <2>1
  <2>2. CASE k - l \in (i + 1)..n /\ k - l \in 1..n /\ r[k] = s[k - l]
    <3>1. j = k - l
      BY <1>3, <1>4, <2>2
    <3> QED
      BY <1>4, <1>b, <2>2, <3>1
  <2> QED
    BY <1>1, <1>3, <1>4, <2>1, <2>2
<1>5. CASE j - i \in 1..l /\ r[j] = t[j - i]
  <2>0. \A x \in 1..n : r[k] # s[x]
    BY <1>3, <1>5
  <2>1. k - i \in 1..l /\ r[k] = t[k - i]
    BY <1>1, <2>0
  <2>2. j - i = k - i
    BY <1>3, <1>5, <2>1
  <2> QED
    BY <1>2, <2>2
<1>6. CASE j - l \in (i + 1)..n /\ j - l \in 1..n /\ r[j] = s[j - l]
  <2>1. CASE k \in 1..i /\ k \in 1..n /\ r[k] = s[k]
    <3>1. j - l = k
      BY <1>3, <1>6, <2>1
    <3> QED
      BY <1>6, <1>b, <2>1, <3>1
  <2>2. CASE k - l \in (i + 1)..n /\ k - l \in 1..n /\ r[k] = s[k - l]
    <3>1. j - l = k - l
      BY <1>3, <1>6, <2>2
    <3> QED
      BY <1>2, <3>1
  <2> QED
    BY <1>1, <1>3, <1>6, <2>1, <2>2
<1> QED
  BY <1>1, <1>4, <1>5, <1>6

\* u leads along s with t behind its i-th point.
JoinsOne(m, u, g, s, i, t) ==
  /\ u.next[Pt(g, s, i)] = t[1] /\ (\A j \in 1..(Len(t) - 1) : u.next[t[j]] = t[j + 1])
  /\ u.next[t[Len(t)]] = Pt(g, s, i + 1)
  /\ \A k \in 0..Len(s) : k # i => u.next[Pt(g, s, k)] = m.next[Pt(g, s, k)]

\* It then leads along the list that t is put into.
LEMMA PutInHolds ==
  \A s, t \in Seq(Entries) : \A i \in 0..Len(s) : \A m, u, g, r :
    Len(t) >= 1 /\ PutIn(s, i, t, r) /\ Holds(m, g, s) /\ JoinsOne(m, u, g, s, i, t) => Holds(u, g, r)
<1> SUFFICES ASSUME NEW s \in Seq(Entries), NEW t \in Seq(Entries), NEW i \in 0..Len(s),
                    NEW m, NEW u, NEW g, NEW r, Len(t) >= 1, PutIn(s, i, t, r), Holds(m, g, s),
                    JoinsOne(m, u, g, s, i, t)
             PROVE  Holds(u, g, r)
  OBVIOUS
<1>j. /\ u.next[Pt(g, s, i)] = t[1] /\ (\A j \in 1..(Len(t) - 1) : u.next[t[j]] = t[j + 1])
      /\ u.next[t[Len(t)]] = Pt(g, s, i + 1)
      /\ \A k \in 0..Len(s) : k # i => u.next[Pt(g, s, k)] = m.next[Pt(g, s, k)]
  BY DEF JoinsOne
<1>0. PICK n \in Nat : n = Len(s)
  OBVIOUS
<1>1. PICK l \in Nat \ {0} : n = Len(s) /\ l = Len(t)
  BY <1>0
<1>2. Len(r) = n + l
  BY <1>1 DEF PutIn
<1>3. /\ \A k \in 0..i : Pt(g, r, k) = Pt(g, s, k)
      /\ \A k \in 1..l : Pt(g, r, i + k) = t[k]
      /\ \A k \in (i + 1)..(n + 1) : Pt(g, r, l + k) = Pt(g, s, k)
  <2>1. PutInPoints(g, s, i, t, r)
    BY PutInPts
  <2> QED
    BY <1>1, <2>1 DEF PutInPoints
<1>4. \A k \in 0..n : k # i => u.next[Pt(g, s, k)] = Pt(g, s, k + 1)
  BY <1>1, <1>j DEF Holds
<1>5. ASSUME NEW k \in 0..(n + l) PROVE u.next[Pt(g, r, k)] = Pt(g, r, k + 1)
  <2>1. CASE k < i
    <3>1. k \in 0..i /\ k + 1 \in 0..i /\ k \in 0..n /\ k # i
      BY <1>1, <2>1
    <3> QED
      BY <1>3, <1>4, <3>1
  <2>2. CASE k = i
    <3>1. k \in 0..i /\ 1 \in 1..l /\ k + 1 = i + 1
      BY <2>2
    <3>2. Pt(g, r, k) = Pt(g, s, i) /\ Pt(g, r, k + 1) = t[1]
      BY <1>3, <2>2, <3>1
    <3> QED
      BY <1>j, <3>2
  <2>3. CASE k > i /\ k < i + l
    <3>1. PICK x \in 1..(l - 1) : k = i + x
      <4>1. k - i \in 1..(l - 1) /\ k = i + (k - i)
        BY <1>1, <2>3
      <4> QED
        BY <4>1
    <3>2. x \in 1..l /\ x + 1 \in 1..l /\ k + 1 = i + (x + 1)
      BY <1>1, <3>1
    <3>3. Pt(g, r, k) = t[x] /\ Pt(g, r, k + 1) = t[x + 1]
      BY <1>3, <3>1, <3>2
    <3> QED
      BY <1>1, <1>j, <3>1, <3>3
  <2>4. CASE k = i + l
    <3>1. l \in 1..l /\ i + 1 \in (i + 1)..(n + 1) /\ k + 1 = l + (i + 1)
      BY <1>1, <2>4
    <3>2. Pt(g, r, k) = t[l] /\ Pt(g, r, k + 1) = Pt(g, s, i + 1)
      BY <1>3, <2>4, <3>1
    <3> QED
      BY <1>1, <1>j, <3>2
  <2>5. CASE k > i + l
    <3>1. PICK x \in (i + 1)..n : k = l + x
      <4>1. k - l \in (i + 1)..n /\ k = l + (k - l)
        BY <1>1, <2>5
      <4> QED
        BY <4>1
    <3>2. x \in (i + 1)..(n + 1) /\ x + 1 \in (i + 1)..(n + 1) /\ k + 1 = l + (x + 1) /\ x \in 0..n /\ x # i
      BY <1>1, <3>1
    <3>3. Pt(g, r, k) = Pt(g, s, x) /\ Pt(g, r, k + 1) = Pt(g, s, x + 1)
      BY <1>3, <3>1, <3>2
    <3> QED
      BY <1>4, <3>2, <3>3
  <2>6. k < i \/ k = i \/ (k > i /\ k < i + l) \/ k = i + l \/ k > i + l
    BY <1>1
  <2> QED
    BY <2>1, <2>2, <2>3, <2>4, <2>5, <2>6
<1> QED
  BY <1>2, <1>5 DEF Holds

\* u leads along s without its j-th element.
LEMMA TakenOutHolds ==
  ASSUME NEW m, NEW g, NEW s \in Seq(Entries), NEW j \in 1..Len(s), NEW r, TakenOut(s, j, r), Holds(m, g, s),
         NEW u, u.next[Pt(g, s, j - 1)] = Pt(g, s, j + 1),
         \A k \in 0..Len(s) : k # j - 1 /\ k # j => u.next[Pt(g, s, k)] = m.next[Pt(g, s, k)]
  PROVE  Holds(u, g, r)
<1>1. PICK n \in Nat : n = Len(s)
  OBVIOUS
<1>2. Len(r) = n - 1
  BY <1>1 DEF TakenOut
<1>3. /\ \A k \in 0..(j - 1) : Pt(g, r, k) = Pt(g, s, k)
      /\ \A k \in j..n : Pt(g, r, k) = Pt(g, s, k + 1)
  BY <1>1, TakenOutPts
<1>4. \A k \in 0..n : k # j - 1 /\ k # j => u.next[Pt(g, s, k)] = Pt(g, s, k + 1)
  BY <1>1 DEF Holds
<1>5. ASSUME NEW k \in 0..(n - 1) PROVE u.next[Pt(g, r, k)] = Pt(g, r, k + 1)
  <2>1. CASE k < j - 1
    <3>1. k \in 0..(j - 1) /\ k + 1 \in 0..(j - 1) /\ k \in 0..n /\ k # j - 1 /\ k # j
      BY <1>1, <2>1
    <3> QED
      BY <1>3, <1>4, <3>1
  <2>2. CASE k = j - 1
    <3>1. k \in 0..(j - 1) /\ k + 1 \in j..n /\ (k + 1) + 1 = j + 1
      BY <1>1, <2>2
    <3>2. Pt(g, r, k) = Pt(g, s, j - 1) /\ Pt(g, r, k + 1) = Pt(g, s, j + 1)
      BY <1>3, <2>2, <3>1
    <3> QED
      BY <3>2
  <2>3. CASE k > j - 1
    <3>1. k \in j..n /\ k + 1 \in j..n /\ k + 1 \in 0..n /\ k + 1 # j - 1 /\ k + 1 # j
      BY <1>1, <2>3
    <3>2. Pt(g, r, k) = Pt(g, s, k + 1) /\ Pt(g, r, k + 1) = Pt(g, s, (k + 1) + 1)
      BY <1>3, <3>1
    <3> QED
      BY <1>4, <3>1, <3>2
  <2> QED
    BY <1>1, <2>1, <2>2, <2>3
<1> QED
  BY <1>2, <1>5 DEF Holds

\* Entries of no list, in a row.
NewSeq(ls, t) ==
  /\ t \in Seq(Entries) /\ Len(t) >= 1
  /\ \A j, k \in 1..Len(t) : t[j] = t[k] => j = k
  /\ \A k \in 1..Len(t) : Free(ls, t[k])

\* u differs from m on the lists only in that t is behind the i-th point of g.
Joins(m, u, s, ls, g, i, t) ==
  /\ u.next[Pt(g, ls[g], i)] = t[1]
  /\ \A j \in 1..(Len(t) - 1) : u.next[t[j]] = t[j + 1]
  /\ u.next[t[Len(t)]] = Pt(g, ls[g], i + 1)
  /\ \A h \in Heads \ s : \A k \in 0..Len(ls[h]) :
       h # g \/ k # i => u.next[Pt(h, ls[h], k)] = m.next[Pt(h, ls[h], k)]

\* u holds the lists w, which are ls with t in one of them.
HasGot(u, s, ls, t, w) ==
  Rep(u, s, w) /\ \A x : Free(w, x) => Free(ls, x) /\ \A k \in 1..Len(t) : t[k] # x

\* Such a heap holds the list with t in it.
LEMMA InsertRep ==
  ASSUME NEW m, NEW u, NEW s, NEW ls, Rep(m, s, ls), NEW g \in Heads, g \notin s, NEW i \in 0..Len(ls[g]),
         NEW t, NewSeq(ls, t), NEW r \in Seq(Entries), PutIn(ls[g], i, t, r), Joins(m, u, s, ls, g, i, t)
  PROVE  \A w : w = [ls EXCEPT ![g] = r] => HasGot(u, s, ls, t, w)
<1>1. PICK a \in Seq(Entries) : a = ls[g]
  BY DEF Rep
<1>2. PICK new \in [Heads -> Seq(Entries)] : new = [ls EXCEPT ![g] = r]
  BY DEF Rep
<1>3. new[g] = r /\ \A h \in Heads \ {g} : new[h] = ls[h]
  BY <1>2 DEF Rep
<1>4. t \in Seq(Entries) /\ Len(t) >= 1 /\ (\A j, k \in 1..Len(t) : t[j] = t[k] => j = k)
      /\ \A k \in 1..Len(t) : Free(ls, t[k])
  BY DEF NewSeq
<1>5. Holds(u, g, r)
  <2>1. Holds(m, g, a)
    BY <1>1 DEF Rep
  <2>2. /\ u.next[Pt(g, a, i)] = t[1] /\ (\A j \in 1..(Len(t) - 1) : u.next[t[j]] = t[j + 1])
        /\ u.next[t[Len(t)]] = Pt(g, a, i + 1)
        /\ \A k \in 0..Len(a) : k # i => u.next[Pt(g, a, k)] = m.next[Pt(g, a, k)]
    BY <1>1 DEF Joins
  <2>3. i \in 0..Len(a) /\ PutIn(a, i, t, r)
    BY <1>1
  <2>4. JoinsOne(m, u, g, a, i, t)
    BY <2>2 DEF JoinsOne
  <2> QED
    BY <1>4, <2>1, <2>3, <2>4, PutInHolds
<1>6. ASSUME NEW h \in Heads, h # g, h \notin s PROVE Holds(u, h, new[h])
  <2>1. Holds(m, h, ls[h]) /\ new[h] = ls[h]
    BY <1>3, <1>6 DEF Rep
  <2>2. \A k \in 0..Len(ls[h]) : u.next[Pt(h, ls[h], k)] = m.next[Pt(h, ls[h], k)]
    BY <1>6 DEF Joins
  <2> QED
    BY <2>1, <2>2 DEF Holds
<1>7. Apart(ls) /\ (\A j, k \in 1..Len(a) : a[j] = a[k] => j = k)
      /\ \A j \in 1..Len(a), k \in 1..Len(t) : a[j] # t[k]
  <2>1. Apart(ls)
    BY DEF Rep
  <2>2. \A j, k \in 1..Len(a) : a[j] = a[k] => j = k
    BY <1>1, <2>1 DEF Apart
  <2>3. \A j \in 1..Len(a), k \in 1..Len(t) : a[j] # t[k]
    BY <1>1, <1>4 DEF Free
  <2> QED
    BY <2>1, <2>2, <2>3
<1>8. \A j, k \in 1..Len(r) : r[j] = r[k] => j = k
  <2>1. i \in 0..Len(a) /\ PutIn(a, i, t, r)
    BY <1>1
  <2>2. Distinct(a) /\ Distinct(t) /\ NoneOf(a, t)
    BY <1>4, <1>7 DEF Distinct, NoneOf
  <2>3. Distinct(r)
    BY <1>4, <2>1, <2>2, PutInDistinct
  <2> QED
    BY <2>3 DEF Distinct
<1>9. ASSUME NEW k \in 1..Len(r)
      PROVE  (\E j \in 1..Len(a) : r[k] = a[j]) \/ \E j \in 1..Len(t) : r[k] = t[j]
  <2>1. \/ k \in 1..i /\ k \in 1..Len(a) /\ r[k] = a[k]
        \/ k - i \in 1..Len(t) /\ r[k] = t[k - i]
        \/ k - Len(t) \in (i + 1)..Len(a) /\ k - Len(t) \in 1..Len(a) /\ r[k] = a[k - Len(t)]
    BY <1>1, <1>4, PutInFrom
  <2> QED
    BY <2>1
<1>10. ASSUME NEW h \in Heads, h # g, NEW k \in 1..Len(r), NEW l \in 1..Len(ls[h]) PROVE r[k] # ls[h][l]
  <2>1. \A j \in 1..Len(a) : a[j] # ls[h][l]
    BY <1>1, <1>7, <1>10 DEF Apart
  <2>2. \A j \in 1..Len(t) : t[j] # ls[h][l]
    BY <1>4 DEF Free
  <2> QED
    BY <1>9, <2>1, <2>2
<1>11. Apart(new)
  <2> SUFFICES ASSUME NEW f \in Heads, NEW h \in Heads, NEW j \in 1..Len(new[f]), NEW k \in 1..Len(new[h]),
                      new[f][j] = new[h][k]
               PROVE  f = h /\ j = k
    BY DEF Apart
  <2>1. CASE f = g /\ h = g
    BY <1>3, <1>8, <2>1
  <2>2. CASE f = g /\ h # g
    BY <1>3, <1>10, <2>2
  <2>3. CASE f # g /\ h = g
    BY <1>3, <1>10, <2>3
  <2>4. CASE f # g /\ h # g
    <3>1. new[f] = ls[f] /\ new[h] = ls[h]
      BY <1>3, <2>4
    <3> QED
      BY <1>7, <3>1 DEF Apart
  <2> QED
    BY <2>1, <2>2, <2>3, <2>4
<1>12. ASSUME NEW h \in Heads, h \in s PROVE new[h] = <<>>
  BY <1>3, <1>12 DEF Rep
<1>13. Rep(u, s, new)
  BY <1>2, <1>3, <1>5, <1>6, <1>11, <1>12 DEF Rep
<1>14. ASSUME NEW x, Free(new, x) PROVE Free(ls, x) /\ \A k \in 1..Len(t) : t[k] # x
  <2>0. PICK n \in Nat : n = Len(a)
    OBVIOUS
  <2>1. PICK l \in Nat : n = Len(a) /\ l = Len(t)
    BY <1>4, <2>0
  <2>2. /\ Len(r) = n + l /\ (\A k \in 1..i : r[k] = a[k]) /\ (\A k \in 1..l : r[i + k] = t[k])
        /\ \A k \in (i + 1)..n : r[l + k] = a[k]
    BY <1>1, <2>1 DEF PutIn
  <2>3. \A k \in 1..(n + l) : r[k] # x
    BY <1>3, <1>14, <2>2 DEF Free
  <2>4. ASSUME NEW k \in 1..l PROVE t[k] # x
    <3>1. i + k \in 1..(n + l)
      BY <1>1, <2>1
    <3> QED
      BY <2>2, <2>3, <3>1
  <2>5. ASSUME NEW k \in 1..n PROVE a[k] # x
    <3>1. CASE k \in 1..i
      BY <2>2, <2>3, <3>1
    <3>2. CASE k \in (i + 1)..n
      <4>1. l + k \in 1..(n + l)
        BY <2>1
      <4> QED
        BY <2>2, <2>3, <3>2, <4>1
    <3>3. i \in Nat
      BY <1>1, <2>1
    <3> QED
      BY <3>1, <3>2, <3>3
  <2>6. ASSUME NEW h \in Heads, NEW k \in 1..Len(ls[h]) PROVE ls[h][k] # x
    <3>1. CASE h = g
      BY <1>1, <2>1, <2>5, <3>1
    <3>2. CASE h # g
      BY <1>3, <1>14, <3>2 DEF Free
    <3> QED
      BY <3>1, <3>2
  <2> QED
    BY <2>1, <2>4, <2>6 DEF Free
<1> QED
  BY <1>2, <1>13, <1>14 DEF HasGot

\* u differs from m on the lists only in that it passes the j-th entry of g by.
Passes(m, u, s, ls, g, j) ==
  /\ u.next[Pt(g, ls[g], j - 1)] = Pt(g, ls[g], j + 1)
  /\ \A h \in Heads \ s : \A k \in 0..Len(ls[h]) :
       h # g \/ (k # j - 1 /\ k # j) => u.next[Pt(h, ls[h], k)] = m.next[Pt(h, ls[h], k)]

\* u holds the lists w, which are ls without e.
HasLost(u, s, ls, e, w) ==
  Rep(u, s, w) /\ Free(w, e) /\ \A x : Free(w, x) => Free(ls, x) \/ x = e

\* Such a heap holds the list without the entry.
LEMMA RemoveRep ==
  ASSUME NEW m, NEW u, NEW s, NEW ls, Rep(m, s, ls), NEW g \in Heads, NEW j \in 1..Len(ls[g]),
         NEW r \in Seq(Entries), TakenOut(ls[g], j, r), Passes(m, u, s, ls, g, j)
  PROVE  \A w : w = [ls EXCEPT ![g] = r] => HasLost(u, s, ls, ls[g][j], w)
<1>1. PICK a \in Seq(Entries) : a = ls[g]
  BY DEF Rep
<1>2. PICK new \in [Heads -> Seq(Entries)] : new = [ls EXCEPT ![g] = r]
  BY DEF Rep
<1>3. new[g] = r /\ \A h \in Heads \ {g} : new[h] = ls[h]
  BY <1>2 DEF Rep
<1>4. g \notin s
  <2>1. Len(<<>>) = 0
    OBVIOUS
  <2> QED
    BY <2>1 DEF Rep
<1>5. Holds(u, g, r)
  <2>1. Holds(m, g, a)
    BY <1>1, <1>4 DEF Rep
  <2>2. /\ u.next[Pt(g, a, j - 1)] = Pt(g, a, j + 1)
        /\ \A k \in 0..Len(a) : k # j - 1 /\ k # j => u.next[Pt(g, a, k)] = m.next[Pt(g, a, k)]
    BY <1>1, <1>4 DEF Passes
  <2>3. j \in 1..Len(a) /\ TakenOut(a, j, r)
    BY <1>1
  <2> QED
    BY <2>1, <2>2, <2>3, TakenOutHolds
<1>6. ASSUME NEW h \in Heads, h # g, h \notin s PROVE Holds(u, h, new[h])
  <2>1. Holds(m, h, ls[h]) /\ new[h] = ls[h]
    BY <1>3, <1>6 DEF Rep
  <2>2. \A k \in 0..Len(ls[h]) : u.next[Pt(h, ls[h], k)] = m.next[Pt(h, ls[h], k)]
    BY <1>6 DEF Passes
  <2> QED
    BY <2>1, <2>2 DEF Holds
<1>7. PICK n \in Nat : n = Len(a) /\ j \in 1..n
  BY <1>1
<1>8. Len(r) = n - 1 /\ (\A k \in 1..(j - 1) : r[k] = a[k]) /\ \A k \in j..(n - 1) : r[k] = a[k + 1]
  BY <1>1, <1>7 DEF TakenOut
<1>9. Apart(ls) /\ \A x, y \in 1..n : a[x] = a[y] => x = y
  <2>1. Apart(ls)
    BY DEF Rep
  <2> QED
    BY <1>1, <1>7, <2>1 DEF Apart
<1>10. ASSUME NEW k \in 1..(n - 1)
       PROVE  \E x \in 1..n : r[k] = a[x] /\ x # j /\ x = IF k < j THEN k ELSE k + 1
  <2>1. CASE k < j
    <3>1. k \in 1..(j - 1) /\ k \in 1..n /\ k # j
      BY <1>7, <2>1
    <3> QED
      BY <1>8, <2>1, <3>1
  <2>2. CASE ~(k < j)
    <3>1. k \in j..(n - 1) /\ k + 1 \in 1..n /\ k + 1 # j
      BY <1>7, <2>2
    <3> QED
      BY <1>8, <2>2, <3>1
  <2> QED
    BY <2>1, <2>2
<1>11. \A x, y \in 1..(n - 1) : r[x] = r[y] => x = y
  <2> SUFFICES ASSUME NEW x \in 1..(n - 1), NEW y \in 1..(n - 1), r[x] = r[y]
               PROVE  x = y
    OBVIOUS
  <2>1. PICK v \in 1..n : r[x] = a[v] /\ v = IF x < j THEN x ELSE x + 1
    BY <1>10
  <2>2. PICK w \in 1..n : r[y] = a[w] /\ w = IF y < j THEN y ELSE y + 1
    BY <1>10
  <2>3. v = w
    BY <1>9, <2>1, <2>2
  <2> QED
    BY <1>7, <2>1, <2>2, <2>3
<1>12. Apart(new)
  <2> SUFFICES ASSUME NEW f \in Heads, NEW h \in Heads, NEW x \in 1..Len(new[f]), NEW k \in 1..Len(new[h]),
                      new[f][x] = new[h][k]
               PROVE  f = h /\ x = k
    BY DEF Apart
  <2>1. CASE f = g /\ h = g
    BY <1>3, <1>8, <1>11, <2>1
  <2>2. CASE f = g /\ h # g
    <3>1. PICK v \in 1..n : r[x] = a[v]
      BY <1>3, <1>8, <1>10, <2>2
    <3> QED
      BY <1>1, <1>3, <1>7, <1>9, <2>2, <3>1 DEF Apart
  <2>3. CASE f # g /\ h = g
    <3>1. PICK v \in 1..n : r[k] = a[v]
      BY <1>3, <1>8, <1>10, <2>3
    <3> QED
      BY <1>1, <1>3, <1>7, <1>9, <2>3, <3>1 DEF Apart
  <2>4. CASE f # g /\ h # g
    <3>1. new[f] = ls[f] /\ new[h] = ls[h]
      BY <1>3, <2>4
    <3>2. Apart(ls)
      BY <1>9
    <3> QED
      BY <3>1, <3>2 DEF Apart
  <2> QED
    BY <2>1, <2>2, <2>3, <2>4
<1>13. ASSUME NEW h \in Heads, h \in s PROVE new[h] = <<>>
  BY <1>3, <1>4, <1>13 DEF Rep
<1>14. Rep(u, s, new)
  BY <1>2, <1>3, <1>5, <1>6, <1>12, <1>13 DEF Rep
<1>15. Free(new, a[j])
  <2> SUFFICES ASSUME NEW h \in Heads, NEW k \in 1..Len(new[h])
               PROVE  new[h][k] # a[j]
    BY DEF Free
  <2>1. CASE h = g
    <3>1. PICK v \in 1..n : r[k] = a[v] /\ v # j
      BY <1>3, <1>8, <1>10, <2>1
    <3> QED
      BY <1>3, <1>7, <1>9, <2>1, <3>1
  <2>2. CASE h # g
    <3>1. new[h] = ls[h] /\ j \in 1..Len(ls[g])
      BY <1>3, <2>2
    <3> QED
      BY <1>1, <1>9, <2>2, <3>1 DEF Apart
  <2> QED
    BY <2>1, <2>2
<1>16. ASSUME NEW x, Free(new, x), x # a[j] PROVE Free(ls, x)
  <2>1. \A k \in 1..(n - 1) : r[k] # x
    BY <1>3, <1>8, <1>16 DEF Free
  <2>2. ASSUME NEW k \in 1..n PROVE a[k] # x
    <3>1. CASE k < j
      <4>1. k \in 1..(n - 1) /\ k \in 1..(j - 1)
        BY <1>7, <3>1
      <4> QED
        BY <1>8, <2>1, <4>1
    <3>2. CASE k > j
      <4>1. k - 1 \in 1..(n - 1) /\ k - 1 \in j..(n - 1) /\ (k - 1) + 1 = k
        BY <1>7, <3>2
      <4> QED
        BY <1>8, <2>1, <4>1
    <3>3. CASE k = j
      BY <1>16, <3>3
    <3>4. k < j \/ k = j \/ k > j
      BY <1>7
    <3> QED
      BY <3>1, <3>2, <3>3, <3>4
  <2>3. ASSUME NEW h \in Heads, NEW k \in 1..Len(ls[h]) PROVE ls[h][k] # x
    <3>1. CASE h = g
      BY <1>1, <1>7, <2>2, <3>1
    <3>2. CASE h # g
      BY <1>3, <1>16, <3>2 DEF Free
    <3> QED
      BY <3>1, <3>2
  <2> QED
    BY <2>3 DEF Free
<1> QED
  BY <1>1, <1>2, <1>14, <1>15, <1>16 DEF HasLost

\* No two places of the lists are the same.
LEMMA PtApart ==
  ASSUME NEW ls \in [Heads -> Seq(Entries)], Apart(ls)
  PROVE  \A g, h \in Heads : \A i \in 0..Len(ls[g]), k \in 0..Len(ls[h]) :
           Pt(g, ls[g], i) = Pt(h, ls[h], k) => g = h /\ i = k
<1> SUFFICES ASSUME NEW g \in Heads, NEW h \in Heads, NEW i \in 0..Len(ls[g]), NEW k \in 0..Len(ls[h]),
                    Pt(g, ls[g], i) = Pt(h, ls[h], k)
             PROVE  g = h /\ i = k
  OBVIOUS
<1>1. PICK a \in Seq(Entries) : a = ls[g]
  OBVIOUS
<1>2. PICK b \in Seq(Entries) : b = ls[h]
  OBVIOUS
<1>3. (i \in 1..Len(a) => a[i] \in Entries) /\ (k \in 1..Len(b) => b[k] \in Entries)
  BY ElementOfSeq
<1>4. Heads \cap Entries = {}
  BY ListAssumption
<1>5. CASE i = 0 /\ k = 0
  BY <1>5 DEF Pt
<1>6. CASE i # 0 /\ k # 0
  BY <1>6 DEF Pt, Apart
<1>7. CASE i = 0 /\ k # 0
  <2>1. k \in 1..Len(b)
    BY <1>2, <1>7
  <2> QED
    BY <1>1, <1>2, <1>3, <1>4, <1>7, <2>1 DEF Pt
<1>8. CASE i # 0 /\ k = 0
  <2>1. i \in 1..Len(a)
    BY <1>1, <1>8
  <2> QED
    BY <1>1, <1>2, <1>3, <1>4, <1>8, <2>1 DEF Pt
<1> QED
  BY <1>5, <1>6, <1>7, <1>8

\* At and Has of an entry.
LEMMA AtIs ==
  ASSUME NEW ls \in [Heads -> Seq(Entries)], Apart(ls), NEW g \in Heads, NEW i \in 1..Len(ls[g]), NEW x, x = ls[g][i]
  PROVE  /\ A!Has(ls[g], x) /\ A!At(ls[g], x) = i /\ x \notin Heads
         /\ \A h \in Heads \ {g} : ~A!Has(ls[h], x)
<1>1. PICK a \in Seq(Entries) : a = ls[g]
  OBVIOUS
<1>2. DOMAIN a = 1..Len(a) /\ a[i] \in Entries /\ i \in DOMAIN a
  BY <1>1, ElementOfSeq
<1>3. A!Has(ls[g], x)
  BY <1>1, <1>2 DEF A!Has
<1>4. \A k \in DOMAIN a : a[k] = x => k = i
  BY <1>1, <1>2 DEF Apart
<1>5. (CHOOSE k \in DOMAIN a : a[k] = x) = i
  BY <1>1, <1>2, <1>4
<1>6. A!At(ls[g], x) = i
  BY <1>1, <1>5 DEF A!At
<1>7. x \notin Heads
  BY <1>1, <1>2, ListAssumption
<1>8. ASSUME NEW h \in Heads \ {g} PROVE ~A!Has(ls[h], x)
  <2>1. ls[h] \in Seq(Entries)
    OBVIOUS
  <2>2. DOMAIN ls[h] = 1..Len(ls[h])
    BY <2>1
  <2> QED
    BY <2>2 DEF A!Has, Apart
<1> QED
  BY <1>3, <1>6, <1>7, <1>8

\* A head is in no list.
LEMMA HeadIsFree ==
  ASSUME NEW ls \in [Heads -> Seq(Entries)], NEW x \in Heads, NEW h \in Heads
  PROVE  ~A!Has(ls[h], x)
<1>1. PICK a \in Seq(Entries) : a = ls[h]
  OBVIOUS
<1>2. \A i \in DOMAIN a : a[i] \in Entries
  BY ElementOfSeq
<1> QED
  BY <1>1, <1>2, ListAssumption DEF A!Has

\* What After puts where.
LEMMA AfterIs ==
  ASSUME NEW ls \in [Heads -> Seq(Entries)], Apart(ls), NEW g \in Heads, NEW i \in 0..Len(ls[g]),
         NEW x, x = Pt(g, ls[g], i), NEW t \in Seq(Entries)
  PROVE  \E r \in Seq(Entries) : PutIn(ls[g], i, t, r) /\ A!After(ls, t, x) = [ls EXCEPT ![g] = r]
<1>1. PICK a \in Seq(Entries) : a = ls[g]
  OBVIOUS
<1>2. CASE i = 0
  <2>1. x = g
    BY <1>2 DEF Pt
  <2>2. PICK r \in Seq(Entries) : r = t \o a /\ Joined(t, a, r)
    BY JoinedIs
  <2>3. PutIn(a, i, t, r)
    BY <1>2, <2>2 DEF Joined, PutIn
  <2>4. A!After(ls, t, x) = [ls EXCEPT ![g] = r]
    BY <1>1, <2>1, <2>2, HeadIsFree DEF A!After
  <2> QED
    BY <1>1, <2>3, <2>4
<1>3. CASE i # 0
  <2>1. x = ls[g][i] /\ i \in 1..Len(ls[g])
    BY <1>1, <1>3 DEF Pt
  <2>2. /\ A!Has(ls[g], x) /\ A!At(ls[g], x) = i /\ x \notin Heads
        /\ \A h \in Heads \ {g} : ~A!Has(ls[h], x)
    BY <2>1, AtIs
  <2>3. PICK r : r = SubSeq(a, 1, i) \o t \o SubSeq(a, i + 1, Len(a))
    OBVIOUS
  <2>4. r \in Seq(Entries) /\ PutIn(a, i, t, r)
    BY <1>1, <2>3, PutInIs
  <2>5. A!After(ls, t, x) = [ls EXCEPT ![g] = r]
    BY <1>1, <2>2, <2>3 DEF A!After
  <2> QED
    BY <1>1, <2>4, <2>5
<1> QED
  BY <1>2, <1>3

\* x is the point behind the i-th.
Behind(g, ls, i, x) == x = Pt(g, ls[g], i + 1)

\* What Before puts where.
LEMMA BeforeIs ==
  ASSUME NEW ls \in [Heads -> Seq(Entries)], Apart(ls), NEW g \in Heads, NEW i \in 0..Len(ls[g]),
         NEW x, Behind(g, ls, i, x), NEW t \in Seq(Entries)
  PROVE  \E r \in Seq(Entries) : PutIn(ls[g], i, t, r) /\ A!Before(ls, t, x) = [ls EXCEPT ![g] = r]
<1>1. PICK a \in Seq(Entries) : a = ls[g]
  OBVIOUS
<1>2. CASE i = Len(a)
  <2>1. x = g
    BY <1>1, <1>2 DEF Pt, Behind
  <2>2. PICK r \in Seq(Entries) : r = a \o t /\ Joined(a, t, r)
    BY JoinedIs
  <2>3. PutIn(a, i, t, r)
    BY <1>2, <2>2 DEF Joined, PutIn
  <2>4. A!Before(ls, t, x) = [ls EXCEPT ![g] = r]
    BY <1>1, <2>1, <2>2, HeadIsFree DEF A!Before
  <2> QED
    BY <1>1, <2>3, <2>4
<1>3. CASE i # Len(a)
  <2>1. i + 1 \in 1..Len(ls[g]) /\ (i + 1) - 1 = i
    BY <1>1, <1>3
  <2>a. x = ls[g][i + 1]
    BY <2>1 DEF Pt, Behind
  <2>2. /\ A!Has(ls[g], x) /\ A!At(ls[g], x) = i + 1 /\ x \notin Heads
        /\ \A h \in Heads \ {g} : ~A!Has(ls[h], x)
    BY <2>1, <2>a, AtIs
  <2>3. PICK r : r = SubSeq(a, 1, i) \o t \o SubSeq(a, i + 1, Len(a))
    OBVIOUS
  <2>4. r \in Seq(Entries) /\ PutIn(a, i, t, r)
    BY <1>1, <2>3, PutInIs
  <2>5. A!Before(ls, t, x) = [ls EXCEPT ![g] = r]
    BY <1>1, <2>1, <2>2, <2>3 DEF A!Before
  <2> QED
    BY <1>1, <2>4, <2>5
<1> QED
  BY <1>2, <1>3

\* What Without leaves.
LEMMA WithoutIs ==
  ASSUME NEW ls \in [Heads -> Seq(Entries)], Apart(ls), NEW g \in Heads, NEW j \in 1..Len(ls[g])
  PROVE  \E r \in Seq(Entries) : TakenOut(ls[g], j, r) /\ A!Without(ls, ls[g][j]) = [ls EXCEPT ![g] = r]
<1>1. PICK a \in Seq(Entries) : a = ls[g]
  OBVIOUS
<1>2. PICK x : x = ls[g][j]
  OBVIOUS
<1>3. /\ A!Has(ls[g], x) /\ A!At(ls[g], x) = j
      /\ \A h \in Heads \ {g} : ~A!Has(ls[h], x)
  BY <1>2, AtIs
<1>4. PICK r : r = SubSeq(a, 1, j - 1) \o SubSeq(a, j + 1, Len(a))
  OBVIOUS
<1>5. r \in Seq(Entries) /\ TakenOut(a, j, r)
  BY <1>1, <1>4, TakenOutIs
<1>6. A!Without(ls, x) = [ls EXCEPT ![g] = r]
  BY <1>1, <1>3, <1>4 DEF A!Without
<1> QED
  BY <1>1, <1>2, <1>5, <1>6

\* An entry of no list is not missed.
LEMMA WithoutFree ==
  ASSUME NEW ls \in [Heads -> Seq(Entries)], NEW x, Free(ls, x)
  PROVE  A!Without(ls, x) = ls
<1>1. ASSUME NEW h \in Heads PROVE ~A!Has(ls[h], x)
  <2>1. ls[h] \in Seq(Entries)
    OBVIOUS
  <2>2. DOMAIN ls[h] = 1..Len(ls[h])
    BY <2>1
  <2> QED
    BY <2>2 DEF A!Has, Free
<1> QED
  BY <1>1 DEF A!Without

\* The walk from a head meets its list.
LEMMA HoldsIsWalk ==
  ASSUME NEW m, NEW h \in Heads, NEW s \in Seq(Entries), Distinct(s), Holds(m, h, s)
  PROVE  Walk(m, "next", h, h) = s
<1>1. PICK e \in Nat : e = Len(s)
  OBVIOUS
<1>2. PICK q : q = [i \in 0..e |-> Pt(h, s, i + 1)]
  OBVIOUS
<1>3. \A i \in 1..e : s[i] \in Entries /\ Pt(h, s, i) = s[i]
  BY <1>1, ElementOfSeq DEF Pt
<1>4. Pt(h, s, 0) = h /\ Pt(h, s, e + 1) = h
  BY <1>1 DEF Pt
<1>5. \A i \in 0..e : m.next[Pt(h, s, i)] = Pt(h, s, i + 1)
  BY <1>1 DEF Holds
<1>6. Heads \cap Entries = {} /\ h \in Objects /\ \A x \in Entries : x \in Objects
  BY ListAssumption DEF Objects
<1>7. q \in [0..e -> Objects]
  <2>1. ASSUME NEW i \in 0..e PROVE Pt(h, s, i + 1) \in Objects
    <3>1. CASE i = e
      BY <1>4, <1>6, <3>1
    <3>2. CASE i # e
      <4>1. i + 1 \in 1..e
        BY <3>2
      <4> QED
        BY <1>3, <1>6, <4>1
    <3> QED
      BY <3>1, <3>2
  <2> QED
    BY <1>2, <2>1
<1>8. q[0] = m.next[h] /\ q[e] = h
  <2>1. 0 \in 0..e /\ e \in 0..e /\ 0 + 1 = 1
    OBVIOUS
  <2> QED
    BY <1>2, <1>4, <1>5, <2>1
<1>9. ASSUME NEW i \in 0..(e - 1) PROVE q[i + 1] = m.next[q[i]] /\ q[i] # h
  <2>1. i \in 0..e /\ i + 1 \in 0..e /\ i + 1 \in 1..e
    OBVIOUS
  <2>2. q[i] = Pt(h, s, i + 1) /\ q[i + 1] = Pt(h, s, (i + 1) + 1)
    BY <1>2, <2>1
  <2>3. q[i] \in Entries
    BY <1>3, <2>1, <2>2
  <2> QED
    BY <1>5, <1>6, <2>1, <2>2, <2>3
<1>10. ASSUME NEW i \in 0..e, NEW k \in 0..e, q[i] = q[k] PROVE i = k
  <2>1. CASE i = e \/ k = e
    <3>1. i # e => i \in 0..(e - 1)
      OBVIOUS
    <3>2. k # e => k \in 0..(e - 1)
      OBVIOUS
    <3> QED
      BY <1>8, <1>9, <1>10, <2>1, <3>1, <3>2
  <2>2. CASE i # e /\ k # e
    <3>1. i + 1 \in 1..e /\ k + 1 \in 1..e
      BY <2>2
    <3>2. q[i] = s[i + 1] /\ q[k] = s[k + 1]
      BY <1>2, <1>3, <3>1
    <3>3. i + 1 = k + 1
      BY <1>1, <1>10, <3>1, <3>2 DEF Distinct
    <3> QED
      BY <3>3
  <2> QED
    BY <2>1, <2>2
<1>11. Path(m, "next", m.next[h], h, e, q)
  BY <1>7, <1>8, <1>9, <1>10 DEF Path
<1>12. Walk(m, "next", h, h) = Ahead(e, q)
  BY <1>6, <1>11, PathIsWalk
<1>13. Ahead(e, q) = s
  <2>1. ASSUME NEW k \in 1..e PROVE q[k - 1] = s[k]
    <3>1. k - 1 \in 0..e /\ (k - 1) + 1 = k
      OBVIOUS
    <3> QED
      BY <1>2, <1>3, <3>1
  <2>2. Ahead(e, q) = [k \in 1..e |-> s[k]]
    BY <2>1 DEF Ahead
  <2>3. s = [k \in 1..e |-> s[k]]
    BY <1>1
  <2> QED
    BY <2>2, <2>3
<1> QED
  BY <1>12, <1>13

\* What is in no list points to itself or is poisoned.
Out(m, ls) == \A x \in Entries : Free(ls, x) => m.next[x] = x \/ m.next[x] = LIST_POISON1

\* The points of the lists are linked.
Within(s, ls, K) == \A h \in Heads \ s : \A k \in 0..(Len(ls[h]) + 1) : Pt(h, ls[h], k) \in K

\* An entry of no list is no point.
LEMMA FreePt ==
  ASSUME NEW ls \in [Heads -> Seq(Entries)], NEW x \in Entries, Free(ls, x)
  PROVE  \A h \in Heads : \A k \in 0..(Len(ls[h]) + 1) : Pt(h, ls[h], k) # x
<1> SUFFICES ASSUME NEW h \in Heads, NEW k \in 0..(Len(ls[h]) + 1) PROVE Pt(h, ls[h], k) # x
  OBVIOUS
<1>1. h # x
  BY ListAssumption
<1> QED
  BY <1>1 DEF Pt, Free

\* A list's points are objects.
LEMMA PtObject ==
  ASSUME NEW ls \in [Heads -> Seq(Entries)]
  PROVE  \A h \in Heads : \A k : Pt(h, ls[h], k) \in Objects
<1> SUFFICES ASSUME NEW h \in Heads, NEW k PROVE Pt(h, ls[h], k) \in Objects
  OBVIOUS
<1>1. PICK a \in Seq(Entries) : a = ls[h]
  OBVIOUS
<1>2. \A i \in 1..Len(a) : a[i] \in Entries
  BY ElementOfSeq
<1> QED
  BY <1>1, <1>2 DEF Pt, Objects

\* The heaps agree on the lists.
LEMMA SameRep ==
  ASSUME NEW m, NEW u, NEW s, NEW ls, Rep(m, s, ls),
         \A h \in Heads \ s : \A k \in 0..Len(ls[h]) : u.next[Pt(h, ls[h], k)] = m.next[Pt(h, ls[h], k)]
  PROVE  Rep(u, s, ls)
<1>1. ASSUME NEW h \in Heads, h \notin s PROVE Holds(u, h, ls[h])
  BY <1>1 DEF Rep, Holds
<1> QED
  BY <1>1 DEF Rep

\* What points to itself or is poisoned is in no list.
LEMMA LooseIsFree ==
  ASSUME NEW m, NEW s, NEW ls, Rep(m, s, ls), NEW x \in Entries, m.next[x] = x \/ m.next[x] = LIST_POISON1
  PROVE  Free(ls, x)
<1>1. ls \in [Heads -> Seq(Entries)] /\ Apart(ls)
  BY DEF Rep
<1>2. SUFFICES ASSUME NEW h \in Heads, NEW i \in 1..Len(ls[h]), ls[h][i] = x PROVE FALSE
  BY DEF Free
<1>3. PICK a \in Seq(Entries) : a = ls[h]
  BY <1>1
<1>4. h \notin s
  <2>1. Len(<<>>) = 0
    OBVIOUS
  <2> QED
    BY <1>2, <2>1 DEF Rep
<1>5. Holds(m, h, a)
  BY <1>3, <1>4 DEF Rep
<1>6. i \in 0..Len(a) /\ Pt(h, a, i) = x
  BY <1>2, <1>3 DEF Pt
<1>7. m.next[x] = Pt(h, a, i + 1)
  BY <1>5, <1>6 DEF Holds
<1>8. Pt(h, a, i + 1) \in Objects
  BY <1>1, <1>3, PtObject
<1>9. m.next[x] = x
  BY <1>7, <1>8, ListAssumption
<1>10. CASE i + 1 \in 0..Len(a)
  <2>1. Pt(h, ls[h], i) = Pt(h, ls[h], i + 1)
    BY <1>3, <1>6, <1>7, <1>9
  <2>2. i = i + 1
    BY <1>1, <1>3, <1>6, <1>10, <2>1, PtApart
  <2> QED
    BY <1>3, <2>2
<1>11. CASE i + 1 \notin 0..Len(a)
  <2>1. Pt(h, a, i + 1) = h
    BY <1>3, <1>11 DEF Pt
  <2> QED
    BY <1>7, <1>9, <2>1, ListAssumption
<1> QED
  BY <1>10, <1>11

\* A head in use and an entry of a list are points.
LEMMA PointOf ==
  ASSUME NEW m, NEW s, NEW ls, Rep(m, s, ls), NEW x, x \in Heads \ s \/ ~Free(ls, x)
  PROVE  \E g \in Heads \ s : \E i \in 0..Len(ls[g]) : x = Pt(g, ls[g], i)
<1>0. ls \in [Heads -> Seq(Entries)]
  BY DEF Rep
<1>1. CASE x \in Heads \ s
  <2>1. PICK a \in Seq(Entries) : a = ls[x]
    BY <1>0, <1>1
  <2>2. 0 \in 0..Len(a) /\ x = Pt(x, a, 0)
    BY DEF Pt
  <2> QED
    BY <1>1, <2>1, <2>2
<1>2. CASE ~Free(ls, x)
  <2>1. PICK g \in Heads : \E i \in 1..Len(ls[g]) : ls[g][i] = x
    BY <1>2 DEF Free
  <2>2. PICK i \in 1..Len(ls[g]) : ls[g][i] = x
    BY <2>1
  <2>3. Len(<<>>) = 0
    OBVIOUS
  <2>4. g \notin s
    BY <2>2, <2>3 DEF Rep
  <2>5. PICK a \in Seq(Entries) : a = ls[g]
    BY <1>0
  <2>6. i \in 0..Len(a) /\ x = Pt(g, a, i)
    BY <2>2, <2>5 DEF Pt
  <2> QED
    BY <2>4, <2>5, <2>6
<1> QED
  BY <1>1, <1>2

\* A point is behind another one.
LEMMA PointBehind ==
  ASSUME NEW ls \in [Heads -> Seq(Entries)], NEW g \in Heads, NEW k \in 0..Len(ls[g])
  PROVE  \E i \in 0..Len(ls[g]) : Pt(g, ls[g], k) = Pt(g, ls[g], i + 1)
<1>1. PICK a \in Seq(Entries) : a = ls[g]
  OBVIOUS
<1>2. PICK n \in Nat : n = Len(a)
  OBVIOUS
<1>3. CASE k = 0
  <2>1. n \in 0..n /\ Pt(g, a, 0) = g /\ Pt(g, a, n + 1) = g
    BY <1>2 DEF Pt
  <2> QED
    BY <1>1, <1>2, <1>3, <2>1
<1>4. CASE k # 0
  <2>1. k - 1 \in 0..n /\ (k - 1) + 1 = k
    BY <1>1, <1>2, <1>4
  <2> QED
    BY <1>1, <1>2, <2>1
<1> QED
  BY <1>3, <1>4

\* Only what is abandoned, in no list or poisoned is not linked.
LEMMA IsWithin ==
  ASSUME NEW m, NEW s \in SUBSET Heads, NEW ls, Rep(m, s, ls), NEW K,
         \A x \in Objects \ K : x \in s \/ (x \in Entries /\ (Free(ls, x) \/ m.next[x] = LIST_POISON1))
  PROVE  Within(s, ls, K)
<1>0. ls \in [Heads -> Seq(Entries)]
  BY DEF Rep
<1>1. ASSUME NEW h \in Heads \ s, NEW k \in 0..(Len(ls[h]) + 1) PROVE Pt(h, ls[h], k) \in K
  <2>1. PICK x \in Objects : x = Pt(h, ls[h], k)
    BY <1>0, PtObject
  <2>2. h \in Objects /\ h \notin Entries
    BY ListAssumption DEF Objects
  <2>3. CASE x = h
    BY <2>1, <2>2, <2>3
  <2>4. CASE x # h
    <3>1. k \in 1..Len(ls[h]) /\ x = ls[h][k]
      BY <2>1, <2>4 DEF Pt
    <3>2. ~Free(ls, x)
      BY <3>1 DEF Free
    <3>3. m.next[x] # LIST_POISON1 \/ x \notin Entries
      BY <3>2, LooseIsFree
    <3>4. x \notin Heads
      <4>1. PICK a \in Seq(Entries) : a = ls[h]
        BY <1>0
      <4>2. x \in Entries
        BY <3>1, <4>1, ElementOfSeq
      <4> QED
        BY <4>2, ListAssumption
    <3>5. x \in Entries
      BY <3>4 DEF Objects
    <3>6. x \notin s
      BY <3>4
    <3> QED
      BY <2>1, <3>2, <3>3, <3>5, <3>6
  <2> QED
    BY <2>3, <2>4
<1> QED
  BY <1>1 DEF Within

\* prev leads back along a list.
LEMMA PrevIs ==
  ASSUME NEW m, NEW s, NEW ls, Rep(m, s, ls), NEW K, Within(s, ls, K), Closed(m, K),
         NEW g \in Heads \ s, NEW i \in 0..Len(ls[g])
  PROVE  m.next[Pt(g, ls[g], i)] = Pt(g, ls[g], i + 1) /\ m.prev[Pt(g, ls[g], i + 1)] = Pt(g, ls[g], i)
<1>1. PICK a \in Seq(Entries) : a = ls[g]
  BY DEF Rep
<1>2. i \in 0..(Len(a) + 1)
  BY <1>1
<1>3. Pt(g, ls[g], i) \in K
  BY <1>1, <1>2 DEF Within
<1>4. m.next[Pt(g, ls[g], i)] = Pt(g, ls[g], i + 1)
  BY DEF Rep, Holds
<1> QED
  BY <1>3, <1>4 DEF Closed

\* v holds the lists ls without e.
Left(m, v, s, ls, e) ==
  /\ Rep(v, s, A!Without(ls, e)) /\ Free(A!Without(ls, e), e)
  /\ \A x : Free(A!Without(ls, e), x) => Free(ls, x) \/ x = e
  /\ \A x \in Entries \ {e} : Free(A!Without(ls, e), x) => v.next[x] = m.next[x]

\* __list_del takes an entry of no list out of none.
LEMMA UnlinkFree ==
  ASSUME NEW m, NEW s, NEW ls, Rep(m, s, ls), NEW e \in Entries, Free(ls, e),
         NEW v, Unlinked(m, e, e, v), m.next[e] = e
  PROVE  Left(m, v, s, ls, e)
<1>0. ls \in [Heads -> Seq(Entries)]
  BY DEF Rep
<1>1. \A x \in Objects : v.next[x] = m.next[x]
  BY DEF Unlinked
<1>2. A!Without(ls, e) = ls
  BY <1>0, WithoutFree
<1>3. \A h \in Heads \ s : \A k \in 0..Len(ls[h]) : v.next[Pt(h, ls[h], k)] = m.next[Pt(h, ls[h], k)]
  BY <1>0, <1>1, PtObject
<1>4. Rep(v, s, ls)
  BY <1>3, SameRep
<1>5. Entries \subseteq Objects
  BY DEF Objects
<1> QED
  BY <1>1, <1>2, <1>4, <1>5 DEF Left

\* __list_del takes an entry out of its list.
LEMMA UnlinkEntry ==
  ASSUME NEW m, NEW s, NEW ls, Rep(m, s, ls), NEW K, Within(s, ls, K), Closed(m, K),
         NEW g \in Heads, NEW j \in 1..Len(ls[g]), NEW e, e = ls[g][j],
         NEW v, Unlinked(m, m.prev[e], m.next[e], v)
  PROVE  Left(m, v, s, ls, e)
<1>0. ls \in [Heads -> Seq(Entries)] /\ Apart(ls)
  BY DEF Rep
<1>1. PICK a \in Seq(Entries) : a = ls[g]
  BY <1>0
<1>2. g \notin s
  <2>1. Len(<<>>) = 0
    OBVIOUS
  <2> QED
    BY <2>1 DEF Rep
<1>3. j - 1 \in 0..Len(a) /\ (j - 1) + 1 = j /\ j \in 0..Len(a)
  BY <1>1
<1>4. e = Pt(g, a, j)
  BY <1>1 DEF Pt
<1>5. PICK p : p = Pt(g, a, j - 1)
  OBVIOUS
<1>6. PICK n : n = Pt(g, a, j + 1)
  OBVIOUS
<1>7. m.prev[e] = p /\ m.next[e] = n
  <2>0. PICK i \in 0..Len(ls[g]) : i = j - 1 /\ i + 1 = j
    BY <1>1, <1>3
  <2>1. m.prev[Pt(g, ls[g], i + 1)] = Pt(g, ls[g], i)
    BY <1>2, PrevIs
  <2>2. m.next[Pt(g, ls[g], j)] = Pt(g, ls[g], j + 1)
    BY <1>1, <1>2, <1>3, PrevIs
  <2> QED
    BY <1>1, <1>4, <1>5, <1>6, <2>0, <2>1, <2>2
<1>8. \A x \in Objects : v.next[x] = IF x = p THEN n ELSE m.next[x]
  BY <1>7 DEF Unlinked
<1>9. Passes(m, v, s, ls, g, j)
  <2>1. p \in Objects
    BY <1>0, <1>1, <1>5, PtObject
  <2>2. v.next[Pt(g, ls[g], j - 1)] = Pt(g, ls[g], j + 1)
    BY <1>1, <1>5, <1>6, <1>8, <2>1
  <2>3. ASSUME NEW h \in Heads \ s, NEW k \in 0..Len(ls[h]), h # g \/ (k # j - 1 /\ k # j)
        PROVE  v.next[Pt(h, ls[h], k)] = m.next[Pt(h, ls[h], k)]
    <3>1. Pt(h, ls[h], k) # Pt(g, ls[g], j - 1)
      BY <1>0, <1>1, <1>3, <2>3, PtApart
    <3>2. Pt(h, ls[h], k) \in Objects
      BY <1>0, PtObject
    <3> QED
      BY <1>1, <1>5, <1>8, <3>1, <3>2
  <2> QED
    BY <2>2, <2>3 DEF Passes
<1>10. PICK r \in Seq(Entries) : TakenOut(ls[g], j, r) /\ A!Without(ls, ls[g][j]) = [ls EXCEPT ![g] = r]
  BY <1>0, WithoutIs
<1>a. TakenOut(ls[g], j, r)
  BY <1>10
<1>11. HasLost(v, s, ls, ls[g][j], A!Without(ls, e))
  BY <1>9, <1>10, <1>a, RemoveRep
<1>12. /\ Rep(v, s, A!Without(ls, e)) /\ Free(A!Without(ls, e), e)
       /\ \A x : Free(A!Without(ls, e), x) => Free(ls, x) \/ x = e
  BY <1>11 DEF HasLost
<1>13. ASSUME NEW x \in Entries \ {e}, Free(A!Without(ls, e), x) PROVE v.next[x] = m.next[x]
  <2>1. Free(ls, x)
    BY <1>12, <1>13
  <2>2. j - 1 \in 0..(Len(a) + 1)
    BY <1>1
  <2>3. p # x
    BY <1>0, <1>1, <1>5, <2>1, <2>2, FreePt
  <2>4. x \in Objects
    BY DEF Objects
  <2> QED
    BY <1>8, <2>3, <2>4
<1> QED
  BY <1>12, <1>13 DEF Left

\* The heap, what is linked in it and the lists in it.
Book(m, K, s, ls) == Sound(m, K, s) /\ Rep(m, s, ls) /\ Out(m, ls)

\* What a heap of lists is made of.
LEMMA BookIs ==
  ASSUME NEW m, NEW K, NEW s, NEW ls, Book(m, K, s, ls)
  PROVE  /\ m \in Heap /\ K \subseteq Objects /\ s \in SUBSET Heads /\ K \cap s = {} /\ Closed(m, K)
         /\ ls \in [Heads -> Seq(Entries)] /\ Apart(ls) /\ Rep(m, s, ls) /\ Within(s, ls, K)
<1>1. /\ m \in Heap /\ K \subseteq Objects /\ s \in SUBSET Heads /\ K \cap s = {} /\ Closed(m, K)
      /\ \A x \in Objects \ K : x \in s \/ (x \in Entries /\ m.next[x] = LIST_POISON1)
  BY DEF Book, Sound, Rings
<1>2. Rep(m, s, ls)
  BY DEF Book
<1>3. Within(s, ls, K)
  BY <1>1, <1>2, IsWithin
<1> QED
  BY <1>1, <1>2, <1>3 DEF Rep

\* __list_del of a linked entry.
LEMMA UnlinkRep ==
  ASSUME NEW m, NEW K, NEW s, NEW ls, Book(m, K, s, ls), NEW e \in K \cap Entries,
         NEW v, v = list_unlink(m, m.prev[e], m.next[e])
  PROVE  Left(m, v, s, ls, e) /\ Unlinked(m, m.prev[e], m.next[e], v) /\ Closed(v, K \ {e}) /\ v \in Heap
<1>1. /\ m \in Heap /\ K \subseteq Objects /\ Closed(m, K) /\ Rep(m, s, ls) /\ Within(s, ls, K)
  BY BookIs
<1>2. PICK own : Rings(m, K, own)
  BY DEF Book, Sound
<1>3. Rings(v, K \ {e}, own) /\ Unlinked(m, m.prev[e], m.next[e], v)
  BY <1>2, UnlinkRings
<1>4. Closed(v, K \ {e}) /\ v \in Heap
  BY <1>3 DEF Rings
<1>5. Left(m, v, s, ls, e)
  <2>1. CASE Free(ls, e)
    <3>1. m.next[e] \in K /\ m.prev[m.next[e]] = e
      BY <1>1 DEF Closed
    <3>2. m.next[e] # LIST_POISON1
      BY <1>1, <3>1, ListAssumption
    <3>3. m.next[e] = e
      BY <2>1, <3>2 DEF Book, Out
    <3>4. m.prev[e] = e
      BY <3>1, <3>3
    <3>5. Unlinked(m, e, e, v)
      BY <1>3, <3>3, <3>4
    <3> QED
      BY <1>1, <2>1, <3>3, <3>5, UnlinkFree
  <2>2. CASE ~Free(ls, e)
    <3>1. PICK g \in Heads : \E j \in 1..Len(ls[g]) : ls[g][j] = e
      BY <2>2 DEF Free
    <3>2. PICK j \in 1..Len(ls[g]) : ls[g][j] = e
      BY <3>1
    <3> QED
      BY <1>1, <1>3, <3>2, UnlinkEntry
  <2> QED
    BY <2>1, <2>2
<1> QED
  BY <1>3, <1>4, <1>5

\* Writing into what is in no list changes none.
LEMMA WriteFree ==
  ASSUME NEW m, NEW s, NEW ls, Rep(m, s, ls), NEW e \in Entries, Free(ls, e), NEW n, NEW p,
         NEW u, Written(m, e, n, p, u)
  PROVE  Rep(u, s, ls)
<1>0. ls \in [Heads -> Seq(Entries)]
  BY DEF Rep
<1>1. ASSUME NEW h \in Heads \ s, NEW k \in 0..Len(ls[h])
      PROVE  u.next[Pt(h, ls[h], k)] = m.next[Pt(h, ls[h], k)]
  <2>1. ls[h] \in Seq(Entries)
    BY <1>0
  <2>2. k \in 0..(Len(ls[h]) + 1)
    BY <2>1
  <2>3. Pt(h, ls[h], k) # e
    BY <1>0, <2>2, FreePt
  <2>4. Pt(h, ls[h], k) \in Objects
    BY <1>0, PtObject
  <2> QED
    BY <2>3, <2>4 DEF Written
<1> QED
  BY <1>1, SameRep

\* list_del and list_del_init.
LEMMA DeleteRep ==
  ASSUME NEW m, NEW K, NEW s, NEW ls, Book(m, K, s, ls), NEW e \in K \cap Entries,
         NEW u, u = list_del(m, e) \/ u = list_del_init(m, e)
  PROVE  Rep(u, s, A!Without(ls, e)) /\ Out(u, A!Without(ls, e))
<1>1. PICK v : v = list_unlink(m, m.prev[e], m.next[e])
  OBVIOUS
<1>2. Left(m, v, s, ls, e) /\ v \in Heap
  BY <1>1, UnlinkRep
<1>3. e \in Objects /\ e \in Ptrs /\ LIST_POISON1 \in Ptrs /\ LIST_POISON2 \in Ptrs /\ Entries \subseteq Objects
  BY DEF Objects, Ptrs
<1>4. PICK n, p : (n = e \/ n = LIST_POISON1) /\ Written(v, e, n, p, u)
  <2>1. CASE u = list_del(m, e)
    <3>1. u = SetPrev(SetNext(v, e, LIST_POISON1), e, LIST_POISON2)
      BY <1>1, <2>1 DEF list_del
    <3> QED
      BY <1>2, <1>3, <3>1, WritePtrs
  <2>2. CASE u = list_del_init(m, e)
    <3>1. u = SetPrev(SetNext(v, e, e), e, e)
      BY <1>1, <2>2 DEF list_del_init, INIT_LIST_HEAD
    <3> QED
      BY <1>2, <1>3, <3>1, WritePtrs
  <2> QED
    BY <2>1, <2>2
<1>5. PICK w : w = A!Without(ls, e)
  OBVIOUS
<1>6. /\ Rep(v, s, w) /\ Free(w, e) /\ (\A x : Free(w, x) => Free(ls, x) \/ x = e)
      /\ \A x \in Entries \ {e} : Free(w, x) => v.next[x] = m.next[x]
  BY <1>2, <1>5 DEF Left
<1>7. Rep(u, s, w)
  BY <1>4, <1>6, WriteFree
<1>8. \A x \in Objects : u.next[x] = IF x = e THEN n ELSE v.next[x]
  BY <1>4 DEF Written
<1>9. ASSUME NEW x \in Entries, Free(w, x) PROVE u.next[x] = x \/ u.next[x] = LIST_POISON1
  BY <1>3, <1>4, <1>6, <1>8, <1>9 DEF Book, Out
<1> QED
  BY <1>5, <1>7, <1>9 DEF Out

\* v holds the lists w, which are ls with e in one of them.
Gained(m, v, s, ls, e, w) ==
  /\ Rep(v, s, w)
  /\ \A x \in Entries : Free(w, x) => Free(ls, x) /\ x # e /\ v.next[x] = m.next[x]

\* One entry in a row.
LEMMA OneInARow == \A e \in Entries : \E t \in Seq(Entries) : t = <<e>> /\ Len(t) = 1 /\ t[1] = e
<1>1. ASSUME NEW e \in Entries PROVE <<e>> \in Seq(Entries) /\ Len(<<e>>) = 1 /\ <<e>>[1] = e
  OBVIOUS
<1> QED
  BY <1>1

\* __list_add behind a point of a list.
LEMMA InsertEntry ==
  ASSUME NEW m \in Heap, NEW s, NEW ls, Rep(m, s, ls), NEW e \in Entries, Free(ls, e),
         NEW g \in Heads \ s, NEW i \in 0..Len(ls[g]), NEW p, p = Pt(g, ls[g], i), NEW n, n = m.next[p],
         NEW u, u = list_insert(m, e, p, n), NEW r \in Seq(Entries), PutIn(ls[g], i, <<e>>, r)
  PROVE  \A w : w = [ls EXCEPT ![g] = r] => Gained(m, u, s, ls, e, w)
<1>0. ls \in [Heads -> Seq(Entries)] /\ Apart(ls)
  BY DEF Rep
<1>1. PICK a \in Seq(Entries) : a = ls[g]
  BY <1>0
<1>2. n = Pt(g, ls[g], i + 1)
  BY DEF Rep, Holds
<1>3. p \in Objects /\ n \in Objects /\ e \in Objects /\ Entries \subseteq Objects
  BY <1>0, <1>2, PtObject DEF Objects
<1>4. Inserted(m, e, p, n, u)
  BY <1>3, InsertPtrs
<1>5. i \in 0..(Len(a) + 1)
  BY <1>1
<1>6. p # e
  BY <1>0, <1>1, <1>5, FreePt
<1>7. \A x \in Objects : u.next[x] = IF x = p THEN e ELSE IF x = e THEN n ELSE m.next[x]
  BY <1>4 DEF Inserted
<1>8. PICK t \in Seq(Entries) : t = <<e>> /\ Len(t) = 1 /\ t[1] = e
  BY OneInARow
<1>9. NewSeq(ls, t)
  <2>1. \A k \in 1..Len(t) : k = 1
    BY <1>8
  <2> QED
    BY <1>8, <2>1 DEF NewSeq
<1>10. Joins(m, u, s, ls, g, i, t)
  <2>1. u.next[Pt(g, ls[g], i)] = t[1]
    BY <1>3, <1>7, <1>8
  <2>2. \A j \in 1..(Len(t) - 1) : u.next[t[j]] = t[j + 1]
    BY <1>8
  <2>3. u.next[t[Len(t)]] = Pt(g, ls[g], i + 1)
    BY <1>2, <1>3, <1>6, <1>7, <1>8
  <2>4. ASSUME NEW h \in Heads \ s, NEW k \in 0..Len(ls[h]), h # g \/ k # i
        PROVE  u.next[Pt(h, ls[h], k)] = m.next[Pt(h, ls[h], k)]
    <3>1. Pt(h, ls[h], k) # p
      BY <1>0, <2>4, PtApart
    <3>2. PICK b \in Seq(Entries) : b = ls[h]
      BY <1>0
    <3>3. k \in 0..(Len(b) + 1)
      BY <3>2
    <3>4. Pt(h, ls[h], k) # e
      BY <1>0, <3>2, <3>3, FreePt
    <3>5. Pt(h, ls[h], k) \in Objects
      BY <1>0, PtObject
    <3> QED
      BY <1>7, <3>1, <3>4, <3>5
  <2> QED
    BY <2>1, <2>2, <2>3, <2>4 DEF Joins
<1>11. PutIn(ls[g], i, t, r) /\ g \notin s
  BY <1>8
<1>12. \A w : w = [ls EXCEPT ![g] = r] => HasGot(u, s, ls, t, w)
  BY <1>9, <1>10, <1>11, InsertRep
<1>13. ASSUME NEW w, HasGot(u, s, ls, t, w) PROVE Gained(m, u, s, ls, e, w)
  <2>1. Rep(u, s, w) /\ \A x : Free(w, x) => Free(ls, x) /\ x # e
    <3>1. 1 \in 1..Len(t)
      BY <1>8
    <3> QED
      BY <1>8, <1>13, <3>1 DEF HasGot
  <2>2. ASSUME NEW x \in Entries, Free(w, x) PROVE u.next[x] = m.next[x]
    <3>1. Free(ls, x) /\ x # e
      BY <2>1, <2>2
    <3>2. p # x
      BY <1>0, <1>1, <1>5, <3>1, FreePt
    <3> QED
      BY <1>3, <1>7, <3>1, <3>2
  <2> QED
    BY <2>1, <2>2 DEF Gained
<1> QED
  BY <1>12, <1>13

\* list_add and list_add_tail at a point of a list.
LEMMA AddRep ==
  ASSUME NEW m \in Heap, NEW s, NEW ls, Rep(m, s, ls), NEW K, Within(s, ls, K), Closed(m, K),
         NEW e \in Entries, Free(ls, e), NEW g \in Heads \ s, NEW k \in 0..Len(ls[g]), NEW x, x = Pt(g, ls[g], k)
  PROVE  /\ Gained(m, list_add(m, e, x), s, ls, e, A!After(ls, <<e>>, x))
         /\ Gained(m, list_add_tail(m, e, x), s, ls, e, A!Before(ls, <<e>>, x))
<1>0. ls \in [Heads -> Seq(Entries)] /\ Apart(ls)
  BY DEF Rep
<1>1. PICK t \in Seq(Entries) : t = <<e>>
  BY OneInARow
<1>2. Gained(m, list_add(m, e, x), s, ls, e, A!After(ls, <<e>>, x))
  <2>1. PICK r \in Seq(Entries) : PutIn(ls[g], k, t, r) /\ A!After(ls, t, x) = [ls EXCEPT ![g] = r]
    BY <1>0, AfterIs
  <2>2. PICK u : u = list_insert(m, e, x, m.next[x])
    OBVIOUS
  <2>3. PutIn(ls[g], k, <<e>>, r)
    BY <1>1, <2>1
  <2>4. \A w : w = [ls EXCEPT ![g] = r] => Gained(m, u, s, ls, e, w)
    BY <2>2, <2>3, InsertEntry
  <2> QED
    BY <1>1, <2>1, <2>2, <2>4 DEF list_add
<1>3. Gained(m, list_add_tail(m, e, x), s, ls, e, A!Before(ls, <<e>>, x))
  <2>1. PICK j \in 0..Len(ls[g]) : x = Pt(g, ls[g], j + 1)
    BY <1>0, PointBehind
  <2>b. Behind(g, ls, j, x)
    BY <2>1 DEF Behind
  <2>2. PICK r \in Seq(Entries) : PutIn(ls[g], j, t, r) /\ A!Before(ls, t, x) = [ls EXCEPT ![g] = r]
    <3>1. ls \in [Heads -> Seq(Entries)] /\ Apart(ls) /\ g \in Heads /\ j \in 0..Len(ls[g])
      BY <1>0
    <3> QED
      BY <2>b, <3>1, BeforeIs
  <2>3. PICK p : p = Pt(g, ls[g], j)
    OBVIOUS
  <2>4. m.next[p] = x /\ m.prev[x] = p
    BY <2>1, <2>3, PrevIs
  <2>5. PICK u : u = list_insert(m, e, p, x)
    OBVIOUS
  <2>6. PutIn(ls[g], j, <<e>>, r) /\ x = m.next[p]
    BY <1>1, <2>2, <2>4
  <2>7. \A w : w = [ls EXCEPT ![g] = r] => Gained(m, u, s, ls, e, w)
    BY <2>3, <2>5, <2>6, InsertEntry
  <2> QED
    BY <1>1, <2>2, <2>4, <2>5, <2>7 DEF list_add_tail
<1> QED
  BY <1>2, <1>3

\* Add.
LEMMA AddBook ==
  ASSUME NEW m, NEW K, NEW s, NEW ls, Book(m, K, s, ls), NEW e \in Entries, m.next[e] = e \/ m.next[e] = LIST_POISON1,
         NEW x \in K, x \in Heads \/ m.next[x] # x, NEW u, NEW w,
         \/ u = list_add(m, e, x) /\ w = A!After(A!Without(ls, e), <<e>>, x)
         \/ u = list_add_tail(m, e, x) /\ w = A!Before(A!Without(ls, e), <<e>>, x)
  PROVE  Rep(u, s, w) /\ Out(u, w)
<1>1. /\ m \in Heap /\ K \subseteq Objects /\ s \in SUBSET Heads /\ K \cap s = {} /\ Closed(m, K)
      /\ ls \in [Heads -> Seq(Entries)] /\ Apart(ls) /\ Rep(m, s, ls) /\ Within(s, ls, K)
  BY BookIs
<1>2. Free(ls, e)
  BY <1>1, LooseIsFree
<1>3. A!Without(ls, e) = ls
  BY <1>1, <1>2, WithoutFree
<1>4. x \in Heads \ s \/ ~Free(ls, x)
  <2>1. m.next[x] \in K
    BY <1>1 DEF Closed
  <2>2. m.next[x] # LIST_POISON1
    BY <1>1, <2>1, ListAssumption
  <2>3. x \in Heads \/ x \in Entries
    BY <1>1 DEF Objects
  <2> QED
    BY <1>1, <2>2, <2>3 DEF Book, Out
<1>5. PICK g \in Heads \ s : \E k \in 0..Len(ls[g]) : x = Pt(g, ls[g], k)
  BY <1>1, <1>4, PointOf
<1>6. PICK k \in 0..Len(ls[g]) : x = Pt(g, ls[g], k)
  BY <1>5
<1>7. /\ Gained(m, list_add(m, e, x), s, ls, e, A!After(ls, <<e>>, x))
      /\ Gained(m, list_add_tail(m, e, x), s, ls, e, A!Before(ls, <<e>>, x))
  BY <1>1, <1>2, <1>6, AddRep
<1>8. Gained(m, u, s, ls, e, w)
  BY <1>3, <1>7
<1> QED
  BY <1>8 DEF Gained, Book, Out

\* Move.
LEMMA MoveBook ==
  ASSUME NEW m, NEW K, NEW s, NEW ls, Book(m, K, s, ls), NEW e \in K \cap Entries,
         NEW x \in K, x # e, x \in Heads \/ m.next[x] # x, NEW u, NEW w,
         \/ u = list_move(m, e, x) /\ w = A!After(A!Without(ls, e), <<e>>, x)
         \/ u = list_move_tail(m, e, x) /\ w = A!Before(A!Without(ls, e), <<e>>, x)
  PROVE  Rep(u, s, w) /\ Out(u, w)
<1>1. /\ m \in Heap /\ K \subseteq Objects /\ s \in SUBSET Heads /\ K \cap s = {} /\ Closed(m, K)
      /\ ls \in [Heads -> Seq(Entries)] /\ Apart(ls) /\ Rep(m, s, ls) /\ Within(s, ls, K)
  BY BookIs
<1>2. PICK v : v = list_unlink(m, m.prev[e], m.next[e])
  OBVIOUS
<1>3. Left(m, v, s, ls, e) /\ Unlinked(m, m.prev[e], m.next[e], v) /\ Closed(v, K \ {e}) /\ v \in Heap
  BY <1>2, UnlinkRep
<1>4. PICK l : l = A!Without(ls, e)
  OBVIOUS
<1>5. /\ Rep(v, s, l) /\ Free(l, e) /\ (\A y : Free(l, y) => Free(ls, y) \/ y = e)
      /\ \A y \in Entries \ {e} : Free(l, y) => v.next[y] = m.next[y]
  BY <1>3, <1>4 DEF Left
<1>6. PICK R : R = K \ {e}
  OBVIOUS
<1>7. Within(s, l, R)
  <2>1. ASSUME NEW y \in Objects \ R
        PROVE  y \in s \/ (y \in Entries /\ (Free(l, y) \/ v.next[y] = LIST_POISON1))
    <3>1. CASE y = e
      BY <1>5, <3>1
    <3>2. CASE y # e
      <4>1. y \notin K
        BY <1>6, <3>2
      <4>2. y \in s \/ (y \in Entries /\ m.next[y] = LIST_POISON1)
        BY <4>1 DEF Book, Sound
      <4>3. m.prev[e] \in K
        BY <1>1 DEF Closed
      <4>4. v.next[y] = m.next[y]
        BY <1>3, <4>1, <4>3 DEF Unlinked
      <4> QED
        BY <4>2, <4>4
    <3> QED
      BY <3>1, <3>2
  <2> QED
    BY <1>1, <1>5, <2>1, IsWithin
<1>8. x \in Heads \ s \/ ~Free(l, x)
  <2>1. m.next[x] \in K
    BY <1>1 DEF Closed
  <2>2. m.next[x] # LIST_POISON1
    BY <1>1, <2>1, ListAssumption
  <2>3. x \in Heads \/ x \in Entries
    BY <1>1 DEF Objects
  <2> QED
    BY <1>1, <1>5, <2>2, <2>3 DEF Book, Out
<1>9. PICK g \in Heads \ s : \E k \in 0..Len(l[g]) : x = Pt(g, l[g], k)
  BY <1>5, <1>8, PointOf
<1>10. PICK k \in 0..Len(l[g]) : x = Pt(g, l[g], k)
  BY <1>9
<1>11. /\ Gained(v, list_add(v, e, x), s, l, e, A!After(l, <<e>>, x))
       /\ Gained(v, list_add_tail(v, e, x), s, l, e, A!Before(l, <<e>>, x))
  <2>1. Closed(v, R) /\ v \in Heap /\ e \in Entries
    BY <1>3, <1>6
  <2> QED
    BY <1>5, <1>7, <1>10, <2>1, AddRep
<1>12. Gained(v, u, s, l, e, w)
  BY <1>2, <1>4, <1>11 DEF list_move, list_move_tail
<1>13. Rep(u, s, w) /\ \A y \in Entries : Free(w, y) => Free(l, y) /\ y # e /\ u.next[y] = v.next[y]
  BY <1>12 DEF Gained
<1>14. ASSUME NEW y \in Entries, Free(w, y) PROVE u.next[y] = y \/ u.next[y] = LIST_POISON1
  BY <1>5, <1>13, <1>14 DEF Book, Out
<1> QED
  BY <1>13, <1>14 DEF Out

\* INIT_LIST_HEAD takes an abandoned head into use, with no entry.
LEMMA InitRep ==
  ASSUME NEW m, NEW s, NEW ls, Rep(m, s, ls), Out(m, ls), NEW h \in Heads, ls[h] = <<>>,
         NEW u, Written(m, h, h, h, u)
  PROVE  Rep(u, s \ {h}, ls) /\ Out(u, ls)
<1>0. ls \in [Heads -> Seq(Entries)] /\ Apart(ls)
  BY DEF Rep
<1>1. \A x \in Objects : u.next[x] = IF x = h THEN h ELSE m.next[x]
  BY DEF Written
<1>2. h \in Objects /\ h \notin Entries /\ Entries \subseteq Objects
  BY ListAssumption DEF Objects
<1>3. Holds(u, h, ls[h])
  <2>1. ls[h] = <<>> /\ Len(<<>>) = 0
    OBVIOUS
  <2>2. \A k \in Int : Pt(h, <<>>, k) = h
    BY <2>1 DEF Pt
  <2> QED
    BY <1>1, <1>2, <2>1, <2>2 DEF Holds
<1>4. ASSUME NEW g \in Heads, g # h, g \notin s PROVE Holds(u, g, ls[g])
  <2>1. Holds(m, g, ls[g])
    BY <1>4 DEF Rep
  <2>2. ASSUME NEW k \in 0..Len(ls[g]) PROVE u.next[Pt(g, ls[g], k)] = m.next[Pt(g, ls[g], k)]
    <3>1. PICK a \in Seq(Entries) : a = ls[g]
      BY <1>0
    <3>2. \A j \in 1..Len(a) : a[j] \in Entries
      BY ElementOfSeq
    <3>3. Pt(g, ls[g], k) # h
      BY <1>2, <1>4, <3>1, <3>2 DEF Pt
    <3>4. Pt(g, ls[g], k) \in Objects
      BY <1>0, PtObject
    <3> QED
      BY <1>1, <3>3, <3>4
  <2> QED
    BY <2>1, <2>2 DEF Holds
<1>5. Rep(u, s \ {h}, ls)
  BY <1>3, <1>4 DEF Rep
<1>6. Out(u, ls)
  BY <1>1, <1>2 DEF Out
<1> QED
  BY <1>5, <1>6

\* The lists z are ls without that of l.
Emptied(m, s, ls, l, z) ==
  /\ Rep(m, s \cup {l}, z)
  /\ \A x : Free(ls, x) <=> (Free(z, x) /\ \A k \in 1..Len(ls[l]) : ls[l][k] # x)
  /\ \A k \in 1..Len(ls[l]) : Free(z, ls[l][k])

\* A list left out is abandoned.
LEMMA EmptiedRep ==
  ASSUME NEW m, NEW s, NEW ls, Rep(m, s, ls), NEW l \in Heads \ s
  PROVE  \A z : z = [ls EXCEPT ![l] = <<>>] => Emptied(m, s, ls, l, z)
<1> SUFFICES ASSUME NEW z, z = [ls EXCEPT ![l] = <<>>] PROVE Emptied(m, s, ls, l, z)
  OBVIOUS
<1>0. ls \in [Heads -> Seq(Entries)] /\ Apart(ls)
  BY DEF Rep
<1>e. <<>> \in Seq(Entries) /\ Len(<<>>) = 0
  OBVIOUS
<1>1. z \in [Heads -> Seq(Entries)] /\ z[l] = <<>> /\ \A h \in Heads \ {l} : z[h] = ls[h]
  BY <1>0, <1>e
<1>2. \A k \in 1..Len(z[l]) : FALSE
  BY <1>1, <1>e
<1>3. Apart(z)
  <2> SUFFICES ASSUME NEW g \in Heads, NEW h \in Heads, NEW i \in 1..Len(z[g]), NEW k \in 1..Len(z[h]),
                      z[g][i] = z[h][k]
               PROVE  g = h /\ i = k
    BY DEF Apart
  <2>1. g # l /\ h # l
    BY <1>2
  <2>2. z[g] = ls[g] /\ z[h] = ls[h]
    BY <1>1, <2>1
  <2> QED
    BY <1>0, <2>2 DEF Apart
<1>4. Rep(m, s \cup {l}, z)
  <2>1. ASSUME NEW h \in Heads, h \in s \cup {l} PROVE z[h] = <<>>
    BY <1>1, <2>1 DEF Rep
  <2>2. ASSUME NEW h \in Heads, h \notin s \cup {l} PROVE Holds(m, h, z[h])
    BY <1>1, <2>2 DEF Rep
  <2> QED
    BY <1>1, <1>3, <2>1, <2>2 DEF Rep
<1>5. ASSUME NEW x PROVE Free(ls, x) <=> (Free(z, x) /\ \A k \in 1..Len(ls[l]) : ls[l][k] # x)
  <2>1. Free(z, x) <=> \A h \in Heads \ {l} : \A i \in 1..Len(ls[h]) : ls[h][i] # x
    BY <1>1, <1>2 DEF Free
  <2> QED
    BY <2>1 DEF Free
<1>6. ASSUME NEW k \in 1..Len(ls[l]) PROVE Free(z, ls[l][k])
  <2> SUFFICES ASSUME NEW h \in Heads, NEW i \in 1..Len(z[h]), z[h][i] = ls[l][k]
               PROVE  FALSE
    BY DEF Free
  <2>1. h # l
    BY <1>2
  <2>2. z[h] = ls[h]
    BY <1>1, <2>1
  <2> QED
    BY <1>0, <2>1, <2>2 DEF Apart
<1> QED
  BY <1>4, <1>5, <1>6 DEF Emptied

\* u holds the lists w, and l is abandoned.
Absorbed(u, s, l, w) == Rep(u, s \cup {l}, w) /\ Out(u, w) /\ w[l] = <<>> /\ u \in Heap

\* __list_splice of a list that is not empty.
LEMMA JoinRep ==
  ASSUME NEW m, NEW K, NEW s, NEW ls, Book(m, K, s, ls), NEW l \in K \cap Heads, m.next[l] # l,
         NEW x \in K, x # l, x \in Heads \/ m.next[x] # x, ~A!Has(ls[l], x), NEW u, u = list_join(m, l, x)
  PROVE  \A w : w = A!After([ls EXCEPT ![l] = <<>>], ls[l], x) => Absorbed(u, s, l, w)
<1> SUFFICES ASSUME NEW w, w = A!After([ls EXCEPT ![l] = <<>>], ls[l], x) PROVE Absorbed(u, s, l, w)
  OBVIOUS
<1>1. /\ m \in Heap /\ K \subseteq Objects /\ s \in SUBSET Heads /\ K \cap s = {} /\ Closed(m, K)
      /\ ls \in [Heads -> Seq(Entries)] /\ Apart(ls) /\ Rep(m, s, ls) /\ Within(s, ls, K)
  BY BookIs
<1>2. PICK t \in Seq(Entries) : t = ls[l]
  BY <1>1
<1>3. PICK c \in Nat : c = Len(t)
  OBVIOUS
<1>4. l \in Heads \ s
  BY <1>1
<1>5. Holds(m, l, t)
  BY <1>1, <1>2, <1>4 DEF Rep
<1>6. c >= 1
  <2>1. m.next[Pt(l, t, 0)] = Pt(l, t, 0 + 1) /\ Pt(l, t, 0) = l
    BY <1>5 DEF Holds, Pt
  <2>2. Pt(l, t, 1) # l
    BY <2>1
  <2>3. 1 \in 1..Len(t)
    BY <2>2 DEF Pt
  <2> QED
    BY <1>3, <2>3
<1>7. /\ \A k \in 1..c : Pt(l, t, k) = t[k] /\ t[k] \in Entries /\ t[k] \in Objects
      /\ Pt(l, t, 0) = l /\ Pt(l, t, c + 1) = l
  BY <1>3, ElementOfSeq DEF Pt, Objects
<1>8. \A k \in 0..c : m.next[Pt(l, t, k)] = Pt(l, t, k + 1)
  BY <1>3, <1>5 DEF Holds
<1>9. m.next[l] = t[1] /\ m.prev[l] = t[c] /\ \A k \in 1..(c - 1) : m.next[t[k]] = t[k + 1]
  <2>1. 0 \in 0..c /\ c \in 0..c /\ 1 \in 1..c /\ c \in 1..c /\ 0 + 1 = 1
    BY <1>3, <1>6
  <2>2. m.next[l] = t[1]
    BY <1>7, <1>8, <2>1
  <2>3. m.prev[Pt(l, ls[l], c + 1)] = Pt(l, ls[l], c)
    BY <1>1, <1>2, <1>3, <1>4, <2>1, PrevIs
  <2>4. m.prev[l] = t[c]
    BY <1>2, <1>7, <2>1, <2>3
  <2>5. \A k \in 1..(c - 1) : k \in 0..c /\ k \in 1..c /\ k + 1 \in 1..c
    BY <1>3
  <2> QED
    BY <1>7, <1>8, <2>2, <2>4, <2>5
<1>10. PICK z : z = [ls EXCEPT ![l] = <<>>]
  OBVIOUS
<1>11. /\ Rep(m, s \cup {l}, z)
       /\ \A y : Free(ls, y) <=> (Free(z, y) /\ \A k \in 1..c : t[k] # y)
       /\ \A k \in 1..c : Free(z, t[k])
  <2>1. Emptied(m, s, ls, l, z)
    BY <1>1, <1>4, <1>10, EmptiedRep
  <2> QED
    BY <1>2, <1>3, <2>1 DEF Emptied
<1>12. PICK q : q = s \cup {l}
  OBVIOUS
<1>13. z \in [Heads -> Seq(Entries)] /\ Apart(z) /\ Rep(m, q, z)
  BY <1>11, <1>12 DEF Rep
<1>14. \A k \in 1..c : t[k] # x
  <2>1. DOMAIN t = 1..c
    BY <1>3
  <2> QED
    BY <1>2, <2>1 DEF A!Has
<1>15. x \in Heads \ q \/ ~Free(z, x)
  <2>1. m.next[x] \in K
    BY <1>1 DEF Closed
  <2>2. m.next[x] # LIST_POISON1
    BY <1>1, <2>1, ListAssumption
  <2>3. x \in Heads \/ x \in Entries
    BY <1>1 DEF Objects
  <2>4. x \in Heads => x \in Heads \ q
    BY <1>1, <1>12
  <2>5. x \in Entries => x \in Heads \/ ~Free(ls, x)
    BY <2>2 DEF Book, Out
  <2> QED
    BY <1>11, <1>14, <2>3, <2>4, <2>5
<1>16. PICK g \in Heads \ q : \E i \in 0..Len(z[g]) : x = Pt(g, z[g], i)
  BY <1>13, <1>15, PointOf
<1>17. PICK i \in 0..Len(z[g]) : x = Pt(g, z[g], i)
  BY <1>16
<1>18. PICK n \in Objects : n = m.next[x] /\ n = Pt(g, z[g], i + 1)
  <2>1. m.next[x] = Pt(g, z[g], i + 1)
    BY <1>13, <1>16, <1>17 DEF Rep, Holds
  <2> QED
    BY <1>13, <2>1, PtObject
<1>19. Spliced(m, t[1], t[c], x, n, u)
  <2>1. t[1] \in Objects /\ t[c] \in Objects /\ x \in Objects
    BY <1>1, <1>3, <1>6, <1>7
  <2> QED
    BY <1>1, <1>9, <1>18, <2>1, JoinPtrs
<1>20. u \in Heap /\ \A y \in Objects : u.next[y] = IF y = t[c] THEN n ELSE IF y = x THEN t[1] ELSE m.next[y]
  BY <1>19 DEF Spliced
<1>21. NewSeq(z, t)
  <2>1. \A j, k \in 1..Len(t) : t[j] = t[k] => j = k
    BY <1>1, <1>2 DEF Apart
  <2> QED
    BY <1>3, <1>6, <1>11, <2>1 DEF NewSeq
<1>22. Joins(m, u, q, z, g, i, t)
  <2>1. c \in 1..c /\ 1 \in 1..c
    BY <1>3, <1>6
  <2>2. u.next[Pt(g, z[g], i)] = t[1]
    BY <1>1, <1>14, <1>17, <1>20, <2>1
  <2>3. ASSUME NEW j \in 1..(c - 1) PROVE u.next[t[j]] = t[j + 1]
    <3>1. j \in 1..c /\ j # c
      BY <1>3
    <3>2. t[j] # t[c]
      BY <1>3, <1>21, <2>1, <3>1 DEF NewSeq
    <3> QED
      BY <1>7, <1>9, <1>14, <1>20, <3>1, <3>2
  <2>4. u.next[t[c]] = Pt(g, z[g], i + 1)
    BY <1>7, <1>18, <1>20, <2>1
  <2>5. ASSUME NEW h \in Heads \ q, NEW k \in 0..Len(z[h]), h # g \/ k # i
        PROVE  u.next[Pt(h, z[h], k)] = m.next[Pt(h, z[h], k)]
    <3>1. Pt(h, z[h], k) # x
      BY <1>13, <1>17, <2>5, PtApart
    <3>2. PICK b \in Seq(Entries) : b = z[h]
      BY <1>13
    <3>3. k \in 0..(Len(b) + 1)
      BY <3>2
    <3>4. t[c] \in Entries /\ Free(z, t[c])
      BY <1>7, <1>11, <2>1
    <3>5. Pt(h, z[h], k) # t[c]
      BY <1>13, <3>2, <3>3, <3>4, FreePt
    <3>6. Pt(h, z[h], k) \in Objects
      BY <1>13, PtObject
    <3> QED
      BY <1>20, <3>1, <3>5, <3>6
  <2> QED
    BY <1>3, <2>2, <2>3, <2>4, <2>5 DEF Joins
<1>23. PICK r \in Seq(Entries) : PutIn(z[g], i, t, r) /\ A!After(z, t, x) = [z EXCEPT ![g] = r]
  BY <1>13, <1>17, AfterIs
<1>24. w = [z EXCEPT ![g] = r]
  BY <1>2, <1>10, <1>23
<1>25. HasGot(u, q, z, t, w)
  <2>1. PutIn(z[g], i, t, r) /\ g \notin q
    BY <1>16, <1>23
  <2>2. \A v : v = [z EXCEPT ![g] = r] => HasGot(u, q, z, t, v)
    BY <1>13, <1>21, <1>22, <2>1, InsertRep
  <2> QED
    BY <1>24, <2>2
<1>26. Rep(u, q, w) /\ \A y : Free(w, y) => Free(z, y) /\ \A k \in 1..c : t[k] # y
  BY <1>3, <1>25 DEF HasGot
<1>27. ASSUME NEW y \in Entries, Free(w, y) PROVE u.next[y] = y \/ u.next[y] = LIST_POISON1
  <2>1. Free(z, y) /\ Free(ls, y) /\ \A k \in 1..c : t[k] # y
    BY <1>11, <1>26, <1>27
  <2>2. PICK b \in Seq(Entries) : b = z[g]
    BY <1>13
  <2>3. i \in 0..(Len(b) + 1)
    BY <2>2
  <2>4. x # y
    BY <1>13, <1>17, <2>1, <2>2, <2>3, FreePt
  <2>5. c \in 1..c /\ y \in Objects
    BY <1>3, <1>6 DEF Objects
  <2>6. u.next[y] = m.next[y]
    BY <1>20, <2>1, <2>4, <2>5
  <2> QED
    BY <2>1, <2>6 DEF Book, Out
<1>28. w[l] = <<>>
  BY <1>12, <1>26 DEF Rep
<1> QED
  BY <1>12, <1>20, <1>26, <1>27, <1>28 DEF Out, Absorbed

\* The lists read along next are the ones the heap holds.
LEMMA ListsAre ==
  \A m, s, ls : Rep(m, s, ls) => [h \in Heads |-> IF h \in s THEN <<>> ELSE Walk(m, "next", h, h)] = ls
<1> SUFFICES ASSUME NEW m, NEW s, NEW ls, Rep(m, s, ls)
             PROVE  [h \in Heads |-> IF h \in s THEN <<>> ELSE Walk(m, "next", h, h)] = ls
  OBVIOUS
<1>0. ls \in [Heads -> Seq(Entries)] /\ Apart(ls)
  BY DEF Rep
<1>1. ASSUME NEW h \in Heads PROVE (IF h \in s THEN <<>> ELSE Walk(m, "next", h, h)) = ls[h]
  <2>1. CASE h \in s
    BY <2>1 DEF Rep
  <2>2. CASE h \notin s
    <3>1. ls[h] \in Seq(Entries) /\ Holds(m, h, ls[h])
      BY <1>0, <2>2 DEF Rep
    <3>2. Distinct(ls[h])
      BY <1>0 DEF Apart, Distinct
    <3>3. Walk(m, "next", h, h) = ls[h]
      BY <3>1, <3>2, HoldsIsWalk
    <3> QED
      BY <2>2, <3>3
  <2> QED
    BY <2>1, <2>2
<1> QED
  BY <1>0, <1>1

\* The invariant of the refinement.
RefInv == \E ls : Rep(mem, stale, ls) /\ Out(mem, ls)

\* A step of the heap is one of the lists, or changes none.
Refines == RefInv' /\ ([A!Next]_<<listsOf, call>>)

\* The lists of the heap.
LEMMA Now ==
  ASSUME IInv, NEW ls, Rep(mem, stale, ls), Out(mem, ls)
  PROVE  Book(mem, Linked, stale, ls) /\ listsOf = ls
BY ListsAre DEF IInv, Book, listsOf

\* The lists of the heap a step leaves.
LEMMA Then ==
  ASSUME NEW w, Rep(mem', stale', w), Out(mem', w)
  PROVE  RefInv' /\ listsOf' = w
BY ListsAre DEF RefInv, listsOf

\* What is linked and no loose entry is a head or an entry of a list.
LEMMA ListedIs ==
  ASSUME NEW m, NEW K, NEW s, NEW ls, Book(m, K, s, ls), NEW x \in K, x \in Heads \/ m.next[x] # x
  PROVE  x \in Heads \/ \E h \in Heads : A!Has(ls[h], x)
<1>1. /\ K \subseteq Objects /\ Closed(m, K) /\ ls \in [Heads -> Seq(Entries)]
  BY BookIs
<1>2. SUFFICES ASSUME x \notin Heads PROVE \E h \in Heads : A!Has(ls[h], x)
  OBVIOUS
<1>3. x \in Entries
  BY <1>1, <1>2 DEF Objects
<1>4. m.next[x] # LIST_POISON1
  BY <1>1, ListAssumption DEF Closed
<1>5. ~Free(ls, x)
  BY <1>2, <1>3, <1>4 DEF Book, Out
<1>6. PICK h \in Heads : \E i \in 1..Len(ls[h]) : ls[h][i] = x
  BY <1>5 DEF Free
<1>7. ls[h] \in Seq(Entries)
  BY <1>1
<1>8. DOMAIN ls[h] = 1..Len(ls[h])
  BY <1>7
<1> QED
  BY <1>6, <1>8 DEF A!Has

\* Listed, in terms of the heap.
LEMMA ListedMeans ==
  \A x \in Listed : x \in Linked /\ x \in Objects /\ x \notin Loose /\ (x \in Heads \/ mem.next[x] # x)
<1> SUFFICES ASSUME NEW x \in Listed
             PROVE  x \in Linked /\ x \in Objects /\ x \notin Loose /\ (x \in Heads \/ mem.next[x] # x)
  OBVIOUS
<1>1. x \in Linked /\ x \in Objects /\ x \notin Loose
  BY DEF Listed, Linked
<1>2. x \in Heads \/ x \in Entries
  BY <1>1 DEF Objects
<1> QED
  BY <1>1, <1>2 DEF Loose, list_empty

\* A call that puts e at x.
LEMMA PutRefines ==
  ASSUME IInv, NEW ls, Rep(mem, stale, ls), Out(mem, ls), NEW e \in Entries, NEW x \in Objects, e # x,
         x \in Linked, x \in Heads \/ mem.next[x] # x, NEW w, Rep(mem', stale', w), Out(mem', w),
         \/ call' = <<"after", e, x>> /\ w = A!After(A!Without(ls, e), <<e>>, x)
         \/ call' = <<"before", e, x>> /\ w = A!Before(A!Without(ls, e), <<e>>, x)
  PROVE  Refines
<1>1. Book(mem, Linked, stale, ls) /\ listsOf = ls
  BY Now
<1>2. RefInv' /\ listsOf' = w
  BY Then
<1>3. x \in Heads \/ \E h \in Heads : A!Has(ls[h], x)
  BY <1>1, ListedIs
<1>4. A!Put(e, x)
  BY <1>1, <1>2, <1>3 DEF A!Put
<1>5. A!Next
  BY <1>4 DEF A!Next, Objects
<1> QED
  BY <1>2, <1>5 DEF Refines

\* A call that deletes e.
LEMMA DeleteRefines ==
  ASSUME IInv, NEW ls, Rep(mem, stale, ls), Out(mem, ls), NEW e \in Entries \cap Linked, stale' = stale,
         call' = <<"delete", e>>, mem' = list_del(mem, e) \/ mem' = list_del_init(mem, e)
  PROVE  Refines
<1>1. Book(mem, Linked, stale, ls) /\ listsOf = ls
  BY Now
<1>2. PICK w : w = A!Without(ls, e)
  OBVIOUS
<1>3. PICK u : u = mem'
  OBVIOUS
<1>4. Rep(u, stale, w) /\ Out(u, w)
  BY <1>1, <1>2, <1>3, DeleteRep
<1>5. RefInv' /\ listsOf' = w
  <2>1. Rep(mem', stale', w) /\ Out(mem', w)
    BY <1>3, <1>4
  <2> QED
    BY <2>1, Then
<1>6. A!Delete(e)
  BY <1>1, <1>2, <1>5 DEF A!Delete
<1>7. A!Next
  BY <1>6 DEF A!Next
<1> QED
  BY <1>5, <1>7 DEF Refines

\* Add.
LEMMA AddRefines ==
  ASSUME IInv, RefInv, NEW e \in Entries, NEW x \in Objects, Add(e, x)
  PROVE  Refines
<1>1. PICK ls : Rep(mem, stale, ls) /\ Out(mem, ls)
  BY DEF RefInv
<1>2. Book(mem, Linked, stale, ls)
  BY <1>1, Now
<1>3. e \in Loose /\ x \in Listed /\ stale' = stale
  BY DEF Add
<1>4. mem.next[e] = e \/ mem.next[e] = LIST_POISON1
  BY <1>3 DEF Loose, Poisoned, list_empty
<1>5. x \in Linked /\ e # x /\ (x \in Heads \/ mem.next[x] # x)
  BY <1>3, ListedMeans
<1>6. PICK w : \/ /\ mem' = list_add(mem, e, x) /\ w = A!After(A!Without(ls, e), <<e>>, x)
                  /\ call' = <<"after", e, x>>
               \/ /\ mem' = list_add_tail(mem, e, x) /\ w = A!Before(A!Without(ls, e), <<e>>, x)
                  /\ call' = <<"before", e, x>>
  BY DEF Add, Calls
<1>7. PICK u : u = mem'
  OBVIOUS
<1>8. \/ u = list_add(mem, e, x) /\ w = A!After(A!Without(ls, e), <<e>>, x)
      \/ u = list_add_tail(mem, e, x) /\ w = A!Before(A!Without(ls, e), <<e>>, x)
  BY <1>6, <1>7
<1>9. Rep(u, stale, w) /\ Out(u, w)
  BY <1>2, <1>4, <1>5, <1>8, AddBook
<1>10. Rep(mem', stale', w) /\ Out(mem', w)
  BY <1>3, <1>7, <1>9
<1> QED
  BY <1>1, <1>5, <1>6, <1>10, PutRefines

\* list_move and list_move_tail.
LEMMA MovedRefines ==
  ASSUME IInv, RefInv, NEW e \in Entries \cap Linked, NEW x \in Objects, x \in Linked, e # x,
         x \in Heads \/ mem.next[x] # x, stale' = stale,
         \/ mem' = list_move(mem, e, x) /\ call' = <<"after", e, x>>
         \/ mem' = list_move_tail(mem, e, x) /\ call' = <<"before", e, x>>
  PROVE  Refines
<1>1. PICK ls : Rep(mem, stale, ls) /\ Out(mem, ls)
  BY DEF RefInv
<1>2. Book(mem, Linked, stale, ls)
  BY <1>1, Now
<1>6. PICK w : \/ /\ mem' = list_move(mem, e, x) /\ w = A!After(A!Without(ls, e), <<e>>, x)
                  /\ call' = <<"after", e, x>>
               \/ /\ mem' = list_move_tail(mem, e, x) /\ w = A!Before(A!Without(ls, e), <<e>>, x)
                  /\ call' = <<"before", e, x>>
  OBVIOUS
<1>7. PICK u : u = mem'
  OBVIOUS
<1>8. \/ u = list_move(mem, e, x) /\ w = A!After(A!Without(ls, e), <<e>>, x)
      \/ u = list_move_tail(mem, e, x) /\ w = A!Before(A!Without(ls, e), <<e>>, x)
  BY <1>6, <1>7
<1>9. Rep(u, stale, w) /\ Out(u, w)
  BY <1>2, <1>8, MoveBook
<1>10. Rep(mem', stale', w) /\ Out(mem', w)
  BY <1>7, <1>9
<1> QED
  BY <1>1, <1>6, <1>10, PutRefines

\* An empty list is a head that points to itself.
LEMMA EmptyList ==
  ASSUME NEW m, NEW s, NEW ls, Rep(m, s, ls), NEW l \in Heads \ s, m.next[l] = l
  PROVE  ls[l] = <<>>
<1>1. PICK t \in Seq(Entries) : t = ls[l]
  BY DEF Rep
<1>2. m.next[Pt(l, t, 0)] = Pt(l, t, 0 + 1)
  <2>1. 0 \in 0..Len(t) /\ Holds(m, l, t)
    BY <1>1 DEF Rep
  <2> QED
    BY <2>1 DEF Holds
<1>3. Pt(l, t, 0) = l
  BY DEF Pt
<1>4. Pt(l, t, 1) = l
  BY <1>2, <1>3
<1>5. Len(t) = 0
  <2>1. \A k \in 1..Len(t) : t[k] \in Entries
    BY ElementOfSeq
  <2>2. 1 \notin 1..Len(t)
    BY <1>4, <2>1, ListAssumption DEF Pt
  <2> QED
    BY <2>2
<1> QED
  BY <1>1, <1>5

\* Nothing put behind x changes nothing.
LEMMA PutNothing ==
  ASSUME NEW ls \in [Heads -> Seq(Entries)], Apart(ls), NEW g \in Heads, NEW i \in 0..Len(ls[g]),
         NEW x, x = Pt(g, ls[g], i)
  PROVE  A!After(ls, <<>>, x) = ls
<1>1. PICK t \in Seq(Entries) : t = <<>>
  BY EmptySeq
<1>2. Len(t) = 0
  BY <1>1
<1>3. PICK r \in Seq(Entries) : PutIn(ls[g], i, t, r) /\ A!After(ls, t, x) = [ls EXCEPT ![g] = r]
  BY AfterIs
<1>4. PICK a \in Seq(Entries) : a = ls[g]
  OBVIOUS
<1>5. PICK n \in Nat : n = Len(a)
  OBVIOUS
<1>6. i \in 0..n /\ Len(r) = n + 0 /\ (\A k \in 1..i : r[k] = a[k]) /\ \A k \in (i + 1)..n : r[0 + k] = a[k]
  BY <1>2, <1>3, <1>4, <1>5 DEF PutIn
<1>7. ASSUME NEW k \in 1..n PROVE r[k] = a[k]
  <2>1. k \in 1..i \/ (k \in (i + 1)..n /\ 0 + k = k)
    BY <1>6
  <2> QED
    BY <1>6, <2>1
<1>8. Len(r) = n
  BY <1>6
<1>9. r = a
  <2>1. Len(r) = Len(a) /\ \A k \in 1..Len(r) : r[k] = a[k]
    BY <1>5, <1>7, <1>8
  <2> QED
    BY <2>1, SeqEqual
<1> QED
  BY <1>1, <1>3, <1>4, <1>9

\* Splice.
LEMMA SpliceRefines ==
  ASSUME IInv, RefInv, NEW l \in Heads, NEW x \in Objects, Splice(l, x)
  PROVE  Refines
<1>1. PICK ls : Rep(mem, stale, ls) /\ Out(mem, ls)
  BY DEF RefInv
<1>2. Book(mem, Linked, stale, ls) /\ listsOf = ls
  BY <1>1, Now
<1>3. l \in Linked /\ x \in Listed /\ x # l /\ call' = <<"splice", l, x>>
  BY DEF Splice, Calls
<1>4. x \in Linked /\ (x \in Heads \/ mem.next[x] # x)
  BY <1>3, ListedMeans
<1>5. l \in Heads \ stale
  BY <1>3 DEF Linked
<1>6. ls \in [Heads -> Seq(Entries)] /\ Apart(ls) /\ Closed(mem, Linked) /\ Linked \subseteq Objects
  BY <1>2, BookIs
<1>7. ~A!Has(ls[l], x)
  <2>1. Walk(mem, "next", l, l) = ls[l]
    BY <1>2, <1>5 DEF listsOf
  <2>2. \A k \in DOMAIN ls[l] : ls[l][k] # x
    BY <2>1 DEF Splice
  <2> QED
    BY <2>2 DEF A!Has
<1>8. PICK w : w = A!After([ls EXCEPT ![l] = <<>>], ls[l], x)
  OBVIOUS
<1>9. Rep(mem', stale', w) /\ Out(mem', w)
  <2>1. CASE list_empty(mem, l)
    <3>1. mem' = mem /\ stale' = stale
      BY <2>1 DEF Splice, Calls, list_splice, list_splice_init
    <3>2. ls[l] = <<>>
      BY <1>1, <1>5, <2>1, EmptyList DEF list_empty
    <3>3. [ls EXCEPT ![l] = <<>>] = ls
      BY <1>6, <3>2
    <3>4. x \in Heads \ stale \/ ~Free(ls, x)
      <4>1. mem.next[x] \in Linked
        BY <1>4, <1>6 DEF Closed
      <4>2. mem.next[x] # LIST_POISON1
        BY <1>6, <4>1, ListAssumption
      <4>3. x \in Heads \/ x \in Entries
        BY DEF Objects
      <4> QED
        BY <1>1, <1>4, <4>2, <4>3 DEF Out, Linked
    <3>5. PICK g \in Heads \ stale : \E i \in 0..Len(ls[g]) : x = Pt(g, ls[g], i)
      BY <1>1, <3>4, PointOf
    <3>6. PICK i \in 0..Len(ls[g]) : x = Pt(g, ls[g], i)
      BY <3>5
    <3>7. A!After(ls, <<>>, x) = ls
      BY <1>6, <3>6, PutNothing
    <3> QED
      BY <1>1, <1>8, <3>1, <3>2, <3>3, <3>7
  <2>2. CASE ~list_empty(mem, l)
    <3>1. PICK u : u = list_join(mem, l, x)
      OBVIOUS
    <3>2. mem.next[l] # l
      BY <2>2 DEF list_empty
    <3>3. Rep(u, stale \cup {l}, w) /\ Out(u, w) /\ w[l] = <<>> /\ u \in Heap
      <4>1. l \in Linked \cap Heads
        BY <1>3
      <4>2. Absorbed(u, stale, l, w)
        BY <1>2, <1>3, <1>4, <1>7, <1>8, <3>1, <3>2, <4>1, JoinRep
      <4> QED
        BY <4>2 DEF Absorbed
    <3>4. CASE mem' = list_splice(mem, l, x) /\ stale' = stale \cup {l}
      <4>1. mem' = u
        BY <2>2, <3>1, <3>4 DEF list_splice
      <4> QED
        BY <3>3, <3>4, <4>1
    <3>5. CASE mem' = list_splice_init(mem, l, x) /\ stale' = stale
      <4>1. PICK v : v = INIT_LIST_HEAD(u, l)
        OBVIOUS
      <4>2. mem' = v
        BY <2>2, <3>1, <3>5, <4>1 DEF list_splice_init
      <4>3. l \in Objects /\ l \in Ptrs
        BY DEF Objects, Ptrs
      <4>4. Written(u, l, l, l, v)
        BY <3>3, <4>1, <4>3, WritePtrs DEF INIT_LIST_HEAD
      <4>5. Rep(v, (stale \cup {l}) \ {l}, w) /\ Out(v, w)
        BY <3>3, <4>4, InitRep
      <4>6. (stale \cup {l}) \ {l} = stale
        BY <1>5
      <4> QED
        BY <3>5, <4>2, <4>5, <4>6
    <3> QED
      BY <2>2, <3>4, <3>5 DEF Splice, Calls
  <2> QED
    BY <2>1, <2>2
<1>10. RefInv' /\ listsOf' = w
  BY <1>9, Then
<1>11. A!Splice(l, x)
  BY <1>2, <1>3, <1>7, <1>8, <1>10 DEF A!Splice
<1>12. A!Next
  BY <1>11 DEF A!Next, Objects
<1> QED
  BY <1>10, <1>12 DEF Refines

\* Reinit.
LEMMA ReinitRefines ==
  ASSUME IInv, RefInv, NEW h \in Heads, Reinit(h)
  PROVE  Refines
<1>1. PICK ls : Rep(mem, stale, ls) /\ Out(mem, ls)
  BY DEF RefInv
<1>2. listsOf = ls
  BY <1>1, Now
<1>3. h \in stale /\ mem' = INIT_LIST_HEAD(mem, h) /\ stale' = stale \ {h} /\ call' = call
  BY DEF Reinit, Calls
<1>4. PICK u : u = mem'
  OBVIOUS
<1>5. Written(mem, h, h, h, u)
  <2>1. mem \in Heap /\ h \in Objects /\ h \in Ptrs
    BY DEF IInv, Sound, Rings, Objects, Ptrs
  <2> QED
    BY <1>3, <1>4, <2>1, WritePtrs DEF INIT_LIST_HEAD
<1>6. ls[h] = <<>>
  BY <1>1, <1>3 DEF Rep
<1>7. Rep(u, stale \ {h}, ls) /\ Out(u, ls)
  BY <1>1, <1>5, <1>6, InitRep
<1>8. Rep(mem', stale', ls) /\ Out(mem', ls)
  BY <1>3, <1>4, <1>7
<1>9. RefInv' /\ listsOf' = ls
  BY <1>8, Then
<1> QED
  BY <1>2, <1>3, <1>9 DEF Refines

\* A step that leaves the heap alone.
LEMMA StutterRefines ==
  ASSUME RefInv, mem' = mem, stale' = stale, call' = call
  PROVE  Refines
<1>1. RefInv'
  BY DEF RefInv
<1>2. listsOf' = listsOf
  BY DEF listsOf
<1> QED
  BY <1>1, <1>2 DEF Refines

\* Every step.
LEMMA StepRefines == IInv /\ RefInv /\ [Next]_vars => Refines
<1> SUFFICES ASSUME IInv, RefInv, [Next]_vars PROVE Refines
  OBVIOUS
<1>1. ASSUME NEW e \in Entries, NEW x \in Objects, Add(e, x) PROVE Refines
  BY <1>1, AddRefines
<1>2. ASSUME NEW e \in Entries, NEW x \in Objects, Move(e, x) PROVE Refines
  <2>1. e \in Linked /\ x \in Listed /\ e # x /\ stale' = stale
    BY <1>2 DEF Move
  <2>2. x \in Linked /\ (x \in Heads \/ mem.next[x] # x)
    BY <2>1, ListedMeans
  <2>3. \/ mem' = list_move(mem, e, x) /\ call' = <<"after", e, x>>
        \/ mem' = list_move_tail(mem, e, x) /\ call' = <<"before", e, x>>
    BY <1>2 DEF Move, Calls
  <2> QED
    BY <2>1, <2>2, <2>3, MovedRefines
<1>3. ASSUME NEW e \in Entries, Delete(e) PROVE Refines
  <2>1. PICK ls : Rep(mem, stale, ls) /\ Out(mem, ls)
    BY DEF RefInv
  <2>2. /\ e \in Entries \cap Linked /\ stale' = stale /\ call' = <<"delete", e>>
        /\ mem' = list_del(mem, e) \/ mem' = list_del_init(mem, e)
    BY <1>3 DEF Delete, Calls
  <2> QED
    BY <2>1, <2>2, DeleteRefines
<1>4. ASSUME NEW h \in Heads, NEW x \in Objects, Splice(h, x) PROVE Refines
  BY <1>4, SpliceRefines
<1>5. ASSUME NEW h \in Heads, Reinit(h) PROVE Refines
  BY <1>5, ReinitRefines
<1>6. ASSUME NEW h \in Heads, Loop(h) PROVE Refines
  <2>1. mem' = mem /\ stale' = stale /\ call' = call
    BY <1>6 DEF Loop, list_for_each, list_for_each_prev, list_for_each_safe, StartLoop,
       list_for_each_entry_safe_reverse, list_for_each_entry_continue, list_for_each_entry_safe_continue
  <2> QED
    BY <2>1, StutterRefines
<1>7. ASSUME Look \/ EndLoop \/ UNCHANGED vars PROVE Refines
  <2>1. mem' = mem /\ stale' = stale /\ call' = call
    BY <1>7 DEF Look, Body, EndLoop, vars
  <2> QED
    BY <2>1, StutterRefines
<1>8. ASSUME ~Idle, it.pos # it.head PROVE it.pos \in Entries \cap Linked
  <2>1. \E R \in SUBSET Linked : it.pos \in R /\ it.pos \in Entries
    BY <1>8, AtEntry
  <2> QED
    BY <2>1
<1>9. ASSUME Remove PROVE Refines
  <2>1. PICK ls : Rep(mem, stale, ls) /\ Out(mem, ls)
    BY DEF RefInv
  <2>2. /\ ~Idle /\ it.pos # it.head /\ stale' = stale /\ call' = <<"delete", it.pos>>
        /\ mem' = list_del(mem, it.pos) \/ mem' = list_del_init(mem, it.pos)
    BY <1>9 DEF Remove, Body
  <2>3. PICK e \in Entries \cap Linked : e = it.pos
    BY <1>8, <2>2
  <2>4. call' = <<"delete", e>> /\ (mem' = list_del(mem, e) \/ mem' = list_del_init(mem, e))
    BY <2>2, <2>3
  <2> QED
    BY <2>1, <2>2, <2>4, DeleteRefines
<1>10. ASSUME NEW h \in Heads, MoveAway(h) PROVE Refines
  <2>1. /\ ~Idle /\ it.pos # it.head /\ stale' = stale /\ h \in Linked
        /\ \/ mem' = list_move(mem, it.pos, h) /\ call' = <<"after", it.pos, h>>
           \/ mem' = list_move_tail(mem, it.pos, h) /\ call' = <<"before", it.pos, h>>
    BY <1>10 DEF MoveAway, Body
  <2>2. PICK e \in Entries \cap Linked : e = it.pos
    BY <1>8, <2>1
  <2>3. \/ mem' = list_move(mem, e, h) /\ call' = <<"after", e, h>>
        \/ mem' = list_move_tail(mem, e, h) /\ call' = <<"before", e, h>>
    BY <2>1, <2>2
  <2>4. h \in Objects /\ e # h
    BY ListAssumption DEF Objects
  <2> QED
    BY <2>1, <2>3, <2>4, MovedRefines
<1> QED
  BY <1>1, <1>2, <1>3, <1>4, <1>5, <1>6, <1>7, <1>9, <1>10 DEF Next

\* At the start every list is empty.
LEMMA InitRefines == Init => RefInv /\ A!Init
<1> SUFFICES ASSUME Init PROVE RefInv /\ A!Init
  OBVIOUS
<1>1. PICK ls : ls = [h \in Heads |-> <<>>]
  OBVIOUS
<1>2. ls \in [Heads -> Seq(Entries)] /\ \A h \in Heads : ls[h] = <<>>
  BY <1>1
<1>3. Len(<<>>) = 0
  OBVIOUS
<1>4. Apart(ls)
  BY <1>2, <1>3 DEF Apart
<1>5. /\ stale = {} /\ call = <<>> /\ (\A x \in Heads : mem.next[x] = x)
      /\ \A x \in Entries : mem.next[x] = LIST_POISON1
  BY ListAssumption DEF Init, Objects
<1>6. ASSUME NEW h \in Heads PROVE Holds(mem, h, ls[h])
  <2>1. \A k \in Int : Pt(h, <<>>, k) = h
    BY <1>3 DEF Pt
  <2> QED
    BY <1>2, <1>3, <1>5, <2>1 DEF Holds
<1>7. Rep(mem, stale, ls) /\ Out(mem, ls)
  BY <1>2, <1>4, <1>5, <1>6 DEF Rep, Out
<1>8. listsOf = ls
  BY <1>7, ListsAre DEF listsOf
<1> QED
  BY <1>1, <1>5, <1>7, <1>8 DEF RefInv, A!Init

\* The pointers implement sequences: for any number of heads and entries,
\* every operation of list.h, and every removal and move inside a safe loop,
\* changes the lists as an abstract insertion, removal or concatenation does,
\* and nothing else changes them.
THEOREM ListsImplemented == Spec => ImplementsLists
<1>1. Init => A!Init /\ RefInv
  BY InitRefines
<1>2. IInv /\ RefInv /\ [Next]_vars => RefInv' /\ [A!Next]_<<listsOf, call>>
  BY StepRefines DEF Refines
<1> QED
  BY <1>1, <1>2, InitInv, InvStep, PTL DEF Spec, ImplementsLists, A!Spec
=============================================================================
