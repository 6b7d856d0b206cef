------------------------ MODULE QueueLifecycleProofs ------------------------
(***************************************************************************)
(* The life of a queue: what the constructors and the destructor leave on  *)
(* the heap, for all arguments, and the walk of the write pointer through  *)
(* the buffer, for arguments that fit 32 bits and a buffer that is as long *)
(* as the queue (Fits).  Without Fits the walk leaves the buffer, as the   *)
(* run queue_static_small shows.                                           *)
(***************************************************************************)
EXTENDS QueueLifecycle, TLAPS

-----------------------------------------------------------------------------
\* Whatever fails, whatever the arguments and however wide they are, queue_create,
\* queue_create_static and queue_destroy leave on the heap what the handle owns.
THEOREM NothingLeaks == Spec => []HeapIsOwned
<1> USE DEF HeapIsOwned, NULL
<1>1. Init => HeapIsOwned
  BY DEF Init
<1>2. HeapIsOwned /\ [Next]_vars => HeapIsOwned'
  <2> SUFFICES ASSUME HeapIsOwned, [Next]_vars PROVE HeapIsOwned'
    OBVIOUS
  <2>0. ASSUME NEW n \in Nmembs, NEW s \in Sizes
        PROVE  /\ queue_setup(n, s, 0) # NULL /\ queue_setup(n, s, 0).statically_allocated = 0
               /\ queue_setup(n, s, 1) # NULL /\ queue_setup(n, s, 1).statically_allocated = 1
    <3>1. n % U32Mod >= 0
      BY LifecycleAssumption DEF LifecycleAssumption
    <3> QED
      BY <3>1 DEF queue_setup
  <2>1. ASSUME NEW n \in Nmembs, NEW s \in Sizes, queue_create(n, s) PROVE HeapIsOwned'
    BY <2>0, <2>1 DEF queue_create, Fail, Fresh
  <2>2. ASSUME NEW n \in Nmembs, NEW s \in Sizes, NEW c, queue_create_static(c, n, s)
        PROVE  HeapIsOwned'
    BY <2>0, <2>2 DEF queue_create_static, Fail, Fresh
  <2>3. ASSUME Write PROVE HeapIsOwned'
    BY <2>3 DEF Write
  <2>4. ASSUME queue_destroy PROVE HeapIsOwned'
    BY <2>4 DEF queue_destroy, Fresh
  <2>5. ASSUME UNCHANGED vars PROVE HeapIsOwned'
    BY <2>5 DEF vars
  <2> QED
    BY <2>1, <2>2, <2>3, <2>4, <2>5 DEF Next
<1> QED
  BY <1>1, <1>2, PTL DEF Spec
-----------------------------------------------------------------------------
(* The walk of the write pointer.                                          *)

\* Every queue fits its buffer and 32 bits: a static buffer has the length
\* nmemb * size, and no product wraps.  Nothing in lib/queue.c ensures either.
Fits == ExactBuffers = TRUE /\ \A n \in Nmembs, s \in Sizes : n * s < U32Mod

\* The queue as it was asked for, and the pointer at one of its elements.
WalkInv ==
  q # NULL =>
    /\ q.nmemb \in Nat \ {0} /\ q.size \in Nat \ {0}
    /\ q.p_tail = (q.nmemb - 1) * q.size /\ bytes = q.nmemb * q.size
    /\ writes \in 0..(q.nmemb - 1) /\ p_write = writes * q.size

\* Elements lie one behind the other: the a-th of n ends within n * s bytes, and
\* only the last one starts at p_tail.
LEMMA Elements ==
  ASSUME NEW n \in Nat \ {0}, NEW s \in Nat \ {0}, NEW a \in 0..(n - 1)
  PROVE  /\ a * s + s <= n * s /\ a * s \in Nat
         /\ a * s = (n - 1) * s <=> a = n - 1
         /\ a * s + s = (a + 1) * s
OBVIOUS

\* A value below the modulus is what it is.
LEMMA BelowModulus ==
  ASSUME NEW M \in Nat, NEW x \in Nat, x < M
  PROVE  x % M = x
OBVIOUS

\* So is every argument of a queue that fits.
LEMMA NoWrap ==
  ASSUME Fits, NEW n \in Nmembs, NEW s \in Sizes, n # 0, s # 0, NEW static
  PROVE  /\ Bytes(n, s) = n * s /\ n \in Nat \ {0} /\ s \in Nat \ {0}
         /\ queue_setup(n, s, static) =
              [nmemb |-> n, size |-> s, p_tail |-> (n - 1) * s, statically_allocated |-> static]
<1>1. n \in Nat \ {0} /\ s \in Nat \ {0} /\ n * s < U32Mod /\ U32Mod \in Nat /\ SizeMod \in Nat
  BY LifecycleAssumption DEF LifecycleAssumption, Fits
<1>2. n * s \in Nat /\ (n - 1) * s \in Nat /\ n <= n * s /\ s <= n * s /\ (n - 1) * s <= n * s
  BY <1>1
<1>3. n < U32Mod /\ s < U32Mod /\ (n - 1) * s < U32Mod /\ n * s < SizeMod
  BY <1>1, <1>2, LifecycleAssumption DEF LifecycleAssumption
<1>4. n % U32Mod = n /\ s % U32Mod = s /\ ((n - 1) * s) % U32Mod = (n - 1) * s
      /\ (n * s) % SizeMod = n * s
  BY <1>1, <1>2, <1>3, BelowModulus
<1> QED
  BY <1>1, <1>4 DEF Bytes, queue_setup

\* Every write moves the pointer to the next element, or from the last to p_head.
LEMMA WalkStep ==
  ASSUME Fits, WalkInv, [Next]_vars
  PROVE  WalkInv'
<1>1. ASSUME NEW n \in Nmembs, NEW s \in Sizes, n # 0, s # 0, NEW static,
             Fresh(queue_setup(n, s, static), n * s)
      PROVE  WalkInv'
  BY <1>1, NoWrap DEF Fresh, WalkInv
<1>2. ASSUME NEW e, Fail(e) PROVE WalkInv'
  BY <1>2 DEF Fail, WalkInv
<1>3. ASSUME NEW n \in Nmembs, NEW s \in Sizes, queue_create(n, s) PROVE WalkInv'
  BY <1>1, <1>2, <1>3, NoWrap DEF queue_create, WalkInv
<1>4. ASSUME NEW n \in Nmembs, NEW s \in Sizes, queue_create_static(Bytes(n, s), n, s) PROVE WalkInv'
  BY <1>1, <1>2, <1>4, NoWrap DEF queue_create_static
<1>5. ASSUME Write PROVE WalkInv'
  <2>1. /\ q # NULL /\ q' = q /\ bytes' = bytes
        /\ p_write' = IF p_write = q.p_tail THEN 0 ELSE p_write + q.size
        /\ writes' = (writes + 1) % q.nmemb
    BY <1>5 DEF Write
  <2>2. /\ q.nmemb \in Nat \ {0} /\ q.size \in Nat \ {0} /\ writes \in 0..(q.nmemb - 1)
        /\ q.p_tail = (q.nmemb - 1) * q.size /\ bytes = q.nmemb * q.size
        /\ p_write = writes * q.size
    BY <2>1 DEF WalkInv
  <2>3. /\ p_write = q.p_tail <=> writes = q.nmemb - 1
        /\ p_write + q.size = (writes + 1) * q.size
    BY <2>2, Elements
  <2>4. CASE writes = q.nmemb - 1
    <3>1. writes' = 0 /\ p_write' = 0 /\ 0 * q.size = 0
      BY <2>1, <2>2, <2>3, <2>4
    <3> QED
      BY <2>1, <2>2, <3>1 DEF WalkInv
  <2>5. CASE writes # q.nmemb - 1
    <3>1. writes + 1 \in Nat /\ writes + 1 < q.nmemb
      BY <2>2, <2>5
    <3>2. writes' = writes + 1
      BY <2>1, <2>2, <3>1, BelowModulus
    <3>3. p_write' = (writes + 1) * q.size
      BY <2>1, <2>3, <2>5
    <3> QED
      BY <2>1, <2>2, <3>1, <3>2, <3>3 DEF WalkInv
  <2> QED
    BY <2>4, <2>5
<1>6. ASSUME queue_destroy PROVE WalkInv'
  BY <1>6 DEF queue_destroy, Fresh, WalkInv
<1>7. ASSUME UNCHANGED vars PROVE WalkInv'
  BY <1>7 DEF vars, WalkInv
<1> QED
  BY <1>3, <1>4, <1>5, <1>6, <1>7 DEF Next, Fits

\* As long as everything fits, no element is written outside the buffer.
THEOREM WritesStayInside ==
  ASSUME Fits PROVE Spec => []WriteInBuffer
<1>1. Init => WalkInv
  BY DEF Init, WalkInv
<1>2. WalkInv /\ [Next]_vars => WalkInv'
  BY WalkStep
<1>3. WalkInv => WriteInBuffer
  BY Elements DEF WalkInv, WriteInBuffer
<1> QED
  BY <1>1, <1>2, <1>3, PTL DEF Spec

\* As long as everything fits, the pointer is back at p_head after exactly nmemb
\* elements, and counting elements up to nmemb is walking the ring once.
THEOREM RingIsExact ==
  ASSUME Fits PROVE Spec => []RingHasNmembSlots
<1>1. Init => WalkInv
  BY DEF Init, WalkInv
<1>2. WalkInv /\ [Next]_vars => WalkInv'
  BY WalkStep
<1>3. WalkInv => RingHasNmembSlots
  BY DEF WalkInv, RingHasNmembSlots
<1> QED
  BY <1>1, <1>2, <1>3, PTL DEF Spec
=============================================================================
