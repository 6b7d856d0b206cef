--------------------------- MODULE QueueLifecycle ---------------------------
(***************************************************************************)
(* A queue from queue_create or queue_create_static to queue_destroy, and  *)
(* the walk of its write pointer, in bytes from p_head.  calloc may fail   *)
(* at either allocation.  size_t holds values below SizeMod and uint32_t,  *)
(* the parameter type of queue_setup, values below U32Mod.                 *)
(***************************************************************************)
EXTENDS Integers

CONSTANTS SizeMod, U32Mod, Nmembs, Sizes, Counts, ExactBuffers

ASSUME LifecycleAssumption ==
  /\ SizeMod \in Nat \ {0} /\ U32Mod \in Nat \ {0} /\ U32Mod <= SizeMod
  /\ Nmembs \subseteq 0..(SizeMod - 1) /\ Sizes \subseteq 0..(SizeMod - 1)
  /\ Counts \subseteq 0..(SizeMod - 1) /\ ExactBuffers \in BOOLEAN

VARIABLES
  q,        \* the handle; NULL is a record queue_setup never makes
  heap,     \* blocks calloc returned and free has not had back
  bytes,    \* length of the buffer p_head points to
  p_write,  \* in bytes from p_head
  writes,   \* elements written, modulo nmemb
  errno
vars == <<q, heap, bytes, p_write, writes, errno>>

NULL == [nmemb |-> -1, size |-> 0, p_tail |-> 0, statically_allocated |-> 0]

Bytes(nmemb, size) == (nmemb * size) % SizeMod

\* queue_setup: its parameters and the offset of p_tail are 32 bits wide.
queue_setup_OneTooFar(nmemb, size, static) ==
  [nmemb |-> nmemb % U32Mod, size |-> size % U32Mod,
   p_tail |-> ((nmemb % U32Mod) * (size % U32Mod)) % U32Mod,
   statically_allocated |-> static]
queue_setup(nmemb, size, static) ==
  [nmemb |-> nmemb % U32Mod, size |-> size % U32Mod,
   p_tail |-> (((nmemb % U32Mod) - 1) * (size % U32Mod)) % U32Mod,
   statically_allocated |-> static]

Fresh(handle, n) ==
  /\ q' = handle /\ bytes' = n
  /\ p_write' = 0 /\ writes' = 0

Fail(e) == errno' = e /\ UNCHANGED <<q, heap, bytes, p_write, writes>>
-----------------------------------------------------------------------------
Init ==
  /\ q = NULL /\ heap = {} /\ bytes = 0
  /\ p_write = 0 /\ writes = 0 /\ errno = "none"

queue_create_LeaksBuffer(nmemb, size) ==
  /\ q = NULL
  /\ \/ (nmemb = 0 \/ size = 0) /\ Fail("EINVAL")
     \/ /\ nmemb # 0 /\ size # 0
        /\ \/ Fail("ENOMEM")
           \/ heap' = heap \cup {"buffer"} /\ errno' = "ENOMEM"
              /\ UNCHANGED <<q, bytes, p_write, writes>>
           \/ /\ heap' = heap \cup {"buffer", "queue"}
              /\ Fresh(queue_setup(nmemb, size, 0), Bytes(nmemb, size))
              /\ UNCHANGED errno
\* The second ENOMEM is queue_setup's: the buffer is freed again.
queue_create(nmemb, size) ==
  /\ q = NULL
  /\ \/ (nmemb = 0 \/ size = 0) /\ Fail("EINVAL")
     \/ /\ nmemb # 0 /\ size # 0
        /\ \/ Fail("ENOMEM")
           \/ heap' = (heap \cup {"buffer"}) \ {"buffer"} /\ errno' = "ENOMEM"
              /\ UNCHANGED <<q, bytes, p_write, writes>>
           \/ /\ heap' = heap \cup {"buffer", "queue"}
              /\ Fresh(queue_setup(nmemb, size, 0), Bytes(nmemb, size))
              /\ UNCHANGED errno

queue_create_static(count, nmemb, size) ==
  /\ q = NULL
  /\ \/ /\ nmemb = 0 \/ size = 0 \/ Bytes(nmemb, size) < count
        /\ Fail("EINVAL")
     \/ /\ nmemb # 0 /\ size # 0 /\ ~(Bytes(nmemb, size) < count)
        /\ \/ Fail("ENOMEM")
           \/ /\ heap' = heap \cup {"queue"}
              /\ Fresh(queue_setup(nmemb, size, 1), count)
              /\ UNCHANGED errno

\* The pointer part of queue_send; a queue of no elements is always full.
Write_PastTail ==
  /\ q # NULL /\ q.nmemb # 0
  /\ p_write' = IF p_write > q.p_tail THEN 0 ELSE p_write + q.size
  /\ writes' = (writes + 1) % q.nmemb
  /\ UNCHANGED <<q, heap, bytes, errno>>
Write ==
  /\ q # NULL /\ q.nmemb # 0
  /\ p_write' = IF p_write = q.p_tail THEN 0 ELSE p_write + q.size
  /\ writes' = (writes + 1) % q.nmemb
  /\ UNCHANGED <<q, heap, bytes, errno>>

queue_destroy ==
  /\ q # NULL
  /\ heap' = heap \ (IF q.statically_allocated = 0 THEN {"buffer", "queue"} ELSE {"queue"})
  /\ Fresh(NULL, 0)
  /\ UNCHANGED errno

Next ==
  \/ \E n \in Nmembs, s \in Sizes : queue_create(n, s)
  \/ \E n \in Nmembs, s \in Sizes :
       \E c \in IF ExactBuffers THEN {Bytes(n, s)} ELSE Counts : queue_create_static(c, n, s)
  \/ Write \/ queue_destroy

Spec == Init /\ [][Next]_vars
-----------------------------------------------------------------------------
(* Properties                                                              *)

\* The heap holds what the handle owns and nothing else: a create that
\* fails half way frees its buffer, destroy frees everything, and a static
\* buffer is never among what is freed.
HeapIsOwned ==
  heap = IF q = NULL THEN {}
         ELSE IF q.statically_allocated = 0 THEN {"buffer", "queue"} ELSE {"queue"}

\* There is room in the buffer for the element at the write pointer.
WriteInBuffer == q # NULL => p_write + q.size <= bytes

\* The pointer comes back to p_head after exactly nmemb elements, which is
\* what lets avail, counted up to nmemb, stand for the distance walked.
RingHasNmembSlots == q # NULL => p_write = writes * q.size
=============================================================================
