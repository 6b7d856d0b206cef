# Verification of ohmylib

TLA+ models of the parts of ohmylib that keep state, TLC configurations that
check them on small instances, and TLAPS proofs of the main results for every
instance. Paths below are relative to the repository root, which is `src/` in
`PROJECT.json`.

## The system

ohmylib is a small C library (`lib/`, `includes/`) with example programs
(`examples/`, `posix/`).

| component | state | operations | hard behaviour |
|---|---|---|---|
| queue (`lib/queue.c`) | mutex, three condition variables, ring of `nmemb` elements, `avail`, `p_write`, `p_read` | `queue_send`, `queue_recv` (with a timeout), `queue_is_empty`, `queue_is_full`, `queue_space_available`, `queue_empty_wait`, create, create_static, destroy | threads, wakeups, timeouts, cancellation, wrap-around, allocation failure |
| queue_multithreaded (`examples/`) | main and two readers on one queue | fill, send, drain, cancel, join | draining races the readers |
| dictionary (`lib/dictionary.c`) | array of entries, `count`, `size`, owned strings | create, add, get, del, dump, destroy | holes after deletes, colliding hashes, growth, failing `calloc`/`strdup` |
| cvector (`lib/cvector.c`) | a block of pointers ended by NULL | `pushv`, `popv`, `popv_front`, `countv`, `freev` | no stored length; the terminator must survive |
| list (`includes/list.h`) | next/prev pointers in every entry, a head per list | add, delete, move, splice, the loop macros | pointer assignments on objects that may coincide, bodies that remove the entry they are at |
| timer (`posix/timer`) | POSIX timer, stored remaining time, terminal flags | keys p, r, i, o, e, x, h, q | expiry between any two keys, uninitialised or stale stored time |
| TCP echo (`posix/tcp_server`, `posix/tcp_client`) | listening socket, a thread, a buffer and a stream per client | connect, send, poll with timeout, receive, echo, close | late echoes, short reads, peers that close or reset, a server that goes away |
| UDP echo (`posix/udp_server`, `posix/udp_client`) | `peer_addr` and `buf` of each program, datagrams on their way | send, poll with timeout, receive, echo | loss, duplication, reordering, strangers |
| module (`posix/module`) | sections of init and exit functions | `do_initcalls`, `do_exitcalls` | the linker chooses the order |
| pipe (`posix/pipe`) | a bounded pipe, stdio buffers, the count of chunks | source, sink | the stream is cut anywhere, the end of file |
| timestamp (`lib/timestamp.c`) | a silent timer that counts down | create, reset, elapsed, destroy | borrow between seconds and nanoseconds, unsigned arithmetic |
| printlog (`lib/printlog.c`) | two pairs of pointer and counter | dump, hexdump and their stream variants | the last, partial row |
| cstring, lfsr, sysreg | a position in a string; a register; open files | `substr`/`iter_substr`; `lfsr`; info and scratch | empty pieces; the period; failing reads |
| memstream, gpiod, i2cdev | none of their own | calls into libc, libgpiod, the kernel | |

Components share nothing but the queue inside one process: its callers meet at
the mutex and at the three condition variables (`cond_write`: room,
`cond_read`: data, `cond_empty`: drained). What makes each component correct:

* queue: every call takes effect atomically on a FIFO; no lost wakeup; no
  thread keeps the mutex; every call returns by its deadline; the deadline is
  the one asked for; the ring stays inside its buffer.
* dictionary: it is a map; `count` is right; strings are neither leaked nor
  freed twice.
* cvector: it is a sequence with two ends; every walk ends inside the block.
* list: the rings stay rings, whichever objects a call names twice; a loop
  visits what was ahead of it, each entry once.
* echo: on an open connection no byte is lost or swapped; an echo goes to its
  author; a client ends whatever the other side does.
* timer, timestamp: no countdown is lost or stretched; the time shown is right.
* the rest: exact output, order and count of calls; what is opened is closed.

## Modules

| module | models | composed with |
|---|---|---|
| `Queue` | `queue_send`, `queue_recv`, the queries, their waits, cancellation | refines `QueueFifo` |
| `QueueFifo` | what the queue promises: a bounded FIFO with atomic calls | |
| `QueueDrain` | `queue_empty_wait` and the queue_multithreaded program | extends `Queue`, refines `QueueFifo` |
| `QueueDeadline` | `queue_ts_add` and a wait that ends by its deadline | |
| `QueueLifecycle` | create, create_static, destroy, the pointer's walk in bytes | |
| `Dictionary` | `lib/dictionary.c` | refines `DictionaryMap` |
| `DictionaryMap` | a partial map whose adds may fail, and what a failed `strdup` may cost | |
| `Cvector` | `lib/cvector.c`, used as examples/vector uses it | refines `Deque` |
| `Deque` | a sequence pushed at the back, popped at both ends | |
| `LinkedList` | `includes/list.h` on a heap | refines `Lists` |
| `Lists` | sequences of entries | |
| `EchoTcp` | server threads and clients over byte streams | |
| `EchoUdp` | server and clients over datagrams | |
| `Sockets` | how the four echo programs get and close their socket, and the descriptors `tcp_server` accepts | precedes `EchoTcp`, `EchoUdp` |
| `Timer`, `Timestamp`, `ModuleCalls`, `Pipe`, `Printlog`, `Sysreg`, `Lfsr`, `Substr` | one program or function each | |
| `Programs` | the programs above whose state is a record, but for `Lfsr`, side by side | instantiates them with one variable `st` |
| `QueueProofs`, `QueueDeadlineProofs`, `QueueLifecycleProofs`, `DictionaryProofs`, `LinkedListProofs`, `EchoTcpProofs`, `EchoUdpProofs` | theorems | each extends the module it is named after |
| `ProgramProofs` | theorems | extends `Programs` and `Cvector` |
| `MCQueue`, `MCQueueDrain`, `MCQueueDeadline`, `MCDictionary`, `MCLinkedList`, `MCEchoTcp`, `MCEchoUdp` | instances for TLC | |
| `MCPrograms` | one instance for the parts that share nothing | extends `Cvector` and `Programs`, instantiates `Lfsr` |

Definitions whose name has a suffix after the name of another one
(`NextSlot_NoWrap`, `Pause_StoresZero`) are plausible bugs of that definition.
They are used by no specification; `PROJECT.json` names the property each one
breaks, which shows that the property depends on the code.

### Queue

A thread's `pc` says where it is inside a call. The steps of a call are the
accesses to shared state in the order of the code:

```
idle -> lock -> check -> copy -> advance -> load -> store -> signal -> unlock -> idle
                  |        ^
                  v        |
                loop <-> wait -> parked -> relock -> loop
                  |
                result -> copy | fail -> refuse | refuse
```

`check` is the test in `queue_send`/`queue_recv`, `loop` to `result` is the wait
function, `copy` the memcpy, `advance` the pointer with its wrap, `load` and
`store` the two halves of `avail++`/`avail--`, `signal` the broadcast. Other
threads may run between any two steps, so mutual exclusion is a result and not
an assumption. `p_write` and `p_read` count elements from `p_head`; bytes are
the business of `QueueLifecycle`. `avail` wraps at `SizeMax` as a `size_t` does.

A deadline is a kind: `future` may expire at any time (`Expire`), `past` has,
`invalid` makes `pthread_cond_timedwait` return EINVAL at once. A timeout of
zero is a deadline that expires at once. `Spurious` is the wakeup POSIX allows.
`Cancel` is `pthread_cancel`, which may come at any time; it acts at a
cancellation point: between calls, or inside `pthread_cond_timedwait` were it not
for `pthread_setcancelstate` (`CancelDisabled`).

The handle is not NULL: the early returns for a NULL handle touch no state.

### QueueDrain

`queue_empty_wait` reuses `Loop`, `Wait`, `Timeout` and `Relock` with the condition
"not empty", but starts without the mutex. Waiting on, or unlocking, a mutex
one does not own is undefined in POSIX; a default mutex of glibc has no owner
check and is released whoever holds it, and that is what the model does. The
rest is the program: the readers start once the queue is full, main sends as
much again, loops on `queue_empty_wait`, asks for the space to print it, which is a
query like any other and waits for the mutex (`CallSpace`), then cancels and joins
each reader and returns (`MainReturns`). `status` is that of the process. A failing
`pthread_create` ends it at once with the readers it has (`CreateFails`).
`DrainProgram` says so of the constants: main is the only sender, all others receive,
and the messages are twice the capacity.

### QueueDeadline

The constants 1000 and 1000000 are parameters, so that a whole second can be
enumerated. `/` and `%` truncate towards zero as in C. The clock ticks while the
call computes its deadline and while it waits.

### QueueLifecycle

One queue at a time, created by either constructor with any of the sizes given,
written to any number of times if it has elements, destroyed. `size_t` and `uint32_t`
are moduli, so the 32-bit parameters and product of `queue_setup` are as in the code.

### Dictionary

Entries are records in an array indexed from 0; keys and values are model
values and `Hash` stands for `dictionary_hash`, with two keys colliding in the
instances. `calloc` and `strdup` may fail at every call. Two history variables
remember it: `failed`, the strings the last call could not copy, which the
abstract map needs to say what that call may have lost, and `keyless`, that some
insertion has lost its key. `strings` counts live results of strdup. `RefreshNull` is `strdup(NULL)`: the
process dies and the behaviour ends. The last `return -1` of `dictionary_add` is
kept in `Insert` although `CountCoversEntries` shows that it cannot be reached.
`dictionary_destroy` does not free the array; only strings are counted. `Aligned` is
the rounding of `ALIGN`; that its 32-bit mask would cut a size of 2^32 or more
(`lib/dictionary.c:8`, `:100`) is left out.

### Cvector

The block is a sequence of cells that may have stale NULLs behind the
terminator; `pushv` reallocates to two cells more than are in use, which may
shrink it. Objects are freed by the caller when popped and by `freev` otherwise.

### LinkedList

A heap is a record of the functions next and prev, and every operation of
`list.h` is an operator from heap to heap that makes the code's assignments in
the code's order, because its arguments may be the same object (a list of one
entry, an entry moved next to itself). The actions are the calls a program may
make; the module's header states the rules it keeps. A loop is state: `it` holds
its position and, in the safe variants, the successor fetched before the body
runs; bodies look at, delete, reinitialise or move away the current entry. The
mapping to `Lists` reads each list along next. `hlist` is disabled by `#if 0`, and
`list_for_each_prev` calls a `prefetch` that does not exist; it is modelled
without it.

### EchoTcp

Each client has a connection, `c2s` and `s2c` are the bytes sent and not read. A
reader may find any part of them, up to `BufSize`. Bytes are numbered by their
sender, so loss, repetition and swaps show. Closing follows Linux: a FIN, or a
reset where unread bytes are thrown away; bytes for a closed socket come back as
a reset; the next send after the error has been reported raises SIGPIPE, for
which the server has no handler, and the process is gone (`srv = "killed"`).
`ThreadEof` is `recv` returning 0 for ever: the loop continues. `Accept` ignores the
result of `pthread_create` as `tcp_server` does. Arguments are assumed to fit the
kernel's socket buffers, so that send does not block.

### EchoUdp

The network is a set of datagrams: taking one may leave it there (a copy), any
may vanish, and the order is free. A stranger sends to the server and to the
clients. A payload carries its author and its length before and after the cut
by the buffer. `peer_addr` is overwritten by every `recvfrom`, in the server and in
the clients.

A client sets its `peer_addr` anew before each send, but nobody looks at the result
of `inet_aton` (`posix/udp_client/udp_client.c:73`). For a `<host>` in dots, the clients
in `Dotted`, the address is the server's. For a name it keeps the host that the last
`recvfrom` left there, or any before the first (`Aims`); `ServerPort` says who is
reached at the server's port of a host, `Nobody` where no program is. The descriptor
is taken to be open; that it may be closed is in `Sockets`.

### Sockets, and the parts in Programs

These modules keep their state in one record `st`. `Programs` puts them side by side:
the first state chooses a program, which then runs alone. Each is a specification
of its own; `Programs` states their properties for the program that runs, so that one
run and one set of theorems is about all of them. `MCPrograms` adds the vector and
the register.

* `Sockets`: `main`, `socket_tcp`/`socket_udp` and `socket_port`, every call of which
  may fail. `sd` keeps the number of a descriptor that was closed, as in the code.
  `accepted` are the descriptors `accept` has returned to `tcp_server`, which nothing
  closes; `MaxFd` is the largest one the process may have. An error of `accept` or
  `listen` is `Served`.
* `Timer`: the kernel's timer, `stored_value` (any value at first), the pending
  signal and the terminal. `ran` and `held` are histories: how long the countdown in
  the kernel, or in `stored_value`, has run.
* `Timestamp`: nanoseconds of a scaled second; the subtraction is unsigned.
* `ModuleCalls`: any link order, any assignment of modules to levels. A section is
  the set of places of its entries in the link order, and `fn` the first place not yet
  called. The macros
  `core_module`, `user_module` and `late_module` name an `exitcall` that does not exist
  and are used nowhere.
* `Pipe`: source's stdio buffer, the pipe, and the bytes `fread` has collected. A read may
  fail at any byte; `fread` then returns what it has (`FreadError`). Sink prints a chunk
  with `%s`, which stops at its first NUL (`Strlen`); source's bytes are 0 to 255, here 0
  to `ByteMod - 1` over and over. `received`, `printed` and `errors` are histories, and
  `count` is the code's own count of chunks.
* `Printlog`: the loops of `dump` and `hexdump`, one step per cell.
* `Sysreg`: the calls of the example in its order, each of which may fail.
* `Lfsr`: the register with the parameters of `lfsr.h`; of the `int` that `-(lfsr & 1)` is,
  the 16 bits that count. `Substr`: `iter_substr` with a
  `strndup` that may fail.

## Runs

| run | instance | shows |
|---|---|---|
| `queue_safety` | 1 sender that queries and may be cancelled, 2 receivers, 2 slots, 2 values, unlimited calls | TypeOK, LockDiscipline, NoLostWakeup, AvailCountsMessages, SoleCallerQuery, ImplementsFifo |
| `queue_live` | 2 senders, 1 querying receiver, 1 slot, 2 calls each, a sender and the receiver cancelled | EveryCallReturns |
| `queue_drain` | main and 1 reader, 2 slots, 4 messages | DrainedIsEmpty, ImplementsFifo, ProgramEnds |
| `queue_drain_race` | main and 2 readers | AvailCountsMessages is violated |
| `queue_deadline` | a second of 3 ms of 2 ns, timeouts -7..7 | NeverEarly, EinvalOnlyNegative, DeadlineWithinOneNs |
| `queue_lifecycle` | up to 7 elements of up to 4 bytes, all of which fit | HeapIsOwned, WriteInBuffer, RingHasNmembSlots |
| `queue_static_small` | static buffers of 4 and 8 bytes | WriteInBuffer is violated |
| `dictionary` | 3 keys (2 collide), 2 values and NULL, 2 growing to 4 slots, 2 lives, calloc and strdup may fail | KeysUnique, EntriesAccounted, CountCoversEntries, ImplementsMap |
| `linked_list` | 2 heads, 3 entries, unlimited calls and loops | LinksInverse, VisitsEach, ImplementsLists |
| `echo_tcp` | 2 clients with arguments shorter than, equal to and longer than the buffer, and empty | EchoInOrder, ClientEnds, ThreadReadsAll |
| `echo_udp` | a client with 3 arguments and the server's address in dots, one with 2 empty ones and a name, a stranger, who is also at the server's port of its host | WellAddressed, ClientEnds |
| `programs` | see below | EachObjectOnce, ImplementsDeque (vector), CountdownConserved (timer), ElapsedExact (timestamp), CallsByLevel (module), ChunksInOrder, PrintedUpToNul, SinkEnds (pipe), DumpExact (printlog), FullPeriod (lfsr), SplitExact (substr), EverythingReturned (timer, sysreg, sockets) |

The instances in `programs`: 4 objects in a vector; a period of 4 ticks and stored
values of 0, 2, 7 ticks or an invalid one; a second of 3 nanoseconds and a period
of 4 seconds; 3 modules and the dummy in every order on every level; 16 bytes
with values modulo 10 through a pipe of 5 in chunks of 7; dumps of 0 to 9 bytes in rows of 4; 65536 steps
of the 16-bit register, one more than its period; strings of up to 5 characters;
up to 16 addresses from `getaddrinfo` and 4 descriptors beside the standard streams.

Why the bounds are enough. In `queue_safety` calls are unlimited and the state is
finite, so every interleaving of arbitrarily many calls is covered; two slots
and two values tell order, loss and duplication apart and make the ring wrap,
and two receivers with a sender make both condition variables contended. Values and
receivers are interchangeable there, so their permutations are used as a
symmetry. `past` deadlines are left out of the instances because `Expire` makes
them from `future` ones. `queue_live` limits calls (`MaxCalls`) because a caller that
keeps taking the mutex may starve another, which no lock of this kind excludes;
one slot makes senders and receiver block. In `queue_drain` four messages through
two slots repeat the program's two rounds. The dictionary's third key forces
growth, two colliding keys exercise the string comparison, and a second life
starts from whatever the first has leaked; values, and the colliding keys, are
interchangeable. Three entries make every case of the
list operations (first, middle, last, only, neighbour of itself), calls are
unlimited, and entries and heads are interchangeable. Two TCP clients suffice for a
mix-up of two connections, and a buffer of 2 bytes cuts arguments in pieces. A
dump of 9 bytes in rows of 4 has full and partial last rows; a pipe shorter than a
chunk and a chunk that does not divide the stream make every kind of short
read, and values modulo 10 put a NUL at the beginning of a chunk, inside one and nowhere
in one. In
`queue_deadline` the clock runs past the longest deadline (`MaxSec`).

Deadlock checking is off where the system may stop: when all threads of a queue are
dead or have used up their calls, after the program's end, after a wait, after
the last dictionary is destroyed or the process died, when the echo clients have
ended, and in `programs`, most of which end. `linked_list` checks it.

### Fairness

`FairSpec` (queue_live): a thread that can run does (`WF` on its steps), and time
passes (`WF` on `Expire`). Calls are not fair: nobody has to call. With calls
limited, weak fairness suffices for the mutex.

`DrainFairSpec` (queue_drain): also, readers call `queue_recv` for ever, as their
`for(;;)` does, and a thread waiting for the mutex gets it eventually (`SF` on
`Lock` and `Relock`), which the `usleep` of the readers between calls justifies; main's
query before the cancels depends on it too. `MainReturns` is fair, `CreateFails` is not. No
fairness is assumed of main's own one-second timeout, so `ProgramEnds` shows that
main learns of the empty queue from the broadcast of `queue_recv`.

EveryCallReturns (queue_live) does not show that wakeups are not lost, since every
deadline expires; that is NoLostWakeup of `queue_safety`. SoleCallerQuery speaks of a
sole sender and of a sole receiver; `queue_safety` has two receivers, so there only the
first half says something, and the second rests on the theorem.

`EchoTcp`: the scheduler runs every client and every thread of a server that is up
(`WF` on `ClientStep` and `ThreadStep`; the client's includes the one-second timeout of
poll). Nothing is assumed of `accept`, so `ClientEnds` holds for a client nobody
serves. `EchoUdp`: `WF` on `ClientStep` alone; the network may lose everything and the
server may be gone. `MCPrograms`: `WF` on source and on sink of the pipe, two
processes that the scheduler runs; `fread` failing is not fair.

## What the violated properties show

* `queue_drain_race`: `lib/queue.c:232` and `:235` wait on and release a mutex that
  `queue_empty_wait` never locked. With the two readers of the example, one
  reader's mutex is released in the middle of `queue_recv`; both take the same
  message and one decrement of `avail` is lost. With a single reader
  (`queue_drain`) the program is safe.
* `queue_static_small`: the check at `lib/queue.c:32` is the wrong way round.

The models show further behaviour at odds with what the surrounding code or its
comments intend. These are not runs; the definition named contains the step.

* `lib/queue.c:9` and `:22` truncate to 32 bits what `queue_create` allocates as a `size_t`,
  so a longer queue wraps too early (`queue_setup` with byte lengths past `U32Mod`).
* `lib/dictionary.c:191` to `:194` count an entry whose key could not be duplicated and
  return 0, against "@count: number of entries in dictionary" (`Insert`; hence
  `keyless` in EntriesAccounted). The value copied with it leaks when the slot is
  used again.
* `lib/dictionary.c:177` loses the old value when `strdup` fails, and calls `strdup(NULL)`
  when NULL is added to a key that is there (`Refresh`, `RefreshNull`).
* `posix/timer/timer.c:202`: r before the first p arms the timer with uninitialised
  memory, and r after p, i replaces the timer that i has started (`Resume` where
  `held` is Unknown, or the timer runs).
* `posix/udp_client/udp_client.c:73`: the usage line (125) asks for `<host>`, but a name is
  refused by `inet_aton`, whose result is ignored: the first datagram goes to an
  uninitialised address, later ones to whoever has been heard from (`Aims`).
* `posix/udp_client/udp_client.c:48`: when no address can be bound, `socket_udp` returns
  the number of a closed descriptor. The other programs notice when `getsockname` or
  `connect` fails; this one goes on with it (`Got`), where sending fails.
* `posix/tcp_server/tcp_server.c:142`: the descriptors `accept` returns are closed neither
  by the threads (116 to 118) nor by main, so a server that runs long enough ends in
  `accept` for want of a free one (`Accept`); EverythingReturned says that these and no
  others are left open.
* `posix/pipe/sink.c:35`: `%s` prints nothing of a chunk behind its first NUL, so of what
  source sends, which begins with a 0, the first chunk prints empty; with 256 bytes and
  chunks of 7 it is the only one (`Strlen`, PrintedUpToNul).
* `posix/tcp_server/tcp_server.c:113`: a client that closes while its thread still has
  bytes to echo may kill the server by SIGPIPE (`ThreadSendFails`). Line 106: after
  the peer has closed, the thread spins for ever (`ThreadEof`).
* `lib/printlog.c:33`: each byte is read before the test that there is one, so a dump
  whose size is no multiple of 16 reads `p[size]` (`HexCell`, `CharCell`). DumpExact
  shows that it reads no further.
* `lib/sysreg.c:33`: `fread` never returns a negative number, so a field that could not be
  read is printed all the same (`ReadField`). EverythingReturned is about the files only.

## Proofs

All theorems hold for every value of the constants that the named assumptions
allow. The assumptions say what the code or its types guarantee:
`QueueAssumption` that the capacity is at least one and fits a `size_t`;
`DeadlineAssumption` that both subdivisions of a second are positive;
`LifecycleAssumption` that the arguments are of type `size_t`, which is at least as wide
as `uint32_t`; `DictionaryAssumption` that hashes and sizes are numbers and the smallest
array is not empty; `ListAssumption` that the objects are finitely
many and heads are not entries; `EchoTcpAssumption` and `EchoUdpAssumption` that buffers
are not empty; `ProgramsAssumption` the same for the parts in `Programs`; and all of
them that NULL, poison and similar values differ from real ones.

### Queue

`QueueProofs`: `Spec => []IInv`, from which `TypeCorrect`, `MutualExclusion`,
`WakeupsAreNotLost`, `AvailIsExact` and `SoleCallerMayTrustQuery` follow. Only
LockDiscipline is inductive beside the types. The strengthening `IInv` adds
* `CallInv`: which operation a thread can be in, and that a sender keeps its
  element (otherwise TypeOK fails at the copy);
* `CountInv`: between its test and its store a call may rely on the test, and the
  loaded `avail` is still `avail` (otherwise `Store` could leave 0..nmemb);
* `RingInv`: how far `p_write` is from `p_read`, with the two places where a pointer
  has moved and `avail` has not;
* `QueryInv`: the answer of a query is a number until the next call.

The argument is the same for each part: only the thread that owns the mutex
writes the fields, and LockDiscipline says there is one at most. `NoLostWakeup`
needs that the storing thread broadcasts before it releases the mutex, and that
`Wait` is entered only while blocked.

The second part of the module is the refinement, `Spec => ImplementsFifo`. `DataInv`
adds where the element in flight is. `StorePuts` and `StoreTakes` show that storing
`avail` appends to, or removes from, the sequence read off the ring; every other step
is an invocation, an answer, a refusal, a return or invisible.

The last part is the draining program (`DrainProgram`) with one reader (`OneReader`):
`DrainedMeansEmpty` and `DrainRefinement`. LockDiscipline fails there, since main waits on
and releases a mutex it has not locked, so `IInv` cannot be used once main drains.
`DrainInv` has a case for each phase. While main sends (`SendingInv`) it is the invariant
above. From the first `queue_empty_wait` on (`DrainingInv`) main moves no element, so
what the reader has tested and loaded is its own whoever holds the mutex
(`ReaderInv`, `ReaderData`), and nobody adds to the queue, so the answer main was given
stays true (`AnswerInv`), through its query for the space, which takes the mutex properly,
to the end of the process. The hypothesis of one reader is needed: with two, TLC finds
both theorems' properties violated, by the interleaving of `queue_drain_race`.

`QueueDeadlineProofs`: `AddExact` is the arithmetic of `queue_ts_add`;
`DeadlineInv` carries it to the end of the wait, which gives `WaitsLongEnough`,
`DeadlineIsWellFormed` and `DeadlineIsTight`.

`QueueLifecycleProofs`: `NothingLeaks` needs no hypothesis. `WritesStayInside` and
`RingIsExact` are about queues that fit (`Fits`: the byte length is below 2^32 and a
static buffer has that length), because the code is wrong for others: see
`queue_static_small` and the truncation in `queue_setup`. `WalkInv` says that `p_write`
is `size` times the number of writes since it was last at `p_head`. The arithmetic is in
`Elements` (elements lie one behind the other) and `NoWrap` (no modulus is reached).

### Dictionary

`DictionaryProofs`, for every hash function, array size and failure of `calloc` and
`strdup`. `IInv` joins KeysUnique, CountCoversEntries and EntriesAccounted, which need
each other, and adds `HashInv` (a key is found only because its entry carries its
hash; without it the search could miss a key and insert it again), `DeadInv` and
`NoOrphan` (a free slot holds no string until the copy of a key fails). An operation
makes one write to the array, so `WriteEntry` and `WriteCounts` carry the invariant
over it once for all of them. `InsertionsFindASlot` is the fact that the last `return -1`
of `dictionary_add` is dead code. The refinement `DictionaryIsAMap` reads the map off
the array.

### Linked lists

`LinkedListProofs`. LinksInverse is not inductive for two reasons. `__list_splice` is
wrong if the target is on the list that is spliced; the calls exclude it by a walk
along next, and `ComesBack` shows by the pigeonhole principle that this walk returns
to its head and so has met both of its neighbours. A loop body that deletes the
current entry is wrong if this "entry" is a head, or if the successor fetched before
is the entry itself; `LoopInv` therefore says that the loop is on the ring of its head,
the smallest set with the head that neither pointer leaves. That a ring has one head
follows from naming the rings (`Named`), which every operation can maintain locally.

VisitsEach speaks of walks in the heaps before and after a body. `VisitInv` has
instead the path from the current entry to the head, which meets no object twice.
Taking its first object off the ring leaves the rest of the path as it was
(`PathTail`), and the recursive walk and the path agree (`PathIsWalk`, by a least
counterexample, the form of induction the provers can follow).

`ListsImplemented` is the refinement of `Lists`. Its mapping walks the heap, and how an
assignment changes a walk is hard to say. The invariant `RefInv` says instead that there
are lists `ls` which the heap holds: next leads from each head in use through its entries
and back (`Holds`), no entry is in two places (`Apart`), and an entry in none points to
itself or is poisoned (`Out`). A list is a circle of points, the head being point 0 and
the point behind the last entry (`Pt`), so that the first, the last and the only entry
are no special cases. `InsertRep` shows for any heap that what joins a sequence behind a
point leaves a heap that holds the lists with the sequence put in there, `RemoveRep` the
same for an entry that is passed by. `LinksInverse` then supplies the pointers the code
follows backwards (`PrevIs`), the assignments supply the rest (`UnlinkRep`, `AddRep`,
`JoinRep`), and `ListsAre` shows that the walks of the mapping read `ls`.

### Echo programs

`EchoTcpProofs`: EchoInOrder for any number of clients, arguments and buffer size. It
needs that a thread holds bytes only between `recv` and `send` (`HoldsInv`), hence that
`accept` never starts a second thread for a connection (`BacklogInv`), and that a
client which sends has a connection no reset has touched (`LinkInv`).

`EchoUdpProofs`: WellAddressed. `NetInv` says who has written a datagram that is under
way, `BufInv` that `buf` and `peer_addr` of the server were written by the same `recvfrom`.
What a client that was given a name sends, and to whom, is not restricted; echoes still go
to their authors.

### Programs and the vector

`ProgramProofs` has an invariant for each program; `OneProgram` reduces a step of
`Programs` to a step of the program that runs. `CountdownSurvivesPauses` needs that a known
countdown reloads the period or nothing; `StampsAreExact` is the unsigned subtraction
with its borrow; `SinkReceivesTheStream` that source's buffer, the pipe, sink's buffer and
what was received are one sequence, and `Chunks` bounds the bytes of a number of chunks;
`SinkPrintsUpToNul` that a chunk begins where a block of the stream does as long as no
read has failed, so that the first NUL of the chunk is the first of the block;
`NothingIsKept` follows the open descriptors through every early return: beside the
accepted ones only `sd` is ever open, once it is bound.

Three results compare what a loop has put out with a definition of the whole. What
`FlattenSeq` gives for one sequence more is `FlattenAppend`, again by a least
counterexample. `SplitsAtSeparators`: the pieces so far, joined by
separators, are the argument up to where the next search starts (`SubstrInv`), and the
separator that ends a piece is the first one behind it. `DumpsExactly`: `DumpAt(k, o)`
says that k rows and o cells of the next are out, and that pointer and counter of each of
the two columns are where k and o put them; `RowCells` counts the cells of full and
partial rows. `CallsInOrder`: at `fn` the calls made are those of the levels before and
of the places before `fn` on this level, each once (`ModuleInv`); that a link order has
every module at one place follows from counting (`LinkComplete`).

For the vector, `VecInv` fixes the number of
objects before the first terminator, so that every walk of `countv` ends where it should;
`VectorIsADeque` is the refinement.

### Only model-checked

* Liveness: EveryCallReturns, ProgramEnds, ClientEnds, ThreadReadsAll, SinkEnds.
  Fairness and ENABLED are beyond the prover.
* FullPeriod: bitwise operators, and the period is a matter of exhaustion.

## Not modelled

`dictionary_hash` (only equality of hashes matters); printing, titles, number formats
and the `PRINTLOG_` macros; `memstream`, `gpiod` and `i2cdev`, straight-line calls into
libraries and the kernel; the prototypes under `includes/sort`, whose code is absent;
the macros of `ctypes.h` and `error_ptr.h`; `hlist`; `calloc` of an element in the queue
example, or `queue_create` there, failing; sends that block because a socket's buffer is full. Weak
memory is not modelled: the only unsynchronised access is `queue_empty_wait`'s,
which is already wrong under sequential consistency.

## Plan

Every safety property of the passing runs but FullPeriod is proved for every instance. What
could follow:

1. Modules for what is listed above as not modelled, should it gain state of its own.
2. When `queue_empty_wait` is repaired to take the mutex: the refinement for any number
   of readers, by the argument of the first part of `QueueProofs`, in place of
   `OneReader`; `queue_drain_race` should then pass.
3. Liveness proofs, once the prover handles ENABLED.
