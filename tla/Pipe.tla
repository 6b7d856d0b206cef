-------------------------------- MODULE Pipe --------------------------------
(***************************************************************************)
(* posix/pipe: source writes SEND_CNT bytes to a pipe and ends; sink reads *)
(* them BUF_SZ - 1 at a time and prints each chunk as a string.  The bytes *)
(* are numbered; the i-th has the value (i - 1) modulo ByteMod, which is   *)
(* 256.  fwrite leaves them in the stream's buffer, which goes to the pipe *)
(* piece by piece as there is room; fread collects what the pipe has until *)
(* it has all it was asked for, finds the end of the file or fails.        *)
(***************************************************************************)
EXTENDS Integers, Sequences

CONSTANTS SEND_CNT, BUF_SZ, Capacity, ByteMod

PipeAssumption ==
  SEND_CNT \in Nat /\ BUF_SZ \in Nat \ {0, 1} /\ Capacity \in Nat \ {0}
  /\ ByteMod \in Nat \ {0}

VARIABLE st   \* the state of both programs and the pipe, a record

Init ==
  st = [ spc |-> "malloc", wbuf |-> <<>>,   \* source and the buffer of its stdout
         pipe |-> <<>>, writer |-> TRUE,    \* bytes in the pipe; is its write end open
         kpc |-> "fread", buf |-> <<>>,     \* sink and the bytes fread has so far
         count |-> 0,
         received |-> <<>>, printed |-> <<>>,  \* histories: bytes fread has returned,
                                               \* those printf has shown of them
         errors |-> 0 ]                     \* history: chunks a read error cut short

\* malloc fails, or fwrite takes the whole block.
Write ==
  /\ st.spc = "malloc"
  /\ \E block \in {<<>>, [i \in 1..SEND_CNT |-> i]} :
       st' = [st EXCEPT !.spc = "exit", !.wbuf = block]

Flush ==
  /\ st.kpc # "failed"
  /\ \E n \in 1..Capacity :
       /\ n <= Len(st.wbuf) /\ Len(st.pipe) + n <= Capacity
       /\ st' = [st EXCEPT !.pipe = @ \o SubSeq(st.wbuf, 1, n), !.wbuf = SubSeq(@, n + 1, Len(@))]

\* The process is gone once its buffer is written, or killed by SIGPIPE.
Exit_KeepsOpen ==
  /\ st.spc = "exit" /\ (st.wbuf = <<>> \/ st.kpc = "failed")
  /\ st' = [st EXCEPT !.spc = "done"]
Exit ==
  /\ st.spc = "exit" /\ (st.wbuf = <<>> \/ st.kpc = "failed")
  /\ st' = [st EXCEPT !.spc = "done", !.writer = FALSE]

Eof == st.pipe = <<>> /\ ~st.writer

\* fread takes what the pipe has.
Read ==
  /\ st.kpc = "fread"
  /\ \E n \in 1..(BUF_SZ - 1 - Len(st.buf)) :
       /\ n <= Len(st.pipe)
       /\ st' = [st EXCEPT !.buf = @ \o SubSeq(st.pipe, 1, n), !.pipe = SubSeq(@, n + 1, Len(@))]

\* fread returns.
FreadReturns_Short == st.buf # <<>> \/ Eof
FreadReturns == Len(st.buf) = BUF_SZ - 1 \/ Eof

\* buf was cleared before fread, so %s shows it up to its first NUL.
Nul(byte) == (byte - 1) % ByteMod = 0
Strlen_Whole(chunk) == Len(chunk)
Strlen(chunk) ==
  CHOOSE n \in 0..Len(chunk) :
    /\ \A i \in 1..n : ~Nul(chunk[i])
    /\ n < Len(chunk) => Nul(chunk[n + 1])

\* fread has returned a positive number: print and count.
ShowChunk(s) ==
  [s EXCEPT !.count = @ + 1, !.received = @ \o s.buf,
            !.printed = @ \o SubSeq(s.buf, 1, Strlen(s.buf)), !.buf = <<>>]

Received ==
  /\ st.kpc = "fread" /\ FreadReturns /\ st.buf # <<>>
  /\ st' = ShowChunk(st)

EndOfFile ==
  /\ st.kpc = "fread" /\ FreadReturns /\ st.buf = <<>>
  /\ st' = [st EXCEPT !.kpc = "done"]

\* A read fails: fread returns what it has, or 0, for which the loop ends.
FreadError ==
  /\ st.kpc = "fread" /\ Len(st.buf) < BUF_SZ - 1
  /\ \/ st.buf = <<>> /\ st' = [st EXCEPT !.kpc = "failed"]
     \/ st.buf # <<>> /\ st' = [ShowChunk(st) EXCEPT !.errors = @ + 1]

Source == Write \/ Flush \/ Exit
Sink == Read \/ Received \/ EndOfFile
Next == Source \/ Sink \/ FreadError

\* Neither process is stopped for good.
Spec == Init /\ [][Next]_st /\ WF_st(Source) /\ WF_st(Sink)
-----------------------------------------------------------------------------
(* Properties                                                              *)

\* However the pipe cuts the stream, sink receives it without a loss, a
\* repetition or a swap, and only in full chunks, except for the last one of
\* a stream that has ended and those cut short by a read error: the product
\* sink reports is the number of bytes read but for what these chunks lack.
ChunksInOrder ==
  LET all == st.received \o st.buf \o st.pipe \o st.wbuf
      full == st.count * (BUF_SZ - 1)
      short == st.errors + (IF Eof /\ st.buf = <<>> THEN 1 ELSE 0)
  IN  /\ all = [i \in 1..Len(all) |-> i]
      /\ Len(st.received) \in (full - short * (BUF_SZ - 2))..full

\* What sink prints of what it has received: of every block of BUF_SZ - 1
\* bytes of the stream those before the first NUL of the block, in order, and
\* nothing else; nothing of the first block, since source begins with 0.
Visible(byte) == \A b \in (byte - ((byte - 1) % (BUF_SZ - 1)))..byte : ~Nul(b)
PrintedUpToNul ==
  st.errors = 0 =>
    /\ \A i, k \in 1..Len(st.printed) : i < k => st.printed[i] < st.printed[k]
    /\ {st.printed[i] : i \in 1..Len(st.printed)} = {b \in 1..Len(st.received) : Visible(b)}

\* Unless reading fails, sink ends, having read all that source wrote: the
\* end of the file gets through although the pipe was full in between.
SinkDone ==
  st.kpc = "failed" \/ (st.kpc = "done" /\ st.wbuf \o st.pipe \o st.buf = <<>>)
SinkEnds == <>SinkDone
=============================================================================
