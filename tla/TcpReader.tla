----------------------------- MODULE TcpReader -----------------------------
(***************************************************************************)
(* The reading side of cmt::asio::tcp::socket (src/src/asio/tcp/           *)
(* socket.cpp): read() and read_some() over a private read_buf that keeps  *)
(* what the kernel had available beyond the bytes asked for.               *)
(*                                                                         *)
(* Bytes are numbered 1, 2, ... in the order the peer sent them; byte 0 is *)
(* memory that holds no byte of the stream.  One context reads.            *)
(***************************************************************************)
EXTENDS Integers, Sequences

CONSTANTS Sizes,       \* the buffer sizes of the caller
          MaxBytes,    \* bound: bytes the peer sends
          MaxReturned  \* bound: bytes returned before the last call

ASSUME SizesAssumption == Sizes \subseteq Nat
ASSUME BytesAssumption == MaxBytes \in Nat /\ MaxReturned \in Nat

VARIABLES
    arrived,   \* bytes the kernel has received
    taken,     \* bytes read from the kernel
    closed,    \* the peer has closed its side
    read_buf, read_pos,
    pc,        \* "idle", or the call that waits for asio, or "failed"
    buf,       \* what the call in progress has put into the caller's buffer
    want,      \* how many bytes it still asks for
    received,  \* what the caller takes for the stream: the returned bytes
    only_read  \* history: read_some() was not called

vars == <<arrived, taken, closed, read_buf, read_pos, pc, buf, want, received, only_read>>

\* The bytes i+1 .. j of the stream.
Bytes(i, j) == [k \in 1..(j - i) |-> i + k]

AtMost(a, b) == IF a <= b THEN a ELSE b

Init == /\ arrived = 0 /\ taken = 0 /\ closed = FALSE
        /\ read_buf = <<>> /\ read_pos = 0
        /\ pc = "idle" /\ buf = <<>> /\ want = 0
        /\ received = <<>>
        /\ only_read = TRUE

\* self.available()
Available == arrived - taken

\* read_buf.size() - read_pos in size_t: it wraps to a huge number.
Left == IF read_pos <= Len(read_buf) THEN Len(read_buf) - read_pos ELSE MaxBytes + 1

\* memcpy of n bytes from read_buf[read_pos]; past its end there is no byte.
FromReadBuf(n) ==
    [k \in 1..n |-> IF read_pos + k <= Len(read_buf) THEN read_buf[read_pos + k] ELSE 0]

\* What the kernel has beyond the rest asked for, which goes to read_buf in the
\* same read.  Mutant: read_buf is made large enough for all that it has.
ExcessWhole(rest) == Bytes(taken + rest, arrived + rest)
Excess(rest) == Bytes(taken + rest, arrived)

\* The call returns n; the caller takes the first n bytes of the buffer b it
\* passed for the result.
Return(b, n) ==
    /\ received' = received \o [k \in 1..n |-> IF k <= Len(b) THEN b[k] ELSE 0]
    /\ pc' = "idle"
    /\ buf' = <<>>
    /\ want' = 0

-----------------------------------------------------------------------------
(* socket::read *)

\* Mutant: read_pos is left behind when read_buf has been emptied.
ReadPosKept(pos) == pos
\* read_pos after pos bytes of read_buf are used up: an empty buffer starts over.
ReadPosAfter(pos) == IF pos = Len(read_buf) THEN 0 ELSE pos

\* First the bytes left in read_buf, then those the kernel has, with all that
\* it has beyond them into read_buf, else wait for the rest.
Read(size) ==
    LET grab  == Left # 0
        s     == AtMost(Left, size)
        chunk == FromReadBuf(s)
        rest  == size - s
        kept  == IF grab /\ read_pos + s = Len(read_buf) THEN <<>> ELSE read_buf
    IN
    /\ pc = "idle" /\ Len(received) < MaxReturned
    /\ read_pos' = IF grab THEN ReadPosAfter(read_pos + s) ELSE read_pos
    /\ \/ /\ grab /\ rest = 0
          /\ read_buf' = kept
          /\ Return(chunk, s)
          /\ UNCHANGED taken
       \/ /\ ~(grab /\ rest = 0)
          /\ Available >= rest
          /\ read_buf' = Excess(rest)
          /\ taken' = arrived
          /\ Return(chunk \o Bytes(taken, taken + rest), size)
       \/ /\ ~(grab /\ rest = 0)
          /\ Available < rest
          /\ read_buf' = kept
          /\ pc' = "read"
          /\ buf' = chunk
          /\ want' = rest
          /\ UNCHANGED <<taken, received>>
    /\ UNCHANGED <<arrived, closed, only_read>>

\* cmt::asio::read completes when all the bytes are there.
ReadDone ==
    /\ pc = "read"
    /\ Available >= want
    /\ taken' = taken + want
    /\ Return(buf \o Bytes(taken, taken + want), Len(buf) + want)
    /\ UNCHANGED <<arrived, closed, read_buf, read_pos, only_read>>

-----------------------------------------------------------------------------
(* socket::read_some *)

ReadSome(size) ==
    LET grab  == read_buf # <<>> /\ Left # 0
        s     == IF grab THEN AtMost(Left, size) ELSE 0
        chunk == FromReadBuf(s)
        rest  == size - s
        keep  == Len(read_buf) - s
    IN
    /\ pc = "idle" /\ Len(received) < MaxReturned
    /\ read_pos' = IF grab /\ keep # 0 THEN s ELSE read_pos
    /\ \/ /\ grab /\ rest = 0
          /\ read_buf' = IF keep # 0 THEN read_buf ELSE <<>>
          /\ Return(chunk, s)
          /\ UNCHANGED taken
       \/ /\ ~(grab /\ rest = 0)
          /\ Available >= rest
          /\ read_buf' = Excess(rest)
          /\ taken' = arrived
          /\ Return(chunk \o Bytes(taken, taken + rest), Available)
       \/ /\ ~(grab /\ rest = 0)
          /\ Available < rest
          /\ read_buf' = IF grab /\ keep = 0 THEN <<>> ELSE read_buf
          /\ pc' = "read_some"
          /\ buf' = chunk
          /\ want' = rest
          /\ UNCHANGED <<taken, received>>
    /\ only_read' = FALSE
    /\ UNCHANGED <<arrived, closed>>

\* cmt::asio::read_some completes with what is there; its count is returned.
ReadSomeDone ==
    /\ pc = "read_some"
    /\ \E n \in 1..AtMost(Available, want) :
          /\ taken' = taken + n
          /\ Return(buf \o Bytes(taken, taken + n), n)
    /\ UNCHANGED <<arrived, closed, read_buf, read_pos, only_read>>

-----------------------------------------------------------------------------
(* The end of the operation in the io_service, and the peer *)

\* read_write_handler on an error: the promise gets the exception, which wait()
\* throws.  The caller gives the socket up.  Mutant: only success is reported.
ReadFailsUnseen == FALSE /\ UNCHANGED vars
ReadFails ==
    /\ pc \in {"read", "read_some"}
    /\ closed
    /\ Available < (IF pc = "read" THEN want ELSE 1)
    /\ taken' = arrived
    /\ pc' = "failed"
    /\ UNCHANGED <<arrived, closed, read_buf, read_pos, buf, want, received, only_read>>

Arrive ==
    /\ ~closed
    /\ arrived < MaxBytes
    /\ arrived' = arrived + 1
    /\ UNCHANGED <<taken, closed, read_buf, read_pos, pc, buf, want, received, only_read>>

Close ==
    /\ ~closed
    /\ closed' = TRUE
    /\ UNCHANGED <<arrived, taken, read_buf, read_pos, pc, buf, want, received, only_read>>

Next == \/ \E size \in Sizes : Read(size) \/ ReadSome(size)
        \/ ReadDone \/ ReadSomeDone \/ ReadFails
        \/ Arrive \/ Close

\* asio completes an operation that can complete.
Spec == Init /\ [][Next]_vars /\ WF_vars(ReadDone \/ ReadSomeDone \/ ReadFails)

-----------------------------------------------------------------------------
\* The fields of detail::socket keep their types, and neither read_buf nor the
\* caller's buffer holds a byte before it has arrived.
TypeOK ==
    /\ arrived \in 0..MaxBytes /\ taken \in 0..arrived
    /\ closed \in BOOLEAN
    /\ read_buf \in Seq(0..arrived)
    /\ read_pos \in Nat
    /\ pc \in {"idle", "read", "read_some", "failed"}
    /\ buf \in Seq(0..arrived)
    /\ want \in Nat
    /\ received \in Seq(0..arrived)
    /\ only_read \in BOOLEAN

\* What the calls of read() return, put together, is what the peer sent, without
\* gaps, repetitions or foreign bytes, however the bytes arrive between the calls.
\* (read_some() forgets read_pos: after it nothing is promised.)
StreamInOrder == only_read => \A i \in DOMAIN received : received[i] = i

\* A context that waits in read() or read_some() when the peer closes comes back,
\* with the bytes that were there or with the error.
CloseEndsRead == (closed /\ pc \in {"read", "read_some"}) ~> (pc \in {"idle", "failed"})
=============================================================================
