----------------------------- MODULE TcpWriter -----------------------------
(***************************************************************************)
(* The writing side of cmt::asio::tcp::socket (src/src/asio/tcp/           *)
(* socket.cpp): write() fills one of two buffers while the task write_loop *)
(* sends the other, flush() waits for the future of that task, and the     *)
(* destructor flushes and frees the buffers.                               *)
(*                                                                         *)
(* Any number of contexts of one cmt::thread write, one flushes.  They are *)
(* scheduled cooperatively, so a call runs up to the next wait.  Bytes are *)
(* numbered 1, 2, ... in the order write() accepts them.                   *)
(***************************************************************************)
EXTENDS Naturals, Sequences

CONSTANTS NULL,
          Sizes,     \* how many bytes one write() is given
          MaxBytes,  \* bound: bytes written
          MaxLoops   \* bound: write_loop tasks started

ASSUME SizesAssumption == Sizes \subseteq Nat \ {0}
ASSUME BoundAssumption == MaxBytes \in Nat /\ MaxLoops \in Nat
ASSUME NullAssumption  == NULL \notin {0, 1}

VARIABLES
    write_buf,       \* the two buffers
    cur_write_buf,   \* the index of the one to fill, or NULL
    cur_wbuf_idx,
    loop,            \* the write_loop task: "none", "posted", "sending", or "failed"
    write_buf_idx,   \* its parameter: the buffer it sends
    size, sent,      \* its locals: bytes to send, bytes the kernel took
    write_complete,  \* the number of the future's promise, 0 for none
    m_value, m_error,\* of each promise
    accepted,        \* how many bytes write() has returned for
    wire,            \* the bytes the kernel took
    flush,           \* "idle", "waiting", "resumed", "ok" or "thrown"
    flush_prom,      \* the promise flush() waits for
    flush_mark,      \* what was accepted when flush() was called
    life             \* "alive", "closing" (in the destructor's flush()) or "gone"

bufVars   == <<write_buf, cur_write_buf, cur_wbuf_idx>>
loopVars  == <<loop, write_buf_idx, size, sent>>
promVars  == <<write_complete, m_value, m_error>>
flushVars == <<flush, flush_prom, flush_mark>>
vars == <<write_buf, cur_write_buf, cur_wbuf_idx, loop, write_buf_idx, size, sent,
          write_complete, m_value, m_error, accepted, wire, flush, flush_prom, flush_mark, life>>

Init == /\ write_buf = [i \in {0, 1} |-> <<>>]
        /\ cur_write_buf = NULL /\ cur_wbuf_idx = 0
        /\ loop = "none" /\ write_buf_idx = 0 /\ size = 0 /\ sent = 0
        /\ write_complete = 0
        /\ m_value = [k \in 1..MaxLoops |-> FALSE]
        /\ m_error = [k \in 1..MaxLoops |-> FALSE]
        /\ accepted = 0 /\ wire = <<>>
        /\ flush = "idle" /\ flush_prom = 0 /\ flush_mark = 0
        /\ life = "alive"

\* The bytes i+1 .. j.
Bytes(i, j) == [k \in 1..(j - i) |-> i + k]

Error == write_complete # 0 /\ m_error[write_complete]

-----------------------------------------------------------------------------
(* socket::write; with the error of write_loop at hand it only throws that. *)

\* The other buffer.  Mutant: the same.
SameBuf(i) == i
OtherBuf(i) == (i + 1) % 2

\* No buffer to fill means that no write_loop is there: fill the first one,
\* start a write_loop for it, and go on with the other.
WriteFirst(n) ==
    /\ life = "alive" /\ ~Error
    /\ cur_write_buf = NULL
    /\ accepted + n <= MaxBytes
    /\ write_complete < MaxLoops
    /\ accepted' = accepted + n
    /\ write_buf' = [write_buf EXCEPT ![0] = @ \o Bytes(accepted, accepted + n)]
    /\ loop' = "posted" /\ write_buf_idx' = 0
    /\ write_complete' = write_complete + 1
    /\ cur_wbuf_idx' = OtherBuf(0)
    /\ cur_write_buf' = OtherBuf(0)
    /\ UNCHANGED <<size, sent, m_value, m_error, wire, flushVars, life>>

WriteMore(n) ==
    /\ life = "alive" /\ ~Error
    /\ cur_write_buf # NULL
    /\ accepted + n <= MaxBytes
    /\ accepted' = accepted + n
    /\ write_buf' = [write_buf EXCEPT ![cur_write_buf] = @ \o Bytes(accepted, accepted + n)]
    /\ UNCHANGED <<cur_write_buf, cur_wbuf_idx, loopVars, promVars, wire, flushVars, life>>

-----------------------------------------------------------------------------
(* write_loop *)

\* promise::notify: the context in flush() becomes ready.  Mutant: it does not.
NotifyNobody == UNCHANGED flush
NotifyFlush == flush' = IF flush = "waiting" /\ flush_prom = write_complete THEN "resumed" ELSE flush

\* From the top of the loop to the wait for asio.
LoopStart ==
    /\ loop = "posted"
    /\ loop' = "sending"
    /\ size' = Len(write_buf[write_buf_idx])
    /\ sent' = 0
    /\ UNCHANGED <<bufVars, write_buf_idx, promVars, accepted, wire, flushVars, life>>

\* The kernel takes some of the bytes from where they are.
KernelTakes ==
    /\ loop = "sending"
    /\ \E n \in 1..(size - sent) :
          /\ sent' = sent + n
          /\ wire' = wire \o SubSeq(write_buf[write_buf_idx], sent + 1, sent + n)
    /\ UNCHANGED <<bufVars, loop, write_buf_idx, size, promVars, accepted, flushVars, life>>

\* Is there more to send?  Mutant: nobody looks.
NothingMore == FALSE
MoreToSend == write_buf[cur_write_buf] # <<>>

\* The buffers change places.  Mutant: the pointer is taken from the old index.
SwapBufsLate == /\ cur_write_buf' = cur_wbuf_idx
                /\ cur_wbuf_idx' = OtherBuf(cur_wbuf_idx)
                /\ write_buf_idx' = OtherBuf(write_buf_idx)
SwapBufs == /\ cur_wbuf_idx' = OtherBuf(cur_wbuf_idx)
            /\ cur_write_buf' = cur_wbuf_idx'
            /\ write_buf_idx' = OtherBuf(write_buf_idx)

\* The whole buffer is sent: take the other one if there is something in it, ...
LoopNext ==
    /\ loop = "sending" /\ sent = size
    /\ MoreToSend
    /\ write_buf' = [write_buf EXCEPT ![write_buf_idx] = <<>>]
    /\ SwapBufs
    /\ size' = Len(write_buf[OtherBuf(write_buf_idx)])
    /\ sent' = 0
    /\ UNCHANGED <<loop, promVars, accepted, wire, flushVars, life>>

\* ... else the task ends, and its future has its value.
LoopEnd ==
    /\ loop = "sending" /\ sent = size
    /\ ~MoreToSend
    /\ write_buf' = [write_buf EXCEPT ![write_buf_idx] = <<>>]
    /\ cur_wbuf_idx' = 0
    /\ cur_write_buf' = NULL
    /\ loop' = "none" /\ size' = 0 /\ sent' = 0
    /\ m_value' = [m_value EXCEPT ![write_complete] = TRUE]
    /\ NotifyFlush
    /\ UNCHANGED <<write_buf_idx, write_complete, m_error, accepted, wire, flush_prom,
                   flush_mark, life>>

\* asio::write throws, write_loop does not catch it, the task sets the exception.
LoopFails ==
    /\ loop = "sending" /\ sent < size
    /\ loop' = "failed"
    /\ m_error' = [m_error EXCEPT ![write_complete] = TRUE]
    /\ NotifyFlush
    /\ UNCHANGED <<bufVars, write_buf_idx, size, sent, write_complete, m_value, accepted,
                   wire, flush_prom, flush_mark, life>>

-----------------------------------------------------------------------------
(* socket::flush *)

\* valid(), and the fast paths of wait().  Mutant: flush() does not wait.
FlushAnyway == "ok"
FlushFirst == CASE write_complete = 0 -> "ok"
                [] write_complete # 0 /\ Error -> "thrown"
                [] write_complete # 0 /\ ~Error /\ m_value[write_complete] -> "ok"
                [] write_complete # 0 /\ ~Error /\ ~m_value[write_complete] -> "waiting"

FlushEnter ==
    /\ life = "alive" /\ flush \in {"idle", "ok", "thrown"}
    /\ flush' = FlushFirst
    /\ flush_prom' = write_complete
    /\ flush_mark' = accepted
    /\ UNCHANGED <<bufVars, loopVars, promVars, accepted, wire>>

FlushCall == FlushEnter /\ UNCHANGED life

\* The context runs again: an error is cleared and thrown.
FlushResumed ==
    /\ flush = "resumed"
    /\ flush_prom = write_complete
    /\ flush' = IF m_error[flush_prom] THEN "thrown" ELSE "ok"
    /\ m_error' = [m_error EXCEPT ![flush_prom] = FALSE]
    /\ UNCHANGED <<bufVars, loopVars, write_complete, m_value, accepted, wire, flush_prom,
                   flush_mark, life>>

\* A write() in between has given write_complete another promise.  wait() held
\* the last reference while it slept, and looks for the result in freed memory
\* (with rvalue references the assignment leaks the old promise, which then
\* still has the value).
FlushFreed ==
    /\ flush = "resumed"
    /\ flush_prom # write_complete
    /\ flush' \in {"ok", "thrown"}
    /\ UNCHANGED <<bufVars, loopVars, promVars, accepted, wire, flush_prom, flush_mark, life>>

-----------------------------------------------------------------------------
(* socket::~socket; the caller has no other call on the socket under way. *)

Destroy == FlushEnter /\ life' = "closing"

\* flush() has returned or thrown: the buffers are freed.
DeleteMy ==
    /\ life = "closing" /\ flush \in {"ok", "thrown"}
    /\ life' = "gone"
    /\ UNCHANGED <<bufVars, loopVars, promVars, accepted, wire, flushVars>>

-----------------------------------------------------------------------------
LoopStep == LoopStart \/ KernelTakes \/ LoopNext \/ LoopEnd
FlushStep == FlushResumed \/ FlushFreed \/ DeleteMy

Next == \/ \E n \in Sizes : WriteFirst(n) \/ WriteMore(n)
        \/ LoopStep \/ LoopFails
        \/ FlushCall \/ Destroy \/ FlushStep

\* The thread runs its tasks and its ready contexts, and the kernel sends what
\* it is given or fails.
Spec == /\ Init /\ [][Next]_vars
        /\ WF_vars(LoopStep) /\ WF_vars(FlushStep)

-----------------------------------------------------------------------------
(* Properties *)

\* The fields of detail::socket keep their types, and cur_write_buf and
\* cur_wbuf_idx name the same buffer.
TypeOK ==
    /\ write_buf \in [{0, 1} -> Seq(1..accepted)]
    /\ cur_write_buf \in {NULL, 0, 1} /\ cur_wbuf_idx \in {0, 1}
    /\ cur_write_buf # NULL => cur_write_buf = cur_wbuf_idx
    /\ loop \in {"none", "posted", "sending", "failed"}
    /\ write_buf_idx \in {0, 1}
    /\ size \in 0..MaxBytes /\ sent \in 0..size
    /\ write_complete \in 0..MaxLoops
    /\ m_value \in [1..MaxLoops -> BOOLEAN] /\ m_error \in [1..MaxLoops -> BOOLEAN]
    /\ accepted \in 0..MaxBytes
    /\ wire \in Seq(1..accepted)
    /\ flush \in {"idle", "waiting", "resumed", "ok", "thrown"}
    /\ flush_prom \in 0..write_complete /\ flush_mark \in 0..accepted
    /\ life \in {"alive", "closing", "gone"}

\* What is on the wire, in the buffer being sent and in the buffer being filled
\* is all that write() accepted, in order and without repetition, however the
\* buffers change places; also after a failure.
Conservation ==
    LET sending == SubSeq(write_buf[write_buf_idx], sent + 1, Len(write_buf[write_buf_idx]))
        filling == IF cur_write_buf = NULL THEN <<>> ELSE write_buf[cur_write_buf]
    IN wire \o sending \o filling = Bytes(0, accepted)

\* While asio has a pointer into a buffer, no write() can touch that buffer.
InFlightUntouched == loop \in {"posted", "sending"} => cur_write_buf \in {0, 1} \ {write_buf_idx}

\* A flush() that returns has sent everything that was written before it.
FlushMeansSent == flush = "ok" => flush_mark <= Len(wire)

\* A context in flush() comes back, with the failure if there was one, unless an
\* earlier flush() has reported that failure.
FlushEnds == flush = "waiting" ~> (flush # "waiting" \/ (loop = "failed" /\ ~Error))

\* What write() accepts is sent, without a flush(), while the connection works.
WrittenIsSent == \A n \in 1..MaxBytes : (accepted >= n) ~> (Len(wire) >= n \/ loop = "failed")

\* The destructor frees the buffers only when write_loop and asio are done with
\* them, and with nothing left to send unless a send has failed.
FreedWhenDone ==
    life = "gone" => loop = "failed" \/ (loop = "none" /\ Len(wire) = accepted)
=============================================================================
