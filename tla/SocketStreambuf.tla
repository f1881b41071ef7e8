-------------------------- MODULE SocketStreambuf --------------------------
(***************************************************************************)
(* basic_socket_streambuf (include/boost/cmt/asio/): the stream buffer of  *)
(* an iostream over a socket.  underflow() and overflow() start an         *)
(* operation of asio and wait for it on a promise that lives, like the     *)
(* error code, in their own stack frame.  The io_service thread runs       *)
(* read_write_handler_ec (src/asio.cpp), which sets the promise, notifies  *)
(* the thread that the promise names, by a task posted to that thread, and *)
(* only then stores the error code in that frame.                          *)
(*                                                                         *)
(* One context uses the buffer.  Bytes are numbered 1, 2, ... in each      *)
(* direction of a connection; 0 stands for memory that holds no such byte. *)
(***************************************************************************)
EXTENDS Integers, Sequences

CONSTANTS BufferSize,  \* buffer_size
          MaxPut,      \* bound: bytes put into the stream on a connection
          MaxArrive,   \* bound: bytes the peer sends on a connection
          MaxConnects  \* bound: calls of connect()

ASSUME BufferAssumption == BufferSize \in Nat \ {0}
ASSUME BoundAssumption  == {MaxPut, MaxArrive, MaxConnects} \subseteq Nat

VARIABLES
    \* the stream buffer
    get,          \* the bytes gptr() .. egptr()
    past,         \* gptr() is beyond egptr()
    put,          \* the bytes pbase() .. pptr()
    unbuffered,
    \* the call in progress
    pc,           \* "idle", or where the context is in p.wait()
    op,           \* the operation it waits for
    closing,      \* the call is the sync() of close()
    char,         \* the parameter of overflow(): a byte, or 0 for eof
    sent,         \* how much of put the loop of overflow() has sent
    value,        \* of the promise p, or -1
    ec,           \* there is an error in its error code
    named,        \* m_blocked_thread of the promise is set
    notes,        \* thread::notify tasks not yet run: "own", for the promise of the
                  \* call in progress, or "stale", for that of an earlier one
    \* the io_service thread and the connection
    kernel,       \* the operation of the call has not completed
    handler,      \* where the handler is; error_handler_ec ends with notify
    handler_ec,   \* the error it was given
    frame,        \* the frame of the call it belongs to is still there
    up, eof,      \* the connection works; the peer has closed its side
    arrived, taken, wire,
    \* what the callers have seen
    accepted,     \* bytes that were put into the stream
    received,     \* bytes that were got from it
    outcome,      \* of the last call that could write: "none", "ok", "synced" or "eof"
    failed,       \* the directions in which a call has returned eof on this connection
    connects,
    fault         \* a frame that was gone was used, or a wait ended without a value

bufVars  == <<get, past, put, unbuffered>>
callVars == <<op, closing, char, sent>>
promVars == <<value, ec>>
noteVars == <<named, notes>>
ioVars   == <<kernel, handler, handler_ec, frame>>
netVars  == <<up, eof, arrived, taken, wire>>
seenVars == <<accepted, received, outcome, failed, connects>>
vars == <<get, past, put, unbuffered, pc, op, closing, char, sent, value, ec, named, notes,
          kernel, handler, handler_ec, frame, up, eof, arrived, taken, wire, accepted, received, outcome,
          failed, connects, fault>>

\* The bytes i+1 .. j.
Bytes(i, j) == [k \in 1..(j - i) |-> i + k]

AtMost(a, b) == IF a <= b THEN a ELSE b

Init ==
    /\ get = <<>> /\ past = FALSE /\ put = <<>> /\ unbuffered = FALSE
    /\ pc = "idle" /\ op = "none" /\ closing = FALSE /\ char = 0 /\ sent = 0
    /\ value = -1 /\ ec = FALSE /\ named = FALSE /\ notes = {}
    /\ kernel = FALSE /\ handler = "none" /\ handler_ec = FALSE /\ frame = FALSE
    /\ up = FALSE /\ eof = FALSE /\ arrived = 0 /\ taken = 0 /\ wire = <<>>
    /\ accepted = 0 /\ received = <<>> /\ outcome = "none" /\ failed = {} /\ connects = 0
    /\ fault = FALSE

Idle == pc = "idle" /\ ~fault

\* init_buffers
init_buffers == get' = <<>> /\ past' = FALSE /\ put' = <<>>

\* A fresh promise and error code on the stack, the operation k handed to
\* asio, and p.wait() called.
StartOp(k) ==
    /\ op' = k
    /\ pc' = "call"
    /\ value' = -1 /\ ec' = FALSE /\ named' = FALSE
    /\ kernel' = TRUE

\* The call leaves: its locals, the promise and the error code go out of scope.
LeaveCall ==
    /\ op' = "none" /\ closing' = FALSE /\ char' = 0 /\ sent' = 0
    /\ value' = -1 /\ ec' = FALSE

-----------------------------------------------------------------------------
(* p.wait() and the handler *)

\* promise::wait finds the value, or names its thread as the one to notify; ...
WaitCall ==
    /\ pc = "call" /\ ~fault
    /\ pc' = IF value # -1 THEN "result" ELSE "enqueued"
    /\ named' = (value = -1)
    /\ UNCHANGED <<bufVars, callVars, promVars, notes, ioVars, netVars, seenVars, fault>>

\* ... thread::wait looks again, and blocks the context.
WaitBlock ==
    /\ pc = "enqueued" /\ ~fault
    /\ pc' = IF value # -1 THEN "result" ELSE "blocked"
    /\ UNCHANGED <<bufVars, callVars, promVars, noteVars, ioVars, netVars, seenVars, fault>>

\* The operation completes with n bytes or with an error; read_write_handler_ec
\* or error_handler_ec sets the value.
Complete(n, e) ==
    /\ kernel /\ handler = "none" /\ ~fault
    /\ value' = n
    /\ kernel' = FALSE
    /\ handler' = IF op = "connect" THEN "notify_last" ELSE "notify"
    /\ handler_ec' = e /\ frame' = TRUE
    /\ UNCHANGED <<bufVars, pc, callVars, ec, noteVars, seenVars, fault>>

CompleteReceive ==
    /\ op = "receive"
    /\ \/ /\ up
          /\ \E n \in 1..AtMost(arrived - taken, BufferSize) :
                Complete(n, FALSE) /\ taken' = taken + n
          /\ UNCHANGED <<up, eof, arrived, wire>>
       \/ /\ ~up \/ (eof /\ arrived = taken)
          /\ Complete(0, TRUE)
          /\ UNCHANGED netVars

CompleteSend ==
    /\ op \in {"send", "send_char"}
    /\ LET data == IF op = "send" THEN SubSeq(put, sent + 1, Len(put)) ELSE <<char>> IN
       \/ /\ up
          /\ \E n \in 1..Len(data) :
                Complete(n, FALSE) /\ wire' = wire \o SubSeq(data, 1, n)
          /\ UNCHANGED <<up, eof, arrived, taken>>
       \/ ~up /\ Complete(0, TRUE) /\ UNCHANGED netVars

\* The value of connect()'s promise is the error code: 0 for none.
CompleteConnect ==
    /\ op = "connect"
    /\ \E ok \in BOOLEAN : /\ Complete(IF ok THEN 0 ELSE 1, FALSE)
                           /\ up' = ok
    /\ UNCHANGED <<eof, arrived, taken, wire>>

\* promise_base::notify: if the promise names a thread, a notification is posted to it.
\* When the promise is gone, that is read from whatever has its place on the stack.
\* Mutant: nothing is posted.
PostNothing == UNCHANGED notes
PostNotify == notes' = IF named THEN notes \cup {"own"} ELSE notes

HandlerNotify ==
    /\ handler \in {"notify", "notify_last"} /\ ~fault
    /\ handler' = IF handler = "notify" THEN "code" ELSE "none"
    /\ \/ frame /\ PostNotify /\ fault' = FALSE
       \/ ~frame /\ notes' \in {notes, notes \cup {"stale"}} /\ fault' \in BOOLEAN
    /\ UNCHANGED <<bufVars, pc, callVars, promVars, named, kernel, handler_ec, frame, netVars,
                   seenVars>>

\* thread::notify on the thread of the context, while that context does not run: it
\* wakes the context if that is blocked on the promise.
RunOwn ==
    /\ "own" \in notes /\ pc \in {"blocked", "result"} /\ ~fault
    /\ notes' = notes \ {"own"}
    /\ pc' = "result"
    /\ UNCHANGED <<bufVars, callVars, promVars, named, ioVars, netVars, seenVars, fault>>

\* A notification that has outlived the call it was posted for finds no promise, or the
\* one that now has the address of its own.  It does nothing, or wakes the context; if
\* the operation has not completed then, ready() fails or p.wait() throws
\* future_value_not_ready and leaves the operation behind.  More of them may follow.
RunStale ==
    /\ "stale" \in notes /\ pc \in {"idle", "blocked", "result"} /\ ~fault
    /\ notes' \in {notes, notes \ {"stale"}}
    /\ \/ UNCHANGED pc /\ fault' \in BOOLEAN
       \/ pc = "blocked" /\ value # -1 /\ pc' = "result" /\ UNCHANGED fault
    /\ UNCHANGED <<bufVars, callVars, promVars, named, ioVars, netVars, seenVars>>

\* *oec = ec.  When the frame is gone this may hit the error code of the call
\* that now has its place on the stack.
HandlerCode ==
    /\ handler = "code" /\ ~fault
    /\ handler' = "none"
    /\ ec' \in IF frame THEN {handler_ec} ELSE {ec, handler_ec}
    /\ UNCHANGED <<bufVars, pc, callVars, value, noteVars, kernel, handler_ec, frame,
                   netVars, seenVars, fault>>

\* The call goes on after p.wait(): it looks at the error code and the value
\* before it leaves their scope; a notification not yet run outlives them.
Resume(k) ==
    /\ pc = "result" /\ ~fault
    /\ op = k
    /\ frame' = FALSE /\ named' = FALSE
    /\ notes' = {"stale" : n \in notes}

-----------------------------------------------------------------------------
(* Reading: sbumpc() of std::streambuf takes a byte, if need be by underflow() *)

\* The test at the beginning of underflow().  Mutant: gptr() >= egptr().
AtOrPastEnd == get = <<>>
AtEnd == get = <<>> /\ ~past

GetBuffered ==
    /\ Idle
    /\ get # <<>>
    /\ received' = Append(received, Head(get))
    /\ get' = Tail(get)
    /\ UNCHANGED <<past, put, unbuffered, pc, callVars, promVars, noteVars, ioVars, netVars,
                   accepted, outcome, failed, connects, fault>>

\* Otherwise underflow() returns eof at once.
underflow ==
    /\ Idle
    /\ get = <<>> /\ AtEnd
    /\ Len(received) <= MaxArrive
    /\ StartOp("receive")
    /\ UNCHANGED <<bufVars, closing, char, sent, notes, handler, handler_ec, frame, netVars,
                   seenVars, fault>>

\* underflow() returns eof, or sets the get area and returns its first byte, which
\* the caller takes; with an empty area that is whatever the buffer holds.
UnderflowResult ==
    /\ Resume("receive")
    /\ pc' = "idle"
    /\ LeaveCall
    /\ \/ /\ ec
          /\ failed' = failed \cup {"get"}
          /\ UNCHANGED <<get, past, received>>
       \/ /\ ~ec /\ value > 0
          /\ get' = Bytes(taken - value + 1, taken)
          /\ received' = Append(received, taken - value + 1)
          /\ UNCHANGED <<past, failed>>
       \/ /\ ~ec /\ value = 0
          /\ past' = TRUE
          /\ received' = Append(received, 0)
          /\ UNCHANGED <<get, failed>>
    /\ UNCHANGED <<put, unbuffered, kernel, handler, handler_ec, netVars, accepted, outcome,
                   connects, fault>>

-----------------------------------------------------------------------------
(* Writing: sputc(), sync() and close() *)

MayPut == Idle /\ accepted < MaxPut

\* A call that could write returns r to its caller; c is the byte it takes.
Return(r, c) ==
    /\ pc' = "idle"
    /\ LeaveCall
    /\ outcome' = IF r = "ok" /\ c = 0 THEN "synced" ELSE r
    /\ failed' = IF r = "eof" THEN failed \cup {"put"} ELSE failed
    /\ accepted' = IF r = "ok" /\ c # 0 THEN c ELSE accepted

\* sputc() with room in the put area
PutBuffered ==
    /\ MayPut
    /\ ~unbuffered /\ Len(put) < BufferSize
    /\ put' = Append(put, accepted + 1)
    /\ Return("ok", accepted + 1)
    /\ UNCHANGED <<get, past, unbuffered, noteVars, ioVars, netVars, received, connects, fault>>

\* What is left of put after overflow() has sent it.  Mutant: all of it.
PutKept(c) == IF c = 0 THEN put ELSE Append(put, c)
PutAfter(c) == IF c = 0 THEN <<>> ELSE <<c>>

\* overflow( c ) up to its first wait: it sends the byte, or the put area ...
OverflowChar(c) ==
    /\ unbuffered
    /\ StartOp("send_char")
    /\ char' = c /\ sent' = 0 /\ closing' = FALSE
    /\ UNCHANGED <<bufVars, accepted, outcome, failed>>

OverflowBuffer(c, forClose) ==
    /\ ~unbuffered /\ put # <<>>
    /\ StartOp("send")
    /\ char' = c /\ sent' = 0 /\ closing' = forClose
    /\ UNCHANGED <<bufVars, accepted, outcome, failed>>

\* ... and with eof for the byte and nothing in the put area it has nothing to do.
NothingToSend == put = <<>>

\* sputc() without room
PutOverflow ==
    /\ MayPut
    /\ unbuffered \/ Len(put) = BufferSize
    /\ OverflowChar(accepted + 1) \/ OverflowBuffer(accepted + 1, FALSE)
    /\ UNCHANGED <<notes, handler, handler_ec, frame, netVars, received, connects, fault>>

sync ==
    /\ Idle
    /\ \/ OverflowBuffer(0, FALSE)
       \/ NothingToSend /\ Return("ok", 0) /\ UNCHANGED <<bufVars, named, kernel>>
    /\ UNCHANGED <<notes, handler, handler_ec, frame, netVars, received, connects, fault>>

\* The loop of overflow() sends until nothing is left.  Mutant: it sends once.
SentOnce(n) == TRUE
SentAll(n) == n = Len(put)

\* A send came back: an error ends overflow() and leaves the put area as it is;
\* else send the rest, or empty the put area and put the byte there.
OverflowResult ==
    /\ Resume("send")
    /\ \/ /\ ec
          /\ pc' = IF closing THEN "close" ELSE "idle"
          /\ LeaveCall
          /\ outcome' = "eof" /\ failed' = failed \cup {"put"}
          /\ UNCHANGED <<put, kernel, accepted>>
       \/ /\ ~ec /\ ~SentAll(sent + value)
          /\ sent' = sent + value
          /\ StartOp("send")
          /\ UNCHANGED <<put, closing, char, accepted, outcome, failed>>
       \/ /\ ~ec /\ SentAll(sent + value) /\ ~closing
          /\ put' = PutAfter(char)
          /\ Return("ok", char)
          /\ UNCHANGED kernel
       \/ /\ ~ec /\ SentAll(sent + value) /\ closing
          /\ put' = PutAfter(char)
          /\ pc' = "close"
          /\ LeaveCall
          /\ UNCHANGED <<kernel, accepted, outcome, failed>>
    /\ UNCHANGED <<get, past, unbuffered, handler, handler_ec, netVars,
                   received, connects, fault>>

OverflowCharResult ==
    /\ Resume("send_char")
    /\ Return(IF ec THEN "eof" ELSE "ok", char)
    /\ UNCHANGED <<bufVars, kernel, handler, handler_ec, netVars, received, connects, fault>>

\* setbuf( 0, 0 )
setbuf ==
    /\ Idle
    /\ ~unbuffered /\ put = <<>>
    /\ unbuffered' = TRUE
    /\ UNCHANGED <<get, past, put, pc, callVars, promVars, noteVars, ioVars, netVars, seenVars,
                   fault>>

-----------------------------------------------------------------------------
(* Connections *)

\* The streams of a connection that was given up are over.
NewConnection ==
    /\ eof' = FALSE /\ arrived' = 0 /\ taken' = 0 /\ wire' = <<>>
    /\ accepted' = 0 /\ received' = <<>> /\ outcome' = "none" /\ failed' = {}

\* connect( endpoint ) waits for the io_service; ...
connect ==
    /\ Idle /\ connects < MaxConnects
    /\ connects' = connects + 1
    /\ init_buffers
    /\ NewConnection
    /\ up' = FALSE
    /\ StartOp("connect")
    /\ UNCHANGED <<unbuffered, closing, char, sent, notes, handler, handler_ec, frame, fault>>

ConnectResult ==
    /\ Resume("connect")
    /\ pc' = "idle"
    /\ LeaveCall
    /\ UNCHANGED <<bufVars, kernel, handler, handler_ec, netVars, seenVars, fault>>

\* ... connect( query ) resolves and tries one endpoint after the other itself,
\* blocking the OS thread.
resolve_and_connect ==
    /\ Idle /\ connects < MaxConnects
    /\ connects' = connects + 1
    /\ init_buffers
    /\ NewConnection
    /\ up' \in BOOLEAN
    /\ UNCHANGED <<unbuffered, pc, callVars, promVars, noteVars, ioVars, fault>>

\* close(): sync(), whose result is ignored, ...
close ==
    /\ Idle
    /\ \/ OverflowBuffer(0, TRUE)
       \/ /\ NothingToSend
          /\ pc' = "close"
          /\ UNCHANGED <<bufVars, callVars, promVars, named, kernel, accepted, outcome, failed>>
    /\ UNCHANGED <<notes, handler, handler_ec, frame, netVars, received, connects, fault>>

\* ... the socket is closed, and without an error the buffers start over.
CloseSocket ==
    /\ pc = "close" /\ ~fault
    /\ pc' = "idle"
    /\ up' = FALSE
    /\ \/ init_buffers /\ NewConnection
       \/ UNCHANGED <<get, past, put, eof, arrived, taken, wire, accepted, received, outcome, failed>>
    /\ UNCHANGED <<unbuffered, callVars, promVars, noteVars, ioVars, connects, fault>>

\* The peer sends, closes its side, or is lost.
Arrive ==
    /\ up /\ ~eof /\ arrived < MaxArrive /\ ~fault
    /\ arrived' = arrived + 1
    /\ UNCHANGED <<bufVars, pc, callVars, promVars, noteVars, ioVars, up, eof, taken, wire,
                   seenVars, fault>>

PeerCloses ==
    /\ up /\ ~eof /\ ~fault
    /\ eof' = TRUE
    /\ UNCHANGED <<bufVars, pc, callVars, promVars, noteVars, ioVars, up, arrived, taken, wire,
                   seenVars, fault>>

ConnectionLost ==
    /\ up /\ ~fault
    /\ up' = FALSE
    /\ UNCHANGED <<bufVars, pc, callVars, promVars, noteVars, ioVars, eof, arrived, taken, wire,
                   seenVars, fault>>

-----------------------------------------------------------------------------
CallStep == \/ WaitCall \/ WaitBlock \/ RunOwn
            \/ UnderflowResult \/ OverflowResult \/ OverflowCharResult
            \/ ConnectResult \/ CloseSocket
IoStep == \/ CompleteReceive \/ CompleteSend \/ CompleteConnect
          \/ HandlerNotify \/ HandlerCode

Next == \/ CallStep \/ IoStep \/ RunStale
        \/ GetBuffered \/ underflow
        \/ PutBuffered \/ PutOverflow \/ sync \/ setbuf
        \/ connect \/ resolve_and_connect \/ close
        \/ Arrive \/ PeerCloses \/ ConnectionLost

\* The context goes on when it can, its thread runs what is posted to it, and the
\* io_service thread runs.
Spec == Init /\ [][Next]_vars /\ WF_vars(CallStep) /\ WF_vars(IoStep)

-----------------------------------------------------------------------------
(* Properties *)

\* The members of basic_socket_streambuf keep their types: the put area never
\* holds more than buffer_size bytes and overflow() never sends beyond it.
TypeOK ==
    /\ get \in Seq(1..arrived) /\ past \in BOOLEAN
    /\ put \in Seq(1..MaxPut) /\ Len(put) <= BufferSize
    /\ unbuffered \in BOOLEAN
    /\ pc \in {"idle", "call", "enqueued", "blocked", "result", "close"}
    /\ op \in {"none", "receive", "send", "send_char", "connect"}
    /\ closing \in BOOLEAN
    /\ char \in 0..MaxPut /\ sent \in 0..BufferSize
    /\ value \in -1..BufferSize /\ ec \in BOOLEAN
    /\ named \in BOOLEAN /\ notes \subseteq {"own", "stale"}
    /\ kernel \in BOOLEAN
    /\ handler \in {"none", "notify", "notify_last", "code"}
    /\ handler_ec \in BOOLEAN /\ frame \in BOOLEAN
    /\ up \in BOOLEAN /\ eof \in BOOLEAN
    /\ arrived \in 0..MaxArrive /\ taken \in 0..arrived
    /\ wire \in Seq(1..MaxPut)
    /\ accepted \in 0..MaxPut /\ received \in Seq(0..arrived)
    /\ outcome \in {"none", "ok", "synced", "eof"}
    /\ failed \subseteq {"get", "put"}
    /\ connects \in 0..MaxConnects /\ fault \in BOOLEAN

\* Until a call of overflow() or sync() has returned eof, or a frame that is gone was
\* used (fault), what is on the wire is what was put into the stream, in order, without
\* gaps or repetitions: however the kernel cuts the sends, whether or not the context
\* sees the error code that read_write_handler_ec stores after the value, and if a
\* notification of an earlier call wakes it before its own.
WireInOrder == ~fault /\ "put" \notin failed => wire = Bytes(0, Len(wire))

\* Until a frame that is gone was used, a sync() of a buffered stream that returns success
\* has sent every byte that was put into the stream, also when a send failed and the error
\* code came too late to be seen: a failed send counts no bytes, so the loop sends again.
SyncMeansSent ==
    ~fault /\ outcome = "synced" /\ ~unbuffered
        => \A b \in 1..accepted : \E i \in DOMAIN wire : wire[i] = b

\* Until underflow() has returned eof, or a frame that is gone was used, the bytes got from
\* the stream are those the peer sent, in order; an end of the stream that was not seen
\* (the error code came too late) adds one byte at most, and no byte follows it.
ReadIsStream ==
    ~fault /\ "get" \notin failed =>
        \A i \in DOMAIN received : received[i] = i \/ (received[i] = 0 /\ i = Len(received))

\* A call comes back: underflow() when bytes arrive, the peer closes or is lost,
\* connect() and close() always, overflow() while the connection works.  The
\* promise is set by another OS thread at any moment of p.wait(), and notified after.
CallEnds ==
    (pc # "idle" /\ ~(op = "receive" /\ up /\ ~eof /\ arrived = taken))
        ~> (pc = "idle" \/ fault \/ (op = "send" /\ ~up))
=============================================================================
