----------------------------- MODULE AsyncCalls -----------------------------
(***************************************************************************)
(* Calls that wait for a promise which somebody else sets: the asio        *)
(* wrappers (asio.hpp, asio.cpp, udp/socket.cpp), wait() on a signal       *)
(* (signals.hpp), async(), sync() and create() of threads (thread.hpp).     *)
(* The module follows the promise from its allocation to its deletion:     *)
(* the reference count of retainable.hpp, the handler that comes after the *)
(* caller has timed out, the notification that is still posted when the    *)
(* call is over, and addresses that are used again.  Futures are copied,   *)
(* so calls of several threads may wait for one promise.                   *)
(*                                                                         *)
(* Contexts of one thread are scheduled cooperatively (CmtThread); a step  *)
(* here is one access to what several OS threads share.                    *)
(***************************************************************************)
EXTENDS Integers, FiniteSets

CONSTANTS Threads,   \* the cmt::threads that make calls
          Calls,     \* calls in progress; a task, with its stack frame, each
          Cells,     \* heap addresses a promise can have
          Kinds,     \* the kinds of calls that each task makes
          MaxPosted, \* bound: sync() is called with no more notifications of a frame posted
          NULL

KindNames == {"io", "code", "signal", "sync"}
ASSUME KindsAssumption == Kinds \in [Calls -> SUBSET KindNames]
ASSUME NamesAssumption == /\ Calls \cap Cells = {}
                          /\ NULL \notin Threads \cup Calls \cup Cells \cup KindNames
ASSUME BoundAssumption == IsFiniteSet(Calls) /\ IsFiniteSet(Threads) /\ MaxPosted \in Nat

VARIABLES
    promise,    \* what is at an address
    pc,         \* where the call is
    kind, home, \* what it is, and the thread that makes it
    prom,       \* the address of the promise it waits for
    timed,      \* is its context in the heap of sleepers, or going there?
    outcome,    \* how it ended
    shared,     \* did it have its future in common with another call?
    op,         \* the operation it started, up to the destruction of its handler
    posted      \* how many thread::notify( p ) a thread has in its queue

callVars == <<pc, kind, home, prom, timed, outcome, shared>>
vars == <<promise, pc, kind, home, prom, timed, outcome, shared, op, posted>>

Addresses == Cells \cup Calls  \* sync() keeps its promise in its own frame

\* A promise with n references.
NewPromise(n) == [m_ref_count |-> n, m_value |-> FALSE, m_error |-> "none",
                  m_blocked_thread |-> NULL]
Deleted == NewPromise(0)

Init == /\ promise = [a \in Addresses |-> Deleted]
        /\ pc = [c \in Calls |-> "idle"]
        /\ kind = [c \in Calls |-> NULL]
        /\ home = [c \in Calls |-> NULL]
        /\ prom = [c \in Calls |-> NULL]
        /\ timed = [c \in Calls |-> FALSE]
        /\ outcome = [c \in Calls |-> "none"]
        /\ shared = [c \in Calls |-> FALSE]
        /\ op = [c \in Calls |-> "none"]
        /\ posted = [t \in Threads |-> [a \in Addresses |-> 0]]

ready(p) == p.m_error # "none" \/ p.m_value

At(c) == promise[prom[c]]
SetAt(a, p) == promise' = [promise EXCEPT ![a] = p]

\* A thread runs one context at a time: these calls keep it busy.
RunsAlone(c) == \A d \in Calls \ {c} : home[d] = home[c] => pc[d] \in {"idle", "blocked", "ready"}
LoopRuns(t) == \A d \in Calls : home[d] = t => pc[d] \in {"idle", "blocked", "ready"}

-----------------------------------------------------------------------------
(* retainable.hpp *)

\* n more references.  Mutant: a pointer that does not count.
NoRetain(p, n) == p
retain(p, n) == [p EXCEPT !.m_ref_count = @ + n]

\* n references less; what has none left is deleted.  Mutant: one is given up twice.
ReleaseTwice(p, n) == IF p.m_ref_count = n + 1 THEN Deleted
                                               ELSE [p EXCEPT !.m_ref_count = @ - n - 1]
release(p, n) == IF p.m_ref_count = n THEN Deleted
                                      ELSE [p EXCEPT !.m_ref_count = @ - n]

-----------------------------------------------------------------------------
(* The calls, up to promise::wait *)

\* The call c of thread t starts an operation with its own promise at address a.
\* The references are those of p and of the copy bound to the handler.
Start(c, t, a, k, refs, mayTime) ==
    /\ k \in Kinds[c]
    /\ pc[c] = "idle" /\ op[c] = "none"
    /\ LoopRuns(t)
    /\ SetAt(a, NewPromise(refs))
    /\ pc' = [pc EXCEPT ![c] = "wait"]
    /\ kind' = [kind EXCEPT ![c] = k]
    /\ home' = [home EXCEPT ![c] = t]
    /\ prom' = [prom EXCEPT ![c] = a]
    /\ \E b \in mayTime : timed' = [timed EXCEPT ![c] = b]
    /\ outcome' = [outcome EXCEPT ![c] = "none"]
    /\ shared' = [shared EXCEPT ![c] = FALSE]
    /\ op' = [op EXCEPT ![c] = "pending"]
    /\ UNCHANGED posted

\* The allocator: cells are alike, so it is enough to take any one that is free.
FreeCells == {a \in Cells : promise[a].m_ref_count = 0}
New(c, t, k, mayTime) == /\ FreeCells # {}
                         /\ Start(c, t, CHOOSE a \in FreeCells : TRUE, k, 2, mayTime)

\* asio::read, read_some, write, write_some.
ReadWrite(c, t) == New(c, t, "io", BOOLEAN)

\* tcp::accept and tcp::connect: the error code is the value.
AcceptConnect(c, t) == New(c, t, "code", BOOLEAN)

\* udp::receive_from with nothing available.
receive_from(c, t) == New(c, t, "io", {FALSE})

\* tcp::resolve and udp::resolve.
resolve(c, t) == New(c, t, "io", BOOLEAN)

\* wait( signal ): set_value is connected to the signal while the call lasts.
SignalWait(c, t) == New(c, t, "signal", BOOLEAN)

\* thread::create: the new thread sets the promise in start_thread, and has its
\* reference until its exec() ends.
create(c, t) == New(c, t, "code", {FALSE})

\* async( f ) on another thread, and wait() on its future: the rtask has the
\* second reference.
AsyncWait(c, t) == New(c, t, "io", BOOLEAN)

\* The references of a promise on the stack: its own and two more so that no
\* release() deletes it, one of them p's, and that of the rtask.
StackRefs == 1 + 2 + 1

\* sync( f ) on another thread: promise and rtask are in the frame of the call,
\* where an earlier call may have had its own.
SyncCall(c, t) == /\ \A u \in Threads, d \in Calls : posted[u][d] <= MaxPosted
                  /\ Start(c, t, c, "sync", StackRefs, BOOLEAN)

\* The call c waits for a copy of the future of another call.  Several contexts
\* of one thread that wait for one promise are CmtThread's.
WaitCopy(c, t) ==
    /\ "io" \in Kinds[c]
    /\ pc[c] = "idle" /\ op[c] = "none"
    /\ LoopRuns(t)
    /\ \E d \in Calls :
          /\ pc[d] # "idle" /\ kind[d] = "io"
          /\ \A e \in Calls : pc[e] # "idle" /\ prom[e] = prom[d] => home[e] # t
          /\ SetAt(prom[d], retain(At(d), 1))
          /\ prom' = [prom EXCEPT ![c] = prom[d]]
          /\ shared' = [e \in Calls |-> shared[e] \/ e = c \/ (pc[e] # "idle" /\ prom[e] = prom[d])]
    /\ pc' = [pc EXCEPT ![c] = "wait"]
    /\ kind' = [kind EXCEPT ![c] = "io"]
    /\ home' = [home EXCEPT ![c] = t]
    /\ \E b \in BOOLEAN : timed' = [timed EXCEPT ![c] = b]
    /\ outcome' = [outcome EXCEPT ![c] = "none"]
    /\ UNCHANGED <<op, posted>>

-----------------------------------------------------------------------------
(* promise::wait *)

\* The call returns or throws: its n references to p go, and with them the slot
\* that wait( signal ) connected, or the frame of sync().
Leave(c, o, p, n) ==
    /\ pc' = [pc EXCEPT ![c] = "idle"]
    /\ outcome' = [outcome EXCEPT ![c] = o]
    /\ op' = [op EXCEPT ![c] = IF kind[c] = "signal" THEN "none" ELSE @]
    /\ SetAt(prom[c], IF kind[c] = "sync" THEN Deleted
                      ELSE release(p, IF kind[c] = "signal" THEN n + 1 ELSE n))
    /\ home' = [home EXCEPT ![c] = NULL]
    /\ timed' = [timed EXCEPT ![c] = FALSE]
    /\ UNCHANGED <<kind, prom, shared, posted>>

Goto(c, to) == /\ pc' = [pc EXCEPT ![c] = to]
               /\ UNCHANGED <<kind, home, prom, timed, outcome, shared, op, posted>>

\* Under the promise's mutex: a result, or leave word which thread to notify.
\* promise_base::wait has a reference of its own then.
enqueue_thread(c) == [retain(At(c), 1) EXCEPT !.m_blocked_thread = home[c]]

WaitCheck(c) ==
    /\ pc[c] = "wait"
    /\ \/ At(c).m_error # "none" /\ Leave(c, At(c).m_error, At(c), 1)
       \/ At(c).m_error = "none" /\ At(c).m_value /\ Leave(c, "value", At(c), 1)
       \/ ~ready(At(c)) /\ SetAt(prom[c], enqueue_thread(c)) /\ Goto(c, "enter")

\* thread::wait: ready() once more, a deadline that has passed, else block.
ThreadWait(c) ==
    /\ pc[c] = "enter"
    /\ \/ ready(At(c)) /\ Goto(c, "result") /\ UNCHANGED promise
       \/ ~ready(At(c)) /\ timed[c] /\ Leave(c, "timeout", At(c), 2)
       \/ ~ready(At(c)) /\ Goto(c, "blocked") /\ UNCHANGED promise

\* The context runs again and looks for the result; an error is taken away.
WaitResult(c) ==
    /\ pc[c] \in {"ready", "result"}
    /\ RunsAlone(c)
    /\ Leave(c, CASE At(c).m_error # "none" -> At(c).m_error
                  [] At(c).m_error = "none" /\ At(c).m_value -> "value"
                  [] ~ready(At(c)) -> "not_ready",
             [At(c) EXCEPT !.m_error = "none"], 2)

-----------------------------------------------------------------------------
(* thread::notify *)

Waiters(t, a) == {c \in Calls : pc[c] = "blocked" /\ home[c] = t /\ prom[c] = a}

\* The context of t that is blocked on the promise becomes ready, and leaves the
\* heap of sleepers.
Unblock(t, a) ==
    /\ pc' = [c \in Calls |-> IF c \in Waiters(t, a) THEN "ready" ELSE pc[c]]
    /\ timed' = [c \in Calls |-> timed[c] /\ c \notin Waiters(t, a)]

Post(t, a) == posted' = [posted EXCEPT ![t][a] = @ + 1]

\* check_for_timeouts: the deadline of c has come, its promise gets the error,
\* and the thread that is named there is notified, directly or by a task.
Timeout(c) ==
    LET p == [At(c) EXCEPT !.m_error = "timeout"] IN
    /\ pc[c] = "blocked" /\ timed[c]
    /\ LoopRuns(home[c])
    /\ IF p.m_blocked_thread = home[c]
       THEN SetAt(prom[c], p) /\ Unblock(home[c], prom[c]) /\ UNCHANGED posted
       ELSE /\ SetAt(prom[c], retain(p, 1))
            /\ Post(p.m_blocked_thread, prom[c])
            /\ timed' = [timed EXCEPT ![c] = FALSE]
            /\ UNCHANGED pc
    /\ UNCHANGED <<kind, home, prom, outcome, shared, op>>

\* The posted notification runs, and its task is deleted with its reference.
\* What it does to a frame that is gone is not followed.
NotifyTask(t, a) ==
    /\ posted[t][a] > 0
    /\ LoopRuns(t)
    /\ posted' = [posted EXCEPT ![t][a] = @ - 1]
    /\ Unblock(t, a)
    /\ SetAt(a, IF promise[a] = Deleted THEN Deleted ELSE release(promise[a], 1))
    /\ UNCHANGED <<kind, home, prom, outcome, shared, op>>

-----------------------------------------------------------------------------
(* The other side: a handler in the io_service thread, an rtask in another    *)
(* cmt::thread, or a slot of a signal that a context of the same thread emits. *)

OpTo(c, to) == op' = [op EXCEPT ![c] = to] /\ UNCHANGED callVars

\* The operation is over; if its call is too, nothing of it is left to remember.
OpOver(c) ==
    /\ op' = [op EXCEPT ![c] = "none"]
    /\ IF pc[c] # "idle" THEN UNCHANGED callVars
       ELSE /\ kind' = [kind EXCEPT ![c] = NULL]
            /\ prom' = [prom EXCEPT ![c] = NULL]
            /\ outcome' = [outcome EXCEPT ![c] = "none"]
            /\ shared' = [shared EXCEPT ![c] = FALSE]
            /\ UNCHANGED <<pc, home, timed>>

\* The frame of a sync() call that is over: its task still works on it, with
\* effects that depend on what is there now and are not followed here.
FrameGone(c) == kind[c] = "sync" /\ pc[c] = "idle"

\* promise::set_value: nothing happens if there is an error.
Valued(p) == [p EXCEPT !.m_value = p.m_error = "none" \/ @]

SetValue(c) ==
    /\ op[c] = "pending" /\ kind[c] # "signal" /\ ~FrameGone(c)
    /\ SetAt(prom[c], Valued(At(c)))
    /\ OpTo(c, IF At(c).m_error = "none" THEN "notify" ELSE "drop")
    /\ UNCHANGED posted

\* read_write_handler, resolve_handler, rw_handler and rtask::run with an error.
SetException(c) ==
    /\ op[c] = "pending" /\ kind[c] \in {"io", "sync"} /\ ~FrameGone(c)
    /\ SetAt(prom[c], [At(c) EXCEPT !.m_error = "error"])
    /\ OpTo(c, "notify")
    /\ UNCHANGED posted

\* promise_base::notify, after the mutex is released; the task it posts has a
\* reference of its own.  Mutant: only a context that is blocked by now is told.
ToldIfBlocked(c) == IF pc[c] = "blocked" THEN At(c).m_blocked_thread ELSE NULL
Told(c) == At(c).m_blocked_thread

Notify(c) ==
    /\ op[c] = "notify" /\ ~FrameGone(c)
    /\ IF Told(c) = NULL
       THEN UNCHANGED <<promise, posted>>
       ELSE SetAt(prom[c], retain(At(c), 1)) /\ Post(Told(c), prom[c])
    /\ OpTo(c, "drop")

\* The handler, or the rtask of async(), is destroyed.  The rtask of sync() is
\* released only: it goes with its frame.
Drop(c) ==
    /\ op[c] = "drop" /\ ~FrameGone(c)
    /\ SetAt(prom[c], IF kind[c] = "sync" THEN At(c) ELSE release(At(c), 1))
    /\ OpOver(c)
    /\ UNCHANGED posted

\* The task of a sync() call that is over.
TouchGone(c) == op[c] # "none" /\ FrameGone(c) /\ OpOver(c) /\ UNCHANGED <<promise, posted>>

\* The signal is emitted, for the first time or again.
Emit(c) ==
    /\ op[c] = "pending" /\ kind[c] = "signal"
    /\ LoopRuns(home[c])
    /\ SetAt(prom[c], Valued(At(c)))
    /\ IF At(c).m_error = "none" THEN Unblock(home[c], prom[c]) ELSE UNCHANGED <<pc, timed>>
    /\ UNCHANGED <<kind, home, prom, outcome, shared, op, posted>>

-----------------------------------------------------------------------------
CallStep(c) == WaitCheck(c) \/ ThreadWait(c) \/ WaitResult(c)
OpEnds(c) == Notify(c) \/ Drop(c)

Next == \/ \E c \in Calls, t \in Threads :
              \/ ReadWrite(c, t) \/ AcceptConnect(c, t) \/ receive_from(c, t) \/ resolve(c, t)
              \/ create(c, t) \/ SignalWait(c, t) \/ AsyncWait(c, t) \/ SyncCall(c, t)
              \/ WaitCopy(c, t)
        \/ \E c \in Calls : CallStep(c) \/ Timeout(c)
        \/ \E t \in Threads, a \in Addresses : NotifyTask(t, a)
        \/ \E c \in Calls : SetValue(c) \/ SetException(c) \/ OpEnds(c) \/ TouchGone(c) \/ Emit(c)

Spec == Init /\ [][Next]_vars

-----------------------------------------------------------------------------
(* Properties *)

\* The type of every variable; no count on the heap goes below 0.  In a frame it may: a
\* late notification of an earlier sync() takes its reference from what is there now.
TypeOK == /\ promise \in [Addresses -> [m_ref_count : Int, m_value : BOOLEAN,
                                        m_error : {"none", "timeout", "error"},
                                        m_blocked_thread : Threads \cup {NULL}]]
          /\ \A a \in Cells : promise[a].m_ref_count \in Nat
          /\ pc \in [Calls -> {"idle", "wait", "enter", "blocked", "ready", "result"}]
          /\ kind \in [Calls -> KindNames \cup {NULL}]
          /\ home \in [Calls -> Threads \cup {NULL}]
          /\ prom \in [Calls -> Addresses \cup {NULL}]
          /\ timed \in [Calls -> BOOLEAN]
          /\ outcome \in [Calls -> {"none", "value", "error", "timeout", "not_ready"}]
          /\ shared \in [Calls -> BOOLEAN]
          /\ op \in [Calls -> {"none", "pending", "notify", "drop"}]
          /\ posted \in [Threads -> [Addresses -> Nat]]

\* Who has a pointer to the promise at a: the variables p and the parameter of
\* promise_base::wait of the calls, the handlers, and the posted notifications.
Users(a) == {c \in Calls : prom[c] = a /\ pc[c] # "idle"}
InWait(a) == {c \in Calls : prom[c] = a /\ pc[c] \notin {"idle", "wait"}}
Handlers(a) == {c \in Calls : prom[c] = a /\ op[c] # "none"}
Notices(a) == UNION {{t} \X (1..posted[t][a]) : t \in Threads}
Holders(a) == Cardinality(Users(a)) + Cardinality(InWait(a)) + Cardinality(Handlers(a))
                + Cardinality(Notices(a))

\* A promise on the heap is deleted when the last of its holders lets go, neither
\* before nor never: the caller that timed out, the late handler and the posted
\* notification may come in any order (retainable::release, promise_base::notify).
CountIsHolders == \A a \in Cells : promise[a].m_ref_count = Holders(a)

\* A call reports a value or an error only if its own operation produced it:
\* neither a late handler nor a late notification of an earlier call reaches the
\* promise that got the address since (read_write_handler, thread::notify).
ResultIsOwn ==
    \A c \in Calls :
        /\ outcome[c] \in {"value", "error"} => op[c] # "pending"
        /\ outcome[c] = "not_ready" => kind[c] = "sync" \/ shared[c]

\* What sync() is asked for: a wait ends with a value, an exception or a timeout
\* (future.hpp, "until one of three conditions are met").
SyncEndsByResult == \A c \in Calls : kind[c] = "sync" => outcome[c] # "not_ready"

\* No wakeup of the thread that a promise names is lost: while its context is
\* blocked on a promise that is set, the notification is on its way, however the
\* setting raced with the blocking (promise::wait unlocks before it blocks,
\* set_value before it notifies).  A thread whose name was overwritten is not woken.
WakeupOnItsWay ==
    \A c \in Calls :
        pc[c] = "blocked" /\ ready(At(c)) /\ At(c).m_blocked_thread = home[c]
            => \/ posted[home[c]][prom[c]] > 0
               \/ \E d \in Calls : prom[d] = prom[c] /\ op[d] = "notify"
=============================================================================
