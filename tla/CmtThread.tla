----------------------------- MODULE CmtThread -----------------------------
(***************************************************************************)
(* The cooperative scheduler of one cmt::thread (src/src/thread.cpp) with  *)
(* the promises its contexts wait on (future.hpp, future.cpp) and the      *)
(* tasks it runs (task.hpp).  Other OS threads appear as the steps that    *)
(* set a promise, notify this thread of it, or post a task; how a posted   *)
(* task reaches this thread and wakes it is the business of TaskQueue.     *)
(*                                                                         *)
(* A step runs from one access to state that another OS thread can touch   *)
(* (a promise, the task list, the clock) to the next, or from one          *)
(* scheduling decision to the next.                                        *)
(*                                                                         *)
(* Every future is both a promise and a task: for a local future the       *)
(* rtask that this thread runs to set it, for a remote one the vtask by    *)
(* which another thread runs thread::notify here.                          *)
(***************************************************************************)
EXTENDS Integers, Sequences, FiniteSets, SequencesExt, FiniteSetsExt

CONSTANTS
    Contexts,        \* cmt_context objects
    Main,            \* the context of the OS thread's own stack
    LocalFutures,    \* promises set by a task of this thread
    RemoteFutures,   \* promises set by another OS thread
    NULL,
    Prio,            \* [Futures -> priority of the task]
    Calls,           \* the library calls that task bodies make
    Delays,          \* the timeouts and sleeping times they use
    RemoteOutcomes,  \* what another thread sets: subset of {"value", "error"}
    MaxCalls,        \* bound: calls made by one task body
    MaxWaiters,      \* bound: contexts inside wait() on one promise
    Numbers,         \* the numbers that tasks get: the counter is shared without a lock
    MaxTime          \* bound: the last value of the clock

Futures == LocalFutures \cup RemoteFutures

ASSUME ContextAssumption == Main \in Contexts /\ IsFiniteSet(Contexts)
ASSUME FutureAssumption  == LocalFutures \cap RemoteFutures = {} /\ IsFiniteSet(Futures)
ASSUME NullAssumption    == NULL \notin Contexts \cup Futures
ASSUME BoundAssumption   == MaxCalls \in Nat /\ MaxWaiters \in Nat /\ MaxTime \in Nat
ASSUME DelayAssumption   == Delays \subseteq Nat
ASSUME NumberAssumption  == Numbers \subseteq Nat
ASSUME PrioAssumption    == Prio \in [Futures -> Int]

Past    == -1           \* system_clock::time_point::min()
Forever == MaxTime + 1  \* system_clock::time_point::max()

VARIABLES
    now,              \* system_clock::now()
    fault,            \* "none", or the assertion or crash that stopped the thread
    \* thread_private
    current,          \* the running context; NULL until Main is first switched from
    ready,            \* the list ready_head .. ready_tail
    blocked,          \* the list linked by next_blocked
    sleep_pqueue,     \* how often each context is in the heap of sleepers
    task_in_queue, task_pqueue, task_sch_queue,
    done,
    \* cmt_context, and the locals of the calls on its stack
    prom, resume_time, canceled,
    pc,               \* where the context is
    then,             \* where check_for_timeouts() returns to
    call,             \* who called start_next_task()
    arg,              \* the promise its wait() is about, or NULL
    timeout,          \* the deadline its wait() was given
    next,             \* process_tasks: the task in hand, or NULL
    timeout_time,     \* process_tasks: until when block_wait may sleep
    cur,              \* quit: the context its walk is at, or NULL
    \* promise
    m_value, m_error, m_blocked_thread,
    \* task
    stage, when, posted_num, task_canceled, active_context,
    calls,            \* library calls its body has made
    pushed,           \* ghost: how many tasks had been put on the list with it
    \* the other OS threads
    remote            \* where the one that sets each remote promise is

listVars  == <<ready, blocked, sleep_pqueue>>
queueVars == <<task_in_queue, task_pqueue, task_sch_queue>>
ctxVars   == <<resume_time, canceled, then, call, arg, timeout, timeout_time, cur>>
promVars  == <<m_value, m_error, m_blocked_thread>>
postVars  == <<when, posted_num, pushed>>
taskVars  == <<task_canceled, active_context, calls>>
vars == <<now, fault, current, ready, blocked, sleep_pqueue, task_in_queue,
          task_pqueue, task_sch_queue, done, prom, resume_time, canceled, pc,
          then, call, arg, timeout, next, timeout_time, cur, m_value, m_error,
          m_blocked_thread, stage, when, posted_num, task_canceled,
          active_context, calls, pushed, remote>>

Running == IF current = NULL THEN Main ELSE current

\* A context pushed on a list that holds it already closes the list of next
\* or next_blocked pointers to a cycle: what the thread does then is undefined.
Corrupt(q) == \E i, j \in DOMAIN q : i # j /\ q[i] = q[j]

At(c, label) == /\ pc[c] = label /\ c = Running
                /\ fault = "none" /\ ~Corrupt(ready) /\ ~Corrupt(blocked)

Init ==
    /\ now = 0 /\ fault = "none"
    /\ current = NULL
    /\ ready = <<>> /\ blocked = <<>>
    /\ sleep_pqueue = [c \in Contexts |-> 0]
    /\ task_in_queue = {} /\ task_pqueue = {} /\ task_sch_queue = {}
    /\ done = FALSE
    /\ prom = [c \in Contexts |-> NULL]
    /\ resume_time = [c \in Contexts |-> Forever]
    /\ canceled = [c \in Contexts |-> FALSE]
    /\ pc = [c \in Contexts |-> IF c = Main THEN "begin" ELSE "unused"]
    /\ then = [c \in Contexts |-> "top"]
    /\ call = [c \in Contexts |-> "process_tasks"]
    /\ arg = [c \in Contexts |-> NULL]
    /\ timeout = [c \in Contexts |-> Forever]
    /\ next = [c \in Contexts |-> NULL]
    /\ timeout_time = [c \in Contexts |-> Past]
    /\ cur = NULL
    /\ m_value = [f \in Futures |-> FALSE]
    /\ m_error = [f \in Futures |-> "none"]
    /\ m_blocked_thread = [f \in Futures |-> FALSE]
    /\ stage = [f \in Futures |-> "new"]
    /\ when = [f \in Futures |-> Past]
    /\ posted_num = [f \in Futures |-> 0]
    /\ task_canceled = [f \in Futures |-> FALSE]
    /\ active_context = [f \in Futures |-> NULL]
    /\ calls = [f \in Futures |-> 0]
    /\ pushed = [f \in Futures |-> 0]
    /\ remote = [f \in RemoteFutures |-> "idle"]

-----------------------------------------------------------------------------
(* Task queues *)

\* Mutant: the heap yields the newest task first.
PriorityFrontNewest(Q) ==
    {t \in Q : \A u \in Q : \/ Prio[u] < Prio[t]
                            \/ Prio[u] = Prio[t] /\ posted_num[t] >= posted_num[u]}

\* task_priority_less: highest priority first, then lowest posted_num.
PriorityFront(Q) ==
    {t \in Q : \A u \in Q : \/ Prio[u] < Prio[t]
                            \/ Prio[u] = Prio[t] /\ posted_num[t] <= posted_num[u]}

\* task_when_less makes task_sch_queue a heap with the LATEST task in front.
ScheduleFront(Q) == {t \in Q : \A u \in Q : when[u] <= when[t]}

\* enqueue(): a posted task goes to one of the two heaps, by its time.
\* Mutant: a task due at the next tick goes to neither.
LaterSkipsNext(Q) == {t \in Q : when[t] > now + 1}
Later(Q) == {t \in Q : when[t] > now}
Due(Q)   == {t \in Q : when[t] <= now}

\* dequeue(): enqueue() the posted tasks, then take the front of the scheduled
\* tasks if it is due, else the front of the others.
dequeue(c) ==
    LET sch == task_sch_queue \cup Later(task_in_queue)
        pq  == task_pqueue \cup Due(task_in_queue)
        due == Due(ScheduleFront(sch))
    IN
    /\ task_in_queue' = {}
    /\ \/ \E t \in due :
             /\ next' = [next EXCEPT ![c] = t]
             /\ task_sch_queue' = sch \ {t}
             /\ task_pqueue' = pq
       \/ /\ due = {}
          /\ task_sch_queue' = sch
          /\ \/ \E t \in PriorityFront(pq) :
                   /\ next' = [next EXCEPT ![c] = t]
                   /\ task_pqueue' = pq \ {t}
             \/ /\ pq = {}
                /\ next' = [next EXCEPT ![c] = NULL]
                /\ task_pqueue' = {}

\* thread::async( task ): the task has been constructed, which numbered it, and is
\* put on the list.  Any thread may have numbered tasks in between.
Post(t, w) ==
    /\ stage[t] = "new"
    /\ stage' = [stage EXCEPT ![t] = "posted"]
    /\ when' = [when EXCEPT ![t] = w]
    /\ \E n \in Numbers : posted_num' = [posted_num EXCEPT ![t] = n]
    /\ pushed' = [pushed EXCEPT ![t] = 1 + Cardinality({u \in Futures : stage[u] # "new"})]
    /\ task_in_queue' = task_in_queue \cup {t}
    /\ UNCHANGED <<task_pqueue, task_sch_queue>>

\* A post by another thread also wakes process_tasks if it sleeps.
\* Mutant: it does not.
WakeNobody == UNCHANGED pc
Wake == pc' = [c \in Contexts |-> IF pc[c] = "cv_wait" THEN "top" ELSE pc[c]]

-----------------------------------------------------------------------------
(* Promises *)

\* promise::ready
Ready(p) == m_value[p] \/ m_error[p] # "none"

\* The ready list with c pushed in front.  Mutant: pushed at the back.
ReadyPushLast(q, c) == Append(q, c)
ready_push_front(q, c) == <<c>> \o q

\* cmt_context::try_unblock.  Mutant: any promise will do.
UnblockByAny(c, p) == prom[c] # NULL
try_unblock(c, p) == prom[c] = p

\* The sleepers that wait for p.  Mutants: a context counts that has no entry
\* in the heap; the entry stays in the heap.
AllWaiters(p, sleepers) == {x \in Contexts : prom[x] = p}
NoTimedWaiters(p, sleepers) == {}
TimedWaiters(p, sleepers) == {x \in Contexts : sleepers[x] > 0 /\ prom[x] = p}

\* thread::notify on its own thread.  The walk over the blocked list ends at
\* the first context it unblocks, whose next_blocked it has just cleared; then
\* one sleeper that waits for p leaves the heap and forgets p.
Notify(p, sleepers) ==
    /\ LET hits == {i \in DOMAIN blocked : try_unblock(blocked[i], p)} IN
       IF hits = {}
       THEN UNCHANGED <<ready, blocked>>
       ELSE /\ ready' = ready_push_front(ready, blocked[Min(hits)])
            /\ blocked' = RemoveAt(blocked, Min(hits))
    /\ \/ /\ TimedWaiters(p, sleepers) = {}
          /\ sleep_pqueue' = sleepers
          /\ UNCHANGED prom
       \/ \E x \in TimedWaiters(p, sleepers) :
             /\ sleep_pqueue' = [sleepers EXCEPT ![x] = @ - 1]
             /\ prom' = [prom EXCEPT ![x] = NULL]

\* promise_base::notify, called on this thread.
NotifyPromise(p, sleepers) ==
    IF m_blocked_thread[p]
    THEN Notify(p, sleepers)
    ELSE sleep_pqueue' = sleepers /\ UNCHANGED <<ready, blocked, prom>>

set_exception(p, e, sleepers) ==
    /\ m_error' = [m_error EXCEPT ![p] = e]
    /\ NotifyPromise(p, sleepers)
    /\ UNCHANGED <<m_value, m_blocked_thread>>

\* set_value gives way to an error that is already there, without notifying.
set_value(p) ==
    IF m_error[p] # "none"
    THEN UNCHANGED <<promVars, listVars, prom>>
    ELSE /\ m_value' = [m_value EXCEPT ![p] = TRUE]
         /\ NotifyPromise(p, sleep_pqueue)
         /\ UNCHANGED <<m_error, m_blocked_thread>>

-----------------------------------------------------------------------------
(* check_for_timeouts *)

Goto(c, label) == pc' = [pc EXCEPT ![c] = label]

\* Enter check_for_timeouts(), to go on at label k.
CheckForTimeouts(c, k) == /\ Goto(c, "check")
                          /\ then' = [then EXCEPT ![c] = k]

Sleepers == {c \in Contexts : sleep_pqueue[c] > 0}
SleepFront == {c \in Sleepers : \A d \in Sleepers : resume_time[c] <= resume_time[d]}

\* The time at which the fronts of the two heaps ask for attention.
NextTimeout ==
    Min({Forever} \cup {when[t] : t \in ScheduleFront(task_sch_queue)}
                  \cup {resume_time[c] : c \in SleepFront})

\* The front of the heap if its time has come.  Mutant: one tick too early.
ExpiredEarly == {c \in SleepFront : resume_time[c] <= now + 1}
Expired == {c \in SleepFront : resume_time[c] <= now}

\* One turn of the loop over the expired sleepers.
ExpireSleeper(c) ==
    /\ At(c, "check") \/ At(c, "expire")
    /\ Goto(c, "expire")
    /\ \E x \in Expired :
          LET rest == [sleep_pqueue EXCEPT ![x] = @ - 1] IN
          \/ /\ prom[x] # NULL
             /\ set_exception(prom[x], "timeout", rest)
          \/ /\ prom[x] = NULL
             /\ ready' = Append(ready, x)
             /\ sleep_pqueue' = rest
             /\ UNCHANGED <<blocked, prom, promVars>>
    /\ UNCHANGED <<now, fault, current, queueVars, done, ctxVars, next, stage,
                   postVars, taskVars, remote>>

\* The end of check_for_timeouts, and what its caller does with the result:
\* process_tasks keeps it in timeout_time, start_next_task ignores it.
CheckDone(c) ==
    /\ At(c, "check") \/ At(c, "expire")
    /\ Expired = {}
    /\ LET result == IF pc[c] = "expire" \/ NextTimeout <= now THEN Past ELSE NextTimeout IN
       timeout_time' = [timeout_time EXCEPT ![c] = IF then[c] = "switch" THEN @ ELSE result]
    /\ CASE then[c] = "top" ->
              /\ Goto(c, IF next[c] = NULL THEN "idle" ELSE "run")
              /\ UNCHANGED <<next, queueVars>>
         [] then[c] = "after_run" ->
              /\ dequeue(c)
              /\ Goto(c, IF next'[c] = NULL THEN "idle" ELSE "run")
         [] then[c] = "switch" ->
              /\ Goto(c, "switch")
              /\ UNCHANGED <<next, queueVars>>
    /\ UNCHANGED <<now, fault, current, listVars, done, prom, resume_time, canceled,
                   then, call, arg, timeout, cur, promVars, stage, postVars, taskVars, remote>>

-----------------------------------------------------------------------------
(* start_next_task and process_tasks *)

\* Enter start_next_task() on behalf of the caller k.
StartNextTask(c, k) == /\ CheckForTimeouts(c, "switch")
                       /\ call' = [call EXCEPT ![c] = k]

\* start_next_task( true ).  Mutant: process_tasks calls it without reschedule.
RescheduleYield(c) == call[c] = "yield"
Reschedule(c) == call[c] \in {"process_tasks", "yield"}
PushBack(q, c) == IF Reschedule(c) THEN Append(q, c) ELSE q

\* What is left of the ready list without its head.
ready_pop_front(q) == Tail(q)

\* BOOST_ASSERT( next != current )
SwitchFault(c) ==
    /\ At(c, "switch")
    /\ ready # <<>> /\ Head(ready) = c
    /\ fault' = "assert next != current"
    /\ UNCHANGED <<now, current, listVars, queueVars, done, prom, ctxVars, pc, next,
                   promVars, stage, postVars, taskVars, remote>>

ListFault ==
    /\ fault = "none"
    /\ Corrupt(ready) \/ Corrupt(blocked)
    /\ fault' = "context twice in a list"
    /\ UNCHANGED <<now, current, listVars, queueVars, done, prom, ctxVars, pc, next,
                   promVars, stage, postVars, taskVars, remote>>

SwitchToReady(c) ==
    /\ At(c, "switch")
    /\ ready # <<>> /\ Head(ready) # c
    /\ ready' = PushBack(ready_pop_front(ready), c)
    /\ current' = Head(ready)
    /\ pc' = [pc EXCEPT ![c] = "suspended", ![Head(ready)] = "resumed"]
    /\ UNCHANGED <<now, fault, blocked, sleep_pqueue, queueVars, done, prom, ctxVars,
                   next, promVars, stage, postVars, taskVars, remote>>

\* No context is ready: a new one starts in process_tasks.
SwitchToNew(c) ==
    /\ At(c, "switch")
    /\ ready = <<>>
    /\ \E n \in Contexts :
          /\ pc[n] = "unused"
          /\ current' = n
          /\ pc' = [pc EXCEPT ![c] = "suspended", ![n] = "begin"]
    /\ ready' = PushBack(ready, c)
    /\ UNCHANGED <<now, fault, blocked, sleep_pqueue, queueVars, done, prom, ctxVars,
                   next, promVars, stage, postVars, taskVars, remote>>

\* start_next_task() returns or throws task_canceled, to process_tasks ...
ResumeLoop(c) ==
    /\ At(c, "resumed")
    /\ call[c] = "process_tasks"
    /\ ~canceled[c]
    /\ dequeue(c)
    /\ Goto(c, IF next'[c] = NULL THEN "block_wait" ELSE "top")
    /\ UNCHANGED <<now, fault, current, listVars, done, prom, ctxVars, promVars,
                   stage, postVars, taskVars, remote>>

\* ... which does not catch it.
ResumeLoopFault(c) ==
    /\ At(c, "resumed")
    /\ call[c] = "process_tasks"
    /\ canceled[c]
    /\ fault' = "task_canceled escapes process_tasks"
    /\ UNCHANGED <<now, current, listVars, queueVars, done, prom, ctxVars, pc, next,
                   promVars, stage, postVars, taskVars, remote>>

\* The return of yield() or sleep_until() to the task, with or without task_canceled;
\* a canceled sleep_until skips the reset of resume_time.
ResumeYieldOrSleep(c) ==
    /\ At(c, "resumed")
    /\ call[c] \in {"yield", "sleep"}
    /\ Goto(c, "user")
    /\ resume_time' = [resume_time EXCEPT ![c] =
                          IF call[c] = "sleep" /\ ~canceled[c] THEN Forever ELSE @]
    /\ UNCHANGED <<now, fault, current, listVars, queueVars, done, prom, canceled, then,
                   call, arg, timeout, timeout_time, cur, next, promVars, stage, postVars,
                   taskVars, remote>>

\* In thread::wait: a canceled context throws before it forgets the promise.
ResumeWait(c) ==
    /\ At(c, "resumed")
    /\ call[c] = "wait"
    /\ \/ /\ ~canceled[c]
          /\ prom' = [prom EXCEPT ![c] = NULL]
          /\ Goto(c, "wait_result")
          /\ UNCHANGED <<arg, timeout>>
       \/ /\ canceled[c]
          /\ Goto(c, "user")
          /\ arg' = [arg EXCEPT ![c] = NULL]
          /\ timeout' = [timeout EXCEPT ![c] = Forever]
          /\ UNCHANGED prom
    /\ UNCHANGED <<now, fault, current, listVars, queueVars, done, resume_time, canceled,
                   then, call, timeout_time, cur, next, promVars, stage, postVars, taskVars, remote>>

\* process_tasks up to the test of its loop.
LoopBegin(c) ==
    /\ At(c, "begin")
    /\ dequeue(c)
    /\ Goto(c, "top")
    /\ UNCHANGED <<now, fault, current, listVars, done, prom, ctxVars, promVars,
                   stage, postVars, taskVars, remote>>

\* while( !done ): a loop that ends here drops the task it may have in hand.
LoopTop(c) ==
    /\ At(c, "top")
    /\ \/ done /\ Goto(c, "exited") /\ UNCHANGED then
       \/ ~done /\ CheckForTimeouts(c, "top")
    /\ UNCHANGED <<now, fault, current, listVars, queueVars, done, prom, resume_time,
                   canceled, call, arg, timeout, timeout_time, cur, next, promVars, stage,
                   postVars, taskVars, remote>>

\* No task in hand: leave, go round again, resume a ready context, or wait.
LoopIdle(c) ==
    /\ At(c, "idle")
    /\ CASE blocked = <<>> /\ done ->
              Goto(c, "exited") /\ UNCHANGED <<then, call>>
         [] ~(blocked = <<>> /\ done) /\ timeout_time[c] = Past ->
              Goto(c, "top") /\ UNCHANGED <<then, call>>
         [] ~(blocked = <<>> /\ done) /\ timeout_time[c] # Past /\ ready # <<>> ->
              StartNextTask(c, "process_tasks")
         [] ~(blocked = <<>> /\ done) /\ timeout_time[c] # Past /\ ready = <<>> ->
              Goto(c, "block_wait") /\ UNCHANGED <<then, call>>
    /\ UNCHANGED <<now, fault, current, listVars, queueVars, done, prom, resume_time,
                   canceled, arg, timeout, timeout_time, cur, next, promVars, stage,
                   postVars, taskVars, remote>>

\* The dequeue() under task_ready_mutex and the wait, which are one step for
\* the threads that post (see TaskQueue).
LoopBlockWait(c) ==
    /\ At(c, "block_wait")
    /\ dequeue(c)
    /\ Goto(c, IF next'[c] = NULL THEN "cv_wait" ELSE "top")
    /\ UNCHANGED <<now, fault, current, listVars, done, prom, ctxVars, promVars,
                   stage, postVars, taskVars, remote>>

\* timed_wait() returns at its time; wait() and timed_wait() may also return
\* for no reason.
LoopTimedOut(c) ==
    /\ At(c, "cv_wait")
    /\ timeout_time[c] <= now
    /\ Goto(c, "top")
    /\ UNCHANGED <<now, fault, current, listVars, queueVars, done, prom, ctxVars, next,
                   promVars, stage, postVars, taskVars, remote>>

LoopSpuriousWake(c) ==
    /\ At(c, "cv_wait")
    /\ Goto(c, "top")
    /\ UNCHANGED <<now, fault, current, listVars, queueVars, done, prom, ctxVars, next,
                   promVars, stage, postVars, taskVars, remote>>

-----------------------------------------------------------------------------
(* task::run *)

\* run() has returned: the context is taken off the task, the task released.
EndTask(c, t) ==
    /\ stage' = [stage EXCEPT ![t] = "ended"]
    /\ active_context' = [active_context EXCEPT ![t] = NULL]
    /\ next' = [next EXCEPT ![c] = NULL]
    /\ CheckForTimeouts(c, "after_run")

\* rtask::run calls the functor ...
RunFunctor(c) ==
    /\ At(c, "run")
    /\ LET t == next[c] IN
       /\ t \in LocalFutures /\ ~task_canceled[t]
       /\ stage' = [stage EXCEPT ![t] = "running"]
       /\ active_context' = [active_context EXCEPT ![t] = current]
    /\ Goto(c, "user")
    /\ UNCHANGED <<now, fault, current, listVars, queueVars, done, prom, ctxVars, next,
                   promVars, postVars, task_canceled, calls, remote>>

\* ... unless the task was canceled before it started.
RunCanceled(c) ==
    /\ At(c, "run")
    /\ LET t == next[c] IN
       /\ t \in LocalFutures /\ task_canceled[t]
       /\ set_exception(t, "canceled", sleep_pqueue)
       /\ EndTask(c, t)
    /\ UNCHANGED <<now, fault, current, queueVars, done, resume_time, canceled, call,
                   arg, timeout, timeout_time, cur, postVars, task_canceled, calls, remote>>

\* The vtask that another thread posted runs thread::notify( p ).
RunNotify(c) ==
    /\ At(c, "run")
    /\ next[c] \in RemoteFutures
    /\ Ready(next[c])
    /\ Notify(next[c], sleep_pqueue)
    /\ EndTask(c, next[c])
    /\ UNCHANGED <<now, fault, current, queueVars, done, resume_time, canceled, call,
                   arg, timeout, timeout_time, cur, promVars, postVars, task_canceled,
                   calls, remote>>

\* BOOST_ASSERT( p->ready() ) in thread::notify
RunNotifyFault(c) ==
    /\ At(c, "run")
    /\ next[c] \in RemoteFutures
    /\ ~Ready(next[c])
    /\ fault' = "assert p->ready()"
    /\ UNCHANGED <<now, current, listVars, queueVars, done, prom, ctxVars, pc, next,
                   promVars, stage, postVars, taskVars, remote>>

\* The functor returns.
UserReturn(c) ==
    /\ At(c, "user")
    /\ set_value(next[c])
    /\ EndTask(c, next[c])
    /\ UNCHANGED <<now, fault, current, queueVars, done, resume_time, canceled, call,
                   arg, timeout, timeout_time, cur, postVars, task_canceled, calls, remote>>

\* The functor throws, or lets an exception of the library pass.
UserThrow(c) ==
    /\ At(c, "user")
    /\ "throw" \in Calls
    /\ set_exception(next[c], "task", sleep_pqueue)
    /\ EndTask(c, next[c])
    /\ UNCHANGED <<now, fault, current, queueVars, done, resume_time, canceled, call,
                   arg, timeout, timeout_time, cur, postVars, task_canceled, calls, remote>>

-----------------------------------------------------------------------------
(* The calls a running task makes *)

\* The task of context c makes the call k.
User(c, k) ==
    /\ At(c, "user")
    /\ k \in Calls
    /\ calls[next[c]] < MaxCalls
    /\ calls' = [calls EXCEPT ![next[c]] = @ + 1]

\* async() or schedule() on the current thread; no wakeup is needed.
UserAsync(c) ==
    /\ User(c, "async")
    /\ \E f \in LocalFutures : Post(f, Past)
    /\ UNCHANGED <<now, fault, current, listVars, done, prom, ctxVars, pc, next, promVars,
                   task_canceled, active_context, remote>>

UserSchedule(c) ==
    /\ User(c, "schedule")
    /\ \E f \in LocalFutures, d \in Delays : now + d <= MaxTime /\ Post(f, now + d)
    /\ UNCHANGED <<now, fault, current, listVars, done, prom, ctxVars, pc, next, promVars,
                   task_canceled, active_context, remote>>

\* promise_base::enqueue_thread.  Mutant: left out.
NoEnqueue(p) == UNCHANGED m_blocked_thread
enqueue_thread(p) == m_blocked_thread' = [m_blocked_thread EXCEPT ![p] = TRUE]

\* promise::wait: under the promise's lock, return or throw what is there,
\* else name this thread as the one to notify.
PromiseWait(c, p, deadline) ==
    /\ p # next[c]
    /\ p \in RemoteFutures \/ stage[p] # "new"
    /\ Cardinality({x \in Contexts : arg[x] = p}) < MaxWaiters
    /\ \/ /\ Ready(p)
          /\ UNCHANGED <<m_blocked_thread, arg, timeout, pc>>
       \/ /\ ~Ready(p)
          /\ enqueue_thread(p)
          /\ arg' = [arg EXCEPT ![c] = p]
          /\ timeout' = [timeout EXCEPT ![c] = deadline]
          /\ Goto(c, "wait")

UserWait(c) ==
    /\ User(c, "wait")
    /\ \E p \in Futures : PromiseWait(c, p, Forever)
    /\ UNCHANGED <<now, fault, current, listVars, queueVars, done, prom, resume_time,
                   canceled, then, call, timeout_time, cur, next, m_value, m_error, stage,
                   postVars, task_canceled, active_context, remote>>

UserTimedWait(c) ==
    /\ User(c, "timed_wait")
    /\ \E p \in Futures, d \in Delays : now + d <= MaxTime /\ PromiseWait(c, p, now + d)
    /\ UNCHANGED <<now, fault, current, listVars, queueVars, done, prom, resume_time,
                   canceled, then, call, timeout_time, cur, next, m_value, m_error, stage,
                   postVars, task_canceled, active_context, remote>>

\* thread::wait finds the promise ready, or the deadline passed (and throws).
ThreadWaitReturns(c) ==
    /\ At(c, "wait")
    /\ \/ /\ Ready(arg[c])
          /\ Goto(c, "wait_result")
          /\ UNCHANGED <<arg, timeout>>
       \/ /\ ~Ready(arg[c]) /\ timeout[c] < now
          /\ Goto(c, "user")
          /\ arg' = [arg EXCEPT ![c] = NULL]
          /\ timeout' = [timeout EXCEPT ![c] = Forever]
    /\ UNCHANGED <<now, fault, current, listVars, queueVars, done, prom, resume_time,
                   canceled, then, call, timeout_time, cur, next, promVars, stage,
                   postVars, taskVars, remote>>

\* thread::wait blocks the context, with a place in the heap if it is timed.
ThreadWaitBlocks(c) ==
    /\ At(c, "wait")
    /\ ~Ready(arg[c]) /\ timeout[c] >= now
    /\ prom' = [prom EXCEPT ![c] = arg[c]]
    /\ blocked' = <<c>> \o blocked
    /\ \/ /\ timeout[c] # Forever
          /\ resume_time' = [resume_time EXCEPT ![c] = timeout[c]]
          /\ sleep_pqueue' = [sleep_pqueue EXCEPT ![c] = @ + 1]
       \/ /\ timeout[c] = Forever
          /\ UNCHANGED <<resume_time, sleep_pqueue>>
    /\ StartNextTask(c, "wait")
    /\ UNCHANGED <<now, fault, current, ready, queueVars, done, canceled, arg, timeout,
                   timeout_time, cur, next, promVars, stage, postVars, taskVars, remote>>

\* promise::wait after the wait: an error is cleared and thrown, else the value is
\* returned, else future_value_not_ready is thrown.
WaitResult(c) ==
    /\ At(c, "wait_result")
    /\ m_error' = [m_error EXCEPT ![arg[c]] = "none"]
    /\ arg' = [arg EXCEPT ![c] = NULL]
    /\ timeout' = [timeout EXCEPT ![c] = Forever]
    /\ Goto(c, "user")
    /\ UNCHANGED <<now, fault, current, listVars, queueVars, done, prom, resume_time,
                   canceled, then, call, timeout_time, cur, next, m_value,
                   m_blocked_thread, stage, postVars, taskVars, remote>>

\* sleep_until; it throws thread_quit at once when the thread is done.
UserSleep(c) ==
    /\ User(c, "sleep")
    /\ ~done
    /\ \E d \in Delays :
          /\ now + d <= MaxTime
          /\ resume_time' = [resume_time EXCEPT ![c] = now + d]
    /\ prom' = [prom EXCEPT ![c] = NULL]
    /\ sleep_pqueue' = [sleep_pqueue EXCEPT ![c] = @ + 1]
    /\ StartNextTask(c, "sleep")
    /\ UNCHANGED <<now, fault, current, ready, blocked, queueVars, done, canceled, arg,
                   timeout, timeout_time, cur, next, promVars, stage, postVars,
                   task_canceled, active_context, remote>>

UserYield(c) ==
    /\ User(c, "yield")
    /\ StartNextTask(c, "yield")
    /\ UNCHANGED <<now, fault, current, listVars, queueVars, done, prom, resume_time,
                   canceled, arg, timeout, timeout_time, cur, next, promVars, stage,
                   postVars, task_canceled, active_context, remote>>

\* future::cancel of a task that is posted or running.
UserCancel(c) ==
    /\ User(c, "cancel")
    /\ \E f \in Futures :
          /\ ~Ready(f) /\ stage[f] \in {"posted", "running"}
          /\ task_canceled' = [task_canceled EXCEPT ![f] = TRUE]
          /\ canceled' = [x \in Contexts |-> canceled[x] \/ x = active_context[f]]
          /\ active_context' = [active_context EXCEPT ![f] = NULL]
    /\ UNCHANGED <<now, fault, current, listVars, queueVars, done, prom, resume_time, then,
                   call, arg, timeout, timeout_time, cur, pc, next, promVars, stage,
                   postVars, remote>>

-----------------------------------------------------------------------------
(* thread::quit on its own thread *)

UserQuit(c) ==
    /\ User(c, "quit")
    /\ cur' = IF blocked = <<>> THEN NULL ELSE Head(blocked)
    /\ Goto(c, "quit")
    /\ UNCHANGED <<now, fault, current, listVars, queueVars, done, prom, resume_time,
                   canceled, then, call, arg, timeout, timeout_time, next, promVars,
                   stage, postVars, task_canceled, active_context, remote>>

\* The context after x in the list linked by cmt_context::next, the ready list.
Successor(q, x) ==
    LET after == {i \in 2..Len(q) : q[i-1] = x} IN
    IF after = {} THEN NULL ELSE q[Min(after)]

\* One turn of the walk over the blocked contexts.  It goes on to cur->next,
\* not to cur->next_blocked.
QuitWalk(c) ==
    /\ At(c, "quit")
    /\ cur # NULL /\ prom[cur] # NULL
    /\ set_exception(prom[cur], "quit", sleep_pqueue)
    /\ cur' = Successor(ready', cur)
    /\ UNCHANGED <<now, fault, current, queueVars, done, resume_time, canceled, then, call,
                   arg, timeout, timeout_time, pc, next, stage, postVars, taskVars, remote>>

\* cur->prom->set_exception() on a null promise.
QuitFault(c) ==
    /\ At(c, "quit")
    /\ cur # NULL /\ prom[cur] = NULL
    /\ fault' = "null prom in quit"
    /\ UNCHANGED <<now, current, listVars, queueVars, done, prom, ctxVars, pc, next,
                   promVars, stage, postVars, taskVars, remote>>

\* The entries of the heap; a context may have several.
SleepEntries == UNION {{x} \X (1..sleep_pqueue[x]) : x \in Contexts}

\* The rest of quit: cancel the ready contexts and the sleepers, make a sleeper
\* ready for each entry of it in the heap, and tell the loop to end.
QuitEnd(c) ==
    /\ At(c, "quit")
    /\ cur = NULL
    /\ canceled' = [x \in Contexts |-> canceled[x] \/ x \in ToSet(ready) \cup Sleepers]
    /\ \E woken \in SetToSeqs(SleepEntries) :
          ready' = [i \in DOMAIN woken |-> woken[i][1]] \o ready
    /\ sleep_pqueue' = [x \in Contexts |-> 0]
    /\ done' = TRUE
    /\ Goto(c, "user")
    /\ UNCHANGED <<now, fault, current, blocked, queueVars, prom, resume_time, then, call,
                   arg, timeout, timeout_time, cur, next, promVars, stage, postVars,
                   taskVars, remote>>

-----------------------------------------------------------------------------
(* The other OS threads, and time *)

\* Another thread calls async() on this one.
RemotePost(f) ==
    /\ fault = "none"
    /\ f \in LocalFutures
    /\ Post(f, Past)
    /\ Wake
    /\ UNCHANGED <<now, fault, current, listVars, done, prom, ctxVars, next, promVars,
                   taskVars, remote>>

\* Another thread calls set_value or set_exception, up to its notify().
RemoteSet(p) ==
    /\ fault = "none"
    /\ remote[p] = "idle"
    /\ \/ /\ "value" \in RemoteOutcomes
          /\ m_error[p] = "none"
          /\ m_value' = [m_value EXCEPT ![p] = TRUE]
          /\ remote' = [remote EXCEPT ![p] = "notify"]
          /\ UNCHANGED m_error
       \/ /\ "value" \in RemoteOutcomes
          /\ m_error[p] # "none"
          /\ remote' = [remote EXCEPT ![p] = "end"]
          /\ UNCHANGED <<m_value, m_error>>
       \/ /\ "error" \in RemoteOutcomes
          /\ m_error' = [m_error EXCEPT ![p] = "task"]
          /\ remote' = [remote EXCEPT ![p] = "notify"]
          /\ UNCHANGED m_value
    /\ UNCHANGED <<now, fault, current, listVars, queueVars, done, prom, ctxVars, pc, next,
                   m_blocked_thread, stage, postVars, taskVars>>

\* promise_base::notify in the other thread: post thread::notify here, if a
\* context of this thread asked for it.
RemoteNotify(p) ==
    /\ fault = "none"
    /\ remote[p] = "notify"
    /\ remote' = [remote EXCEPT ![p] = "end"]
    /\ \/ /\ Ready(p) /\ m_blocked_thread[p]
          /\ Post(p, Past)
          /\ Wake
          /\ UNCHANGED fault
       \/ /\ Ready(p) /\ ~m_blocked_thread[p]
          /\ UNCHANGED <<queueVars, stage, postVars, pc, fault>>
       \/ /\ ~Ready(p)
          /\ fault' = "assert ready()"
          /\ UNCHANGED <<queueVars, stage, postVars, pc>>
    /\ UNCHANGED <<now, current, listVars, done, prom, ctxVars, next, promVars, taskVars>>

\* The clock runs whatever the thread does; the loop over the expired sleepers goes by
\* the time that was read before it.
Tick ==
    /\ fault = "none"
    /\ now < MaxTime
    /\ pc[Running] # "expire"
    /\ now' = now + 1
    /\ UNCHANGED <<fault, current, listVars, queueVars, done, prom, ctxVars, pc, next,
                   promVars, stage, postVars, taskVars, remote>>

-----------------------------------------------------------------------------
LoopStep(c) == \/ LoopBegin(c) \/ LoopTop(c) \/ LoopIdle(c) \/ LoopBlockWait(c) \/ LoopTimedOut(c)
               \/ ExpireSleeper(c) \/ CheckDone(c)
               \/ SwitchToReady(c) \/ SwitchToNew(c) \/ SwitchFault(c)
               \/ ResumeLoop(c) \/ ResumeLoopFault(c) \/ ResumeYieldOrSleep(c) \/ ResumeWait(c)
               \/ RunFunctor(c) \/ RunCanceled(c) \/ RunNotify(c) \/ RunNotifyFault(c)
               \/ ThreadWaitReturns(c) \/ ThreadWaitBlocks(c) \/ WaitResult(c)
               \/ QuitWalk(c) \/ QuitFault(c) \/ QuitEnd(c)

UserStep(c) == \/ UserReturn(c) \/ UserThrow(c)
               \/ UserAsync(c) \/ UserSchedule(c)
               \/ UserWait(c) \/ UserTimedWait(c)
               \/ UserSleep(c) \/ UserYield(c)
               \/ UserCancel(c) \/ UserQuit(c)

Next == \/ \E c \in Contexts : LoopStep(c) \/ UserStep(c) \/ LoopSpuriousWake(c)
        \/ \E f \in LocalFutures : RemotePost(f)
        \/ \E p \in RemoteFutures : RemoteSet(p) \/ RemoteNotify(p)
        \/ ListFault \/ Tick

\* The OS runs the thread when it can run, a thread that has set a promise goes
\* on to notify, and task bodies return.  Time passes whatever the thread does:
\* fairness is strong because the tick waits for the end of the expiry loop.
Fairness == /\ WF_vars(\E c \in Contexts : LoopStep(c) \/ UserStep(c))
            /\ SF_vars(Tick)
            /\ \A p \in RemoteFutures : WF_vars(RemoteNotify(p))

SafeSpec == Init /\ [][Next]_vars
Spec == SafeSpec /\ Fairness

-----------------------------------------------------------------------------
(* Properties *)

Labels == {"unused", "begin", "top", "check", "expire", "idle", "block_wait", "cv_wait", "run",
           "user", "wait", "wait_result", "quit", "switch", "suspended", "resumed", "exited"}
Faults == {"none", "assert next != current", "context twice in a list",
           "task_canceled escapes process_tasks", "assert ready()", "assert p->ready()",
           "null prom in quit"}
Times == Past..Forever

\* Each field of thread_private, cmt_context, promise and task keeps its type: no
\* context leaves the heap of sleepers more often than it entered it.
TypeOK ==
    /\ now \in 0..MaxTime
    /\ fault \in Faults
    /\ current \in Contexts \cup {NULL}
    /\ ready \in Seq(Contexts) /\ blocked \in Seq(Contexts)
    /\ sleep_pqueue \in [Contexts -> Nat]
    /\ task_in_queue \subseteq Futures /\ task_pqueue \subseteq Futures
    /\ task_sch_queue \subseteq Futures
    /\ done \in BOOLEAN
    /\ prom \in [Contexts -> Futures \cup {NULL}]
    /\ resume_time \in [Contexts -> Times]
    /\ canceled \in [Contexts -> BOOLEAN]
    /\ pc \in [Contexts -> Labels]
    /\ then \in [Contexts -> {"top", "after_run", "switch"}]
    /\ call \in [Contexts -> {"process_tasks", "wait", "sleep", "yield"}]
    /\ arg \in [Contexts -> Futures \cup {NULL}]
    /\ timeout \in [Contexts -> Times]
    /\ next \in [Contexts -> Futures \cup {NULL}]
    /\ timeout_time \in [Contexts -> Times]
    /\ cur \in Contexts \cup {NULL}
    /\ m_value \in [Futures -> BOOLEAN]
    /\ m_error \in [Futures -> {"none", "timeout", "task", "canceled", "quit"}]
    /\ m_blocked_thread \in [Futures -> BOOLEAN]
    /\ stage \in [Futures -> {"new", "posted", "running", "ended"}]
    /\ when \in [Futures -> Times]
    /\ posted_num \in [Futures -> Nat] /\ pushed \in [Futures -> Nat]
    /\ task_canceled \in [Futures -> BOOLEAN]
    /\ active_context \in [Futures -> Contexts \cup {NULL}]
    /\ calls \in [Futures -> 0..MaxCalls]
    /\ remote \in [RemoteFutures -> {"idle", "notify", "end"}]

\* The one assertion that fails when promises are set to values and nobody cancels or
\* quits is next != current, and only for a context whose own deadline passed between
\* its call and the look at the clock in start_next_task.
FaultOnlyLate ==
    fault # "none" => /\ fault = "assert next != current"
                      /\ call[Running] \in {"wait", "sleep"}
                      /\ resume_time[Running] <= now

\* How often c occurs in a list.
Count(q, c) == Cardinality({i \in DOMAIN q : q[i] = c})

\* A context that gave up the processor is in exactly the place from which
\* its wakeup comes: the ready list, the blocked list (with the promise it
\* waits for) or the heap of sleepers.  A timeout that races a notification
\* never leaves it in two of them, nor in none.
Placement ==
    \A c \in Contexts :
        LET r == Count(ready, c)
            b == Count(blocked, c)
            s == sleep_pqueue[c]
        IN
        /\ pc[c] = "suspended" =>
              CASE call[c] \in {"process_tasks", "yield"} -> r = 1 /\ b = 0 /\ s = 0
                [] call[c] = "wait"  -> r + b = 1 /\ s <= b
                [] call[c] = "sleep" -> r + s = 1 /\ b = 0
        /\ pc[c] \notin {"suspended", "check", "expire", "switch"} => r + b + s = 0
        /\ b = 1 => prom[c] = arg[c] /\ arg[c] # NULL
        /\ b = 1 => (s = 1 <=> timeout[c] # Forever)

\* The OS thread sleeps only when it has nothing to do: no posted task that is due, and
\* in the ready list no context that came back from a wait.  (One that yields or whose
\* sleep is over goes behind the idle loops, and may be there.)
IdleOnlyWhenNoWork ==
    (\E c \in Contexts : pc[c] = "cv_wait") =>
        /\ task_in_queue = {} /\ task_pqueue = {}
        /\ \A i \in DOMAIN ready : next[ready[i]] = NULL \/ call[ready[i]] \in {"yield", "sleep"}

\* A context stays blocked on a promise that is set only while the thread that
\* set it, or the notification it posted, is on its way.
NoLostWakeup ==
    \A i \in DOMAIN blocked :
        LET p == prom[blocked[i]] IN
        p # NULL /\ Ready(p) =>
            p \in RemoteFutures /\ (remote[p] = "notify" \/ stage[p] = "posted")

\* wait() comes back with a value or an error, never with future_value_not_ready,
\* and with future_wait_timeout only after the deadline it was given.
WaitHasResult ==
    \A c \in Contexts : pc[c] = "wait_result" =>
        /\ Ready(arg[c])
        /\ m_error[arg[c]] = "timeout" => timeout[c] <= now

\* A new context (and its stack) is made only when every other one is inside a
\* task: an idle loop is always resumed first.
ReuseBeforeCreate ==
    [][\A n \in Contexts : pc[n] = "unused" /\ pc'[n] = "begin" =>
          \A c \in Contexts : pc[c] # "unused" => next[c] # NULL]_vars

\* A posted task is in one queue or in the hands of one loop until it is
\* started, whatever happens to the contexts: canceled, failed or stopped while
\* others post.  (After quit() a loop may end with a task still in its hands.)
NoTaskLost ==
    \A t \in Futures :
        LET holders == {c \in Contexts : next[c] = t}
            places  == Cardinality({q \in 1..3 : t \in <<task_in_queue, task_pqueue, task_sch_queue>>[q]})
                       + Cardinality(holders)
        IN places = (IF stage[t] \in {"posted", "running"} THEN 1 ELSE 0)

Started(t) == stage[t] \in {"running", "ended"}

\* t goes before u by task_priority_less.
Outranks(t, u) == Prio[t] > Prio[u] \/ (Prio[t] = Prio[u] /\ posted_num[t] < posted_num[u])

\* Of two tasks that are due when posted, the one that has the higher rank and was put on
\* the list first starts first, though the list is last in, first out.  (The numbers
\* of tasks need not follow the order of posting.)
StartInOrder ==
    \A t, u \in Futures :
        /\ stage[t] = "posted" /\ Started(u)
        /\ when[t] = Past /\ when[u] = Past
        /\ pushed[t] < pushed[u]
        => ~Outranks(t, u)

\* A context blocked on a promise that has been set comes back from its wait.
WakeupDelivered ==
    \A c \in Contexts :
        (Contains(blocked, c) /\ prom[c] # NULL /\ Ready(prom[c])) ~> (pc[c] = "wait_result")

-----------------------------------------------------------------------------
(* What the documentation says and the code does not do; the README          *)
(* describes the behaviour that TLC reports.                                 *)

\* thread.hpp: a scheduled call happens as soon as possible after its time.  So
\* a task whose time has come is started.
ScheduledTaskStarts ==
    \A t \in Futures :
        (stage[t] = "posted" /\ when[t] # Past /\ when[t] <= now) ~> Started(t)
=============================================================================
