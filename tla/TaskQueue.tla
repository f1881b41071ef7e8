----------------------------- MODULE TaskQueue -----------------------------
(***************************************************************************)
(* The hand-over of tasks to a cmt::thread (src/src/thread.cpp): the       *)
(* lock-free list of thread::async, the exchange in dequeue() and the      *)
(* mutex / condition variable protocol by which process_tasks() sleeps.    *)
(* One step is one access to memory that another OS thread also accesses.  *)
(*                                                                         *)
(* The loop runs one context here and every task is due when posted; the   *)
(* ready list, sleeping and scheduled tasks are the business of CmtThread. *)
(***************************************************************************)
EXTENDS Naturals, Sequences

CONSTANTS Tasks,      \* addresses a task object can have; reused after release
          Producers,  \* the other OS threads
          Self,       \* the OS thread that runs process_tasks()
          NULL

ASSUME SelfAssumption == Self \notin Producers
ASSUME NullAssumption == NULL \notin Tasks \cup Producers \cup {Self}

VARIABLES
    task_in_queue,  \* the list hanging off the atomic head, head first
    task_pqueue,    \* tasks moved into the thread's own heap by enqueue()
    next,           \* process_tasks' local variable: a task or NULL
    loop,           \* where process_tasks is
    done,           \* thread_private::done
    mutex,          \* the holder of task_ready_mutex, or NULL
    post,           \* where each OS thread is inside thread::async
    task,           \* the task each OS thread is posting, or NULL
    stale_head      \* each OS thread's local copy of the list head

loopVars == <<task_pqueue, next, loop, done>>
postVars == <<post, task, stale_head>>
vars == <<task_in_queue, task_pqueue, next, loop, done, mutex, post, task, stale_head>>

Posters == Producers \cup {Self}

Elements(q) == {q[i] : i \in DOMAIN q}
HeadOf(q)   == IF q = <<>> THEN NULL ELSE Head(q)

\* The cells that hold no live task.
Free == Tasks \ (Elements(task_in_queue) \cup task_pqueue \cup {next} \cup {task[p] : p \in Posters})

Init == /\ task_in_queue = <<>>
        /\ task_pqueue = {}
        /\ next = NULL
        /\ loop = "dequeue"
        /\ done = FALSE
        /\ mutex = NULL
        /\ post = [p \in Posters |-> "idle"]
        /\ task = [p \in Posters |-> NULL]
        /\ stale_head = [p \in Posters |-> NULL]

-----------------------------------------------------------------------------
(* thread::async( task::ptr ) *)

\* A new task object, and the relaxed load of the list head.  The thread
\* itself posts only from a task it is running.
AsyncBegin(p) ==
    /\ post[p] = "idle"
    /\ p = Self => loop = "run"
    /\ \E t \in Free : task' = [task EXCEPT ![p] = t]
    /\ stale_head' = [stale_head EXCEPT ![p] = HeadOf(task_in_queue)]
    /\ post' = [post EXCEPT ![p] = "cas"]
    /\ UNCHANGED <<task_in_queue, mutex, loopVars>>

\* Mutant: the end of the list is taken for a task.
LinkedFromUnended(q, h) == IF q = <<>> THEN <<h>> ELSE q

\* The list that starts at cell h: t->next = stale_head makes it t's tail.
LinkedFrom(q, h) ==
    IF h = NULL THEN <<>>
    ELSE IF h \in Elements(q)
         THEN SubSeq(q, CHOOSE i \in DOMAIN q : q[i] = h, Len(q))
         ELSE <<h>>

\* Does the compare of compare_exchange_weak succeed?  Mutant: a plain store.
PlainStore(p) == TRUE
CompareHead(p) == stale_head[p] = HeadOf(task_in_queue)

\* compare_exchange_weak succeeds; only a foreign thread goes on to notify.
AsyncPush(p) ==
    /\ post[p] = "cas"
    /\ CompareHead(p)
    /\ task_in_queue' = <<task[p]>> \o LinkedFrom(task_in_queue, stale_head[p])
    /\ post' = [post EXCEPT ![p] = IF p = Self THEN "idle" ELSE "lock"]
    /\ task' = [task EXCEPT ![p] = NULL]
    /\ stale_head' = [stale_head EXCEPT ![p] = NULL]
    /\ UNCHANGED <<mutex, loopVars>>

\* compare_exchange_weak fails and reloads the head.  A spurious failure
\* reloads the same value and is a stuttering step.
AsyncRetry(p) ==
    /\ post[p] = "cas"
    /\ ~CompareHead(p)
    /\ stale_head' = [stale_head EXCEPT ![p] = HeadOf(task_in_queue)]
    /\ UNCHANGED <<task_in_queue, post, task, mutex, loopVars>>

AsyncLock(p) ==
    /\ post[p] = "lock"
    /\ mutex = NULL
    /\ mutex' = p
    /\ post' = [post EXCEPT ![p] = "notify"]
    /\ UNCHANGED <<task_in_queue, task, stale_head, loopVars>>

\* task_ready.notify_all() and the release of the lock.
AsyncNotify(p) ==
    /\ post[p] = "notify"
    /\ loop' = IF loop = "waiting" THEN "woken" ELSE loop
    /\ mutex' = NULL
    /\ post' = [post EXCEPT ![p] = "idle"]
    /\ UNCHANGED <<task_in_queue, task_pqueue, next, done, task, stale_head>>

AsyncStep(p) == \/ AsyncPush(p)
                \/ AsyncRetry(p)
                \/ AsyncLock(p)
                \/ AsyncNotify(p)

-----------------------------------------------------------------------------
(* thread_private::process_tasks *)

\* Mutant: the rest of the list is dropped with the first task taken.
dequeueDropsRest ==
    LET claimed == task_pqueue \cup Elements(task_in_queue) IN
    /\ task_in_queue' = <<>>
    /\ task_pqueue' = {}
    /\ next' \in IF claimed = {} THEN {NULL} ELSE claimed

\* dequeue(): exchange the list head for 0, enqueue() all of the list, then
\* take one task.  Which one the heap yields is left open here.
dequeue ==
    LET claimed == task_pqueue \cup Elements(task_in_queue) IN
    /\ task_in_queue' = <<>>
    /\ \/ /\ claimed = {}
          /\ next' = NULL
          /\ task_pqueue' = {}
       \/ \E t \in claimed : /\ next' = t
                             /\ task_pqueue' = claimed \ {t}

\* The dequeue() before the loop and at the end of its inner loop.  With
\* nothing to run the loop ends if done, else it goes on to block_wait.
LoopDequeue ==
    /\ loop = "dequeue"
    /\ dequeue
    /\ loop' = CASE next' # NULL -> "run"
                 [] next' = NULL /\ done -> "exited"
                 [] next' = NULL /\ ~done -> "lock"
    /\ UNCHANGED <<done, mutex, postVars>>

\* The running task calls thread::quit() on its own thread.
LoopQuit ==
    /\ loop = "run"
    /\ post[Self] = "idle"
    /\ done' = TRUE
    /\ UNCHANGED <<task_in_queue, task_pqueue, next, loop, mutex, postVars>>

\* run() returns and the task is released: its cell may be reused.
LoopRunEnd ==
    /\ loop = "run"
    /\ post[Self] = "idle"
    /\ next' = NULL
    /\ loop' = "dequeue"
    /\ UNCHANGED <<task_in_queue, task_pqueue, done, mutex, postVars>>

LoopLock ==
    /\ loop = "lock"
    /\ mutex = NULL
    /\ mutex' = Self
    /\ loop' = "locked"
    /\ UNCHANGED <<task_in_queue, task_pqueue, next, done, postVars>>

\* Mutant: wait without looking again under the lock.
LoopBlockWaitBlind ==
    /\ loop = "locked"
    /\ loop' = "waiting"
    /\ mutex' = NULL
    /\ UNCHANGED <<task_in_queue, task_pqueue, next, done, postVars>>

\* Under the lock: look once more, and wait (releasing the lock) or leave
\* the block with a task in hand.
LoopBlockWait ==
    /\ loop = "locked"
    /\ dequeue
    /\ loop' = IF next' = NULL THEN "waiting" ELSE "run"
    /\ mutex' = NULL
    /\ UNCHANGED <<done, postVars>>

\* wait() may return without a notification, and timed_wait() at its time.
LoopSpuriousWake ==
    /\ loop = "waiting"
    /\ loop' = "woken"
    /\ UNCHANGED <<task_in_queue, task_pqueue, next, done, mutex, postVars>>

\* wait() reacquires the mutex before it returns; the end of the block
\* releases it, and the loop comes round to block_wait with next = 0.
LoopWoken ==
    /\ loop = "woken"
    /\ mutex = NULL
    /\ loop' = "lock"
    /\ UNCHANGED <<task_in_queue, task_pqueue, next, done, mutex, postVars>>

LoopStep == \/ LoopDequeue
            \/ LoopRunEnd
            \/ LoopLock
            \/ LoopBlockWait
            \/ LoopWoken

Next == \/ \E p \in Posters : AsyncBegin(p) \/ AsyncStep(p)
        \/ LoopStep
        \/ LoopQuit
        \/ LoopSpuriousWake

\* The OS keeps scheduling a thread that can run; a task that runs returns
\* (the scheduling is cooperative).  Nobody is obliged to post or to quit.
Spec == /\ Init /\ [][Next]_vars
        /\ WF_vars(LoopStep)
        /\ \A p \in Posters : WF_vars(AsyncStep(p))

-----------------------------------------------------------------------------
(* Properties *)

\* Each variable of the hand-over in thread.cpp keeps its type: in particular the
\* shared list is a finite chain of tasks that ends in NULL.
TypeOK ==
    /\ task_in_queue \in Seq(Tasks)
    /\ task_pqueue \in SUBSET Tasks
    /\ next \in Tasks \cup {NULL}
    /\ loop \in {"dequeue", "run", "lock", "locked", "waiting", "woken", "exited"}
    /\ done \in BOOLEAN
    /\ mutex \in Posters \cup {NULL}
    /\ post \in [Posters -> {"idle", "cas", "lock", "notify"}]
    /\ task \in [Posters -> Tasks \cup {NULL}]
    /\ stale_head \in [Posters -> Tasks \cup {NULL}]

\* A task object is in one place only: once in the shared list, or in the
\* thread's heap, or running, or in the hands of one poster.  A head that is
\* stale, even one whose cell was run, released and posted again (ABA), never
\* makes thread::async link a task twice or behind a task that is gone.
OnePlace ==
    /\ \A i, j \in DOMAIN task_in_queue : task_in_queue[i] = task_in_queue[j] => i = j
    /\ Elements(task_in_queue) \cap task_pqueue = {}
    /\ next \notin Elements(task_in_queue) \cup task_pqueue
    /\ \A p \in Posters : task[p] # NULL =>
          /\ task[p] \notin Elements(task_in_queue) \cup task_pqueue \cup {next}
          /\ \A r \in Posters : task[r] = task[p] => r = p

\* process_tasks never sleeps on a non-empty list unless a poster is still on
\* its way to notify it: no wakeup is lost between the dequeue under the lock
\* and the wait.  What is in its own heap it never sleeps on.
NoLostWakeup ==
    loop \in {"waiting", "exited"} =>
        /\ task_pqueue = {}
        /\ next = NULL
        /\ loop = "waiting" /\ task_in_queue # <<>>
              => \E p \in Producers : post[p] \in {"lock", "notify"}

-----------------------------------------------------------------------------
(* The promise: TaskBag. *)

pending == Elements(task_in_queue) \cup task_pqueue
running == IF loop = "run" THEN next ELSE NULL

\* Every behaviour of the hand-over is one of a bag of tasks: a posted task
\* stays until it is started, once, one at a time; pending tasks keep being
\* started; exec() returns only after quit() and with nothing pending.
Bag == INSTANCE TaskBag WITH quitting <- done, stopped <- (loop = "exited")
ImplementsTaskBag == Bag!Spec
=============================================================================
