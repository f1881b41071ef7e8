------------------------------ MODULE TaskBag ------------------------------
(***************************************************************************)
(* What a cmt::thread promises to the code that posts tasks to it: a bag   *)
(* of pending tasks from which one task at a time is started, until a      *)
(* task asks the thread to quit.  A task is a heap cell (task::ptr), so    *)
(* the same cell may be posted again once its previous use was released.   *)
(***************************************************************************)
CONSTANTS Tasks,   \* the cells a task object can occupy
          NULL     \* the null task::ptr

VARIABLES pending,   \* tasks posted and not yet started
          running,   \* the task whose run() is on the stack, or NULL
          quitting,  \* thread::quit() was called by some task
          stopped    \* exec() has returned

vars == <<pending, running, quitting, stopped>>

Init == /\ pending = {}
        /\ running = NULL
        /\ quitting = FALSE
        /\ stopped = FALSE

\* Anyone may post a cell that is not in use, even to a stopped thread.
Post(t) == /\ t \notin pending
           /\ t # running
           /\ pending' = pending \cup {t}
           /\ UNCHANGED <<running, quitting, stopped>>

\* A pending task is started: it leaves the bag exactly once.
Start(t) == /\ ~stopped
            /\ running = NULL
            /\ t \in pending
            /\ pending' = pending \ {t}
            /\ running' = t
            /\ UNCHANGED <<quitting, stopped>>

Finish == /\ running # NULL
          /\ running' = NULL
          /\ UNCHANGED <<pending, quitting, stopped>>

Quit == /\ running # NULL
        /\ quitting' = TRUE
        /\ UNCHANGED <<pending, running, stopped>>

\* The thread stops only on request, and only when the bag is empty.
Stop == /\ quitting
        /\ running = NULL
        /\ pending = {}
        /\ stopped' = TRUE
        /\ UNCHANGED <<pending, running, quitting>>

Next == \/ \E t \in Tasks : Post(t) \/ Start(t)
        \/ Finish
        \/ Quit
        \/ Stop

\* The safety part of the promise, the part that is proved.
SafeSpec == Init /\ [][Next]_vars

\* A thread with pending tasks keeps starting them, and stops when asked.
Spec == /\ SafeSpec
        /\ WF_vars(\E t \in Tasks : Start(t))
        /\ WF_vars(Finish)
        /\ WF_vars(Stop)
=============================================================================
