-------------------------- MODULE TaskQueueProofs --------------------------
(***************************************************************************)
(* Proofs about TaskQueue, for any sets of tasks and of threads: the       *)
(* hand-over is type correct, keeps every task in one place, loses no      *)
(* wakeup, and implements the safety part of TaskBag.                      *)
(***************************************************************************)
EXTENDS TaskQueue, TLAPS

\* Facts of the model that the properties rest on but do not state: who holds
\* the mutex, that a poster at the CAS holds a task, that the thread posts
\* only while it runs a task, and that it runs exactly when next is a task.
Protocol ==
    /\ mutex = Self <=> loop = "locked"
    /\ \A p \in Producers : mutex = p <=> post[p] = "notify"
    /\ \A p \in Posters : post[p] = "cas" <=> task[p] # NULL
    /\ post[Self] \in {"idle", "cas"}
    /\ post[Self] = "cas" => loop = "run"
    /\ loop = "run" <=> next # NULL
    /\ loop \in {"lock", "locked", "waiting", "woken", "exited"} => task_pqueue = {}
    /\ loop \in {"lock", "locked", "waiting", "woken"} => ~done
    /\ loop = "exited" => done

\* The inductive invariant.
IInv == TypeOK /\ OnePlace /\ NoLostWakeup /\ Protocol

\* The elements of a non-empty list are its head and those of its tail list.
LEMMA PushElements ==
    ASSUME NEW q \in Seq(Tasks), NEW t \in Tasks
    PROVE  /\ <<t>> \o q \in Seq(Tasks)
           /\ <<t>> \o q # <<>>
           /\ Elements(<<t>> \o q) = Elements(q) \cup {t}
           /\ t \notin Elements(q)
                /\ (\A i, j \in DOMAIN q : q[i] = q[j] => i = j)
              => \A i, j \in DOMAIN (<<t>> \o q) :
                    (<<t>> \o q)[i] = (<<t>> \o q)[j] => i = j
<1> DEFINE r == <<t>> \o q
<1>1. /\ r \in Seq(Tasks)
      /\ Len(r) = Len(q) + 1
      /\ r[1] = t
      /\ \A i \in 1..Len(q) : r[i+1] = q[i]
  OBVIOUS
<1>2. DOMAIN r = 1..(Len(q) + 1) /\ DOMAIN q = 1..Len(q) /\ Len(q) \in Nat
  BY <1>1
<1>3. \A i \in 2..(Len(q) + 1) : i - 1 \in 1..Len(q) /\ r[i] = q[i-1]
  <2> TAKE i \in 2..(Len(q) + 1)
  <2>1. i - 1 \in 1..Len(q)
    BY <1>2
  <2>2. r[(i-1)+1] = q[i-1]
    BY <2>1, <1>1
  <2> QED BY <2>1, <2>2
<1> HIDE DEF r
<1>4. r # <<>>
  BY <1>1, <1>2
<1>5. Elements(r) = Elements(q) \cup {t}
  <2>1. ASSUME NEW x \in Elements(r) PROVE x \in Elements(q) \cup {t}
    <3>1. PICK i \in 1..(Len(q) + 1) : x = r[i]
      BY <2>1, <1>2 DEF Elements
    <3>2. CASE i = 1
      BY <3>1, <3>2, <1>1
    <3>3. CASE i # 1
      BY <3>1, <3>3, <1>2, <1>3 DEF Elements
    <3> QED BY <3>2, <3>3
  <2>2. ASSUME NEW x \in Elements(q) PROVE x \in Elements(r)
    <3>1. PICK i \in 1..Len(q) : x = q[i]
      BY <2>2, <1>2 DEF Elements
    <3>2. x = r[i+1] /\ i + 1 \in DOMAIN r
      BY <3>1, <1>1, <1>2
    <3> QED BY <3>2 DEF Elements
  <2>3. t \in Elements(r)
    BY <1>1, <1>2 DEF Elements
  <2> QED BY <2>1, <2>2, <2>3
<1>6. ASSUME t \notin Elements(q), \A i, j \in DOMAIN q : q[i] = q[j] => i = j,
             NEW i \in DOMAIN r, NEW j \in DOMAIN r, r[i] = r[j]
      PROVE  i = j
  <2>1. \A k \in 1..Len(q) : q[k] # t
    BY <1>6, <1>2 DEF Elements
  <2>2. CASE i = 1 \/ j = 1
    BY <1>6, <2>1, <2>2, <1>1, <1>2, <1>3
  <2>3. CASE i # 1 /\ j # 1
    BY <1>6, <2>3, <1>2, <1>3
  <2> QED BY <2>2, <2>3
<1> QED BY <1>1, <1>4, <1>5, <1>6 DEF r

\* What the CAS links behind the new task is the whole current list: the
\* compare makes t->next = stale_head the current head.
LEMMA LinkIsWholeList ==
    ASSUME NEW q \in Seq(Tasks), NULL \notin Tasks,
           \A i, j \in DOMAIN q : q[i] = q[j] => i = j
    PROVE  LinkedFrom(q, HeadOf(q)) = q
<1>1. CASE q = <<>>
  BY <1>1 DEF LinkedFrom, HeadOf
<1>2. CASE q # <<>>
  <2>1. 1 \in DOMAIN q /\ HeadOf(q) = q[1] /\ q[1] \in Tasks
    BY <1>2 DEF HeadOf
  <2>2. HeadOf(q) # NULL /\ HeadOf(q) \in Elements(q)
    BY <2>1 DEF Elements
  <2>3. (CHOOSE i \in DOMAIN q : q[i] = HeadOf(q)) = 1
    BY <2>1
  <2>4. SubSeq(q, 1, Len(q)) = q
    OBVIOUS
  <2> QED BY <2>2, <2>3, <2>4 DEF LinkedFrom
<1> QED BY <1>1, <1>2

\* The head of the list is a cell or NULL.
LEMMA HeadOfType ==
    ASSUME NEW q \in Seq(Tasks)
    PROVE  HeadOf(q) \in Tasks \cup {NULL}
BY DEF HeadOf

-----------------------------------------------------------------------------
(* The inductive invariant *)

\* A thread_private as constructed satisfies the inductive invariant.
LEMMA InitIInv == Init => IInv
<1> SUFFICES ASSUME Init PROVE IInv
  OBVIOUS
<1> USE SelfAssumption, NullAssumption DEF Init
<1>0. <<>> \in Seq(Tasks)
  OBVIOUS
<1>1. TypeOK
  BY <1>0 DEF TypeOK, Posters
<1>2. OnePlace
  BY DEF OnePlace, Elements
<1>3. NoLostWakeup /\ Protocol
  BY DEF NoLostWakeup, Protocol, Posters
<1> QED BY <1>1, <1>2, <1>3 DEF IInv

\* dequeue() moves tasks between the list, the heap and next and loses none.
LEMMA DequeueFacts ==
    ASSUME IInv, dequeue, next = NULL
    PROVE  /\ task_in_queue' = <<>>
           /\ task_pqueue' \in SUBSET Tasks
           /\ next' \in Tasks \cup {NULL}
           /\ next' = NULL => task_pqueue' = {} /\ pending = {}
           /\ next' # NULL => /\ next' \in pending
                              /\ next' \notin task_pqueue'
           /\ task_pqueue' = pending \ {next'}
           /\ Elements(task_in_queue') = {}
<1>1. pending \in SUBSET Tasks /\ NULL \notin pending
  BY NullAssumption DEF IInv, TypeOK, pending, Elements
<1>2. Elements(<<>>) = {}
  BY DEF Elements
<1> QED BY <1>1, <1>2 DEF dequeue, pending

\* No step of thread::async or process_tasks breaks the inductive invariant.
LEMMA NextIInv == IInv /\ [Next]_vars => IInv'
<1> SUFFICES ASSUME IInv, [Next]_vars PROVE IInv'
  OBVIOUS
<1> USE SelfAssumption, NullAssumption
<1>t. TypeOK /\ OnePlace /\ NoLostWakeup /\ Protocol
  BY DEF IInv
<1>1. ASSUME NEW p \in Posters, AsyncBegin(p) PROVE IInv'
  <2>1. HeadOf(task_in_queue) \in Tasks \cup {NULL}
    BY <1>t, HeadOfType DEF TypeOK
  <2>2. PICK t \in Free : task' = [task EXCEPT ![p] = t]
    BY <1>1 DEF AsyncBegin
  <2>3. /\ t \in Tasks /\ t # NULL
        /\ t \notin Elements(task_in_queue) \cup task_pqueue \cup {next}
        /\ \A r \in Posters : task[r] # t
    BY <2>2 DEF Free
  <2>4. TypeOK'
    BY <1>1, <1>t, <2>1, <2>2, <2>3 DEF TypeOK, AsyncBegin, loopVars
  <2>5. OnePlace'
    BY <1>1, <1>t, <2>2, <2>3 DEF TypeOK, OnePlace, AsyncBegin, loopVars
  <2>6. NoLostWakeup'
    BY <1>1, <1>t DEF TypeOK, NoLostWakeup, AsyncBegin, loopVars, Posters
  <2>7. Protocol'
    BY <1>1, <1>t, <2>2, <2>3 DEF TypeOK, Protocol, AsyncBegin, loopVars, Posters
  <2> QED BY <2>4, <2>5, <2>6, <2>7 DEF IInv
<1>2. ASSUME NEW p \in Posters, AsyncPush(p) PROVE IInv'
  <2>1. /\ task[p] \in Tasks /\ task[p] # NULL
        /\ task[p] \notin Elements(task_in_queue) \cup task_pqueue \cup {next}
        /\ task_in_queue \in Seq(Tasks)
    BY <1>2, <1>t DEF AsyncPush, TypeOK, OnePlace, Protocol
  <2>2. task_in_queue' = <<task[p]>> \o task_in_queue
    BY <1>2, <1>t, <2>1, LinkIsWholeList DEF AsyncPush, CompareHead, OnePlace
  <2>3. /\ task_in_queue' \in Seq(Tasks)
        /\ task_in_queue' # <<>>
        /\ Elements(task_in_queue') = Elements(task_in_queue) \cup {task[p]}
        /\ \A i, j \in DOMAIN task_in_queue' :
              task_in_queue'[i] = task_in_queue'[j] => i = j
    BY <1>t, <2>1, <2>2, PushElements DEF OnePlace
  <2>4. TypeOK'
    BY <1>2, <1>t, <2>3 DEF AsyncPush, TypeOK, loopVars
  <2>5. OnePlace'
    <3>1. Elements(task_in_queue') \cap task_pqueue' = {}
          /\ next' \notin Elements(task_in_queue') \cup task_pqueue'
      <4>1. task_pqueue' = task_pqueue /\ next' = next
        BY <1>2 DEF AsyncPush, loopVars
      <4>2. /\ Elements(task_in_queue) \cap task_pqueue = {}
            /\ next \notin Elements(task_in_queue) \cup task_pqueue
        BY <1>t DEF OnePlace
      <4> QED BY <2>1, <2>3, <4>1, <4>2
    <3>2. ASSUME NEW r \in Posters, task'[r] # NULL
          PROVE  /\ task'[r] \notin Elements(task_in_queue') \cup task_pqueue' \cup {next'}
                 /\ \A u \in Posters : task'[u] = task'[r] => u = r
      <4>1. r # p /\ task'[r] = task[r]
        BY <1>2, <1>t, <3>2 DEF AsyncPush, TypeOK
      <4>2. /\ task[r] \notin Elements(task_in_queue) \cup task_pqueue \cup {next}
            /\ \A u \in Posters : task[u] = task[r] => u = r
        BY <1>t, <3>2, <4>1 DEF OnePlace
      <4>3. task[r] # task[p]
        BY <4>1, <4>2
      <4>4. \A u \in Posters : task'[u] = task[u] \/ task'[u] = NULL
        BY <1>2, <1>t DEF AsyncPush, TypeOK
      <4> QED BY <1>2, <2>3, <3>2, <4>1, <4>2, <4>3, <4>4 DEF AsyncPush, loopVars
    <3> QED BY <2>3, <3>1, <3>2 DEF OnePlace
  <2>6. NoLostWakeup'
    <3>1. CASE p = Self
      BY <1>2, <1>t, <3>1 DEF AsyncPush, NoLostWakeup, Protocol, loopVars
    <3>2. CASE p # Self
      <4>1. p \in Producers /\ post'[p] = "lock"
        BY <1>2, <1>t, <3>2 DEF AsyncPush, TypeOK, Posters
      <4> QED BY <1>2, <1>t, <4>1 DEF AsyncPush, NoLostWakeup, loopVars
    <3> QED BY <3>1, <3>2
  <2>7. Protocol'
    BY <1>2, <1>t DEF AsyncPush, TypeOK, Protocol, loopVars, Posters
  <2> QED BY <2>4, <2>5, <2>6, <2>7 DEF IInv
<1>3. ASSUME NEW p \in Posters, AsyncRetry(p) PROVE IInv'
  <2>1. HeadOf(task_in_queue) \in Tasks \cup {NULL}
    BY <1>t, HeadOfType DEF TypeOK
  <2>2. TypeOK'
    BY <1>3, <1>t, <2>1 DEF AsyncRetry, TypeOK, loopVars
  <2>3. OnePlace' /\ NoLostWakeup' /\ Protocol'
    BY <1>3, <1>t DEF AsyncRetry, OnePlace, NoLostWakeup, Protocol, loopVars
  <2> QED BY <2>2, <2>3 DEF IInv
<1>4. ASSUME NEW p \in Posters, AsyncLock(p) PROVE IInv'
  <2>1. p \in Producers /\ p # Self /\ p # NULL
    BY <1>4, <1>t DEF AsyncLock, Protocol, Posters
  <2>2. TypeOK' /\ OnePlace'
    BY <1>4, <1>t DEF AsyncLock, TypeOK, OnePlace, loopVars
  <2>3. NoLostWakeup'
    BY <1>4, <1>t DEF AsyncLock, TypeOK, NoLostWakeup, loopVars, Posters
  <2>4. Protocol'
    BY <1>4, <1>t, <2>1 DEF AsyncLock, TypeOK, Protocol, loopVars, Posters
  <2> QED BY <2>2, <2>3, <2>4 DEF IInv
<1>5. ASSUME NEW p \in Posters, AsyncNotify(p) PROVE IInv'
  <2>1. p \in Producers /\ p # Self /\ p # NULL /\ mutex = p
    BY <1>5, <1>t DEF AsyncNotify, Protocol, Posters
  <2>2. TypeOK'
    BY <1>5, <1>t DEF AsyncNotify, TypeOK
  <2>3. OnePlace'
    BY <1>5, <1>t DEF AsyncNotify, OnePlace
  <2>4. NoLostWakeup'
    BY <1>5, <1>t DEF AsyncNotify, NoLostWakeup
  <2>5. Protocol'
    BY <1>5, <1>t, <2>1 DEF AsyncNotify, TypeOK, Protocol, Posters
  <2> QED BY <2>2, <2>3, <2>4, <2>5 DEF IInv
<1>6. ASSUME dequeue, next = NULL, UNCHANGED postVars PROVE OnePlace'
  <2>1. /\ task_in_queue' = <<>> /\ Elements(task_in_queue') = {}
        /\ task_pqueue' = pending \ {next'}
        /\ next' # NULL => next' \in pending
        /\ next' \notin task_pqueue'
    BY <1>6, DequeueFacts
  <2>2. task' = task
    BY <1>6 DEF postVars
  <2>3. \A r \in Posters : task[r] # NULL => task[r] \notin pending
    BY <1>t DEF OnePlace, pending
  <2>4. \A i, j \in DOMAIN task_in_queue' : task_in_queue'[i] = task_in_queue'[j] => i = j
    BY <2>1
  <2> QED BY <1>t, <2>1, <2>2, <2>3, <2>4 DEF OnePlace
<1>7. ASSUME LoopDequeue PROVE IInv'
  <2>1. next = NULL
    BY <1>7, <1>t DEF LoopDequeue, Protocol
  <2>2. OnePlace'
    BY <1>6, <1>7, <2>1 DEF LoopDequeue
  <2>3. TypeOK'
    BY <1>7, <1>t, <2>1, DequeueFacts DEF LoopDequeue, TypeOK, postVars
  <2>4. NoLostWakeup' /\ Protocol'
    <3> USE <1>7, <1>t, <2>1, DequeueFacts
    <3>1. NoLostWakeup'
      BY DEF LoopDequeue, TypeOK, NoLostWakeup, postVars
    <3>2. Protocol'
      BY DEF LoopDequeue, TypeOK, Protocol, postVars
    <3> QED BY <3>1, <3>2
  <2> QED BY <2>2, <2>3, <2>4 DEF IInv
<1>8. ASSUME LoopQuit PROVE IInv'
  BY <1>8, <1>t DEF LoopQuit, IInv, TypeOK, OnePlace, NoLostWakeup, Protocol, postVars
<1>9. ASSUME LoopRunEnd PROVE IInv'
  <2>1. OnePlace'
    BY <1>9, <1>t DEF LoopRunEnd, TypeOK, OnePlace, postVars, Elements
  <2>2. TypeOK' /\ NoLostWakeup' /\ Protocol'
    BY <1>9, <1>t DEF LoopRunEnd, TypeOK, NoLostWakeup, Protocol, postVars
  <2> QED BY <2>1, <2>2 DEF IInv
<1>10. ASSUME LoopLock PROVE IInv'
  <2>1. TypeOK' /\ OnePlace' /\ NoLostWakeup'
    BY <1>10, <1>t DEF LoopLock, TypeOK, OnePlace, NoLostWakeup, postVars, Posters
  <2>2. Protocol'
    BY <1>10, <1>t DEF LoopLock, Protocol, postVars, Posters
  <2> QED BY <2>1, <2>2 DEF IInv
<1>11. ASSUME LoopBlockWait PROVE IInv'
  <2>1. next = NULL /\ mutex = Self
    BY <1>11, <1>t DEF LoopBlockWait, Protocol
  <2>2. OnePlace'
    BY <1>6, <1>11, <2>1 DEF LoopBlockWait
  <2>3. TypeOK'
    BY <1>11, <1>t, <2>1, DequeueFacts DEF LoopBlockWait, TypeOK, postVars
  <2>4. NoLostWakeup'
    BY <1>11, <1>t, <2>1, DequeueFacts DEF LoopBlockWait, NoLostWakeup, postVars
  <2>5. Protocol'
    BY <1>11, <1>t, <2>1, DequeueFacts DEF LoopBlockWait, Protocol, postVars, Posters
  <2> QED BY <2>2, <2>3, <2>4, <2>5 DEF IInv
<1>12. ASSUME LoopSpuriousWake PROVE IInv'
  BY <1>12, <1>t DEF LoopSpuriousWake, IInv, TypeOK, OnePlace, NoLostWakeup, Protocol, postVars
<1>13. ASSUME LoopWoken PROVE IInv'
  BY <1>13, <1>t DEF LoopWoken, IInv, TypeOK, OnePlace, NoLostWakeup, Protocol, postVars
<1>14. ASSUME UNCHANGED vars PROVE IInv'
  BY <1>14, <1>t DEF vars, IInv, TypeOK, OnePlace, NoLostWakeup, Protocol
<1> QED
  BY <1>1, <1>2, <1>3, <1>4, <1>5, <1>7, <1>8, <1>9, <1>10, <1>11, <1>12, <1>13, <1>14
  DEF Next, AsyncStep, LoopStep

\* The inductive invariant holds in every state of the hand-over.
THEOREM Invariance == Spec => []IInv
BY InitIInv, NextIInv, PTL DEF Spec

\* The state of the hand-over keeps its types, whatever the threads do.
THEOREM TypeCorrect == Spec => []TypeOK
BY Invariance, PTL DEF IInv

\* No interleaving of thread::async calls with dequeue() duplicates a task.
THEOREM TaskInOnePlace == Spec => []OnePlace
BY Invariance, PTL DEF IInv

\* process_tasks never sleeps on a task that nobody will wake it for.
THEOREM WakeupNeverLost == Spec => []NoLostWakeup
BY Invariance, PTL DEF IInv

-----------------------------------------------------------------------------
(* Refinement *)

\* A new thread is an empty bag.
LEMMA InitBag == Init => Bag!Init
BY DEF Init, Bag!Init, pending, running, Elements

\* A dequeue() that finds a task starts it; one that finds none changes
\* nothing that a poster can see.
LEMMA DequeueBag ==
    ASSUME IInv, dequeue, loop # "run", loop # "exited", next = NULL,
           loop' # "exited", done' = done,
           next' # NULL <=> loop' = "run"
    PROVE  [Bag!Next]_(Bag!vars)
<1>1. /\ Elements(task_in_queue') = {}
      /\ task_pqueue' = pending \ {next'}
      /\ next' \in Tasks \cup {NULL}
      /\ next' = NULL => pending = {}
      /\ next' # NULL => next' \in pending
  BY DequeueFacts
<1>2. pending' = pending \ {next'}
  BY <1>1 DEF pending
<1>3. CASE next' = NULL
  BY <1>1, <1>2, <1>3 DEF Bag!vars, running
<1>4. CASE next' # NULL
  <2>1. Bag!Start(next')
    BY <1>1, <1>2, <1>4 DEF Bag!Start, running
  <2> QED BY <1>1, <1>4, <2>1 DEF Bag!Next
<1> QED BY <1>3, <1>4

\* A successful compare-exchange posts a task, a dequeue() that finds one starts
\* it, and every other step of the hand-over is invisible or ends a task, asks to
\* quit or stops the thread.
LEMMA NextBag == IInv /\ [Next]_vars => [Bag!Next]_(Bag!vars)
<1> SUFFICES ASSUME IInv, [Next]_vars PROVE [Bag!Next]_(Bag!vars)
  OBVIOUS
<1> USE SelfAssumption, NullAssumption
<1>t. TypeOK /\ OnePlace /\ NoLostWakeup /\ Protocol
  BY DEF IInv
<1>1. ASSUME NEW p \in Posters, AsyncBegin(p) PROVE UNCHANGED Bag!vars
  BY <1>1 DEF AsyncBegin, loopVars, Bag!vars, pending, running
<1>2. ASSUME NEW p \in Posters, AsyncPush(p) PROVE Bag!Next
  <2>1. /\ task[p] \in Tasks /\ task[p] # NULL
        /\ task[p] \notin Elements(task_in_queue) \cup task_pqueue \cup {next}
        /\ task_in_queue \in Seq(Tasks)
    BY <1>2, <1>t DEF AsyncPush, TypeOK, OnePlace, Protocol
  <2>2. task_in_queue' = <<task[p]>> \o task_in_queue
    BY <1>2, <1>t, <2>1, LinkIsWholeList DEF AsyncPush, CompareHead, OnePlace
  <2>3. Elements(task_in_queue') = Elements(task_in_queue) \cup {task[p]}
    BY <2>1, <2>2, PushElements
  <2>4. UNCHANGED <<task_pqueue, next, loop, done>>
    BY <1>2 DEF AsyncPush, loopVars
  <2>5. Bag!Post(task[p])
    BY <2>1, <2>3, <2>4 DEF Bag!Post, pending, running
  <2> QED BY <2>1, <2>5 DEF Bag!Next
<1>3. ASSUME NEW p \in Posters, AsyncRetry(p) \/ AsyncLock(p) PROVE UNCHANGED Bag!vars
  BY <1>3 DEF AsyncRetry, AsyncLock, loopVars, Bag!vars, pending, running
<1>4. ASSUME NEW p \in Posters, AsyncNotify(p) PROVE UNCHANGED Bag!vars
  BY <1>4 DEF AsyncNotify, Bag!vars, pending, running
<1>5. ASSUME LoopDequeue PROVE [Bag!Next]_(Bag!vars)
  <2>1. next = NULL /\ loop = "dequeue" /\ done' = done /\ dequeue
    BY <1>5, <1>t DEF LoopDequeue, Protocol
  <2>2. CASE next' = NULL /\ done
    <3>1. loop' = "exited"
      BY <1>5, <2>2 DEF LoopDequeue
    <3>2. pending = {} /\ pending' = {}
      BY <2>1, <2>2, DequeueFacts DEF pending
    <3>3. Bag!Stop
      BY <2>1, <2>2, <3>1, <3>2 DEF Bag!Stop, running
    <3> QED BY <3>3 DEF Bag!Next
  <2>3. CASE ~(next' = NULL /\ done)
    <3>1. loop' # "exited" /\ (next' # NULL <=> loop' = "run")
      BY <1>5, <1>t, <2>1, <2>3 DEF LoopDequeue, TypeOK
    <3> QED BY <2>1, <3>1, DequeueBag
  <2> QED BY <2>2, <2>3
<1>6. ASSUME LoopQuit PROVE Bag!Next
  <2>1. Bag!Quit
    BY <1>6, <1>t DEF LoopQuit, Bag!Quit, pending, running, Protocol
  <2> QED BY <2>1 DEF Bag!Next
<1>7. ASSUME LoopRunEnd PROVE Bag!Next
  <2>1. Bag!Finish
    BY <1>7, <1>t DEF LoopRunEnd, Bag!Finish, pending, running, Protocol
  <2> QED BY <2>1 DEF Bag!Next
<1>8. ASSUME LoopLock \/ LoopSpuriousWake \/ LoopWoken PROVE UNCHANGED Bag!vars
  BY <1>8 DEF LoopLock, LoopSpuriousWake, LoopWoken, Bag!vars, pending, running
<1>9. ASSUME LoopBlockWait PROVE [Bag!Next]_(Bag!vars)
  <2>1. next = NULL /\ dequeue /\ loop = "locked" /\ done' = done
    BY <1>9, <1>t DEF LoopBlockWait, Protocol
  <2>2. loop' # "exited" /\ (next' # NULL <=> loop' = "run")
    BY <1>9 DEF LoopBlockWait
  <2> QED BY <2>1, <2>2, DequeueBag
<1>10. ASSUME UNCHANGED vars PROVE UNCHANGED Bag!vars
  BY <1>10 DEF vars, Bag!vars, pending, running
<1> QED
  BY <1>1, <1>2, <1>3, <1>4, <1>5, <1>6, <1>7, <1>8, <1>9, <1>10
  DEF Next, AsyncStep, LoopStep

\* The safety part of ImplementsTaskBag, for any number of tasks and threads:
\* posted tasks are started once, one at a time, and exec() returns only
\* after quit() with nothing pending.
THEOREM ImplementsTaskBagSafely == Spec => Bag!SafeSpec
<1>1. Spec => Bag!Init /\ [][Bag!Next]_(Bag!vars)
  BY InitBag, Invariance, NextBag, PTL DEF Spec
<1> QED BY <1>1 DEF Bag!SafeSpec
=============================================================================
