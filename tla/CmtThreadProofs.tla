-------------------------- MODULE CmtThreadProofs --------------------------
(***************************************************************************)
(* Proofs about CmtThread, for any contexts, futures, calls and times.     *)
(* From the first invariant, for any mixture of calls: the types, that no  *)
(* posted task is lost or held twice, and that tasks start in order.  From *)
(* the second, as long as the program keeps to what Orderly says: the only *)
(* fault is that of a context whose deadline has passed, each context is   *)
(* in its place, no wakeup is lost, each wait has its result, no context   *)
(* is made in vain.  From the third: the OS thread sleeps only when there  *)
(* is no task to start and no waiter to resume.                            *)
(***************************************************************************)
EXTENDS CmtThread, SequenceTheorems, FiniteSetTheorems, WellFoundedInduction, TLAPS

\* A context inside start_next_task(), and what it does for whom.
Switching(c) == \/ pc[c] \in {"switch", "suspended", "resumed"}
                \/ pc[c] \in {"check", "expire"} /\ then[c] = "switch"

\* The body of a task is on the context's stack.
InTask(c) == \/ pc[c] \in {"user", "wait", "wait_result", "quit"}
             \/ Switching(c) /\ call[c] # "process_tasks"

\* The loop of the context has no task in hand.
NoTask(c) == \/ pc[c] \in {"unused", "begin", "idle", "block_wait", "cv_wait"}
             \/ Switching(c) /\ call[c] = "process_tasks"
             \/ pc[c] \in {"check", "expire"} /\ then[c] = "after_run"

\* Between dequeue() and run() the task in hand has not started.
Hand(c) == /\ NoTask(c) => next[c] = NULL
           /\ InTask(c) => next[c] # NULL /\ stage[next[c]] = "running"
           /\ ~InTask(c) /\ next[c] # NULL => stage[next[c]] = "posted"
           /\ pc[c] = "run" => next[c] # NULL

\* One context runs; the others have not been made yet, or are suspended.
OneRuns == \A c \in Contexts : c # Running <=> pc[c] \in {"unused", "suspended"}

\* c is on the list q.
On(q, c) == \E i \in 1..Len(q) : q[i] = c

\* Only contexts that were made are in the lists and in the heap.
Made == \A c \in Contexts : On(ready, c) \/ On(blocked, c) \/ sleep_pqueue[c] > 0 => pc[c] # "unused"

Queued(t) == t \in task_in_queue \/ t \in task_pqueue \/ t \in task_sch_queue
Held(t) == \E c \in Contexts : next[c] = t

\* A task is in one queue or in one hand, from its post to its end.
OnePlace(t) ==
    /\ stage[t] \in {"posted", "running"} <=> Queued(t) \/ Held(t)
    /\ Queued(t) => stage[t] = "posted" /\ ~Held(t)
    /\ t \in task_in_queue => t \notin task_pqueue /\ t \notin task_sch_queue
    /\ t \in task_pqueue => t \notin task_sch_queue
    /\ \A c, d \in Contexts : next[c] = t /\ next[d] = t => c = d

\* No task was put on the list after as many as there are.
Posted == {t \in Futures : stage[t] # "new"}
Counted(t) == stage[t] # "new" => pushed[t] <= Cardinality(Posted)

\* A task that waits came after the one that was taken before it, if it goes before it.
InOrder(t, u) ==
    /\ when[t] = Past /\ when[u] = Past /\ Outranks(t, u)
    /\ \/ stage[t] = "posted" /\ Started(u)
       \/ Queued(t) /\ Held(u)
    => pushed[t] > pushed[u]

\* The inductive invariant.
IInv == /\ TypeOK /\ OneRuns /\ Made
        /\ \A c \in Contexts : Hand(c)
        /\ \A t \in Futures : OnePlace(t)
        /\ \A t, u \in Futures : Counted(t) /\ InOrder(t, u)
        /\ \A t \in task_sch_queue : when[t] # Past

-----------------------------------------------------------------------------
(* Operators *)

\* A set of naturals that is not empty has a least element.
LEMMA LeastNat ==
    ASSUME NEW T, T \subseteq Nat, T # {}
    PROVE  Min(T) \in T /\ \A y \in T : Min(T) <= y
<1>1. PICK x \in T : \A y \in T : ~ (<<y, x>> \in OpToRel(<, Nat))
  BY NatLessThanWellFounded, WFMin
<1>2. \A y \in T : x <= y
  <2> SUFFICES ASSUME NEW y \in T PROVE ~(y < x)
    OBVIOUS
  <2> QED BY <1>1 DEF OpToRel
<1> QED BY <1>2 DEF Min

\* The elements of a list with one more at an end.
LEMMA OnPushed ==
    ASSUME NEW S, NEW q \in Seq(S), NEW c \in S
    PROVE  /\ Append(q, c) \in Seq(S) /\ \A d : On(Append(q, c), d) <=> On(q, d) \/ d = c
           /\ <<c>> \o q \in Seq(S) /\ \A d : On(<<c>> \o q, d) <=> On(q, d) \/ d = c
<1>1. /\ Append(q, c) \in Seq(S) /\ Len(Append(q, c)) = Len(q) + 1 /\ Len(q) \in Nat
      /\ \A i \in 1..Len(q) : Append(q, c)[i] = q[i]
      /\ Append(q, c)[Len(q) + 1] = c
  BY AppendProperties, LenProperties
<1>2. \A d : On(Append(q, c), d) <=> On(q, d) \/ d = c
  <2> DEFINE a == Append(q, c)
  <2>1. \A i \in 1..(Len(q) + 1) : i \in 1..Len(q) \/ i = Len(q) + 1
    BY <1>1
  <2>2. Len(q) + 1 \in 1..(Len(q) + 1) /\ \A i \in 1..Len(q) : i \in 1..(Len(q) + 1)
    BY <1>1
  <2> HIDE DEF a
  <2> QED BY <1>1, <2>1, <2>2 DEF On, a
<1> DEFINE h == <<c>>
           r == h \o q
<1>3. h \in Seq(S) /\ Len(h) = 1 /\ h[1] = c
  OBVIOUS
<1> HIDE DEF h
<1>4. /\ r \in Seq(S) /\ Len(r) = Len(h) + Len(q)
      /\ \A i \in 1..(Len(h) + Len(q)) : r[i] = IF i <= Len(h) THEN h[i] ELSE q[i - Len(h)]
  BY <1>3, ConcatProperties
<1> HIDE DEF r
<1>5. /\ Len(r) = Len(q) + 1 /\ r[1] = c
      /\ \A i \in 1..Len(q) : r[i + 1] = q[i] /\ i + 1 \in 1..Len(r)
  <2>1. Len(r) = Len(q) + 1
    BY <1>1, <1>3, <1>4
  <2>2. 1 \in 1..(Len(h) + Len(q)) /\ 1 <= Len(h)
    BY <1>1, <1>3
  <2>3. ASSUME NEW i \in 1..Len(q) PROVE r[i + 1] = q[i] /\ i + 1 \in 1..Len(r)
    <3>1. i + 1 \in 1..(Len(h) + Len(q)) /\ ~(i + 1 <= Len(h)) /\ (i + 1) - Len(h) = i /\ i + 1 \in 1..Len(r)
      BY <1>1, <1>3, <2>1
    <3> QED BY <1>4, <3>1
  <2> QED BY <1>3, <1>4, <2>1, <2>2, <2>3
<1>6. \A d : On(r, d) <=> On(q, d) \/ d = c
  <2>1. ASSUME NEW i \in 1..Len(r), i # 1 PROVE \E j \in 1..Len(q) : r[i] = q[j]
    <3> DEFINE j == i - 1
    <3>1. j \in 1..Len(q) /\ j + 1 = i
      BY <1>1, <1>5, <2>1
    <3> HIDE DEF j
    <3> QED BY <1>5, <3>1
  <2>2. 1 \in 1..Len(r)
    BY <1>1, <1>5
  <2>3. ASSUME NEW d, On(r, d) PROVE On(q, d) \/ d = c
    <3>1. PICK i \in 1..Len(r) : r[i] = d
      BY <2>3 DEF On
    <3>2. CASE i = 1
      BY <1>5, <3>1, <3>2
    <3>3. CASE i # 1
      BY <2>1, <3>1, <3>3 DEF On
    <3> QED BY <3>2, <3>3
  <2>4. ASSUME NEW d, On(q, d) PROVE On(r, d)
    <3>1. PICK i \in 1..Len(q) : q[i] = d
      BY <2>4 DEF On
    <3> DEFINE k == i + 1
    <3>2. k \in 1..Len(r) /\ r[k] = d
      BY <1>5, <3>1
    <3> HIDE DEF k
    <3> QED BY <3>2 DEF On
  <2>5. On(r, c)
    BY <1>5, <2>2 DEF On
  <2> QED BY <2>3, <2>4, <2>5
<1> QED BY <1>1, <1>2, <1>4, <1>6 DEF r, h

\* The elements of two lists behind each other.
LEMMA OnConcat ==
    ASSUME NEW S, NEW s \in Seq(S), NEW q \in Seq(S)
    PROVE  s \o q \in Seq(S) /\ \A d : On(s \o q, d) => On(s, d) \/ On(q, d)
<1> DEFINE r == s \o q
<1>1. /\ r \in Seq(S) /\ Len(r) = Len(s) + Len(q) /\ Len(s) \in Nat /\ Len(q) \in Nat
      /\ \A i \in 1..(Len(s) + Len(q)) : r[i] = IF i <= Len(s) THEN s[i] ELSE q[i - Len(s)]
  BY ConcatProperties, LenProperties
<1> HIDE DEF r
<1>2. ASSUME NEW d, NEW i \in 1..Len(r), r[i] = d PROVE On(s, d) \/ On(q, d)
  <2>1. CASE i <= Len(s)
    <3>1. i \in 1..Len(s) /\ s[i] = d
      BY <1>1, <1>2, <2>1
    <3> QED BY <3>1 DEF On
  <2>2. CASE ~(i <= Len(s))
    <3> DEFINE j == i - Len(s)
    <3>1. j \in 1..Len(q) /\ q[j] = d
      BY <1>1, <1>2, <2>2
    <3> HIDE DEF j
    <3> QED BY <3>1 DEF On
  <2> QED BY <2>1, <2>2
<1> QED BY <1>1, <1>2 DEF On, r

\* A list without its head.
LEMMA OnTail ==
    ASSUME NEW S, NEW q \in Seq(S), q # <<>>
    PROVE  /\ Head(q) \in S /\ On(q, Head(q))
           /\ Tail(q) \in Seq(S) /\ \A d : On(Tail(q), d) => On(q, d)
<1>1. Len(q) \in Nat /\ Len(q) > 0
  BY LenProperties, EmptySeq
<1>2. Head(q) = q[1] /\ q[1] \in S /\ 1 \in 1..Len(q)
  BY <1>1, ElementOfSeq, HeadTailProperties
<1>3. /\ Tail(q) \in Seq(S) /\ Len(Tail(q)) = Len(q) - 1
      /\ \A i \in 1..Len(Tail(q)) : Tail(q)[i] = q[i + 1]
  BY HeadTailProperties
<1>4. \A i \in 1..Len(Tail(q)) : i + 1 \in 1..Len(q)
  BY <1>1, <1>3
<1> QED BY <1>2, <1>3, <1>4 DEF On

\* A part of a list.
LEMMA OnPart ==
    ASSUME NEW S, NEW q \in Seq(S), NEW m \in Nat \ {0}, NEW n \in Int, n <= Len(q)
    PROVE  SubSeq(q, m, n) \in Seq(S) /\ \A d : On(SubSeq(q, m, n), d) => On(q, d)
<1> DEFINE r == SubSeq(q, m, n)
<1>1. Len(q) \in Nat /\ \A i \in 1..Len(q) : q[i] \in S
  BY LenProperties, ElementOfSeq
<1>2. \A i \in m..n : i \in 1..Len(q)
  BY <1>1
<1>3. /\ r \in Seq(S) /\ Len(r) = IF m <= n THEN n - m + 1 ELSE 0
      /\ \A i \in 1..(n - m + 1) : r[i] = q[m + i - 1]
  BY <1>1, <1>2, SubSeqProperties
<1> HIDE DEF r
<1>4. ASSUME NEW i \in 1..Len(r) PROVE m + i - 1 \in 1..Len(q) /\ r[i] = q[m + i - 1]
  <2>1. m <= n
    <3> SUFFICES ASSUME ~(m <= n) PROVE FALSE
      OBVIOUS
    <3>1. Len(r) = 0
      BY <1>3
    <3> QED BY <3>1, <1>4
  <2>2. Len(r) = n - m + 1
    BY <1>3, <2>1
  <2> QED BY <1>1, <1>3, <2>1, <2>2
<1> QED BY <1>3, <1>4 DEF On, r

\* A list without the element at some place.
LEMMA OnRemoved ==
    ASSUME NEW S, NEW q \in Seq(S), NEW i \in 1..Len(q)
    PROVE  /\ RemoveAt(q, i) \in Seq(S) /\ \A d : On(RemoveAt(q, i), d) => On(q, d)
           /\ q[i] \in S /\ On(q, q[i])
<1> DEFINE s == SubSeq(q, 1, i - 1)
           t == SubSeq(q, i + 1, Len(q))
<1>1. Len(q) \in Nat
  BY LenProperties
<1>2. s \in Seq(S) /\ \A d : On(s, d) => On(q, d)
  <2>1. 1 \in Nat \ {0} /\ i - 1 \in Int /\ i - 1 <= Len(q)
    BY <1>1
  <2> QED BY <2>1, OnPart
<1>3. t \in Seq(S) /\ \A d : On(t, d) => On(q, d)
  <2>1. i + 1 \in Nat \ {0} /\ Len(q) \in Int /\ Len(q) <= Len(q)
    BY <1>1
  <2> QED BY <2>1, OnPart
<1> HIDE DEF s, t
<1>4. s \o t \in Seq(S) /\ \A d : On(s \o t, d) => On(s, d) \/ On(t, d)
  BY <1>2, <1>3, OnConcat
<1>5. q[i] \in S
  BY ElementOfSeq
<1> QED BY <1>2, <1>3, <1>4, <1>5 DEF On, RemoveAt, s, t

-----------------------------------------------------------------------------
(* Promises *)

\* thread::notify moves contexts between the lists, and adds none.
LEMMA NotifyFacts ==
    ASSUME TypeOK, NEW p, NEW sleepers \in [Contexts -> Nat], Notify(p, sleepers)
    PROVE  /\ ready' \in Seq(Contexts) /\ blocked' \in Seq(Contexts)
           /\ sleep_pqueue' \in [Contexts -> Nat] /\ prom' \in [Contexts -> Futures \cup {NULL}]
           /\ \A d : On(ready', d) \/ On(blocked', d) => On(ready, d) \/ On(blocked, d)
           /\ \A d \in Contexts : sleep_pqueue'[d] > 0 => sleepers[d] > 0
<1>0. ready \in Seq(Contexts) /\ blocked \in Seq(Contexts) /\ prom \in [Contexts -> Futures \cup {NULL}]
  BY DEF TypeOK
<1> DEFINE hits == {i \in DOMAIN blocked : try_unblock(blocked[i], p)}
           i == Min(hits)
<1>1. /\ sleep_pqueue' \in [Contexts -> Nat] /\ prom' \in [Contexts -> Futures \cup {NULL}]
      /\ \A d \in Contexts : sleep_pqueue'[d] > 0 => sleepers[d] > 0
  <2>1. CASE sleep_pqueue' = sleepers /\ UNCHANGED prom
    BY <1>0, <2>1
  <2>2. ASSUME NEW x \in TimedWaiters(p, sleepers),
               sleep_pqueue' = [sleepers EXCEPT ![x] = @ - 1], prom' = [prom EXCEPT ![x] = NULL]
        PROVE  <1>1
    <3>1. x \in Contexts /\ sleepers[x] > 0 /\ sleepers[x] \in Nat
      BY <2>2 DEF TimedWaiters
    <3>2. sleepers[x] - 1 \in Nat
      BY <3>1
    <3>3. prom' \in [Contexts -> Futures \cup {NULL}]
      BY <1>0, <2>2
    <3>4. sleep_pqueue' \in [Contexts -> Nat]
      BY <2>2, <3>1, <3>2
    <3>5. \A d \in Contexts : sleep_pqueue'[d] > 0 => sleepers[d] > 0
      BY <2>2, <3>1
    <3> QED BY <3>3, <3>4, <3>5
  <2> QED BY <2>1, <2>2 DEF Notify
<1>2. CASE hits = {}
  <2>1. ready' = ready /\ blocked' = blocked
    BY <1>2 DEF Notify
  <2> QED BY <1>0, <1>1, <2>1
<1>3. CASE hits # {}
  <2>1. DOMAIN blocked = 1..Len(blocked) /\ Len(blocked) \in Nat
    BY <1>0, LenProperties
  <2>2. hits \subseteq 1..Len(blocked) /\ hits \subseteq Nat
    BY <2>1
  <2>3. ready' = <<blocked[i]>> \o ready /\ blocked' = RemoveAt(blocked, i)
    BY <1>3 DEF Notify, ready_push_front
  <2> HIDE DEF hits
  <2>4. i \in hits
    BY <1>3, <2>2, LeastNat
  <2>5. i \in 1..Len(blocked)
    BY <2>2, <2>4
  <2> HIDE DEF i
  <2>6. /\ RemoveAt(blocked, i) \in Seq(Contexts) /\ \A d : On(RemoveAt(blocked, i), d) => On(blocked, d)
        /\ blocked[i] \in Contexts /\ On(blocked, blocked[i])
    BY <1>0, <2>5, OnRemoved
  <2> DEFINE c == blocked[i]
  <2>7. c \in Contexts
    BY <2>6
  <2> HIDE DEF c
  <2>8. <<c>> \o ready \in Seq(Contexts) /\ \A d : On(<<c>> \o ready, d) <=> On(ready, d) \/ d = c
    BY <1>0, <2>7, OnPushed
  <2>9. ready' = <<c>> \o ready /\ blocked' = RemoveAt(blocked, i) /\ On(blocked, c)
    BY <2>3, <2>6 DEF c
  <2>10. /\ ready' \in Seq(Contexts) /\ blocked' \in Seq(Contexts)
         /\ \A d : On(ready', d) \/ On(blocked', d) => On(ready, d) \/ On(blocked, d)
    BY <2>6, <2>8, <2>9
  <2> QED BY <1>1, <2>10
<1> QED BY <1>2, <1>3

\* promise_base::notify on this thread does no more.
LEMMA NotifyPromiseFacts ==
    ASSUME TypeOK, NEW p, NEW sleepers \in [Contexts -> Nat], NotifyPromise(p, sleepers)
    PROVE  /\ ready' \in Seq(Contexts) /\ blocked' \in Seq(Contexts)
           /\ sleep_pqueue' \in [Contexts -> Nat] /\ prom' \in [Contexts -> Futures \cup {NULL}]
           /\ \A d : On(ready', d) \/ On(blocked', d) => On(ready, d) \/ On(blocked, d)
           /\ \A d \in Contexts : sleep_pqueue'[d] > 0 => sleepers[d] > 0
<1>1. CASE Notify(p, sleepers)
  BY <1>1, NotifyFacts
<1>2. CASE sleep_pqueue' = sleepers /\ UNCHANGED <<ready, blocked, prom>>
  BY <1>2 DEF TypeOK
<1> QED BY <1>1, <1>2 DEF NotifyPromise

\* Errors that a promise can hold.
Errors == {"none", "timeout", "task", "canceled", "quit"}

\* set_exception: the same, and an error in the promise.
LEMMA SetExceptionFacts ==
    ASSUME TypeOK, NEW p, NEW e \in Errors, NEW sleepers \in [Contexts -> Nat],
           set_exception(p, e, sleepers)
    PROVE  /\ ready' \in Seq(Contexts) /\ blocked' \in Seq(Contexts)
           /\ sleep_pqueue' \in [Contexts -> Nat] /\ prom' \in [Contexts -> Futures \cup {NULL}]
           /\ \A d : On(ready', d) \/ On(blocked', d) => On(ready, d) \/ On(blocked, d)
           /\ \A d \in Contexts : sleep_pqueue'[d] > 0 => sleepers[d] > 0
           /\ m_error' \in [Futures -> Errors] /\ UNCHANGED <<m_value, m_blocked_thread>>
<1>1. NotifyPromise(p, sleepers)
  BY DEF set_exception
<1>2. m_error' \in [Futures -> Errors] /\ UNCHANGED <<m_value, m_blocked_thread>>
  BY DEF set_exception, TypeOK, Errors
<1> QED BY <1>1, <1>2, NotifyPromiseFacts

\* set_value: the same, and a value in the promise.
LEMMA SetValueFacts ==
    ASSUME TypeOK, NEW p, set_value(p)
    PROVE  /\ ready' \in Seq(Contexts) /\ blocked' \in Seq(Contexts)
           /\ sleep_pqueue' \in [Contexts -> Nat] /\ prom' \in [Contexts -> Futures \cup {NULL}]
           /\ \A d : On(ready', d) \/ On(blocked', d) => On(ready, d) \/ On(blocked, d)
           /\ \A d \in Contexts : sleep_pqueue'[d] > 0 => sleep_pqueue[d] > 0
           /\ m_value' \in [Futures -> BOOLEAN] /\ UNCHANGED <<m_error, m_blocked_thread>>
<1>1. CASE m_error[p] # "none"
  BY <1>1 DEF set_value, TypeOK, promVars, listVars
<1>2. CASE ~(m_error[p] # "none")
  <2>1. NotifyPromise(p, sleep_pqueue) /\ sleep_pqueue \in [Contexts -> Nat]
    BY <1>2 DEF set_value, TypeOK
  <2>2. m_value' \in [Futures -> BOOLEAN] /\ UNCHANGED <<m_error, m_blocked_thread>>
    BY <1>2 DEF set_value, TypeOK
  <2> QED BY <2>1, <2>2, NotifyPromiseFacts
<1> QED BY <1>1, <1>2

-----------------------------------------------------------------------------
(* The inductive invariant *)

\* The parts of the invariant, and facts about the constants.
LEMMA IInvParts ==
    ASSUME IInv
    PROVE  /\ TypeOK /\ OneRuns /\ Made
           /\ \A c \in Contexts : Hand(c)
           /\ \A t \in Futures : OnePlace(t)
           /\ \A t, u \in Futures : Counted(t) /\ InOrder(t, u)
           /\ \A t \in task_sch_queue : when[t] # Past
           /\ Running \in Contexts /\ Main \in Contexts /\ NULL \notin Contexts /\ NULL \notin Futures
           /\ MaxTime \in Nat /\ MaxCalls \in Nat /\ Past = -1 /\ Forever = MaxTime + 1
           /\ Delays \subseteq Nat /\ LocalFutures \subseteq Futures /\ RemoteFutures \subseteq Futures
           /\ now \in 0..MaxTime /\ Past \in Times /\ Forever \in Times
<1>1. Running \in Contexts
  BY ContextAssumption DEF IInv, TypeOK, Running
<1>2. /\ Main \in Contexts /\ NULL \notin Contexts /\ NULL \notin Futures
      /\ LocalFutures \subseteq Futures /\ RemoteFutures \subseteq Futures
  BY ContextAssumption, NullAssumption DEF Futures
<1>3. /\ MaxTime \in Nat /\ MaxCalls \in Nat /\ Past = -1 /\ Forever = MaxTime + 1 /\ Delays \subseteq Nat
  BY BoundAssumption, DelayAssumption DEF Past, Forever
<1>4. now \in 0..MaxTime
  BY DEF IInv, TypeOK
<1>5. Past \in Times /\ Forever \in Times
  BY <1>3 DEF Times
<1> QED BY <1>1, <1>2, <1>3, <1>4, <1>5 DEF IInv

\* A step of the running context c that leaves the tasks alone ...
Local(c) ==
    /\ c = Running
    /\ UNCHANGED <<current, next, stage, task_in_queue, task_pqueue, task_sch_queue, when, posted_num, pushed>>
    /\ \A d \in Contexts : d # c => pc'[d] = pc[d] /\ then'[d] = then[d] /\ call'[d] = call[d]
    /\ pc'[c] \notin {"unused", "suspended"}

\* ... and brings no other context than c into the lists and the heap.
ListsKept(c) ==
    \A d \in Contexts : On(ready', d) \/ On(blocked', d) \/ sleep_pqueue'[d] > 0
                            => On(ready, d) \/ On(blocked, d) \/ sleep_pqueue[d] > 0 \/ d = c

\* The context that runs goes on.
LEMMA RunsOn ==
    ASSUME IInv, NEW c \in Contexts, c = Running, current' = current, ListsKept(c),
           pc'[c] \notin {"unused", "suspended"}, \A d \in Contexts : d # c => pc'[d] = pc[d]
    PROVE  OneRuns' /\ Made'
<1>1. Running' = Running
  BY DEF Running
<1>2. OneRuns'
  BY <1>1, IInvParts DEF OneRuns
<1>3. Made'
  BY IInvParts DEF Made, ListsKept
<1> QED BY <1>2, <1>3

\* A context that does not run has what it had.
LEMMA HandSame ==
    ASSUME IInv, NEW d \in Contexts, pc'[d] = pc[d], then'[d] = then[d], call'[d] = call[d],
           next'[d] = next[d], next[d] # NULL => stage'[next[d]] = stage[next[d]]
    PROVE  Hand(d)'
<1>1. Hand(d)
  BY IInvParts
<1>2. (InTask(d)' <=> InTask(d)) /\ (NoTask(d)' <=> NoTask(d))
  BY DEF InTask, NoTask, Switching
<1> QED BY <1>1, <1>2 DEF Hand

\* The tasks are where they were.
LEMMA TasksSame ==
    ASSUME IInv, UNCHANGED <<next, stage, task_in_queue, task_pqueue, task_sch_queue, when, posted_num, pushed>>
    PROVE  /\ \A t \in Futures : OnePlace(t)'
           /\ \A t, u \in Futures : Counted(t)' /\ InOrder(t, u)'
           /\ \A t \in task_sch_queue' : when'[t] # Past
<1>1. \A t \in Futures : OnePlace(t)'
  BY IInvParts DEF OnePlace, Queued, Held
<1>2. Posted' = Posted
  BY DEF Posted
<1>3. \A t \in Futures : Counted(t)'
  BY <1>2, IInvParts DEF Counted
<1>4. \A t, u \in Futures : InOrder(t, u)'
  BY IInvParts DEF InOrder, Queued, Held, Started, Outranks
<1> QED BY <1>1, <1>3, <1>4, IInvParts

\* A local step keeps the invariant if it keeps the types and the context has what it should.
LEMMA LocalIInv ==
    ASSUME IInv, NEW c \in Contexts, Local(c), ListsKept(c), Hand(c)', TypeOK'
    PROVE  IInv'
<1>1. OneRuns' /\ Made'
  BY RunsOn DEF Local
<1>2. \A d \in Contexts : Hand(d)'
  <2> SUFFICES ASSUME NEW d \in Contexts, d # c PROVE Hand(d)'
    OBVIOUS
  <2> QED BY HandSame DEF Local
<1>3. /\ \A t \in Futures : OnePlace(t)'
      /\ \A t, u \in Futures : Counted(t)' /\ InOrder(t, u)'
      /\ \A t \in task_sch_queue' : when'[t] # Past
  BY TasksSame DEF Local
<1> QED BY <1>1, <1>2, <1>3 DEF IInv

\* A local step that leaves the lists alone.
LEMMA SameLists == ASSUME UNCHANGED listVars, NEW c PROVE ListsKept(c)
BY DEF ListsKept, listVars

-----------------------------------------------------------------------------
(* Steps that leave the tasks and the lists alone *)

\* A call of a task's body is counted.
LEMMA CallCounted ==
    ASSUME IInv, NEW c \in Contexts, NEW k, User(c, k)
    PROVE  calls' \in [Futures -> 0..MaxCalls]
<1>1. calls \in [Futures -> 0..MaxCalls] /\ MaxCalls \in Nat /\ next \in [Contexts -> Futures \cup {NULL}]
  BY IInvParts DEF TypeOK
<1>2. next[c] \in Futures
  <2>1. Hand(c) /\ InTask(c)
    BY IInvParts DEF User, At, InTask
  <2> QED BY <1>1, <2>1 DEF Hand
<1> QED BY <1>1, <1>2 DEF User

\* while( !done ).
LEMMA LoopTopIInv == ASSUME IInv, NEW c \in Contexts, LoopTop(c) PROVE IInv'
<1> USE DEF listVars, queueVars, ctxVars, promVars, postVars, taskVars
<1>0. TypeOK /\ Hand(c) /\ pc \in [Contexts -> Labels] /\ then \in [Contexts -> {"top", "after_run", "switch"}]
      /\ call \in [Contexts -> {"process_tasks", "wait", "sleep", "yield"}]
  BY IInvParts DEF TypeOK
<1>1. TypeOK'
  <2>1. pc' \in [Contexts -> Labels]
    BY ZenonT(60), <1>0, IInvParts DEF LoopTop, Goto, TypeOK, Labels, CheckForTimeouts
  <2>2. then' \in [Contexts -> {"top", "after_run", "switch"}]
    BY <1>0, IInvParts DEF LoopTop, Goto, TypeOK, CheckForTimeouts
  <2> QED BY <1>0, <2>1, <2>2 DEF LoopTop, TypeOK, CheckForTimeouts
<1>2. Local(c)
  BY <1>0 DEF LoopTop, At, Goto, Local, CheckForTimeouts
<1>3. Hand(c)'
  BY <1>0 DEF LoopTop, At, Goto, Hand, InTask, NoTask, Switching, CheckForTimeouts
<1>4. ListsKept(c)
  BY SameLists DEF LoopTop
<1> QED BY <1>1, <1>2, <1>3, <1>4, LocalIInv

\* A loop without a task.
LEMMA LoopIdleIInv == ASSUME IInv, NEW c \in Contexts, LoopIdle(c) PROVE IInv'
<1> USE DEF listVars, queueVars, ctxVars, promVars, postVars, taskVars
<1>0. TypeOK /\ Hand(c) /\ pc \in [Contexts -> Labels] /\ then \in [Contexts -> {"top", "after_run", "switch"}]
      /\ call \in [Contexts -> {"process_tasks", "wait", "sleep", "yield"}]
  BY IInvParts DEF TypeOK
<1>1. TypeOK'
  <2>1. pc' \in [Contexts -> Labels]
    BY ZenonT(60), <1>0, IInvParts DEF LoopIdle, Goto, TypeOK, Labels, CheckForTimeouts, StartNextTask
  <2>2. then' \in [Contexts -> {"top", "after_run", "switch"}]
    BY <1>0, IInvParts DEF LoopIdle, Goto, TypeOK, CheckForTimeouts, StartNextTask
  <2>3. call' \in [Contexts -> {"process_tasks", "wait", "sleep", "yield"}]
    BY <1>0, IInvParts DEF LoopIdle, Goto, TypeOK, CheckForTimeouts, StartNextTask
  <2> QED BY <1>0, <2>1, <2>2, <2>3 DEF LoopIdle, TypeOK, CheckForTimeouts, StartNextTask
<1>2. Local(c)
  BY <1>0 DEF LoopIdle, At, Goto, Local, CheckForTimeouts, StartNextTask
<1>3. Hand(c)'
  BY <1>0 DEF LoopIdle, At, Goto, Hand, InTask, NoTask, Switching, CheckForTimeouts, StartNextTask
<1>4. ListsKept(c)
  BY SameLists DEF LoopIdle
<1> QED BY <1>1, <1>2, <1>3, <1>4, LocalIInv

\* timed_wait() returns at its time.
LEMMA LoopTimedOutIInv == ASSUME IInv, NEW c \in Contexts, LoopTimedOut(c) PROVE IInv'
<1> USE DEF listVars, queueVars, ctxVars, promVars, postVars, taskVars
<1>0. TypeOK /\ Hand(c) /\ pc \in [Contexts -> Labels] /\ then \in [Contexts -> {"top", "after_run", "switch"}]
      /\ call \in [Contexts -> {"process_tasks", "wait", "sleep", "yield"}]
  BY IInvParts DEF TypeOK
<1>1. TypeOK'
  <2>1. pc' \in [Contexts -> Labels]
    BY <1>0, IInvParts DEF LoopTimedOut, Goto, TypeOK, Labels
  <2> QED BY <1>0, <2>1 DEF LoopTimedOut, TypeOK
<1>2. Local(c)
  BY <1>0 DEF LoopTimedOut, At, Goto, Local
<1>3. Hand(c)'
  BY <1>0 DEF LoopTimedOut, At, Goto, Hand, InTask, NoTask, Switching
<1>4. ListsKept(c)
  BY SameLists DEF LoopTimedOut
<1> QED BY <1>1, <1>2, <1>3, <1>4, LocalIInv

\* The condition variable wakes the loop for no reason.
LEMMA LoopSpuriousWakeIInv == ASSUME IInv, NEW c \in Contexts, LoopSpuriousWake(c) PROVE IInv'
<1> USE DEF listVars, queueVars, ctxVars, promVars, postVars, taskVars
<1>0. TypeOK /\ Hand(c) /\ pc \in [Contexts -> Labels] /\ then \in [Contexts -> {"top", "after_run", "switch"}]
      /\ call \in [Contexts -> {"process_tasks", "wait", "sleep", "yield"}]
  BY IInvParts DEF TypeOK
<1>1. TypeOK'
  <2>1. pc' \in [Contexts -> Labels]
    BY <1>0, IInvParts DEF LoopSpuriousWake, Goto, TypeOK, Labels
  <2> QED BY <1>0, <2>1 DEF LoopSpuriousWake, TypeOK
<1>2. Local(c)
  BY <1>0 DEF LoopSpuriousWake, At, Goto, Local
<1>3. Hand(c)'
  BY <1>0 DEF LoopSpuriousWake, At, Goto, Hand, InTask, NoTask, Switching
<1>4. ListsKept(c)
  BY SameLists DEF LoopSpuriousWake
<1> QED BY <1>1, <1>2, <1>3, <1>4, LocalIInv

\* The assertion of start_next_task() fails.
LEMMA SwitchFaultIInv == ASSUME IInv, NEW c \in Contexts, SwitchFault(c) PROVE IInv'
<1> USE DEF listVars, queueVars, ctxVars, promVars, postVars, taskVars
<1>0. TypeOK /\ Hand(c) /\ pc \in [Contexts -> Labels] /\ then \in [Contexts -> {"top", "after_run", "switch"}]
      /\ call \in [Contexts -> {"process_tasks", "wait", "sleep", "yield"}]
  BY IInvParts DEF TypeOK
<1>1. TypeOK'
  <2>1. fault' \in Faults
    BY <1>0, IInvParts DEF SwitchFault, Goto, TypeOK, Faults
  <2> QED BY <1>0, <2>1 DEF SwitchFault, TypeOK
<1>2. Local(c)
  BY <1>0 DEF SwitchFault, At, Goto, Local
<1>3. Hand(c)'
  BY <1>0 DEF SwitchFault, At, Goto, Hand, InTask, NoTask, Switching
<1>4. ListsKept(c)
  BY SameLists DEF SwitchFault
<1> QED BY <1>1, <1>2, <1>3, <1>4, LocalIInv

\* task_canceled leaves process_tasks.
LEMMA ResumeLoopFaultIInv == ASSUME IInv, NEW c \in Contexts, ResumeLoopFault(c) PROVE IInv'
<1> USE DEF listVars, queueVars, ctxVars, promVars, postVars, taskVars
<1>0. TypeOK /\ Hand(c) /\ pc \in [Contexts -> Labels] /\ then \in [Contexts -> {"top", "after_run", "switch"}]
      /\ call \in [Contexts -> {"process_tasks", "wait", "sleep", "yield"}]
  BY IInvParts DEF TypeOK
<1>1. TypeOK'
  <2>1. fault' \in Faults
    BY <1>0, IInvParts DEF ResumeLoopFault, Goto, TypeOK, Faults
  <2> QED BY <1>0, <2>1 DEF ResumeLoopFault, TypeOK
<1>2. Local(c)
  BY <1>0 DEF ResumeLoopFault, At, Goto, Local
<1>3. Hand(c)'
  BY <1>0 DEF ResumeLoopFault, At, Goto, Hand, InTask, NoTask, Switching
<1>4. ListsKept(c)
  BY SameLists DEF ResumeLoopFault
<1> QED BY <1>1, <1>2, <1>3, <1>4, LocalIInv

\* yield() or sleep_until() returns.
LEMMA ResumeYieldOrSleepIInv == ASSUME IInv, NEW c \in Contexts, ResumeYieldOrSleep(c) PROVE IInv'
<1> USE DEF listVars, queueVars, ctxVars, promVars, postVars, taskVars
<1>0. TypeOK /\ Hand(c) /\ pc \in [Contexts -> Labels] /\ then \in [Contexts -> {"top", "after_run", "switch"}]
      /\ call \in [Contexts -> {"process_tasks", "wait", "sleep", "yield"}]
  BY IInvParts DEF TypeOK
<1>1. TypeOK'
  <2>1. pc' \in [Contexts -> Labels]
    BY <1>0, IInvParts DEF ResumeYieldOrSleep, Goto, TypeOK, Labels
  <2>2. resume_time' \in [Contexts -> Times]
    BY <1>0, IInvParts DEF ResumeYieldOrSleep, Goto, TypeOK
  <2> QED BY <1>0, <2>1, <2>2 DEF ResumeYieldOrSleep, TypeOK
<1>2. Local(c)
  BY <1>0 DEF ResumeYieldOrSleep, At, Goto, Local
<1>3. Hand(c)'
  BY <1>0 DEF ResumeYieldOrSleep, At, Goto, Hand, InTask, NoTask, Switching
<1>4. ListsKept(c)
  BY SameLists DEF ResumeYieldOrSleep
<1> QED BY <1>1, <1>2, <1>3, <1>4, LocalIInv

\* thread::wait returns after its block.
LEMMA ResumeWaitIInv == ASSUME IInv, NEW c \in Contexts, ResumeWait(c) PROVE IInv'
<1> USE DEF listVars, queueVars, ctxVars, promVars, postVars, taskVars
<1>0. TypeOK /\ Hand(c) /\ pc \in [Contexts -> Labels] /\ then \in [Contexts -> {"top", "after_run", "switch"}]
      /\ call \in [Contexts -> {"process_tasks", "wait", "sleep", "yield"}]
  BY IInvParts DEF TypeOK
<1>1. TypeOK'
  <2>1. pc' \in [Contexts -> Labels]
    BY ZenonT(60), <1>0, IInvParts DEF ResumeWait, Goto, TypeOK, Labels
  <2>2. prom' \in [Contexts -> Futures \cup {NULL}]
    BY <1>0, IInvParts DEF ResumeWait, Goto, TypeOK
  <2>3. arg' \in [Contexts -> Futures \cup {NULL}]
    BY <1>0, IInvParts DEF ResumeWait, Goto, TypeOK
  <2>4. timeout' \in [Contexts -> Times]
    <3>1. timeout' = timeout \/ timeout' = [timeout EXCEPT ![c] = Forever]
      BY DEF ResumeWait
    <3>2. timeout \in [Contexts -> Times] /\ Forever \in Times
      BY <1>0, IInvParts DEF TypeOK
    <3> QED BY <3>1, <3>2
  <2> QED BY <1>0, <2>1, <2>2, <2>3, <2>4 DEF ResumeWait, TypeOK
<1>2. Local(c)
  BY <1>0 DEF ResumeWait, At, Goto, Local
<1>3. Hand(c)'
  BY <1>0 DEF ResumeWait, At, Goto, Hand, InTask, NoTask, Switching
<1>4. ListsKept(c)
  BY SameLists DEF ResumeWait
<1> QED BY <1>1, <1>2, <1>3, <1>4, LocalIInv

\* The assertion of thread::notify fails.
LEMMA RunNotifyFaultIInv == ASSUME IInv, NEW c \in Contexts, RunNotifyFault(c) PROVE IInv'
<1> USE DEF listVars, queueVars, ctxVars, promVars, postVars, taskVars
<1>0. TypeOK /\ Hand(c) /\ pc \in [Contexts -> Labels] /\ then \in [Contexts -> {"top", "after_run", "switch"}]
      /\ call \in [Contexts -> {"process_tasks", "wait", "sleep", "yield"}]
  BY IInvParts DEF TypeOK
<1>1. TypeOK'
  <2>1. fault' \in Faults
    BY <1>0, IInvParts DEF RunNotifyFault, Goto, TypeOK, Faults
  <2> QED BY <1>0, <2>1 DEF RunNotifyFault, TypeOK
<1>2. Local(c)
  BY <1>0 DEF RunNotifyFault, At, Goto, Local
<1>3. Hand(c)'
  BY <1>0 DEF RunNotifyFault, At, Goto, Hand, InTask, NoTask, Switching
<1>4. ListsKept(c)
  BY SameLists DEF RunNotifyFault
<1> QED BY <1>1, <1>2, <1>3, <1>4, LocalIInv

\* thread::wait returns without a block.
LEMMA ThreadWaitReturnsIInv == ASSUME IInv, NEW c \in Contexts, ThreadWaitReturns(c) PROVE IInv'
<1> USE DEF listVars, queueVars, ctxVars, promVars, postVars, taskVars
<1>0. TypeOK /\ Hand(c) /\ pc \in [Contexts -> Labels] /\ then \in [Contexts -> {"top", "after_run", "switch"}]
      /\ call \in [Contexts -> {"process_tasks", "wait", "sleep", "yield"}]
  BY IInvParts DEF TypeOK
<1>1. TypeOK'
  <2>1. pc' \in [Contexts -> Labels]
    BY ZenonT(60), <1>0, IInvParts DEF ThreadWaitReturns, Goto, TypeOK, Labels
  <2>2. arg' \in [Contexts -> Futures \cup {NULL}]
    BY <1>0, IInvParts DEF ThreadWaitReturns, Goto, TypeOK
  <2>3. timeout' \in [Contexts -> Times]
    <3>1. timeout' = timeout \/ timeout' = [timeout EXCEPT ![c] = Forever]
      BY DEF ThreadWaitReturns
    <3>2. timeout \in [Contexts -> Times] /\ Forever \in Times
      BY <1>0, IInvParts DEF TypeOK
    <3> QED BY <3>1, <3>2
  <2> QED BY <1>0, <2>1, <2>2, <2>3 DEF ThreadWaitReturns, TypeOK
<1>2. Local(c)
  BY <1>0 DEF ThreadWaitReturns, At, Goto, Local
<1>3. Hand(c)'
  BY <1>0 DEF ThreadWaitReturns, At, Goto, Hand, InTask, NoTask, Switching
<1>4. ListsKept(c)
  BY SameLists DEF ThreadWaitReturns
<1> QED BY <1>1, <1>2, <1>3, <1>4, LocalIInv

\* promise::wait returns.
LEMMA WaitResultIInv == ASSUME IInv, NEW c \in Contexts, WaitResult(c) PROVE IInv'
<1> USE DEF listVars, queueVars, ctxVars, promVars, postVars, taskVars
<1>0. TypeOK /\ Hand(c) /\ pc \in [Contexts -> Labels] /\ then \in [Contexts -> {"top", "after_run", "switch"}]
      /\ call \in [Contexts -> {"process_tasks", "wait", "sleep", "yield"}]
  BY IInvParts DEF TypeOK
<1>1. TypeOK'
  <2>1. pc' \in [Contexts -> Labels]
    BY <1>0, IInvParts DEF WaitResult, Goto, TypeOK, Labels
  <2>2. arg' \in [Contexts -> Futures \cup {NULL}]
    BY <1>0, IInvParts DEF WaitResult, Goto, TypeOK
  <2>3. timeout' \in [Contexts -> Times]
    BY <1>0, IInvParts DEF WaitResult, Goto, TypeOK
  <2>4. m_error' \in [Futures -> Errors]
    BY <1>0, IInvParts DEF WaitResult, Goto, TypeOK, Errors
  <2> QED BY <1>0, <2>1, <2>2, <2>3, <2>4 DEF WaitResult, TypeOK, Errors
<1>2. Local(c)
  BY <1>0 DEF WaitResult, At, Goto, Local
<1>3. Hand(c)'
  BY <1>0 DEF WaitResult, At, Goto, Hand, InTask, NoTask, Switching
<1>4. ListsKept(c)
  BY SameLists DEF WaitResult
<1> QED BY <1>1, <1>2, <1>3, <1>4, LocalIInv

\* quit() meets a null promise.
LEMMA QuitFaultIInv == ASSUME IInv, NEW c \in Contexts, QuitFault(c) PROVE IInv'
<1> USE DEF listVars, queueVars, ctxVars, promVars, postVars, taskVars
<1>0. TypeOK /\ Hand(c) /\ pc \in [Contexts -> Labels] /\ then \in [Contexts -> {"top", "after_run", "switch"}]
      /\ call \in [Contexts -> {"process_tasks", "wait", "sleep", "yield"}]
  BY IInvParts DEF TypeOK
<1>1. TypeOK'
  <2>1. fault' \in Faults
    BY <1>0, IInvParts DEF QuitFault, Goto, TypeOK, Faults
  <2> QED BY <1>0, <2>1 DEF QuitFault, TypeOK
<1>2. Local(c)
  BY <1>0 DEF QuitFault, At, Goto, Local
<1>3. Hand(c)'
  BY <1>0 DEF QuitFault, At, Goto, Hand, InTask, NoTask, Switching
<1>4. ListsKept(c)
  BY SameLists DEF QuitFault
<1> QED BY <1>1, <1>2, <1>3, <1>4, LocalIInv

\* yield().
LEMMA UserYieldIInv == ASSUME IInv, NEW c \in Contexts, UserYield(c) PROVE IInv'
<1> USE DEF listVars, queueVars, ctxVars, promVars, postVars, taskVars
<1>0. TypeOK /\ Hand(c) /\ pc \in [Contexts -> Labels] /\ then \in [Contexts -> {"top", "after_run", "switch"}]
      /\ call \in [Contexts -> {"process_tasks", "wait", "sleep", "yield"}]
  BY IInvParts DEF TypeOK
<1>1. TypeOK'
  <2>1. pc' \in [Contexts -> Labels]
    BY <1>0, IInvParts DEF UserYield, Goto, TypeOK, Labels, User, StartNextTask, CheckForTimeouts
  <2>2. then' \in [Contexts -> {"top", "after_run", "switch"}]
    BY <1>0, IInvParts DEF UserYield, Goto, TypeOK, User, StartNextTask, CheckForTimeouts
  <2>3. call' \in [Contexts -> {"process_tasks", "wait", "sleep", "yield"}]
    BY <1>0, IInvParts DEF UserYield, Goto, TypeOK, User, StartNextTask, CheckForTimeouts
  <2>4. calls' \in [Futures -> 0..MaxCalls]
    BY <1>0, CallCounted DEF UserYield
  <2> QED BY <1>0, <2>1, <2>2, <2>3, <2>4 DEF UserYield, TypeOK, User, StartNextTask, CheckForTimeouts
<1>2. Local(c)
  BY <1>0 DEF UserYield, At, Goto, Local, User, StartNextTask, CheckForTimeouts
<1>3. Hand(c)'
  BY <1>0 DEF UserYield, At, Goto, Hand, InTask, NoTask, Switching, User, StartNextTask, CheckForTimeouts
<1>4. ListsKept(c)
  BY SameLists DEF UserYield
<1> QED BY <1>1, <1>2, <1>3, <1>4, LocalIInv

\* future::cancel.
LEMMA UserCancelIInv == ASSUME IInv, NEW c \in Contexts, UserCancel(c) PROVE IInv'
<1> USE DEF listVars, queueVars, ctxVars, promVars, postVars, taskVars
<1>0. TypeOK /\ Hand(c) /\ pc \in [Contexts -> Labels] /\ then \in [Contexts -> {"top", "after_run", "switch"}]
      /\ call \in [Contexts -> {"process_tasks", "wait", "sleep", "yield"}]
  BY IInvParts DEF TypeOK
<1>1. TypeOK'
  <2>1. calls' \in [Futures -> 0..MaxCalls]
    BY <1>0, CallCounted DEF UserCancel
  <2>2. task_canceled' \in [Futures -> BOOLEAN]
    BY <1>0, IInvParts DEF UserCancel, Goto, TypeOK, User
  <2>3. canceled' \in [Contexts -> BOOLEAN]
    BY <1>0, IInvParts DEF UserCancel, Goto, TypeOK, User
  <2>4. active_context' \in [Futures -> Contexts \cup {NULL}]
    BY <1>0, IInvParts DEF UserCancel, Goto, TypeOK, User
  <2> QED BY <1>0, <2>1, <2>2, <2>3, <2>4 DEF UserCancel, TypeOK, User
<1>2. Local(c)
  BY <1>0 DEF UserCancel, At, Goto, Local, User
<1>3. Hand(c)'
  BY <1>0 DEF UserCancel, At, Goto, Hand, InTask, NoTask, Switching, User
<1>4. ListsKept(c)
  BY SameLists DEF UserCancel
<1> QED BY <1>1, <1>2, <1>3, <1>4, LocalIInv

\* quit() begins.
LEMMA UserQuitIInv == ASSUME IInv, NEW c \in Contexts, UserQuit(c) PROVE IInv'
<1> USE DEF listVars, queueVars, ctxVars, promVars, postVars, taskVars
<1>0. TypeOK /\ Hand(c) /\ pc \in [Contexts -> Labels] /\ then \in [Contexts -> {"top", "after_run", "switch"}]
      /\ call \in [Contexts -> {"process_tasks", "wait", "sleep", "yield"}]
  BY IInvParts DEF TypeOK
<1>1. TypeOK'
  <2>1. pc' \in [Contexts -> Labels]
    BY <1>0, IInvParts DEF UserQuit, Goto, TypeOK, Labels, User
  <2>2. cur' \in Contexts \cup {NULL}
    BY <1>0, OnTail DEF UserQuit, TypeOK
  <2>3. calls' \in [Futures -> 0..MaxCalls]
    BY <1>0, CallCounted DEF UserQuit
  <2> QED BY <1>0, <2>1, <2>2, <2>3 DEF UserQuit, TypeOK, User
<1>2. Local(c)
  BY <1>0 DEF UserQuit, At, Goto, Local, User
<1>3. Hand(c)'
  BY <1>0 DEF UserQuit, At, Goto, Hand, InTask, NoTask, Switching, User
<1>4. ListsKept(c)
  BY SameLists DEF UserQuit
<1> QED BY <1>1, <1>2, <1>3, <1>4, LocalIInv

\* promise::wait names the thread, unless the promise is ready.
LEMMA UserWaitIInv == ASSUME IInv, NEW c \in Contexts, UserWait(c) \/ UserTimedWait(c) PROVE IInv'
<1> USE DEF listVars, queueVars, ctxVars, promVars, postVars, taskVars
<1>0. TypeOK /\ Hand(c) /\ pc \in [Contexts -> Labels]
  BY IInvParts DEF TypeOK
<1>1. PICK p \in Futures, k \in {"wait", "timed_wait"}, deadline \in Times :
         /\ User(c, k) /\ PromiseWait(c, p, deadline)
         /\ UNCHANGED <<now, fault, current, ready, blocked, sleep_pqueue, task_in_queue, task_pqueue,
                        task_sch_queue, done, prom, resume_time, canceled, then, call, timeout_time, cur,
                        next, m_value, m_error, stage, when, posted_num, pushed, task_canceled, active_context,
                        remote>>
  <2>1. CASE UserWait(c)
    <3>1. Forever \in Times
      BY IInvParts
    <3> QED BY <2>1, <3>1 DEF UserWait
  <2>2. CASE UserTimedWait(c)
    <3>1. ASSUME NEW d \in Delays, now + d <= MaxTime PROVE now + d \in Times
      BY <3>1, IInvParts DEF Times
    <3>2. PICK p \in Futures, d \in Delays : now + d <= MaxTime /\ PromiseWait(c, p, now + d)
      BY <2>2 DEF UserTimedWait
    <3> DEFINE deadline == now + d
    <3>3. deadline \in Times /\ PromiseWait(c, p, deadline)
      BY <3>1, <3>2
    <3> HIDE DEF deadline
    <3> QED BY <2>2, <3>3 DEF UserTimedWait
  <2> QED BY <2>1, <2>2
<1>2. \/ UNCHANGED <<m_blocked_thread, arg, timeout, pc>>
      \/ /\ m_blocked_thread' = [m_blocked_thread EXCEPT ![p] = TRUE]
         /\ arg' = [arg EXCEPT ![c] = p]
         /\ timeout' = [timeout EXCEPT ![c] = deadline]
         /\ pc' = [pc EXCEPT ![c] = "wait"]
  BY <1>1 DEF PromiseWait, enqueue_thread, Goto
<1>3. calls' \in [Futures -> 0..MaxCalls] /\ At(c, "user")
  BY <1>1, CallCounted DEF User
<1>4. TypeOK'
  <2>0. /\ m_blocked_thread \in [Futures -> BOOLEAN] /\ arg \in [Contexts -> Futures \cup {NULL}]
        /\ timeout \in [Contexts -> Times]
    BY <1>0 DEF TypeOK
  <2>1. /\ m_blocked_thread' \in [Futures -> BOOLEAN] /\ arg' \in [Contexts -> Futures \cup {NULL}]
        /\ timeout' \in [Contexts -> Times]
    <3>1. m_blocked_thread' \in [Futures -> BOOLEAN]
      BY <2>0, <1>2
    <3>2. arg' \in [Contexts -> Futures \cup {NULL}]
      BY <2>0, <1>2
    <3>3. timeout' \in [Contexts -> Times]
      BY <2>0, <1>2
    <3> QED BY <3>1, <3>2, <3>3
  <2>2. pc' \in [Contexts -> Labels]
    BY <1>0, <1>2 DEF Labels
  <2> QED BY <1>0, <1>1, <1>3, <2>1, <2>2 DEF TypeOK
<1>5. Local(c)
  BY <1>0, <1>1, <1>2, <1>3 DEF Local, At
<1>6. Hand(c)'
  <2>1. next' = next /\ stage' = stage /\ pc[c] = "user" /\ pc'[c] \in {"user", "wait"}
    BY <1>0, <1>1, <1>2, <1>3 DEF At
  <2> QED BY <1>0, <2>1 DEF Hand, InTask, NoTask, Switching
<1>7. ListsKept(c)
  BY <1>1, SameLists
<1> QED BY <1>4, <1>5, <1>6, <1>7, LocalIInv

\* Steps that change no label: another thread sets a promise, a list is broken, time passes.
LEMMA OutsideIInv ==
    ASSUME IInv, TypeOK',
           UNCHANGED <<current, listVars, queueVars, pc, then, call, next, stage, postVars>>
    PROVE  IInv'
<1> USE DEF listVars, queueVars, postVars
<1>1. PICK c \in Contexts : c = Running
  BY IInvParts
<1>2. pc[c] \notin {"unused", "suspended"}
  BY <1>1, IInvParts DEF OneRuns
<1>3. Local(c)
  BY <1>1, <1>2 DEF Local
<1>4. Hand(c)'
  <2>1. /\ pc'[c] = pc[c] /\ then'[c] = then[c] /\ call'[c] = call[c]
        /\ next'[c] = next[c] /\ stage'[next[c]] = stage[next[c]]
    OBVIOUS
  <2> QED BY <2>1, HandSame
<1>5. ListsKept(c)
  BY SameLists
<1> QED BY <1>3, <1>4, <1>5, LocalIInv

\* The broken list stops the thread.
LEMMA ListFaultIInv == ASSUME IInv, ListFault PROVE IInv'
<1> USE DEF listVars, queueVars, ctxVars, promVars, postVars, taskVars
<1>1. TypeOK'
  BY IInvParts DEF ListFault, TypeOK, Faults
<1> QED BY <1>1, OutsideIInv DEF ListFault

\* Time passes.
LEMMA TickIInv == ASSUME IInv, Tick PROVE IInv'
<1> USE DEF listVars, queueVars, ctxVars, promVars, postVars, taskVars
<1>1. now' \in 0..MaxTime
  BY IInvParts DEF Tick
<1>2. TypeOK'
  BY <1>1, IInvParts DEF Tick, TypeOK
<1> QED BY <1>2, OutsideIInv DEF Tick

\* Another thread sets a promise.
LEMMA RemoteSetIInv == ASSUME IInv, NEW p \in RemoteFutures, RemoteSet(p) PROVE IInv'
<1> USE DEF listVars, queueVars, ctxVars, promVars, postVars, taskVars
<1>0. TypeOK /\ p \in Futures
  BY IInvParts
<1>1. /\ m_value' \in [Futures -> BOOLEAN] /\ m_error' \in [Futures -> Errors]
      /\ remote' \in [RemoteFutures -> {"idle", "notify", "end"}]
  BY ZenonT(60), <1>0 DEF RemoteSet, TypeOK, Errors
<1>2. TypeOK'
  BY <1>0, <1>1 DEF RemoteSet, TypeOK, Errors
<1> QED BY <1>2, OutsideIInv DEF RemoteSet

-----------------------------------------------------------------------------
(* Steps that leave the tasks alone and change the lists *)

\* One turn of the loop over the expired sleepers.
LEMMA ExpireSleeperIInv == ASSUME IInv, NEW c \in Contexts, ExpireSleeper(c) PROVE IInv'
<1> USE DEF listVars, queueVars, ctxVars, promVars, postVars, taskVars
<1>0. /\ TypeOK /\ Hand(c) /\ pc \in [Contexts -> Labels] /\ sleep_pqueue \in [Contexts -> Nat]
      /\ ready \in Seq(Contexts) /\ blocked \in Seq(Contexts)
  BY IInvParts DEF TypeOK
<1>1. /\ c = Running /\ pc[c] \in {"check", "expire"} /\ pc' = [pc EXCEPT ![c] = "expire"]
      /\ UNCHANGED <<now, fault, current, queueVars, done, ctxVars, next, stage, postVars, taskVars, remote>>
  BY DEF ExpireSleeper, At, Goto
<1>2. PICK x \in Expired :
         LET rest == [sleep_pqueue EXCEPT ![x] = @ - 1] IN
         \/ /\ prom[x] # NULL
            /\ set_exception(prom[x], "timeout", rest)
         \/ /\ prom[x] = NULL
            /\ ready' = Append(ready, x)
            /\ sleep_pqueue' = rest
            /\ UNCHANGED <<blocked, prom, promVars>>
  BY DEF ExpireSleeper
<1> DEFINE rest == [sleep_pqueue EXCEPT ![x] = @ - 1]
<1>3. x \in Contexts /\ sleep_pqueue[x] > 0
  BY <1>2 DEF Expired, SleepFront, Sleepers
<1>4. rest \in [Contexts -> Nat] /\ \A d \in Contexts : rest[d] > 0 => sleep_pqueue[d] > 0
  <2>1. sleep_pqueue[x] - 1 \in Nat
    BY <1>0, <1>3
  <2> QED BY <1>0, <1>3, <2>1
<1>5. /\ ready' \in Seq(Contexts) /\ blocked' \in Seq(Contexts)
      /\ sleep_pqueue' \in [Contexts -> Nat] /\ prom' \in [Contexts -> Futures \cup {NULL}]
      /\ \A d : On(ready', d) \/ On(blocked', d) => On(ready, d) \/ On(blocked, d) \/ d = x
      /\ \A d \in Contexts : sleep_pqueue'[d] > 0 => sleep_pqueue[d] > 0
      /\ m_error' \in [Futures -> Errors] /\ UNCHANGED <<m_value, m_blocked_thread>>
  <2>1. CASE set_exception(prom[x], "timeout", rest)
    <3> DEFINE e == "timeout"
               p == prom[x]
    <3>1. e \in Errors /\ set_exception(p, e, rest)
      BY <2>1 DEF Errors
    <3> HIDE DEF e, p, rest
    <3>2. /\ ready' \in Seq(Contexts) /\ blocked' \in Seq(Contexts)
          /\ sleep_pqueue' \in [Contexts -> Nat] /\ prom' \in [Contexts -> Futures \cup {NULL}]
          /\ \A d : On(ready', d) \/ On(blocked', d) => On(ready, d) \/ On(blocked, d)
          /\ \A d \in Contexts : sleep_pqueue'[d] > 0 => rest[d] > 0
          /\ m_error' \in [Futures -> Errors] /\ UNCHANGED <<m_value, m_blocked_thread>>
      BY <1>0, <1>4, <3>1, SetExceptionFacts
    <3> QED BY <1>4, <3>2
  <2>2. CASE /\ ready' = Append(ready, x)
             /\ sleep_pqueue' = rest
             /\ UNCHANGED <<blocked, prom, promVars>>
    <3>1. Append(ready, x) \in Seq(Contexts) /\ \A d : On(Append(ready, x), d) <=> On(ready, d) \/ d = x
      BY <1>0, <1>3, OnPushed
    <3> HIDE DEF rest
    <3>2. prom \in [Contexts -> Futures \cup {NULL}] /\ m_error \in [Futures -> Errors]
      BY <1>0 DEF TypeOK, Errors
    <3> QED BY <1>0, <1>4, <2>2, <3>1, <3>2
  <2> QED BY <1>2, <2>1, <2>2
<1>6. TypeOK'
  <2>1. pc' \in [Contexts -> Labels]
    BY <1>0, <1>1 DEF Labels
  <2> QED BY <1>0, <1>1, <1>5, <2>1 DEF TypeOK, Errors
<1>7. Local(c)
  BY <1>0, <1>1 DEF Local
<1>8. Hand(c)'
  <2>1. UNCHANGED <<then, call, next, stage>> /\ pc'[c] = "expire"
    BY <1>0, <1>1
  <2> QED BY <1>0, <1>1, <2>1 DEF Hand, InTask, NoTask, Switching
<1>9. ListsKept(c)
  BY <1>3, <1>5 DEF ListsKept
<1> QED BY <1>6, <1>7, <1>8, <1>9, LocalIInv

\* thread::wait blocks the context.
LEMMA ThreadWaitBlocksIInv == ASSUME IInv, NEW c \in Contexts, ThreadWaitBlocks(c) PROVE IInv'
<1> USE DEF listVars, queueVars, ctxVars, promVars, postVars, taskVars
<1>0. /\ TypeOK /\ Hand(c) /\ pc \in [Contexts -> Labels] /\ sleep_pqueue \in [Contexts -> Nat]
      /\ ready \in Seq(Contexts) /\ blocked \in Seq(Contexts)
      /\ prom \in [Contexts -> Futures \cup {NULL}] /\ arg \in [Contexts -> Futures \cup {NULL}]
      /\ resume_time \in [Contexts -> Times] /\ timeout \in [Contexts -> Times]
      /\ then \in [Contexts -> {"top", "after_run", "switch"}]
      /\ call \in [Contexts -> {"process_tasks", "wait", "sleep", "yield"}]
  BY IInvParts DEF TypeOK
<1>1. /\ c = Running /\ pc[c] = "wait" /\ pc' = [pc EXCEPT ![c] = "check"]
      /\ then' = [then EXCEPT ![c] = "switch"] /\ call' = [call EXCEPT ![c] = "wait"]
      /\ prom' = [prom EXCEPT ![c] = arg[c]] /\ blocked' = <<c>> \o blocked
      /\ UNCHANGED <<now, fault, current, ready, queueVars, done, canceled, arg, timeout,
                     timeout_time, cur, next, promVars, stage, postVars, taskVars, remote>>
  BY DEF ThreadWaitBlocks, At, Goto, StartNextTask, CheckForTimeouts
<1>2. \/ /\ resume_time' = [resume_time EXCEPT ![c] = timeout[c]]
         /\ sleep_pqueue' = [sleep_pqueue EXCEPT ![c] = @ + 1]
      \/ UNCHANGED <<resume_time, sleep_pqueue>>
  BY DEF ThreadWaitBlocks
<1>3. <<c>> \o blocked \in Seq(Contexts) /\ \A d : On(<<c>> \o blocked, d) <=> On(blocked, d) \/ d = c
  BY <1>0, OnPushed
<1>4. /\ sleep_pqueue' \in [Contexts -> Nat] /\ resume_time' \in [Contexts -> Times]
      /\ \A d \in Contexts : d # c => sleep_pqueue'[d] = sleep_pqueue[d]
  <2>1. resume_time' \in [Contexts -> Times]
    BY <1>0, <1>2
  <2>2. sleep_pqueue' \in [Contexts -> Nat]
    <3>1. CASE sleep_pqueue' = [sleep_pqueue EXCEPT ![c] = @ + 1]
      BY <1>0, <3>1
    <3> QED BY <1>0, <1>2, <3>1
  <2>3. \A d \in Contexts : d # c => sleep_pqueue'[d] = sleep_pqueue[d]
    BY <1>0, <1>2
  <2> QED BY <2>1, <2>2, <2>3
<1>5. TypeOK'
  <2>1. pc' \in [Contexts -> Labels]
    BY <1>0, <1>1 DEF Labels
  <2>2. prom' \in [Contexts -> Futures \cup {NULL}]
    BY <1>0, <1>1
  <2>3. then' \in [Contexts -> {"top", "after_run", "switch"}]
    BY <1>0, <1>1
  <2>4. call' \in [Contexts -> {"process_tasks", "wait", "sleep", "yield"}]
    BY <1>0, <1>1
  <2>5. ready' \in Seq(Contexts) /\ blocked' \in Seq(Contexts)
    BY <1>0, <1>1, <1>3
  <2> QED BY <1>0, <1>1, <1>4, <2>1, <2>2, <2>3, <2>4, <2>5 DEF TypeOK
<1>6. Local(c)
  BY <1>0, <1>1 DEF Local
<1>7. Hand(c)'
  <2>1. UNCHANGED <<next, stage>> /\ pc'[c] = "check" /\ then'[c] = "switch" /\ call'[c] = "wait"
    BY <1>0, <1>1
  <2> QED BY <1>0, <1>1, <2>1 DEF Hand, InTask, NoTask, Switching
<1>8. ListsKept(c)
  BY <1>1, <1>3, <1>4 DEF ListsKept
<1> QED BY <1>5, <1>6, <1>7, <1>8, LocalIInv

\* sleep_until().
LEMMA UserSleepIInv == ASSUME IInv, NEW c \in Contexts, UserSleep(c) PROVE IInv'
<1> USE DEF listVars, queueVars, ctxVars, promVars, postVars, taskVars
<1>0. /\ TypeOK /\ Hand(c) /\ pc \in [Contexts -> Labels] /\ sleep_pqueue \in [Contexts -> Nat]
      /\ prom \in [Contexts -> Futures \cup {NULL}] /\ resume_time \in [Contexts -> Times]
      /\ then \in [Contexts -> {"top", "after_run", "switch"}]
      /\ call \in [Contexts -> {"process_tasks", "wait", "sleep", "yield"}]
  BY IInvParts DEF TypeOK
<1>1. /\ c = Running /\ pc[c] = "user" /\ pc' = [pc EXCEPT ![c] = "check"]
      /\ then' = [then EXCEPT ![c] = "switch"] /\ call' = [call EXCEPT ![c] = "sleep"]
      /\ prom' = [prom EXCEPT ![c] = NULL] /\ sleep_pqueue' = [sleep_pqueue EXCEPT ![c] = @ + 1]
      /\ UNCHANGED <<now, fault, current, ready, blocked, queueVars, done, canceled, arg,
                     timeout, timeout_time, cur, next, promVars, stage, postVars,
                     task_canceled, active_context, remote>>
  BY DEF UserSleep, User, At, Goto, StartNextTask, CheckForTimeouts
<1>2. resume_time' \in [Contexts -> Times]
  <2>1. PICK d \in Delays : now + d <= MaxTime /\ resume_time' = [resume_time EXCEPT ![c] = now + d]
    BY DEF UserSleep
  <2> DEFINE w == now + d
  <2>2. w \in Times
    BY <2>1, IInvParts DEF Times
  <2>3. resume_time' = [resume_time EXCEPT ![c] = w]
    BY <2>1
  <2> HIDE DEF w
  <2> QED BY <1>0, <2>2, <2>3
<1>3. calls' \in [Futures -> 0..MaxCalls]
  BY CallCounted DEF UserSleep
<1>4. sleep_pqueue' \in [Contexts -> Nat] /\ \A d \in Contexts : d # c => sleep_pqueue'[d] = sleep_pqueue[d]
  BY <1>0, <1>1
<1>5. TypeOK'
  <2>1. pc' \in [Contexts -> Labels]
    BY <1>0, <1>1 DEF Labels
  <2>2. prom' \in [Contexts -> Futures \cup {NULL}]
    BY <1>0, <1>1
  <2>3. then' \in [Contexts -> {"top", "after_run", "switch"}]
    BY <1>0, <1>1
  <2>4. call' \in [Contexts -> {"process_tasks", "wait", "sleep", "yield"}]
    BY <1>0, <1>1
  <2> QED BY <1>0, <1>1, <1>2, <1>3, <1>4, <2>1, <2>2, <2>3, <2>4 DEF TypeOK
<1>6. Local(c)
  BY <1>0, <1>1 DEF Local
<1>7. Hand(c)'
  <2>1. UNCHANGED <<next, stage>> /\ pc'[c] = "check" /\ then'[c] = "switch" /\ call'[c] = "sleep"
    BY <1>0, <1>1
  <2> QED BY <1>0, <1>1, <2>1 DEF Hand, InTask, NoTask, Switching
<1>8. ListsKept(c)
  BY <1>1, <1>4 DEF ListsKept
<1> QED BY <1>5, <1>6, <1>7, <1>8, LocalIInv

\* The context after another in a list.
LEMMA SuccessorType ==
    ASSUME NEW S, NEW q \in Seq(S), NEW x
    PROVE  Successor(q, x) \in S \cup {NULL}
<1> DEFINE after == {i \in 2..Len(q) : q[i-1] = x}
<1>1. CASE after = {}
  BY <1>1 DEF Successor
<1>2. CASE after # {}
  <2>1. Len(q) \in Nat
    BY LenProperties
  <2>2. after \subseteq Nat /\ after \subseteq 1..Len(q)
    BY <2>1
  <2>3. Successor(q, x) = q[Min(after)]
    BY <1>2 DEF Successor
  <2> HIDE DEF after
  <2>4. Min(after) \in 1..Len(q)
    BY <1>2, <2>2, LeastNat
  <2> QED BY <2>3, <2>4, ElementOfSeq
<1> QED BY <1>1, <1>2

\* One turn of the walk of quit().
LEMMA QuitWalkIInv == ASSUME IInv, NEW c \in Contexts, QuitWalk(c) PROVE IInv'
<1> USE DEF listVars, queueVars, ctxVars, promVars, postVars, taskVars
<1>0. TypeOK /\ Hand(c) /\ sleep_pqueue \in [Contexts -> Nat]
  BY IInvParts DEF TypeOK
<1>1. /\ c = Running /\ pc[c] = "quit" /\ cur' = Successor(ready', cur)
      /\ UNCHANGED <<now, fault, current, queueVars, done, resume_time, canceled, then, call,
                     arg, timeout, timeout_time, pc, next, stage, postVars, taskVars, remote>>
  BY DEF QuitWalk, At
<1>2. /\ ready' \in Seq(Contexts) /\ blocked' \in Seq(Contexts)
      /\ sleep_pqueue' \in [Contexts -> Nat] /\ prom' \in [Contexts -> Futures \cup {NULL}]
      /\ \A d : On(ready', d) \/ On(blocked', d) => On(ready, d) \/ On(blocked, d)
      /\ \A d \in Contexts : sleep_pqueue'[d] > 0 => sleep_pqueue[d] > 0
      /\ m_error' \in [Futures -> Errors] /\ UNCHANGED <<m_value, m_blocked_thread>>
  <2> DEFINE e == "quit"
             p == prom[cur]
  <2>1. e \in Errors /\ set_exception(p, e, sleep_pqueue)
    BY DEF QuitWalk, Errors
  <2> HIDE DEF e, p
  <2> QED BY <1>0, <2>1, SetExceptionFacts
<1>3. cur' \in Contexts \cup {NULL}
  <2> DEFINE q == ready'
  <2>1. q \in Seq(Contexts) /\ cur' = Successor(q, cur)
    BY <1>1, <1>2
  <2> HIDE DEF q
  <2> QED BY <2>1, SuccessorType
<1>4. TypeOK'
  BY <1>0, <1>1, <1>2, <1>3 DEF TypeOK, Errors
<1>5. Local(c)
  BY <1>0, <1>1 DEF Local
<1>6. Hand(c)'
  BY <1>0, <1>1 DEF Hand, InTask, NoTask, Switching
<1>7. ListsKept(c)
  BY <1>2 DEF ListsKept
<1> QED BY <1>4, <1>5, <1>6, <1>7, LocalIInv

\* The heap of sleepers has finitely many entries.
LEMMA EntriesFinite ==
    ASSUME sleep_pqueue \in [Contexts -> Nat] PROVE IsFiniteSet(SleepEntries)
<1> DEFINE E == [x \in Contexts |-> {x} \X (1..sleep_pqueue[x])]
           T == {{x} \X (1..sleep_pqueue[x]) : x \in Contexts}
<1>1. E \in Surjection(Contexts, T)
  BY DEF Surjection
<1>2. IsFiniteSet(T)
  BY <1>1, ContextAssumption, FS_Surjection
<1>3. ASSUME NEW S \in T PROVE IsFiniteSet(S)
  <2>1. PICK x \in Contexts : S = {x} \X (1..sleep_pqueue[x])
    BY <1>3
  <2>2. IsFiniteSet({x})
    BY FS_Singleton
  <2>3. sleep_pqueue[x] \in Int
    OBVIOUS
  <2>4. IsFiniteSet(1..sleep_pqueue[x])
    BY <2>3, FS_Interval
  <2> QED BY <2>1, <2>2, <2>4, FS_Product
<1>4. IsFiniteSet(UNION T)
  BY <1>2, <1>3, FS_UNION
<1> QED BY <1>4 DEF SleepEntries

\* The rest of quit().
LEMMA QuitEndIInv == ASSUME IInv, NEW c \in Contexts, QuitEnd(c) PROVE IInv'
<1> USE DEF listVars, queueVars, ctxVars, promVars, postVars, taskVars
<1>0. /\ TypeOK /\ Hand(c) /\ pc \in [Contexts -> Labels] /\ sleep_pqueue \in [Contexts -> Nat]
      /\ ready \in Seq(Contexts) /\ canceled \in [Contexts -> BOOLEAN]
  BY IInvParts DEF TypeOK
<1>1. /\ c = Running /\ pc[c] = "quit" /\ pc' = [pc EXCEPT ![c] = "user"]
      /\ canceled' = [x \in Contexts |-> canceled[x] \/ x \in ToSet(ready) \cup Sleepers]
      /\ sleep_pqueue' = [x \in Contexts |-> 0] /\ done' = TRUE
      /\ UNCHANGED <<now, fault, current, blocked, queueVars, prom, resume_time, then, call,
                     arg, timeout, timeout_time, cur, next, promVars, stage, postVars,
                     taskVars, remote>>
  BY DEF QuitEnd, At, Goto
<1>2. PICK order \in SetToSeqs(SleepEntries) :
         ready' = [i \in DOMAIN order |-> order[i][1]] \o ready
  BY DEF QuitEnd
<1> DEFINE woken == [i \in DOMAIN order |-> order[i][1]]
<1>3. woken \in Seq(Contexts) /\ \A d : On(woken, d) => d \in Contexts /\ sleep_pqueue[d] > 0
  <2> DEFINE k == Cardinality(SleepEntries)
  <2>1. k \in Nat
    BY <1>0, EntriesFinite, FS_CardinalityType
  <2>2. order \in [1..k -> SleepEntries]
    BY DEF SetToSeqs
  <2> HIDE DEF k
  <2>3. DOMAIN order = 1..k
    BY <2>2
  <2>4. ASSUME NEW i \in 1..k PROVE woken[i] \in Contexts /\ sleep_pqueue[woken[i]] > 0
    <3>1. order[i] \in SleepEntries /\ woken[i] = order[i][1]
      BY <2>2, <2>3
    <3>2. PICK x \in Contexts : order[i] \in {x} \X (1..sleep_pqueue[x])
      BY <3>1 DEF SleepEntries
    <3>3. woken[i] = x /\ order[i][2] \in 1..sleep_pqueue[x] /\ sleep_pqueue[x] \in Nat
      BY <1>0, <3>1, <3>2
    <3> QED BY <3>3
  <2>5. woken \in [1..k -> Contexts]
    BY <2>3, <2>4
  <2> HIDE DEF woken
  <2>6. woken \in Seq(Contexts) /\ Len(woken) = k
    BY <2>1, <2>5
  <2>7. ASSUME NEW d, On(woken, d) PROVE d \in Contexts /\ sleep_pqueue[d] > 0
    BY <2>4, <2>6, <2>7 DEF On
  <2> QED BY <2>6, <2>7
<1> HIDE DEF woken
<1>4. ready' \in Seq(Contexts) /\ \A d : On(ready', d) => On(woken, d) \/ On(ready, d)
  <2>1. ready' = woken \o ready
    BY <1>2 DEF woken
  <2> QED BY <1>0, <1>3, <2>1, OnConcat
<1>5. TypeOK'
  <2>1. pc' \in [Contexts -> Labels]
    BY <1>0, <1>1 DEF Labels
  <2>2. canceled' \in [Contexts -> BOOLEAN]
    <3> DEFINE S == ToSet(ready) \cup Sleepers
    <3>1. canceled' = [x \in Contexts |-> canceled[x] \/ x \in S]
      BY <1>1
    <3> HIDE DEF S
    <3> QED BY <1>0, <3>1, Zenon
  <2>3. sleep_pqueue' \in [Contexts -> Nat]
    BY <1>1
  <2> QED BY <1>0, <1>1, <1>4, <2>1, <2>2, <2>3 DEF TypeOK
<1>6. Local(c)
  BY <1>0, <1>1 DEF Local
<1>7. Hand(c)'
  <2>1. UNCHANGED <<next, stage>> /\ pc'[c] = "user"
    BY <1>0, <1>1
  <2> QED BY <1>0, <1>1, <2>1 DEF Hand, InTask, NoTask, Switching
<1>8. ListsKept(c)
  <2>1. \A d \in Contexts : ~(sleep_pqueue'[d] > 0)
    BY <1>1
  <2> QED BY <1>1, <1>3, <1>4, <2>1 DEF ListsKept
<1> QED BY <1>5, <1>6, <1>7, <1>8, LocalIInv

-----------------------------------------------------------------------------
(* Context switches *)

\* The context that gives up the processor is pushed on the ready list, or not.
LEMMA PushedBack ==
    ASSUME NEW q \in Seq(Contexts), NEW c \in Contexts
    PROVE  PushBack(q, c) \in Seq(Contexts) /\ \A d : On(PushBack(q, c), d) => On(q, d) \/ d = c
BY OnPushed DEF PushBack

\* The running context c gives way to h.
LEMMA SwitchIInv ==
    ASSUME IInv, NEW c \in Contexts, NEW h \in Contexts, NEW l \in {"resumed", "begin"},
           c = Running, pc[c] = "switch", h # c,
           l = "resumed" => pc[h] = "suspended", l = "begin" => pc[h] = "unused",
           current' = h, pc' = [pc EXCEPT ![c] = "suspended", ![h] = l],
           UNCHANGED <<then, call, next, stage, task_in_queue, task_pqueue, task_sch_queue,
                       when, posted_num, pushed>>,
           TypeOK', ListsKept(c)
    PROVE  IInv'
<1>0. pc \in [Contexts -> Labels] /\ OneRuns /\ Made /\ NULL \notin Contexts
  BY IInvParts DEF TypeOK
<1>1. pc'[c] = "suspended" /\ pc'[h] = l /\ \A d \in Contexts : d # c /\ d # h => pc'[d] = pc[d]
  BY <1>0
<1>2. OneRuns'
  <2>1. Running' = h
    BY <1>0 DEF Running
  <2> QED BY <1>0, <1>1, <2>1 DEF OneRuns
<1>3. Made'
  BY <1>0, <1>1 DEF Made, ListsKept
<1>4. \A d \in Contexts : Hand(d)'
  <2>1. Hand(c)'
    <3>1. Hand(c)
      BY IInvParts
    <3> QED BY <1>1, <3>1 DEF Hand, InTask, NoTask, Switching
  <2>2. Hand(h)'
    <3>1. Hand(h)
      BY IInvParts
    <3>2. CASE l = "resumed"
      BY <1>1, <3>1, <3>2 DEF Hand, InTask, NoTask, Switching
    <3>3. CASE l = "begin"
      BY <1>1, <3>1, <3>3 DEF Hand, InTask, NoTask, Switching
    <3> QED BY <3>2, <3>3
  <2>3. ASSUME NEW d \in Contexts, d # c, d # h PROVE Hand(d)'
    <3>1. /\ pc'[d] = pc[d] /\ then'[d] = then[d] /\ call'[d] = call[d]
          /\ next'[d] = next[d] /\ stage'[next[d]] = stage[next[d]]
      BY <1>1, <2>3
    <3> QED BY <3>1, HandSame
  <2> QED BY <2>1, <2>2, <2>3
<1>5. /\ \A t \in Futures : OnePlace(t)'
      /\ \A t, u \in Futures : Counted(t)' /\ InOrder(t, u)'
      /\ \A t \in task_sch_queue' : when'[t] # Past
  BY TasksSame
<1> QED BY <1>2, <1>3, <1>4, <1>5 DEF IInv

\* start_next_task() resumes the head of the ready list.
LEMMA SwitchToReadyIInv == ASSUME IInv, NEW c \in Contexts, SwitchToReady(c) PROVE IInv'
<1> USE DEF listVars, queueVars, ctxVars, promVars, postVars, taskVars
<1>0. /\ TypeOK /\ OneRuns /\ Made /\ ready \in Seq(Contexts) /\ blocked \in Seq(Contexts)
      /\ pc \in [Contexts -> Labels]
  BY IInvParts DEF TypeOK
<1> DEFINE h == Head(ready)
           q == Tail(ready)
<1>1. /\ c = Running /\ pc[c] = "switch" /\ ready # <<>> /\ h # c
      /\ ready' = PushBack(q, c) /\ current' = h
      /\ pc' = [pc EXCEPT ![c] = "suspended", ![h] = "resumed"]
      /\ UNCHANGED <<now, fault, blocked, sleep_pqueue, queueVars, done, prom, ctxVars,
                     next, promVars, stage, postVars, taskVars, remote>>
  BY DEF SwitchToReady, At, ready_pop_front
<1>2. h \in Contexts /\ On(ready, h) /\ q \in Seq(Contexts) /\ \A d : On(q, d) => On(ready, d)
  BY <1>0, <1>1, OnTail
<1> HIDE DEF h, q
<1>3. pc[h] = "suspended"
  BY <1>0, <1>1, <1>2 DEF OneRuns, Made
<1>4. ready' \in Seq(Contexts) /\ \A d : On(ready', d) => On(ready, d) \/ d = c
  BY <1>1, <1>2, PushedBack
<1>5. TypeOK'
  <2>1. pc' \in [Contexts -> Labels]
    BY <1>0, <1>1, <1>2 DEF Labels
  <2> QED BY <1>0, <1>1, <1>2, <1>4, <2>1 DEF TypeOK
<1>6. ListsKept(c)
  BY <1>1, <1>4 DEF ListsKept
<1> DEFINE l == "resumed"
<1>7. /\ l \in {"resumed", "begin"} /\ l # "begin"
      /\ pc' = [pc EXCEPT ![c] = "suspended", ![h] = l]
      /\ UNCHANGED <<then, call, next, stage, task_in_queue, task_pqueue, task_sch_queue,
                     when, posted_num, pushed>>
  BY <1>1
<1> HIDE DEF l
<1> QED BY <1>1, <1>2, <1>3, <1>5, <1>6, <1>7, SwitchIInv

\* start_next_task() makes a new context.
LEMMA SwitchToNewIInv == ASSUME IInv, NEW c \in Contexts, SwitchToNew(c) PROVE IInv'
<1> USE DEF listVars, queueVars, ctxVars, promVars, postVars, taskVars
<1>0. /\ TypeOK /\ ready \in Seq(Contexts) /\ blocked \in Seq(Contexts) /\ pc \in [Contexts -> Labels]
  BY IInvParts DEF TypeOK
<1>1. /\ c = Running /\ pc[c] = "switch" /\ ready' = PushBack(ready, c)
      /\ UNCHANGED <<now, fault, blocked, sleep_pqueue, queueVars, done, prom, ctxVars,
                     next, promVars, stage, postVars, taskVars, remote>>
  BY DEF SwitchToNew, At
<1>2. PICK n \in Contexts : pc[n] = "unused" /\ current' = n
                            /\ pc' = [pc EXCEPT ![c] = "suspended", ![n] = "begin"]
  BY DEF SwitchToNew
<1>4. ready' \in Seq(Contexts) /\ \A d : On(ready', d) => On(ready, d) \/ d = c
  BY <1>0, <1>1, PushedBack
<1>5. TypeOK'
  <2>1. pc' \in [Contexts -> Labels]
    BY <1>0, <1>2 DEF Labels
  <2> QED BY <1>0, <1>1, <1>2, <1>4, <2>1 DEF TypeOK
<1>6. ListsKept(c)
  BY <1>1, <1>4 DEF ListsKept
<1> DEFINE l == "begin"
<1>7. /\ l \in {"resumed", "begin"} /\ l # "resumed" /\ n # c
      /\ pc' = [pc EXCEPT ![c] = "suspended", ![n] = l]
      /\ UNCHANGED <<then, call, next, stage, task_in_queue, task_pqueue, task_sch_queue,
                     when, posted_num, pushed>>
  BY <1>1, <1>2
<1> HIDE DEF l
<1> QED BY <1>1, <1>2, <1>5, <1>6, <1>7, SwitchIInv

-----------------------------------------------------------------------------
(* Steps that take a task from the queues *)

\* What dequeue() does to a task, and which it takes: g, or NULL.
LEMMA DequeueFacts ==
    ASSUME IInv, NEW c \in Contexts, dequeue(c)
    PROVE  \E g \in Futures \cup {NULL} :
              /\ next' = [next EXCEPT ![c] = g]
              /\ task_in_queue' = {} /\ task_pqueue' \subseteq Futures /\ task_sch_queue' \subseteq Futures
              /\ g # NULL => Queued(g)
              /\ \A t \in Futures : Queued(t)' <=> Queued(t) /\ t # g
              /\ \A t \in Futures : ~(t \in task_pqueue' /\ t \in task_sch_queue')
              /\ \A t \in task_sch_queue' : when[t] # Past
              /\ \A t \in Futures : Queued(t)' /\ when[t] = Past /\ g # NULL /\ when[g] = Past
                                    => ~Outranks(t, g)
<1> DEFINE sch == task_sch_queue \cup Later(task_in_queue)
           pq  == task_pqueue \cup Due(task_in_queue)
           due == Due(ScheduleFront(sch))
<1>0. /\ task_in_queue \subseteq Futures /\ task_pqueue \subseteq Futures /\ task_sch_queue \subseteq Futures
      /\ \A t \in Futures : OnePlace(t)
      /\ \A t \in task_sch_queue : when[t] # Past
      /\ when \in [Futures -> Times] /\ Times \subseteq Int /\ now \in Nat /\ Past = -1 /\ MaxTime \in Nat
      /\ Prio \in [Futures -> Int] /\ NULL \notin Futures
      /\ \A t \in Futures : when[t] \in Int /\ posted_num[t] \in Nat
  <2>1. /\ task_in_queue \subseteq Futures /\ task_pqueue \subseteq Futures /\ task_sch_queue \subseteq Futures
        /\ when \in [Futures -> Times]
    BY IInvParts DEF TypeOK
  <2>2. Times \subseteq Int /\ now \in Nat /\ Past = -1 /\ MaxTime \in Nat
    BY IInvParts DEF Times
  <2>3. \A t \in Futures : when[t] \in Int /\ posted_num[t] \in Nat
    BY <2>1, <2>2, IInvParts DEF TypeOK
  <2> QED BY <2>1, <2>2, <2>3, IInvParts, PrioAssumption
<1>1. /\ sch \subseteq Futures /\ pq \subseteq Futures
      /\ \A t \in Futures : Queued(t) <=> t \in sch \/ t \in pq
  <2>1. sch \subseteq Futures /\ pq \subseteq Futures
    BY <1>0 DEF Later, Due
  <2>2. ASSUME NEW t \in Futures PROVE when[t] > now <=> ~(when[t] <= now)
    <3>1. when[t] \in Int /\ now \in Nat
      BY <1>0
    <3> QED BY <3>1
  <2>3. ASSUME NEW t \in Futures PROVE Queued(t) <=> t \in sch \/ t \in pq
    BY <2>2 DEF Queued, Later, Due
  <2> QED BY <2>1, <2>3
<1>2. \A t \in Futures : ~(t \in sch /\ t \in pq)
  <2> SUFFICES ASSUME NEW t \in Futures, t \in sch, t \in pq PROVE FALSE
    OBVIOUS
  <2>1. OnePlace(t)
    BY <1>0
  <2>2. ~(when[t] > now /\ when[t] <= now)
    <3>1. when[t] \in Int /\ now \in Nat
      BY <1>0
    <3> QED BY <3>1
  <2> QED BY <2>1, <2>2 DEF OnePlace, Later, Due
<1>3. \A t \in sch : when[t] # Past
  <2> SUFFICES ASSUME NEW t \in Later(task_in_queue) PROVE when[t] # Past
    BY <1>0
  <2>1. when[t] > now
    BY DEF Later
  <2> QED BY <2>1, <1>0
<1>4. due \subseteq sch
  BY DEF Due, ScheduleFront
<1>5. /\ task_in_queue' = {}
      /\ \/ \E t \in due :
               /\ next' = [next EXCEPT ![c] = t]
               /\ task_sch_queue' = sch \ {t}
               /\ task_pqueue' = pq
         \/ /\ task_sch_queue' = sch
            /\ \E t \in PriorityFront(pq) :
                  /\ next' = [next EXCEPT ![c] = t]
                  /\ task_pqueue' = pq \ {t}
         \/ /\ task_sch_queue' = sch
            /\ pq = {}
            /\ next' = [next EXCEPT ![c] = NULL]
            /\ task_pqueue' = {}
  BY DEF dequeue
<1> HIDE DEF sch, pq, due
<1>6. CASE \E t \in due :
              /\ next' = [next EXCEPT ![c] = t]
              /\ task_sch_queue' = sch \ {t}
              /\ task_pqueue' = pq
  <2>1. PICK g \in due : /\ next' = [next EXCEPT ![c] = g]
                         /\ task_sch_queue' = sch \ {g}
                         /\ task_pqueue' = pq
    BY <1>6
  <2>2. g \in Futures \cup {NULL} /\ g \in Futures /\ Queued(g) /\ when[g] # Past /\ g \notin pq
    BY <1>1, <1>2, <1>3, <1>4
  <2>3. \A t \in Futures : Queued(t)' <=> Queued(t) /\ t # g
    BY <1>1, <1>5, <2>1, <2>2 DEF Queued
  <2> g \in Futures \cup {NULL}
    BY <2>2
  <2> WITNESS g \in Futures \cup {NULL}
  <2> QED BY <1>1, <1>2, <1>3, <1>5, <2>1, <2>2, <2>3
<1>7. CASE /\ task_sch_queue' = sch
           /\ \E t \in PriorityFront(pq) :
                 /\ next' = [next EXCEPT ![c] = t]
                 /\ task_pqueue' = pq \ {t}
  <2>1. PICK g \in PriorityFront(pq) : /\ next' = [next EXCEPT ![c] = g]
                                       /\ task_pqueue' = pq \ {g}
    BY <1>7
  <2>2. /\ g \in Futures \cup {NULL} /\ g \in Futures /\ g \in pq /\ Queued(g) /\ g \notin sch
    BY <1>1, <1>2 DEF PriorityFront
  <2>3. \A t \in Futures : Queued(t)' <=> Queued(t) /\ t # g
    BY <1>1, <1>5, <1>7, <2>1, <2>2 DEF Queued
  <2>4. ASSUME NEW t \in Futures, Queued(t)', when[t] = Past PROVE ~Outranks(t, g)
    <3>1. t \in pq
      BY <1>3, <1>5, <1>7, <2>1, <2>4 DEF Queued
    <3>2. \/ Prio[t] < Prio[g]
          \/ Prio[t] = Prio[g] /\ posted_num[g] <= posted_num[t]
      BY <3>1 DEF PriorityFront
    <3>3. Prio[t] \in Int /\ Prio[g] \in Int /\ posted_num[t] \in Nat /\ posted_num[g] \in Nat
      BY <1>0, <2>2
    <3> QED BY <3>2, <3>3 DEF Outranks
  <2> g \in Futures \cup {NULL}
    BY <2>2
  <2> WITNESS g \in Futures \cup {NULL}
  <2> QED BY <1>1, <1>2, <1>3, <1>5, <1>7, <2>1, <2>2, <2>3, <2>4
<1>8. CASE /\ task_sch_queue' = sch
           /\ pq = {}
           /\ next' = [next EXCEPT ![c] = NULL]
           /\ task_pqueue' = {}
  <2>1. \A t \in Futures : Queued(t)' <=> Queued(t) /\ t # NULL
    BY <1>0, <1>1, <1>5, <1>8 DEF Queued
  <2> WITNESS NULL \in Futures \cup {NULL}
  <2> QED BY <1>1, <1>3, <1>5, <1>8, <2>1
<1> QED BY <1>5, <1>6, <1>7, <1>8

\* A step that is a dequeue() of a loop without a task, and goes on with what it got.
LEMMA DequeueIInv ==
    ASSUME IInv, NEW c \in Contexts, c = Running, next[c] = NULL, dequeue(c),
           UNCHANGED <<current, listVars, then, call, stage, when, posted_num, pushed>>,
           NEW l \in {"top", "block_wait", "cv_wait", "idle", "run"}, pc' = [pc EXCEPT ![c] = l],
           l \in {"block_wait", "cv_wait", "idle"} => next'[c] = NULL,
           l = "run" => next'[c] # NULL,
           (next' \in [Contexts -> Futures \cup {NULL}] /\ task_in_queue' \subseteq Futures
             /\ task_pqueue' \subseteq Futures /\ task_sch_queue' \subseteq Futures
             /\ pc' \in [Contexts -> Labels]) => TypeOK'
    PROVE  IInv'
<1> USE DEF listVars
<1>0. /\ pc \in [Contexts -> Labels] /\ next \in [Contexts -> Futures \cup {NULL}] /\ NULL \notin Futures
  BY IInvParts DEF TypeOK
<1>1. PICK g \in Futures \cup {NULL} :
              /\ next' = [next EXCEPT ![c] = g]
              /\ task_in_queue' = {} /\ task_pqueue' \subseteq Futures /\ task_sch_queue' \subseteq Futures
              /\ g # NULL => Queued(g)
              /\ \A t \in Futures : Queued(t)' <=> Queued(t) /\ t # g
              /\ \A t \in Futures : ~(t \in task_pqueue' /\ t \in task_sch_queue')
              /\ \A t \in task_sch_queue' : when[t] # Past
              /\ \A t \in Futures : Queued(t)' /\ when[t] = Past /\ g # NULL /\ when[g] = Past
                                    => ~Outranks(t, g)
  BY DequeueFacts
<1>2. next'[c] = g /\ \A d \in Contexts : d # c => next'[d] = next[d]
  BY <1>0, <1>1
<1>3. TypeOK'
  <2>1. next' \in [Contexts -> Futures \cup {NULL}]
    BY <1>0, <1>1
  <2>2. pc' \in [Contexts -> Labels]
    BY <1>0 DEF Labels
  <2> QED BY <1>1, <2>1, <2>2
<1>4. pc'[c] = l /\ \A d \in Contexts : d # c => pc'[d] = pc[d]
  BY <1>0
<1>5. OneRuns' /\ Made'
  <2>1. ListsKept(c)
    BY SameLists
  <2> QED BY <1>4, <2>1, RunsOn
<1>6. g # NULL => g \in Futures /\ stage[g] = "posted" /\ ~Held(g)
  BY <1>1, IInvParts DEF OnePlace
<1>7. \A d \in Contexts : Hand(d)'
  <2>1. Hand(c)'
    BY <1>2, <1>4, <1>6 DEF Hand, InTask, NoTask, Switching
  <2>2. ASSUME NEW d \in Contexts, d # c PROVE Hand(d)'
    <3>1. /\ pc'[d] = pc[d] /\ then'[d] = then[d] /\ call'[d] = call[d]
          /\ next'[d] = next[d] /\ stage'[next[d]] = stage[next[d]]
      BY <1>2, <1>4, <2>2
    <3> QED BY <3>1, HandSame
  <2> QED BY <2>1, <2>2
<1>8. \A t \in Futures : Held(t)' <=> Held(t) \/ t = g
  BY <1>0, <1>2 DEF Held
<1>9. \A t \in Futures : OnePlace(t)'
  <2> SUFFICES ASSUME NEW t \in Futures PROVE OnePlace(t)'
    OBVIOUS
  <2>0. OnePlace(t) /\ (Held(t)' <=> Held(t) \/ t = g) /\ (Queued(t)' <=> Queued(t) /\ t # g) /\ t # NULL
    BY <1>0, <1>1, <1>8, IInvParts
  <2>1. stage'[t] \in {"posted", "running"} <=> Queued(t)' \/ Held(t)'
    BY <1>1, <1>6, <2>0 DEF OnePlace
  <2>2. Queued(t)' => stage'[t] = "posted" /\ ~Held(t)'
    BY <2>0 DEF OnePlace
  <2>3. \A a, b \in Contexts : next'[a] = t /\ next'[b] = t => a = b
    BY <1>2, <1>6, <2>0 DEF OnePlace, Held
  <2> QED BY <1>1, <2>1, <2>2, <2>3 DEF OnePlace
<1>10. Posted' = Posted
  BY DEF Posted
<1>11. \A t \in Futures : Counted(t)'
  BY <1>10, IInvParts DEF Counted
<1>12. \A t, u \in Futures : InOrder(t, u)'
  <2> SUFFICES ASSUME NEW t \in Futures, NEW u \in Futures PROVE InOrder(t, u)'
    OBVIOUS
  <2>0. InOrder(t, u) /\ OnePlace(t) /\ OnePlace(u) /\ (Outranks(t, u)' <=> Outranks(t, u))
    BY IInvParts DEF Outranks
  <2>1. CASE Queued(t)' /\ u = g
    <3>1. when[t] = Past /\ when[u] = Past => ~Outranks(t, u)
      BY <1>0, <1>1, <2>1
    <3> QED BY <2>0, <3>1 DEF InOrder
  <2>2. CASE ~(Queued(t)' /\ u = g)
    BY <1>1, <1>8, <2>0, <2>2 DEF InOrder, Started
  <2> QED BY <2>1, <2>2
<1>13. \A t \in task_sch_queue' : when'[t] # Past
  BY <1>1
<1> QED BY <1>3, <1>5, <1>7, <1>9, <1>11, <1>12, <1>13 DEF IInv

\* process_tasks begins.
LEMMA LoopBeginIInv == ASSUME IInv, NEW c \in Contexts, LoopBegin(c) PROVE IInv'
<1> USE DEF listVars, queueVars, ctxVars, promVars, postVars, taskVars
<1>0. TypeOK /\ Hand(c)
  BY IInvParts DEF TypeOK
<1> DEFINE l == "top"
<1>1. /\ c = Running /\ pc[c] = "begin" /\ dequeue(c) /\ pc' = [pc EXCEPT ![c] = l]
      /\ UNCHANGED <<now, fault, current, listVars, done, prom, ctxVars, promVars,
                     stage, postVars, taskVars, remote>>
  BY DEF LoopBegin, At, Goto
<1>2. next[c] = NULL
  BY <1>0, <1>1 DEF LoopBegin, Hand, NoTask, Switching
<1>3. /\ l \in {"top", "block_wait", "cv_wait", "idle", "run"}
      /\ l \in {"block_wait", "cv_wait", "idle"} => next'[c] = NULL
      /\ l = "run" => next'[c] # NULL
  OBVIOUS
<1> HIDE DEF l
<1>4. (next' \in [Contexts -> Futures \cup {NULL}] /\ task_in_queue' \subseteq Futures
        /\ task_pqueue' \subseteq Futures /\ task_sch_queue' \subseteq Futures
        /\ pc' \in [Contexts -> Labels]) => TypeOK'
  BY <1>0, <1>1 DEF TypeOK
<1> QED BY <1>1, <1>2, <1>3, <1>4, DequeueIInv

\* start_next_task() returns to process_tasks.
LEMMA ResumeLoopIInv == ASSUME IInv, NEW c \in Contexts, ResumeLoop(c) PROVE IInv'
<1> USE DEF listVars, queueVars, ctxVars, promVars, postVars, taskVars
<1>0. TypeOK /\ Hand(c)
  BY IInvParts DEF TypeOK
<1> DEFINE l == IF next'[c] = NULL THEN "block_wait" ELSE "top"
<1>1. /\ c = Running /\ pc[c] = "resumed" /\ dequeue(c) /\ pc' = [pc EXCEPT ![c] = l]
      /\ UNCHANGED <<now, fault, current, listVars, done, prom, ctxVars, promVars,
                     stage, postVars, taskVars, remote>>
  BY DEF ResumeLoop, At, Goto
<1>2. next[c] = NULL
  BY <1>0, <1>1 DEF ResumeLoop, Hand, NoTask, Switching
<1>3. /\ l \in {"top", "block_wait", "cv_wait", "idle", "run"}
      /\ l \in {"block_wait", "cv_wait", "idle"} => next'[c] = NULL
      /\ l = "run" => next'[c] # NULL
  OBVIOUS
<1> HIDE DEF l
<1>4. (next' \in [Contexts -> Futures \cup {NULL}] /\ task_in_queue' \subseteq Futures
        /\ task_pqueue' \subseteq Futures /\ task_sch_queue' \subseteq Futures
        /\ pc' \in [Contexts -> Labels]) => TypeOK'
  BY <1>0, <1>1 DEF TypeOK
<1> QED BY <1>1, <1>2, <1>3, <1>4, DequeueIInv

\* The wait for a task.
LEMMA LoopBlockWaitIInv == ASSUME IInv, NEW c \in Contexts, LoopBlockWait(c) PROVE IInv'
<1> USE DEF listVars, queueVars, ctxVars, promVars, postVars, taskVars
<1>0. TypeOK /\ Hand(c)
  BY IInvParts DEF TypeOK
<1> DEFINE l == IF next'[c] = NULL THEN "cv_wait" ELSE "top"
<1>1. /\ c = Running /\ pc[c] = "block_wait" /\ dequeue(c) /\ pc' = [pc EXCEPT ![c] = l]
      /\ UNCHANGED <<now, fault, current, listVars, done, prom, ctxVars, promVars,
                     stage, postVars, taskVars, remote>>
  BY DEF LoopBlockWait, At, Goto
<1>2. next[c] = NULL
  BY <1>0, <1>1 DEF LoopBlockWait, Hand, NoTask, Switching
<1>3. /\ l \in {"top", "block_wait", "cv_wait", "idle", "run"}
      /\ l \in {"block_wait", "cv_wait", "idle"} => next'[c] = NULL
      /\ l = "run" => next'[c] # NULL
  OBVIOUS
<1> HIDE DEF l
<1>4. (next' \in [Contexts -> Futures \cup {NULL}] /\ task_in_queue' \subseteq Futures
        /\ task_pqueue' \subseteq Futures /\ task_sch_queue' \subseteq Futures
        /\ pc' \in [Contexts -> Labels]) => TypeOK'
  BY <1>0, <1>1 DEF TypeOK
<1> QED BY <1>1, <1>2, <1>3, <1>4, DequeueIInv

\* A set of times that is not empty has a least element.
LEMMA LeastTime ==
    ASSUME MaxTime \in Nat, NEW S, S \subseteq Times, S # {}
    PROVE  Min(S) \in S
<1>1. \A x \in S : x \in Int /\ x + 1 \in Nat
  BY DEF Times, Past, Forever
<1> DEFINE T == {n \in Nat : n - 1 \in S}
           m == Min(T) - 1
<1>2. T \subseteq Nat /\ T # {}
  <2>1. PICK x \in S : TRUE
    OBVIOUS
  <2>2. x + 1 \in Nat /\ (x + 1) - 1 = x
    BY <1>1
  <2>3. x + 1 \in T
    BY <2>2
  <2> QED BY <2>3
<1>3. m \in S /\ \A x \in S : m <= x
  <2>1. Min(T) \in T /\ \A y \in T : Min(T) <= y
    <3> HIDE DEF T
    <3> QED BY <1>2, LeastNat
  <2>2. Min(T) \in Nat /\ m \in S
    BY <2>1
  <2>3. ASSUME NEW x \in S PROVE m <= x
    <3>1. x \in Int /\ x + 1 \in Nat /\ (x + 1) - 1 = x
      BY <1>1
    <3>2. x + 1 \in T
      BY <3>1
    <3>3. Min(T) <= x + 1
      BY <2>1, <3>2
    <3> HIDE DEF T
    <3> QED BY <2>2, <3>1, <3>3
  <2> QED BY <2>2, <2>3
<1> HIDE DEF m
<1> QED BY <1>3 DEF Min

\* What check_for_timeouts() returns is a time.
LEMMA NextTimeoutType == ASSUME IInv PROVE NextTimeout \in Times
<1> DEFINE S == {Forever} \cup {when[t] : t \in ScheduleFront(task_sch_queue)}
                         \cup {resume_time[c] : c \in SleepFront}
<1>1. /\ when \in [Futures -> Times] /\ resume_time \in [Contexts -> Times] /\ Forever \in Times
      /\ task_sch_queue \subseteq Futures /\ MaxTime \in Nat
  BY IInvParts DEF TypeOK
<1>2. ScheduleFront(task_sch_queue) \subseteq Futures /\ SleepFront \subseteq Contexts
  BY <1>1 DEF ScheduleFront, SleepFront, Sleepers
<1>3. S \subseteq Times /\ S # {}
  BY <1>1, <1>2
<1>4. NextTimeout = Min(S)
  BY DEF NextTimeout
<1> HIDE DEF S
<1> QED BY <1>1, <1>3, <1>4, LeastTime

\* The end of check_for_timeouts().
LEMMA CheckDoneIInv == ASSUME IInv, NEW c \in Contexts, CheckDone(c) PROVE IInv'
<1> USE DEF listVars, queueVars, ctxVars, promVars, postVars, taskVars
<1>0. /\ TypeOK /\ Hand(c) /\ pc \in [Contexts -> Labels] /\ timeout_time \in [Contexts -> Times]
      /\ then \in [Contexts -> {"top", "after_run", "switch"}] /\ Past \in Times
  BY IInvParts DEF TypeOK
<1>1. /\ c = Running /\ pc[c] \in {"check", "expire"}
      /\ UNCHANGED <<now, fault, current, listVars, done, prom, resume_time, canceled,
                     then, call, arg, timeout, cur, promVars, stage, postVars, taskVars, remote>>
  BY DEF CheckDone, At
<1>2. timeout_time' \in [Contexts -> Times]
  <2> DEFINE r == IF pc[c] = "expire" \/ NextTimeout <= now THEN Past ELSE NextTimeout
             v == IF then[c] = "switch" THEN timeout_time[c] ELSE r
  <2>1. timeout_time' = [timeout_time EXCEPT ![c] = v]
    BY <1>0 DEF CheckDone
  <2>2. v \in Times
    BY <1>0, NextTimeoutType
  <2> HIDE DEF v
  <2> QED BY <1>0, <2>1, <2>2
<1>3. (next' \in [Contexts -> Futures \cup {NULL}] /\ task_in_queue' \subseteq Futures
        /\ task_pqueue' \subseteq Futures /\ task_sch_queue' \subseteq Futures
        /\ pc' \in [Contexts -> Labels]) => TypeOK'
  BY <1>0, <1>1, <1>2 DEF TypeOK
<1>4. CASE then[c] = "after_run"
  <2> DEFINE l == IF next'[c] = NULL THEN "idle" ELSE "run"
  <2>1. dequeue(c) /\ pc' = [pc EXCEPT ![c] = l]
    BY <1>4 DEF CheckDone, Goto
  <2>2. next[c] = NULL
    BY <1>0, <1>1, <1>4 DEF Hand, NoTask
  <2>3. /\ l \in {"top", "block_wait", "cv_wait", "idle", "run"}
        /\ l \in {"block_wait", "cv_wait", "idle"} => next'[c] = NULL
        /\ l = "run" => next'[c] # NULL
    OBVIOUS
  <2> HIDE DEF l
  <2>4. UNCHANGED <<current, listVars, then, call, stage, when, posted_num, pushed>>
    BY <1>1
  <2> QED BY <1>1, <1>3, <2>1, <2>2, <2>3, <2>4, DequeueIInv
<1>5. CASE then[c] \in {"top", "switch"}
  <2> DEFINE l == IF then[c] = "switch" THEN "switch" ELSE IF next[c] = NULL THEN "idle" ELSE "run"
  <2>1. pc' = [pc EXCEPT ![c] = l] /\ UNCHANGED <<next, queueVars>>
    BY <1>5 DEF CheckDone, Goto
  <2>2. l \in {"switch", "idle", "run"} /\ (l = "switch" <=> then[c] = "switch")
        /\ (l = "idle" => next[c] = NULL) /\ (l = "run" => next[c] # NULL)
    OBVIOUS
  <2> HIDE DEF l
  <2>3. pc'[c] = l /\ \A d \in Contexts : d # c => pc'[d] = pc[d]
    BY <1>0, <2>1
  <2>4. TypeOK'
    <3>1. pc' \in [Contexts -> Labels]
      BY <1>0, <2>1, <2>2 DEF Labels
    <3> QED BY <1>0, <1>3, <2>1, <3>1 DEF TypeOK
  <2>5. Local(c)
    BY <1>1, <2>1, <2>2, <2>3 DEF Local
  <2>6. Hand(c)'
    BY <1>0, <1>1, <1>5, <2>1, <2>2, <2>3 DEF Hand, InTask, NoTask, Switching
  <2>7. ListsKept(c)
    BY <1>1, SameLists
  <2> QED BY <2>4, <2>5, <2>6, <2>7, LocalIInv
<1> QED BY <1>0, <1>4, <1>5

-----------------------------------------------------------------------------
(* Steps that post a task *)

\* The number of tasks made so far, before and after a post.
LEMMA PostCounts ==
    ASSUME IInv, NEW f \in Futures, NEW w, Post(f, w)
    PROVE  /\ Cardinality(Posted) \in Nat /\ Cardinality(Posted') = Cardinality(Posted) + 1
           /\ pushed' = [pushed EXCEPT ![f] = Cardinality(Posted) + 1]
<1>0. stage \in [Futures -> {"new", "posted", "running", "ended"}] /\ pushed \in [Futures -> Nat]
  BY IInvParts DEF TypeOK
<1>1. Posted \subseteq Futures
  BY DEF Posted
<1>2. IsFiniteSet(Posted)
  BY <1>1, FutureAssumption, FS_Subset
<1>3. Cardinality(Posted) \in Nat
  BY <1>2, FS_CardinalityType
<1>4. Posted' = Posted \cup {f} /\ f \notin Posted
  BY <1>0 DEF Posted, Post
<1>5. Cardinality(Posted \cup {f}) = Cardinality(Posted) + 1
  BY <1>2, <1>4, FS_AddElement
<1>6. pushed' = [pushed EXCEPT ![f] = 1 + Cardinality(Posted)]
  BY DEF Post, Posted
<1>7. 1 + Cardinality(Posted) = Cardinality(Posted) + 1
  BY <1>3
<1> QED BY <1>3, <1>4, <1>5, <1>6, <1>7

\* The types after a post.
LEMMA PostTypes ==
    ASSUME IInv, NEW f \in Futures, NEW w \in Times, Post(f, w)
    PROVE  /\ stage' \in [Futures -> {"new", "posted", "running", "ended"}]
           /\ when' \in [Futures -> Times] /\ posted_num' \in [Futures -> Nat] /\ pushed' \in [Futures -> Nat]
           /\ task_in_queue' \subseteq Futures /\ task_pqueue' \subseteq Futures
           /\ task_sch_queue' \subseteq Futures
<1>0. TypeOK
  BY IInvParts
<1>1. stage' \in [Futures -> {"new", "posted", "running", "ended"}]
  BY <1>0 DEF TypeOK, Post
<1>2. when' \in [Futures -> Times]
  BY <1>0 DEF TypeOK, Post
<1>3. posted_num' \in [Futures -> Nat] /\ pushed' \in [Futures -> Nat]
  <2> DEFINE n == Cardinality(Posted) + 1
  <2>1. pushed' = [pushed EXCEPT ![f] = n] /\ n \in Nat
    BY PostCounts
  <2>2. PICK m \in Numbers : posted_num' = [posted_num EXCEPT ![f] = m]
    BY DEF Post
  <2> HIDE DEF n
  <2> QED BY <1>0, <2>1, <2>2, NumberAssumption DEF TypeOK
<1>4. task_in_queue' \subseteq Futures /\ task_pqueue' \subseteq Futures /\ task_sch_queue' \subseteq Futures
  BY <1>0 DEF TypeOK, Post
<1> QED BY <1>1, <1>2, <1>3, <1>4

\* A step that posts a task, and may wake the thread.
LEMMA PostIInv ==
    ASSUME IInv, NEW f \in Futures, NEW w \in Times, Post(f, w), UNCHANGED pc \/ Wake,
           UNCHANGED <<current, listVars, then, call, next>>, TypeOK'
    PROVE  IInv'
<1> USE DEF listVars
<1>0. /\ pc \in [Contexts -> Labels] /\ next \in [Contexts -> Futures \cup {NULL}]
      /\ stage \in [Futures -> {"new", "posted", "running", "ended"}]
      /\ pushed \in [Futures -> Nat] /\ when \in [Futures -> Times]
      /\ posted_num \in [Futures -> Nat] /\ task_sch_queue \subseteq Futures
  BY IInvParts DEF TypeOK
<1> DEFINE n == Cardinality(Posted)
<1>1. n \in Nat /\ Cardinality(Posted') = n + 1 /\ pushed' = [pushed EXCEPT ![f] = n + 1]
  BY PostCounts
<1> HIDE DEF n
<1>2. /\ stage[f] = "new" /\ stage'[f] = "posted" /\ pushed'[f] = n + 1
      /\ \A t \in Futures : t # f => /\ stage'[t] = stage[t] /\ when'[t] = when[t]
                                     /\ pushed'[t] = pushed[t] /\ posted_num'[t] = posted_num[t]
      /\ task_in_queue' = task_in_queue \cup {f} /\ UNCHANGED <<task_pqueue, task_sch_queue>>
  BY <1>0, <1>1 DEF Post
<1>3. ~Queued(f) /\ ~Held(f)
  BY <1>2, IInvParts DEF OnePlace
<1>4. \A d \in Contexts : \/ pc'[d] = pc[d]
                          \/ pc[d] = "cv_wait" /\ pc'[d] = "top"
  BY <1>0 DEF Wake
<1>5. OneRuns' /\ Made'
  <2>1. Running' = Running
    BY DEF Running
  <2>2. \A d \in Contexts : /\ pc'[d] = "unused" <=> pc[d] = "unused"
                            /\ pc'[d] = "suspended" <=> pc[d] = "suspended"
    BY <1>4
  <2>3. OneRuns'
    BY <2>1, <2>2, IInvParts DEF OneRuns
  <2>4. Made'
    BY <2>2, IInvParts DEF Made
  <2> QED BY <2>3, <2>4
<1>6. ASSUME NEW d \in Contexts PROVE Hand(d)'
  <2>1. Hand(d) /\ next[d] # f /\ next'[d] = next[d]
    BY <1>3, IInvParts DEF Held
  <2>2. next[d] # NULL => stage'[next[d]] = stage[next[d]]
    BY <1>0, <1>2, <2>1
  <2>3. CASE pc'[d] = pc[d]
    BY <2>1, <2>2, <2>3, HandSame
  <2>4. CASE pc[d] = "cv_wait" /\ pc'[d] = "top"
    BY <2>1, <2>4 DEF Hand, InTask, NoTask, Switching
  <2> QED BY <1>4, <2>3, <2>4
<1>7. \A t \in Futures : (Held(t)' <=> Held(t)) /\ (Queued(t)' <=> Queued(t) \/ t = f)
  BY <1>2 DEF Held, Queued
<1>8. ASSUME NEW t \in Futures PROVE OnePlace(t)'
  <2>1. OnePlace(t) /\ (Held(t)' <=> Held(t)) /\ (Queued(t)' <=> Queued(t) \/ t = f)
    BY <1>7, IInvParts
  <2>2. CASE t = f
    BY <1>2, <1>3, <2>1, <2>2 DEF OnePlace, Queued, Held
  <2>3. CASE t # f
    <3>1. /\ stage'[t] = stage[t] /\ (t \in task_in_queue' <=> t \in task_in_queue)
          /\ UNCHANGED <<next, task_pqueue, task_sch_queue>>
      BY <1>2, <2>3
    <3> QED BY <2>1, <2>3, <3>1 DEF OnePlace
  <2> QED BY <2>2, <2>3
<1>9. ASSUME NEW t \in Futures, stage[t] # "new" PROVE pushed[t] <= n /\ pushed[t] \in Nat /\ t # f
  <2>1. Counted(t)
    BY IInvParts
  <2> QED BY <1>0, <1>2, <1>9, <2>1 DEF Counted, n
<1>10. ASSUME NEW t \in Futures PROVE Counted(t)'
  <2>1. CASE t = f
    BY <1>1, <1>2, <2>1 DEF Counted
  <2>2. CASE t # f
    BY <1>1, <1>2, <1>9, <2>2 DEF Counted
  <2> QED BY <2>1, <2>2
<1>11. ASSUME NEW t \in Futures, NEW u \in Futures PROVE InOrder(t, u)'
  <2>0. InOrder(t, u) /\ OnePlace(u)
    BY IInvParts
  <2>1. CASE u = f
    <3>1. ~Started(u)' /\ ~Held(u)'
      BY <1>2, <1>3, <1>7, <2>1 DEF Started
    <3> QED BY <3>1 DEF InOrder
  <2>2. CASE u # f /\ t = f
    <3> SUFFICES ASSUME Started(u)' \/ Held(u)' PROVE pushed'[t] > pushed'[u]
      BY DEF InOrder
    <3>1. stage[u] # "new"
      BY <1>2, <1>7, <2>0, <2>2 DEF Started, OnePlace
    <3>2. pushed[u] <= n /\ pushed[u] \in Nat
      BY <1>9, <3>1
    <3>3. pushed'[t] = n + 1 /\ pushed'[u] = pushed[u]
      BY <1>2, <2>2
    <3> QED BY <1>1, <3>2, <3>3
  <2>3. CASE u # f /\ t # f
    BY <1>2, <1>7, <2>0, <2>3 DEF InOrder, Started, Outranks
  <2> QED BY <2>1, <2>2, <2>3
<1>12. \A t \in task_sch_queue' : when'[t] # Past
  <2> SUFFICES ASSUME NEW t \in task_sch_queue PROVE when'[t] # Past
    BY <1>2
  <2>1. t \in Futures /\ t # f /\ when[t] # Past
    BY <1>0, <1>3, IInvParts DEF Queued
  <2> QED BY <1>2, <2>1
<1> QED BY <1>5, <1>6, <1>8, <1>10, <1>11, <1>12 DEF IInv

\* async() and schedule() of a task.
LEMMA UserPostIInv == ASSUME IInv, NEW c \in Contexts, UserAsync(c) \/ UserSchedule(c) PROVE IInv'
<1> USE DEF listVars, queueVars, ctxVars, promVars, postVars, taskVars
<1>1. PICK k \in {"async", "schedule"}, f \in Futures, w \in Times :
         /\ User(c, k) /\ Post(f, w)
         /\ UNCHANGED <<now, fault, current, listVars, done, prom, ctxVars, pc, next, promVars,
                        task_canceled, active_context, remote>>
  <2>1. CASE UserAsync(c)
    <3>1. PICK f \in LocalFutures : Post(f, Past)
      BY <2>1 DEF UserAsync
    <3>2. f \in Futures /\ Past \in Times
      BY IInvParts
    <3> QED BY <2>1, <3>1, <3>2 DEF UserAsync
  <2>2. CASE UserSchedule(c)
    <3>1. PICK f \in LocalFutures, d \in Delays : now + d <= MaxTime /\ Post(f, now + d)
      BY <2>2 DEF UserSchedule
    <3> DEFINE w == now + d
    <3>2. w \in Times /\ Post(f, w) /\ f \in Futures
      BY <3>1, IInvParts DEF Times
    <3> HIDE DEF w
    <3> QED BY <2>2, <3>2 DEF UserSchedule
  <2> QED BY <2>1, <2>2
<1>2. calls' \in [Futures -> 0..MaxCalls]
  BY <1>1, CallCounted
<1>3. /\ stage' \in [Futures -> {"new", "posted", "running", "ended"}]
      /\ when' \in [Futures -> Times] /\ posted_num' \in [Futures -> Nat] /\ pushed' \in [Futures -> Nat]
      /\ task_in_queue' \subseteq Futures /\ task_pqueue' \subseteq Futures
      /\ task_sch_queue' \subseteq Futures
  BY <1>1, PostTypes
<1>4. TypeOK'
  BY <1>1, <1>2, <1>3, IInvParts DEF TypeOK
<1> QED BY <1>1, <1>4, PostIInv

\* The labels after a wakeup.
LEMMA WakeType == ASSUME IInv, Wake PROVE pc' \in [Contexts -> Labels]
BY IInvParts DEF Wake, TypeOK, Labels

\* Another thread posts a task.
LEMMA RemotePostIInv == ASSUME IInv, NEW f \in LocalFutures, RemotePost(f) PROVE IInv'
<1> USE DEF listVars, queueVars, ctxVars, promVars, postVars, taskVars
<1> DEFINE w == Past
<1>1. f \in Futures /\ w \in Times
  BY IInvParts
<1>2. /\ Post(f, w) /\ Wake
      /\ UNCHANGED <<now, fault, current, listVars, done, prom, ctxVars, next, promVars,
                     taskVars, remote>>
  BY DEF RemotePost
<1> HIDE DEF w
<1>3. /\ stage' \in [Futures -> {"new", "posted", "running", "ended"}]
      /\ when' \in [Futures -> Times] /\ posted_num' \in [Futures -> Nat] /\ pushed' \in [Futures -> Nat]
      /\ task_in_queue' \subseteq Futures /\ task_pqueue' \subseteq Futures
      /\ task_sch_queue' \subseteq Futures
  BY <1>1, <1>2, PostTypes
<1>4. pc' \in [Contexts -> Labels]
  BY <1>2, WakeType
<1>5. TypeOK'
  BY <1>2, <1>3, <1>4, IInvParts DEF TypeOK
<1> QED BY <1>1, <1>2, <1>5, PostIInv

\* Another thread notifies this one.
LEMMA RemoteNotifyIInv == ASSUME IInv, NEW p \in RemoteFutures, RemoteNotify(p) PROVE IInv'
<1> USE DEF listVars, queueVars, ctxVars, promVars, postVars, taskVars
<1> DEFINE w == Past
<1>0. p \in Futures /\ w \in Times /\ TypeOK
  BY IInvParts
<1>1. /\ UNCHANGED <<now, current, listVars, done, prom, ctxVars, next, promVars, taskVars>>
      /\ remote' = [remote EXCEPT ![p] = "end"]
  BY DEF RemoteNotify
<1>2. remote' \in [RemoteFutures -> {"idle", "notify", "end"}]
  BY <1>0, <1>1 DEF TypeOK
<1>3. CASE Post(p, w) /\ Wake /\ UNCHANGED fault
  <2> HIDE DEF w
  <2>1. /\ stage' \in [Futures -> {"new", "posted", "running", "ended"}]
        /\ when' \in [Futures -> Times] /\ posted_num' \in [Futures -> Nat] /\ pushed' \in [Futures -> Nat]
        /\ task_in_queue' \subseteq Futures /\ task_pqueue' \subseteq Futures
        /\ task_sch_queue' \subseteq Futures
    BY <1>0, <1>3, PostTypes
  <2>2. pc' \in [Contexts -> Labels]
    BY <1>3, WakeType
  <2>3. TypeOK'
    BY <1>0, <1>1, <1>2, <1>3, <2>1, <2>2 DEF TypeOK
  <2> QED BY <1>0, <1>1, <1>3, <2>3, PostIInv
<1>4. CASE UNCHANGED <<queueVars, stage, postVars, pc>> /\ fault' \in {fault, "assert ready()"}
  <2>1. fault' \in Faults
    BY <1>0, <1>4 DEF TypeOK, Faults
  <2>2. TypeOK'
    BY <1>0, <1>1, <1>2, <1>4, <2>1 DEF TypeOK
  <2> QED BY <1>1, <1>4, <2>2, OutsideIInv
<1> QED BY <1>3, <1>4 DEF RemoteNotify

-----------------------------------------------------------------------------
(* Steps that start or end a task *)

\* The task in hand of the running context goes on to stage s.
LEMMA TaskGoesOn ==
    ASSUME IInv, NEW c \in Contexts, c = Running, NEW t \in Futures, next[c] = t,
           NEW s \in {"running", "ended"}, stage' = [stage EXCEPT ![t] = s],
           next' = IF s = "ended" THEN [next EXCEPT ![c] = NULL] ELSE next,
           UNCHANGED <<task_in_queue, task_pqueue, task_sch_queue, when, posted_num, pushed>>
    PROVE  /\ \A u \in Futures : OnePlace(u)'
           /\ \A u, v \in Futures : Counted(u)' /\ InOrder(u, v)'
           /\ \A u \in task_sch_queue' : when'[u] # Past
           /\ \A d \in Contexts : d # c => /\ next'[d] = next[d]
                                           /\ next[d] # NULL => stage'[next[d]] = stage[next[d]]
<1>0. /\ next \in [Contexts -> Futures \cup {NULL}] /\ NULL \notin Futures
      /\ stage \in [Futures -> {"new", "posted", "running", "ended"}]
      /\ \A u \in Futures : OnePlace(u)
  BY IInvParts DEF TypeOK
<1>1. stage'[t] = s /\ \A u \in Futures : u # t => stage'[u] = stage[u]
  BY <1>0
<1>2. /\ \A d \in Contexts : d # c => next'[d] = next[d]
      /\ next'[c] = IF s = "ended" THEN NULL ELSE t
  BY <1>0
<1>3. Held(t) /\ ~Queued(t) /\ stage[t] \in {"posted", "running"} /\ \A d \in Contexts : next[d] = t => d = c
  BY <1>0 DEF OnePlace, Held
<1>4. \A u \in Futures : (Queued(u)' <=> Queued(u)) /\ (Held(u)' <=> Held(u) /\ (u # t \/ s = "running"))
  <2> SUFFICES ASSUME NEW u \in Futures
               PROVE (Queued(u)' <=> Queued(u)) /\ (Held(u)' <=> Held(u) /\ (u # t \/ s = "running"))
    OBVIOUS
  <2>1. Queued(u)' <=> Queued(u)
    BY DEF Queued
  <2>2. Held(u)' <=> Held(u) /\ (u # t \/ s = "running")
    BY <1>0, <1>2, <1>3 DEF Held
  <2> QED BY <2>1, <2>2
<1>5. ASSUME NEW u \in Futures PROVE OnePlace(u)'
  <2>0. OnePlace(u) /\ (Queued(u)' <=> Queued(u)) /\ (Held(u)' <=> Held(u) /\ (u # t \/ s = "running"))
    BY <1>0, <1>4
  <2>1. \A a, b \in Contexts : next'[a] = u /\ next'[b] = u => a = b
    BY <1>0, <1>2, <1>3, <2>0 DEF OnePlace
  <2>2. /\ stage'[u] \in {"posted", "running"} <=> Queued(u)' \/ Held(u)'
        /\ Queued(u)' => stage'[u] = "posted" /\ ~Held(u)'
    <3>1. CASE u = t
      BY <1>1, <1>3, <2>0, <3>1 DEF OnePlace
    <3>2. CASE u # t
      BY <1>1, <2>0, <3>2 DEF OnePlace
    <3> QED BY <3>1, <3>2
  <2> QED BY <2>0, <2>1, <2>2 DEF OnePlace
<1>6. Posted' = Posted
  BY <1>0, <1>1, <1>3 DEF Posted
<1>7. ASSUME NEW u \in Futures PROVE Counted(u)'
  <2>1. stage'[u] # "new" <=> stage[u] # "new"
    BY <1>1, <1>3
  <2> QED BY <1>6, <2>1, IInvParts DEF Counted
<1>8. ASSUME NEW u \in Futures, stage[u] = "posted", u # t PROVE Queued(u)
  <2> SUFFICES ASSUME NEW d \in Contexts, next[d] = u PROVE FALSE
    BY <1>0, <1>8 DEF OnePlace, Held
  <2>1. Hand(d) /\ d # c /\ pc[d] \in {"unused", "suspended"}
    BY <1>8, IInvParts DEF OneRuns
  <2> QED BY <1>0, <1>8, <2>1 DEF Hand, InTask, NoTask, Switching
<1>9. ASSUME NEW u \in Futures, NEW v \in Futures PROVE InOrder(u, v)'
  <2>0. InOrder(u, v) /\ (Outranks(u, v)' <=> Outranks(u, v))
    BY IInvParts DEF Outranks
  <2>1. CASE stage'[u] = "posted" /\ v = t
    <3>1. u # t /\ stage[u] = "posted"
      BY <1>1, <2>1
    <3>2. Queued(u) /\ Held(v)
      BY <1>3, <1>8, <2>1, <3>1
    <3> QED BY <2>0, <3>2 DEF InOrder
  <2>2. CASE ~(stage'[u] = "posted" /\ v = t)
    <3>1. stage'[u] = "posted" /\ Started(v)' => stage[u] = "posted" /\ Started(v)
      BY <1>1, <2>2 DEF Started
    <3>2. Queued(u)' /\ Held(v)' => Queued(u) /\ Held(v)
      BY <1>4
    <3> QED BY <2>0, <3>1, <3>2 DEF InOrder
  <2> QED BY <2>1, <2>2
<1>10. ASSUME NEW d \in Contexts, d # c
       PROVE  next'[d] = next[d] /\ (next[d] # NULL => stage'[next[d]] = stage[next[d]])
  BY <1>0, <1>1, <1>2, <1>3, <1>10
<1>11. \A u \in task_sch_queue' : when'[u] # Past
  BY IInvParts
<1> QED BY <1>5, <1>7, <1>9, <1>10, <1>11

\* A step of the running context that starts or ends its task.
LEMMA TaskStepIInv ==
    ASSUME IInv, NEW c \in Contexts, c = Running, NEW t \in Futures, next[c] = t,
           NEW s \in {"running", "ended"}, stage' = [stage EXCEPT ![t] = s],
           next' = IF s = "ended" THEN [next EXCEPT ![c] = NULL] ELSE next,
           UNCHANGED <<current, call, task_in_queue, task_pqueue, task_sch_queue, when, posted_num, pushed>>,
           \A d \in Contexts : d # c => pc'[d] = pc[d] /\ then'[d] = then[d],
           s = "running" => pc'[c] = "user",
           s = "ended" => pc'[c] = "check" /\ then'[c] = "after_run",
           ListsKept(c), TypeOK'
    PROVE  IInv'
<1>1. /\ \A u \in Futures : OnePlace(u)'
      /\ \A u, v \in Futures : Counted(u)' /\ InOrder(u, v)'
      /\ \A u \in task_sch_queue' : when'[u] # Past
      /\ \A d \in Contexts : d # c => /\ next'[d] = next[d]
                                      /\ next[d] # NULL => stage'[next[d]] = stage[next[d]]
  BY TaskGoesOn
<1>2. OneRuns' /\ Made'
  BY RunsOn
<1>3. Hand(c)'
  <2>0. /\ next \in [Contexts -> Futures \cup {NULL}] /\ NULL \notin Futures
        /\ stage \in [Futures -> {"new", "posted", "running", "ended"}]
    BY IInvParts DEF TypeOK
  <2>1. CASE s = "running"
    <3>1. next'[c] = t /\ stage'[t] = "running" /\ pc'[c] = "user" /\ t # NULL
      BY <2>0, <2>1
    <3> QED BY <3>1 DEF Hand, InTask, NoTask, Switching
  <2>2. CASE s = "ended"
    <3>1. next'[c] = NULL /\ pc'[c] = "check" /\ then'[c] = "after_run"
      BY <2>0, <2>2
    <3> QED BY <3>1 DEF Hand, InTask, NoTask, Switching
  <2> QED BY <2>1, <2>2
<1>4. ASSUME NEW d \in Contexts, d # c PROVE Hand(d)'
  <2>1. /\ pc'[d] = pc[d] /\ then'[d] = then[d] /\ call'[d] = call[d]
        /\ next'[d] = next[d] /\ (next[d] # NULL => stage'[next[d]] = stage[next[d]])
    BY <1>1, <1>4
  <2> QED BY <2>1, HandSame
<1> QED BY <1>1, <1>2, <1>3, <1>4 DEF IInv

\* rtask::run calls the functor.
LEMMA RunFunctorIInv == ASSUME IInv, NEW c \in Contexts, RunFunctor(c) PROVE IInv'
<1> USE DEF listVars, queueVars, ctxVars, promVars, postVars, taskVars
<1> DEFINE t == next[c]
           s == "running"
<1>0. TypeOK /\ pc \in [Contexts -> Labels]
  BY IInvParts DEF TypeOK
<1>1. /\ c = Running /\ t \in Futures /\ s \in {"running", "ended"} /\ s # "ended"
      /\ stage' = [stage EXCEPT ![t] = s] /\ active_context' = [active_context EXCEPT ![t] = current]
      /\ pc' = [pc EXCEPT ![c] = "user"]
      /\ UNCHANGED <<now, fault, current, listVars, queueVars, done, prom, ctxVars, next,
                     promVars, postVars, task_canceled, calls, remote>>
  BY IInvParts DEF RunFunctor, At, Goto
<1>2. next[c] = t
  OBVIOUS
<1> HIDE DEF t, s
<1>3. TypeOK'
  <2>1. pc' \in [Contexts -> Labels]
    BY <1>0, <1>1 DEF Labels
  <2>2. stage' \in [Futures -> {"new", "posted", "running", "ended"}]
    BY <1>0, <1>1 DEF TypeOK
  <2>3. active_context' \in [Futures -> Contexts \cup {NULL}]
    BY <1>0, <1>1 DEF TypeOK
  <2> QED BY <1>0, <1>1, <2>1, <2>2, <2>3 DEF TypeOK
<1>4. pc'[c] = "user" /\ \A d \in Contexts : d # c => pc'[d] = pc[d] /\ then'[d] = then[d]
  BY <1>0, <1>1
<1>5. ListsKept(c)
  BY <1>1, SameLists
<1> QED BY <1>1, <1>2, <1>3, <1>4, <1>5, TaskStepIInv

\* run() has returned.
LEMMA EndTaskIInv ==
    ASSUME IInv, NEW c \in Contexts, c = Running, NEW t \in Futures, next[c] = t, EndTask(c, t),
           UNCHANGED <<now, fault, current, queueVars, done, resume_time, canceled, call,
                       arg, timeout, timeout_time, cur, postVars, task_canceled, calls, remote>>,
           ready' \in Seq(Contexts), blocked' \in Seq(Contexts),
           sleep_pqueue' \in [Contexts -> Nat], prom' \in [Contexts -> Futures \cup {NULL}],
           \A d : On(ready', d) \/ On(blocked', d) => On(ready, d) \/ On(blocked, d),
           \A d \in Contexts : sleep_pqueue'[d] > 0 => sleep_pqueue[d] > 0,
           m_value' \in [Futures -> BOOLEAN], m_error' \in [Futures -> Errors],
           m_blocked_thread' \in [Futures -> BOOLEAN]
    PROVE  IInv'
<1> USE DEF queueVars, postVars
<1> DEFINE s == "ended"
<1>0. /\ TypeOK /\ pc \in [Contexts -> Labels] /\ then \in [Contexts -> {"top", "after_run", "switch"}]
      /\ next \in [Contexts -> Futures \cup {NULL}]
  BY IInvParts DEF TypeOK
<1>1. /\ s \in {"running", "ended"} /\ s = "ended" /\ stage' = [stage EXCEPT ![t] = s]
      /\ active_context' = [active_context EXCEPT ![t] = NULL]
      /\ next' = [next EXCEPT ![c] = NULL]
      /\ pc' = [pc EXCEPT ![c] = "check"] /\ then' = [then EXCEPT ![c] = "after_run"]
  BY DEF EndTask, CheckForTimeouts, Goto
<1> HIDE DEF s
<1>2. TypeOK'
  <2>1. pc' \in [Contexts -> Labels]
    BY <1>0, <1>1 DEF Labels
  <2>2. stage' \in [Futures -> {"new", "posted", "running", "ended"}]
    BY <1>0, <1>1 DEF TypeOK
  <2>3. active_context' \in [Futures -> Contexts \cup {NULL}]
    BY <1>0, <1>1 DEF TypeOK
  <2>4. then' \in [Contexts -> {"top", "after_run", "switch"}]
    BY <1>0, <1>1
  <2>5. next' \in [Contexts -> Futures \cup {NULL}]
    BY <1>0, <1>1
  <2> QED BY <1>0, <2>1, <2>2, <2>3, <2>4, <2>5 DEF TypeOK, Errors
<1>3. /\ pc'[c] = "check" /\ then'[c] = "after_run"
      /\ \A d \in Contexts : d # c => pc'[d] = pc[d] /\ then'[d] = then[d]
  BY <1>0, <1>1
<1>4. ListsKept(c)
  BY DEF ListsKept
<1> QED BY <1>1, <1>2, <1>3, <1>4, TaskStepIInv

\* rtask::run of a task that was canceled.
LEMMA RunCanceledIInv == ASSUME IInv, NEW c \in Contexts, RunCanceled(c) PROVE IInv'
<1> USE DEF listVars, queueVars, promVars, postVars
<1>0. TypeOK /\ sleep_pqueue \in [Contexts -> Nat] /\ Hand(c) /\ next \in [Contexts -> Futures \cup {NULL}]
  BY IInvParts DEF TypeOK
<1>1. PICK t : t = next[c]
  OBVIOUS
<1>2. /\ c = Running /\ t \in Futures /\ EndTask(c, t)
      /\ UNCHANGED <<now, fault, current, queueVars, done, resume_time, canceled, call,
                     arg, timeout, timeout_time, cur, postVars, task_canceled, calls, remote>>
  BY <1>0, <1>1, IInvParts DEF RunCanceled, At, Hand, InTask
<1>3. /\ ready' \in Seq(Contexts) /\ blocked' \in Seq(Contexts)
      /\ sleep_pqueue' \in [Contexts -> Nat] /\ prom' \in [Contexts -> Futures \cup {NULL}]
      /\ \A d : On(ready', d) \/ On(blocked', d) => On(ready, d) \/ On(blocked, d)
      /\ \A d \in Contexts : sleep_pqueue'[d] > 0 => sleep_pqueue[d] > 0
      /\ m_error' \in [Futures -> Errors] /\ UNCHANGED <<m_value, m_blocked_thread>>
  <2> DEFINE e == "canceled"
  <2>1. e \in Errors /\ set_exception(t, e, sleep_pqueue)
    BY <1>1 DEF RunCanceled, Errors
  <2> HIDE DEF e
  <2> QED BY <1>0, <2>1, SetExceptionFacts
<1>4. /\ m_value' \in [Futures -> BOOLEAN] /\ m_error' \in [Futures -> Errors]
      /\ m_blocked_thread' \in [Futures -> BOOLEAN]
  BY <1>0, <1>3 DEF TypeOK
<1> QED BY <1>1, <1>2, <1>3, <1>4, EndTaskIInv

\* thread::notify runs as a task.
LEMMA RunNotifyIInv == ASSUME IInv, NEW c \in Contexts, RunNotify(c) PROVE IInv'
<1> USE DEF listVars, queueVars, promVars, postVars
<1>0. TypeOK /\ sleep_pqueue \in [Contexts -> Nat] /\ Hand(c) /\ next \in [Contexts -> Futures \cup {NULL}]
  BY IInvParts DEF TypeOK
<1>1. PICK t : t = next[c]
  OBVIOUS
<1>2. /\ c = Running /\ t \in Futures /\ EndTask(c, t)
      /\ UNCHANGED <<now, fault, current, queueVars, done, resume_time, canceled, call,
                     arg, timeout, timeout_time, cur, postVars, task_canceled, calls, remote>>
  BY <1>0, <1>1, IInvParts DEF RunNotify, At, Hand, InTask
<1>3. /\ ready' \in Seq(Contexts) /\ blocked' \in Seq(Contexts)
      /\ sleep_pqueue' \in [Contexts -> Nat] /\ prom' \in [Contexts -> Futures \cup {NULL}]
      /\ \A d : On(ready', d) \/ On(blocked', d) => On(ready, d) \/ On(blocked, d)
      /\ \A d \in Contexts : sleep_pqueue'[d] > 0 => sleep_pqueue[d] > 0
  <2>1. Notify(t, sleep_pqueue)
    BY <1>1 DEF RunNotify
  <2> QED BY <1>0, <2>1, NotifyFacts
<1>4. /\ m_value' \in [Futures -> BOOLEAN] /\ m_error' \in [Futures -> Errors]
      /\ m_blocked_thread' \in [Futures -> BOOLEAN]
  BY <1>0 DEF RunNotify, TypeOK, Errors
<1> QED BY <1>1, <1>2, <1>3, <1>4, EndTaskIInv

\* The functor returns.
LEMMA UserReturnIInv == ASSUME IInv, NEW c \in Contexts, UserReturn(c) PROVE IInv'
<1> USE DEF listVars, queueVars, promVars, postVars
<1>0. TypeOK /\ sleep_pqueue \in [Contexts -> Nat] /\ Hand(c) /\ next \in [Contexts -> Futures \cup {NULL}]
  BY IInvParts DEF TypeOK
<1>1. PICK t : t = next[c]
  OBVIOUS
<1>2. /\ c = Running /\ t \in Futures /\ EndTask(c, t)
      /\ UNCHANGED <<now, fault, current, queueVars, done, resume_time, canceled, call,
                     arg, timeout, timeout_time, cur, postVars, task_canceled, calls, remote>>
  BY <1>0, <1>1, IInvParts DEF UserReturn, At, Hand, InTask
<1>3. /\ ready' \in Seq(Contexts) /\ blocked' \in Seq(Contexts)
      /\ sleep_pqueue' \in [Contexts -> Nat] /\ prom' \in [Contexts -> Futures \cup {NULL}]
      /\ \A d : On(ready', d) \/ On(blocked', d) => On(ready, d) \/ On(blocked, d)
      /\ \A d \in Contexts : sleep_pqueue'[d] > 0 => sleep_pqueue[d] > 0
      /\ m_value' \in [Futures -> BOOLEAN] /\ UNCHANGED <<m_error, m_blocked_thread>>
  <2>1. set_value(t)
    BY <1>1 DEF UserReturn
  <2> QED BY <1>0, <2>1, SetValueFacts
<1>4. /\ m_value' \in [Futures -> BOOLEAN] /\ m_error' \in [Futures -> Errors]
      /\ m_blocked_thread' \in [Futures -> BOOLEAN]
  BY <1>0, <1>3 DEF TypeOK, Errors
<1> QED BY <1>1, <1>2, <1>3, <1>4, EndTaskIInv

\* The functor throws.
LEMMA UserThrowIInv == ASSUME IInv, NEW c \in Contexts, UserThrow(c) PROVE IInv'
<1> USE DEF listVars, queueVars, promVars, postVars
<1>0. TypeOK /\ sleep_pqueue \in [Contexts -> Nat] /\ Hand(c) /\ next \in [Contexts -> Futures \cup {NULL}]
  BY IInvParts DEF TypeOK
<1>1. PICK t : t = next[c]
  OBVIOUS
<1>2. /\ c = Running /\ t \in Futures /\ EndTask(c, t)
      /\ UNCHANGED <<now, fault, current, queueVars, done, resume_time, canceled, call,
                     arg, timeout, timeout_time, cur, postVars, task_canceled, calls, remote>>
  BY <1>0, <1>1, IInvParts DEF UserThrow, At, Hand, InTask
<1>3. /\ ready' \in Seq(Contexts) /\ blocked' \in Seq(Contexts)
      /\ sleep_pqueue' \in [Contexts -> Nat] /\ prom' \in [Contexts -> Futures \cup {NULL}]
      /\ \A d : On(ready', d) \/ On(blocked', d) => On(ready, d) \/ On(blocked, d)
      /\ \A d \in Contexts : sleep_pqueue'[d] > 0 => sleep_pqueue[d] > 0
      /\ m_error' \in [Futures -> Errors] /\ UNCHANGED <<m_value, m_blocked_thread>>
  <2> DEFINE e == "task"
  <2>1. e \in Errors /\ set_exception(t, e, sleep_pqueue)
    BY <1>1 DEF UserThrow, Errors
  <2> HIDE DEF e
  <2> QED BY <1>0, <2>1, SetExceptionFacts
<1>4. /\ m_value' \in [Futures -> BOOLEAN] /\ m_error' \in [Futures -> Errors]
      /\ m_blocked_thread' \in [Futures -> BOOLEAN]
  BY <1>0, <1>3 DEF TypeOK
<1> QED BY <1>1, <1>2, <1>3, <1>4, EndTaskIInv

-----------------------------------------------------------------------------
(* The specification *)

\* The invariant holds when the thread starts.
LEMMA InitIInv == Init => IInv
<1> SUFFICES ASSUME Init PROVE IInv
  OBVIOUS
<1>0. /\ Main \in Contexts /\ NULL \notin Contexts /\ NULL \notin Futures
      /\ MaxTime \in Nat /\ MaxCalls \in Nat /\ Past \in Times /\ Forever \in Times
  BY ContextAssumption, NullAssumption, BoundAssumption DEF Times, Past, Forever
<1>1. TypeOK
  <2>1. /\ now \in 0..MaxTime /\ fault \in Faults /\ current \in Contexts \cup {NULL}
        /\ ready \in Seq(Contexts) /\ blocked \in Seq(Contexts) /\ sleep_pqueue \in [Contexts -> Nat]
        /\ task_in_queue \subseteq Futures /\ task_pqueue \subseteq Futures
        /\ task_sch_queue \subseteq Futures /\ done \in BOOLEAN /\ cur \in Contexts \cup {NULL}
    <3>1. now \in 0..MaxTime
      BY <1>0 DEF Init
    <3>2. sleep_pqueue \in [Contexts -> Nat]
      BY DEF Init
    <3>3. ready \in Seq(Contexts) /\ blocked \in Seq(Contexts)
      BY EmptySeq DEF Init
    <3>4. /\ fault \in Faults /\ current \in Contexts \cup {NULL} /\ task_in_queue \subseteq Futures
          /\ task_pqueue \subseteq Futures /\ task_sch_queue \subseteq Futures /\ done \in BOOLEAN
          /\ cur \in Contexts \cup {NULL}
      BY DEF Init, Faults
    <3> QED BY <3>1, <3>2, <3>3, <3>4
  <2>2. /\ prom \in [Contexts -> Futures \cup {NULL}] /\ resume_time \in [Contexts -> Times]
        /\ canceled \in [Contexts -> BOOLEAN] /\ pc \in [Contexts -> Labels]
        /\ then \in [Contexts -> {"top", "after_run", "switch"}]
        /\ call \in [Contexts -> {"process_tasks", "wait", "sleep", "yield"}]
        /\ arg \in [Contexts -> Futures \cup {NULL}] /\ timeout \in [Contexts -> Times]
        /\ next \in [Contexts -> Futures \cup {NULL}] /\ timeout_time \in [Contexts -> Times]
    BY <1>0 DEF Init, Labels
  <2>3. /\ m_value \in [Futures -> BOOLEAN] /\ m_error \in [Futures -> Errors]
        /\ m_blocked_thread \in [Futures -> BOOLEAN]
        /\ stage \in [Futures -> {"new", "posted", "running", "ended"}]
        /\ when \in [Futures -> Times] /\ posted_num \in [Futures -> Nat]
        /\ pushed \in [Futures -> Nat]
        /\ task_canceled \in [Futures -> BOOLEAN]
        /\ active_context \in [Futures -> Contexts \cup {NULL}] /\ calls \in [Futures -> 0..MaxCalls]
        /\ remote \in [RemoteFutures -> {"idle", "notify", "end"}]
    BY <1>0 DEF Init, Errors
  <2> QED BY <2>1, <2>2, <2>3 DEF TypeOK, Errors
<1>2. OneRuns
  BY <1>0 DEF Init, OneRuns, Running
<1>3. Made
  <2>1. \A d : ~On(ready, d) /\ ~On(blocked, d)
    BY DEF Init, On
  <2>2. \A d \in Contexts : ~(sleep_pqueue[d] > 0)
    BY DEF Init
  <2> QED BY <2>1, <2>2 DEF Made
<1>4. \A c \in Contexts : Hand(c)
  <2> SUFFICES ASSUME NEW c \in Contexts PROVE Hand(c)
    OBVIOUS
  <2>1. pc[c] \in {"begin", "unused"} /\ next[c] = NULL
    BY DEF Init
  <2> QED BY <2>1 DEF Hand, InTask, NoTask, Switching
<1>5. \A t \in Futures : stage[t] = "new" /\ ~Queued(t) /\ ~Held(t)
  BY <1>0 DEF Init, Queued, Held
<1>6. \A t \in Futures : OnePlace(t)
  BY <1>5 DEF OnePlace, Held, Queued
<1>7. \A t, u \in Futures : Counted(t) /\ InOrder(t, u)
  BY <1>5 DEF Counted, InOrder, Started
<1>8. \A t \in task_sch_queue : when[t] # Past
  BY DEF Init
<1> QED BY <1>1, <1>2, <1>3, <1>4, <1>6, <1>7, <1>8 DEF IInv

\* Every step keeps the invariant.
LEMMA NextIInv == IInv /\ [Next]_vars => IInv'
<1> SUFFICES ASSUME IInv, [Next]_vars PROVE IInv'
  OBVIOUS
<1>1. ASSUME NEW c \in Contexts, LoopStep(c) PROVE IInv'
  BY <1>1, LoopBeginIInv, LoopTopIInv, LoopIdleIInv, LoopBlockWaitIInv, LoopTimedOutIInv,
     ExpireSleeperIInv, CheckDoneIInv, SwitchToReadyIInv, SwitchToNewIInv, SwitchFaultIInv,
     ResumeLoopIInv, ResumeLoopFaultIInv, ResumeYieldOrSleepIInv, ResumeWaitIInv, RunFunctorIInv,
     RunCanceledIInv, RunNotifyIInv, RunNotifyFaultIInv, ThreadWaitReturnsIInv,
     ThreadWaitBlocksIInv, WaitResultIInv, QuitWalkIInv, QuitFaultIInv, QuitEndIInv DEF LoopStep
<1>2. ASSUME NEW c \in Contexts, UserStep(c) PROVE IInv'
  BY <1>2, UserReturnIInv, UserThrowIInv, UserPostIInv, UserWaitIInv, UserSleepIInv, UserYieldIInv,
     UserCancelIInv, UserQuitIInv DEF UserStep
<1>3. ASSUME NEW c \in Contexts, LoopSpuriousWake(c) PROVE IInv'
  BY <1>3, LoopSpuriousWakeIInv
<1>4. ASSUME NEW f \in LocalFutures, RemotePost(f) PROVE IInv'
  BY <1>4, RemotePostIInv
<1>5. ASSUME NEW p \in RemoteFutures, RemoteSet(p) \/ RemoteNotify(p) PROVE IInv'
  BY <1>5, RemoteSetIInv, RemoteNotifyIInv
<1>6. ASSUME ListFault \/ Tick PROVE IInv'
  BY <1>6, ListFaultIInv, TickIInv
<1>7. CASE UNCHANGED vars
  <2>1. TypeOK'
    BY <1>7, IInvParts DEF vars, TypeOK
  <2>2. UNCHANGED <<current, listVars, queueVars, pc, then, call, next, stage, postVars>>
    BY <1>7 DEF vars, listVars, queueVars, postVars
  <2> QED BY <2>1, <2>2, OutsideIInv
<1> QED BY <1>1, <1>2, <1>3, <1>4, <1>5, <1>6, <1>7 DEF Next

\* The invariant holds for ever.
LEMMA Invariance == SafeSpec => []IInv
<1> QED BY InitIInv, NextIInv, PTL DEF SafeSpec

\* The fields of thread_private, cmt_context, promise and task keep their types; no
\* context leaves the heap of sleepers more often than it entered it.
THEOREM TypeCorrect == SafeSpec => []TypeOK
<1>1. IInv => TypeOK
  BY DEF IInv
<1> QED BY <1>1, Invariance, PTL

\* A posted task is in one queue or in the hands of one loop until it has run,
\* whatever the tasks do, other threads post, and quit() stops.
THEOREM NoTaskIsLost == SafeSpec => []NoTaskLost
<1>1. IInv => NoTaskLost
  <2> SUFFICES ASSUME IInv, NEW t \in Futures
               PROVE  LET holders == {c \in Contexts : next[c] = t}
                          places  == Cardinality({q \in 1..3 : t \in <<task_in_queue, task_pqueue, task_sch_queue>>[q]})
                                     + Cardinality(holders)
                      IN places = (IF stage[t] \in {"posted", "running"} THEN 1 ELSE 0)
    BY DEF NoTaskLost
  <2> DEFINE holders == {c \in Contexts : next[c] = t}
             queues == {q \in 1..3 : t \in <<task_in_queue, task_pqueue, task_sch_queue>>[q]}
  <2>1. OnePlace(t)
    BY IInvParts
  <2>2. Cardinality({}) = 0 /\ \A x : Cardinality({x}) = 1
    BY FS_EmptySet, FS_Singleton
  <2>3. Cardinality(holders) = IF Held(t) THEN 1 ELSE 0
    <3>1. CASE Held(t)
      <4>1. PICK c \in Contexts : next[c] = t
        BY <3>1 DEF Held
      <4>2. holders = {c}
        BY <2>1, <4>1 DEF OnePlace
      <4> QED BY <2>2, <3>1, <4>2
    <3>2. CASE ~Held(t)
      <4>1. holders = {}
        BY <3>2 DEF Held
      <4> QED BY <2>2, <3>2, <4>1
    <3> QED BY <3>1, <3>2
  <2>4. Cardinality(queues) = IF Queued(t) THEN 1 ELSE 0
    <3> DEFINE Q == <<task_in_queue, task_pqueue, task_sch_queue>>
    <3>0. \A q \in 1..3 : q = 1 \/ q = 2 \/ q = 3
      OBVIOUS
    <3>1. CASE t \in task_in_queue
      <4>1. queues = {1}
        BY <2>1, <3>0, <3>1 DEF OnePlace
      <4> QED BY <2>2, <3>1, <4>1 DEF Queued
    <3>2. CASE t \in task_pqueue
      <4>1. queues = {2}
        BY <2>1, <3>0, <3>2 DEF OnePlace
      <4> QED BY <2>2, <3>2, <4>1 DEF Queued
    <3>3. CASE t \in task_sch_queue
      <4>1. queues = {3}
        BY <2>1, <3>0, <3>3 DEF OnePlace
      <4> QED BY <2>2, <3>3, <4>1 DEF Queued
    <3>4. CASE ~Queued(t)
      <4>1. queues = {}
        BY <3>0, <3>4 DEF Queued
      <4> QED BY <2>2, <3>4, <4>1
    <3> QED BY <3>1, <3>2, <3>3, <3>4 DEF Queued
  <2> HIDE DEF holders, queues
  <2>5. Cardinality(queues) + Cardinality(holders) = (IF stage[t] \in {"posted", "running"} THEN 1 ELSE 0)
    BY <2>1, <2>3, <2>4 DEF OnePlace
  <2> QED BY <2>5 DEF holders, queues
<1> QED BY <1>1, Invariance, PTL

\* Of two tasks that are due when posted, the one that goes before the other by priority
\* and number and was put on the list first starts first, whoever posts them, whatever
\* numbers they got and in whatever batches enqueue() moves them.
THEOREM StartsInOrder == SafeSpec => []StartInOrder
<1>1. IInv => StartInOrder
  <2> SUFFICES ASSUME IInv, NEW t \in Futures, NEW u \in Futures,
                      stage[t] = "posted", Started(u), when[t] = Past, when[u] = Past,
                      pushed[t] < pushed[u]
               PROVE  ~Outranks(t, u)
    BY DEF StartInOrder
  <2>1. InOrder(t, u) /\ pushed[t] \in Nat /\ pushed[u] \in Nat
    BY IInvParts DEF TypeOK
  <2>2. ~(pushed[t] > pushed[u])
    BY <2>1
  <2> QED BY <2>1, <2>2 DEF InOrder
<1> QED BY <1>1, Invariance, PTL
-----------------------------------------------------------------------------
(* The second invariant *)

\* What the rest is about: no task is canceled and the thread does not quit, another
\* thread sets values only, and one context at a time waits on a promise.
Orderly == /\ Calls \cap {"cancel", "quit"} = {}
           /\ RemoteOutcomes \subseteq {"value"}
           /\ MaxWaiters <= 1

\* The context is about to give up the processor.
Leaving(c) == \/ pc[c] = "switch"
              \/ pc[c] \in {"check", "expire"} /\ then[c] = "switch"

\* The places of a context.
Nowhere(c) == ~On(ready, c) /\ ~On(blocked, c) /\ sleep_pqueue[c] = 0
InReady(c) == On(ready, c) /\ ~On(blocked, c) /\ sleep_pqueue[c] = 0
Asleep(c)  == ~On(ready, c) /\ ~On(blocked, c) /\ sleep_pqueue[c] = 1 /\ prom[c] = NULL
Blocked(c) == /\ ~On(ready, c) /\ On(blocked, c)
              /\ prom[c] = arg[c] /\ arg[c] # NULL
              /\ \/ timeout[c] = Forever /\ sleep_pqueue[c] = 0
                 \/ timeout[c] # Forever /\ sleep_pqueue[c] = 1 /\ resume_time[c] = timeout[c]

\* The context was made ready by its own look for sleepers whose time has come.
Late(c) == InReady(c) /\ resume_time[c] <= now

\* The context is where its next wakeup comes from.
Placed(c) ==
    /\ ~Leaving(c) /\ pc[c] # "suspended" => Nowhere(c)
    /\ Leaving(c) /\ call[c] \in {"process_tasks", "yield"} => Nowhere(c)
    /\ Leaving(c) /\ call[c] = "wait"  => Blocked(c) \/ Late(c)
    /\ Leaving(c) /\ call[c] = "sleep" => Asleep(c) \/ Late(c)
    /\ pc[c] = "suspended" /\ call[c] \in {"process_tasks", "yield"} => InReady(c)
    /\ pc[c] = "suspended" /\ call[c] = "wait"  => Blocked(c) \/ InReady(c)
    /\ pc[c] = "suspended" /\ call[c] = "sleep" => Asleep(c) \/ InReady(c)

\* The context is inside wait() and the promise has an answer for it.
Answered(c) == \/ pc[c] = "wait_result"
               \/ pc[c] = "resumed" /\ call[c] = "wait"
               \/ (Leaving(c) \/ pc[c] = "suspended") /\ call[c] = "wait" /\ On(ready, c)

\* The wakeup of a set promise is on its way.
Coming(p) == p \in RemoteFutures /\ (remote[p] = "notify" \/ stage[p] = "posted")

\* The promise and the context that waits for it agree.
Agree(c) ==
    /\ pc[c] = "wait" \/ On(blocked, c) =>
          arg[c] \in Futures /\ m_blocked_thread[arg[c]] /\ m_error[arg[c]] = "none"
    /\ On(blocked, c) /\ m_value[arg[c]] => Coming(arg[c])
    /\ Answered(c) => /\ arg[c] \in Futures /\ Ready(arg[c])
                      /\ m_error[arg[c]] = "timeout" => timeout[c] <= now

\* No context is canceled; the loop gives up the processor to a ready context.
Calm(c) == /\ ~canceled[c] /\ pc[c] # "quit"
           /\ Leaving(c) /\ call[c] = "process_tasks" => ready # <<>>

\* A notification is sent for a value only.
Sent(p) == remote[p] = "notify" \/ stage[p] # "new" => m_value[p]

OneWaiter == \A c, d \in Contexts : arg[c] = arg[d] /\ arg[c] # NULL => c = d

Sound == ~Corrupt(ready) /\ ~Corrupt(blocked)

JInv == /\ Sound /\ OneWaiter
        /\ \A c \in Contexts : Placed(c) /\ Agree(c) /\ Calm(c)
        /\ \A p \in RemoteFutures : Sent(p)

-----------------------------------------------------------------------------
(* Lists without repetition *)

\* What Corrupt() means for a list.
LEMMA CorruptList ==
    ASSUME NEW S, NEW q \in Seq(S)
    PROVE  Corrupt(q) <=> \E i, j \in 1..Len(q) : i # j /\ q[i] = q[j]
<1>1. DOMAIN q = 1..Len(q)
  BY LenProperties
<1> QED BY <1>1 DEF Corrupt

\* A new element at an end repeats none.
LEMMA PushedOnce ==
    ASSUME NEW S, NEW q \in Seq(S), NEW c \in S, ~Corrupt(q), ~On(q, c)
    PROVE  ~Corrupt(Append(q, c)) /\ ~Corrupt(<<c>> \o q)
<1>1. /\ Append(q, c) \in Seq(S) /\ Len(Append(q, c)) = Len(q) + 1 /\ Len(q) \in Nat
      /\ \A i \in 1..Len(q) : Append(q, c)[i] = q[i]
      /\ Append(q, c)[Len(q) + 1] = c
  BY AppendProperties, LenProperties
<1>2. \A i, j \in 1..Len(q) : q[i] = q[j] => i = j
  BY CorruptList
<1>3. \A i \in 1..Len(q) : q[i] # c
  BY DEF On
<1>4. ~Corrupt(Append(q, c))
  <2> DEFINE a == Append(q, c)
  <2> SUFFICES ASSUME NEW i \in 1..Len(a), NEW j \in 1..Len(a), a[i] = a[j] PROVE i = j
    BY <1>1, CorruptList
  <2>1. (i \in 1..Len(q) \/ i = Len(q) + 1) /\ (j \in 1..Len(q) \/ j = Len(q) + 1)
    BY <1>1
  <2> HIDE DEF a
  <2>2. \A k \in 1..Len(q) : a[k] = q[k]
    BY <1>1 DEF a
  <2>3. a[Len(q) + 1] = c
    BY <1>1 DEF a
  <2> QED BY <1>2, <1>3, <2>1, <2>2, <2>3
<1> DEFINE h == <<c>>
           r == h \o q
<1>5. h \in Seq(S) /\ Len(h) = 1 /\ h[1] = c
  OBVIOUS
<1> HIDE DEF h
<1>6. /\ r \in Seq(S) /\ Len(r) = Len(h) + Len(q)
      /\ \A i \in 1..(Len(h) + Len(q)) : r[i] = IF i <= Len(h) THEN h[i] ELSE q[i - Len(h)]
  BY <1>5, ConcatProperties
<1> HIDE DEF r
<1>7. ~Corrupt(r)
  <2>1. ASSUME NEW i \in 1..Len(r) PROVE \/ i = 1 /\ r[i] = c
                                         \/ i - 1 \in 1..Len(q) /\ r[i] = q[i - 1]
    <3>1. i \in 1..(Len(h) + Len(q)) /\ (i = 1 \/ (i - 1 \in 1..Len(q) /\ ~(i <= Len(h))))
      BY <1>1, <1>5, <1>6
    <3> QED BY <1>1, <1>5, <1>6, <3>1
  <2> SUFFICES ASSUME NEW i \in 1..Len(r), NEW j \in 1..Len(r), r[i] = r[j] PROVE i = j
    BY <1>6, CorruptList
  <2>2. CASE i = 1 /\ r[i] = c
    BY <1>3, <2>1, <2>2
  <2>3. CASE i - 1 \in 1..Len(q) /\ r[i] = q[i - 1]
    <3>1. CASE j = 1 /\ r[j] = c
      BY <1>3, <2>3, <3>1
    <3>2. CASE j - 1 \in 1..Len(q) /\ r[j] = q[j - 1]
      <4>1. i - 1 = j - 1
        BY <1>2, <2>3, <3>2
      <4> QED BY <4>1
    <3> QED BY <2>1, <3>1, <3>2
  <2> QED BY <2>1, <2>2, <2>3
<1> QED BY <1>4, <1>7 DEF r, h

\* A list without repetition and without its head.
LEMMA TailOnce ==
    ASSUME NEW S, NEW q \in Seq(S), q # <<>>, ~Corrupt(q)
    PROVE  ~Corrupt(Tail(q)) /\ \A d : On(Tail(q), d) <=> On(q, d) /\ d # Head(q)
<1>1. Len(q) \in Nat /\ Len(q) > 0
  BY LenProperties, EmptySeq
<1>2. Head(q) = q[1] /\ 1 \in 1..Len(q)
  BY <1>1, HeadTailProperties
<1> DEFINE r == Tail(q)
<1>3. r \in Seq(S) /\ Len(r) = Len(q) - 1 /\ \A i \in 1..Len(r) : r[i] = q[i + 1]
  BY HeadTailProperties
<1> HIDE DEF r
<1>4. \A i, j \in 1..Len(q) : q[i] = q[j] => i = j
  BY CorruptList
<1>5. ASSUME NEW i \in 1..Len(r) PROVE i + 1 \in 1..Len(q) /\ i + 1 # 1 /\ r[i] = q[i + 1]
  BY <1>1, <1>3
<1>6. ~Corrupt(r)
  <2> SUFFICES ASSUME NEW i \in 1..Len(r), NEW j \in 1..Len(r), r[i] = r[j] PROVE i = j
    BY <1>3, CorruptList
  <2>1. i + 1 = j + 1
    BY <1>4, <1>5
  <2> QED BY <2>1
<1>7. ASSUME NEW d, On(r, d) PROVE On(q, d) /\ d # Head(q)
  <2>1. PICK i \in 1..Len(r) : r[i] = d
    BY <1>7 DEF On
  <2>2. On(q, d)
    BY <1>5, <2>1 DEF On
  <2>3. d # Head(q)
    BY <1>2, <1>4, <1>5, <2>1
  <2> QED BY <2>2, <2>3
<1>8. ASSUME NEW d, On(q, d), d # Head(q) PROVE On(r, d)
  <2>1. PICK i \in 1..Len(q) : q[i] = d
    BY <1>8 DEF On
  <2> DEFINE k == i - 1
  <2>2. k \in 1..Len(r) /\ k + 1 = i
    BY <1>1, <1>2, <1>3, <1>8, <2>1
  <2> HIDE DEF k
  <2>3. r[k] = d
    BY <1>3, <2>1, <2>2
  <2> QED BY <2>2, <2>3 DEF On
<1> QED BY <1>6, <1>7, <1>8 DEF r

\* A part of a list, by places.
LEMMA PartAt ==
    ASSUME NEW S, NEW q \in Seq(S), NEW m \in Nat \ {0}, NEW n \in Int, n <= Len(q), m <= n + 1
    PROVE  /\ SubSeq(q, m, n) \in Seq(S) /\ Len(SubSeq(q, m, n)) = n - m + 1
           /\ \A i \in 1..(n - m + 1) : SubSeq(q, m, n)[i] = q[m + i - 1]
<1>1. Len(q) \in Nat /\ \A i \in 1..Len(q) : q[i] \in S
  BY LenProperties, ElementOfSeq
<1>2. \A i \in m..n : i \in 1..Len(q)
  BY <1>1
<1> DEFINE r == SubSeq(q, m, n)
<1>3. /\ r \in Seq(S) /\ Len(r) = IF m <= n THEN n - m + 1 ELSE 0
      /\ \A i \in 1..(n - m + 1) : r[i] = q[m + i - 1]
  BY <1>1, <1>2, SubSeqProperties
<1> HIDE DEF r
<1>4. (IF m <= n THEN n - m + 1 ELSE 0) = n - m + 1
  OBVIOUS
<1> QED BY <1>3, <1>4 DEF r

\* RemoveAt, by places.
LEMMA RemovedAt ==
    ASSUME NEW S, NEW q \in Seq(S), NEW i \in 1..Len(q)
    PROVE  /\ RemoveAt(q, i) \in Seq(S) /\ Len(RemoveAt(q, i)) = Len(q) - 1 /\ Len(q) \in Nat
           /\ \A k \in 1..(Len(q) - 1) : RemoveAt(q, i)[k] = IF k < i THEN q[k] ELSE q[k + 1]
<1> DEFINE s == SubSeq(q, 1, i - 1)
           t == SubSeq(q, i + 1, Len(q))
           r == s \o t
<1>1. Len(q) \in Nat /\ i \in Nat /\ 1 <= i /\ i <= Len(q)
  BY LenProperties
<1>2. s \in Seq(S) /\ Len(s) = i - 1 /\ \A k \in 1..(i - 1) : s[k] = q[k]
  <2> DEFINE m == 1
             n == i - 1
  <2>1. m \in Nat \ {0} /\ n \in Int /\ n <= Len(q) /\ m <= n + 1 /\ n - m + 1 = i - 1
    BY <1>1
  <2>2. \A k \in 1..(i - 1) : m + k - 1 = k
    OBVIOUS
  <2> HIDE DEF m, n
  <2>3. /\ SubSeq(q, m, n) \in Seq(S) /\ Len(SubSeq(q, m, n)) = n - m + 1
        /\ \A k \in 1..(n - m + 1) : SubSeq(q, m, n)[k] = q[m + k - 1]
    BY <2>1, PartAt
  <2>4. SubSeq(q, m, n) = s
    BY DEF m, n
  <2> HIDE DEF s
  <2> QED BY <2>1, <2>2, <2>3, <2>4
<1>3. t \in Seq(S) /\ Len(t) = Len(q) - i /\ \A k \in 1..(Len(q) - i) : t[k] = q[i + k]
  <2> DEFINE m == i + 1
             n == Len(q)
  <2>1. m \in Nat \ {0} /\ n \in Int /\ n <= Len(q) /\ m <= n + 1 /\ n - m + 1 = Len(q) - i
    BY <1>1
  <2>2. \A k \in 1..(Len(q) - i) : m + k - 1 = i + k
    BY <1>1
  <2> HIDE DEF m, n
  <2>3. /\ SubSeq(q, m, n) \in Seq(S) /\ Len(SubSeq(q, m, n)) = n - m + 1
        /\ \A k \in 1..(n - m + 1) : SubSeq(q, m, n)[k] = q[m + k - 1]
    BY <2>1, PartAt
  <2>4. SubSeq(q, m, n) = t
    BY DEF m, n
  <2> HIDE DEF t
  <2> QED BY <2>1, <2>2, <2>3, <2>4
<1>4. RemoveAt(q, i) = r
  BY DEF RemoveAt
<1> HIDE DEF s, t
<1>5. /\ r \in Seq(S) /\ Len(r) = Len(s) + Len(t)
      /\ \A k \in 1..(Len(s) + Len(t)) : r[k] = IF k <= Len(s) THEN s[k] ELSE t[k - Len(s)]
  BY <1>2, <1>3, ConcatProperties
<1> HIDE DEF r
<1>6. Len(r) = Len(q) - 1 /\ Len(s) + Len(t) = Len(q) - 1
  BY <1>1, <1>2, <1>3, <1>5
<1>7. ASSUME NEW k \in 1..(Len(q) - 1) PROVE r[k] = IF k < i THEN q[k] ELSE q[k + 1]
  <2>1. CASE k < i
    <3>1. k <= Len(s) /\ k \in 1..(i - 1)
      BY <1>1, <1>2, <2>1
    <3> QED BY <1>2, <1>5, <1>6, <2>1, <3>1
  <2>2. CASE ~(k < i)
    <3> DEFINE j == k - Len(s)
    <3>1. ~(k <= Len(s)) /\ j \in 1..(Len(q) - i) /\ i + j = k + 1
      BY <1>1, <1>2, <2>2
    <3>2. r[k] = t[j]
      BY <1>5, <1>6, <3>1
    <3> HIDE DEF j
    <3> QED BY <1>3, <2>2, <3>1, <3>2
  <2> QED BY <2>1, <2>2
<1> QED BY <1>1, <1>4, <1>5, <1>6, <1>7

\* A list without repetition and without the element at some place.
LEMMA RemovedOnce ==
    ASSUME NEW S, NEW q \in Seq(S), NEW i \in 1..Len(q), ~Corrupt(q)
    PROVE  ~Corrupt(RemoveAt(q, i)) /\ \A d : On(RemoveAt(q, i), d) <=> On(q, d) /\ d # q[i]
<1> DEFINE r == RemoveAt(q, i)
<1>1. /\ r \in Seq(S) /\ Len(r) = Len(q) - 1 /\ Len(q) \in Nat
      /\ \A k \in 1..(Len(q) - 1) : r[k] = IF k < i THEN q[k] ELSE q[k + 1]
  BY RemovedAt
<1> HIDE DEF r
<1>2. \A k, l \in 1..Len(q) : q[k] = q[l] => k = l
  BY CorruptList
<1> DEFINE o(k) == IF k < i THEN k ELSE k + 1
<1>3. ASSUME NEW k \in 1..Len(r) PROVE o(k) \in 1..Len(q) /\ o(k) # i /\ r[k] = q[o(k)]
  BY <1>1
<1>4. ASSUME NEW k \in 1..Len(r), NEW l \in 1..Len(r), o(k) = o(l) PROVE k = l
  BY <1>1, <1>4
<1>5. ASSUME NEW k \in 1..Len(q), k # i PROVE \E l \in 1..Len(r) : o(l) = k
  <2>1. CASE k < i
    <3>1. k \in 1..Len(r) /\ o(k) = k
      BY <1>1, <2>1
    <3> QED BY <3>1
  <2>2. CASE ~(k < i)
    <3>1. k - 1 \in 1..Len(r) /\ o(k - 1) = k
      BY <1>1, <1>5, <2>2
    <3> QED BY <3>1
  <2> QED BY <2>1, <2>2
<1> HIDE DEF o
<1>6. ~Corrupt(r)
  <2> SUFFICES ASSUME NEW k \in 1..Len(r), NEW l \in 1..Len(r), r[k] = r[l] PROVE k = l
    BY <1>1, CorruptList
  <2> QED BY <1>2, <1>3, <1>4
<1>7. ASSUME NEW d, On(r, d) PROVE On(q, d) /\ d # q[i]
  <2>1. PICK k \in 1..Len(r) : r[k] = d
    BY <1>7 DEF On
  <2>2. q[o(k)] = d /\ o(k) \in 1..Len(q) /\ o(k) # i
    BY <1>3, <2>1
  <2> QED BY <1>2, <2>2 DEF On
<1>8. ASSUME NEW d, On(q, d), d # q[i] PROVE On(r, d)
  <2>1. PICK k \in 1..Len(q) : q[k] = d
    BY <1>8 DEF On
  <2>2. k # i
    BY <1>8, <2>1
  <2>3. PICK l \in 1..Len(r) : o(l) = k
    BY <1>5, <2>2
  <2>4. r[l] = d
    BY <1>3, <2>1, <2>3
  <2> QED BY <2>4 DEF On
<1> QED BY <1>6, <1>7, <1>8 DEF r

-----------------------------------------------------------------------------
(* Who is where *)

\* The parts of the invariants that the steps use most.
LEMMA JInvParts ==
    ASSUME IInv, JInv
    PROVE  /\ Sound /\ OneWaiter
           /\ \A c \in Contexts : Placed(c) /\ Agree(c) /\ Calm(c)
           /\ \A p \in RemoteFutures : Sent(p)
           /\ TypeOK /\ Running \in Contexts /\ NULL \notin Futures /\ NULL \notin Contexts
           /\ ready \in Seq(Contexts) /\ blocked \in Seq(Contexts)
           /\ sleep_pqueue \in [Contexts -> Nat] /\ prom \in [Contexts -> Futures \cup {NULL}]
           /\ arg \in [Contexts -> Futures \cup {NULL}]
           /\ call \in [Contexts -> {"process_tasks", "wait", "sleep", "yield"}]
           /\ pc \in [Contexts -> Labels]
           /\ \A c \in Contexts : c # Running <=> pc[c] \in {"unused", "suspended"}
           /\ MaxTime \in Nat /\ Past = -1 /\ Forever = MaxTime + 1 /\ now \in 0..MaxTime
           /\ RemoteFutures \subseteq Futures /\ LocalFutures \subseteq Futures
<1>1. /\ TypeOK /\ Running \in Contexts /\ NULL \notin Futures /\ NULL \notin Contexts /\ OneRuns
      /\ MaxTime \in Nat /\ Past = -1 /\ Forever = MaxTime + 1 /\ now \in 0..MaxTime
      /\ RemoteFutures \subseteq Futures /\ LocalFutures \subseteq Futures
  BY IInvParts
<1>2. /\ Sound /\ OneWaiter
      /\ \A c \in Contexts : Placed(c) /\ Agree(c) /\ Calm(c)
      /\ \A p \in RemoteFutures : Sent(p)
  BY DEF JInv
<1>3. /\ ready \in Seq(Contexts) /\ blocked \in Seq(Contexts)
      /\ sleep_pqueue \in [Contexts -> Nat] /\ prom \in [Contexts -> Futures \cup {NULL}]
      /\ arg \in [Contexts -> Futures \cup {NULL}]
      /\ call \in [Contexts -> {"process_tasks", "wait", "sleep", "yield"}]
      /\ pc \in [Contexts -> Labels]
  BY <1>1 DEF TypeOK
<1>4. \A c \in Contexts : c # Running <=> pc[c] \in {"unused", "suspended"}
  BY <1>1 DEF OneRuns
<1> QED BY <1>1, <1>2, <1>3, <1>4

\* A context on the blocked list is inside wait().
LEMMA OnBlocked ==
    ASSUME IInv, JInv, NEW c \in Contexts, On(blocked, c)
    PROVE  /\ Blocked(c) /\ call[c] = "wait" /\ (Leaving(c) \/ pc[c] = "suspended")
           /\ arg[c] \in Futures /\ prom[c] = arg[c]
           /\ m_blocked_thread[arg[c]] /\ m_error[arg[c]] = "none"
<1>1. Placed(c) /\ Agree(c) /\ call[c] \in {"process_tasks", "wait", "sleep", "yield"}
  BY JInvParts
<1>2. Blocked(c) /\ call[c] = "wait" /\ (Leaving(c) \/ pc[c] = "suspended")
  BY <1>1 DEF Placed, Nowhere, InReady, Asleep, Late
<1> QED BY <1>1, <1>2 DEF Agree, Blocked

\* A context in the heap sleeps, or waits with a deadline.
LEMMA InHeap ==
    ASSUME IInv, JInv, NEW c \in Contexts, sleep_pqueue[c] > 0
    PROVE  \/ Asleep(c) /\ call[c] = "sleep" /\ (Leaving(c) \/ pc[c] = "suspended")
           \/ Blocked(c) /\ timeout[c] # Forever
<1>1. Placed(c) /\ call[c] \in {"process_tasks", "wait", "sleep", "yield"} /\ ~(sleep_pqueue[c] = 0)
  BY JInvParts
<1> QED BY <1>1 DEF Placed, Nowhere, InReady, Asleep, Blocked, Late

\* No other context is blocked on the promise of one that is.
LEMMA BlockedOnce ==
    ASSUME IInv, JInv, NEW x \in Contexts, NEW d \in Contexts, On(blocked, x), On(blocked, d), prom[d] = prom[x]
    PROVE  d = x
<1>1. prom[d] = arg[d] /\ prom[x] = arg[x] /\ arg[x] \in Futures /\ NULL \notin Futures /\ OneWaiter
  BY OnBlocked, JInvParts
<1> QED BY <1>1 DEF OneWaiter

\* The context x leaves the blocked list and the heap, and is ready.
Moved(x) ==
    /\ ready' = <<x>> \o ready
    /\ ~Corrupt(ready') /\ ~Corrupt(blocked')
    /\ \A d \in Contexts : On(ready', d) <=> On(ready, d) \/ d = x
    /\ \A d \in Contexts : On(blocked', d) <=> On(blocked, d) /\ d # x
    /\ \A d \in Contexts : d # x => sleep_pqueue'[d] = sleep_pqueue[d] /\ prom'[d] = prom[d]
    /\ sleep_pqueue'[x] = 0

\* The lists and the heap stay as they are.
Still == UNCHANGED <<ready, blocked, sleep_pqueue, prom>>

\* thread::notify moves the context that is blocked on the promise ...
LEMMA NotifyMoves ==
    ASSUME IInv, JInv, NEW p, NEW x \in Contexts, On(blocked, x), prom[x] = p,
           NEW sleepers \in [Contexts -> Nat], sleepers[x] <= sleep_pqueue[x],
           \A d \in Contexts : d # x => sleepers[d] = sleep_pqueue[d],
           Notify(p, sleepers)
    PROVE  Moved(x)
<1>0. /\ ready \in Seq(Contexts) /\ blocked \in Seq(Contexts) /\ Sound
      /\ prom \in [Contexts -> Futures \cup {NULL}] /\ sleep_pqueue \in [Contexts -> Nat]
      /\ NULL \notin Futures
  BY JInvParts
<1>1. Blocked(x) /\ p \in Futures /\ ~On(ready, x)
  BY OnBlocked DEF Blocked
<1>2. \A d \in Contexts : On(blocked, d) /\ prom[d] = p => d = x
  BY BlockedOnce
<1> DEFINE hits == {i \in DOMAIN blocked : try_unblock(blocked[i], p)}
<1>3. DOMAIN blocked = 1..Len(blocked) /\ Len(blocked) \in Nat /\ \A i \in 1..Len(blocked) : blocked[i] \in Contexts
  BY <1>0, LenProperties, ElementOfSeq
<1>4. hits # {} /\ hits \subseteq Nat /\ \A i \in hits : i \in 1..Len(blocked) /\ blocked[i] = x
  BY <1>2, <1>3 DEF On, try_unblock
<1>5. ready' = <<blocked[Min(hits)]>> \o ready /\ blocked' = RemoveAt(blocked, Min(hits))
  BY <1>4 DEF Notify, ready_push_front
<1> HIDE DEF hits
<1>6. PICK i \in 1..Len(blocked) : i = Min(hits) /\ blocked[i] = x
  BY <1>4, LeastNat
<1>7. ready' = <<x>> \o ready /\ blocked' = RemoveAt(blocked, i)
  BY <1>5, <1>6
<1>8. ~Corrupt(ready') /\ \A d : On(ready', d) <=> On(ready, d) \/ d = x
  BY <1>0, <1>1, <1>7, OnPushed, PushedOnce DEF Sound
<1>9. ~Corrupt(blocked') /\ \A d : On(blocked', d) <=> On(blocked, d) /\ d # x
  BY <1>0, <1>6, <1>7, RemovedOnce DEF Sound
<1>10. /\ \A d \in Contexts : d # x => sleep_pqueue'[d] = sleep_pqueue[d] /\ prom'[d] = prom[d]
       /\ sleep_pqueue'[x] = 0
  <2>1. sleepers[x] \in {0, 1}
    BY <1>0, <1>1 DEF Blocked
  <2>2. \A y \in TimedWaiters(p, sleepers) : y = x /\ sleepers[x] > 0
    <3> SUFFICES ASSUME NEW y \in Contexts, sleepers[y] > 0, prom[y] = p, y # x PROVE FALSE
      BY DEF TimedWaiters
    <3>1. sleep_pqueue[y] > 0
      OBVIOUS
    <3>2. On(blocked, y)
      BY <1>0, <1>1, <3>1, InHeap DEF Asleep, Blocked
    <3> QED BY <1>2, <3>2
  <2>3. CASE TimedWaiters(p, sleepers) = {} /\ sleep_pqueue' = sleepers /\ UNCHANGED prom
    <3>1. ~(sleepers[x] > 0)
      BY <2>3 DEF TimedWaiters
    <3>2. sleepers[x] = 0
      BY <2>1, <3>1
    <3> QED BY <2>3, <3>2
  <2>4. ASSUME NEW y \in TimedWaiters(p, sleepers), sleep_pqueue' = [sleepers EXCEPT ![y] = @ - 1],
               prom' = [prom EXCEPT ![y] = NULL]
        PROVE  <1>10
    <3>1. y = x /\ sleepers[x] = 1
      BY <2>1, <2>2, <2>4
    <3>2. sleep_pqueue'[x] = sleepers[x] - 1
      BY <2>4, <3>1
    <3>3. sleep_pqueue'[x] = 0
      BY <3>1, <3>2
    <3> QED BY <1>0, <2>4, <3>1, <3>3
  <2> QED BY <2>3, <2>4 DEF Notify
<1> QED BY <1>7, <1>8, <1>9, <1>10 DEF Moved

\* ... and does nothing when no context is.
LEMMA NotifyNobody ==
    ASSUME IInv, JInv, NEW p \in Futures, \A d \in Contexts : On(blocked, d) => prom[d] # p,
           Notify(p, sleep_pqueue)
    PROVE  Still
<1>0. blocked \in Seq(Contexts) /\ NULL \notin Futures
  BY JInvParts
<1> DEFINE hits == {i \in DOMAIN blocked : try_unblock(blocked[i], p)}
<1>1. DOMAIN blocked = 1..Len(blocked) /\ \A i \in 1..Len(blocked) : blocked[i] \in Contexts
  BY <1>0, LenProperties, ElementOfSeq
<1>2. hits = {}
  BY <1>1 DEF On, try_unblock
<1>3. UNCHANGED <<ready, blocked>>
  BY <1>2 DEF Notify
<1>4. TimedWaiters(p, sleep_pqueue) = {}
  <2> SUFFICES ASSUME NEW y \in Contexts, sleep_pqueue[y] > 0, prom[y] = p PROVE FALSE
    BY DEF TimedWaiters
  <2>1. On(blocked, y)
    BY <1>0, InHeap DEF Asleep, Blocked
  <2> QED BY <2>1
<1>5. UNCHANGED <<sleep_pqueue, prom>>
  BY <1>4 DEF Notify
<1> QED BY <1>3, <1>5 DEF Still

\* The context that is blocked on p, if there is one, is made ready.
Delivered(p) ==
    \/ \E x \in Contexts : On(blocked, x) /\ prom[x] = p /\ Moved(x)
    \/ (\A d \in Contexts : On(blocked, d) => prom[d] # p) /\ Still

\* thread::notify delivers.
LEMMA NotifyDelivers ==
    ASSUME IInv, JInv, NEW p \in Futures, Notify(p, sleep_pqueue) PROVE Delivered(p)
<1>1. CASE \A d \in Contexts : On(blocked, d) => prom[d] # p
  BY <1>1, NotifyNobody DEF Delivered
<1>2. ASSUME NEW x \in Contexts, On(blocked, x), prom[x] = p PROVE Delivered(p)
  <2> DEFINE s == sleep_pqueue
  <2>1. /\ s \in [Contexts -> Nat] /\ s[x] <= sleep_pqueue[x] /\ Notify(p, s)
        /\ \A d \in Contexts : d # x => s[d] = sleep_pqueue[d]
    BY JInvParts
  <2> HIDE DEF s
  <2>2. Moved(x)
    BY <1>2, <2>1, NotifyMoves
  <2> QED BY <1>2, <2>2 DEF Delivered
<1> QED BY <1>1, <1>2

\* So does promise_base::notify, though it looks for a thread to notify first.
LEMMA NotifyPromiseDelivers ==
    ASSUME IInv, JInv, NEW p \in Futures, NotifyPromise(p, sleep_pqueue) PROVE Delivered(p)
<1>1. CASE m_blocked_thread[p]
  <2>1. Notify(p, sleep_pqueue)
    BY <1>1 DEF NotifyPromise
  <2> QED BY <2>1, NotifyDelivers
<1>2. CASE ~m_blocked_thread[p]
  <2>1. Still
    BY <1>2 DEF NotifyPromise, Still
  <2>2. \A d \in Contexts : On(blocked, d) => prom[d] # p
    BY <1>2, OnBlocked
  <2> QED BY <2>1, <2>2 DEF Delivered
<1> QED BY <1>1, <1>2

-----------------------------------------------------------------------------
(* What a step leaves alone *)

\* The fields of a context and the locals of its calls stay as they are.
SameContext(d) ==
    /\ pc'[d] = pc[d] /\ then'[d] = then[d] /\ call'[d] = call[d]
    /\ arg'[d] = arg[d] /\ timeout'[d] = timeout[d]
    /\ prom'[d] = prom[d] /\ resume_time'[d] = resume_time[d] /\ canceled'[d] = canceled[d]

\* So does its place.
SamePlace(d) ==
    /\ On(ready', d) <=> On(ready, d)
    /\ On(blocked', d) <=> On(blocked, d)
    /\ sleep_pqueue'[d] = sleep_pqueue[d]

\* What the promise of a context that is not running may do.
SamePromise(d) ==
    LET p == arg[d]
        come == p \in RemoteFutures /\ (remote'[p] = "notify" \/ stage'[p] = "posted")
    IN p \in Futures =>
         /\ m_blocked_thread[p] => m_blocked_thread'[p]
         /\ On(blocked, d) => /\ m_error'[p] = m_error[p]
                              /\ m_value'[p] /\ (m_value[p] => Coming(p)) => come
         /\ Ready(p) /\ ~On(blocked, d) =>
                        /\ m_value'[p] \/ m_error'[p] # "none"
                        /\ m_error'[p] = "timeout" => m_error[p] = "timeout"

\* A context that does not run and that nobody wakes keeps its part of the invariant.
LEMMA OtherSame ==
    ASSUME IInv, JInv, NEW d \in Contexts, d # Running, SameContext(d), SamePlace(d), SamePromise(d),
           now' \in Nat, now <= now'
    PROVE  Placed(d)' /\ Agree(d)' /\ Calm(d)'
<1>0. /\ Placed(d) /\ Agree(d) /\ Calm(d) /\ pc[d] \in {"unused", "suspended"} /\ now \in Nat
      /\ timeout[d] \in Int /\ MaxTime \in Nat
  BY JInvParts DEF TypeOK, Times, Past, Forever
<1>1. ~Leaving(d) /\ ~Leaving(d)'
  BY <1>0 DEF SameContext, Leaving
<1>2. Placed(d)'
  BY <1>0, <1>1 DEF Placed, SameContext, SamePlace, Nowhere, InReady, Asleep, Blocked, Forever
<1>3. Agree(d)'
  <2> DEFINE p == arg[d]
  <2>1. p = arg'[d] /\ (On(blocked', d) <=> On(blocked, d)) /\ pc'[d] # "wait" /\ pc'[d] # "wait_result"
        /\ timeout'[d] = timeout[d]
    BY <1>0 DEF SameContext, SamePlace
  <2>2. Answered(d)' <=> Answered(d)
    BY <1>1 DEF SameContext, SamePlace, Answered
  <2>3. ASSUME On(blocked, d)
        PROVE  p \in Futures /\ m_blocked_thread'[p] /\ m_error'[p] = "none" /\ (m_value'[p] => Coming(p)')
    <3>1. p \in Futures /\ m_blocked_thread[p] /\ m_error[p] = "none" /\ (m_value[p] => Coming(p))
      BY <1>0, <2>3 DEF Agree
    <3> QED BY <2>1, <2>3, <3>1 DEF SamePromise, Coming
  <2>4. ASSUME Answered(d)
        PROVE  /\ p \in Futures /\ (m_value'[p] \/ m_error'[p] # "none")
               /\ m_error'[p] = "timeout" => timeout[d] <= now'
    <3>1. p \in Futures /\ Ready(p) /\ (m_error[p] = "timeout" => timeout[d] <= now)
      BY <1>0, <2>4 DEF Agree
    <3>2. ~On(blocked, d)
      BY <1>0, <1>1, <2>4 DEF Answered, Placed, Blocked, InReady
    <3>3. /\ m_value'[p] \/ m_error'[p] # "none"
          /\ m_error'[p] = "timeout" => m_error[p] = "timeout"
      BY <3>1, <3>2 DEF SamePromise
    <3>4. timeout[d] <= now => timeout[d] <= now'
      BY <1>0
    <3> QED BY <3>1, <3>3, <3>4
  <2> HIDE DEF p
  <2>5. Ready(p)' <=> (m_value'[p] \/ m_error'[p] # "none")
    BY <2>1 DEF Ready, p
  <2> QED BY <2>1, <2>2, <2>3, <2>4, <2>5 DEF Agree, Ready, Coming, p
<1>4. Calm(d)'
  BY <1>0, <1>1 DEF Calm, SameContext
<1> QED BY <1>2, <1>3, <1>4

\* The parts of the invariant after a step of the running context c.
LEMMA StepJ ==
    ASSUME IInv, JInv, NEW c \in Contexts, c = Running, Sound', OneWaiter', now' = now,
           Placed(c)', Agree(c)', Calm(c)',
           \A p \in RemoteFutures : Sent(p)',
           \A d \in Contexts : d # c => SameContext(d) /\ SamePlace(d) /\ SamePromise(d)
    PROVE  JInv'
<1>1. now' \in Nat /\ now <= now'
  BY JInvParts
<1>2. ASSUME NEW d \in Contexts, d # c PROVE Placed(d)' /\ Agree(d)' /\ Calm(d)'
  BY <1>1, <1>2, OtherSame
<1> QED BY <1>2 DEF JInv

\* A step of c that keeps the lists, the promises and who waits for them.
QuietStep(c) ==
    /\ c = Running
    /\ UNCHANGED <<now, fault, ready, blocked, sleep_pqueue, prom, canceled, arg, timeout,
                   m_value, m_error, m_blocked_thread, remote>>
    /\ \A d \in Contexts : d # c => /\ pc'[d] = pc[d] /\ then'[d] = then[d] /\ call'[d] = call[d]
                                    /\ resume_time'[d] = resume_time[d]
    /\ \A p \in RemoteFutures : stage'[p] = stage[p]

\* Such a step keeps the invariant if c keeps its part.
LEMMA QuietJ ==
    ASSUME IInv, JInv, NEW c \in Contexts, QuietStep(c), Placed(c)', Agree(c)', Calm(c)'
    PROVE  JInv'
<1>1. Sound' /\ OneWaiter'
  BY JInvParts DEF Sound, OneWaiter, QuietStep, Corrupt
<1>2. \A p \in RemoteFutures : Sent(p)'
  BY JInvParts DEF Sent, QuietStep
<1>3. ASSUME NEW d \in Contexts, d # c PROVE SameContext(d) /\ SamePlace(d) /\ SamePromise(d)
  <2>1. SameContext(d) /\ SamePlace(d)
    BY <1>3 DEF QuietStep, SameContext, SamePlace
  <2>2. SamePromise(d)
    BY DEF QuietStep, SamePromise, Coming, Ready
  <2> QED BY <2>1, <2>2
<1>4. c = Running /\ now' = now
  BY DEF QuietStep
<1> QED BY <1>1, <1>2, <1>3, <1>4, StepJ

\* Where a context is that only goes on with its work.
Plain(c) == /\ pc[c] \notin {"wait", "wait_result", "resumed", "suspended", "quit"}
            /\ ~Leaving(c)

\* A step of c that goes on with its work.
LEMMA PlainJ ==
    ASSUME IInv, JInv, NEW c \in Contexts, QuietStep(c), pc[c] # "suspended", ~Leaving(c), Plain(c)'
    PROVE  JInv'
<1>0. Placed(c) /\ Agree(c) /\ Calm(c)
  BY JInvParts
<1>1. Nowhere(c) /\ Nowhere(c)'
  BY <1>0 DEF Placed, QuietStep, Nowhere
<1>2. Placed(c)'
  BY <1>1 DEF Placed, Plain
<1>3. Agree(c)'
  BY <1>1 DEF Agree, Plain, Answered, Nowhere
<1>4. Calm(c)'
  BY <1>0 DEF Calm, Plain, QuietStep
<1> QED BY <1>2, <1>3, <1>4, QuietJ

\* A step of c into start_next_task() that leaves it on no list.
LEMMA LeaveJ ==
    ASSUME IInv, JInv, NEW c \in Contexts, QuietStep(c), pc[c] # "suspended", ~Leaving(c),
           pc'[c] = "check", then'[c] = "switch", call'[c] \in {"process_tasks", "yield"},
           call'[c] = "process_tasks" => ready # <<>>
    PROVE  JInv'
<1>0. Placed(c) /\ Agree(c) /\ Calm(c)
  BY JInvParts
<1>1. Nowhere(c) /\ Nowhere(c)' /\ Leaving(c)'
  BY <1>0 DEF Placed, QuietStep, Nowhere, Leaving
<1>2. Placed(c)'
  BY <1>1 DEF Placed
<1>3. Agree(c)'
  BY <1>1 DEF Agree, Answered, Nowhere
<1>4. Calm(c)'
  BY <1>0 DEF Calm, QuietStep
<1> QED BY <1>2, <1>3, <1>4, QuietJ

-----------------------------------------------------------------------------
(* Steps that keep the lists *)
\* process_tasks starts.
LEMMA LoopBeginJ == ASSUME IInv, JInv, NEW c \in Contexts, LoopBegin(c) PROVE JInv'
<1> USE DEF listVars, queueVars, ctxVars, promVars, postVars, taskVars
<1>0. /\ pc \in [Contexts -> Labels] /\ then \in [Contexts -> {"top", "after_run", "switch"}]
      /\ call \in [Contexts -> {"process_tasks", "wait", "sleep", "yield"}]
  BY IInvParts DEF TypeOK
<1>1. QuietStep(c)
  BY <1>0 DEF LoopBegin, At, Goto, QuietStep
<1>2. pc[c] # "suspended" /\ ~Leaving(c) /\ Plain(c)'
  BY <1>0 DEF LoopBegin, At, Goto, Plain, Leaving
<1> QED BY <1>1, <1>2, PlainJ

\* while( !done ).
LEMMA LoopTopJ == ASSUME IInv, JInv, NEW c \in Contexts, LoopTop(c) PROVE JInv'
<1> USE DEF listVars, queueVars, ctxVars, promVars, postVars, taskVars
<1>0. /\ pc \in [Contexts -> Labels] /\ then \in [Contexts -> {"top", "after_run", "switch"}]
      /\ call \in [Contexts -> {"process_tasks", "wait", "sleep", "yield"}]
  BY IInvParts DEF TypeOK
<1>1. QuietStep(c)
  BY <1>0 DEF LoopTop, At, Goto, QuietStep, CheckForTimeouts
<1>2. pc[c] # "suspended" /\ ~Leaving(c) /\ Plain(c)'
  BY <1>0 DEF LoopTop, At, Goto, Plain, Leaving, CheckForTimeouts
<1> QED BY <1>1, <1>2, PlainJ

\* block_wait waits or finds a task.
LEMMA LoopBlockWaitJ == ASSUME IInv, JInv, NEW c \in Contexts, LoopBlockWait(c) PROVE JInv'
<1> USE DEF listVars, queueVars, ctxVars, promVars, postVars, taskVars
<1>0. /\ pc \in [Contexts -> Labels] /\ then \in [Contexts -> {"top", "after_run", "switch"}]
      /\ call \in [Contexts -> {"process_tasks", "wait", "sleep", "yield"}]
  BY IInvParts DEF TypeOK
<1>1. QuietStep(c)
  BY <1>0 DEF LoopBlockWait, At, Goto, QuietStep
<1>2. pc[c] # "suspended" /\ ~Leaving(c) /\ Plain(c)'
  BY <1>0 DEF LoopBlockWait, At, Goto, Plain, Leaving
<1> QED BY <1>1, <1>2, PlainJ

\* timed_wait() returns at its time.
LEMMA LoopTimedOutJ == ASSUME IInv, JInv, NEW c \in Contexts, LoopTimedOut(c) PROVE JInv'
<1> USE DEF listVars, queueVars, ctxVars, promVars, postVars, taskVars
<1>0. /\ pc \in [Contexts -> Labels] /\ then \in [Contexts -> {"top", "after_run", "switch"}]
      /\ call \in [Contexts -> {"process_tasks", "wait", "sleep", "yield"}]
  BY IInvParts DEF TypeOK
<1>1. QuietStep(c)
  BY <1>0 DEF LoopTimedOut, At, Goto, QuietStep
<1>2. pc[c] # "suspended" /\ ~Leaving(c) /\ Plain(c)'
  BY <1>0 DEF LoopTimedOut, At, Goto, Plain, Leaving
<1> QED BY <1>1, <1>2, PlainJ

\* The condition variable wakes the loop for no reason.
LEMMA LoopSpuriousWakeJ == ASSUME IInv, JInv, NEW c \in Contexts, LoopSpuriousWake(c) PROVE JInv'
<1> USE DEF listVars, queueVars, ctxVars, promVars, postVars, taskVars
<1>0. /\ pc \in [Contexts -> Labels] /\ then \in [Contexts -> {"top", "after_run", "switch"}]
      /\ call \in [Contexts -> {"process_tasks", "wait", "sleep", "yield"}]
  BY IInvParts DEF TypeOK
<1>1. QuietStep(c)
  BY <1>0 DEF LoopSpuriousWake, At, Goto, QuietStep
<1>2. pc[c] # "suspended" /\ ~Leaving(c) /\ Plain(c)'
  BY <1>0 DEF LoopSpuriousWake, At, Goto, Plain, Leaving
<1> QED BY <1>1, <1>2, PlainJ

\* start_next_task() returns to the loop.
LEMMA ResumeLoopJ == ASSUME IInv, JInv, NEW c \in Contexts, ResumeLoop(c) PROVE JInv'
<1> USE DEF listVars, queueVars, ctxVars, promVars, postVars, taskVars
<1>0. /\ pc \in [Contexts -> Labels] /\ then \in [Contexts -> {"top", "after_run", "switch"}]
      /\ call \in [Contexts -> {"process_tasks", "wait", "sleep", "yield"}]
  BY IInvParts DEF TypeOK
<1>1. QuietStep(c)
  BY <1>0 DEF ResumeLoop, At, Goto, QuietStep
<1>2. pc[c] # "suspended" /\ ~Leaving(c) /\ Plain(c)'
  BY <1>0 DEF ResumeLoop, At, Goto, Plain, Leaving
<1> QED BY <1>1, <1>2, PlainJ

\* A loop without a task: it goes round, leaves, waits, or resumes a ready context.
LEMMA LoopIdleJ == ASSUME IInv, JInv, NEW c \in Contexts, LoopIdle(c) PROVE JInv'
<1> USE DEF listVars, queueVars, ctxVars, promVars, postVars, taskVars
<1>0. /\ pc \in [Contexts -> Labels] /\ then \in [Contexts -> {"top", "after_run", "switch"}]
      /\ call \in [Contexts -> {"process_tasks", "wait", "sleep", "yield"}]
  BY IInvParts DEF TypeOK
<1>1. QuietStep(c) /\ pc[c] = "idle"
  BY <1>0 DEF LoopIdle, At, Goto, QuietStep, StartNextTask, CheckForTimeouts
<1>2. pc[c] # "suspended" /\ ~Leaving(c)
  BY <1>1 DEF Leaving
<1>3. CASE ready # <<>> /\ StartNextTask(c, "process_tasks")
  <2>1. pc'[c] = "check" /\ then'[c] = "switch" /\ call'[c] = "process_tasks"
    BY <1>0, <1>3 DEF StartNextTask, CheckForTimeouts, Goto
  <2> QED BY <1>1, <1>2, <1>3, <2>1, LeaveJ
<1>4. ASSUME NEW l \in {"exited", "top", "block_wait"}, Goto(c, l) PROVE JInv'
  <2>1. Plain(c)'
    BY <1>0, <1>4 DEF Goto, Plain, Leaving
  <2> QED BY <1>1, <1>2, <2>1, PlainJ
<1>5. Goto(c, "exited") \/ Goto(c, "top") \/ Goto(c, "block_wait")
      \/ (ready # <<>> /\ StartNextTask(c, "process_tasks"))
  BY DEF LoopIdle
<1> QED BY <1>3, <1>4, <1>5

\* check_for_timeouts() returns.
LEMMA CheckDoneJ == ASSUME IInv, JInv, NEW c \in Contexts, CheckDone(c) PROVE JInv'
<1> USE DEF listVars, queueVars, ctxVars, promVars, postVars, taskVars
<1>0. /\ pc \in [Contexts -> Labels] /\ then \in [Contexts -> {"top", "after_run", "switch"}]
      /\ Placed(c) /\ Agree(c) /\ Calm(c)
  BY JInvParts DEF TypeOK
<1>1. /\ pc[c] \in {"check", "expire"} /\ c = Running
      /\ UNCHANGED <<now, fault, ready, blocked, sleep_pqueue, prom, resume_time, canceled, arg, timeout,
                     then, call, m_value, m_error, m_blocked_thread, remote, stage>>
  BY DEF CheckDone, At
<1>2. ASSUME NEW l \in {"idle", "run"}, Goto(c, l), then[c] # "switch" PROVE JInv'
  <2>1. QuietStep(c)
    BY <1>0, <1>1, <1>2 DEF Goto, QuietStep
  <2>2. pc[c] # "suspended" /\ ~Leaving(c) /\ Plain(c)'
    BY <1>0, <1>1, <1>2 DEF Goto, Plain, Leaving
  <2> QED BY <2>1, <2>2, PlainJ
<1>3. CASE then[c] = "switch" /\ Goto(c, "switch")
  <2>1. QuietStep(c)
    BY <1>0, <1>1, <1>3 DEF Goto, QuietStep
  <2>2. Leaving(c) /\ Leaving(c)' /\ pc'[c] = "switch"
    BY <1>0, <1>1, <1>3 DEF Goto, Leaving
  <2>3. Placed(c)'
    BY <1>0, <1>1, <2>2 DEF Placed, Nowhere, InReady, Asleep, Blocked, Late, Forever
  <2>4. Agree(c)'
    <3>1. /\ Answered(c)' => Answered(c)
          /\ pc[c] = "wait" \/ On(blocked, c) <=> (pc[c] = "wait" \/ On(blocked, c))'
      BY <1>1, <2>2 DEF Answered
    <3> QED BY <1>0, <1>1, <2>2, <3>1 DEF Agree, Coming, Ready
  <2>5. Calm(c)'
    BY <1>0, <1>1, <2>2 DEF Calm
  <2> QED BY <2>1, <2>3, <2>4, <2>5, QuietJ
<1>4. \/ then[c] # "switch" /\ \E l \in {"idle", "run"} : Goto(c, l)
      \/ then[c] = "switch" /\ Goto(c, "switch")
  BY <1>0 DEF CheckDone
<1> QED BY <1>2, <1>3, <1>4

\* yield() or sleep_until() returns.
LEMMA ResumeYieldOrSleepJ == ASSUME IInv, JInv, NEW c \in Contexts, ResumeYieldOrSleep(c) PROVE JInv'
<1> USE DEF listVars, queueVars, ctxVars, promVars, postVars, taskVars
<1>0. /\ pc \in [Contexts -> Labels] /\ resume_time \in [Contexts -> Times]
  BY IInvParts DEF TypeOK
<1>1. QuietStep(c)
  BY <1>0 DEF ResumeYieldOrSleep, At, Goto, QuietStep
<1>2. pc[c] # "suspended" /\ ~Leaving(c) /\ Plain(c)'
  BY <1>0 DEF ResumeYieldOrSleep, At, Goto, Plain, Leaving
<1> QED BY <1>1, <1>2, PlainJ

\* rtask::run calls the functor.
LEMMA RunFunctorJ == ASSUME IInv, JInv, NEW c \in Contexts, RunFunctor(c) PROVE JInv'
<1> USE DEF listVars, queueVars, ctxVars, promVars, postVars, taskVars
<1>0. pc \in [Contexts -> Labels] /\ stage \in [Futures -> {"new", "posted", "running", "ended"}]
  BY IInvParts DEF TypeOK
<1>1. next[c] \in LocalFutures /\ stage' = [stage EXCEPT ![next[c]] = "running"]
  BY DEF RunFunctor
<1>2. \A p \in RemoteFutures : stage'[p] = stage[p]
  BY <1>0, <1>1, FutureAssumption DEF Futures
<1>3. QuietStep(c)
  BY <1>0, <1>2 DEF RunFunctor, At, Goto, QuietStep
<1>4. pc[c] # "suspended" /\ ~Leaving(c) /\ Plain(c)'
  BY <1>0 DEF RunFunctor, At, Goto, Plain, Leaving
<1> QED BY <1>3, <1>4, PlainJ

\* A post changes the stage of a task that was new.
LEMMA PostStage ==
    ASSUME IInv, NEW f \in Futures, NEW w, Post(f, w)
    PROVE  /\ stage[f] = "new" /\ stage'[f] = "posted"
           /\ \A p \in Futures : p # f => stage'[p] = stage[p]
<1>0. stage \in [Futures -> {"new", "posted", "running", "ended"}]
  BY IInvParts DEF TypeOK
<1> QED BY <1>0 DEF Post

\* async() or schedule() on the current thread.
LEMMA UserPostJ == ASSUME IInv, JInv, NEW c \in Contexts, UserAsync(c) \/ UserSchedule(c) PROVE JInv'
<1> USE DEF listVars, queueVars, ctxVars, promVars, postVars, taskVars
<1>1. /\ pc[c] = "user" /\ c = Running
      /\ UNCHANGED <<now, fault, listVars, prom, ctxVars, pc, promVars, remote>>
  BY DEF UserAsync, UserSchedule, User, At
<1>2. PICK f \in LocalFutures : \E w \in Int : Post(f, w)
  <2>1. CASE UserAsync(c)
    <3>1. PICK f \in LocalFutures : Post(f, Past)
      BY <2>1 DEF UserAsync
    <3>2. Past \in Int
      BY DEF Past
    <3> QED BY <3>1, <3>2
  <2>2. CASE UserSchedule(c)
    <3>1. PICK f \in LocalFutures, d \in Delays : Post(f, now + d)
      BY <2>2 DEF UserSchedule
    <3>2. now + d \in Int
      BY IInvParts
    <3> QED BY <3>1, <3>2
  <2> QED BY <2>1, <2>2
<1>3. \A p \in RemoteFutures : stage'[p] = stage[p]
  BY <1>2, PostStage, FutureAssumption DEF Futures
<1>4. QuietStep(c)
  BY <1>1, <1>3 DEF QuietStep
<1>5. pc[c] # "suspended" /\ ~Leaving(c) /\ Plain(c)'
  BY <1>1 DEF Plain, Leaving
<1> QED BY <1>4, <1>5, PlainJ

\* yield().
LEMMA UserYieldJ == ASSUME IInv, JInv, NEW c \in Contexts, UserYield(c) PROVE JInv'
<1> USE DEF listVars, queueVars, ctxVars, promVars, postVars, taskVars
<1>0. /\ pc \in [Contexts -> Labels] /\ then \in [Contexts -> {"top", "after_run", "switch"}]
      /\ call \in [Contexts -> {"process_tasks", "wait", "sleep", "yield"}]
  BY IInvParts DEF TypeOK
<1>1. QuietStep(c) /\ pc[c] = "user"
  BY <1>0 DEF UserYield, User, At, Goto, QuietStep, StartNextTask, CheckForTimeouts
<1>2. pc'[c] = "check" /\ then'[c] = "switch" /\ call'[c] = "yield" /\ ~Leaving(c)
  BY <1>0, <1>1 DEF UserYield, StartNextTask, CheckForTimeouts, Goto, Leaving
<1> QED BY <1>1, <1>2, LeaveJ

-----------------------------------------------------------------------------
(* wait() and sleep_until() *)

\* A step of c that keeps the lists and whose promise, if it changes one, is not that
\* of another context.
LEMMA WaitStepJ ==
    ASSUME IInv, JInv, NEW c \in Contexts, c = Running,
           UNCHANGED <<now, fault, ready, blocked, sleep_pqueue, canceled, m_value, remote, stage,
                       then, call, resume_time>>,
           \A d \in Contexts : d # c => pc'[d] = pc[d] /\ arg'[d] = arg[d] /\ timeout'[d] = timeout[d]
                                        /\ prom'[d] = prom[d],
           \A p \in Futures : m_blocked_thread[p] => m_blocked_thread'[p],
           \A d \in Contexts : d # c /\ arg[d] \in Futures => m_error'[arg[d]] = m_error[arg[d]],
           Placed(c)', Agree(c)', Calm(c)', OneWaiter'
    PROVE  JInv'
<1>1. Sound'
  BY JInvParts DEF Sound, Corrupt
<1>2. \A p \in RemoteFutures : Sent(p)'
  BY JInvParts DEF Sent
<1>3. ASSUME NEW d \in Contexts, d # c PROVE SameContext(d) /\ SamePlace(d) /\ SamePromise(d)
  <2>1. SameContext(d) /\ SamePlace(d)
    BY <1>3 DEF SameContext, SamePlace
  <2>2. SamePromise(d)
    BY <1>3 DEF SamePromise, Coming, Ready
  <2> QED BY <2>1, <2>2
<1> QED BY <1>1, <1>2, <1>3, StepJ

\* thread::wait returns after its block: the context is not canceled.
LEMMA ResumeWaitJ == ASSUME IInv, JInv, NEW c \in Contexts, ResumeWait(c) PROVE JInv'
<1> USE DEF listVars, queueVars, ctxVars, promVars, postVars, taskVars
<1>0. /\ pc \in [Contexts -> Labels] /\ prom \in [Contexts -> Futures \cup {NULL}]
      /\ Placed(c) /\ Agree(c) /\ Calm(c) /\ OneWaiter
  BY JInvParts
<1>1. /\ c = Running /\ pc[c] = "resumed" /\ call[c] = "wait"
      /\ prom' = [prom EXCEPT ![c] = NULL] /\ pc' = [pc EXCEPT ![c] = "wait_result"]
      /\ UNCHANGED <<now, fault, ready, blocked, sleep_pqueue, canceled, m_value, m_error, m_blocked_thread,
                     remote, stage, then, call, arg, timeout, resume_time>>
  BY <1>0 DEF ResumeWait, At, Goto, Calm
<1>2. pc'[c] = "wait_result" /\ \A d \in Contexts : d # c => pc'[d] = pc[d] /\ prom'[d] = prom[d]
  BY <1>0, <1>1
<1>3. Nowhere(c) /\ Nowhere(c)' /\ ~Leaving(c)'
  BY <1>0, <1>1, <1>2 DEF Placed, Nowhere, Leaving
<1>4. Placed(c)'
  BY <1>2, <1>3 DEF Placed
<1>5. Agree(c)'
  BY <1>0, <1>1, <1>2, <1>3 DEF Agree, Answered, Nowhere, Ready
<1>6. Calm(c)'
  BY <1>0, <1>1, <1>2, <1>3 DEF Calm
<1>7. OneWaiter'
  BY <1>0, <1>1 DEF OneWaiter
<1> QED BY <1>1, <1>2, <1>4, <1>5, <1>6, <1>7, WaitStepJ

\* thread::wait finds the promise set, or the deadline passed.
LEMMA ThreadWaitReturnsJ == ASSUME IInv, JInv, NEW c \in Contexts, ThreadWaitReturns(c) PROVE JInv'
<1> USE DEF listVars, queueVars, ctxVars, promVars, postVars, taskVars
<1>0. /\ pc \in [Contexts -> Labels] /\ timeout \in [Contexts -> Times] /\ arg \in [Contexts -> Futures \cup {NULL}]
      /\ NULL \notin Futures /\ Placed(c) /\ Agree(c) /\ Calm(c) /\ OneWaiter
  BY JInvParts DEF TypeOK
<1>1. /\ c = Running /\ pc[c] = "wait"
      /\ UNCHANGED <<now, fault, ready, blocked, sleep_pqueue, canceled, m_value, m_error, m_blocked_thread,
                     remote, stage, then, call, prom, resume_time>>
  BY DEF ThreadWaitReturns, At
<1>2. Nowhere(c) /\ Nowhere(c)'
  BY <1>0, <1>1 DEF Placed, Nowhere, Leaving
<1>3. CASE Ready(arg[c]) /\ Goto(c, "wait_result") /\ UNCHANGED <<arg, timeout>>
  <2>1. pc'[c] = "wait_result" /\ \A d \in Contexts : d # c => pc'[d] = pc[d]
    BY <1>0, <1>3 DEF Goto
  <2>2. Placed(c)'
    BY <1>2, <2>1 DEF Placed, Leaving
  <2>3. Agree(c)'
    BY <1>0, <1>1, <1>2, <1>3, <2>1 DEF Agree, Answered, Nowhere, Ready
  <2>4. Calm(c)'
    BY <1>0, <1>1, <2>1 DEF Calm, Leaving
  <2>5. OneWaiter'
    BY <1>0, <1>3 DEF OneWaiter
  <2> QED BY <1>1, <1>3, <2>1, <2>2, <2>3, <2>4, <2>5, WaitStepJ
<1>4. CASE /\ Goto(c, "user") /\ arg' = [arg EXCEPT ![c] = NULL]
           /\ timeout' = [timeout EXCEPT ![c] = Forever]
  <2>1. /\ pc'[c] = "user" /\ arg'[c] = NULL
        /\ \A d \in Contexts : d # c => pc'[d] = pc[d] /\ arg'[d] = arg[d] /\ timeout'[d] = timeout[d]
    BY <1>0, <1>4 DEF Goto
  <2>2. Placed(c)'
    BY <1>2, <2>1 DEF Placed, Leaving
  <2>3. Agree(c)'
    BY <1>2, <2>1 DEF Agree, Answered, Nowhere, Leaving
  <2>4. Calm(c)'
    BY <1>0, <1>1, <2>1 DEF Calm, Leaving
  <2>5. OneWaiter'
    BY <1>0, <2>1 DEF OneWaiter
  <2> QED BY <1>1, <2>1, <2>2, <2>3, <2>4, <2>5, WaitStepJ
<1> QED BY <1>3, <1>4 DEF ThreadWaitReturns

\* promise::wait returns or throws: it clears the error of its own promise.
LEMMA WaitResultJ == ASSUME IInv, JInv, NEW c \in Contexts, WaitResult(c) PROVE JInv'
<1> USE DEF listVars, queueVars, ctxVars, promVars, postVars, taskVars
<1>0. /\ pc \in [Contexts -> Labels] /\ timeout \in [Contexts -> Times] /\ arg \in [Contexts -> Futures \cup {NULL}]
      /\ m_error \in [Futures -> Errors] /\ NULL \notin Futures
      /\ Placed(c) /\ Agree(c) /\ Calm(c) /\ OneWaiter
  BY JInvParts DEF TypeOK, Errors
<1>1. /\ c = Running /\ pc[c] = "wait_result" /\ pc' = [pc EXCEPT ![c] = "user"]
      /\ m_error' = [m_error EXCEPT ![arg[c]] = "none"] /\ arg' = [arg EXCEPT ![c] = NULL]
      /\ timeout' = [timeout EXCEPT ![c] = Forever]
      /\ UNCHANGED <<now, fault, ready, blocked, sleep_pqueue, canceled, m_value, m_blocked_thread,
                     remote, stage, then, call, prom, resume_time>>
  BY DEF WaitResult, At, Goto
<1>2. /\ pc'[c] = "user" /\ arg'[c] = NULL
      /\ \A d \in Contexts : d # c => pc'[d] = pc[d] /\ arg'[d] = arg[d] /\ timeout'[d] = timeout[d]
  BY <1>0, <1>1
<1>3. arg[c] \in Futures
  BY <1>0, <1>1 DEF Agree, Answered
<1>4. ASSUME NEW d \in Contexts, d # c, arg[d] \in Futures PROVE m_error'[arg[d]] = m_error[arg[d]]
  <2>1. arg[d] # arg[c]
    BY <1>0, <1>3, <1>4 DEF OneWaiter
  <2> QED BY <1>0, <1>1, <1>4, <2>1
<1>5. Nowhere(c) /\ Nowhere(c)' /\ ~Leaving(c)'
  BY <1>0, <1>1, <1>2 DEF Placed, Nowhere, Leaving
<1>6. Placed(c)'
  BY <1>2, <1>5 DEF Placed
<1>7. Agree(c)'
  BY <1>2, <1>5 DEF Agree, Answered, Nowhere
<1>8. Calm(c)'
  BY <1>0, <1>1, <1>2, <1>5 DEF Calm
<1>9. OneWaiter'
  BY <1>0, <1>2 DEF OneWaiter
<1> QED BY <1>1, <1>2, <1>4, <1>6, <1>7, <1>8, <1>9, WaitStepJ

\* promise::wait: the promise has no other waiter.
LEMMA PromiseWaitJ ==
    ASSUME Orderly, IInv, JInv, NEW c \in Contexts, c = Running, pc[c] = "user", NEW p \in Futures,
           NEW deadline \in Times, PromiseWait(c, p, deadline),
           UNCHANGED <<now, fault, ready, blocked, sleep_pqueue, canceled, m_value, m_error, remote, stage,
                       then, call, prom, resume_time>>
    PROVE  JInv'
<1>0. /\ pc \in [Contexts -> Labels] /\ timeout \in [Contexts -> Times] /\ arg \in [Contexts -> Futures \cup {NULL}]
      /\ m_blocked_thread \in [Futures -> BOOLEAN] /\ NULL \notin Futures
      /\ Placed(c) /\ Agree(c) /\ Calm(c) /\ OneWaiter
  BY JInvParts DEF TypeOK
<1>1. Nowhere(c) /\ Nowhere(c)'
  BY <1>0 DEF Placed, Nowhere, Leaving
<1>2. CASE UNCHANGED <<m_blocked_thread, arg, timeout, pc>>
  <2>1. QuietStep(c)
    BY <1>2 DEF QuietStep
  <2>2. pc[c] # "suspended" /\ ~Leaving(c) /\ Plain(c)'
    BY <1>2 DEF Plain, Leaving
  <2> QED BY <2>1, <2>2, PlainJ
<1>3. CASE /\ ~Ready(p) /\ m_blocked_thread' = [m_blocked_thread EXCEPT ![p] = TRUE]
           /\ arg' = [arg EXCEPT ![c] = p] /\ timeout' = [timeout EXCEPT ![c] = deadline]
           /\ pc' = [pc EXCEPT ![c] = "wait"]
  <2>1. /\ pc'[c] = "wait" /\ arg'[c] = p /\ timeout'[c] = deadline /\ m_blocked_thread'[p]
        /\ \A d \in Contexts : d # c => pc'[d] = pc[d] /\ arg'[d] = arg[d] /\ timeout'[d] = timeout[d]
        /\ \A r \in Futures : m_blocked_thread[r] => m_blocked_thread'[r]
    BY <1>0, <1>3
  <2>2. \A x \in Contexts : arg[x] # p
    <3> DEFINE W == {x \in Contexts : arg[x] = p}
    <3>1. W \subseteq Contexts /\ IsFiniteSet(Contexts)
      BY ContextAssumption
    <3>2. IsFiniteSet(W)
      BY <3>1, FS_Subset
    <3>3. Cardinality(W) < MaxWaiters /\ MaxWaiters \in Nat /\ MaxWaiters <= 1
      BY BoundAssumption DEF PromiseWait, Orderly
    <3> HIDE DEF W
    <3>4. Cardinality(W) \in Nat /\ (Cardinality(W) = 0 <=> W = {})
      BY <3>2, FS_CardinalityType, FS_EmptySet
    <3>5. Cardinality(W) = 0
      BY <3>3, <3>4
    <3> QED BY <3>4, <3>5 DEF W
  <2>3. OneWaiter'
    BY <1>0, <2>1, <2>2 DEF OneWaiter
  <2>4. Placed(c)'
    BY <1>1, <2>1 DEF Placed, Leaving
  <2>5. Agree(c)'
    BY <1>1, <1>3, <2>1 DEF Agree, Answered, Nowhere, Ready
  <2>6. Calm(c)'
    BY <1>0, <2>1 DEF Calm, Leaving
  <2> QED BY <2>1, <2>3, <2>4, <2>5, <2>6, WaitStepJ
<1> QED BY <1>2, <1>3 DEF PromiseWait, enqueue_thread, Goto

\* wait() with and without a deadline.
LEMMA UserWaitJ == ASSUME Orderly, IInv, JInv, NEW c \in Contexts, UserWait(c) \/ UserTimedWait(c) PROVE JInv'
<1> USE DEF listVars, queueVars, ctxVars, promVars, postVars, taskVars
<1>0. now \in 0..MaxTime /\ MaxTime \in Nat /\ Forever = MaxTime + 1 /\ Past = -1
  BY JInvParts
<1>1. /\ c = Running /\ pc[c] = "user"
      /\ UNCHANGED <<now, fault, ready, blocked, sleep_pqueue, canceled, m_value, m_error, remote, stage,
                     then, call, prom, resume_time>>
  BY DEF UserWait, UserTimedWait, User, At
<1>2. CASE UserWait(c)
  <2>1. PICK p \in Futures : PromiseWait(c, p, Forever)
    BY <1>2 DEF UserWait
  <2>2. Forever \in Times
    BY <1>0 DEF Times
  <2> QED BY <1>1, <2>1, <2>2, PromiseWaitJ
<1>3. CASE UserTimedWait(c)
  <2>1. PICK p \in Futures, d \in Delays : now + d <= MaxTime /\ PromiseWait(c, p, now + d)
    BY <1>3 DEF UserTimedWait
  <2> DEFINE w == now + d
  <2>2. d \in Nat
    BY DelayAssumption
  <2>3. w \in Times
    BY <1>0, <2>1, <2>2 DEF Times
  <2> HIDE DEF w
  <2>4. PromiseWait(c, p, w)
    BY <2>1 DEF w
  <2> QED BY <1>1, <2>3, <2>4, PromiseWaitJ
<1> QED BY <1>2, <1>3

\* thread::wait blocks: the context is on the blocked list, and in the heap if it has a
\* deadline.
LEMMA ThreadWaitBlocksJ == ASSUME IInv, JInv, NEW c \in Contexts, ThreadWaitBlocks(c) PROVE JInv'
<1> USE DEF listVars, queueVars, ctxVars, promVars, postVars, taskVars
<1>0. /\ pc \in [Contexts -> Labels] /\ then \in [Contexts -> {"top", "after_run", "switch"}]
      /\ call \in [Contexts -> {"process_tasks", "wait", "sleep", "yield"}]
      /\ timeout \in [Contexts -> Times] /\ arg \in [Contexts -> Futures \cup {NULL}]
      /\ prom \in [Contexts -> Futures \cup {NULL}] /\ resume_time \in [Contexts -> Times]
      /\ sleep_pqueue \in [Contexts -> Nat] /\ NULL \notin Futures /\ blocked \in Seq(Contexts)
      /\ Placed(c) /\ Agree(c) /\ Calm(c) /\ OneWaiter /\ Sound
  BY JInvParts DEF TypeOK
<1>1. /\ c = Running /\ pc[c] = "wait" /\ ~Ready(arg[c])
      /\ prom' = [prom EXCEPT ![c] = arg[c]] /\ blocked' = <<c>> \o blocked
      /\ pc' = [pc EXCEPT ![c] = "check"] /\ then' = [then EXCEPT ![c] = "switch"]
      /\ call' = [call EXCEPT ![c] = "wait"]
      /\ UNCHANGED <<now, fault, ready, canceled, arg, timeout, m_value, m_error, m_blocked_thread, remote, stage>>
  BY DEF ThreadWaitBlocks, At, StartNextTask, CheckForTimeouts, Goto
<1>2. /\ pc'[c] = "check" /\ then'[c] = "switch" /\ call'[c] = "wait" /\ prom'[c] = arg[c]
      /\ \A d \in Contexts : d # c => pc'[d] = pc[d] /\ then'[d] = then[d] /\ call'[d] = call[d] /\ prom'[d] = prom[d]
  BY <1>0, <1>1
<1>3. Nowhere(c) /\ arg[c] \in Futures
  BY <1>0, <1>1 DEF Placed, Leaving, Agree
<1>4. /\ \/ timeout[c] = Forever /\ sleep_pqueue'[c] = 0
         \/ timeout[c] # Forever /\ sleep_pqueue'[c] = 1 /\ resume_time'[c] = timeout[c]
      /\ \A d \in Contexts : d # c => resume_time'[d] = resume_time[d] /\ sleep_pqueue'[d] = sleep_pqueue[d]
  <2>1. CASE timeout[c] = Forever /\ UNCHANGED <<resume_time, sleep_pqueue>>
    BY <1>3, <2>1 DEF Nowhere
  <2>2. CASE /\ timeout[c] # Forever /\ resume_time' = [resume_time EXCEPT ![c] = timeout[c]]
             /\ sleep_pqueue' = [sleep_pqueue EXCEPT ![c] = @ + 1]
    BY <1>0, <1>3, <2>2 DEF Nowhere
  <2> QED BY <2>1, <2>2 DEF ThreadWaitBlocks
<1>5. ~Corrupt(blocked') /\ \A d : On(blocked', d) <=> On(blocked, d) \/ d = c
  BY <1>0, <1>1, <1>3, OnPushed, PushedOnce DEF Sound, Nowhere
<1>6. Leaving(c)' /\ Blocked(c)'
  BY <1>0, <1>1, <1>2, <1>3, <1>4, <1>5 DEF Leaving, Blocked, Nowhere, Forever
<1>7. Placed(c)'
  BY <1>1, <1>2, <1>3, <1>6 DEF Placed, Leaving
<1>8. Agree(c)'
  BY <1>0, <1>1, <1>2, <1>3 DEF Agree, Answered, Ready, Nowhere
<1>9. Calm(c)'
  BY <1>0, <1>1, <1>2 DEF Calm
<1>10. Sound' /\ OneWaiter'
  BY <1>0, <1>1, <1>5 DEF Sound, OneWaiter, Corrupt
<1>11. \A p \in RemoteFutures : Sent(p)'
  BY <1>1, JInvParts DEF Sent
<1>12. ASSUME NEW d \in Contexts, d # c PROVE SameContext(d) /\ SamePlace(d) /\ SamePromise(d)
  <2>1. SameContext(d) /\ SamePlace(d)
    BY <1>1, <1>2, <1>4, <1>5, <1>12 DEF SameContext, SamePlace
  <2>2. SamePromise(d)
    BY <1>1 DEF SamePromise, Coming, Ready
  <2> QED BY <2>1, <2>2
<1> QED BY <1>1, <1>7, <1>8, <1>9, <1>10, <1>11, <1>12, StepJ

\* sleep_until: the context is in the heap.
LEMMA UserSleepJ == ASSUME IInv, JInv, NEW c \in Contexts, UserSleep(c) PROVE JInv'
<1> USE DEF listVars, queueVars, ctxVars, promVars, postVars, taskVars
<1>0. /\ pc \in [Contexts -> Labels] /\ then \in [Contexts -> {"top", "after_run", "switch"}]
      /\ call \in [Contexts -> {"process_tasks", "wait", "sleep", "yield"}]
      /\ prom \in [Contexts -> Futures \cup {NULL}] /\ resume_time \in [Contexts -> Times]
      /\ sleep_pqueue \in [Contexts -> Nat] /\ now \in Nat
      /\ Placed(c) /\ Agree(c) /\ Calm(c) /\ OneWaiter /\ Sound
  BY JInvParts DEF TypeOK
<1>1. /\ c = Running /\ pc[c] = "user"
      /\ prom' = [prom EXCEPT ![c] = NULL] /\ sleep_pqueue' = [sleep_pqueue EXCEPT ![c] = @ + 1]
      /\ pc' = [pc EXCEPT ![c] = "check"] /\ then' = [then EXCEPT ![c] = "switch"]
      /\ call' = [call EXCEPT ![c] = "sleep"]
      /\ UNCHANGED <<now, fault, ready, blocked, canceled, arg, timeout, m_value, m_error, m_blocked_thread,
                     remote, stage>>
  BY DEF UserSleep, User, At, StartNextTask, CheckForTimeouts, Goto
<1>2. PICK w \in Int : resume_time' = [resume_time EXCEPT ![c] = w]
  <2>1. PICK e \in Delays : resume_time' = [resume_time EXCEPT ![c] = now + e]
    BY DEF UserSleep
  <2>2. now + e \in Int
    BY <1>0, DelayAssumption
  <2> QED BY <2>1, <2>2
<1>3. /\ pc'[c] = "check" /\ then'[c] = "switch" /\ call'[c] = "sleep" /\ prom'[c] = NULL /\ resume_time'[c] = w
      /\ \A d \in Contexts : d # c => pc'[d] = pc[d] /\ then'[d] = then[d] /\ call'[d] = call[d]
                                      /\ prom'[d] = prom[d] /\ resume_time'[d] = resume_time[d]
  BY <1>0, <1>1, <1>2
<1>4. Nowhere(c)
  BY <1>0, <1>1 DEF Placed, Leaving
<1>5. sleep_pqueue'[c] = 1 /\ \A d \in Contexts : d # c => sleep_pqueue'[d] = sleep_pqueue[d]
  BY <1>0, <1>1, <1>4 DEF Nowhere
<1>6. Leaving(c)' /\ Asleep(c)'
  BY <1>1, <1>3, <1>4, <1>5 DEF Leaving, Asleep, Nowhere
<1>7. Placed(c)'
  BY <1>1, <1>3, <1>6 DEF Placed, Leaving
<1>8. Agree(c)'
  BY <1>3, <1>6 DEF Agree, Answered, Asleep
<1>9. Calm(c)'
  BY <1>0, <1>1, <1>3 DEF Calm
<1>10. Sound' /\ OneWaiter'
  BY <1>0, <1>1 DEF Sound, OneWaiter, Corrupt
<1>11. \A p \in RemoteFutures : Sent(p)'
  BY <1>1, JInvParts DEF Sent
<1>12. ASSUME NEW d \in Contexts, d # c PROVE SameContext(d) /\ SamePlace(d) /\ SamePromise(d)
  <2>1. SameContext(d) /\ SamePlace(d)
    BY <1>1, <1>3, <1>5, <1>12 DEF SameContext, SamePlace
  <2>2. SamePromise(d)
    BY <1>1 DEF SamePromise, Coming, Ready
  <2> QED BY <2>1, <2>2
<1> QED BY <1>1, <1>7, <1>8, <1>9, <1>10, <1>11, <1>12, StepJ

-----------------------------------------------------------------------------
(* Wakeups *)

\* A list with an element is not empty.
LEMMA OnSome == ASSUME NEW q, NEW x, On(q, x) PROVE q # <<>>
BY DEF On

\* The context that a step made ready finds an answer in its promise; only its own look
\* for expired sleepers finds the running context.
LEMMA MovedSame ==
    ASSUME IInv, JInv, NEW x \in Contexts, On(blocked, x), Moved(x),
           \/ pc[x] = "suspended" /\ pc'[x] = pc[x]
           \/ Leaving(x)' /\ resume_time'[x] <= now',
           call'[x] = call[x], arg'[x] = arg[x],
           timeout'[x] = timeout[x], canceled'[x] = canceled[x],
           m_value'[arg[x]] \/ m_error'[arg[x]] # "none",
           m_error'[arg[x]] = "timeout" => timeout[x] <= now'
    PROVE  Placed(x)' /\ Agree(x)' /\ Calm(x)'
<1>1. /\ Placed(x) /\ Agree(x) /\ Calm(x)
      /\ call[x] = "wait" /\ arg[x] \in Futures
  BY JInvParts, OnBlocked
<1>2. pc'[x] \in {"suspended", "check", "expire", "switch"} /\ (pc'[x] = "suspended" => ~Leaving(x)')
  BY DEF Leaving
<1>3. On(ready', x) /\ ~On(blocked', x) /\ sleep_pqueue'[x] = 0
  BY DEF Moved
<1>4. InReady(x)' /\ (pc'[x] # "suspended" => Leaving(x)' /\ Late(x)')
  BY <1>3 DEF InReady, Late, Leaving
<1>5. Placed(x)'
  BY <1>1, <1>2, <1>4 DEF Placed
<1>6. Agree(x)'
  BY <1>1, <1>2, <1>3 DEF Agree, Answered, Ready
<1>7. Calm(x)'
  BY <1>1, <1>2 DEF Calm
<1> QED BY <1>5, <1>6, <1>7

\* A step of c that wakes the context x, another one or c itself, by the promise p.
LEMMA MoveJ ==
    ASSUME IInv, JInv, NEW c \in Contexts, c = Running, NEW x \in Contexts, NEW p,
           On(blocked, x), p = arg[x], Moved(x),
           UNCHANGED <<now, fault, arg, timeout, resume_time, canceled, m_blocked_thread, remote>>,
           \A d \in Contexts : d # c => pc'[d] = pc[d] /\ then'[d] = then[d] /\ call'[d] = call[d],
           \A q \in Futures : q # p => m_value'[q] = m_value[q] /\ m_error'[q] = m_error[q] /\ stage'[q] = stage[q],
           m_value'[p] \/ m_error'[p] # "none",
           m_error'[p] = "timeout" => timeout[x] <= now,
           x # c => Placed(c)' /\ Agree(c)' /\ Calm(c)',
           x = c => Leaving(c)' /\ call'[c] = call[c] /\ resume_time[c] <= now,
           \A r \in RemoteFutures : Sent(r)'
    PROVE  JInv'
<1>0. OneWaiter /\ Sound /\ p \in Futures /\ NULL \notin Futures /\ now \in Nat
  BY JInvParts, OnBlocked
<1>1. Sound' /\ OneWaiter'
  BY <1>0 DEF Sound, OneWaiter, Moved
<1>2. Placed(x)' /\ Agree(x)' /\ Calm(x)'
  <2>1. /\ arg'[x] = arg[x] /\ timeout'[x] = timeout[x] /\ canceled'[x] = canceled[x] /\ now' = now
        /\ resume_time'[x] = resume_time[x]
    OBVIOUS
  <2>2. call'[x] = call[x] /\ ((pc[x] = "suspended" /\ pc'[x] = pc[x]) \/ (Leaving(x)' /\ resume_time'[x] <= now'))
    <3>1. CASE x = c
      BY <2>1, <3>1
    <3>2. CASE x # c
      BY <3>2, JInvParts, OnBlocked DEF Leaving
    <3> QED BY <3>1, <3>2
  <2> QED BY <2>1, <2>2, MovedSame
<1>3. ASSUME NEW d \in Contexts, d # c, d # x PROVE Placed(d)' /\ Agree(d)' /\ Calm(d)'
  <2>1. SameContext(d) /\ SamePlace(d)
    BY <1>3 DEF SameContext, SamePlace, Moved
  <2>2. arg[d] \in Futures => arg[d] # p
    BY <1>0, <1>3 DEF OneWaiter
  <2>3. SamePromise(d)
    BY <2>2 DEF SamePromise, Coming, Ready
  <2>4. now' \in Nat /\ now <= now'
    BY <1>0
  <2> QED BY <1>3, <2>1, <2>3, <2>4, OtherSame
<1> QED BY <1>1, <1>2, <1>3 DEF JInv

\* The end of a task that set the promise t, or told this thread of it.
LEMMA EndTaskJ ==
    ASSUME IInv, JInv, NEW c \in Contexts, c = Running, NEW t \in Futures, t = next[c],
           pc[c] \in {"run", "user"}, Delivered(t), EndTask(c, t),
           UNCHANGED <<now, fault, arg, timeout, resume_time, canceled, call, m_blocked_thread, remote>>,
           \A q \in Futures : q # t => m_value'[q] = m_value[q] /\ m_error'[q] = m_error[q],
           m_value'[t] \/ m_error'[t] # "none",
           m_value[t] => m_value'[t],
           m_error'[t] = "timeout" => m_error[t] = "timeout"
    PROVE  JInv'
<1>0. /\ pc \in [Contexts -> Labels] /\ then \in [Contexts -> {"top", "after_run", "switch"}]
      /\ stage \in [Futures -> {"new", "posted", "running", "ended"}]
      /\ Placed(c) /\ Agree(c) /\ Calm(c) /\ OneWaiter /\ Sound /\ Hand(c) /\ NULL \notin Futures
      /\ RemoteFutures \subseteq Futures
  BY JInvParts, IInvParts DEF TypeOK
<1>1. /\ pc'[c] = "check" /\ then'[c] = "after_run"
      /\ \A d \in Contexts : d # c => pc'[d] = pc[d] /\ then'[d] = then[d]
      /\ stage'[t] = "ended" /\ \A q \in Futures : q # t => stage'[q] = stage[q]
  BY <1>0 DEF EndTask, CheckForTimeouts, Goto
<1>2. stage[t] # "new"
  BY <1>0 DEF Hand, InTask
<1>3. ASSUME NEW r \in RemoteFutures PROVE Sent(r)'
  <2>0. Sent(r) /\ r \in Futures
    BY <1>0, JInvParts
  <2>1. CASE r = t
    <3>1. m_value[t]
      BY <1>2, <2>0, <2>1 DEF Sent
    <3>2. m_value'[r]
      BY <2>1, <3>1
    <3> QED BY <3>2 DEF Sent
  <2>2. CASE r # t
    <3>1. m_value'[r] = m_value[r] /\ stage'[r] = stage[r]
      BY <1>1, <2>0, <2>2
    <3> QED BY <2>0, <3>1 DEF Sent
  <2> QED BY <2>1, <2>2
<1>4. Nowhere(c) /\ ~Leaving(c)'
  BY <1>0, <1>1 DEF Placed, Leaving
<1>5. ASSUME Nowhere(c)' PROVE Placed(c)' /\ Agree(c)' /\ Calm(c)'
  <2>1. Placed(c)'
    BY <1>1, <1>4, <1>5 DEF Placed
  <2>2. Agree(c)'
    BY <1>1, <1>5 DEF Agree, Answered, Nowhere
  <2>3. Calm(c)'
    BY <1>0, <1>1, <1>4 DEF Calm
  <2> QED BY <2>1, <2>2, <2>3
<1>6. ASSUME NEW x \in Contexts, On(blocked, x), prom[x] = t, Moved(x) PROVE JInv'
  <2>1. x # c /\ arg[x] = t /\ m_error[t] = "none"
    BY <1>4, <1>6, OnBlocked DEF Nowhere
  <2>2. Nowhere(c)'
    BY <1>4, <1>6, <2>1 DEF Nowhere, Moved
  <2>3. Placed(c)' /\ Agree(c)' /\ Calm(c)'
    BY <1>5, <2>2
  <2>4. /\ \A d \in Contexts : d # c => pc'[d] = pc[d] /\ then'[d] = then[d] /\ call'[d] = call[d]
        /\ \A q \in Futures : q # t => m_value'[q] = m_value[q] /\ m_error'[q] = m_error[q] /\ stage'[q] = stage[q]
        /\ m_error'[t] = "timeout" => timeout[x] <= now
    BY <1>1, <2>1
  <2> QED BY <1>3, <1>6, <2>1, <2>3, <2>4, MoveJ
<1>7. ASSUME \A d \in Contexts : On(blocked, d) => prom[d] # t, Still PROVE JInv'
  <2>1. Nowhere(c)'
    BY <1>4, <1>7 DEF Nowhere, Still
  <2>2. Placed(c)' /\ Agree(c)' /\ Calm(c)'
    BY <1>5, <2>1
  <2>3. Sound' /\ OneWaiter'
    BY <1>0, <1>7 DEF Sound, OneWaiter, Still, Corrupt
  <2>4. ASSUME NEW d \in Contexts, d # c PROVE SameContext(d) /\ SamePlace(d) /\ SamePromise(d)
    <3>1. SameContext(d) /\ SamePlace(d)
      BY <1>1, <1>7, <2>4 DEF SameContext, SamePlace, Still
    <3>2. On(blocked, d) => arg[d] # t
      BY <1>7, OnBlocked
    <3>3. SamePromise(d)
      BY <1>1, <3>2 DEF SamePromise, Coming, Ready
    <3> QED BY <3>1, <3>3
  <2> QED BY <1>3, <2>2, <2>3, <2>4, StepJ
<1> QED BY <1>6, <1>7 DEF Delivered

\* The functor returns, or throws, or the task was canceled.
LEMMA UserReturnJ == ASSUME IInv, JInv, NEW c \in Contexts, UserReturn(c) PROVE JInv'
<1> USE DEF listVars, queueVars, promVars, postVars
<1>0. /\ Hand(c) /\ next \in [Contexts -> Futures \cup {NULL}] /\ m_value \in [Futures -> BOOLEAN]
  BY IInvParts DEF TypeOK
<1>1. PICK t : t = next[c]
  OBVIOUS
<1>2. /\ c = Running /\ pc[c] = "user" /\ t \in Futures /\ EndTask(c, t) /\ set_value(t)
      /\ UNCHANGED <<now, fault, arg, timeout, resume_time, canceled, call, remote>>
  BY <1>0, <1>1 DEF UserReturn, At, Hand, InTask
<1>3. CASE m_error[t] # "none"
  <2>1. UNCHANGED <<m_value, m_error, m_blocked_thread>> /\ Still
    BY <1>2, <1>3 DEF set_value, Still
  <2>2. \A d \in Contexts : On(blocked, d) => prom[d] # t
    BY <1>3, OnBlocked
  <2>3. Delivered(t)
    BY <2>1, <2>2 DEF Delivered
  <2> QED BY <1>1, <1>2, <1>3, <2>1, <2>3, EndTaskJ
<1>4. CASE m_error[t] = "none"
  <2>1. /\ m_value' = [m_value EXCEPT ![t] = TRUE] /\ NotifyPromise(t, sleep_pqueue)
        /\ UNCHANGED <<m_error, m_blocked_thread>>
    BY <1>2, <1>4 DEF set_value
  <2>2. Delivered(t)
    BY <1>2, <2>1, NotifyPromiseDelivers
  <2>3. m_value'[t] /\ \A q \in Futures : q # t => m_value'[q] = m_value[q] /\ m_error'[q] = m_error[q]
    BY <1>0, <1>2, <2>1
  <2> QED BY <1>1, <1>2, <2>1, <2>2, <2>3, EndTaskJ
<1> QED BY <1>3, <1>4

\* A task ends with an error of its own.
LEMMA FailJ ==
    ASSUME IInv, JInv, NEW c \in Contexts, NEW e \in {"task", "canceled"}, c = Running,
           pc[c] \in {"run", "user"}, next[c] \in Futures,
           set_exception(next[c], e, sleep_pqueue), EndTask(c, next[c]),
           UNCHANGED <<now, fault, arg, timeout, resume_time, canceled, call, remote>>
    PROVE  JInv'
<1>0. m_error \in [Futures -> Errors]
  BY IInvParts DEF TypeOK, Errors
<1>1. PICK t \in Futures : t = next[c]
  OBVIOUS
<1>2. /\ m_error' = [m_error EXCEPT ![t] = e] /\ NotifyPromise(t, sleep_pqueue)
      /\ UNCHANGED <<m_value, m_blocked_thread>> /\ EndTask(c, t)
  BY <1>1 DEF set_exception
<1>3. Delivered(t)
  BY <1>2, NotifyPromiseDelivers
<1>4. m_error'[t] = e /\ e # "none" /\ e # "timeout" /\ \A q \in Futures : q # t => m_error'[q] = m_error[q]
  BY <1>0, <1>2
<1> QED BY <1>1, <1>2, <1>3, <1>4, EndTaskJ

\* The functor throws.
LEMMA UserThrowJ == ASSUME IInv, JInv, NEW c \in Contexts, UserThrow(c) PROVE JInv'
<1> USE DEF listVars, queueVars, promVars, postVars
<1>0. Hand(c) /\ next \in [Contexts -> Futures \cup {NULL}]
  BY IInvParts DEF TypeOK
<1> DEFINE e == "task"
<1>1. /\ c = Running /\ pc[c] \in {"run", "user"} /\ next[c] \in Futures /\ EndTask(c, next[c])
      /\ set_exception(next[c], e, sleep_pqueue) /\ e \in {"task", "canceled"}
      /\ UNCHANGED <<now, fault, arg, timeout, resume_time, canceled, call, remote>>
  BY <1>0 DEF UserThrow, At, Hand, InTask
<1> HIDE DEF e
<1> QED BY <1>1, FailJ

\* rtask::run of a task that was canceled.
LEMMA RunCanceledJ == ASSUME IInv, JInv, NEW c \in Contexts, RunCanceled(c) PROVE JInv'
<1> USE DEF listVars, queueVars, promVars, postVars
<1> DEFINE e == "canceled"
<1>1. /\ c = Running /\ pc[c] \in {"run", "user"} /\ next[c] \in Futures /\ EndTask(c, next[c])
      /\ set_exception(next[c], e, sleep_pqueue) /\ e \in {"task", "canceled"}
      /\ UNCHANGED <<now, fault, arg, timeout, resume_time, canceled, call, remote>>
  BY DEF RunCanceled, At, Futures
<1> HIDE DEF e
<1> QED BY <1>1, FailJ

\* thread::notify runs as a task.
LEMMA RunNotifyJ == ASSUME IInv, JInv, NEW c \in Contexts, RunNotify(c) PROVE JInv'
<1> USE DEF listVars, queueVars, promVars, postVars
<1>1. PICK t : t = next[c]
  OBVIOUS
<1>2. /\ c = Running /\ pc[c] = "run" /\ t \in Futures /\ EndTask(c, t) /\ Notify(t, sleep_pqueue) /\ Ready(t)
      /\ UNCHANGED <<now, fault, arg, timeout, resume_time, canceled, call, remote, m_value, m_error, m_blocked_thread>>
  BY <1>1 DEF RunNotify, At, Futures
<1>3. Delivered(t)
  BY <1>2, NotifyDelivers
<1> QED BY <1>1, <1>2, <1>3, EndTaskJ DEF Ready

-----------------------------------------------------------------------------
(* Timeouts *)

\* What is known of a sleeper whose time has come.
LEMMA ExpiredSleeper ==
    ASSUME IInv, JInv, NEW x \in Expired
    PROVE  /\ x \in Contexts /\ sleep_pqueue[x] > 0 /\ resume_time[x] <= now
           /\ resume_time[x] \in Int /\ sleep_pqueue[x] \in Nat
<1>0. resume_time \in [Contexts -> Times] /\ MaxTime \in Nat /\ sleep_pqueue \in [Contexts -> Nat]
  BY JInvParts DEF TypeOK
<1>1. x \in Contexts /\ sleep_pqueue[x] > 0 /\ resume_time[x] <= now
  BY DEF Expired, SleepFront, Sleepers
<1>2. resume_time[x] \in Int /\ sleep_pqueue[x] \in Nat
  BY <1>0, <1>1 DEF Times, Past, Forever
<1> QED BY <1>1, <1>2

\* The part of the context that looks, if its place and its promise stay as they are.
LEMMA CheckerSame ==
    ASSUME IInv, JInv, NEW c \in Contexts, pc[c] \in {"check", "expire"}, pc'[c] = "expire",
           then'[c] = then[c], call'[c] = call[c], arg'[c] = arg[c], timeout'[c] = timeout[c],
           prom'[c] = prom[c], resume_time'[c] = resume_time[c], canceled'[c] = canceled[c], now' = now,
           SamePlace(c), SamePromise(c), ready' # <<>>
    PROVE  Placed(c)' /\ Agree(c)' /\ Calm(c)'
<1>0. Placed(c) /\ Agree(c) /\ Calm(c)
  BY JInvParts
<1>1. Leaving(c)' <=> Leaving(c)
  BY DEF Leaving
<1>2. Placed(c)'
  BY <1>0, <1>1 DEF Placed, SamePlace, Nowhere, InReady, Asleep, Blocked, Late, Forever
<1>3. Answered(c)' <=> Answered(c)
  BY <1>1 DEF Answered, SamePlace
<1>4. Agree(c)'
  <2> DEFINE p == arg[c]
  <2>1. p = arg'[c] /\ (On(blocked', c) <=> On(blocked, c)) /\ pc'[c] # "wait"
    BY DEF SamePlace
  <2>2. ASSUME On(blocked, c)
        PROVE  p \in Futures /\ m_blocked_thread'[p] /\ m_error'[p] = "none" /\ (m_value'[p] => Coming(p)')
    <3>1. p \in Futures /\ m_blocked_thread[p] /\ m_error[p] = "none" /\ (m_value[p] => Coming(p))
      BY <1>0, <2>2 DEF Agree
    <3> QED BY <2>1, <2>2, <3>1 DEF SamePromise, Coming
  <2>3. ASSUME Answered(c)
        PROVE  /\ p \in Futures /\ (m_value'[p] \/ m_error'[p] # "none")
               /\ m_error'[p] = "timeout" => timeout[c] <= now
    <3>1. p \in Futures /\ Ready(p) /\ (m_error[p] = "timeout" => timeout[c] <= now)
      BY <1>0, <2>3 DEF Agree
    <3>2. ~On(blocked, c)
      BY <1>0, <2>3 DEF Answered, Placed, Blocked, Late, InReady
    <3> QED BY <3>1, <3>2 DEF SamePromise
  <2> HIDE DEF p
  <2> QED BY <1>3, <2>1, <2>2, <2>3 DEF Agree, Coming, Ready, p
<1>5. Calm(c)'
  BY <1>0 DEF Calm
<1> QED BY <1>2, <1>4, <1>5

\* A sleeper whose time has come is made ready, and a waiter whose deadline has passed
\* is given the error.
LEMMA ExpireSleeperJ == ASSUME IInv, JInv, NEW c \in Contexts, ExpireSleeper(c) PROVE JInv'
<1> USE DEF listVars, queueVars, ctxVars, promVars, postVars, taskVars
<1>0. /\ pc \in [Contexts -> Labels] /\ sleep_pqueue \in [Contexts -> Nat] /\ ready \in Seq(Contexts)
      /\ m_error \in [Futures -> Errors] /\ now \in Nat /\ NULL \notin Futures
      /\ OneWaiter /\ Sound
  BY JInvParts DEF TypeOK, Errors
<1>1. /\ c = Running /\ pc[c] \in {"check", "expire"} /\ pc' = [pc EXCEPT ![c] = "expire"]
      /\ UNCHANGED <<now, fault, then, call, arg, timeout, resume_time, canceled, stage, remote>>
  BY DEF ExpireSleeper, At, Goto
<1>2. pc'[c] = "expire" /\ \A d \in Contexts : d # c => pc'[d] = pc[d]
  BY <1>0, <1>1
<1>3. PICK x \in Expired :
          LET rest == [sleep_pqueue EXCEPT ![x] = @ - 1] IN
          \/ prom[x] # NULL /\ set_exception(prom[x], "timeout", rest)
          \/ prom[x] = NULL /\ ready' = Append(ready, x) /\ sleep_pqueue' = rest
             /\ UNCHANGED <<blocked, prom, m_value, m_error, m_blocked_thread>>
  BY DEF ExpireSleeper
<1>4. /\ x \in Contexts /\ sleep_pqueue[x] > 0 /\ resume_time[x] <= now
      /\ resume_time[x] \in Int /\ sleep_pqueue[x] \in Nat
  BY ExpiredSleeper
<1> DEFINE rest == [sleep_pqueue EXCEPT ![x] = @ - 1]
<1>5. /\ rest \in [Contexts -> Nat] /\ rest[x] <= sleep_pqueue[x] /\ rest[x] = sleep_pqueue[x] - 1
      /\ \A d \in Contexts : d # x => rest[d] = sleep_pqueue[d]
  BY <1>0, <1>4
<1> HIDE DEF rest
<1>6. \A r \in RemoteFutures : m_value'[r] = m_value[r]
  <2>1. CASE set_exception(prom[x], "timeout", rest)
    BY <2>1 DEF set_exception
  <2> QED BY <1>3, <2>1 DEF rest
<1>7. \A r \in RemoteFutures : Sent(r)'
  BY <1>1, <1>6, JInvParts DEF Sent
<1>8. CASE prom[x] # NULL /\ set_exception(prom[x], "timeout", rest)
  <2>1. Blocked(x) /\ timeout[x] # Forever
    BY <1>4, <1>8, InHeap DEF Asleep
  <2>2. On(blocked, x) /\ timeout[x] <= now
    BY <1>4, <2>1 DEF Blocked
  <2>3. PICK p \in Futures : p = arg[x] /\ prom[x] = p /\ m_blocked_thread[p]
    BY <1>4, <2>2, OnBlocked
  <2>4. /\ m_error' = [m_error EXCEPT ![p] = "timeout"] /\ Notify(p, rest)
        /\ UNCHANGED <<m_value, m_blocked_thread>>
    BY <1>8, <2>3 DEF set_exception, NotifyPromise
  <2>5. m_error'[p] = "timeout" /\ \A q \in Futures : q # p => m_error'[q] = m_error[q]
    BY <1>0, <2>4
  <2>6. Moved(x)
    BY <1>4, <1>5, <2>2, <2>3, <2>4, NotifyMoves
  <2>7. ASSUME x # c PROVE Placed(c)' /\ Agree(c)' /\ Calm(c)'
    <3>1. SamePlace(c) /\ prom'[c] = prom[c]
      BY <1>4, <2>6, <2>7 DEF SamePlace, Moved
    <3>2. arg[c] \in Futures => arg[c] # p
      BY <1>0, <1>4, <2>3, <2>7 DEF OneWaiter
    <3>3. SamePromise(c)
      BY <1>1, <2>4, <2>5, <3>2 DEF SamePromise, Coming, Ready
    <3>4. ready' # <<>>
      <4>1. On(ready', x)
        BY <1>4, <2>6 DEF Moved
      <4> QED BY <4>1, OnSome
    <3> QED BY <1>1, <1>2, <3>1, <3>3, <3>4, CheckerSame
  <2>8. /\ \A d \in Contexts : d # c => pc'[d] = pc[d] /\ then'[d] = then[d] /\ call'[d] = call[d]
        /\ \A q \in Futures : q # p => m_value'[q] = m_value[q] /\ m_error'[q] = m_error[q] /\ stage'[q] = stage[q]
        /\ m_error'[p] # "none"
    BY <1>1, <1>2, <2>4, <2>5
  <2>9. x = c => Leaving(c)' /\ call'[c] = call[c] /\ resume_time[c] <= now
    BY <1>1, <1>2, <1>4, <2>2, OnBlocked DEF Leaving
  <2> QED BY <1>1, <1>4, <1>7, <2>2, <2>3, <2>4, <2>6, <2>7, <2>8, <2>9, MoveJ
<1>9. CASE /\ prom[x] = NULL /\ ready' = Append(ready, x) /\ sleep_pqueue' = rest
           /\ UNCHANGED <<blocked, prom, m_value, m_error, m_blocked_thread>>
  <2>1. ~Blocked(x)
    BY <1>9 DEF Blocked
  <2>2. /\ Asleep(x) /\ call[x] = "sleep"
        /\ \/ x # c /\ pc[x] = "suspended"
           \/ x = c /\ Leaving(x)
    <3>1. Asleep(x) /\ call[x] = "sleep" /\ (Leaving(x) \/ pc[x] = "suspended")
      BY <1>4, <2>1, InHeap
    <3>2. x # c => pc[x] \in {"unused", "suspended"}
      BY <1>1, <1>4, JInvParts
    <3> QED BY <1>1, <3>1, <3>2 DEF Leaving
  <2>3. sleep_pqueue'[x] = 0
    BY <1>5, <1>9, <2>2 DEF Asleep
  <2>4. ~Corrupt(ready') /\ \A d : On(ready', d) <=> On(ready, d) \/ d = x
    <3>1. ~Corrupt(ready) /\ ~On(ready, x)
      BY <1>0, <2>2 DEF Sound, Asleep
    <3>2. \A d : On(Append(ready, x), d) <=> On(ready, d) \/ d = x
      BY <1>0, <1>4, OnPushed
    <3>3. ~Corrupt(Append(ready, x))
      BY <1>0, <1>4, <3>1, PushedOnce
    <3> QED BY <1>9, <3>2, <3>3
  <2>5. Placed(x)' /\ Agree(x)' /\ Calm(x)'
    <3>0. Calm(x)
      BY <1>4, JInvParts
    <3>1. call'[x] = "sleep" /\ InReady(x)' /\ Late(x)'
      BY <1>1, <1>2, <1>4, <1>9, <2>2, <2>3, <2>4 DEF InReady, Asleep, Late
    <3>2. \/ pc'[x] = "suspended" /\ ~Leaving(x)'
          \/ pc'[x] = "expire" /\ Leaving(x)'
      BY <1>1, <1>2, <1>4, <2>2 DEF Leaving
    <3>3. Placed(x)'
      BY <3>1, <3>2 DEF Placed
    <3>4. Agree(x)'
      BY <3>1, <3>2 DEF Agree, Answered, InReady
    <3>5. Calm(x)'
      BY <1>1, <3>0, <3>1, <3>2 DEF Calm
    <3> QED BY <3>3, <3>4, <3>5
  <2>6. ASSUME NEW d \in Contexts, d # x PROVE SamePlace(d) /\ SamePromise(d) /\ prom'[d] = prom[d]
    <3>1. SamePlace(d) /\ prom'[d] = prom[d]
      BY <1>5, <1>9, <2>4, <2>6 DEF SamePlace
    <3>2. SamePromise(d)
      BY <1>1, <1>9 DEF SamePromise, Coming, Ready
    <3> QED BY <3>1, <3>2
  <2>7. Placed(c)' /\ Agree(c)' /\ Calm(c)'
    <3>1. ready' # <<>>
      BY <2>4, OnSome
    <3>2. CASE x = c
      BY <2>5, <3>2
    <3>3. CASE x # c
      BY <1>1, <1>2, <1>4, <2>6, <3>1, <3>3, CheckerSame
    <3> QED BY <3>2, <3>3
  <2>8. ASSUME NEW d \in Contexts, d # c, d # x PROVE Placed(d)' /\ Agree(d)' /\ Calm(d)'
    <3>1. SameContext(d)
      BY <1>1, <1>2, <1>9, <2>8 DEF SameContext
    <3>2. now' \in Nat /\ now <= now'
      BY <1>0, <1>1
    <3> QED BY <1>1, <2>6, <2>8, <3>1, <3>2, OtherSame
  <2>9. Sound' /\ OneWaiter'
    BY <1>0, <1>1, <1>9, <2>4 DEF Sound, OneWaiter, Corrupt
  <2> QED BY <1>7, <2>5, <2>7, <2>8, <2>9 DEF JInv
<1> QED BY <1>3, <1>8, <1>9 DEF rest

-----------------------------------------------------------------------------
(* Context switches *)

\* The running context c gives way to h, which was ready or is new.
LEMMA SwitchJ ==
    ASSUME IInv, JInv, NEW c \in Contexts, NEW h \in Contexts, NEW l \in {"resumed", "begin"},
           c = Running, pc[c] = "switch", h # c,
           l = "resumed" => On(ready, h), l = "begin" => pc[h] = "unused",
           pc' = [pc EXCEPT ![c] = "suspended", ![h] = l],
           ~Corrupt(ready'),
           \A d \in Contexts : On(ready', d) <=> (On(ready, d) /\ d # h) \/ (Reschedule(c) /\ d = c),
           UNCHANGED <<now, fault, blocked, sleep_pqueue, prom, resume_time, canceled, then, call, arg,
                       timeout, m_value, m_error, m_blocked_thread, stage, remote>>
    PROVE  JInv'
<1>0. /\ pc \in [Contexts -> Labels] /\ call[c] \in {"process_tasks", "wait", "sleep", "yield"}
      /\ call[h] \in {"process_tasks", "wait", "sleep", "yield"}
      /\ Placed(c) /\ Agree(c) /\ Calm(c) /\ Placed(h) /\ Agree(h) /\ Calm(h) /\ now \in Nat
      /\ OneWaiter /\ Sound /\ pc[h] \in {"unused", "suspended"}
  BY JInvParts
<1>1. pc'[c] = "suspended" /\ pc'[h] = l /\ \A d \in Contexts : d # c /\ d # h => pc'[d] = pc[d]
  BY <1>0
<1>2. Placed(c)' /\ Agree(c)' /\ Calm(c)'
  <2>1. Leaving(c) /\ ~Leaving(c)'
    BY <1>1 DEF Leaving
  <2>2. On(ready', c) <=> On(ready, c) \/ call[c] \in {"process_tasks", "yield"}
    BY DEF Reschedule
  <2>3. On(blocked', c) <=> On(blocked, c)
    OBVIOUS
  <2>4. Placed(c)'
    <3>1. CASE call[c] \in {"process_tasks", "yield"}
      <4>1. Nowhere(c)
        BY <1>0, <2>1, <3>1 DEF Placed
      <4>2. InReady(c)'
        BY <2>2, <3>1, <4>1 DEF Nowhere, InReady
      <4> QED BY <1>1, <2>1, <3>1, <4>2 DEF Placed
    <3>2. CASE call[c] = "wait"
      <4>1. Blocked(c) \/ InReady(c)
        BY <1>0, <2>1, <3>2 DEF Placed, Late
      <4>2. Blocked(c)' \/ InReady(c)'
        BY <2>2, <3>2, <4>1 DEF Blocked, InReady, Forever
      <4> QED BY <1>1, <2>1, <3>2, <4>2 DEF Placed
    <3>3. CASE call[c] = "sleep"
      <4>1. Asleep(c) \/ InReady(c)
        BY <1>0, <2>1, <3>3 DEF Placed, Late
      <4>2. Asleep(c)' \/ InReady(c)'
        BY <2>2, <3>3, <4>1 DEF Asleep, InReady
      <4> QED BY <1>1, <2>1, <3>3, <4>2 DEF Placed
    <3> QED BY <1>0, <3>1, <3>2, <3>3
  <2>5. Agree(c)'
    <3>1. Answered(c)' => Answered(c)
      BY <1>1, <2>1, <2>2 DEF Answered
    <3> QED BY <1>0, <1>1, <2>3, <3>1 DEF Agree, Coming, Ready
  <2>6. Calm(c)'
    BY <1>0, <1>1, <2>1 DEF Calm
  <2> QED BY <2>4, <2>5, <2>6
<1>3. Placed(h)' /\ Agree(h)' /\ Calm(h)'
  <2>1. ~On(ready', h) /\ ~Leaving(h)' /\ pc'[h] # "suspended" /\ pc'[h] # "wait" /\ pc'[h] # "wait_result"
        /\ ~Leaving(h)
    BY <1>0, <1>1 DEF Leaving
  <2>2. CASE l = "resumed"
    <3>1. pc[h] = "suspended"
      BY <1>0, <2>1, <2>2 DEF Placed, Nowhere
    <3>2. InReady(h)
      BY <1>0, <2>2, <3>1 DEF Placed, Blocked, Asleep
    <3>3. Nowhere(h)'
      BY <2>1, <3>2 DEF Nowhere, InReady
    <3>4. Placed(h)'
      BY <2>1, <3>3 DEF Placed
    <3>5. Agree(h)'
      BY <1>0, <1>1, <2>1, <2>2, <3>1, <3>3 DEF Agree, Answered, Nowhere, Ready
    <3>6. Calm(h)'
      BY <1>0, <1>1, <2>1, <2>2 DEF Calm
    <3> QED BY <3>4, <3>5, <3>6
  <2>3. CASE l = "begin"
    <3>1. Nowhere(h)
      BY <1>0, <2>1, <2>3 DEF Placed
    <3>2. Nowhere(h)'
      BY <2>1, <3>1 DEF Nowhere
    <3>3. Placed(h)'
      BY <2>1, <3>2 DEF Placed
    <3>4. Agree(h)'
      BY <1>1, <2>1, <2>3, <3>2 DEF Agree, Answered, Nowhere
    <3>5. Calm(h)'
      BY <1>0, <1>1, <2>1, <2>3 DEF Calm
    <3> QED BY <3>3, <3>4, <3>5
  <2> QED BY <2>2, <2>3
<1>4. ASSUME NEW d \in Contexts, d # c, d # h PROVE Placed(d)' /\ Agree(d)' /\ Calm(d)'
  <2>0. On(ready', d) <=> On(ready, d)
    BY <1>4
  <2>1. SameContext(d) /\ SamePlace(d)
    BY <1>1, <1>4, <2>0 DEF SameContext, SamePlace
  <2>2. SamePromise(d)
    BY DEF SamePromise, Coming, Ready
  <2>3. now' \in Nat /\ now <= now'
    BY <1>0
  <2> QED BY <1>4, <2>1, <2>2, <2>3, OtherSame
<1>5. Sound' /\ OneWaiter'
  BY <1>0 DEF Sound, OneWaiter, Corrupt
<1>6. \A p \in RemoteFutures : Sent(p)'
  BY JInvParts DEF Sent
<1> QED BY <1>2, <1>3, <1>4, <1>5, <1>6 DEF JInv

\* A list without repetition and with c pushed at its end, or not.
LEMMA PushedBackOnce ==
    ASSUME NEW q \in Seq(Contexts), NEW c \in Contexts, ~Corrupt(q), On(q, c) => ~Reschedule(c)
    PROVE  ~Corrupt(PushBack(q, c)) /\ \A d : On(PushBack(q, c), d) <=> On(q, d) \/ (Reschedule(c) /\ d = c)
<1>1. CASE Reschedule(c)
  <2>1. PushBack(q, c) = Append(q, c)
    BY <1>1 DEF PushBack
  <2>2. ~Corrupt(Append(q, c)) /\ \A d : On(Append(q, c), d) <=> On(q, d) \/ d = c
    BY <1>1, OnPushed, PushedOnce
  <2> QED BY <1>1, <2>1, <2>2 DEF Reschedule
<1>2. CASE ~Reschedule(c)
  <2>1. PushBack(q, c) = q
    BY <1>2 DEF PushBack
  <2> QED BY <1>2, <2>1 DEF Reschedule
<1> QED BY <1>1, <1>2

\* A context that is about to switch is on the ready list only if its time has come.
LEMMA LeavingReady ==
    ASSUME IInv, JInv, NEW c \in Contexts, Leaving(c), On(ready, c)
    PROVE  call[c] \in {"wait", "sleep"} /\ resume_time[c] <= now /\ ~Reschedule(c)
<1>1. Placed(c) /\ call[c] \in {"process_tasks", "wait", "sleep", "yield"}
  BY JInvParts
<1> QED BY <1>1 DEF Placed, Nowhere, Blocked, Asleep, Late, Reschedule

\* start_next_task() resumes the head of the ready list.
LEMMA SwitchToReadyJ == ASSUME IInv, JInv, NEW c \in Contexts, SwitchToReady(c) PROVE JInv'
<1> USE DEF listVars, queueVars, ctxVars, promVars, postVars, taskVars
<1>0. ready \in Seq(Contexts) /\ Sound
  BY JInvParts
<1> DEFINE h == Head(ready)
           q == Tail(ready)
<1>1. /\ c = Running /\ pc[c] = "switch" /\ ready # <<>> /\ h # c /\ ready' = PushBack(q, c)
      /\ pc' = [pc EXCEPT ![c] = "suspended", ![h] = "resumed"]
      /\ UNCHANGED <<now, fault, blocked, sleep_pqueue, prom, resume_time, canceled, then, call, arg,
                     timeout, m_value, m_error, m_blocked_thread, stage, remote>>
  BY DEF SwitchToReady, At, ready_pop_front
<1>2. h \in Contexts /\ On(ready, h) /\ q \in Seq(Contexts)
  BY <1>0, <1>1, OnTail
<1>3. ~Corrupt(q) /\ \A d : On(q, d) <=> On(ready, d) /\ d # h
  BY <1>0, <1>1, TailOnce DEF Sound
<1> HIDE DEF h, q
<1>4. On(q, c) => ~Reschedule(c)
  BY <1>1, <1>3, LeavingReady DEF Leaving
<1>5. ~Corrupt(ready') /\ \A d \in Contexts : On(ready', d) <=> (On(ready, d) /\ d # h) \/ (Reschedule(c) /\ d = c)
  BY <1>1, <1>2, <1>3, <1>4, PushedBackOnce
<1> DEFINE l == "resumed"
<1>6. l \in {"resumed", "begin"} /\ l # "begin" /\ pc' = [pc EXCEPT ![c] = "suspended", ![h] = l]
  BY <1>1
<1> HIDE DEF l
<1> QED BY ZenonT(60), <1>1, <1>2, <1>5, <1>6, SwitchJ

\* start_next_task() makes a new context.
LEMMA SwitchToNewJ == ASSUME IInv, JInv, NEW c \in Contexts, SwitchToNew(c) PROVE JInv'
<1> USE DEF listVars, queueVars, ctxVars, promVars, postVars, taskVars
<1>0. ready \in Seq(Contexts) /\ Sound
  BY JInvParts
<1>1. /\ c = Running /\ pc[c] = "switch" /\ ready = <<>> /\ ready' = PushBack(ready, c)
      /\ UNCHANGED <<now, fault, blocked, sleep_pqueue, prom, resume_time, canceled, then, call, arg,
                     timeout, m_value, m_error, m_blocked_thread, stage, remote>>
  BY DEF SwitchToNew, At
<1>2. PICK h \in Contexts : pc[h] = "unused" /\ pc' = [pc EXCEPT ![c] = "suspended", ![h] = "begin"]
  BY DEF SwitchToNew
<1>3. \A d : ~On(ready, d)
  BY <1>1, OnSome
<1>4. ~Corrupt(ready') /\ \A d : On(ready', d) <=> On(ready, d) \/ (Reschedule(c) /\ d = c)
  BY <1>0, <1>1, <1>3, PushedBackOnce DEF Sound
<1> DEFINE l == "begin"
<1>5. l \in {"resumed", "begin"} /\ l # "resumed" /\ pc' = [pc EXCEPT ![c] = "suspended", ![h] = l] /\ h # c
  BY <1>1, <1>2
<1> HIDE DEF l
<1>6. \A d \in Contexts : On(ready', d) <=> (On(ready, d) /\ d # h) \/ (Reschedule(c) /\ d = c)
  BY <1>3, <1>4
<1> QED BY ZenonT(60), <1>1, <1>2, <1>4, <1>5, <1>6, SwitchJ

-----------------------------------------------------------------------------
(* The other threads, and time *)

\* A step of another thread.  It may wake the loop, and it may set a promise if it
\* also sends a notification to a thread that waits.
OutsideStep ==
    /\ UNCHANGED <<now, ready, blocked, sleep_pqueue, prom, resume_time, canceled, then, call, arg,
                   timeout, m_error, m_blocked_thread>>
    /\ \A d \in Contexts : pc'[d] = pc[d] \/ (pc[d] = "cv_wait" /\ pc'[d] = "top")
    /\ \A p \in Futures : m_value[p] => m_value'[p]
    /\ \A p \in Futures : m_blocked_thread[p] /\ m_value'[p] /\ (m_value[p] => Coming(p))
          => p \in RemoteFutures /\ (remote'[p] = "notify" \/ stage'[p] = "posted")

\* It keeps the invariant of the contexts.
LEMMA OutsideJ ==
    ASSUME IInv, JInv, OutsideStep, \A p \in RemoteFutures : Sent(p)'
    PROVE  JInv'
<1>1. Sound' /\ OneWaiter'
  BY JInvParts DEF Sound, OneWaiter, OutsideStep, Corrupt
<1>2. ASSUME NEW d \in Contexts PROVE Placed(d)' /\ Agree(d)' /\ Calm(d)'
  <2>0. Placed(d) /\ Agree(d) /\ Calm(d)
    BY JInvParts
  <2>1. CASE pc'[d] = pc[d]
    <3>1. (Leaving(d)' <=> Leaving(d)) /\ (Answered(d)' <=> Answered(d))
      BY <2>1 DEF Leaving, Answered, OutsideStep
    <3>2. Placed(d)'
      BY <2>0, <2>1, <3>1 DEF Placed, Nowhere, InReady, Asleep, Blocked, Late, Forever, OutsideStep
    <3>3. Agree(d)'
      <4>1. UNCHANGED <<arg, blocked, m_blocked_thread, m_error, timeout, now>>
        BY DEF OutsideStep
      <4>2. ASSUME On(blocked, d), m_value'[arg[d]] PROVE Coming(arg[d])'
        <5>1. arg[d] \in Futures /\ m_blocked_thread[arg[d]] /\ (m_value[arg[d]] => Coming(arg[d]))
          BY <2>0, <4>2 DEF Agree
        <5> QED BY <4>1, <4>2, <5>1 DEF OutsideStep, Coming
      <4>3. ASSUME Answered(d) PROVE Ready(arg[d])'
        <5>1. arg[d] \in Futures /\ Ready(arg[d])
          BY <2>0, <4>3 DEF Agree
        <5>2. m_value'[arg[d]] \/ m_error'[arg[d]] # "none"
          BY <4>1, <5>1 DEF OutsideStep, Ready
        <5> QED BY <4>1, <5>2 DEF Ready
      <4> QED BY <2>0, <2>1, <3>1, <4>1, <4>2, <4>3 DEF Agree
    <3>4. Calm(d)'
      BY <2>0, <2>1, <3>1 DEF Calm, OutsideStep
    <3> QED BY <3>2, <3>3, <3>4
  <2>2. CASE pc[d] = "cv_wait" /\ pc'[d] = "top"
    <3>1. ~Leaving(d) /\ ~Leaving(d)'
      BY <2>2 DEF Leaving
    <3>2. Nowhere(d)'
      BY <2>0, <2>2, <3>1 DEF Placed, Nowhere, OutsideStep
    <3>3. Placed(d)'
      BY <2>2, <3>1, <3>2 DEF Placed
    <3>4. Agree(d)'
      BY <2>2, <3>2 DEF Agree, Answered, Nowhere
    <3>5. Calm(d)'
      BY <2>0, <2>2, <3>1 DEF Calm, OutsideStep
    <3> QED BY <3>3, <3>4, <3>5
  <2> QED BY <2>1, <2>2 DEF OutsideStep
<1> QED BY <1>1, <1>2 DEF JInv

\* The wakeup of the loop.
LEMMA WakeStep ==
    ASSUME IInv, Wake PROVE \A d \in Contexts : pc'[d] = pc[d] \/ (pc[d] = "cv_wait" /\ pc'[d] = "top")
<1> SUFFICES ASSUME NEW d \in Contexts PROVE pc'[d] = pc[d] \/ (pc[d] = "cv_wait" /\ pc'[d] = "top")
  OBVIOUS
<1>1. pc'[d] = IF pc[d] = "cv_wait" THEN "top" ELSE pc[d]
  BY DEF Wake
<1> QED BY <1>1

\* Another thread posts a task.
LEMMA RemotePostJ == ASSUME IInv, JInv, NEW f \in LocalFutures, RemotePost(f) PROVE JInv'
<1> USE DEF listVars, queueVars, ctxVars, promVars, postVars, taskVars
<1>0. f \in Futures /\ f \notin RemoteFutures /\ RemoteFutures \subseteq Futures
  BY FutureAssumption DEF Futures
<1>1. /\ UNCHANGED <<now, fault, ready, blocked, sleep_pqueue, prom, resume_time, canceled, then, call, arg,
                     timeout, m_error, m_blocked_thread, m_value, remote>>
      /\ Post(f, Past) /\ Wake
  BY DEF RemotePost
<1>2. \A p \in RemoteFutures : stage'[p] = stage[p]
  BY <1>0, <1>1, PostStage
<1>3. OutsideStep
  BY <1>1, <1>2, WakeStep DEF OutsideStep, Coming
<1>4. \A p \in RemoteFutures : Sent(p)'
  BY <1>1, <1>2, JInvParts DEF Sent
<1> QED BY <1>3, <1>4, OutsideJ

\* Another thread sets a value.
LEMMA RemoteSetJ == ASSUME Orderly, IInv, JInv, NEW p \in RemoteFutures, RemoteSet(p) PROVE JInv'
<1> USE DEF listVars, queueVars, ctxVars, promVars, postVars, taskVars
<1>0. /\ RemoteFutures \subseteq Futures /\ remote \in [RemoteFutures -> {"idle", "notify", "end"}]
      /\ m_value \in [Futures -> BOOLEAN]
  BY JInvParts DEF TypeOK
<1>1. /\ UNCHANGED <<now, fault, ready, blocked, sleep_pqueue, prom, resume_time, canceled, then, call, arg,
                     timeout, m_blocked_thread, stage, pc>>
      /\ remote[p] = "idle"
  BY DEF RemoteSet
<1>2. CASE /\ m_value' = [m_value EXCEPT ![p] = TRUE] /\ remote' = [remote EXCEPT ![p] = "notify"]
           /\ UNCHANGED m_error
  <2>1. /\ m_value'[p] /\ remote'[p] = "notify"
        /\ \A q \in Futures : q # p => m_value'[q] = m_value[q]
        /\ \A q \in RemoteFutures : q # p => remote'[q] = remote[q]
    BY <1>0, <1>2
  <2>2. OutsideStep
    <3>1. ASSUME NEW q \in Futures, m_value'[q], m_value[q] => Coming(q)
          PROVE  q \in RemoteFutures /\ (remote'[q] = "notify" \/ stage'[q] = "posted")
      <4>1. CASE q = p
        BY <2>1, <4>1
      <4>2. CASE q # p
        <5>1. Coming(q)
          BY <2>1, <3>1, <4>2
        <5> QED BY <1>1, <2>1, <4>2, <5>1 DEF Coming
      <4> QED BY <4>1, <4>2
    <3>2. ASSUME NEW q \in Futures, m_value[q] PROVE m_value'[q]
      BY <2>1, <3>2
    <3> QED BY <1>1, <1>2, <3>1, <3>2 DEF OutsideStep
  <2>3. ASSUME NEW q \in RemoteFutures PROVE Sent(q)'
    <3>1. CASE q = p
      BY <2>1, <3>1 DEF Sent
    <3>2. CASE q # p
      <4>1. m_value'[q] = m_value[q] /\ remote'[q] = remote[q] /\ stage'[q] = stage[q] /\ Sent(q)
        BY <1>0, <1>1, <2>1, <3>2, JInvParts
      <4> QED BY <4>1 DEF Sent
    <3> QED BY <3>1, <3>2
  <2> QED BY <2>2, <2>3, OutsideJ
<1>3. CASE remote' = [remote EXCEPT ![p] = "end"] /\ UNCHANGED <<m_value, m_error>>
  <2>1. remote'[p] = "end" /\ \A q \in RemoteFutures : q # p => remote'[q] = remote[q]
    BY <1>0, <1>3
  <2>2. OutsideStep
    <3>1. ASSUME NEW q \in Futures, m_value'[q], m_value[q] => Coming(q)
          PROVE  q \in RemoteFutures /\ (remote'[q] = "notify" \/ stage'[q] = "posted")
      <4>1. Coming(q)
        BY <1>3, <3>1
      <4>2. q \in RemoteFutures /\ (q = p => stage[q] = "posted")
        BY <1>1, <4>1 DEF Coming
      <4> QED BY <1>1, <2>1, <4>1, <4>2 DEF Coming
    <3> QED BY <1>1, <1>3, <3>1 DEF OutsideStep
  <2>3. ASSUME NEW q \in RemoteFutures PROVE Sent(q)'
    <3>1. Sent(q) /\ (remote'[q] = "notify" => remote[q] = "notify")
      BY <1>1, <2>1, JInvParts
    <3> QED BY <1>1, <1>3, <3>1 DEF Sent
  <2> QED BY <2>2, <2>3, OutsideJ
<1> QED BY <1>2, <1>3 DEF RemoteSet, Orderly

\* Another thread notifies this one: the promise has its value.
LEMMA RemoteNotifyJ == ASSUME IInv, JInv, NEW p \in RemoteFutures, RemoteNotify(p) PROVE JInv'
<1> USE DEF listVars, queueVars, ctxVars, promVars, postVars, taskVars
<1>0. /\ RemoteFutures \subseteq Futures /\ remote \in [RemoteFutures -> {"idle", "notify", "end"}]
      /\ Sent(p)
  BY JInvParts DEF TypeOK
<1>1. /\ UNCHANGED <<now, ready, blocked, sleep_pqueue, prom, resume_time, canceled, then, call, arg,
                     timeout, m_value, m_error, m_blocked_thread>>
      /\ remote[p] = "notify" /\ remote' = [remote EXCEPT ![p] = "end"]
  BY DEF RemoteNotify
<1>2. m_value[p] /\ Ready(p)
  BY <1>0, <1>1 DEF Sent, Ready
<1>3. remote'[p] = "end" /\ \A q \in RemoteFutures : q # p => remote'[q] = remote[q]
  BY <1>0, <1>1
<1>4. CASE m_blocked_thread[p] /\ Post(p, Past) /\ Wake /\ UNCHANGED fault
  <2>1. stage'[p] = "posted" /\ \A q \in Futures : q # p => stage'[q] = stage[q]
    BY <1>0, <1>4, PostStage
  <2>2. OutsideStep
    BY <1>0, <1>1, <1>3, <1>4, <2>1, WakeStep DEF OutsideStep, Coming
  <2>3. ASSUME NEW q \in RemoteFutures PROVE Sent(q)'
    <3>1. CASE q = p
      BY <1>1, <1>2, <3>1 DEF Sent
    <3>2. CASE q # p
      <4>1. remote'[q] = remote[q] /\ stage'[q] = stage[q] /\ Sent(q)
        BY <1>0, <1>3, <2>1, <3>2, JInvParts
      <4> QED BY <1>1, <4>1 DEF Sent
    <3> QED BY <3>1, <3>2
  <2> QED BY <2>2, <2>3, OutsideJ
<1>5. CASE ~m_blocked_thread[p] /\ UNCHANGED <<stage, pc, fault>>
  <2>1. OutsideStep
    <3>1. ASSUME NEW q \in Futures, m_blocked_thread[q], m_value'[q], m_value[q] => Coming(q)
          PROVE  q \in RemoteFutures /\ (remote'[q] = "notify" \/ stage'[q] = "posted")
      <4>1. Coming(q) /\ q # p
        BY <1>1, <1>5, <3>1
      <4> QED BY <1>3, <1>5, <4>1 DEF Coming
    <3> QED BY <1>1, <1>5, <3>1 DEF OutsideStep
  <2>2. ASSUME NEW q \in RemoteFutures PROVE Sent(q)'
    <3>1. Sent(q) /\ (remote'[q] = "notify" => remote[q] = "notify")
      BY <1>1, <1>3, JInvParts
    <3> QED BY <1>1, <1>5, <3>1 DEF Sent
  <2> QED BY <2>1, <2>2, OutsideJ
<1> QED BY <1>2, <1>4, <1>5 DEF RemoteNotify

\* The clock advances: what was late stays late.
LEMMA TickJ == ASSUME IInv, JInv, Tick PROVE JInv'
<1> USE DEF listVars, queueVars, ctxVars, promVars, postVars, taskVars
<1>0. now \in Nat /\ timeout \in [Contexts -> Times] /\ resume_time \in [Contexts -> Times] /\ MaxTime \in Nat
  BY JInvParts DEF TypeOK
<1>1. /\ UNCHANGED <<fault, ready, blocked, sleep_pqueue, prom, resume_time, canceled, then, call, arg,
                     timeout, m_value, m_error, m_blocked_thread, stage, remote, pc>>
      /\ now' = now + 1
  BY DEF Tick
<1>2. ASSUME NEW d \in Contexts PROVE Placed(d)' /\ Agree(d)' /\ Calm(d)'
  <2>0. Placed(d) /\ Agree(d) /\ Calm(d)
    BY JInvParts
  <2>1. (Leaving(d)' <=> Leaving(d)) /\ (Answered(d)' <=> Answered(d))
    BY <1>1 DEF Leaving, Answered
  <2>2. /\ timeout[d] <= now => timeout[d] <= now + 1
        /\ resume_time[d] <= now => resume_time[d] <= now + 1
    BY <1>0 DEF Times, Past, Forever
  <2>3. Late(d) => Late(d)'
    BY <1>1, <2>2 DEF Late, InReady
  <2>4. Placed(d)'
    BY <1>1, <2>0, <2>1, <2>3 DEF Placed, Nowhere, InReady, Asleep, Blocked, Forever
  <2>5. Agree(d)'
    BY <1>1, <2>0, <2>1, <2>2 DEF Agree, Coming, Ready
  <2>6. Calm(d)'
    BY <1>1, <2>0, <2>1 DEF Calm
  <2> QED BY <2>4, <2>5, <2>6
<1>3. Sound' /\ OneWaiter'
  BY <1>1, JInvParts DEF Sound, OneWaiter, Corrupt
<1>4. \A p \in RemoteFutures : Sent(p)'
  BY <1>1, JInvParts DEF Sent
<1> QED BY <1>2, <1>3, <1>4 DEF JInv

\* The assertion next != current fails.
LEMMA SwitchFaultJ == ASSUME IInv, JInv, NEW c \in Contexts, SwitchFault(c) PROVE JInv'
<1> USE DEF listVars, queueVars, ctxVars, promVars, postVars, taskVars
<1>1. OutsideStep
  BY DEF SwitchFault, OutsideStep, Coming
<1>2. \A p \in RemoteFutures : Sent(p)'
  BY JInvParts DEF SwitchFault, Sent
<1> QED BY <1>1, <1>2, OutsideJ

-----------------------------------------------------------------------------
(* Steps that do not happen *)

\* No other assertion fails, no list is closed to a cycle, and nobody cancels or quits.
LEMMA NoFaultStep ==
    ASSUME Orderly, IInv, JInv
    PROVE  /\ ~ListFault
           /\ \A c \in Contexts : /\ ~ResumeLoopFault(c) /\ ~RunNotifyFault(c)
                                  /\ ~QuitFault(c) /\ ~QuitWalk(c) /\ ~QuitEnd(c)
                                  /\ ~UserCancel(c) /\ ~UserQuit(c)
<1>1. ~ListFault
  BY JInvParts DEF Sound, ListFault
<1>2. ASSUME NEW c \in Contexts
      PROVE  ~ResumeLoopFault(c) /\ ~QuitFault(c) /\ ~QuitWalk(c) /\ ~QuitEnd(c)
  <2>1. Calm(c)
    BY JInvParts
  <2> QED BY <2>1 DEF Calm, ResumeLoopFault, QuitFault, QuitWalk, QuitEnd, At
<1>3. ASSUME NEW c \in Contexts PROVE ~RunNotifyFault(c)
  <2> SUFFICES ASSUME RunNotifyFault(c) PROVE FALSE
    OBVIOUS
  <2>1. pc[c] = "run" /\ next[c] \in RemoteFutures /\ ~Ready(next[c])
    BY DEF RunNotifyFault, At
  <2>2. stage[next[c]] = "posted"
    <3>1. Hand(c) /\ ~InTask(c)
      BY <2>1, IInvParts DEF InTask, Switching
    <3> QED BY <2>1, <3>1 DEF Hand
  <2>3. Sent(next[c])
    BY <2>1, JInvParts
  <2> QED BY <2>1, <2>2, <2>3 DEF Sent, Ready
<1>4. ASSUME NEW c \in Contexts PROVE ~UserCancel(c) /\ ~UserQuit(c)
  BY DEF UserCancel, UserQuit, User, Orderly
<1> QED BY <1>1, <1>2, <1>3, <1>4

-----------------------------------------------------------------------------
(* The specification *)

\* The second invariant holds when the thread starts.
LEMMA InitJ == Init => JInv
<1> SUFFICES ASSUME Init PROVE JInv
  OBVIOUS
<1>0. Main \in Contexts /\ NULL \notin Futures
  BY ContextAssumption, NullAssumption
<1>1. \A d : ~On(ready, d) /\ ~On(blocked, d)
  BY DEF Init, On
<1>2. Sound /\ OneWaiter
  BY DEF Init, Sound, OneWaiter, Corrupt
<1>3. ASSUME NEW c \in Contexts PROVE Placed(c) /\ Agree(c) /\ Calm(c)
  <2>1. pc[c] \in {"begin", "unused"} /\ sleep_pqueue[c] = 0 /\ canceled[c] = FALSE
    BY DEF Init
  <2>2. ~Leaving(c) /\ Nowhere(c)
    BY <1>1, <2>1 DEF Leaving, Nowhere
  <2>3. Placed(c)
    BY <2>1, <2>2 DEF Placed
  <2>4. Agree(c)
    BY <1>1, <2>1 DEF Agree, Answered
  <2>5. Calm(c)
    BY <2>1, <2>2 DEF Calm
  <2> QED BY <2>3, <2>4, <2>5
<1>4. \A p \in RemoteFutures : Sent(p)
  BY DEF Init, Sent, Futures
<1> QED BY <1>2, <1>3, <1>4 DEF JInv

\* Every step keeps it.
LEMMA NextJ == ASSUME Orderly PROVE IInv /\ JInv /\ [Next]_vars => JInv'
<1> SUFFICES ASSUME IInv, JInv, [Next]_vars PROVE JInv'
  OBVIOUS
<1>0. /\ ~ListFault
      /\ \A c \in Contexts : /\ ~ResumeLoopFault(c) /\ ~RunNotifyFault(c)
                             /\ ~QuitFault(c) /\ ~QuitWalk(c) /\ ~QuitEnd(c)
                             /\ ~UserCancel(c) /\ ~UserQuit(c)
  BY NoFaultStep
<1>1. ASSUME NEW c \in Contexts, LoopStep(c) PROVE JInv'
  BY <1>0, <1>1, LoopBeginJ, LoopTopJ, LoopIdleJ, LoopBlockWaitJ, LoopTimedOutJ, ExpireSleeperJ,
     CheckDoneJ, SwitchFaultJ, SwitchToReadyJ, SwitchToNewJ, ResumeLoopJ, ResumeYieldOrSleepJ, ResumeWaitJ, RunFunctorJ,
     RunCanceledJ, RunNotifyJ, ThreadWaitReturnsJ, ThreadWaitBlocksJ, WaitResultJ DEF LoopStep
<1>2. ASSUME NEW c \in Contexts, UserStep(c) PROVE JInv'
  BY <1>0, <1>2, UserReturnJ, UserThrowJ, UserPostJ, UserWaitJ, UserSleepJ, UserYieldJ DEF UserStep
<1>3. ASSUME NEW c \in Contexts, LoopSpuriousWake(c) PROVE JInv'
  BY <1>3, LoopSpuriousWakeJ
<1>4. ASSUME NEW f \in LocalFutures, RemotePost(f) PROVE JInv'
  BY <1>4, RemotePostJ
<1>5. ASSUME NEW p \in RemoteFutures, RemoteSet(p) \/ RemoteNotify(p) PROVE JInv'
  BY <1>5, RemoteSetJ, RemoteNotifyJ
<1>6. CASE Tick
  BY <1>6, TickJ
<1>7. CASE UNCHANGED vars
  <2>1. OutsideStep
    BY <1>7 DEF vars, OutsideStep, Coming
  <2>2. \A p \in RemoteFutures : Sent(p)'
    BY <1>7, JInvParts DEF vars, Sent
  <2> QED BY <2>1, <2>2, OutsideJ
<1> QED BY <1>0, <1>1, <1>2, <1>3, <1>4, <1>5, <1>6, <1>7 DEF Next

\* Both invariants hold for ever.
LEMMA OrderlyInvariance == ASSUME Orderly PROVE SafeSpec => [](IInv /\ JInv)
<1>1. Init => IInv /\ JInv
  BY InitIInv, InitJ
<1>2. (IInv /\ JInv) /\ [Next]_vars => (IInv /\ JInv)'
  BY NextIInv, NextJ
<1> QED BY <1>1, <1>2, PTL DEF SafeSpec

\* A step fails an assertion only in start_next_task(), for a context that is late.
LEMMA FaultStep ==
    ASSUME Orderly, IInv, JInv, FaultOnlyLate, [Next]_vars PROVE FaultOnlyLate'
<1> USE DEF listVars, queueVars, ctxVars, promVars, postVars, taskVars
<1>0. /\ ~ListFault
      /\ \A c \in Contexts : /\ ~ResumeLoopFault(c) /\ ~RunNotifyFault(c)
                             /\ ~QuitFault(c) /\ ~QuitWalk(c) /\ ~QuitEnd(c)
                             /\ ~UserCancel(c) /\ ~UserQuit(c)
  BY NoFaultStep
<1>1. ASSUME fault' = "none" PROVE FaultOnlyLate'
  BY <1>1 DEF FaultOnlyLate
<1>2. ASSUME UNCHANGED vars PROVE FaultOnlyLate'
  BY <1>2 DEF FaultOnlyLate, vars, Running
<1>3. ASSUME NEW c \in Contexts, SwitchFault(c) PROVE FaultOnlyLate'
  <2>1. /\ Leaving(c) /\ ready # <<>> /\ Head(ready) = c /\ c = Running /\ Running' = Running
        /\ fault' = "assert next != current" /\ UNCHANGED <<call, resume_time, now>>
    BY <1>3 DEF SwitchFault, At, Leaving, Running
  <2>2. On(ready, c)
    BY <2>1, JInvParts, OnTail
  <2> QED BY <2>1, <2>2, LeavingReady DEF FaultOnlyLate
<1>4. ASSUME NEW c \in Contexts, LoopStep(c), ~SwitchFault(c) PROVE fault' = "none"
  BY <1>0, <1>4 DEF LoopStep, At, LoopBegin, LoopTop, LoopIdle, LoopBlockWait, LoopTimedOut, ExpireSleeper,
     CheckDone, SwitchToReady, SwitchToNew, ResumeLoop, ResumeYieldOrSleep, ResumeWait, RunFunctor, RunCanceled,
     RunNotify, ThreadWaitReturns, ThreadWaitBlocks, WaitResult
<1>5. ASSUME NEW c \in Contexts, UserStep(c) PROVE fault' = "none"
  BY <1>0, <1>5 DEF UserStep, User, At, UserReturn, UserThrow, UserAsync, UserSchedule, UserWait, UserTimedWait,
     UserSleep, UserYield
<1>6. ASSUME NEW p \in RemoteFutures, RemoteNotify(p) PROVE fault' = "none"
  <2>1. remote[p] = "notify" /\ Sent(p)
    BY <1>6, JInvParts DEF RemoteNotify
  <2>2. Ready(p)
    BY <2>1 DEF Sent, Ready
  <2> QED BY <1>6, <2>2 DEF RemoteNotify
<1>7. ASSUME Next, \A c \in Contexts : ~SwitchFault(c) PROVE fault' = "none"
  BY <1>0, <1>4, <1>5, <1>6, <1>7 DEF Next, LoopSpuriousWake, At, RemotePost, RemoteSet, Tick
<1> QED BY <1>1, <1>2, <1>3, <1>7

\* No assertion of the code fails and no null pointer is followed, as long as no task
\* is canceled, the thread does not quit, and the other threads set values, but for one:
\* start_next_task() may find the running context at the head of the ready list when
\* its deadline has passed in the meantime.
THEOREM FaultsOnlyWhenLate == ASSUME Orderly PROVE SafeSpec => []FaultOnlyLate
<1>1. Init => FaultOnlyLate
  BY DEF Init, FaultOnlyLate
<1>2. (IInv /\ JInv) /\ FaultOnlyLate /\ [Next]_vars => FaultOnlyLate'
  BY FaultStep
<1> QED BY <1>1, <1>2, OrderlyInvariance, PTL DEF SafeSpec

\* A context blocked on a promise that is set has its wakeup on the way: the set of the
\* promise, its notification and the block of the context may interleave at will.
THEOREM NoWakeupIsLost == ASSUME Orderly PROVE SafeSpec => []NoLostWakeup
<1>1. IInv /\ JInv => NoLostWakeup
  <2> SUFFICES ASSUME IInv, JInv, NEW i \in DOMAIN blocked, prom[blocked[i]] # NULL, Ready(prom[blocked[i]])
               PROVE  Coming(prom[blocked[i]])
    BY DEF NoLostWakeup, Coming
  <2>1. DOMAIN blocked = 1..Len(blocked) /\ \A k \in 1..Len(blocked) : blocked[k] \in Contexts
    BY JInvParts, LenProperties, ElementOfSeq
  <2>2. PICK c \in Contexts : c = blocked[i] /\ On(blocked, c)
    BY <2>1 DEF On
  <2>3. Agree(c) /\ prom[c] = arg[c] /\ m_error[arg[c]] = "none"
    BY <2>2, JInvParts, OnBlocked
  <2> QED BY <2>2, <2>3 DEF Agree, Ready
<1> QED BY <1>1, OrderlyInvariance, PTL

\* wait() comes back with a value or an error, and with future_wait_timeout only after
\* its deadline, however the deadline races the value.
THEOREM WaitGetsResult == ASSUME Orderly PROVE SafeSpec => []WaitHasResult
<1>1. IInv /\ JInv => WaitHasResult
  <2> SUFFICES ASSUME IInv, JInv, NEW c \in Contexts, pc[c] = "wait_result"
               PROVE  /\ Ready(arg[c])
                      /\ m_error[arg[c]] = "timeout" => timeout[c] <= now
    BY DEF WaitHasResult
  <2>1. Agree(c)
    BY JInvParts
  <2> QED BY <2>1 DEF Agree, Answered
<1> QED BY <1>1, OrderlyInvariance, PTL

\* How often a context is on a list without repetition.
LEMMA CountOnce ==
    ASSUME NEW S, NEW q \in Seq(S), ~Corrupt(q), NEW c PROVE Count(q, c) = IF On(q, c) THEN 1 ELSE 0
<1>0. DOMAIN q = 1..Len(q)
  BY LenProperties
<1>1. Cardinality({}) = 0 /\ \A x : Cardinality({x}) = 1
  BY FS_EmptySet, FS_Singleton
<1>2. CASE On(q, c)
  <2>1. PICK i \in 1..Len(q) : q[i] = c
    BY <1>2 DEF On
  <2>2. \A k, l \in 1..Len(q) : q[k] = q[l] => k = l
    BY CorruptList
  <2>3. {k \in DOMAIN q : q[k] = c} = {i}
    BY <1>0, <2>1, <2>2
  <2> QED BY <1>1, <1>2, <2>3 DEF Count
<1>3. CASE ~On(q, c)
  <2>1. {k \in DOMAIN q : q[k] = c} = {}
    BY <1>0, <1>3 DEF On
  <2> QED BY <1>1, <1>3, <2>1 DEF Count
<1> QED BY <1>2, <1>3

\* A context that gave up the processor is in exactly one of the places from which a
\* wakeup comes, and a timeout that races a notification leaves it in one.
THEOREM ContextsArePlaced == ASSUME Orderly PROVE SafeSpec => []Placement
<1>1. IInv /\ JInv => Placement
  <2> SUFFICES ASSUME IInv, JInv, NEW c \in Contexts
               PROVE  LET r == Count(ready, c)
                          b == Count(blocked, c)
                          s == sleep_pqueue[c]
                      IN
                      /\ pc[c] = "suspended" =>
                            CASE call[c] \in {"process_tasks", "yield"} -> r = 1 /\ b = 0 /\ s = 0
                              [] call[c] = "wait"  -> r + b = 1 /\ s <= b
                              [] call[c] = "sleep" -> r + s = 1 /\ b = 0
                      /\ pc[c] \notin {"suspended", "check", "expire", "switch"} => r + b + s = 0
                      /\ b = 1 => prom[c] = arg[c] /\ arg[c] # NULL
                      /\ b = 1 => (s = 1 <=> timeout[c] # Forever)
    BY DEF Placement
  <2> DEFINE r == Count(ready, c)
             b == Count(blocked, c)
             s == sleep_pqueue[c]
  <2>0. /\ Placed(c) /\ call[c] \in {"process_tasks", "wait", "sleep", "yield"} /\ s \in Nat
        /\ ready \in Seq(Contexts) /\ blocked \in Seq(Contexts) /\ Sound
    BY JInvParts
  <2>1. r = (IF On(ready, c) THEN 1 ELSE 0) /\ b = (IF On(blocked, c) THEN 1 ELSE 0)
    BY <2>0, CountOnce DEF Sound
  <2> HIDE DEF r, b
  <2>2. CASE pc[c] = "suspended"
    <3>1. CASE InReady(c)
      <4>1. r = 1 /\ b = 0 /\ s = 0
        BY <2>1, <3>1 DEF InReady
      <4>2. r + b = 1 /\ s <= b /\ r + s = 1 /\ b # 1
        BY <4>1
      <4> QED BY <2>0, <2>2, <4>1, <4>2 DEF r, b
    <3>2. CASE Blocked(c) /\ call[c] = "wait"
      <4>1. r = 0 /\ b = 1 /\ (s = 0 \/ s = 1)
        BY <2>1, <3>2 DEF Blocked
      <4>2. r + b = 1 /\ s <= b
        BY <4>1
      <4>3. prom[c] = arg[c] /\ arg[c] # NULL /\ (s = 1 <=> timeout[c] # Forever)
        BY <3>2 DEF Blocked
      <4> QED BY <2>2, <3>2, <4>2, <4>3 DEF r, b
    <3>3. CASE Asleep(c) /\ call[c] = "sleep"
      <4>1. r = 0 /\ b = 0 /\ s = 1
        BY <2>1, <3>3 DEF Asleep
      <4>2. r + s = 1 /\ b # 1
        BY <4>1
      <4> QED BY <2>2, <3>3, <4>1, <4>2 DEF r, b
    <3>4. \/ InReady(c)
          \/ Blocked(c) /\ call[c] = "wait"
          \/ Asleep(c) /\ call[c] = "sleep"
      BY <2>0, <2>2 DEF Placed
    <3>5. QED
      BY <3>1, <3>2, <3>3, <3>4 DEF r, b
  <2>3. CASE pc[c] # "suspended" /\ ~On(blocked, c)
    <3>1. b = 0 /\ b # 1
      BY <2>1, <2>3
    <3>2. ASSUME pc[c] \notin {"suspended", "check", "expire", "switch"} PROVE r + b + s = 0
      <4>1. ~Leaving(c)
        BY <3>2 DEF Leaving
      <4>2. Nowhere(c)
        BY <2>0, <2>3, <4>1 DEF Placed
      <4>3. r = 0 /\ s = 0
        BY <2>1, <4>2 DEF Nowhere
      <4> QED BY <3>1, <4>3
    <3> QED BY <2>3, <3>1, <3>2 DEF r, b
  <2>4. CASE pc[c] # "suspended" /\ On(blocked, c)
    <3>1. Blocked(c) /\ Leaving(c)
      BY <2>4, OnBlocked
    <3>2. prom[c] = arg[c] /\ arg[c] # NULL /\ (s = 1 <=> timeout[c] # Forever)
      BY <3>1 DEF Blocked
    <3>3. pc[c] \in {"suspended", "check", "expire", "switch"}
      BY <3>1 DEF Leaving
    <3> QED BY <2>4, <3>2, <3>3
  <2> QED BY <2>2, <2>3, <2>4
<1> QED BY <1>1, OrderlyInvariance, PTL

\* A step makes a context only in start_next_task(), when no context is ready.
LEMMA MakesContext ==
    ASSUME IInv, Next, NEW n \in Contexts, pc[n] = "unused", pc'[n] = "begin"
    PROVE  \E c \in Contexts : SwitchToNew(c)
<1> SUFFICES ASSUME \A c \in Contexts : ~SwitchToNew(c) PROVE FALSE
  OBVIOUS
<1>0. pc \in [Contexts -> Labels] /\ OneRuns /\ Made /\ n # Running /\ ready \in Seq(Contexts)
  BY IInvParts DEF TypeOK, OneRuns
<1>1. pc'[n] # pc[n]
  OBVIOUS
<1>2. ASSUME NEW c \in Contexts, c = Running, NEW l, Goto(c, l) PROVE FALSE
  BY <1>0, <1>1, <1>2 DEF Goto
<1>3. ASSUME UNCHANGED pc PROVE FALSE
  BY <1>1, <1>3
<1>4. ASSUME NEW c \in Contexts, SwitchToReady(c) PROVE FALSE
  <2>1. pc' = [pc EXCEPT ![c] = "suspended", ![Head(ready)] = "resumed"] /\ c = Running
    BY <1>4 DEF SwitchToReady, At
  <2> QED BY <1>0, <2>1
<1>5. ASSUME NEW c \in Contexts, \/ LoopBegin(c) \/ LoopTop(c) \/ LoopIdle(c) \/ LoopBlockWait(c)
                                 \/ LoopTimedOut(c) \/ LoopSpuriousWake(c) \/ ExpireSleeper(c)
      PROVE  FALSE
  <2>1. c = Running /\ \E l : Goto(c, l)
    BY <1>5 DEF LoopBegin, LoopTop, LoopIdle, LoopBlockWait, LoopTimedOut, LoopSpuriousWake, ExpireSleeper,
                At, CheckForTimeouts, StartNextTask
  <2> QED BY <1>2, <2>1
<1>6. ASSUME NEW c \in Contexts, CheckDone(c) PROVE FALSE
  <2>1. then[c] \in {"top", "after_run", "switch"}
    BY IInvParts DEF TypeOK
  <2>2. c = Running /\ \E l : Goto(c, l)
    BY <1>6, <2>1 DEF CheckDone, At
  <2> QED BY <1>2, <2>2
<1>7. ASSUME NEW c \in Contexts, \/ ResumeLoop(c) \/ ResumeYieldOrSleep(c) \/ ResumeWait(c)
                                 \/ RunFunctor(c) \/ RunCanceled(c) \/ RunNotify(c) \/ ThreadWaitReturns(c)
                                 \/ ThreadWaitBlocks(c) \/ WaitResult(c) \/ QuitEnd(c)
      PROVE  FALSE
  <2>1. c = Running /\ \E l : Goto(c, l)
    BY <1>7 DEF ResumeLoop, ResumeYieldOrSleep, ResumeWait, RunFunctor, RunCanceled, RunNotify,
                ThreadWaitReturns, ThreadWaitBlocks, WaitResult, QuitEnd, At, EndTask, CheckForTimeouts, StartNextTask
  <2> QED BY <1>2, <2>1
<1>8. ASSUME NEW c \in Contexts, \/ SwitchFault(c) \/ ResumeLoopFault(c) \/ RunNotifyFault(c)
                                 \/ QuitWalk(c) \/ QuitFault(c) \/ UserAsync(c) \/ UserSchedule(c)
                                 \/ UserCancel(c)
      PROVE  FALSE
  BY <1>3, <1>8 DEF SwitchFault, ResumeLoopFault, RunNotifyFault, QuitWalk, QuitFault, UserAsync,
                    UserSchedule, UserCancel
<1>9. ASSUME NEW c \in Contexts, UserReturn(c) \/ UserThrow(c) \/ UserSleep(c) \/ UserYield(c) \/ UserQuit(c)
      PROVE  FALSE
  <2>1. c = Running /\ \E l : Goto(c, l)
    BY <1>9 DEF UserReturn, UserThrow, UserSleep, UserYield, UserQuit, User, At, EndTask, CheckForTimeouts,
                StartNextTask
  <2> QED BY <1>2, <2>1
<1>10. ASSUME NEW c \in Contexts, UserWait(c) \/ UserTimedWait(c) PROVE FALSE
  <2>1. c = Running /\ ((\E l : Goto(c, l)) \/ UNCHANGED pc)
    BY <1>10 DEF UserWait, UserTimedWait, User, At, PromiseWait
  <2> QED BY <1>2, <1>3, <2>1
<1>11. ASSUME Wake PROVE FALSE
  BY <1>11, WakeStep
<1>12. ASSUME NEW f \in LocalFutures, RemotePost(f) PROVE FALSE
  BY <1>11, <1>12 DEF RemotePost
<1>13. ASSUME NEW p \in RemoteFutures, RemoteSet(p) \/ RemoteNotify(p) PROVE FALSE
  BY <1>3, <1>11, <1>13 DEF RemoteSet, RemoteNotify
<1>14. ASSUME ListFault \/ Tick PROVE FALSE
  BY <1>3, <1>14 DEF ListFault, Tick
<1> QED BY <1>4, <1>5, <1>6, <1>7, <1>8, <1>9, <1>10, <1>12, <1>13, <1>14 DEF Next, LoopStep, UserStep

\* A new context (and its stack) is made only when every other one is inside a task.
THEOREM ReusesContexts == ASSUME Orderly PROVE SafeSpec => ReuseBeforeCreate
<1> DEFINE Reuse == \A n \in Contexts : pc[n] = "unused" /\ pc'[n] = "begin" =>
                       \A c \in Contexts : pc[c] # "unused" => next[c] # NULL
<1>1. IInv /\ JInv /\ [Next]_vars => [Reuse]_vars
  <2> SUFFICES ASSUME IInv, JInv, Next, NEW n \in Contexts, pc[n] = "unused", pc'[n] = "begin",
                      NEW c \in Contexts, pc[c] # "unused"
               PROVE  next[c] # NULL
    OBVIOUS
  <2>1. PICK r \in Contexts : SwitchToNew(r)
    BY MakesContext
  <2>2. r = Running /\ pc[r] = "switch" /\ ready = <<>> /\ \A d : ~On(ready, d)
    BY <2>1, OnSome DEF SwitchToNew, At
  <2>3. Placed(c) /\ Calm(c) /\ Hand(c) /\ call[c] \in {"process_tasks", "wait", "sleep", "yield"}
    BY JInvParts, IInvParts
  <2>4. call[c] # "process_tasks" /\ Switching(c)
    <3>1. CASE c = r
      BY <2>2, <2>3, <3>1 DEF Calm, Leaving, Switching
    <3>2. CASE c # r
      <4>1. pc[c] = "suspended"
        BY <2>2, <3>2, JInvParts
      <4> QED BY <2>2, <2>3, <4>1 DEF Placed, InReady, Switching
    <3> QED BY <3>1, <3>2
  <2> QED BY <2>3, <2>4 DEF Hand, InTask
<1>2. SafeSpec => [][Reuse]_vars
  <2> HIDE DEF Reuse
  <2> QED BY <1>1, OrderlyInvariance, PTL DEF SafeSpec
<1> QED BY <1>2 DEF ReuseBeforeCreate

-----------------------------------------------------------------------------
(* The third invariant: when the OS thread sleeps *)

\* On the list q the contexts that come back from a wait are in front.
WaitersLead(q) == \A i, j \in 1..Len(q) : i < j /\ call[q[i]] # "wait" => call[q[j]] # "wait"

\* No context that comes back from a wait is ready.
NoWaiter == \A c \in Contexts : On(ready, c) => call[c] # "wait"

\* A loop that goes to block_wait without a look at the ready list.
MayWait(c) == \/ pc[c] \in {"block_wait", "cv_wait"}
              \/ pc[c] = "resumed" /\ call[c] = "process_tasks"

Resting(c) == /\ MayWait(c) => NoWaiter
              /\ pc[c] = "cv_wait" => task_in_queue = {} /\ task_pqueue = {}

KInv == WaitersLead(ready) /\ \A c \in Contexts : Resting(c)

\* The order of an unchanged list.
LEMMA LeadSame ==
    ASSUME IInv, JInv, KInv, ready' = ready, \A d \in Contexts : On(ready, d) => call'[d] = call[d]
    PROVE  WaitersLead(ready)' /\ (NoWaiter' <=> NoWaiter)
<1>1. ASSUME NEW i \in 1..Len(ready) PROVE call'[ready[i]] = call[ready[i]]
  <2>1. ready[i] \in Contexts /\ On(ready, ready[i])
    BY JInvParts, ElementOfSeq DEF On
  <2> QED BY <2>1
<1>2. WaitersLead(ready)'
  BY <1>1 DEF KInv, WaitersLead
<1>3. NoWaiter' <=> NoWaiter
  BY DEF NoWaiter
<1> QED BY <1>2, <1>3

\* A context that comes back from a wait at the front of the list, ...
LEMMA LeadFront ==
    ASSUME IInv, JInv, KInv, NEW x \in Contexts, call[x] = "wait"
    PROVE  WaitersLead(<<x>> \o ready)
<1> DEFINE h == <<x>>
           r == h \o ready
<1>0. ready \in Seq(Contexts) /\ Len(ready) \in Nat
  BY JInvParts, LenProperties
<1>1. h \in Seq(Contexts) /\ Len(h) = 1 /\ h[1] = x
  OBVIOUS
<1> HIDE DEF h
<1>2. /\ Len(r) = Len(h) + Len(ready)
      /\ \A i \in 1..(Len(h) + Len(ready)) : r[i] = IF i <= Len(h) THEN h[i] ELSE ready[i - Len(h)]
  BY <1>0, <1>1, ConcatProperties
<1> HIDE DEF r
<1>3. ASSUME NEW i \in 1..Len(r) PROVE \/ i = 1 /\ r[i] = x
                                       \/ i - 1 \in 1..Len(ready) /\ r[i] = ready[i - 1]
  <2>1. i \in 1..(Len(h) + Len(ready)) /\ (i = 1 \/ (i - 1 \in 1..Len(ready) /\ ~(i <= Len(h))))
    BY <1>0, <1>1, <1>2
  <2> QED BY <1>1, <1>2, <2>1
<1>4. ASSUME NEW i \in 1..Len(r), NEW j \in 1..Len(r), i < j, call[r[i]] # "wait"
      PROVE  call[r[j]] # "wait"
  <2>1. i - 1 \in 1..Len(ready) /\ r[i] = ready[i - 1]
    BY <1>3, <1>4
  <2>2. j # 1 /\ i - 1 < j - 1
    BY <1>4, <2>1
  <2>3. j - 1 \in 1..Len(ready) /\ r[j] = ready[j - 1]
    BY <1>3, <2>2
  <2> QED BY <1>4, <2>1, <2>2, <2>3 DEF KInv, WaitersLead
<1>5. WaitersLead(r)
  BY <1>4 DEF WaitersLead
<1> QED BY <1>5 DEF r, h

\* ... another one at its end, ...
LEMMA LeadBack ==
    ASSUME NEW q \in Seq(Contexts), WaitersLead(q), NEW c, call[c] # "wait", c \in Contexts
    PROVE  WaitersLead(Append(q, c))
<1> DEFINE a == Append(q, c)
<1>1. Len(a) = Len(q) + 1 /\ (\A i \in 1..Len(q) : a[i] = q[i]) /\ a[Len(q) + 1] = c /\ Len(q) \in Nat
  BY AppendProperties, LenProperties
<1> HIDE DEF a
<1>2. ASSUME NEW i \in 1..Len(a) PROVE \/ i \in 1..Len(q) /\ a[i] = q[i]
                                       \/ a[i] = c /\ i = Len(q) + 1
  <2>1. i \in 1..Len(q) \/ i = Len(q) + 1
    BY <1>1
  <2> QED BY <1>1, <2>1
<1>3. ASSUME NEW i \in 1..Len(a), NEW j \in 1..Len(a), i < j, call[a[i]] # "wait"
      PROVE  call[a[j]] # "wait"
  <2>1. CASE a[j] = c
    BY <2>1
  <2>2. CASE j \in 1..Len(q) /\ a[j] = q[j]
    <3>1. i # Len(q) + 1
      BY <1>1, <1>3, <2>2
    <3>2. i \in 1..Len(q) /\ a[i] = q[i]
      BY <1>2, <3>1
    <3> QED BY <1>3, <2>2, <3>2 DEF WaitersLead
  <2> QED BY <1>2, <2>1, <2>2
<1> QED BY <1>3 DEF WaitersLead, a

\* ... and the list without its head.
LEMMA LeadTail ==
    ASSUME IInv, JInv, KInv, ready # <<>>
    PROVE  /\ Tail(ready) \in Seq(Contexts) /\ WaitersLead(Tail(ready))
           /\ call[Head(ready)] # "wait" => \A d : On(Tail(ready), d) => call[d] # "wait"
<1> DEFINE t == Tail(ready)
<1>0. ready \in Seq(Contexts) /\ Len(ready) \in Nat /\ Len(ready) > 0
  BY JInvParts, LenProperties, EmptySeq
<1>1. /\ t \in Seq(Contexts) /\ Len(t) = Len(ready) - 1 /\ Head(ready) = ready[1]
      /\ \A i \in 1..Len(t) : t[i] = ready[i + 1]
  BY <1>0, HeadTailProperties
<1> HIDE DEF t
<1>2. Len(t) \in Nat /\ \A i \in 1..Len(t) : i + 1 \in 1..Len(ready)
  BY <1>0, <1>1
<1>3. WaitersLead(t)
  <2> SUFFICES ASSUME NEW i \in 1..Len(t), NEW j \in 1..Len(t), i < j, call[t[i]] # "wait"
               PROVE  call[t[j]] # "wait"
    BY DEF WaitersLead
  <2>1. i + 1 < j + 1 /\ i + 1 \in 1..Len(ready) /\ j + 1 \in 1..Len(ready) /\ t[i] = ready[i + 1] /\ t[j] = ready[j + 1]
    BY <1>1, <1>2
  <2> QED BY <2>1 DEF KInv, WaitersLead
<1>4. ASSUME call[Head(ready)] # "wait", NEW d, On(t, d) PROVE call[d] # "wait"
  <2>1. PICK i \in 1..Len(t) : t[i] = d
    BY <1>4 DEF On
  <2>2. 1 \in 1..Len(ready) /\ 1 < i + 1 /\ i + 1 \in 1..Len(ready) /\ t[i] = ready[i + 1]
    BY <1>0, <1>1, <1>2
  <2> QED BY <1>1, <1>4, <2>1, <2>2 DEF KInv, WaitersLead
<1> QED BY <1>1, <1>3, <1>4 DEF t

\* A context that neither waits nor was just resumed.
LEMMA RestingPlain ==
    ASSUME NEW d, pc'[d] \notin {"block_wait", "cv_wait", "resumed"}
    PROVE  Resting(d)'
BY DEF Resting, MayWait

\* A context that does not run and is not resumed.
LEMMA RestingOther ==
    ASSUME IInv, JInv, NEW d \in Contexts, d # Running, pc'[d] = pc[d]
    PROVE  Resting(d)'
<1>1. pc[d] \in {"unused", "suspended"}
  BY JInvParts
<1> QED BY <1>1, RestingPlain

\* A step of c that keeps the order of the ready list and does not go to wait.
LEMMA GoK ==
    ASSUME IInv, JInv, KInv, NEW c \in Contexts, c = Running, WaitersLead(ready)',
           NEW l, l \notin {"block_wait", "cv_wait", "resumed"}, Goto(c, l)
    PROVE  KInv'
<1>1. pc'[c] = l /\ \A d \in Contexts : d # c => pc'[d] = pc[d]
  BY JInvParts DEF Goto
<1>2. Resting(c)'
  BY <1>1, RestingPlain
<1>3. \A d \in Contexts : d # c => Resting(d)'
  BY <1>1, RestingOther
<1> QED BY <1>2, <1>3 DEF KInv

\* The loop begins, goes round, leaves, resumes a ready context, or runs a task.
LEMMA LoopK ==
    ASSUME IInv, JInv, KInv, NEW c \in Contexts,
           \/ LoopBegin(c) \/ LoopTop(c) \/ LoopTimedOut(c) \/ LoopSpuriousWake(c)
           \/ CheckDone(c) \/ ResumeYieldOrSleep(c) \/ ResumeWait(c) \/ RunFunctor(c)
           \/ ThreadWaitReturns(c) \/ WaitResult(c)
    PROVE  KInv'
<1> USE DEF listVars, ctxVars
<1>0. then[c] \in {"top", "after_run", "switch"}
  BY IInvParts DEF TypeOK
<1>1. c = Running /\ ready' = ready /\ call' = call
  BY DEF LoopBegin, LoopTop, LoopTimedOut, LoopSpuriousWake, CheckDone, ResumeYieldOrSleep, ResumeWait,
         RunFunctor, ThreadWaitReturns, WaitResult, At
<1>2. WaitersLead(ready)'
  BY <1>1, LeadSame
<1>3. CASE LoopBegin(c) \/ LoopTop(c) \/ LoopTimedOut(c) \/ LoopSpuriousWake(c)
  <2>1. \E l : l \notin {"block_wait", "cv_wait", "resumed"} /\ Goto(c, l)
    BY <1>3 DEF LoopBegin, LoopTop, LoopTimedOut, LoopSpuriousWake, CheckForTimeouts
  <2> QED BY <1>1, <1>2, <2>1, GoK
<1>4. CASE CheckDone(c)
  <2>1. \E l \in {"idle", "run", "switch"} : Goto(c, l)
    BY <1>0, <1>4 DEF CheckDone
  <2> QED BY <1>1, <1>2, <2>1, GoK
<1>5. CASE ResumeYieldOrSleep(c) \/ ResumeWait(c) \/ RunFunctor(c) \/ ThreadWaitReturns(c) \/ WaitResult(c)
  <2>1. \E l \in {"user", "wait_result"} : Goto(c, l)
    BY <1>5 DEF ResumeYieldOrSleep, ResumeWait, RunFunctor, ThreadWaitReturns, WaitResult
  <2> QED BY <1>1, <1>2, <2>1, GoK
<1> QED BY <1>3, <1>4, <1>5

\* A step of c into start_next_task(): c is on no list yet.
LEMMA LeaveK ==
    ASSUME IInv, JInv, KInv, NEW c \in Contexts, c = Running, ready' = ready, pc[c] \in {"idle", "user", "wait"},
           NEW k, StartNextTask(c, k)
    PROVE  KInv'
<1>0. Placed(c) /\ call \in [Contexts -> {"process_tasks", "wait", "sleep", "yield"}]
  BY JInvParts
<1>1. ~On(ready, c)
  BY <1>0 DEF Placed, Leaving, Nowhere
<1>2. \A d \in Contexts : On(ready, d) => call'[d] = call[d]
  BY <1>0, <1>1 DEF StartNextTask
<1>3. WaitersLead(ready)'
  BY <1>2, LeadSame
<1>4. \E l : l \notin {"block_wait", "cv_wait", "resumed"} /\ Goto(c, l)
  BY DEF StartNextTask, CheckForTimeouts
<1> QED BY <1>3, <1>4, GoK

\* A step of c that keeps the ready list, in a loop that may go to wait.
LEMMA WaitK ==
    ASSUME IInv, JInv, KInv, NEW c \in Contexts, c = Running, ready' = ready, call' = call,
           NEW l, Goto(c, l), NoWaiter, l = "cv_wait" => task_in_queue' = {} /\ task_pqueue' = {}
    PROVE  KInv'
<1>1. pc'[c] = l /\ \A d \in Contexts : d # c => pc'[d] = pc[d]
  BY JInvParts DEF Goto
<1>2. WaitersLead(ready)' /\ NoWaiter'
  BY LeadSame
<1>3. Resting(c)'
  BY <1>1, <1>2 DEF Resting
<1>4. \A d \in Contexts : d # c => Resting(d)'
  BY <1>1, RestingOther
<1> QED BY <1>2, <1>3, <1>4 DEF KInv

\* dequeue() that finds no task leaves none that is due.
LEMMA DequeueNone ==
    ASSUME IInv, NEW c \in Contexts, dequeue(c), next'[c] = NULL
    PROVE  task_in_queue' = {} /\ task_pqueue' = {}
<1>0. /\ next \in [Contexts -> Futures \cup {NULL}] /\ task_in_queue \subseteq Futures
      /\ task_pqueue \subseteq Futures /\ task_sch_queue \subseteq Futures /\ NULL \notin Futures
  BY IInvParts DEF TypeOK
<1> DEFINE sch == task_sch_queue \cup Later(task_in_queue)
           pq  == task_pqueue \cup Due(task_in_queue)
           due == Due(ScheduleFront(sch))
           front == PriorityFront(pq)
<1>1. due \subseteq Futures /\ front \subseteq Futures
  BY <1>0 DEF Later, Due, ScheduleFront, PriorityFront
<1>2. /\ task_in_queue' = {}
      /\ \/ \E t \in due : next' = [next EXCEPT ![c] = t]
         \/ \E t \in front : next' = [next EXCEPT ![c] = t]
         \/ task_pqueue' = {}
  BY DEF dequeue
<1> HIDE DEF due, front
<1>3. ASSUME NEW t \in Futures, next' = [next EXCEPT ![c] = t] PROVE FALSE
  BY <1>0, <1>3
<1> QED BY <1>1, <1>2, <1>3

\* No context is ready, or the loop was resumed behind the contexts with a task.
LEMMA WaitingK ==
    ASSUME IInv, JInv, KInv, NEW c \in Contexts, LoopIdle(c) \/ ResumeLoop(c) \/ LoopBlockWait(c)
    PROVE  KInv'
<1> USE DEF listVars, ctxVars
<1>0. Resting(c)
  BY DEF KInv
<1>1. CASE LoopIdle(c)
  <2>1. c = Running /\ ready' = ready /\ pc[c] = "idle"
    BY <1>1 DEF LoopIdle, At
  <2>2. CASE (Goto(c, "exited") \/ Goto(c, "top")) /\ UNCHANGED call
    <3>1. \E l \in {"exited", "top"} : Goto(c, l)
      BY <2>2
    <3>2. WaitersLead(ready)'
      BY <2>1, <2>2, LeadSame
    <3> QED BY <2>1, <3>1, <3>2, GoK
  <2>3. CASE StartNextTask(c, "process_tasks")
    BY <2>1, <2>3, LeaveK
  <2>4. CASE ready = <<>> /\ Goto(c, "block_wait") /\ UNCHANGED call
    <3>1. NoWaiter
      BY <2>4, OnSome DEF NoWaiter
    <3>2. \E l : l # "cv_wait" /\ Goto(c, l)
      BY <2>4
    <3> QED BY <2>1, <2>4, <3>1, <3>2, WaitK
  <2>5. \/ (Goto(c, "exited") \/ Goto(c, "top")) /\ UNCHANGED call
        \/ StartNextTask(c, "process_tasks")
        \/ ready = <<>> /\ Goto(c, "block_wait") /\ UNCHANGED call
    BY <1>1 DEF LoopIdle
  <2> QED BY <2>2, <2>3, <2>4, <2>5
<1>2. CASE ResumeLoop(c)
  <2>1. c = Running /\ ready' = ready /\ call' = call /\ pc[c] = "resumed" /\ call[c] = "process_tasks"
    BY <1>2 DEF ResumeLoop, At
  <2>2. NoWaiter
    BY <1>0, <2>1 DEF Resting, MayWait
  <2>3. \E l : l # "cv_wait" /\ Goto(c, l)
    BY <1>2 DEF ResumeLoop
  <2> QED BY <2>1, <2>2, <2>3, WaitK
<1>3. CASE LoopBlockWait(c)
  <2>1. /\ c = Running /\ ready' = ready /\ call' = call /\ pc[c] = "block_wait" /\ dequeue(c)
        /\ Goto(c, IF next'[c] = NULL THEN "cv_wait" ELSE "top")
    BY <1>3 DEF LoopBlockWait, At
  <2>2. NoWaiter
    BY <1>0, <2>1 DEF Resting, MayWait
  <2>3. PICK l : Goto(c, l) /\ (l = "cv_wait" => next'[c] = NULL)
    BY <2>1
  <2>4. l = "cv_wait" => task_in_queue' = {} /\ task_pqueue' = {}
    BY <2>1, <2>3, DequeueNone
  <2> QED BY <2>1, <2>2, <2>3, <2>4, WaitK
<1> QED BY <1>1, <1>2, <1>3

\* A context blocks in thread::wait, sleeps or yields.
LEMMA BlocksK ==
    ASSUME IInv, JInv, KInv, NEW c \in Contexts, ThreadWaitBlocks(c) \/ UserSleep(c) \/ UserYield(c) PROVE KInv'
<1>1. /\ c = Running /\ ready' = ready /\ pc[c] \in {"idle", "user", "wait"}
      /\ \E k \in {"wait", "sleep", "yield"} : StartNextTask(c, k)
  BY DEF ThreadWaitBlocks, UserSleep, UserYield, User, At, listVars
<1> QED BY <1>1, LeaveK

\* A task posts a task, or looks at a promise.
LEMMA UserK ==
    ASSUME IInv, JInv, KInv, NEW c \in Contexts,
           UserAsync(c) \/ UserSchedule(c) \/ UserWait(c) \/ UserTimedWait(c)
    PROVE  KInv'
<1> USE DEF listVars, ctxVars
<1>0. pc \in [Contexts -> Labels]
  BY JInvParts
<1>1. c = Running /\ ready' = ready /\ call' = call /\ pc[c] = "user"
  BY DEF UserAsync, UserSchedule, UserWait, UserTimedWait, User, At
<1>2. UNCHANGED pc \/ Goto(c, "wait")
  BY DEF UserAsync, UserSchedule, UserWait, UserTimedWait, PromiseWait
<1>3. UNCHANGED pc => Goto(c, "user")
  BY <1>0, <1>1 DEF Goto
<1>4. \E l : l \notin {"block_wait", "cv_wait", "resumed"} /\ Goto(c, l)
  BY <1>2, <1>3
<1>5. WaitersLead(ready)'
  BY <1>1, LeadSame
<1> QED BY <1>1, <1>4, <1>5, GoK

\* A step of c that may wake a context.
LEMMA WakesK ==
    ASSUME IInv, JInv, KInv, NEW c \in Contexts, c = Running, call' = call,
           NEW l \in {"check", "expire"}, Goto(c, l),
           ready' # ready => \E x \in Contexts : On(blocked, x) /\ ready' = <<x>> \o ready
    PROVE  KInv'
<1>1. CASE ready' = ready
  <2>1. WaitersLead(ready)'
    BY <1>1, LeadSame
  <2> QED BY <2>1, GoK
<1>2. CASE ready' # ready
  <2>1. PICK x \in Contexts : On(blocked, x) /\ ready' = <<x>> \o ready
    BY <1>2
  <2>2. call[x] = "wait"
    BY <2>1, OnBlocked
  <2>3. WaitersLead(<<x>> \o ready)
    BY <2>2, LeadFront
  <2>4. WaitersLead(ready)'
    BY <2>1, <2>3 DEF WaitersLead
  <2> QED BY <2>4, GoK
<1> QED BY <1>1, <1>2

\* The end of a task wakes the context that waits for it.
LEMMA EndTaskK ==
    ASSUME IInv, JInv, KInv, NEW c \in Contexts,
           UserReturn(c) \/ UserThrow(c) \/ RunCanceled(c) \/ RunNotify(c)
    PROVE  KInv'
<1> USE DEF listVars
<1>0. Hand(c) /\ next \in [Contexts -> Futures \cup {NULL}] /\ LocalFutures \subseteq Futures /\ RemoteFutures \subseteq Futures
  BY IInvParts DEF TypeOK
<1>1. PICK t \in Futures : t = next[c]
  BY <1>0 DEF UserReturn, UserThrow, RunCanceled, RunNotify, At, Hand, InTask
<1>2. c = Running /\ call' = call /\ EndTask(c, t)
  BY <1>1 DEF UserReturn, UserThrow, RunCanceled, RunNotify, At
<1>3. ready' = ready \/ Delivered(t)
  <2>1. CASE UserReturn(c)
    BY <1>1, <2>1, NotifyPromiseDelivers DEF UserReturn, set_value
  <2>2. CASE UserThrow(c)
    BY <1>1, <2>2, NotifyPromiseDelivers DEF UserThrow, set_exception
  <2>3. CASE RunCanceled(c)
    BY <1>1, <2>3, NotifyPromiseDelivers DEF RunCanceled, set_exception
  <2>4. CASE RunNotify(c)
    BY <1>1, <2>4, NotifyDelivers DEF RunNotify
  <2> QED BY <2>1, <2>2, <2>3, <2>4
<1>4. ready' # ready => \E x \in Contexts : On(blocked, x) /\ ready' = <<x>> \o ready
  BY <1>3 DEF Delivered, Moved, Still
<1>5. \E l \in {"check", "expire"} : Goto(c, l)
  BY <1>2 DEF EndTask, CheckForTimeouts
<1> QED BY <1>2, <1>4, <1>5, WakesK

\* A waiter whose deadline has passed comes to the front, a sleeper goes to the end.
LEMMA ExpireSleeperK ==
    ASSUME IInv, JInv, KInv, NEW c \in Contexts, ExpireSleeper(c) PROVE KInv'
<1> USE DEF ctxVars, promVars
<1>0. sleep_pqueue \in [Contexts -> Nat]
  BY JInvParts
<1>1. c = Running /\ pc[c] \in {"check", "expire"} /\ Goto(c, "expire") /\ call' = call
  BY DEF ExpireSleeper, At
<1>2. PICK x \in Expired :
          LET rest == [sleep_pqueue EXCEPT ![x] = @ - 1] IN
          \/ prom[x] # NULL /\ set_exception(prom[x], "timeout", rest)
          \/ prom[x] = NULL /\ ready' = Append(ready, x)
  BY DEF ExpireSleeper
<1>3. x \in Contexts /\ sleep_pqueue[x] > 0 /\ sleep_pqueue[x] \in Nat
  BY ExpiredSleeper
<1>4. CASE prom[x] = NULL /\ ready' = Append(ready, x)
  <2>1. call[x] # "wait"
    <3>1. ~Blocked(x)
      BY <1>4 DEF Blocked
    <3> QED BY <1>3, <3>1, InHeap
  <2>2. ready \in Seq(Contexts) /\ WaitersLead(ready)
    BY JInvParts DEF KInv
  <2>3. WaitersLead(Append(ready, x))
    BY <1>3, <2>1, <2>2, LeadBack
  <2>4. WaitersLead(ready)'
    BY <1>1, <1>4, <2>3 DEF WaitersLead
  <2>5. \E l : l \notin {"block_wait", "cv_wait", "resumed"} /\ Goto(c, l)
    BY <1>1
  <2> QED BY <1>1, <2>4, <2>5, GoK
<1> DEFINE rest == [sleep_pqueue EXCEPT ![x] = @ - 1]
<1>5. CASE prom[x] # NULL /\ set_exception(prom[x], "timeout", rest)
  <2>1. Blocked(x)
    BY <1>3, <1>5, InHeap DEF Asleep
  <2>2. On(blocked, x) /\ prom[x] \in Futures /\ m_blocked_thread[prom[x]]
    <3>1. On(blocked, x)
      BY <2>1 DEF Blocked
    <3> QED BY <1>3, <3>1, OnBlocked
  <2>3. /\ rest \in [Contexts -> Nat] /\ rest[x] <= sleep_pqueue[x]
        /\ \A d \in Contexts : d # x => rest[d] = sleep_pqueue[d]
    BY <1>0, <1>3
  <2>4. Notify(prom[x], rest)
    BY <1>5, <2>2 DEF set_exception, NotifyPromise
  <2> HIDE DEF rest
  <2>5. Moved(x)
    BY <1>3, <2>2, <2>3, <2>4, NotifyMoves
  <2>6. \E l \in {"check", "expire"} : Goto(c, l)
    BY <1>1
  <2> QED BY <1>1, <1>3, <2>2, <2>5, <2>6, WakesK DEF Moved
<1> QED BY <1>2, <1>4, <1>5

\* start_next_task() resumes the head of the list: a loop only when no waiter is ready.
LEMMA SwitchToReadyK ==
    ASSUME IInv, JInv, KInv, NEW c \in Contexts, SwitchToReady(c) PROVE KInv'
<1> USE DEF ctxVars
<1>0. pc \in [Contexts -> Labels] /\ ready \in Seq(Contexts)
  BY JInvParts
<1>1. c = Running /\ ready # <<>> /\ call' = call /\ ready' = PushBack(Tail(ready), c)
  BY DEF SwitchToReady, At, ready_pop_front
<1>2. PICK h \in Contexts : h = Head(ready)
  BY <1>0, <1>1, OnTail
<1>3. h # c /\ pc' = [pc EXCEPT ![c] = "suspended", ![h] = "resumed"]
  BY <1>2 DEF SwitchToReady
<1>4. PICK q \in Seq(Contexts) : q = Tail(ready) /\ WaitersLead(q)
                                 /\ (call[h] # "wait" => \A d : On(q, d) => call[d] # "wait")
  BY <1>1, <1>2, LeadTail
<1>5. WaitersLead(ready)' /\ (call[h] # "wait" => NoWaiter')
  <2>1. CASE Reschedule(c)
    <3>1. ready' = Append(q, c) /\ call[c] # "wait"
      BY <1>1, <1>4, <2>1 DEF PushBack, Reschedule
    <3>2. WaitersLead(Append(q, c)) /\ \A d : On(Append(q, c), d) <=> On(q, d) \/ d = c
      BY <1>4, <3>1, LeadBack, OnPushed
    <3>3. WaitersLead(ready)'
      BY <1>1, <3>1, <3>2 DEF WaitersLead
    <3>4. ASSUME call[h] # "wait" PROVE NoWaiter'
      BY <1>1, <1>4, <3>1, <3>2, <3>4 DEF NoWaiter
    <3> QED BY <3>3, <3>4
  <2>2. CASE ~Reschedule(c)
    <3>1. ready' = q
      BY <1>1, <1>4, <2>2 DEF PushBack
    <3>2. WaitersLead(ready)'
      BY <1>1, <1>4, <3>1 DEF WaitersLead
    <3>3. ASSUME call[h] # "wait" PROVE NoWaiter'
      BY <1>1, <1>4, <3>1, <3>3 DEF NoWaiter
    <3> QED BY <3>2, <3>3
  <2> QED BY <2>1, <2>2
<1>6. pc'[c] = "suspended" /\ pc'[h] = "resumed" /\ \A d \in Contexts : d # c /\ d # h => pc'[d] = pc[d]
  BY <1>0, <1>3
<1>7. Resting(c)'
  BY <1>6, RestingPlain
<1>8. Resting(h)'
  BY <1>1, <1>5, <1>6 DEF Resting, MayWait
<1>9. ASSUME NEW d \in Contexts, d # c, d # h PROVE Resting(d)'
  BY <1>1, <1>6, <1>9, RestingOther
<1> QED BY <1>5, <1>7, <1>8, <1>9 DEF KInv

\* A new context starts while no context is ready.
LEMMA SwitchToNewK ==
    ASSUME IInv, JInv, KInv, NEW c \in Contexts, SwitchToNew(c) PROVE KInv'
<1> USE DEF ctxVars
<1>0. pc \in [Contexts -> Labels] /\ ready \in Seq(Contexts) /\ WaitersLead(ready)
  BY JInvParts DEF KInv
<1>1. c = Running /\ pc[c] = "switch" /\ ready' = PushBack(ready, c) /\ call' = call
  BY DEF SwitchToNew, At
<1>2. PICK n \in Contexts : pc[n] = "unused" /\ pc' = [pc EXCEPT ![c] = "suspended", ![n] = "begin"]
  BY DEF SwitchToNew
<1>3. WaitersLead(ready)'
  <2>1. CASE Reschedule(c)
    <3>1. ready' = Append(ready, c) /\ call[c] # "wait"
      BY <1>1, <2>1 DEF PushBack, Reschedule
    <3>2. WaitersLead(Append(ready, c))
      BY <1>0, <3>1, LeadBack
    <3> QED BY <1>1, <3>1, <3>2 DEF WaitersLead
  <2>2. CASE ~Reschedule(c)
    BY <1>0, <1>1, <2>2 DEF PushBack, WaitersLead
  <2> QED BY <2>1, <2>2
<1>4. pc'[c] = "suspended" /\ pc'[n] = "begin" /\ \A d \in Contexts : d # c /\ d # n => pc'[d] = pc[d]
  BY <1>0, <1>1, <1>2
<1>5. Resting(c)' /\ Resting(n)'
  BY <1>4, RestingPlain
<1>6. \A d \in Contexts : d # c /\ d # n => Resting(d)'
  BY <1>1, <1>4, RestingOther
<1> QED BY <1>3, <1>5, <1>6 DEF KInv

\* A step of another thread leaves the loop asleep only if it posts nothing.
LEMMA OutsideK ==
    ASSUME IInv, JInv, KInv, ready' = ready, call' = call,
           Wake \/ (pc' = pc /\ task_in_queue' = task_in_queue /\ task_pqueue' = task_pqueue)
    PROVE  KInv'
<1>0. WaitersLead(ready)' /\ (NoWaiter' <=> NoWaiter)
  BY LeadSame
<1>1. ASSUME NEW d \in Contexts PROVE Resting(d)'
  <2>0. Resting(d)
    BY DEF KInv
  <2>1. CASE Wake
    <3>1. pc'[d] = IF pc[d] = "cv_wait" THEN "top" ELSE pc[d]
      BY <2>1 DEF Wake
    <3> QED BY <1>0, <2>0, <3>1 DEF Resting, MayWait
  <2>2. CASE pc' = pc /\ task_in_queue' = task_in_queue /\ task_pqueue' = task_pqueue
    BY <1>0, <2>0, <2>2 DEF Resting, MayWait
  <2> QED BY <2>1, <2>2
<1> QED BY <1>0, <1>1 DEF KInv

\* The third invariant holds when the thread starts.
LEMMA InitK == Init => KInv
BY DEF Init, KInv, WaitersLead, Resting, MayWait

\* Every step keeps it.
LEMMA NextK == ASSUME Orderly PROVE IInv /\ JInv /\ KInv /\ [Next]_vars => KInv'
<1> SUFFICES ASSUME IInv, JInv, KInv, [Next]_vars PROVE KInv'
  OBVIOUS
<1> USE DEF listVars, queueVars, ctxVars
<1>0. /\ ~ListFault
      /\ \A c \in Contexts : /\ ~ResumeLoopFault(c) /\ ~RunNotifyFault(c)
                             /\ ~QuitFault(c) /\ ~QuitWalk(c) /\ ~QuitEnd(c)
                             /\ ~UserCancel(c) /\ ~UserQuit(c)
  BY NoFaultStep
<1>1. ASSUME NEW c \in Contexts, SwitchFault(c) PROVE KInv'
  BY <1>1, OutsideK DEF SwitchFault
<1>2. ASSUME NEW c \in Contexts, LoopStep(c) PROVE KInv'
  BY <1>0, <1>2, <1>1, LoopK, WaitingK, BlocksK, EndTaskK, ExpireSleeperK, SwitchToReadyK, SwitchToNewK
  DEF LoopStep
<1>3. ASSUME NEW c \in Contexts, UserStep(c) PROVE KInv'
  BY <1>0, <1>3, UserK, BlocksK, EndTaskK DEF UserStep
<1>4. ASSUME NEW c \in Contexts, LoopSpuriousWake(c) PROVE KInv'
  BY <1>4, LoopK
<1>5. ASSUME NEW f \in LocalFutures, RemotePost(f) PROVE KInv'
  BY <1>5, OutsideK DEF RemotePost
<1>6. ASSUME NEW p \in RemoteFutures, RemoteSet(p) \/ RemoteNotify(p) PROVE KInv'
  BY <1>6, OutsideK DEF RemoteSet, RemoteNotify
<1>7. CASE Tick
  BY <1>7, OutsideK DEF Tick
<1>8. CASE UNCHANGED vars
  BY <1>8, OutsideK DEF vars
<1> QED BY <1>0, <1>2, <1>3, <1>4, <1>5, <1>6, <1>7, <1>8 DEF Next

\* The OS thread sleeps only when no posted task is due and no context that came back
\* from a wait is ready: a resumed loop does not look at the ready list again before it
\* goes to wait, and the order of the list makes that safe for the waiters, whatever
\* yields and sleeps there are behind them.
THEOREM SleepsOnlyWithoutWork == ASSUME Orderly PROVE SafeSpec => []IdleOnlyWhenNoWork
<1>1. Init => IInv /\ JInv /\ KInv
  BY InitIInv, InitJ, InitK
<1>2. (IInv /\ JInv /\ KInv) /\ [Next]_vars => (IInv /\ JInv /\ KInv)'
  BY NextIInv, NextJ, NextK
<1>3. IInv /\ JInv /\ KInv => IdleOnlyWhenNoWork
  <2> SUFFICES ASSUME IInv, JInv, KInv, NEW c \in Contexts, pc[c] = "cv_wait"
               PROVE  /\ task_in_queue = {} /\ task_pqueue = {}
                      /\ \A i \in DOMAIN ready : next[ready[i]] = NULL \/ call[ready[i]] \in {"yield", "sleep"}
    BY DEF IdleOnlyWhenNoWork
  <2>1. task_in_queue = {} /\ task_pqueue = {} /\ NoWaiter
    BY DEF KInv, Resting, MayWait
  <2>2. ASSUME NEW d \in Contexts, On(ready, d) PROVE next[d] = NULL \/ call[d] \in {"yield", "sleep"}
    <3>1. Placed(d) /\ Hand(d) /\ call[d] \in {"process_tasks", "wait", "sleep", "yield"} /\ call[d] # "wait"
      BY <2>1, <2>2, JInvParts, IInvParts DEF NoWaiter
    <3>2. CASE call[d] = "process_tasks"
      <4>1. pc[d] = "suspended"
        BY <2>2, <3>1, <3>2 DEF Placed, Nowhere
      <4> QED BY <3>1, <3>2, <4>1 DEF Hand, NoTask, Switching
    <3> QED BY <3>1, <3>2
  <2>3. \A i \in DOMAIN ready : ready[i] \in Contexts /\ On(ready, ready[i])
    BY JInvParts, LenProperties, ElementOfSeq DEF On
  <2> QED BY <2>1, <2>2, <2>3
<1> QED BY <1>1, <1>2, <1>3, PTL DEF SafeSpec
=============================================================================
