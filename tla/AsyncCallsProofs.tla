-------------------------- MODULE AsyncCallsProofs --------------------------
(***************************************************************************)
(* Proofs about AsyncCalls, for any threads, calls and heap cells: a       *)
(* promise lives as long as somebody points to it, a call ends with its    *)
(* own result, no wakeup is lost, and, if sync() finds no notification of  *)
(* an earlier frame, no count of references goes below 0.                  *)
(***************************************************************************)
EXTENDS AsyncCalls, FiniteSetTheorems, TLAPS

Promises == [m_ref_count : Int, m_value : BOOLEAN, m_error : {"none", "timeout", "error"},
             m_blocked_thread : Threads \cup {NULL}]
Places == {"idle", "wait", "enter", "blocked", "ready", "result"}
Outcomes == {"none", "value", "error", "timeout", "not_ready"}
OpStates == {"none", "pending", "notify", "drop"}

\* The types.  Notifications of a frame that is gone are released on whatever is there
\* now, so that the count of a frame's promise is any integer.
Types == /\ promise \in [Addresses -> Promises]
         /\ pc \in [Calls -> Places]
         /\ kind \in [Calls -> KindNames \cup {NULL}]
         /\ home \in [Calls -> Threads \cup {NULL}]
         /\ prom \in [Calls -> Addresses \cup {NULL}]
         /\ timed \in [Calls -> BOOLEAN]
         /\ outcome \in [Calls -> Outcomes]
         /\ shared \in [Calls -> BOOLEAN]
         /\ op \in [Calls -> OpStates]
         /\ posted \in [Threads -> [Addresses -> Nat]]

\* A call in progress has a thread, and a call or handler in progress a promise: in the
\* frame for sync(), and only there.  The slot of a signal is there while the call lasts.
CallOK(c) ==
    /\ pc[c] # "idle" => home[c] \in Threads
    /\ pc[c] # "idle" \/ op[c] # "none" => prom[c] \in Addresses /\ kind[c] \in KindNames
    /\ kind[c] = "sync" => prom[c] = c
    /\ prom[c] \in Calls => prom[c] = c /\ kind[c] = "sync"
    /\ kind[c] = "signal" => ~shared[c] /\ op[c] = IF pc[c] = "idle" THEN "none" ELSE "pending"

\* A call that waits has left word which thread to notify.
NamesThread(c) ==
    pc[c] \in {"enter", "blocked"} /\ prom[c] \in Cells => At(c).m_blocked_thread \in Threads

\* A promise has one handler, and one user unless its future is shared.
OneHandler(c, d) == op[c] # "none" /\ op[d] # "none" /\ prom[c] = prom[d] => c = d
OneUser(c, d) ==
    pc[c] # "idle" /\ ~shared[c] /\ prom[d] = prom[c] /\ c # d => pc[d] = "idle" /\ op[d] = "none"

\* While its operation is pending nobody else has set the promise.
NotSetYet(c) ==
    op[c] = "pending" /\ kind[c] # "signal" /\ ~FrameGone(c)
        => ~At(c).m_value /\ At(c).m_error # "error"

\* Who alone waits for a promise is woken only when it is set.
WokenWhenSet(c) ==
    /\ pc[c] # "idle" /\ ~shared[c] /\ kind[c] # "sync"
    /\ \/ pc[c] \in {"ready", "result"}
       \/ op[c] = "notify"
       \/ \E t \in Threads : posted[t][prom[c]] > 0
    => ready(At(c))

\* The inductive invariant.
IInv == /\ Types
        /\ \A c \in Calls : CallOK(c) /\ NamesThread(c) /\ NotSetYet(c) /\ WokenWhenSet(c)
        /\ \A c, d \in Calls : OneHandler(c, d) /\ OneUser(c, d)
        /\ \A a \in Cells : IsFiniteSet(Notices(a))
        /\ CountIsHolders
        /\ ResultIsOwn
        /\ WakeupOnItsWay

-----------------------------------------------------------------------------
(* Promises *)

\* A promise is made with its references, and empty.
LEMMA NewPromiseFacts ==
    ASSUME NEW n \in Int
    PROVE  /\ NewPromise(n) \in Promises
           /\ NewPromise(n).m_ref_count = n
           /\ ~NewPromise(n).m_value /\ NewPromise(n).m_error = "none"
           /\ NewPromise(n).m_blocked_thread = NULL
           /\ ~ready(NewPromise(n))
BY DEF NewPromise, Promises, ready

\* What is deleted counts as not set.
LEMMA DeletedFacts ==
    /\ Deleted \in Promises /\ Deleted.m_ref_count = 0
    /\ ~Deleted.m_value /\ Deleted.m_error = "none" /\ ~ready(Deleted)
<1>1. 0 \in Int
  OBVIOUS
<1> QED BY <1>1, NewPromiseFacts DEF Deleted

\* retain() changes the count only.
LEMMA RetainFacts ==
    ASSUME NEW p \in Promises, NEW n \in Int
    PROVE  /\ retain(p, n) \in Promises
           /\ retain(p, n).m_ref_count = p.m_ref_count + n
           /\ retain(p, n).m_value = p.m_value /\ retain(p, n).m_error = p.m_error
           /\ retain(p, n).m_blocked_thread = p.m_blocked_thread
           /\ ready(retain(p, n)) <=> ready(p)
<1>1. /\ retain(p, n) \in Promises
      /\ retain(p, n).m_ref_count = p.m_ref_count + n
      /\ retain(p, n).m_value = p.m_value /\ retain(p, n).m_error = p.m_error
      /\ retain(p, n).m_blocked_thread = p.m_blocked_thread
  BY DEF retain, Promises
<1> QED BY <1>1 DEF ready

\* release() changes the count only, or deletes.
LEMMA ReleaseFacts ==
    ASSUME NEW p \in Promises, NEW n \in Int
    PROVE  /\ release(p, n) \in Promises
           /\ release(p, n).m_ref_count = p.m_ref_count - n
           /\ release(p, n) # Deleted =>
                /\ release(p, n).m_value = p.m_value /\ release(p, n).m_error = p.m_error
                /\ release(p, n).m_blocked_thread = p.m_blocked_thread
                /\ ready(release(p, n)) <=> ready(p)
<1>1. CASE p.m_ref_count = n
  <2>1. release(p, n) = Deleted /\ n - n = 0
    BY <1>1 DEF release
  <2> QED BY <1>1, <2>1, DeletedFacts
<1>2. CASE p.m_ref_count # n
  <2>1. release(p, n) = [p EXCEPT !.m_ref_count = @ - n]
    BY <1>2 DEF release
  <2>2. /\ release(p, n) \in Promises
        /\ release(p, n).m_ref_count = p.m_ref_count - n
        /\ release(p, n).m_value = p.m_value /\ release(p, n).m_error = p.m_error
        /\ release(p, n).m_blocked_thread = p.m_blocked_thread
    BY <2>1 DEF Promises
  <2> QED BY <2>2 DEF ready
<1> QED BY <1>1, <1>2

\* Setting the value: nothing happens if there is an error.
LEMMA ValuedFacts ==
    ASSUME NEW p \in Promises
    PROVE  /\ Valued(p) \in Promises
           /\ Valued(p).m_ref_count = p.m_ref_count
           /\ Valued(p).m_error = p.m_error
           /\ Valued(p).m_value = (p.m_error = "none" \/ p.m_value)
           /\ Valued(p).m_blocked_thread = p.m_blocked_thread
           /\ ready(Valued(p))
<1>1. /\ Valued(p) \in Promises
      /\ Valued(p).m_ref_count = p.m_ref_count
      /\ Valued(p).m_error = p.m_error
      /\ Valued(p).m_value = (p.m_error = "none" \/ p.m_value)
      /\ Valued(p).m_blocked_thread = p.m_blocked_thread
  BY DEF Valued, Promises
<1> QED BY <1>1 DEF ready

\* Setting or taking an error.
LEMMA ErrorFacts ==
    ASSUME NEW p \in Promises, NEW e \in {"none", "timeout", "error"}
    PROVE  LET q == [p EXCEPT !.m_error = e]
           IN /\ q \in Promises
              /\ q.m_ref_count = p.m_ref_count /\ q.m_error = e /\ q.m_value = p.m_value
              /\ q.m_blocked_thread = p.m_blocked_thread
              /\ ready(q) <=> (e # "none" \/ p.m_value)
<1> DEFINE q == [p EXCEPT !.m_error = e]
<1>1. /\ q \in Promises
      /\ q.m_ref_count = p.m_ref_count /\ q.m_error = e /\ q.m_value = p.m_value
      /\ q.m_blocked_thread = p.m_blocked_thread
  BY DEF Promises
<1> HIDE DEF q
<1>2. ready(q) <=> (e # "none" \/ p.m_value)
  BY <1>1 DEF ready
<1> QED BY <1>1, <1>2 DEF q

\* Leaving word: one reference more, and the thread.
LEMMA EnqueueFacts ==
    ASSUME NEW c \in Calls, At(c) \in Promises, home[c] \in Threads
    PROVE  LET q == enqueue_thread(c)
           IN /\ q \in Promises
              /\ q.m_ref_count = At(c).m_ref_count + 1
              /\ q.m_value = At(c).m_value /\ q.m_error = At(c).m_error
              /\ q.m_blocked_thread = home[c]
              /\ ready(q) <=> ready(At(c))
<1> DEFINE r == retain(At(c), 1)
           q == enqueue_thread(c)
<1>1. /\ r \in Promises /\ r.m_ref_count = At(c).m_ref_count + 1
      /\ r.m_value = At(c).m_value /\ r.m_error = At(c).m_error
  BY RetainFacts
<1>2. q = [r EXCEPT !.m_blocked_thread = home[c]]
  BY DEF enqueue_thread
<1> HIDE DEF r, q
<1>3. /\ q \in Promises /\ q.m_ref_count = r.m_ref_count
      /\ q.m_value = r.m_value /\ q.m_error = r.m_error /\ q.m_blocked_thread = home[c]
  BY <1>1, <1>2 DEF Promises
<1>4. ready(q) <=> ready(At(c))
  BY <1>1, <1>3 DEF ready
<1> QED BY <1>1, <1>3, <1>4 DEF q

-----------------------------------------------------------------------------
(* Counting *)

\* One for what is there, none for what is not.
One(b) == IF b THEN 1 ELSE 0

\* A set of calls in which at most one call changes.
LEMMA OneChanges ==
    ASSUME NEW S, NEW T, NEW x, IsFiniteSet(S), IsFiniteSet(T), S \ {x} = T \ {x}
    PROVE  /\ Cardinality(S) \in Nat /\ Cardinality(T) \in Nat
           /\ Cardinality(T) = Cardinality(S) - One(x \in S) + One(x \in T)
<1>1. Cardinality(S) \in Nat /\ Cardinality(T) \in Nat
  BY FS_CardinalityType
<1>2. /\ Cardinality(S \ {x}) = IF x \in S THEN Cardinality(S) - 1 ELSE Cardinality(S)
      /\ Cardinality(T \ {x}) = IF x \in T THEN Cardinality(T) - 1 ELSE Cardinality(T)
  BY FS_RemoveElement
<1> QED BY <1>1, <1>2 DEF One

\* Who is in a finite set is counted.
LEMMA Counted ==
    ASSUME NEW S, IsFiniteSet(S)
    PROVE  /\ Cardinality(S) \in Nat
           /\ \A x \in S : Cardinality(S) > 0
           /\ Cardinality(S) = 0 <=> S = {}
BY FS_CardinalityType, FS_EmptySet

\* Sets of calls are finite.
LEMMA CallSetsFinite ==
    ASSUME NEW a
    PROVE  /\ IsFiniteSet(Users(a)) /\ IsFiniteSet(InWait(a)) /\ IsFiniteSet(Handlers(a))
           /\ IsFiniteSet(Users(a)') /\ IsFiniteSet(InWait(a)') /\ IsFiniteSet(Handlers(a)')
<1>1. /\ Users(a) \in SUBSET Calls /\ InWait(a) \in SUBSET Calls /\ Handlers(a) \in SUBSET Calls
      /\ Users(a)' \in SUBSET Calls /\ InWait(a)' \in SUBSET Calls /\ Handlers(a)' \in SUBSET Calls
  BY DEF Users, InWait, Handlers
<1> QED BY <1>1, BoundAssumption, FS_Subset

\* The notifications of one thread about the promise at a, and of no other, go from m to n.
LEMMA NoticesChange ==
    ASSUME NEW f, NEW g, NEW t \in Threads, NEW a,
           f[t][a] \in Nat, g[t][a] = f[t][a] + 1,
           \A u \in Threads : u # t => g[u][a] = f[u][a],
           NEW F, NEW G,
           F = UNION {{u} \X (1..f[u][a]) : u \in Threads},
           G = UNION {{u} \X (1..g[u][a]) : u \in Threads}
    PROVE  G = F \cup {<<t, g[t][a]>>} /\ <<t, g[t][a]>> \notin F
<1> DEFINE n == g[t][a]
<1>1. n \in Nat /\ f[t][a] \in Nat /\ 1..n = 1..f[t][a] \cup {n} /\ n \notin 1..f[t][a]
  BY SMT
<1>2. ASSUME NEW x PROVE x \in F <=> \E u \in Threads : \E i \in 1..f[u][a] : x = <<u, i>>
  <2>1. x \in F <=> \E u \in Threads : x \in {u} \X (1..f[u][a])
    OBVIOUS
  <2> QED BY <2>1
<1>3. ASSUME NEW x PROVE x \in G <=> \E u \in Threads : \E i \in 1..g[u][a] : x = <<u, i>>
  <2>1. x \in G <=> \E u \in Threads : x \in {u} \X (1..g[u][a])
    OBVIOUS
  <2> QED BY <2>1
<1>4. \A u \in Threads : u # t => g[u][a] = f[u][a]
  OBVIOUS
<1> HIDE DEF n
<1>5. ASSUME NEW x PROVE x \in G <=> (x \in F \/ x = <<t, n>>)
  <2>1. ASSUME x \in G PROVE x \in F \/ x = <<t, n>>
    <3>1. PICK u \in Threads : \E i \in 1..g[u][a] : x = <<u, i>>
      BY <1>3, <2>1
    <3>2. CASE u # t
      BY <1>2, <1>4, <3>1, <3>2
    <3>3. CASE u = t
      <4>1. PICK i \in 1..n : x = <<t, i>>
        BY <3>1, <3>3 DEF n
      <4> QED BY <1>1, <1>2, <4>1
    <3> QED BY <3>2, <3>3
  <2>2. ASSUME x \in F PROVE x \in G
    <3>1. PICK u \in Threads : \E i \in 1..f[u][a] : x = <<u, i>>
      BY <1>2, <2>2
    <3>2. CASE u # t
      BY <1>3, <1>4, <3>1, <3>2
    <3>3. CASE u = t
      <4>1. PICK i \in 1..f[t][a] : x = <<t, i>>
        BY <3>1, <3>3
      <4>2. i \in 1..g[t][a]
        BY <1>1 DEF n
      <4> QED BY <1>3, <4>1, <4>2
    <3> QED BY <3>2, <3>3
  <2>3. <<t, n>> \in G
    <3>1. n \in 1..g[t][a]
      BY <1>1 DEF n
    <3> QED BY <1>3, <3>1
  <2> QED BY <2>1, <2>2, <2>3
<1>6. <<t, n>> \notin F
  <2> SUFFICES ASSUME NEW u \in Threads, NEW i \in 1..f[u][a], <<t, n>> = <<u, i>> PROVE FALSE
    BY <1>2
  <2>1. u = t /\ i = n
    OBVIOUS
  <2> QED BY <1>1, <2>1
<1> QED BY <1>5, <1>6 DEF n

\* A notification is posted.
LEMMA PostFacts ==
    ASSUME Types, NEW t \in Threads, NEW a \in Addresses, Post(t, a)
    PROVE  /\ posted' \in [Threads -> [Addresses -> Nat]]
           /\ posted'[t][a] = posted[t][a] + 1
           /\ \A u \in Threads, b \in Addresses : u # t \/ b # a => posted'[u][b] = posted[u][b]
           /\ IsFiniteSet(Notices(a)) =>
                /\ IsFiniteSet(Notices(a)') /\ Cardinality(Notices(a)) \in Nat
                /\ Cardinality(Notices(a)') = Cardinality(Notices(a)) + 1
           /\ \A b \in Addresses : b # a => Notices(b)' = Notices(b)
<1>1. posted \in [Threads -> [Addresses -> Nat]]
      /\ posted' = [posted EXCEPT ![t][a] = @ + 1]
  BY DEF Types, Post
<1>2. /\ posted' \in [Threads -> [Addresses -> Nat]]
      /\ posted'[t][a] = posted[t][a] + 1
      /\ \A u \in Threads, b \in Addresses : u # t \/ b # a => posted'[u][b] = posted[u][b]
  BY <1>1
<1>3. ASSUME NEW b \in Addresses, b # a PROVE Notices(b)' = Notices(b)
  <2>1. \A u \in Threads : posted'[u][b] = posted[u][b]
    BY <1>2, <1>3
  <2>2. {{u} \X (1..posted'[u][b]) : u \in Threads} = {{u} \X (1..posted[u][b]) : u \in Threads}
    BY <2>1, Zenon
  <2> QED BY <2>2, Zenon DEF Notices
<1> DEFINE F == Notices(a)
           G == Notices(a)'
           x == <<t, posted'[t][a]>>
<1>4. /\ F = UNION {{u} \X (1..posted[u][a]) : u \in Threads}
      /\ G = UNION {{u} \X (1..posted'[u][a]) : u \in Threads}
  BY DEF Notices
<1> HIDE DEF F, G
<1>5. G = F \cup {x} /\ x \notin F
  <2>1. /\ posted[t][a] \in Nat /\ posted'[t][a] = posted[t][a] + 1
        /\ \A u \in Threads : u # t => posted'[u][a] = posted[u][a]
    BY <1>1, <1>2
  <2> QED BY <1>4, <2>1, NoticesChange
<1> HIDE DEF x
<1>6. ASSUME IsFiniteSet(F)
      PROVE  IsFiniteSet(G) /\ Cardinality(F) \in Nat /\ Cardinality(G) = Cardinality(F) + 1
  BY <1>5, <1>6, FS_AddElement, FS_CardinalityType
<1> QED BY <1>2, <1>3, <1>6 DEF F, G

\* A posted notification is taken.
LEMMA TakeFacts ==
    ASSUME Types, NEW t \in Threads, NEW a \in Addresses, posted[t][a] > 0,
           posted' = [posted EXCEPT ![t][a] = @ - 1]
    PROVE  /\ posted' \in [Threads -> [Addresses -> Nat]]
           /\ \A u \in Threads, b \in Addresses : posted'[u][b] <= posted[u][b]
           /\ \A u \in Threads, b \in Addresses : u # t \/ b # a => posted'[u][b] = posted[u][b]
           /\ IsFiniteSet(Notices(a)) =>
                /\ IsFiniteSet(Notices(a)') /\ Cardinality(Notices(a)) \in Nat
                /\ Cardinality(Notices(a)') = Cardinality(Notices(a)) - 1
           /\ \A b \in Addresses : b # a => Notices(b)' = Notices(b)
<1>1. posted \in [Threads -> [Addresses -> Nat]]
  BY DEF Types
<1>2. /\ posted' \in [Threads -> [Addresses -> Nat]]
      /\ posted[t][a] = posted'[t][a] + 1
      /\ \A u \in Threads, b \in Addresses : u # t \/ b # a => posted[u][b] = posted'[u][b]
  BY <1>1
<1>3. ASSUME NEW b \in Addresses, b # a PROVE Notices(b)' = Notices(b)
  <2>1. \A u \in Threads : posted'[u][b] = posted[u][b]
    BY <1>2, <1>3
  <2>2. {{u} \X (1..posted'[u][b]) : u \in Threads} = {{u} \X (1..posted[u][b]) : u \in Threads}
    BY <2>1, Zenon
  <2> QED BY <2>2, Zenon DEF Notices
<1>4. \A u \in Threads, b \in Addresses : posted'[u][b] <= posted[u][b]
  BY <1>1, <1>2
<1> DEFINE F == Notices(a)
           G == Notices(a)'
           x == <<t, posted[t][a]>>
<1>5. /\ F = UNION {{u} \X (1..posted[u][a]) : u \in Threads}
      /\ G = UNION {{u} \X (1..posted'[u][a]) : u \in Threads}
  BY DEF Notices
<1> HIDE DEF F, G
<1>6. F = G \cup {x} /\ x \notin G
  <2> DEFINE f == posted'
             g == posted
  <2>1. /\ f[t][a] \in Nat /\ g[t][a] = f[t][a] + 1
        /\ \A u \in Threads : u # t => g[u][a] = f[u][a]
        /\ G = UNION {{u} \X (1..f[u][a]) : u \in Threads}
        /\ F = UNION {{u} \X (1..g[u][a]) : u \in Threads}
        /\ x = <<t, g[t][a]>>
    BY <1>1, <1>2, <1>5
  <2> HIDE DEF f, g, x
  <2> QED BY <2>1, NoticesChange
<1> HIDE DEF x
<1>7. G = F \ {x} /\ x \in F
  BY <1>6
<1>8. ASSUME IsFiniteSet(F)
      PROVE  IsFiniteSet(G) /\ Cardinality(F) \in Nat /\ Cardinality(G) = Cardinality(F) - 1
  BY <1>7, <1>8, FS_RemoveElement, FS_CardinalityType
<1> QED BY <1>2, <1>3, <1>4, <1>8 DEF F, G

\* A notification that is posted is in the set.
LEMMA PostedIsNotice ==
    ASSUME NEW f \in [Threads -> [Addresses -> Nat]], NEW a \in Addresses, NEW t \in Threads
    PROVE  f[t][a] > 0 => <<t, 1>> \in UNION {{u} \X (1..f[u][a]) : u \in Threads}
<1> SUFFICES ASSUME f[t][a] > 0
             PROVE  <<t, 1>> \in UNION {{u} \X (1..f[u][a]) : u \in Threads}
  OBVIOUS
<1>1. 1 \in 1..f[t][a]
  OBVIOUS
<1>2. <<t, 1>> \in {t} \X (1..f[t][a])
  BY <1>1
<1> QED BY <1>2

\* How many references to the promise at a the call c and its handler have.
Holds(c, a) == One(c \in Users(a)) + One(c \in InWait(a)) + One(c \in Handlers(a))

\* The same in terms of the variables.
LEMMA HoldsIs ==
    ASSUME NEW c \in Calls, NEW a
    PROVE  /\ Holds(c, a) = IF prom[c] = a
                            THEN One(pc[c] # "idle") + One(pc[c] \notin {"idle", "wait"}) + One(op[c] # "none")
                            ELSE 0
           /\ Holds(c, a)' = IF prom'[c] = a
                             THEN One(pc'[c] # "idle") + One(pc'[c] \notin {"idle", "wait"}) + One(op'[c] # "none")
                             ELSE 0
           /\ Holds(c, a) \in Nat /\ Holds(c, a)' \in Nat
<1>1. /\ c \in Users(a) <=> prom[c] = a /\ pc[c] # "idle"
      /\ c \in InWait(a) <=> prom[c] = a /\ pc[c] \notin {"idle", "wait"}
      /\ c \in Handlers(a) <=> prom[c] = a /\ op[c] # "none"
      /\ c \in Users(a)' <=> prom'[c] = a /\ pc'[c] # "idle"
      /\ c \in InWait(a)' <=> prom'[c] = a /\ pc'[c] \notin {"idle", "wait"}
      /\ c \in Handlers(a)' <=> prom'[c] = a /\ op'[c] # "none"
  BY DEF Users, InWait, Handlers
<1>2. \A b : One(b) \in Nat
  BY DEF One
<1>3. CASE prom[c] = a /\ prom'[c] = a
  BY <1>1, <1>3, SMT DEF Holds, One
<1>4. CASE prom[c] # a /\ prom'[c] = a
  BY <1>1, <1>4, SMT DEF Holds, One
<1>5. CASE prom[c] = a /\ prom'[c] # a
  BY <1>1, <1>5, SMT DEF Holds, One
<1>6. CASE prom[c] # a /\ prom'[c] # a
  BY <1>1, <1>6, SMT DEF Holds, One
<1> QED BY <1>3, <1>4, <1>5, <1>6

\* The part of a call in the counts does not change.
Keeps(d) == /\ prom'[d] = prom[d]
            /\ pc'[d] = "idle" <=> pc[d] = "idle"
            /\ pc'[d] \in {"idle", "wait"} <=> pc[d] \in {"idle", "wait"}
            /\ op'[d] = "none" <=> op[d] = "none"

\* The count of a promise when one call, and the notifications, change.
LEMMA CountStep ==
    ASSUME Types, NEW a \in Cells, promise[a].m_ref_count = Holders(a),
           NEW c \in Calls, \A d \in Calls : d # c => Keeps(d),
           IsFiniteSet(Notices(a)), IsFiniteSet(Notices(a)'),
           NEW k \in Int, Cardinality(Notices(a)') = Cardinality(Notices(a)) + k,
           promise'[a].m_ref_count = promise[a].m_ref_count - Holds(c, a) + Holds(c, a)' + k
    PROVE  promise'[a].m_ref_count = Holders(a)'
<1> DEFINE U == Users(a)
           W == InWait(a)
           H == Handlers(a)
           N == Notices(a)
           UU == Users(a)'
           WW == InWait(a)'
           HH == Handlers(a)'
           NN == Notices(a)'
<1>1. /\ IsFiniteSet(U) /\ IsFiniteSet(W) /\ IsFiniteSet(H) /\ IsFiniteSet(N)
      /\ IsFiniteSet(UU) /\ IsFiniteSet(WW) /\ IsFiniteSet(HH)
  BY CallSetsFinite
<1>2. U \ {c} = UU \ {c} /\ W \ {c} = WW \ {c} /\ H \ {c} = HH \ {c}
  <2>1. U \ {c} = UU \ {c}
    BY DEF Users, Keeps
  <2>2. W \ {c} = WW \ {c}
    BY DEF InWait, Keeps
  <2>3. H \ {c} = HH \ {c}
    BY DEF Handlers, Keeps
  <2> QED BY <2>1, <2>2, <2>3
<1>3. /\ Holders(a) = Cardinality(U) + Cardinality(W) + Cardinality(H) + Cardinality(N)
      /\ Holders(a)' = Cardinality(UU) + Cardinality(WW) + Cardinality(HH) + Cardinality(NN)
      /\ Holds(c, a) = One(c \in U) + One(c \in W) + One(c \in H)
      /\ Holds(c, a)' = One(c \in UU) + One(c \in WW) + One(c \in HH)
      /\ Cardinality(NN) = Cardinality(N) + k
  BY DEF Holders, Holds
<1> HIDE DEF U, W, H, N, UU, WW, HH, NN
<1>4. /\ Cardinality(U) \in Nat /\ Cardinality(UU) = Cardinality(U) - One(c \in U) + One(c \in UU)
      /\ Cardinality(W) \in Nat /\ Cardinality(WW) = Cardinality(W) - One(c \in W) + One(c \in WW)
      /\ Cardinality(H) \in Nat /\ Cardinality(HH) = Cardinality(H) - One(c \in H) + One(c \in HH)
      /\ Cardinality(N) \in Nat
  BY <1>1, <1>2, OneChanges, FS_CardinalityType
<1>5. /\ One(c \in U) \in Nat /\ One(c \in W) \in Nat /\ One(c \in H) \in Nat
      /\ One(c \in UU) \in Nat /\ One(c \in WW) \in Nat /\ One(c \in HH) \in Nat
  BY DEF One
<1> QED BY <1>3, <1>4, <1>5

\* A promise that somebody points to is not deleted.
LEMMA HeldIsThere ==
    ASSUME NEW a \in Cells, promise[a].m_ref_count = Holders(a), IsFiniteSet(Notices(a))
    PROVE  /\ promise[a].m_ref_count \in Nat
           /\ \A d \in Calls : prom[d] = a /\ (pc[d] # "idle" \/ op[d] # "none")
                => promise[a].m_ref_count > 0
           /\ (\E x : x \in Notices(a)) => promise[a].m_ref_count > 0
<1>1. IsFiniteSet(Users(a)) /\ IsFiniteSet(InWait(a)) /\ IsFiniteSet(Handlers(a))
  BY CallSetsFinite
<1>2. /\ Cardinality(Users(a)) \in Nat /\ Cardinality(InWait(a)) \in Nat
      /\ Cardinality(Handlers(a)) \in Nat /\ Cardinality(Notices(a)) \in Nat
  BY <1>1, Counted
<1>3. promise[a].m_ref_count = Cardinality(Users(a)) + Cardinality(InWait(a))
                                 + Cardinality(Handlers(a)) + Cardinality(Notices(a))
  BY DEF Holders
<1>4. ASSUME NEW d \in Calls, prom[d] = a, pc[d] # "idle" \/ op[d] # "none"
      PROVE  promise[a].m_ref_count > 0
  <2>1. d \in Users(a) \/ d \in Handlers(a)
    BY <1>4 DEF Users, Handlers
  <2>2. Cardinality(Users(a)) > 0 \/ Cardinality(Handlers(a)) > 0
    BY <1>1, <2>1, Counted
  <2> QED BY <1>2, <1>3, <2>2
<1>5. ASSUME NEW x, x \in Notices(a) PROVE promise[a].m_ref_count > 0
  <2>1. Cardinality(Notices(a)) > 0
    BY <1>5, Counted
  <2> QED BY <1>2, <1>3, <2>1
<1>6. promise[a].m_ref_count \in Nat
  BY <1>2, <1>3
<1> QED BY <1>4, <1>5, <1>6

\* The same after a step.
LEMMA HeldIsThereNext ==
    ASSUME NEW a \in Cells, promise'[a].m_ref_count = Holders(a)', IsFiniteSet(Notices(a)'),
           posted' \in [Threads -> [Addresses -> Nat]]
    PROVE  /\ \A d \in Calls : prom'[d] = a /\ (pc'[d] # "idle" \/ op'[d] # "none")
                => promise'[a] # Deleted
           /\ \A t \in Threads : posted'[t][a] > 0 => promise'[a] # Deleted
<1>1. IsFiniteSet(Users(a)') /\ IsFiniteSet(InWait(a)') /\ IsFiniteSet(Handlers(a)')
  BY CallSetsFinite
<1>2. /\ Cardinality(Users(a)') \in Nat /\ Cardinality(InWait(a)') \in Nat
      /\ Cardinality(Handlers(a)') \in Nat /\ Cardinality(Notices(a)') \in Nat
  BY <1>1, Counted
<1>3. promise'[a].m_ref_count = Cardinality(Users(a)') + Cardinality(InWait(a)')
                                 + Cardinality(Handlers(a)') + Cardinality(Notices(a)')
  BY DEF Holders
<1>4. ASSUME NEW d \in Calls, prom'[d] = a, pc'[d] # "idle" \/ op'[d] # "none"
      PROVE  promise'[a].m_ref_count > 0
  <2>1. d \in Users(a)' \/ d \in Handlers(a)'
    BY <1>4 DEF Users, Handlers
  <2>2. Cardinality(Users(a)') > 0 \/ Cardinality(Handlers(a)') > 0
    BY <1>1, <2>1, Counted
  <2> QED BY <1>2, <1>3, <2>2
<1>5. ASSUME NEW t \in Threads, posted'[t][a] > 0 PROVE promise'[a].m_ref_count > 0
  <2>1. a \in Addresses
    BY DEF Addresses
  <2>2. <<t, 1>> \in Notices(a)'
    BY <1>5, <2>1, PostedIsNotice DEF Notices
  <2>3. Cardinality(Notices(a)') > 0
    BY <2>2, Counted
  <2> QED BY <1>2, <1>3, <2>3
<1> QED BY <1>4, <1>5, DeletedFacts

\* A cell that the allocator takes is nobody's.
LEMMA FreeIsNobodys ==
    ASSUME Types, NEW a \in Cells, promise[a].m_ref_count = Holders(a), IsFiniteSet(Notices(a)),
           promise[a].m_ref_count = 0
    PROVE  /\ \A d \in Calls : prom[d] = a => pc[d] = "idle" /\ op[d] = "none"
           /\ \A t \in Threads : posted[t][a] = 0
<1>1. /\ \A d \in Calls : prom[d] = a /\ (pc[d] # "idle" \/ op[d] # "none")
                => promise[a].m_ref_count > 0
      /\ (\E x : x \in Notices(a)) => promise[a].m_ref_count > 0
  BY HeldIsThere, Zenon
<1>2. ~(promise[a].m_ref_count > 0)
  OBVIOUS
<1>3. \A d \in Calls : prom[d] = a => pc[d] = "idle" /\ op[d] = "none"
  BY <1>1, <1>2, Zenon
<1>4. ASSUME NEW t \in Threads, posted[t][a] # 0 PROVE FALSE
  <2>1. a \in Addresses /\ posted \in [Threads -> [Addresses -> Nat]]
    BY DEF Addresses, Types
  <2>2. posted[t][a] > 0
    BY <1>4, <2>1
  <2>3. <<t, 1>> \in Notices(a)
    BY <2>1, <2>2, PostedIsNotice DEF Notices
  <2>4. \E x : x \in Notices(a)
    BY <2>3
  <2> QED BY <1>1, <1>2, <2>4, Zenon
<1> QED BY <1>3, <1>4

-----------------------------------------------------------------------------
(* The inductive invariant *)

\* The parts of the invariant.
LEMMA IInvParts ==
    ASSUME IInv
    PROVE  /\ Types
           /\ \A c \in Calls : CallOK(c) /\ NamesThread(c) /\ NotSetYet(c) /\ WokenWhenSet(c)
           /\ \A c, d \in Calls : OneHandler(c, d) /\ OneUser(c, d)
           /\ \A a \in Cells : IsFiniteSet(Notices(a)) /\ promise[a].m_ref_count = Holders(a)
           /\ CountIsHolders /\ ResultIsOwn /\ WakeupOnItsWay
BY DEF IInv, CountIsHolders

\* Cells and frames are different addresses.
LEMMA CellsAreNotFrames ==
    /\ \A a \in Cells : a \in Addresses /\ a \notin Calls /\ a # NULL
    /\ \A c \in Calls : c \in Addresses /\ c \notin Cells /\ c # NULL
    /\ \A a \in Addresses : a \in Cells \/ a \in Calls
    /\ \A t \in Threads : t # NULL
    /\ \A k \in KindNames : k # NULL
BY NamesAssumption DEF Addresses

\* At first no promise is made and no call in progress.
LEMMA InitIInv == Init => IInv
<1> SUFFICES ASSUME Init PROVE IInv
  OBVIOUS
<1>1. Types
  <2>1. promise \in [Addresses -> Promises]
    BY DeletedFacts DEF Init
  <2>2. posted \in [Threads -> [Addresses -> Nat]]
    BY DEF Init
  <2> QED BY <2>1, <2>2 DEF Init, Types, Places, Outcomes, OpStates
<1>2. ASSUME NEW c \in Calls PROVE CallOK(c) /\ NamesThread(c) /\ NotSetYet(c) /\ WokenWhenSet(c)
  <2>1. pc[c] = "idle" /\ op[c] = "none" /\ kind[c] = NULL /\ prom[c] = NULL
    BY DEF Init
  <2>2. kind[c] \notin KindNames /\ prom[c] \notin Calls
    BY <2>1, CellsAreNotFrames
  <2> QED BY <2>1, <2>2 DEF CallOK, NamesThread, NotSetYet, WokenWhenSet, KindNames
<1>3. \A c, d \in Calls : OneHandler(c, d) /\ OneUser(c, d)
  BY DEF Init, OneHandler, OneUser
<1>4. ASSUME NEW a \in Cells
      PROVE  IsFiniteSet(Notices(a)) /\ promise[a].m_ref_count = Holders(a)
  <2>1. Users(a) = {} /\ InWait(a) = {} /\ Handlers(a) = {}
    BY DEF Init, Users, InWait, Handlers
  <2>2. Notices(a) = {}
    <3>1. \A u \in Threads : posted[u][a] = 0 /\ 1..0 = {}
      BY CellsAreNotFrames DEF Init
    <3>2. \A u \in Threads : {u} \X (1..posted[u][a]) = {}
      BY <3>1
    <3> QED BY <3>2 DEF Notices
  <2>3. Cardinality({}) = 0 /\ IsFiniteSet({})
    BY FS_EmptySet
  <2>4. Holders(a) = 0
    BY <2>1, <2>2, <2>3 DEF Holders
  <2>5. promise[a] = Deleted
    BY CellsAreNotFrames DEF Init
  <2> QED BY <2>2, <2>3, <2>4, <2>5, DeletedFacts
<1>5. ResultIsOwn /\ WakeupOnItsWay
  BY DEF Init, ResultIsOwn, WakeupOnItsWay
<1> QED BY <1>1, <1>2, <1>3, <1>4, <1>5 DEF IInv, CountIsHolders

\* A call makes a promise, in a free cell or in its frame, and starts its operation.
LEMMA StartIInv ==
    ASSUME IInv, NEW c \in Calls, NEW t \in Threads, NEW a, NEW k, NEW refs \in Int,
           NEW mayTime \in SUBSET BOOLEAN,
           \/ a \in Cells /\ promise[a].m_ref_count = 0 /\ k # "sync" /\ refs = 2
           \/ a = c /\ k = "sync",
           Start(c, t, a, k, refs, mayTime)
    PROVE  IInv'
<1> DEFINE new == NewPromise(refs)
<1>0. /\ Types
      /\ \A d \in Calls : CallOK(d) /\ NamesThread(d) /\ NotSetYet(d) /\ WokenWhenSet(d)
      /\ \A d, e \in Calls : OneHandler(d, e) /\ OneUser(d, e)
      /\ \A b \in Cells : IsFiniteSet(Notices(b)) /\ promise[b].m_ref_count = Holders(b)
      /\ ResultIsOwn /\ WakeupOnItsWay
  BY IInvParts
<1>1. /\ a \in Addresses /\ k \in KindNames
      /\ a \in Cells => k # "sync" /\ a \notin Calls
      /\ a \notin Cells => a = c /\ k = "sync"
  BY CellsAreNotFrames, KindsAssumption DEF Start
<1>2. /\ new \in Promises /\ new.m_ref_count = refs /\ ~new.m_value /\ new.m_error = "none"
      /\ new.m_blocked_thread = NULL /\ ~ready(new)
  BY NewPromiseFacts
<1> HIDE DEF new
<1>3. /\ pc[c] = "idle" /\ op[c] = "none"
      /\ pc'[c] = "wait" /\ kind'[c] = k /\ home'[c] = t /\ prom'[c] = a
      /\ outcome'[c] = "none" /\ shared'[c] = FALSE /\ op'[c] = "pending"
      /\ \A d \in Calls : d # c =>
            /\ pc'[d] = pc[d] /\ kind'[d] = kind[d] /\ home'[d] = home[d] /\ prom'[d] = prom[d]
            /\ outcome'[d] = outcome[d] /\ shared'[d] = shared[d] /\ op'[d] = op[d]
      /\ promise'[a] = new
      /\ \A b \in Addresses : b # a => promise'[b] = promise[b]
      /\ posted' = posted
  BY <1>0, <1>1 DEF Start, SetAt, Types, new
<1>4. Types'
  <2>1. promise' \in [Addresses -> Promises]
    BY <1>0, <1>1, <1>2 DEF Start, SetAt, Types, new
  <2>2. /\ pc' \in [Calls -> Places] /\ op' \in [Calls -> OpStates]
        /\ outcome' \in [Calls -> Outcomes]
    BY <1>0 DEF Start, Types, Places, OpStates, Outcomes
  <2>3. /\ kind' \in [Calls -> KindNames \cup {NULL}]
        /\ home' \in [Calls -> Threads \cup {NULL}]
        /\ prom' \in [Calls -> Addresses \cup {NULL}]
    BY <1>0, <1>1 DEF Start, Types
  <2>4. timed' \in [Calls -> BOOLEAN] /\ shared' \in [Calls -> BOOLEAN]
    BY <1>0 DEF Start, Types
  <2>5. posted' \in [Threads -> [Addresses -> Nat]]
    BY <1>0, <1>3 DEF Types
  <2> QED BY <2>1, <2>2, <2>3, <2>4, <2>5 DEF Types
<1>5. \A d \in Calls : prom[d] = a => pc[d] = "idle" /\ op[d] = "none"
  <2>1. CASE a \in Cells
    <3>1. promise[a].m_ref_count = 0
      BY <1>1, <2>1
    <3> QED BY <1>0, <2>1, <3>1, FreeIsNobodys
  <2>2. CASE a \notin Cells
    <3>1. a = c
      BY <1>1, <2>2
    <3> QED BY <1>0, <1>3, <3>1 DEF CallOK
  <2> QED BY <2>1, <2>2
<1>6. ASSUME NEW d \in Calls PROVE CallOK(d)'
  <2>1. CASE d = c
    BY <1>1, <1>3, <2>1, CellsAreNotFrames DEF CallOK
  <2>2. CASE d # c
    BY <1>0, <1>3, <2>2 DEF CallOK
  <2> QED BY <2>1, <2>2
<1>7. ASSUME NEW d \in Calls PROVE NamesThread(d)' /\ NotSetYet(d)'
  <2>1. CASE d = c
    BY <1>2, <1>3, <2>1 DEF NamesThread, NotSetYet, At
  <2>2. CASE d # c
    <3>1. NamesThread(d)'
      BY <1>0, <1>3, <1>5, <2>2, CellsAreNotFrames DEF NamesThread, At
    <3>2. op'[d] = "pending" => promise'[prom'[d]] = promise[prom[d]]
      BY <1>0, <1>3, <1>5, <2>2 DEF CallOK
    <3>3. NotSetYet(d)'
      BY <1>0, <1>3, <2>2, <3>2 DEF NotSetYet, At, FrameGone
    <3> QED BY <3>1, <3>3
  <2> QED BY <2>1, <2>2
<1>8. ASSUME NEW d \in Calls PROVE WokenWhenSet(d)'
  <2>1. CASE d = c
    <3>1. a \in Cells => \A u \in Threads : ~(posted'[u][a] > 0)
      <4> SUFFICES ASSUME a \in Cells PROVE \A u \in Threads : ~(posted'[u][a] > 0)
        OBVIOUS
      <4>1. promise[a].m_ref_count = 0
        BY <1>1
      <4>2. \A u \in Threads : posted[u][a] = 0
        BY <1>0, <4>1, FreeIsNobodys
      <4> QED BY <1>3, <4>2
    <3> QED BY <1>1, <1>3, <2>1, <3>1 DEF WokenWhenSet
  <2>2. CASE d # c
    <3>1. pc'[d] # "idle" => promise'[prom'[d]] = promise[prom[d]]
      BY <1>0, <1>3, <1>5, <2>2 DEF CallOK
    <3> QED BY <1>0, <1>3, <2>2, <3>1 DEF WokenWhenSet, At
  <2> QED BY <2>1, <2>2
<1>9. ASSUME NEW d \in Calls, NEW e \in Calls PROVE OneHandler(d, e)' /\ OneUser(d, e)'
  BY <1>0, <1>3, <1>5 DEF OneHandler, OneUser
<1>10. ASSUME NEW b \in Cells PROVE IsFiniteSet(Notices(b)') /\ promise'[b].m_ref_count = Holders(b)'
  <2>1. Notices(b)' = Notices(b) /\ IsFiniteSet(Notices(b))
    BY <1>0, <1>3 DEF Notices
  <2>2. \A d \in Calls : d # c => Keeps(d)
    BY <1>3 DEF Keeps
  <2>3. Cardinality(Notices(b)') = Cardinality(Notices(b)) + 0 /\ 0 \in Int
    BY <2>1, FS_CardinalityType
  <2>4. Holds(c, b) = 0
    BY <1>3, HoldsIs DEF One
  <2>5. Holds(c, b)' = IF b = a THEN 2 ELSE 0
    BY <1>3, HoldsIs DEF One
  <2>6. promise'[b].m_ref_count = promise[b].m_ref_count - Holds(c, b) + Holds(c, b)' + 0
    <3>1. promise[b].m_ref_count \in Int
      BY <1>0, CellsAreNotFrames DEF Types, Promises
    <3>2. CASE b = a
      <4>1. promise[b].m_ref_count = 0 /\ promise'[b].m_ref_count = 2
        BY <1>1, <1>2, <1>3, <3>2, CellsAreNotFrames
      <4> QED BY <2>4, <2>5, <3>2, <4>1
    <3>3. CASE b # a
      BY <1>3, <2>4, <2>5, <3>1, <3>3, CellsAreNotFrames
    <3> QED BY <3>2, <3>3
  <2> QED BY <1>0, <2>1, <2>2, <2>3, <2>6, CountStep
<1>11. ResultIsOwn'
  BY <1>0, <1>3 DEF ResultIsOwn
<1>12. WakeupOnItsWay'
  <2> SUFFICES ASSUME NEW d \in Calls, pc'[d] = "blocked", ready(At(d))',
                      At(d).m_blocked_thread' = home'[d]
               PROVE  \/ posted'[home'[d]][prom'[d]] > 0
                      \/ \E e \in Calls : prom'[e] = prom'[d] /\ op'[e] = "notify"
    BY DEF WakeupOnItsWay
  <2>1. /\ d # c /\ pc[d] = "blocked" /\ prom'[d] = prom[d] /\ home'[d] = home[d]
        /\ promise'[prom'[d]] = promise[prom[d]]
    BY <1>0, <1>3, <1>5 DEF CallOK
  <2>2. \/ posted[home[d]][prom[d]] > 0
        \/ \E e \in Calls : prom[e] = prom[d] /\ op[e] = "notify"
    BY <1>0, <2>1 DEF WakeupOnItsWay, At
  <2> QED BY <1>3, <2>1, <2>2
<1> QED BY <1>4, <1>6, <1>7, <1>8, <1>9, <1>10, <1>11, <1>12 DEF IInv, CountIsHolders

\* A call waits for a copy of the future of another one: from now on both share it.
LEMMA WaitCopyIInv ==
    ASSUME IInv, NEW c \in Calls, NEW t \in Threads, WaitCopy(c, t) PROVE IInv'
<1>0. /\ Types
      /\ \A d \in Calls : CallOK(d) /\ NamesThread(d) /\ NotSetYet(d) /\ WokenWhenSet(d)
      /\ \A d, e \in Calls : OneHandler(d, e) /\ OneUser(d, e)
      /\ \A b \in Cells : IsFiniteSet(Notices(b)) /\ promise[b].m_ref_count = Holders(b)
      /\ ResultIsOwn /\ WakeupOnItsWay
  BY IInvParts
<1>1. PICK d0 \in Calls :
         /\ pc[d0] # "idle" /\ kind[d0] = "io"
         /\ SetAt(prom[d0], retain(At(d0), 1))
         /\ prom' = [prom EXCEPT ![c] = prom[d0]]
         /\ shared' = [e \in Calls |-> shared[e] \/ e = c \/ (pc[e] # "idle" /\ prom[e] = prom[d0])]
  BY DEF WaitCopy
<1> DEFINE a == prom[d0]
           q == retain(promise[a], 1)
<1>2. a \in Cells /\ a \in Addresses /\ a \notin Calls /\ promise[a] \in Promises
  BY <1>0, <1>1, CellsAreNotFrames DEF CallOK, Types
<1>3. /\ q \in Promises /\ q.m_ref_count = promise[a].m_ref_count + 1
      /\ q.m_value = promise[a].m_value /\ q.m_error = promise[a].m_error
      /\ q.m_blocked_thread = promise[a].m_blocked_thread
      /\ ready(q) <=> ready(promise[a])
  BY <1>2, RetainFacts
<1>4. promise' = [promise EXCEPT ![a] = q]
  BY <1>1 DEF SetAt, At
<1> HIDE DEF q
<1>5. /\ pc[c] = "idle" /\ op[c] = "none"
      /\ pc'[c] = "wait" /\ kind'[c] = "io" /\ home'[c] = t /\ prom'[c] = a
      /\ outcome'[c] = "none" /\ shared'[c]
      /\ \A d \in Calls : d # c =>
            /\ pc'[d] = pc[d] /\ kind'[d] = kind[d] /\ home'[d] = home[d] /\ prom'[d] = prom[d]
            /\ outcome'[d] = outcome[d]
      /\ \A d \in Calls : shared[d] => shared'[d]
      /\ \A d \in Calls : d # c /\ shared'[d] /\ ~shared[d] => pc[d] # "idle" /\ prom[d] = a
      /\ \A d \in Calls : ~shared'[d] => ~shared[d] /\ d # c /\ (pc[d] # "idle" => prom[d] # a)
      /\ promise'[a] = q
      /\ \A b \in Addresses : b # a => promise'[b] = promise[b]
      /\ posted' = posted /\ op' = op
  BY ZenonT(60), <1>0, <1>1, <1>2, <1>4 DEF WaitCopy, Types
<1>6. Types'
  <2>1. promise' \in [Addresses -> Promises]
    BY <1>0, <1>3, <1>4 DEF Types
  <2>2. /\ pc' \in [Calls -> Places] /\ op' \in [Calls -> OpStates]
        /\ outcome' \in [Calls -> Outcomes]
    BY <1>0 DEF WaitCopy, Types, Places, Outcomes
  <2>3. /\ kind' \in [Calls -> KindNames \cup {NULL}]
        /\ home' \in [Calls -> Threads \cup {NULL}]
        /\ prom' \in [Calls -> Addresses \cup {NULL}]
    BY <1>0, <1>1, <1>2 DEF WaitCopy, Types, KindNames
  <2>4. timed' \in [Calls -> BOOLEAN]
    BY <1>0 DEF WaitCopy, Types
  <2>5. shared' \in [Calls -> BOOLEAN]
    BY <1>0, <1>1 DEF Types
  <2>6. posted' \in [Threads -> [Addresses -> Nat]]
    BY <1>0, <1>5 DEF Types
  <2> QED BY <2>1, <2>2, <2>3, <2>4, <2>5, <2>6 DEF Types
<1>7. ASSUME NEW d \in Calls PROVE CallOK(d)'
  <2>1. CASE d = c
    BY <1>2, <1>5, <2>1 DEF CallOK, KindNames
  <2>2. CASE d # c
    <3>1. kind[d] = "signal" => ~shared'[d]
      <4> SUFFICES ASSUME kind[d] = "signal", shared'[d] PROVE FALSE
        OBVIOUS
      <4>1. ~shared[d] /\ pc[d] # "idle" /\ prom[d] = a
        BY <1>0, <1>5, <2>2 DEF CallOK
      <4> QED BY <1>0, <1>1, <4>1 DEF OneUser
    <3> QED BY <1>0, <1>5, <2>2, <3>1 DEF CallOK
  <2> QED BY <2>1, <2>2
<1>8. ASSUME NEW d \in Calls PROVE NamesThread(d)' /\ NotSetYet(d)' /\ WokenWhenSet(d)'
  <2>1. CASE d = c
    BY <1>5, <2>1 DEF NamesThread, NotSetYet, WokenWhenSet
  <2>2. CASE d # c
    <3>1. prom[d] \in Addresses =>
             /\ promise'[prom[d]].m_value = promise[prom[d]].m_value
             /\ promise'[prom[d]].m_error = promise[prom[d]].m_error
             /\ promise'[prom[d]].m_blocked_thread = promise[prom[d]].m_blocked_thread
             /\ ready(promise'[prom[d]]) <=> ready(promise[prom[d]])
      BY <1>3, <1>5
    <3>2. NamesThread(d)'
      BY <1>0, <1>5, <2>2, <3>1, CellsAreNotFrames DEF NamesThread, At
    <3>3. NotSetYet(d)'
      BY <1>0, <1>5, <2>2, <3>1 DEF NotSetYet, At, FrameGone, CallOK
    <3>4. WokenWhenSet(d)'
      BY <1>0, <1>5, <2>2, <3>1 DEF WokenWhenSet, At, CallOK
    <3> QED BY <3>2, <3>3, <3>4
  <2> QED BY <2>1, <2>2
<1>9. ASSUME NEW d \in Calls, NEW e \in Calls PROVE OneHandler(d, e)' /\ OneUser(d, e)'
  <2>1. OneHandler(d, e)'
    BY <1>0, <1>5 DEF OneHandler
  <2>2. OneUser(d, e)'
    <3>1. CASE e = c
      BY <1>5, <3>1 DEF OneUser
    <3>2. CASE e # c
      BY <1>0, <1>5, <3>2 DEF OneUser
    <3> QED BY <3>1, <3>2
  <2> QED BY <2>1, <2>2
<1>10. ASSUME NEW b \in Cells PROVE IsFiniteSet(Notices(b)') /\ promise'[b].m_ref_count = Holders(b)'
  <2>1. Notices(b)' = Notices(b) /\ IsFiniteSet(Notices(b))
    BY <1>0, <1>5 DEF Notices
  <2>2. \A d \in Calls : d # c => Keeps(d)
    BY <1>5 DEF Keeps
  <2>3. Cardinality(Notices(b)') = Cardinality(Notices(b)) + 0 /\ 0 \in Int
    BY <2>1, FS_CardinalityType
  <2>4. Holds(c, b) = 0
    BY <1>5, HoldsIs DEF One
  <2>5. Holds(c, b)' = IF b = a THEN 1 ELSE 0
    BY <1>5, HoldsIs DEF One
  <2>6. promise'[b].m_ref_count = promise[b].m_ref_count - Holds(c, b) + Holds(c, b)' + 0
    <3>1. promise[b].m_ref_count \in Int
      BY <1>0, CellsAreNotFrames DEF Types, Promises
    <3>2. promise'[b].m_ref_count = IF b = a THEN promise[b].m_ref_count + 1 ELSE promise[b].m_ref_count
      BY <1>3, <1>5, CellsAreNotFrames
    <3> QED BY <2>4, <2>5, <3>1, <3>2
  <2> QED BY <1>0, <2>1, <2>2, <2>3, <2>6, CountStep
<1>11. ResultIsOwn'
  BY <1>0, <1>5 DEF ResultIsOwn
<1>12. WakeupOnItsWay'
  <2> SUFFICES ASSUME NEW d \in Calls, pc'[d] = "blocked", ready(At(d))',
                      At(d).m_blocked_thread' = home'[d]
               PROVE  \/ posted'[home'[d]][prom'[d]] > 0
                      \/ \E e \in Calls : prom'[e] = prom'[d] /\ op'[e] = "notify"
    BY DEF WakeupOnItsWay
  <2>1. /\ d # c /\ pc[d] = "blocked" /\ prom'[d] = prom[d] /\ home'[d] = home[d]
        /\ ready(promise[prom[d]]) /\ promise[prom[d]].m_blocked_thread = home[d]
    BY <1>0, <1>3, <1>5 DEF CallOK, At
  <2>2. \/ posted[home[d]][prom[d]] > 0
        \/ \E e \in Calls : prom[e] = prom[d] /\ op[e] = "notify"
    BY <1>0, <2>1 DEF WakeupOnItsWay, At
  <2> QED BY <1>5, <2>1, <2>2
<1> QED BY <1>6, <1>7, <1>8, <1>9, <1>10, <1>11, <1>12 DEF IInv, CountIsHolders

\* A call ends: its references go, and an error of its promise may be taken away.
LEMMA LeaveIInv ==
    ASSUME IInv, NEW c \in Calls, NEW o \in Outcomes, NEW p \in Promises, NEW n \in Int,
           pc[c] # "idle", n = IF pc[c] = "wait" THEN 1 ELSE 2,
           p.m_ref_count = At(c).m_ref_count, p.m_value = At(c).m_value,
           p.m_blocked_thread = At(c).m_blocked_thread,
           p.m_error = At(c).m_error \/ p.m_error = "none",
           o \in {"value", "error"} => At(c).m_value \/ At(c).m_error = "error",
           o = "not_ready" => ~ready(At(c)) /\ pc[c] \in {"ready", "result"},
           Leave(c, o, p, n)
    PROVE  IInv'
<1>0. /\ Types
      /\ \A d \in Calls : CallOK(d) /\ NamesThread(d) /\ NotSetYet(d) /\ WokenWhenSet(d)
      /\ \A d, e \in Calls : OneHandler(d, e) /\ OneUser(d, e)
      /\ \A b \in Cells : IsFiniteSet(Notices(b)) /\ promise[b].m_ref_count = Holders(b)
      /\ ResultIsOwn /\ WakeupOnItsWay
  BY IInvParts
<1> DEFINE a == prom[c]
           m == IF kind[c] = "signal" THEN n + 1 ELSE n
           q == IF kind[c] = "sync" THEN Deleted ELSE release(p, m)
<1>1. /\ a \in Addresses /\ kind[c] \in KindNames /\ m \in Int
      /\ a \in Calls => a = c /\ kind[c] = "sync"
      /\ kind[c] = "sync" => a = c
  BY <1>0, CellsAreNotFrames DEF CallOK
<1>2. /\ q \in Promises
      /\ q # Deleted => /\ q.m_value = p.m_value /\ q.m_error = p.m_error
                        /\ q.m_blocked_thread = p.m_blocked_thread
      /\ kind[c] # "sync" => q.m_ref_count = p.m_ref_count - m
  <2> HIDE DEF m
  <2>1. CASE kind[c] = "sync"
    BY <2>1, DeletedFacts
  <2>2. CASE kind[c] # "sync"
    <3>1. q = release(p, m)
      BY <2>2
    <3> HIDE DEF q
    <3> QED BY <1>1, <3>1, ReleaseFacts
  <2> QED BY <2>1, <2>2
<1>3. promise' = [promise EXCEPT ![a] = q]
  BY DEF Leave, SetAt
<1> HIDE DEF q
<1>4. /\ pc'[c] = "idle" /\ outcome'[c] = o
      /\ op'[c] = (IF kind[c] = "signal" THEN "none" ELSE op[c])
      /\ \A d \in Calls : d # c =>
            pc'[d] = pc[d] /\ home'[d] = home[d] /\ outcome'[d] = outcome[d] /\ op'[d] = op[d]
      /\ kind' = kind /\ prom' = prom /\ shared' = shared /\ posted' = posted
      /\ promise'[a] = q
      /\ \A b \in Addresses : b # a => promise'[b] = promise[b]
  BY <1>0, <1>1, <1>3 DEF Leave, Types
<1>5. Types'
  <2>1. promise' \in [Addresses -> Promises]
    BY <1>0, <1>2, <1>3 DEF Types
  <2>2. /\ pc' \in [Calls -> Places] /\ op' \in [Calls -> OpStates]
        /\ outcome' \in [Calls -> Outcomes]
    BY <1>0 DEF Leave, Types, Places, Outcomes, OpStates
  <2>3. home' \in [Calls -> Threads \cup {NULL}]
    BY <1>0 DEF Leave, Types
  <2>4. timed' \in [Calls -> BOOLEAN]
    BY <1>0 DEF Leave, Types
  <2> QED BY <1>0, <1>4, <2>1, <2>2, <2>3, <2>4 DEF Types
<1>6. ASSUME NEW d \in Calls PROVE CallOK(d)'
  <2>1. CASE d = c
    BY <1>0, <1>4, <2>1 DEF CallOK
  <2>2. CASE d # c
    BY <1>0, <1>4, <2>2 DEF CallOK
  <2> QED BY <2>1, <2>2
<1>7. ASSUME NEW d \in Calls, NEW e \in Calls PROVE OneHandler(d, e)' /\ OneUser(d, e)'
  BY <1>0, <1>4 DEF OneHandler, OneUser
<1>8. ASSUME NEW b \in Cells PROVE IsFiniteSet(Notices(b)') /\ promise'[b].m_ref_count = Holders(b)'
  <2>1. Notices(b)' = Notices(b) /\ IsFiniteSet(Notices(b))
    BY <1>0, <1>4 DEF Notices
  <2>2. \A d \in Calls : d # c => Keeps(d)
    BY <1>4 DEF Keeps
  <2>3. Cardinality(Notices(b)') = Cardinality(Notices(b)) + 0 /\ 0 \in Int
    BY <2>1, FS_CardinalityType
  <2>4. promise'[b].m_ref_count = promise[b].m_ref_count - Holds(c, b) + Holds(c, b)' + 0
    <3>1. promise[b].m_ref_count \in Int /\ b \in Addresses
      BY <1>0, CellsAreNotFrames DEF Types, Promises
    <3>2. CASE b = a
      <4>1. kind[c] # "sync"
        BY <1>1, <3>2, CellsAreNotFrames
      <4>2. Holds(c, b) = n + One(op[c] # "none") /\ Holds(c, b)' = One(op'[c] # "none")
        <5>1. Holds(c, b) = One(TRUE) + One(pc[c] # "wait") + One(op[c] # "none")
          BY <3>2, HoldsIs DEF One
        <5>2. Holds(c, b)' = One(FALSE) + One(FALSE) + One(op'[c] # "none")
          BY <1>4, <3>2, HoldsIs DEF One
        <5> QED BY <5>1, <5>2 DEF One
      <4>3. One(op[c] # "none") - One(op'[c] # "none") = m - n
        <5>1. CASE kind[c] = "signal"
          <6>1. op[c] = "pending" /\ op'[c] = "none"
            BY <1>0, <1>4, <5>1 DEF CallOK
          <6> QED BY <5>1, <6>1 DEF One
        <5>2. CASE kind[c] # "signal"
          BY <1>4, <5>2 DEF One
        <5> QED BY <5>1, <5>2
      <4>4. promise'[b].m_ref_count = promise[b].m_ref_count - m
        BY <1>2, <1>4, <3>2, <4>1 DEF At
      <4>5. One(op[c] # "none") \in Int /\ One(op'[c] # "none") \in Int
        BY DEF One
      <4> HIDE DEF m
      <4> QED BY <1>1, <3>1, <4>2, <4>3, <4>4, <4>5
    <3>3. CASE b # a
      <4>1. Holds(c, b) = 0 /\ Holds(c, b)' = 0
        BY <1>4, <3>3, HoldsIs
      <4> QED BY <1>4, <3>1, <3>3, <4>1
    <3> QED BY <3>2, <3>3
  <2> QED BY <1>0, <2>1, <2>2, <2>3, <2>4, CountStep
<1>9. ASSUME NEW d \in Calls, prom[d] = a, pc'[d] # "idle" \/ (d # c /\ op'[d] # "none")
      PROVE  q # Deleted
  <2>1. d # c
    BY <1>4, <1>9
  <2>2. a \in Cells
    BY <1>0, <1>1, <1>9, <2>1, CellsAreNotFrames DEF CallOK
  <2>3. posted' \in [Threads -> [Addresses -> Nat]]
    BY <1>5 DEF Types
  <2> QED BY <1>4, <1>8, <1>9, <2>2, <2>3, HeldIsThereNext
<1>10. ASSUME NEW d \in Calls PROVE NamesThread(d)'
  <2>1. CASE prom[d] = a /\ d # c /\ pc[d] # "idle"
    BY <1>0, <1>2, <1>4, <1>9, <2>1 DEF NamesThread, At
  <2>2. CASE prom[d] # a \/ d = c \/ pc[d] = "idle"
    BY <1>0, <1>4, <2>2, CellsAreNotFrames DEF NamesThread, At
  <2> QED BY <2>1, <2>2
<1>11. ASSUME NEW d \in Calls PROVE NotSetYet(d)'
  <2> SUFFICES ASSUME op'[d] = "pending", kind[d] # "signal", ~FrameGone(d)'
               PROVE  ~At(d)'.m_value /\ At(d)'.m_error # "error"
    BY <1>4 DEF NotSetYet
  <2>1. op[d] = "pending" /\ ~FrameGone(d)
    BY <1>4 DEF FrameGone
  <2>2. ~promise[prom[d]].m_value /\ promise[prom[d]].m_error # "error" /\ prom[d] \in Addresses
    BY <1>0, <2>1 DEF NotSetYet, At, CallOK
  <2>3. CASE prom[d] = a
    <3>1. ~p.m_value /\ p.m_error # "error"
      BY <2>2, <2>3 DEF At
    <3>2. ~q.m_value /\ q.m_error # "error"
      BY <1>2, <3>1, DeletedFacts
    <3> QED BY <1>4, <2>3, <3>2 DEF At
  <2>4. CASE prom[d] # a
    BY <1>4, <2>2, <2>4 DEF At
  <2> QED BY <2>3, <2>4
<1>12. ASSUME NEW d \in Calls PROVE WokenWhenSet(d)'
  <2>1. pc'[d] # "idle" /\ ~shared[d] => prom[d] # a /\ prom[d] \in Addresses /\ d # c
    BY <1>0, <1>4 DEF OneUser, CallOK
  <2> QED BY <1>0, <1>4, <2>1 DEF WokenWhenSet, At
<1>13. ResultIsOwn'
  <2>1. o \in {"value", "error"} => op'[c] # "pending"
    BY <1>0, <1>4 DEF NotSetYet, FrameGone
  <2>2. o = "not_ready" => kind[c] = "sync" \/ shared[c]
    BY <1>0 DEF WokenWhenSet
  <2> QED BY <1>0, <1>4, <2>1, <2>2 DEF ResultIsOwn
<1>14. WakeupOnItsWay'
  <2> SUFFICES ASSUME NEW d \in Calls, pc'[d] = "blocked", ready(At(d))',
                      At(d).m_blocked_thread' = home'[d]
               PROVE  \/ posted'[home'[d]][prom'[d]] > 0
                      \/ \E e \in Calls : prom'[e] = prom'[d] /\ op'[e] = "notify"
    BY DEF WakeupOnItsWay
  <2>1. d # c /\ pc[d] = "blocked" /\ home'[d] = home[d] /\ prom[d] \in Addresses
    BY <1>0, <1>4 DEF CallOK
  <2>2. ready(At(d)) /\ At(d).m_blocked_thread = home[d]
    <3>1. CASE prom[d] = a
      <4>1. q # Deleted /\ ready(q) /\ q.m_blocked_thread = home[d]
        BY <1>4, <1>9, <2>1, <3>1 DEF At
      <4> QED BY <1>2, <3>1, <4>1 DEF At, ready
    <3>2. CASE prom[d] # a
      BY <1>4, <2>1, <3>2 DEF At
    <3> QED BY <3>1, <3>2
  <2>3. \/ posted[home[d]][prom[d]] > 0
        \/ \E e \in Calls : prom[e] = prom[d] /\ op[e] = "notify"
    BY <1>0, <2>1, <2>2 DEF WakeupOnItsWay
  <2>4. \A e \in Calls : op[e] = "notify" => op'[e] = "notify"
    BY <1>0, <1>4 DEF CallOK
  <2> QED BY <1>4, <2>1, <2>3, <2>4
<1> QED BY <1>5, <1>6, <1>7, <1>8, <1>10, <1>11, <1>12, <1>13, <1>14 DEF IInv, CountIsHolders

\* A step in which no call or operation begins or ends.
LEMMA QuietStep ==
    ASSUME IInv, UNCHANGED <<kind, home, prom, outcome, shared>>,
           promise' \in [Addresses -> Promises], pc' \in [Calls -> Places],
           timed' \in [Calls -> BOOLEAN], op' \in [Calls -> OpStates],
           posted' \in [Threads -> [Addresses -> Nat]],
           \A d \in Calls : /\ pc'[d] = "idle" <=> pc[d] = "idle"
                            /\ op'[d] = "none" <=> op[d] = "none"
                            /\ op'[d] = "pending" => op[d] = "pending"
                            /\ kind[d] = "signal" => op'[d] = op[d]
    PROVE  /\ Types'
           /\ \A d \in Calls : CallOK(d)'
           /\ \A d, e \in Calls : OneHandler(d, e)' /\ OneUser(d, e)'
           /\ ResultIsOwn'
<1>0. /\ Types
      /\ \A d \in Calls : CallOK(d)
      /\ \A d, e \in Calls : OneHandler(d, e) /\ OneUser(d, e)
      /\ ResultIsOwn
  BY IInvParts
<1>1. Types'
  BY <1>0 DEF Types
<1>2. ASSUME NEW d \in Calls PROVE CallOK(d)'
  BY <1>0 DEF CallOK
<1>3. ASSUME NEW d \in Calls, NEW e \in Calls PROVE OneHandler(d, e)' /\ OneUser(d, e)'
  BY <1>0 DEF OneHandler, OneUser
<1>4. ResultIsOwn'
  BY <1>0 DEF ResultIsOwn
<1> QED BY <1>1, <1>2, <1>3, <1>4

\* Who points to a promise does not change, up to k notifications.
LEMMA QuietCount ==
    ASSUME IInv, \A d \in Calls : Keeps(d), NEW b \in Cells, NEW k \in Int,
           IsFiniteSet(Notices(b)'), Cardinality(Notices(b)') = Cardinality(Notices(b)) + k,
           promise'[b].m_ref_count = promise[b].m_ref_count + k
    PROVE  promise'[b].m_ref_count = Holders(b)'
<1>1. IsFiniteSet(Notices(b)) /\ promise[b].m_ref_count = Holders(b)
  BY IInvParts
<1>2. Users(b)' = Users(b) /\ InWait(b)' = InWait(b) /\ Handlers(b)' = Handlers(b)
  <2>1. Users(b)' = Users(b)
    BY DEF Users, Keeps
  <2>2. InWait(b)' = InWait(b)
    BY DEF InWait, Keeps
  <2>3. Handlers(b)' = Handlers(b)
    BY DEF Handlers, Keeps
  <2> QED BY <2>1, <2>2, <2>3
<1> DEFINE u == Cardinality(Users(b))
           w == Cardinality(InWait(b))
           h == Cardinality(Handlers(b))
           n == Cardinality(Notices(b))
<1>3. u \in Nat /\ w \in Nat /\ h \in Nat /\ n \in Nat
  BY <1>1, CallSetsFinite, FS_CardinalityType
<1>4. Holders(b) = u + w + h + n /\ Holders(b)' = u + w + h + (n + k)
  BY <1>2 DEF Holders
<1> HIDE DEF u, w, h, n
<1> QED BY <1>1, <1>3, <1>4

\* The same when nothing is posted.
LEMMA CountKept ==
    ASSUME IInv, \A d \in Calls : Keeps(d), NEW b \in Cells,
           posted' = posted, promise'[b].m_ref_count = promise[b].m_ref_count
    PROVE  IsFiniteSet(Notices(b)') /\ promise'[b].m_ref_count = Holders(b)'
<1>1. /\ Types /\ IsFiniteSet(Notices(b)) /\ promise[b].m_ref_count \in Int
  BY IInvParts, CellsAreNotFrames DEF Types, Promises
<1>2. Notices(b)' = Notices(b)
  BY DEF Notices
<1>3. /\ Cardinality(Notices(b)') = Cardinality(Notices(b)) + 0 /\ 0 \in Int
      /\ promise'[b].m_ref_count = promise[b].m_ref_count + 0
  BY <1>1, <1>2, FS_CardinalityType
<1> QED BY <1>1, <1>2, <1>3, QuietCount

\* promise::wait leaves word which thread to notify: the promise is not set yet.
LEMMA EnqueueIInv ==
    ASSUME IInv, NEW c \in Calls, pc[c] = "wait", ~ready(At(c)),
           SetAt(prom[c], enqueue_thread(c)), Goto(c, "enter")
    PROVE  IInv'
<1>0. /\ Types
      /\ \A d \in Calls : CallOK(d) /\ NamesThread(d) /\ NotSetYet(d) /\ WokenWhenSet(d)
      /\ \A b \in Cells : IsFiniteSet(Notices(b)) /\ promise[b].m_ref_count = Holders(b)
      /\ WakeupOnItsWay
  BY IInvParts
<1> DEFINE a == prom[c]
           q == enqueue_thread(c)
<1>1. a \in Addresses /\ home[c] \in Threads /\ At(c) \in Promises
  BY <1>0 DEF CallOK, Types, At
<1>2. /\ q \in Promises /\ q.m_ref_count = promise[a].m_ref_count + 1
      /\ q.m_value = promise[a].m_value /\ q.m_error = promise[a].m_error
      /\ q.m_blocked_thread = home[c] /\ ~ready(q) /\ ~ready(promise[a])
  BY <1>1, EnqueueFacts DEF At
<1>3. promise' = [promise EXCEPT ![a] = q]
  BY DEF SetAt
<1> HIDE DEF q
<1>4. /\ pc'[c] = "enter" /\ \A d \in Calls : d # c => pc'[d] = pc[d]
      /\ UNCHANGED <<kind, home, prom, timed, outcome, shared, op, posted>>
      /\ promise'[a] = q
      /\ \A b \in Addresses : b # a => promise'[b] = promise[b]
  BY <1>0, <1>1, <1>3 DEF Goto, Types
<1>5. /\ Types'
      /\ \A d \in Calls : CallOK(d)'
      /\ \A d, e \in Calls : OneHandler(d, e)' /\ OneUser(d, e)'
      /\ ResultIsOwn'
  <2>1. promise' \in [Addresses -> Promises]
    BY <1>0, <1>2, <1>3 DEF Types
  <2>2. pc' \in [Calls -> Places]
    BY <1>0 DEF Goto, Types, Places
  <2>3. /\ timed' \in [Calls -> BOOLEAN] /\ op' \in [Calls -> OpStates]
        /\ posted' \in [Threads -> [Addresses -> Nat]]
    BY <1>0, <1>4 DEF Types
  <2> QED BY <1>4, <2>1, <2>2, <2>3, QuietStep
<1>6. ASSUME NEW d \in Calls PROVE NamesThread(d)' /\ NotSetYet(d)' /\ WokenWhenSet(d)'
  <2>1. NamesThread(d)'
    BY <1>0, <1>1, <1>2, <1>4, CellsAreNotFrames DEF NamesThread, At
  <2>2. NotSetYet(d)'
    BY <1>0, <1>2, <1>4 DEF NotSetYet, At, FrameGone, CallOK
  <2>3. WokenWhenSet(d)'
    <3>1. CASE prom[d] = a
      BY <1>0, <1>2, <1>4, <3>1 DEF WokenWhenSet, At
    <3>2. CASE prom[d] # a
      BY <1>0, <1>4, <3>2 DEF WokenWhenSet, At, CallOK
    <3> QED BY <3>1, <3>2
  <2> QED BY <2>1, <2>2, <2>3
<1>7. ASSUME NEW b \in Cells PROVE IsFiniteSet(Notices(b)') /\ promise'[b].m_ref_count = Holders(b)'
  <2>1. Notices(b)' = Notices(b) /\ IsFiniteSet(Notices(b))
    BY <1>0, <1>4 DEF Notices
  <2>2. \A d \in Calls : d # c => Keeps(d)
    BY <1>4 DEF Keeps
  <2>3. Cardinality(Notices(b)') = Cardinality(Notices(b)) + 0 /\ 0 \in Int
    BY <2>1, FS_CardinalityType
  <2>4. promise[b].m_ref_count \in Int /\ b \in Addresses
    BY <1>0, CellsAreNotFrames DEF Types, Promises
  <2>5. Holds(c, b) \in Nat /\ Holds(c, b)' = Holds(c, b) + One(b = a)
    BY <1>4, HoldsIs DEF One
  <2>6. promise'[b].m_ref_count = promise[b].m_ref_count + One(b = a)
    BY <1>2, <1>4, <2>4 DEF One
  <2>7. One(b = a) \in Int
    BY DEF One
  <2>8. promise'[b].m_ref_count = promise[b].m_ref_count - Holds(c, b) + Holds(c, b)' + 0
    BY <2>4, <2>5, <2>6, <2>7
  <2> QED BY <1>0, <2>1, <2>2, <2>3, <2>8, CountStep
<1>8. WakeupOnItsWay'
  <2> SUFFICES ASSUME NEW d \in Calls, pc'[d] = "blocked", ready(At(d))',
                      At(d).m_blocked_thread' = home'[d]
               PROVE  \/ posted'[home'[d]][prom'[d]] > 0
                      \/ \E e \in Calls : prom'[e] = prom'[d] /\ op'[e] = "notify"
    BY DEF WakeupOnItsWay
  <2>1. d # c /\ pc[d] = "blocked" /\ prom[d] # a /\ prom[d] \in Addresses
    BY <1>0, <1>2, <1>4 DEF CallOK, At
  <2>2. ready(At(d)) /\ At(d).m_blocked_thread = home[d]
    BY <1>4, <2>1 DEF At
  <2> QED BY <1>0, <1>4, <2>1, <2>2 DEF WakeupOnItsWay
<1> QED BY <1>5, <1>6, <1>7, <1>8 DEF IInv, CountIsHolders

\* thread::wait finds the result, or blocks without one.
LEMMA BlockIInv ==
    ASSUME IInv, NEW c \in Calls, NEW to, pc[c] = "enter",
           (to = "result" /\ ready(At(c))) \/ (to = "blocked" /\ ~ready(At(c))),
           Goto(c, to), UNCHANGED promise
    PROVE  IInv'
<1>0. /\ Types
      /\ \A d \in Calls : CallOK(d) /\ NamesThread(d) /\ NotSetYet(d) /\ WokenWhenSet(d)
      /\ \A b \in Cells : IsFiniteSet(Notices(b)) /\ promise[b].m_ref_count = Holders(b)
      /\ WakeupOnItsWay
  BY IInvParts
<1>1. /\ pc'[c] = to /\ \A d \in Calls : d # c => pc'[d] = pc[d]
      /\ UNCHANGED <<promise, kind, home, prom, timed, outcome, shared, op, posted>>
  BY <1>0 DEF Goto, Types
<1>2. /\ Types'
      /\ \A d \in Calls : CallOK(d)'
      /\ \A d, e \in Calls : OneHandler(d, e)' /\ OneUser(d, e)'
      /\ ResultIsOwn'
  <2>1. pc' \in [Calls -> Places]
    BY <1>0 DEF Goto, Types, Places
  <2>2. /\ promise' \in [Addresses -> Promises]
        /\ timed' \in [Calls -> BOOLEAN] /\ op' \in [Calls -> OpStates]
        /\ posted' \in [Threads -> [Addresses -> Nat]]
    BY <1>0, <1>1 DEF Types
  <2> QED BY <1>1, <2>1, <2>2, QuietStep
<1>3. ASSUME NEW d \in Calls PROVE NamesThread(d)' /\ NotSetYet(d)' /\ WokenWhenSet(d)'
  <2>1. NamesThread(d)'
    BY <1>0, <1>1 DEF NamesThread, At
  <2>2. NotSetYet(d)'
    BY <1>0, <1>1 DEF NotSetYet, At, FrameGone
  <2>3. WokenWhenSet(d)'
    BY <1>0, <1>1 DEF WokenWhenSet, At
  <2> QED BY <2>1, <2>2, <2>3
<1>4. ASSUME NEW b \in Cells PROVE IsFiniteSet(Notices(b)') /\ promise'[b].m_ref_count = Holders(b)'
  <2>1. \A d \in Calls : Keeps(d)
    BY <1>1 DEF Keeps
  <2> QED BY <1>1, <2>1, CountKept
<1>5. WakeupOnItsWay'
  BY <1>0, <1>1 DEF WakeupOnItsWay, At
<1> QED BY <1>2, <1>3, <1>4, <1>5 DEF IInv, CountIsHolders

\* The promise is set, with a value or an error, and the notification is next.  If there
\* is an error already nothing happens.
LEMMA SetIInv ==
    ASSUME IInv, NEW c \in Calls, NEW q \in Promises, NEW to \in {"notify", "drop"},
           op[c] = "pending", kind[c] # "signal",
           q.m_ref_count = At(c).m_ref_count, q.m_blocked_thread = At(c).m_blocked_thread,
           ready(q), to = "drop" => ready(At(c)),
           SetAt(prom[c], q), OpTo(c, to), UNCHANGED posted
    PROVE  IInv'
<1>0. /\ Types
      /\ \A d \in Calls : CallOK(d) /\ NamesThread(d) /\ NotSetYet(d) /\ WokenWhenSet(d)
      /\ \A d, e \in Calls : OneHandler(d, e) /\ OneUser(d, e)
      /\ \A b \in Cells : IsFiniteSet(Notices(b)) /\ promise[b].m_ref_count = Holders(b)
      /\ WakeupOnItsWay
  BY IInvParts
<1> DEFINE a == prom[c]
<1>1. a \in Addresses
  BY <1>0 DEF CallOK
<1>2. promise' = [promise EXCEPT ![a] = q]
  BY DEF SetAt
<1>3. /\ op'[c] = to /\ \A d \in Calls : d # c => op'[d] = op[d]
      /\ UNCHANGED <<pc, kind, home, prom, timed, outcome, shared, posted>>
      /\ promise'[a] = q
      /\ \A b \in Addresses : b # a => promise'[b] = promise[b]
  BY <1>0, <1>1, <1>2 DEF OpTo, callVars, Types
<1>4. /\ Types'
      /\ \A d \in Calls : CallOK(d)'
      /\ \A d, e \in Calls : OneHandler(d, e)' /\ OneUser(d, e)'
      /\ ResultIsOwn'
  <2>1. promise' \in [Addresses -> Promises]
    BY <1>0, <1>2 DEF Types
  <2>2. op' \in [Calls -> OpStates]
    BY <1>0 DEF OpTo, Types, OpStates
  <2>3. /\ timed' \in [Calls -> BOOLEAN] /\ pc' \in [Calls -> Places]
        /\ posted' \in [Threads -> [Addresses -> Nat]]
    BY <1>0, <1>3 DEF Types
  <2> QED BY <1>3, <2>1, <2>2, <2>3, QuietStep
<1>5. ASSUME NEW d \in Calls PROVE NamesThread(d)' /\ NotSetYet(d)' /\ WokenWhenSet(d)'
  <2>1. NamesThread(d)'
    BY <1>0, <1>3, CellsAreNotFrames DEF NamesThread, At
  <2>2. NotSetYet(d)'
    BY <1>0, <1>3 DEF NotSetYet, At, FrameGone, CallOK, OneHandler
  <2>3. WokenWhenSet(d)'
    <3>1. CASE prom[d] = a
      BY <1>3, <3>1 DEF WokenWhenSet, At
    <3>2. CASE prom[d] # a
      BY <1>0, <1>3, <3>2 DEF WokenWhenSet, At, CallOK
    <3> QED BY <3>1, <3>2
  <2> QED BY <2>1, <2>2, <2>3
<1>6. ASSUME NEW b \in Cells PROVE IsFiniteSet(Notices(b)') /\ promise'[b].m_ref_count = Holders(b)'
  <2>1. \A d \in Calls : Keeps(d)
    BY <1>3 DEF Keeps
  <2>2. promise'[b].m_ref_count = promise[b].m_ref_count
    BY <1>3, CellsAreNotFrames DEF At
  <2> QED BY <1>3, <2>1, <2>2, CountKept
<1>7. WakeupOnItsWay'
  <2> SUFFICES ASSUME NEW d \in Calls, pc'[d] = "blocked", ready(At(d))',
                      At(d).m_blocked_thread' = home'[d]
               PROVE  \/ posted'[home'[d]][prom'[d]] > 0
                      \/ \E e \in Calls : prom'[e] = prom'[d] /\ op'[e] = "notify"
    BY DEF WakeupOnItsWay
  <2>1. pc[d] = "blocked" /\ prom[d] \in Addresses
    BY <1>0, <1>3 DEF CallOK
  <2>2. CASE prom[d] = a /\ to = "notify"
    BY <1>3, <2>2
  <2>3. CASE prom[d] # a \/ to = "drop"
    <3>1. ready(At(d)) /\ At(d).m_blocked_thread = home[d]
      BY <1>3, <2>1, <2>3 DEF At
    <3>2. \/ posted[home[d]][prom[d]] > 0
          \/ \E e \in Calls : prom[e] = prom[d] /\ op[e] = "notify"
      BY <1>0, <2>1, <3>1 DEF WakeupOnItsWay
    <3> QED BY <1>3, <3>2
  <2> QED BY <2>2, <2>3
<1> QED BY <1>4, <1>5, <1>6, <1>7 DEF IInv, CountIsHolders

\* promise::set_value.
LEMMA SetValueIInv ==
    ASSUME IInv, NEW c \in Calls, SetValue(c) PROVE IInv'
<1> DEFINE q == Valued(At(c))
           to == IF At(c).m_error = "none" THEN "notify" ELSE "drop"
<1>1. At(c) \in Promises
  <2>1. prom[c] \in Addresses /\ promise \in [Addresses -> Promises]
    BY IInvParts DEF SetValue, CallOK, Types
  <2> QED BY <2>1 DEF At
<1>2. /\ q \in Promises /\ q.m_ref_count = At(c).m_ref_count
      /\ q.m_blocked_thread = At(c).m_blocked_thread /\ ready(q)
  BY <1>1, ValuedFacts
<1>3. to \in {"notify", "drop"} /\ (to = "drop" => ready(At(c)))
  BY DEF ready
<1>4. /\ op[c] = "pending" /\ kind[c] # "signal"
      /\ SetAt(prom[c], q) /\ OpTo(c, to) /\ UNCHANGED posted
  BY DEF SetValue
<1> HIDE DEF q, to
<1> QED BY <1>2, <1>3, <1>4, SetIInv

\* promise::set_exception.
LEMMA SetExceptionIInv ==
    ASSUME IInv, NEW c \in Calls, SetException(c) PROVE IInv'
<1> DEFINE x == "error"
           q == [At(c) EXCEPT !.m_error = x]
           to == "notify"
<1>1. At(c) \in Promises
  <2>1. prom[c] \in Addresses /\ promise \in [Addresses -> Promises]
    BY IInvParts DEF SetException, CallOK, Types
  <2> QED BY <2>1 DEF At
<1>2. /\ op[c] = "pending" /\ kind[c] # "signal"
      /\ SetAt(prom[c], q) /\ OpTo(c, to) /\ UNCHANGED posted
  BY DEF SetException
<1>3. to \in {"notify", "drop"} /\ to # "drop" /\ x \in {"none", "timeout", "error"} /\ x # "none"
  OBVIOUS
<1> HIDE DEF x, to
<1>4. /\ q \in Promises /\ q.m_ref_count = At(c).m_ref_count
      /\ q.m_blocked_thread = At(c).m_blocked_thread /\ ready(q)
  BY <1>1, <1>3, ErrorFacts
<1> HIDE DEF q
<1> QED BY <1>2, <1>3, <1>4, SetIInv

\* A notification of the thread that the promise names is posted, with a reference.
LEMMA PostIInv ==
    ASSUME IInv, NEW c \in Calls, NEW q \in Promises, NEW t \in Threads,
           pc[c] # "idle" \/ op[c] # "none",
           t = At(c).m_blocked_thread, q.m_blocked_thread = t,
           q.m_ref_count = At(c).m_ref_count + 1, q.m_value = At(c).m_value,
           q.m_error = At(c).m_error \/ q.m_error = "timeout",
           \A d \in Calls : prom[d] = prom[c] /\ pc[d] # "idle" /\ ~shared[d] /\ kind[d] # "sync"
                => ready(q),
           timed' \in [Calls -> BOOLEAN], op' \in [Calls -> OpStates],
           op'[c] = op[c] \/ (op[c] = "notify" /\ op'[c] = "drop"),
           \A d \in Calls : d # c => op'[d] = op[d],
           SetAt(prom[c], q), Post(t, prom[c]), UNCHANGED <<pc, kind, home, prom, outcome, shared>>
    PROVE  IInv'
<1>0. /\ Types
      /\ \A d \in Calls : CallOK(d) /\ NamesThread(d) /\ NotSetYet(d) /\ WokenWhenSet(d)
      /\ \A b \in Cells : IsFiniteSet(Notices(b)) /\ promise[b].m_ref_count = Holders(b)
      /\ WakeupOnItsWay
  BY IInvParts
<1> DEFINE a == prom[c]
<1>1. a \in Addresses
  BY <1>0 DEF CallOK
<1>2. promise' = [promise EXCEPT ![a] = q]
  BY DEF SetAt
<1>3. /\ promise'[a] = q
      /\ \A b \in Addresses : b # a => promise'[b] = promise[b]
  BY <1>0, <1>1, <1>2 DEF Types
<1>4. /\ posted' \in [Threads -> [Addresses -> Nat]]
      /\ posted'[t][a] = posted[t][a] + 1
      /\ \A u \in Threads, b \in Addresses : u # t \/ b # a => posted'[u][b] = posted[u][b]
      /\ IsFiniteSet(Notices(a)) => /\ IsFiniteSet(Notices(a)')
                                    /\ Cardinality(Notices(a)') = Cardinality(Notices(a)) + 1
      /\ \A b \in Addresses : b # a => Notices(b)' = Notices(b)
  BY <1>0, <1>1, PostFacts
<1>5. /\ Types'
      /\ \A d \in Calls : CallOK(d)'
      /\ \A d, e \in Calls : OneHandler(d, e)' /\ OneUser(d, e)'
      /\ ResultIsOwn'
  <2>1. promise' \in [Addresses -> Promises]
    BY <1>0, <1>2 DEF Types
  <2>2. pc' \in [Calls -> Places]
    BY <1>0 DEF Types
  <2>3. \A d \in Calls : /\ op'[d] = "none" <=> op[d] = "none"
                         /\ op'[d] = "pending" => op[d] = "pending"
                         /\ kind[d] = "signal" => op'[d] = op[d]
    BY <1>0 DEF CallOK
  <2> QED BY <1>4, <2>1, <2>2, <2>3, QuietStep
<1>6. ASSUME NEW d \in Calls PROVE NamesThread(d)' /\ NotSetYet(d)' /\ WokenWhenSet(d)'
  <2>1. NamesThread(d)'
    BY <1>0, <1>3, CellsAreNotFrames DEF NamesThread, At
  <2>2. NotSetYet(d)'
    <3>1. op'[d] = "pending" => op[d] = "pending"
      OBVIOUS
    <3>2. CASE prom[d] = a
      BY <1>0, <1>3, <3>1, <3>2 DEF NotSetYet, At, FrameGone
    <3>3. CASE prom[d] # a
      BY <1>0, <1>3, <3>1, <3>3 DEF NotSetYet, At, FrameGone, CallOK
    <3> QED BY <3>2, <3>3
  <2>3. WokenWhenSet(d)'
    <3>1. CASE prom[d] = a
      BY <1>3, <3>1 DEF WokenWhenSet, At
    <3>2. CASE prom[d] # a
      BY <1>0, <1>3, <1>4, <3>2 DEF WokenWhenSet, At, CallOK
    <3> QED BY <3>1, <3>2
  <2> QED BY <2>1, <2>2, <2>3
<1>7. ASSUME NEW b \in Cells PROVE IsFiniteSet(Notices(b)') /\ promise'[b].m_ref_count = Holders(b)'
  <2>1. \A d \in Calls : Keeps(d)
    BY DEF Keeps
  <2>2. CASE b = a
    <3>1. /\ IsFiniteSet(Notices(b)') /\ Cardinality(Notices(b)') = Cardinality(Notices(b)) + 1
          /\ promise'[b].m_ref_count = promise[b].m_ref_count + 1 /\ 1 \in Int
      BY <1>0, <1>3, <1>4, <2>2 DEF At
    <3> QED BY <2>1, <3>1, QuietCount
  <2>3. CASE b # a
    <3>1. promise[b].m_ref_count \in Int /\ b \in Addresses
      BY <1>0, CellsAreNotFrames DEF Types, Promises
    <3>2. Notices(b)' = Notices(b) /\ IsFiniteSet(Notices(b))
      BY <1>0, <1>4, <2>3, <3>1
    <3>3. /\ IsFiniteSet(Notices(b)') /\ Cardinality(Notices(b)') = Cardinality(Notices(b)) + 0
          /\ promise'[b].m_ref_count = promise[b].m_ref_count + 0 /\ 0 \in Int
      BY <1>3, <2>3, <3>1, <3>2, FS_CardinalityType
    <3> QED BY <2>1, <3>3, QuietCount
  <2> QED BY <2>2, <2>3
<1>8. WakeupOnItsWay'
  <2> SUFFICES ASSUME NEW d \in Calls, pc'[d] = "blocked", ready(At(d))',
                      At(d).m_blocked_thread' = home'[d]
               PROVE  \/ posted'[home'[d]][prom'[d]] > 0
                      \/ \E e \in Calls : prom'[e] = prom'[d] /\ op'[e] = "notify"
    BY DEF WakeupOnItsWay
  <2>1. pc[d] = "blocked" /\ prom[d] \in Addresses /\ home[d] \in Threads
    BY <1>0 DEF CallOK
  <2>2. CASE prom[d] = a
    <3>1. home'[d] = t
      BY <1>3, <2>2 DEF At
    <3>2. posted[t][a] \in Nat
      BY <1>0, <1>1 DEF Types
    <3> QED BY <1>4, <2>2, <3>1, <3>2
  <2>3. CASE prom[d] # a
    <3>1. ready(At(d)) /\ At(d).m_blocked_thread = home[d]
      BY <1>3, <2>1, <2>3 DEF At
    <3>2. \/ posted[home[d]][prom[d]] > 0
          \/ \E e \in Calls : prom[e] = prom[d] /\ op[e] = "notify"
      BY <1>0, <2>1, <3>1 DEF WakeupOnItsWay
    <3> QED BY <1>4, <2>1, <2>3, <3>2
  <2> QED BY <2>2, <2>3
<1> QED BY <1>5, <1>6, <1>7, <1>8 DEF IInv, CountIsHolders

\* promise_base::notify.
LEMMA NotifyIInv ==
    ASSUME IInv, NEW c \in Calls, Notify(c) PROVE IInv'
<1>0. /\ Types
      /\ \A d \in Calls : CallOK(d) /\ NamesThread(d) /\ NotSetYet(d) /\ WokenWhenSet(d)
      /\ \A d, e \in Calls : OneHandler(d, e) /\ OneUser(d, e)
      /\ WakeupOnItsWay
  BY IInvParts
<1>1. op[c] = "notify" /\ OpTo(c, "drop") /\ prom[c] \in Addresses /\ At(c) \in Promises
  BY <1>0 DEF Notify, CallOK, Types, At
<1>2. /\ op'[c] = "drop" /\ \A d \in Calls : d # c => op'[d] = op[d]
      /\ op' \in [Calls -> OpStates]
      /\ UNCHANGED <<pc, kind, home, prom, timed, outcome, shared>>
  BY <1>0, <1>1 DEF OpTo, callVars, Types, OpStates
<1>3. CASE Told(c) = NULL
  <2>1. UNCHANGED <<promise, posted>>
    BY <1>3 DEF Notify
  <2>2. /\ Types'
        /\ \A d \in Calls : CallOK(d)'
        /\ \A d, e \in Calls : OneHandler(d, e)' /\ OneUser(d, e)'
        /\ ResultIsOwn'
    <3>1. /\ promise' \in [Addresses -> Promises] /\ timed' \in [Calls -> BOOLEAN]
          /\ pc' \in [Calls -> Places] /\ posted' \in [Threads -> [Addresses -> Nat]]
      BY <1>0, <1>2, <2>1 DEF Types
    <3>2. \A d \in Calls : kind[d] = "signal" => d # c
      BY <1>0, <1>1 DEF CallOK
    <3> QED BY <1>1, <1>2, <3>1, <3>2, QuietStep
  <2>3. ASSUME NEW d \in Calls PROVE NamesThread(d)' /\ NotSetYet(d)' /\ WokenWhenSet(d)'
    BY <1>0, <1>2, <2>1 DEF NamesThread, NotSetYet, WokenWhenSet, At, FrameGone
  <2>4. ASSUME NEW b \in Cells PROVE IsFiniteSet(Notices(b)') /\ promise'[b].m_ref_count = Holders(b)'
    <3>1. \A d \in Calls : Keeps(d)
      BY <1>1, <1>2 DEF Keeps
    <3> QED BY <2>1, <3>1, CountKept
  <2>5. WakeupOnItsWay'
    <3> SUFFICES ASSUME NEW d \in Calls, pc[d] = "blocked", ready(At(d)),
                        At(d).m_blocked_thread = home[d]
                 PROVE  \/ posted[home[d]][prom[d]] > 0
                        \/ \E e \in Calls : prom[e] = prom[d] /\ op'[e] = "notify"
      BY <1>2, <2>1 DEF WakeupOnItsWay, At
    <3>1. home[d] # NULL
      BY <1>0, CellsAreNotFrames DEF CallOK
    <3>2. prom[d] # prom[c]
      BY <1>3, <3>1 DEF Told, At
    <3>3. \/ posted[home[d]][prom[d]] > 0
          \/ \E e \in Calls : prom[e] = prom[d] /\ op[e] = "notify"
      BY <1>0 DEF WakeupOnItsWay
    <3> QED BY <1>2, <3>2, <3>3
  <2> QED BY <2>2, <2>3, <2>4, <2>5 DEF IInv, CountIsHolders
<1>4. CASE Told(c) # NULL
  <2> DEFINE t == At(c).m_blocked_thread
             q == retain(At(c), 1)
  <2>1. t \in Threads
    BY <1>1, <1>4 DEF Told, Promises
  <2>2. SetAt(prom[c], q) /\ Post(t, prom[c])
    BY <1>4 DEF Notify, Told
  <2>3. /\ q \in Promises /\ q.m_blocked_thread = t /\ q.m_ref_count = At(c).m_ref_count + 1
        /\ q.m_value = At(c).m_value /\ q.m_error = At(c).m_error
        /\ ready(q) <=> ready(At(c))
    BY <1>1, RetainFacts
  <2>4. timed' \in [Calls -> BOOLEAN]
    BY <1>0, <1>2 DEF Types
  <2>5. ASSUME NEW d \in Calls, prom[d] = prom[c], pc[d] # "idle", ~shared[d], kind[d] # "sync"
        PROVE  ready(q)
    <3>1. d = c
      BY <1>0, <1>1, <2>5 DEF OneUser
    <3> QED BY <1>0, <1>1, <2>3, <2>5, <3>1 DEF WokenWhenSet
  <2> HIDE DEF t, q
  <2>6. t = At(c).m_blocked_thread /\ (pc[c] # "idle" \/ op[c] # "none")
    BY <1>1 DEF t
  <2> QED BY <1>1, <1>2, <2>1, <2>2, <2>3, <2>4, <2>5, <2>6, PostIInv
<1> QED BY <1>3, <1>4

\* thread::notify makes ready who is blocked on the promise, and changes nothing else.
LEMMA UnblockFacts ==
    ASSUME Types, NEW t, NEW a, Unblock(t, a)
    PROVE  /\ pc' \in [Calls -> Places] /\ timed' \in [Calls -> BOOLEAN]
           /\ \A d \in Calls : \/ pc'[d] = pc[d]
                               \/ pc[d] = "blocked" /\ pc'[d] = "ready" /\ prom[d] = a
           /\ \A d \in Calls : pc'[d] = "blocked" => pc[d] = "blocked" /\ (prom[d] # a \/ home[d] # t)
<1>1. pc \in [Calls -> Places] /\ timed \in [Calls -> BOOLEAN]
  BY DEF Types
<1>2. /\ pc' = [c \in Calls |-> IF c \in Waiters(t, a) THEN "ready" ELSE pc[c]]
      /\ timed' = [c \in Calls |-> timed[c] /\ c \notin Waiters(t, a)]
  BY DEF Unblock
<1>3. \A c \in Calls : c \in Waiters(t, a) <=> pc[c] = "blocked" /\ home[c] = t /\ prom[c] = a
  BY DEF Waiters
<1>4. timed' \in [Calls -> BOOLEAN]
  BY <1>1, <1>2, Zenon
<1>5. pc' \in [Calls -> Places]
  BY <1>1, <1>2 DEF Places
<1> QED BY <1>1, <1>2, <1>3, <1>4, <1>5

\* The promise is set, and the waiting call made ready, in one step of its own thread.
LEMMA UnblockIInv ==
    ASSUME IInv, NEW c \in Calls, NEW q \in Promises, pc[c] # "idle",
           q.m_ref_count = At(c).m_ref_count, q.m_blocked_thread = At(c).m_blocked_thread,
           ready(q),
           \/ kind[c] = "signal"
           \/ /\ At(c).m_blocked_thread = home[c] /\ q.m_value = At(c).m_value
              /\ q.m_error = "timeout",
           SetAt(prom[c], q), Unblock(home[c], prom[c]),
           UNCHANGED <<kind, home, prom, outcome, shared, op, posted>>
    PROVE  IInv'
<1>0. /\ Types
      /\ \A d \in Calls : CallOK(d) /\ NamesThread(d) /\ NotSetYet(d) /\ WokenWhenSet(d)
      /\ \A d, e \in Calls : OneHandler(d, e) /\ OneUser(d, e)
      /\ WakeupOnItsWay
  BY IInvParts
<1> DEFINE a == prom[c]
<1>1. a \in Addresses
  BY <1>0 DEF CallOK
<1>2. promise' = [promise EXCEPT ![a] = q]
  BY DEF SetAt
<1>3. /\ promise'[a] = q
      /\ \A b \in Addresses : b # a => promise'[b] = promise[b]
  BY <1>0, <1>1, <1>2 DEF Types
<1>4. /\ pc' \in [Calls -> Places] /\ timed' \in [Calls -> BOOLEAN]
      /\ \A d \in Calls : pc'[d] = pc[d] \/ (pc[d] = "blocked" /\ pc'[d] = "ready" /\ prom[d] = a)
      /\ \A d \in Calls : pc'[d] = "blocked" => pc[d] = "blocked" /\ (prom[d] # a \/ home[d] # home[c])
  BY <1>0, UnblockFacts
<1>5. /\ Types'
      /\ \A d \in Calls : CallOK(d)'
      /\ \A d, e \in Calls : OneHandler(d, e)' /\ OneUser(d, e)'
      /\ ResultIsOwn'
  <2>1. promise' \in [Addresses -> Promises]
    BY <1>0, <1>2 DEF Types
  <2>2. op' \in [Calls -> OpStates] /\ posted' \in [Threads -> [Addresses -> Nat]]
    BY <1>0 DEF Types
  <2>3. \A d \in Calls : pc'[d] = "idle" <=> pc[d] = "idle"
    BY <1>4
  <2> QED BY <1>4, <2>1, <2>2, <2>3, QuietStep
<1>6. ASSUME NEW d \in Calls PROVE NamesThread(d)' /\ NotSetYet(d)' /\ WokenWhenSet(d)'
  <2>1. NamesThread(d)'
    BY <1>0, <1>3, <1>4, CellsAreNotFrames DEF NamesThread, At
  <2>2. NotSetYet(d)'
    <3> SUFFICES ASSUME op[d] = "pending", kind[d] # "signal", ~FrameGone(d)'
                 PROVE  ~At(d)'.m_value /\ At(d)'.m_error # "error"
      BY DEF NotSetYet
    <3>1. ~FrameGone(d)
      BY <1>4 DEF FrameGone
    <3>2. ~promise[prom[d]].m_value /\ promise[prom[d]].m_error # "error" /\ prom[d] \in Addresses
      BY <1>0, <3>1 DEF NotSetYet, At, CallOK
    <3>3. CASE prom[d] = a
      <4>1. kind[c] # "signal"
        BY <1>0, <3>3 DEF OneHandler, CallOK
      <4> QED BY <1>3, <3>2, <3>3, <4>1 DEF At
    <3>4. CASE prom[d] # a
      BY <1>3, <3>2, <3>4 DEF At
    <3> QED BY <3>3, <3>4
  <2>3. WokenWhenSet(d)'
    <3>1. CASE prom[d] = a
      BY <1>3, <3>1 DEF WokenWhenSet, At
    <3>2. CASE prom[d] # a
      BY <1>0, <1>3, <1>4, <3>2 DEF WokenWhenSet, At, CallOK
    <3> QED BY <3>1, <3>2
  <2> QED BY <2>1, <2>2, <2>3
<1>7. ASSUME NEW b \in Cells PROVE IsFiniteSet(Notices(b)') /\ promise'[b].m_ref_count = Holders(b)'
  <2>1. \A d \in Calls : Keeps(d)
    BY <1>4 DEF Keeps
  <2>2. promise'[b].m_ref_count = promise[b].m_ref_count
    BY <1>3, CellsAreNotFrames DEF At
  <2> QED BY <2>1, <2>2, CountKept
<1>8. WakeupOnItsWay'
  <2> SUFFICES ASSUME NEW d \in Calls, pc'[d] = "blocked", ready(At(d))',
                      At(d).m_blocked_thread' = home'[d]
               PROVE  \/ posted'[home'[d]][prom'[d]] > 0
                      \/ \E e \in Calls : prom'[e] = prom'[d] /\ op'[e] = "notify"
    BY DEF WakeupOnItsWay
  <2>1. pc[d] = "blocked" /\ prom[d] \in Addresses /\ (prom[d] # a \/ home[d] # home[c])
    BY <1>0, <1>4 DEF CallOK
  <2>2. prom[d] # a
    <3> SUFFICES ASSUME prom[d] = a PROVE FALSE
      OBVIOUS
    <3>1. home[d] = At(c).m_blocked_thread /\ d # c
      BY <1>3, <2>1 DEF At
    <3>2. kind[c] = "signal"
      BY <2>1, <3>1
    <3> QED BY <1>0, <2>1, <3>1, <3>2 DEF OneUser, CallOK
  <2>3. ready(At(d)) /\ At(d).m_blocked_thread = home[d]
    BY <1>3, <2>1, <2>2 DEF At
  <2> QED BY <1>0, <2>1, <2>3 DEF WakeupOnItsWay
<1> QED BY <1>5, <1>6, <1>7, <1>8 DEF IInv, CountIsHolders

\* Nothing happens.
LEMMA SameIInv == ASSUME IInv, UNCHANGED vars PROVE IInv'
<1>1. /\ promise' = promise /\ pc' = pc /\ kind' = kind /\ home' = home /\ prom' = prom
      /\ timed' = timed /\ outcome' = outcome /\ shared' = shared /\ op' = op /\ posted' = posted
  BY DEF vars
<1>2. /\ Types' /\ \A c \in Calls : CallOK(c)'
      /\ \A c, d \in Calls : OneHandler(c, d)' /\ OneUser(c, d)'
      /\ ResultIsOwn'
  BY <1>1, QuietStep, IInvParts DEF Types
<1>3. \A c \in Calls : NamesThread(c)' /\ NotSetYet(c)' /\ WokenWhenSet(c)'
  BY <1>1, IInvParts DEF NamesThread, NotSetYet, WokenWhenSet, FrameGone, At
<1>4. \A a \in Cells : IsFiniteSet(Notices(a)') /\ promise'[a].m_ref_count = Holders(a)'
  BY <1>1, CountKept DEF Keeps
<1>5. WakeupOnItsWay'
  BY <1>1, IInvParts DEF WakeupOnItsWay, At
<1> QED BY <1>2, <1>3, <1>4, <1>5 DEF IInv, CountIsHolders

\* A signal is emitted; if the call has timed out already it stays so.
LEMMA EmitIInv ==
    ASSUME IInv, NEW c \in Calls, Emit(c) PROVE IInv'
<1>0. Types /\ CallOK(c)
  BY IInvParts
<1>1. /\ pc[c] # "idle" /\ kind[c] = "signal" /\ prom[c] \in Addresses /\ At(c) \in Promises
      /\ promise \in [Addresses -> Promises]
  BY <1>0 DEF Emit, CallOK, Types, At
<1> DEFINE q == Valued(At(c))
<1>2. SetAt(prom[c], q) /\ UNCHANGED <<kind, home, prom, outcome, shared, op, posted>>
  BY DEF Emit
<1>3. CASE At(c).m_error = "none"
  <2>1. /\ q \in Promises /\ q.m_ref_count = At(c).m_ref_count
        /\ q.m_blocked_thread = At(c).m_blocked_thread /\ ready(q)
    BY <1>1, ValuedFacts
  <2>2. Unblock(home[c], prom[c])
    BY <1>3 DEF Emit
  <2> HIDE DEF q
  <2> QED BY <1>1, <1>2, <2>1, <2>2, UnblockIInv
<1>4. CASE At(c).m_error # "none"
  <2>1. q = At(c)
    BY <1>1, <1>4 DEF Valued, Promises
  <2>2. promise' = promise
    BY <1>1, <1>2, <2>1 DEF SetAt, At
  <2>3. UNCHANGED vars
    BY <1>2, <1>4, <2>2 DEF Emit, vars
  <2> QED BY <2>3, SameIInv
<1> QED BY <1>3, <1>4

\* check_for_timeouts.
LEMMA TimeoutIInv ==
    ASSUME IInv, NEW c \in Calls, Timeout(c) PROVE IInv'
<1>0. /\ Types
      /\ \A d \in Calls : CallOK(d) /\ NamesThread(d) /\ NotSetYet(d) /\ WokenWhenSet(d)
      /\ \A d, e \in Calls : OneHandler(d, e) /\ OneUser(d, e)
      /\ WakeupOnItsWay
  BY IInvParts
<1> DEFINE a == prom[c]
           x == "timeout"
           p == [At(c) EXCEPT !.m_error = x]
           q == retain(p, 1)
<1>1. /\ pc[c] = "blocked" /\ a \in Addresses /\ At(c) \in Promises /\ home[c] \in Threads
      /\ UNCHANGED <<kind, home, prom, outcome, shared, op>>
      /\ x \in {"none", "timeout", "error"} /\ x # "none" /\ x # "error"
  BY <1>0 DEF Timeout, CallOK, Types, At
<1>2. IF p.m_blocked_thread = home[c]
      THEN SetAt(a, p) /\ Unblock(home[c], a) /\ UNCHANGED posted
      ELSE /\ SetAt(a, q) /\ Post(p.m_blocked_thread, a)
           /\ timed' = [timed EXCEPT ![c] = FALSE] /\ UNCHANGED pc
  BY DEF Timeout
<1> HIDE DEF x
<1>3. /\ p \in Promises /\ p.m_ref_count = At(c).m_ref_count /\ p.m_error = x
      /\ p.m_value = At(c).m_value
      /\ p.m_blocked_thread = At(c).m_blocked_thread /\ ready(p)
  BY <1>1, ErrorFacts
<1> HIDE DEF p
<1>4. /\ q \in Promises /\ q.m_ref_count = At(c).m_ref_count + 1 /\ q.m_error = x
      /\ q.m_value = At(c).m_value
      /\ q.m_blocked_thread = At(c).m_blocked_thread /\ ready(q)
  BY <1>3, RetainFacts
<1> HIDE DEF q
<1>5. CASE p.m_blocked_thread = home[c]
  <2>1. SetAt(a, p) /\ Unblock(home[c], a) /\ UNCHANGED posted
    BY <1>2, <1>5
  <2>2. /\ At(c).m_blocked_thread = home[c] /\ p.m_error = "timeout" /\ pc[c] # "idle"
    BY <1>1, <1>3, <1>5 DEF x
  <2> QED BY <1>1, <1>3, <2>1, <2>2, UnblockIInv
<1>6. CASE p.m_blocked_thread # home[c]
  <2>1. /\ SetAt(a, q) /\ Post(p.m_blocked_thread, a)
        /\ timed' = [timed EXCEPT ![c] = FALSE] /\ UNCHANGED pc
    BY <1>2, <1>6
  <2>2. timed' \in [Calls -> BOOLEAN] /\ op' \in [Calls -> OpStates]
    BY <1>0, <1>1, <2>1 DEF Types
  <2>3. CASE p.m_blocked_thread \in Threads
    <3> DEFINE t == p.m_blocked_thread
    <3>1. /\ t \in Threads /\ t = At(c).m_blocked_thread /\ q.m_blocked_thread = t
          /\ q.m_error = "timeout" /\ pc[c] # "idle"
      BY <1>1, <1>3, <1>4, <2>3 DEF x
    <3> HIDE DEF t
    <3>2. Post(t, a)
      BY <2>1 DEF t
    <3> QED BY <1>1, <1>4, <2>1, <2>2, <3>1, <3>2, PostIInv
  <2>4. CASE p.m_blocked_thread \notin Threads
    <3>1. At(c).m_blocked_thread = NULL
      BY <1>1, <1>3, <2>4 DEF Promises
    <3>2. a \notin Cells
      BY <1>0, <1>1, <1>3, <2>4 DEF NamesThread
    <3>3. posted' = posted
      BY <1>0, <2>1, <2>4 DEF Post, Types
    <3>4. promise' = [promise EXCEPT ![a] = q]
      BY <2>1 DEF SetAt
    <3>5. /\ promise'[a] = q
          /\ \A b \in Addresses : b # a => promise'[b] = promise[b]
      BY <1>0, <1>1, <3>4 DEF Types
    <3>6. /\ Types'
          /\ \A d \in Calls : CallOK(d)'
          /\ \A d, e \in Calls : OneHandler(d, e)' /\ OneUser(d, e)'
          /\ ResultIsOwn'
      <4>1. promise' \in [Addresses -> Promises]
        BY <1>0, <1>4, <3>4 DEF Types
      <4>2. pc' \in [Calls -> Places] /\ posted' \in [Threads -> [Addresses -> Nat]]
        BY <1>0, <2>1, <3>3 DEF Types
      <4> QED BY <1>1, <2>1, <2>2, <4>1, <4>2, QuietStep
    <3>7. ASSUME NEW d \in Calls PROVE NamesThread(d)' /\ NotSetYet(d)' /\ WokenWhenSet(d)'
      <4>1. CASE prom[d] = a
        <5>1. NotSetYet(d)'
          BY <1>0, <1>1, <1>4, <2>1, <3>5, <4>1 DEF NotSetYet, At, FrameGone
        <5> QED BY <1>1, <1>4, <3>2, <3>5, <4>1, <5>1 DEF NamesThread, WokenWhenSet, At
      <4>2. CASE prom[d] # a
        <5>1. prom[d] \in Addresses => promise'[prom[d]] = promise[prom[d]]
          BY <3>5, <4>2
        <5>2. NamesThread(d)'
          BY <1>0, <1>1, <2>1, <5>1, CellsAreNotFrames DEF NamesThread, At
        <5>3. NotSetYet(d)' /\ WokenWhenSet(d)'
          BY <1>0, <1>1, <2>1, <3>3, <5>1 DEF NotSetYet, WokenWhenSet, At, FrameGone, CallOK
        <5> QED BY <5>2, <5>3
      <4> QED BY <4>1, <4>2
    <3>8. ASSUME NEW b \in Cells
          PROVE  IsFiniteSet(Notices(b)') /\ promise'[b].m_ref_count = Holders(b)'
      <4>1. \A d \in Calls : Keeps(d)
        BY <1>1, <2>1 DEF Keeps
      <4>2. promise'[b].m_ref_count = promise[b].m_ref_count
        BY <3>2, <3>5, CellsAreNotFrames
      <4> QED BY <3>3, <4>1, <4>2, CountKept
    <3>9. WakeupOnItsWay'
      <4> SUFFICES ASSUME NEW d \in Calls, pc'[d] = "blocked", ready(At(d))',
                          At(d).m_blocked_thread' = home'[d]
                   PROVE  \/ posted'[home'[d]][prom'[d]] > 0
                          \/ \E e \in Calls : prom'[e] = prom'[d] /\ op'[e] = "notify"
        BY DEF WakeupOnItsWay
      <4>1. pc[d] = "blocked" /\ prom[d] \in Addresses /\ home[d] \in Threads /\ home[d] # NULL
        BY <1>0, <2>1, CellsAreNotFrames DEF CallOK
      <4>2. prom[d] # a
        BY <1>1, <1>4, <3>1, <3>5, <4>1 DEF At
      <4>3. ready(At(d)) /\ At(d).m_blocked_thread = home[d]
        BY <1>1, <3>5, <4>1, <4>2 DEF At
      <4> QED BY <1>0, <1>1, <3>3, <4>1, <4>3 DEF WakeupOnItsWay
    <3> QED BY <3>6, <3>7, <3>8, <3>9 DEF IInv, CountIsHolders
  <2> QED BY <2>3, <2>4
<1> QED BY <1>5, <1>6

\* A posted notification runs, and its reference goes.
LEMMA NotifyTaskIInv ==
    ASSUME IInv, NEW t \in Threads, NEW a \in Addresses, NotifyTask(t, a) PROVE IInv'
<1>0. /\ Types
      /\ \A d \in Calls : CallOK(d) /\ NamesThread(d) /\ NotSetYet(d) /\ WokenWhenSet(d)
      /\ \A b \in Cells : IsFiniteSet(Notices(b)) /\ promise[b].m_ref_count = Holders(b)
      /\ WakeupOnItsWay
  BY IInvParts
<1> DEFINE p == promise[a]
           q == IF p = Deleted THEN Deleted ELSE release(p, 1)
<1>1. /\ posted[t][a] > 0 /\ UNCHANGED <<kind, home, prom, outcome, shared, op>>
      /\ promise' = [promise EXCEPT ![a] = q]
      /\ p \in Promises
  BY <1>0 DEF NotifyTask, SetAt, Types
<1>2. /\ q \in Promises
      /\ q # Deleted => /\ q.m_value = p.m_value /\ q.m_error = p.m_error
                        /\ q.m_blocked_thread = p.m_blocked_thread
                        /\ ready(q) <=> ready(p)
      /\ p # Deleted => q.m_ref_count = p.m_ref_count - 1
  BY <1>1, DeletedFacts, ReleaseFacts
<1> HIDE DEF q
<1>3. /\ promise'[a] = q
      /\ \A b \in Addresses : b # a => promise'[b] = promise[b]
  BY <1>0, <1>1 DEF Types
<1>4. /\ pc' \in [Calls -> Places] /\ timed' \in [Calls -> BOOLEAN]
      /\ \A d \in Calls : pc'[d] = pc[d] \/ (pc[d] = "blocked" /\ pc'[d] = "ready" /\ prom[d] = a)
      /\ \A d \in Calls : pc'[d] = "blocked" => pc[d] = "blocked" /\ (prom[d] # a \/ home[d] # t)
  BY <1>0, UnblockFacts DEF NotifyTask
<1>5. /\ posted' \in [Threads -> [Addresses -> Nat]]
      /\ \A u \in Threads, b \in Addresses : u # t \/ b # a => posted'[u][b] = posted[u][b]
      /\ IsFiniteSet(Notices(a)) => /\ IsFiniteSet(Notices(a)') /\ Cardinality(Notices(a)) \in Nat
                                    /\ Cardinality(Notices(a)') = Cardinality(Notices(a)) - 1
      /\ \A b \in Addresses : b # a => Notices(b)' = Notices(b)
  <2>1. posted' = [posted EXCEPT ![t][a] = @ - 1]
    BY DEF NotifyTask
  <2> QED BY <1>0, <1>1, <2>1, TakeFacts
<1>6. /\ Types'
      /\ \A d \in Calls : CallOK(d)'
      /\ \A d, e \in Calls : OneHandler(d, e)' /\ OneUser(d, e)'
      /\ ResultIsOwn'
  <2>1. promise' \in [Addresses -> Promises]
    BY <1>0, <1>1, <1>2 DEF Types
  <2>2. op' \in [Calls -> OpStates]
    BY <1>0, <1>1 DEF Types
  <2>3. \A d \in Calls : pc'[d] = "idle" <=> pc[d] = "idle"
    BY <1>4
  <2> QED BY <1>1, <1>4, <1>5, <2>1, <2>2, <2>3, QuietStep
<1>7. ASSUME NEW b \in Cells PROVE IsFiniteSet(Notices(b)') /\ promise'[b].m_ref_count = Holders(b)'
  <2>1. \A d \in Calls : Keeps(d)
    BY <1>1, <1>4 DEF Keeps
  <2>2. promise[b].m_ref_count \in Int /\ b \in Addresses /\ IsFiniteSet(Notices(b))
    BY <1>0, CellsAreNotFrames DEF Types, Promises
  <2>3. CASE b = a
    <3>1. promise[b].m_ref_count > 0
      <4>1. <<t, 1>> \in Notices(b)
        BY <1>0, <1>1, <2>3, PostedIsNotice DEF Notices, Types
      <4>2. \E y : y \in Notices(b)
        BY <4>1
      <4> QED BY <1>0, <4>2, HeldIsThere
    <3>2. p # Deleted
      BY <2>3, <3>1, DeletedFacts
    <3>3. /\ IsFiniteSet(Notices(b)') /\ Cardinality(Notices(b)') = Cardinality(Notices(b)) + (-1)
          /\ promise'[b].m_ref_count = promise[b].m_ref_count + (-1) /\ -1 \in Int
      BY <1>2, <1>3, <1>5, <2>2, <2>3, <3>2
    <3> QED BY <2>1, <3>3, QuietCount
  <2>4. CASE b # a
    <3>1. Notices(b)' = Notices(b)
      BY <1>5, <2>2, <2>4
    <3>2. /\ IsFiniteSet(Notices(b)') /\ Cardinality(Notices(b)') = Cardinality(Notices(b)) + 0
          /\ promise'[b].m_ref_count = promise[b].m_ref_count + 0 /\ 0 \in Int
      BY <1>3, <2>2, <2>4, <3>1, FS_CardinalityType
    <3> QED BY <2>1, <3>2, QuietCount
  <2> QED BY <2>3, <2>4
<1>8. ASSUME NEW d \in Calls, prom[d] = a, a \in Cells, pc[d] # "idle" PROVE q # Deleted
  BY <1>1, <1>3, <1>4, <1>5, <1>7, <1>8, HeldIsThereNext
<1>9. ASSUME NEW d \in Calls PROVE NamesThread(d)' /\ NotSetYet(d)' /\ WokenWhenSet(d)'
  <2>1. CASE prom[d] = a
    <3>1. NamesThread(d)'
      BY <1>0, <1>1, <1>2, <1>3, <1>4, <1>8, <2>1 DEF NamesThread, At
    <3>2. NotSetYet(d)'
      BY <1>0, <1>1, <1>2, <1>3, <1>4, <2>1, DeletedFacts DEF NotSetYet, At, FrameGone
    <3>3. WokenWhenSet(d)'
      <4> SUFFICES ASSUME pc[d] # "idle", ~shared[d], kind[d] # "sync" PROVE ready(q)
        BY <1>1, <1>3, <1>4, <2>1 DEF WokenWhenSet, At
      <4>1. a \in Cells
        BY <1>0, <2>1, CellsAreNotFrames DEF CallOK
      <4>2. ready(p)
        BY <1>0, <1>1, <2>1 DEF WokenWhenSet, At
      <4> QED BY <1>2, <1>8, <2>1, <4>1, <4>2
    <3> QED BY <3>1, <3>2, <3>3
  <2>2. CASE prom[d] # a
    <3>1. prom[d] \in Addresses => promise'[prom[d]] = promise[prom[d]]
      BY <1>3, <2>2
    <3>2. pc'[d] = pc[d]
      BY <1>4, <2>2
    <3>3. NamesThread(d)'
      BY <1>0, <1>1, <3>1, <3>2, CellsAreNotFrames DEF NamesThread, At
    <3>4. NotSetYet(d)'
      BY <1>0, <1>1, <3>1, <3>2 DEF NotSetYet, At, FrameGone, CallOK
    <3>5. WokenWhenSet(d)'
      BY <1>0, <1>1, <1>5, <2>2, <3>1, <3>2 DEF WokenWhenSet, At, CallOK
    <3> QED BY <3>3, <3>4, <3>5
  <2> QED BY <2>1, <2>2
<1>10. WakeupOnItsWay'
  <2> SUFFICES ASSUME NEW d \in Calls, pc'[d] = "blocked", ready(At(d))',
                      At(d).m_blocked_thread' = home'[d]
               PROVE  \/ posted'[home'[d]][prom'[d]] > 0
                      \/ \E e \in Calls : prom'[e] = prom'[d] /\ op'[e] = "notify"
    BY DEF WakeupOnItsWay
  <2>1. /\ pc[d] = "blocked" /\ prom[d] \in Addresses /\ home[d] \in Threads
        /\ prom[d] # a \/ home[d] # t
    BY <1>0, <1>4 DEF CallOK
  <2>2. ready(At(d)) /\ At(d).m_blocked_thread = home[d]
    <3>1. CASE prom[d] = a
      BY <1>1, <1>2, <1>3, <3>1, DeletedFacts DEF At
    <3>2. CASE prom[d] # a
      BY <1>1, <1>3, <2>1, <3>2 DEF At
    <3> QED BY <3>1, <3>2
  <2>3. \/ posted[home[d]][prom[d]] > 0
        \/ \E e \in Calls : prom[e] = prom[d] /\ op[e] = "notify"
    BY <1>0, <2>1, <2>2 DEF WakeupOnItsWay
  <2> QED BY <1>1, <1>5, <2>1, <2>3
<1> QED BY <1>6, <1>7, <1>9, <1>10 DEF IInv, CountIsHolders

\* A handler is destroyed; what is left of a call that is over is forgotten.
LEMMA OverIInv ==
    ASSUME IInv, NEW c \in Calls, NEW q \in Promises, op[c] # "none", kind[c] # "signal",
           op[c] = "notify" => kind[c] = "sync" /\ pc[c] = "idle",
           q # Deleted => /\ q.m_value = At(c).m_value /\ q.m_error = At(c).m_error
                          /\ q.m_blocked_thread = At(c).m_blocked_thread,
           prom[c] \in Cells => q.m_ref_count = At(c).m_ref_count - 1,
           SetAt(prom[c], q), OpOver(c), UNCHANGED posted
    PROVE  IInv'
<1>0. /\ Types
      /\ \A d \in Calls : CallOK(d) /\ NamesThread(d) /\ NotSetYet(d) /\ WokenWhenSet(d)
      /\ \A d, e \in Calls : OneHandler(d, e) /\ OneUser(d, e)
      /\ \A b \in Cells : IsFiniteSet(Notices(b)) /\ promise[b].m_ref_count = Holders(b)
      /\ ResultIsOwn /\ WakeupOnItsWay
  BY IInvParts
<1> DEFINE a == prom[c]
<1>1. a \in Addresses /\ promise' = [promise EXCEPT ![a] = q]
  BY <1>0 DEF CallOK, SetAt
<1>2. /\ promise'[a] = q
      /\ \A b \in Addresses : b # a => promise'[b] = promise[b]
      /\ op'[c] = "none" /\ \A d \in Calls : d # c => op'[d] = op[d]
      /\ UNCHANGED <<pc, home, timed, posted>>
      /\ \A d \in Calls : d # c \/ pc[c] # "idle" =>
            kind'[d] = kind[d] /\ prom'[d] = prom[d] /\ outcome'[d] = outcome[d] /\ shared'[d] = shared[d]
      /\ pc[c] = "idle" => kind'[c] = NULL /\ prom'[c] = NULL /\ outcome'[c] = "none" /\ ~shared'[c]
  BY <1>0, <1>1 DEF OpOver, callVars, Types
<1>3. Types'
  <2>1. promise' \in [Addresses -> Promises]
    BY <1>0, <1>1 DEF Types
  <2>2. op' \in [Calls -> OpStates] /\ outcome' \in [Calls -> Outcomes]
    BY <1>0 DEF OpOver, callVars, Types, OpStates, Outcomes
  <2>3. /\ kind' \in [Calls -> KindNames \cup {NULL}]
        /\ prom' \in [Calls -> Addresses \cup {NULL}]
    BY <1>0 DEF OpOver, callVars, Types
  <2>4. shared' \in [Calls -> BOOLEAN]
    BY <1>0 DEF OpOver, callVars, Types
  <2> QED BY <1>0, <1>2, <2>1, <2>2, <2>3, <2>4 DEF Types
<1>4. ASSUME NEW d \in Calls PROVE CallOK(d)'
  <2>1. CASE d = c /\ pc[c] = "idle"
    <3>1. kind'[c] \notin KindNames /\ prom'[c] \notin Calls
      BY <1>2, <2>1, CellsAreNotFrames
    <3> QED BY <1>2, <2>1, <3>1 DEF CallOK, KindNames
  <2>2. CASE d # c \/ pc[c] # "idle"
    BY <1>0, <1>2, <2>2 DEF CallOK
  <2> QED BY <2>1, <2>2
<1>5. ASSUME NEW d \in Calls, NEW e \in Calls PROVE OneHandler(d, e)' /\ OneUser(d, e)'
  BY <1>0, <1>2 DEF OneHandler, OneUser
<1>6. ASSUME NEW b \in Cells PROVE IsFiniteSet(Notices(b)') /\ promise'[b].m_ref_count = Holders(b)'
  <2>1. Notices(b)' = Notices(b) /\ IsFiniteSet(Notices(b))
    BY <1>0, <1>2 DEF Notices
  <2>2. \A d \in Calls : d # c => Keeps(d)
    BY <1>2 DEF Keeps
  <2>3. Cardinality(Notices(b)') = Cardinality(Notices(b)) + 0 /\ 0 \in Int
    BY <2>1, FS_CardinalityType
  <2>4. promise[b].m_ref_count \in Int /\ b \in Addresses /\ b # NULL
    BY <1>0, CellsAreNotFrames DEF Types, Promises
  <2>5. Holds(c, b) \in Nat /\ Holds(c, b)' = Holds(c, b) - One(b = a)
    <3>1. CASE pc[c] = "idle"
      BY <1>2, <2>4, <3>1, HoldsIs DEF One
    <3>2. CASE pc[c] # "idle"
      BY <1>2, <3>2, HoldsIs DEF One
    <3> QED BY <3>1, <3>2
  <2>6. promise'[b].m_ref_count = promise[b].m_ref_count - One(b = a)
    BY <1>2, <2>4 DEF One, At
  <2>7. One(b = a) \in Int
    BY DEF One
  <2>8. promise'[b].m_ref_count = promise[b].m_ref_count - Holds(c, b) + Holds(c, b)' + 0
    BY <2>4, <2>5, <2>6, <2>7
  <2> QED BY <1>0, <2>1, <2>2, <2>3, <2>8, CountStep
<1>7. ASSUME NEW d \in Calls, prom'[d] = a, a \in Cells, pc[d] # "idle" PROVE q # Deleted
  <2>1. posted' \in [Threads -> [Addresses -> Nat]]
    BY <1>3 DEF Types
  <2> QED BY <1>2, <1>6, <1>7, <2>1, HeldIsThereNext
<1>8. ASSUME NEW d \in Calls PROVE NamesThread(d)' /\ NotSetYet(d)' /\ WokenWhenSet(d)'
  <2>1. NotSetYet(d)'
    <3> SUFFICES ASSUME op'[d] = "pending", kind'[d] # "signal", ~FrameGone(d)'
                 PROVE  ~At(d)'.m_value /\ At(d)'.m_error # "error"
      BY DEF NotSetYet
    <3>1. d # c /\ op[d] = "pending" /\ prom'[d] = prom[d] /\ kind[d] # "signal" /\ ~FrameGone(d)
      BY <1>2 DEF FrameGone
    <3>2. prom[d] # a /\ prom[d] \in Addresses
      BY <1>0, <3>1 DEF OneHandler, CallOK
    <3> QED BY <1>0, <1>2, <3>1, <3>2 DEF NotSetYet, At
  <2>2. CASE pc[d] = "idle"
    BY <1>2, <2>1, <2>2 DEF NamesThread, WokenWhenSet
  <2>3. CASE pc[d] # "idle"
    <3>1. /\ kind'[d] = kind[d] /\ prom'[d] = prom[d] /\ shared'[d] = shared[d]
          /\ prom[d] \in Addresses /\ (op'[d] = "notify" => op[d] = "notify")
      BY <1>0, <1>2, <2>3 DEF CallOK
    <3>2. CASE prom[d] = a /\ a \in Cells
      <4>1. /\ promise'[a].m_blocked_thread = promise[a].m_blocked_thread
            /\ promise'[a].m_value = promise[a].m_value /\ promise'[a].m_error = promise[a].m_error
        BY <1>2, <1>7, <2>3, <3>1, <3>2 DEF At
      <4>2. ready(promise'[a]) <=> ready(promise[a])
        BY <4>1 DEF ready
      <4>3. NamesThread(d)'
        BY <1>0, <1>2, <3>1, <3>2, <4>1 DEF NamesThread, At
      <4>4. WokenWhenSet(d)'
        BY <1>0, <1>2, <3>1, <3>2, <4>2 DEF WokenWhenSet, At
      <4> QED BY <2>1, <4>3, <4>4
    <3>3. CASE prom[d] = a /\ a \notin Cells
      <4>1. kind[d] = "sync"
        BY <1>0, <3>1, <3>3, CellsAreNotFrames DEF CallOK
      <4> QED BY <2>1, <3>1, <3>3, <4>1 DEF NamesThread, WokenWhenSet
    <3>4. CASE prom[d] # a
      <4>1. promise'[prom[d]] = promise[prom[d]]
        BY <1>2, <3>1, <3>4
      <4> QED BY <1>0, <1>2, <2>1, <3>1, <4>1 DEF NamesThread, WokenWhenSet, At
    <3> QED BY <3>2, <3>3, <3>4
  <2> QED BY <2>2, <2>3
<1>9. ResultIsOwn'
  BY <1>0, <1>2 DEF ResultIsOwn
<1>10. WakeupOnItsWay'
  <2> SUFFICES ASSUME NEW d \in Calls, pc'[d] = "blocked", ready(At(d))',
                      At(d).m_blocked_thread' = home'[d]
               PROVE  \/ posted'[home'[d]][prom'[d]] > 0
                      \/ \E e \in Calls : prom'[e] = prom'[d] /\ op'[e] = "notify"
    BY DEF WakeupOnItsWay
  <2>1. pc[d] = "blocked" /\ prom'[d] = prom[d] /\ prom[d] \in Addresses
    BY <1>0, <1>2 DEF CallOK
  <2>2. ready(At(d)) /\ At(d).m_blocked_thread = home[d]
    <3>1. CASE prom[d] = a
      <4>1. ready(q) /\ q.m_blocked_thread = home[d] /\ q # Deleted
        BY <1>2, <2>1, <3>1, DeletedFacts DEF At
      <4> QED BY <3>1, <4>1 DEF At, ready
    <3>2. CASE prom[d] # a
      BY <1>2, <2>1, <3>2 DEF At
    <3> QED BY <3>1, <3>2
  <2>3. \/ posted[home[d]][prom[d]] > 0
        \/ \E e \in Calls : prom[e] = prom[d] /\ op[e] = "notify"
    BY <1>0, <2>1, <2>2 DEF WakeupOnItsWay
  <2>4. ASSUME NEW e \in Calls, prom[e] = prom[d], op[e] = "notify" PROVE e # c
    BY <1>0, <2>1, <2>4 DEF CallOK
  <2> QED BY <1>2, <2>1, <2>3, <2>4
<1> QED BY <1>3, <1>4, <1>5, <1>6, <1>8, <1>9, <1>10 DEF IInv, CountIsHolders

\* The handler goes with its reference; the rtask of sync() stays in its frame.
LEMMA DropIInv ==
    ASSUME IInv, NEW c \in Calls, Drop(c) PROVE IInv'
<1> DEFINE q == IF kind[c] = "sync" THEN At(c) ELSE release(At(c), 1)
<1>0. Types /\ CallOK(c)
  BY IInvParts
<1>1. /\ op[c] = "drop" /\ kind[c] # "signal" /\ prom[c] \in Addresses /\ At(c) \in Promises
      /\ prom[c] \in Cells => kind[c] # "sync"
      /\ SetAt(prom[c], q) /\ OpOver(c) /\ UNCHANGED posted
  BY <1>0, CellsAreNotFrames DEF Drop, CallOK, Types, At
<1>2. /\ q \in Promises
      /\ q # Deleted => /\ q.m_value = At(c).m_value /\ q.m_error = At(c).m_error
                        /\ q.m_blocked_thread = At(c).m_blocked_thread
      /\ prom[c] \in Cells => q.m_ref_count = At(c).m_ref_count - 1
  BY <1>1, ReleaseFacts
<1> HIDE DEF q
<1> QED BY <1>1, <1>2, OverIInv

\* The task of a sync() that is over leaves nothing in the heap changed.
LEMMA TouchGoneIInv ==
    ASSUME IInv, NEW c \in Calls, TouchGone(c) PROVE IInv'
<1>0. Types /\ CallOK(c)
  BY IInvParts
<1>1. /\ op[c] # "none" /\ kind[c] = "sync" /\ pc[c] = "idle" /\ prom[c] \in Addresses
      /\ prom[c] \notin Cells /\ OpOver(c) /\ UNCHANGED <<promise, posted>>
  BY <1>0, CellsAreNotFrames DEF TouchGone, FrameGone, CallOK
<1>2. At(c) \in Promises /\ SetAt(prom[c], At(c))
  BY <1>0, <1>1 DEF SetAt, At, Types
<1> QED BY <1>1, <1>2, OverIInv

\* A call of any kind but sync() takes a free cell.
LEMMA NewIInv ==
    ASSUME IInv, NEW c \in Calls, NEW t \in Threads, NEW k, k # "sync",
           NEW mayTime \in SUBSET BOOLEAN, New(c, t, k, mayTime)
    PROVE  IInv'
<1> DEFINE a == CHOOSE b \in FreeCells : TRUE
           refs == 2
<1>1. a \in FreeCells /\ Start(c, t, a, k, refs, mayTime) /\ refs \in Int /\ refs = 2
  BY DEF New
<1> HIDE DEF a, refs
<1>2. a \in Cells /\ promise[a].m_ref_count = 0
  BY <1>1 DEF FreeCells
<1> QED BY <1>1, <1>2, StartIInv

\* A call begins.
LEMMA BeginIInv ==
    ASSUME IInv, NEW c \in Calls, NEW t \in Threads,
           \/ ReadWrite(c, t) \/ AcceptConnect(c, t) \/ receive_from(c, t) \/ resolve(c, t)
           \/ create(c, t) \/ SignalWait(c, t) \/ AsyncWait(c, t) \/ SyncCall(c, t)
           \/ WaitCopy(c, t)
    PROVE  IInv'
<1>1. BOOLEAN \in SUBSET BOOLEAN /\ {FALSE} \in SUBSET BOOLEAN
      /\ "io" # "sync" /\ "code" # "sync" /\ "signal" # "sync"
  OBVIOUS
<1>2. ASSUME NEW k \in {"io", "code", "signal"}, NEW m \in {BOOLEAN, {FALSE}}, New(c, t, k, m) PROVE IInv'
  BY <1>1, <1>2, NewIInv
<1>3. CASE SyncCall(c, t)
  <2> DEFINE k == "sync"
             refs == StackRefs
             m == BOOLEAN
  <2>1. Start(c, t, c, k, refs, m) /\ k = "sync" /\ refs \in Int /\ m \in SUBSET BOOLEAN
    BY <1>3 DEF SyncCall, StackRefs
  <2> HIDE DEF k, refs, m
  <2> QED BY <2>1, StartIInv
<1>4. CASE WaitCopy(c, t)
  BY <1>4, WaitCopyIInv
<1>5. CASE \/ ReadWrite(c, t) \/ AcceptConnect(c, t) \/ receive_from(c, t) \/ resolve(c, t)
           \/ create(c, t) \/ SignalWait(c, t) \/ AsyncWait(c, t)
  BY <1>2, <1>5 DEF ReadWrite, AcceptConnect, receive_from, resolve, create, SignalWait, AsyncWait
<1> QED BY <1>3, <1>4, <1>5

\* A call looks for its result, blocks or ends.
LEMMA CallStepIInv ==
    ASSUME IInv, NEW c \in Calls, CallStep(c) PROVE IInv'
<1>0. Types /\ CallOK(c)
  BY IInvParts
<1>1. pc[c] # "idle" /\ At(c) \in Promises /\ 1 \in Int /\ 2 \in Int
  BY <1>0 DEF CallStep, WaitCheck, ThreadWait, WaitResult, CallOK, Types, At
<1>2. /\ At(c).m_error \in {"none", "timeout", "error"} /\ At(c).m_value \in BOOLEAN
  BY <1>1 DEF Promises
<1> DEFINE p == At(c)
<1>3. CASE WaitCheck(c)
  <2>1. CASE p.m_error # "none" /\ Leave(c, p.m_error, p, 1)
    <3> DEFINE o == p.m_error
    <3>1. o \in Outcomes /\ o # "not_ready" /\ (o \in {"value", "error"} => o = "error")
      BY <1>2 DEF Outcomes
    <3> HIDE DEF o
    <3>2. Leave(c, o, p, 1) /\ o = At(c).m_error /\ pc[c] = "wait"
      BY <1>3, <2>1 DEF o, WaitCheck
    <3> QED BY <1>1, <3>1, <3>2, LeaveIInv
  <2>2. CASE p.m_error = "none" /\ p.m_value /\ Leave(c, "value", p, 1)
    <3> DEFINE o == "value"
    <3>1. o \in Outcomes /\ o # "not_ready" /\ Leave(c, o, p, 1) /\ pc[c] = "wait"
      BY <1>3, <2>2 DEF Outcomes, WaitCheck
    <3> HIDE DEF o
    <3> QED BY <1>1, <2>2, <3>1, LeaveIInv
  <2>3. CASE ~ready(p) /\ SetAt(prom[c], enqueue_thread(c)) /\ Goto(c, "enter")
    <3>1. pc[c] = "wait"
      BY <1>3 DEF WaitCheck
    <3> QED BY <2>3, <3>1, EnqueueIInv
  <2> QED BY <1>3, <2>1, <2>2, <2>3 DEF WaitCheck
<1>4. CASE ThreadWait(c)
  <2>0. pc[c] = "enter"
    BY <1>4 DEF ThreadWait
  <2>1. CASE ready(p) /\ Goto(c, "result") /\ UNCHANGED promise
    <3> DEFINE to == "result"
    <3>1. Goto(c, to) /\ to = "result"
      BY <2>1
    <3> HIDE DEF to
    <3> QED BY <2>0, <2>1, <3>1, BlockIInv
  <2>2. CASE ~ready(p) /\ timed[c] /\ Leave(c, "timeout", p, 2)
    <3> DEFINE o == "timeout"
    <3>1. o \in Outcomes /\ o # "not_ready" /\ o \notin {"value", "error"} /\ Leave(c, o, p, 2)
      BY <2>2 DEF Outcomes
    <3> HIDE DEF o
    <3> QED BY <1>1, <2>0, <3>1, LeaveIInv
  <2>3. CASE ~ready(p) /\ Goto(c, "blocked") /\ UNCHANGED promise
    <3> DEFINE to == "blocked"
    <3>1. Goto(c, to) /\ to = "blocked"
      BY <2>3
    <3> HIDE DEF to
    <3> QED BY <2>0, <2>3, <3>1, BlockIInv
  <2> QED BY <1>4, <2>1, <2>2, <2>3 DEF ThreadWait
<1>5. CASE WaitResult(c)
  <2> DEFINE o == CASE p.m_error # "none" -> p.m_error
                    [] p.m_error = "none" /\ p.m_value -> "value"
                    [] ~ready(p) -> "not_ready"
             x == "none"
             q == [p EXCEPT !.m_error = x]
  <2>1. Leave(c, o, q, 2) /\ pc[c] \in {"ready", "result"}
    BY <1>5 DEF WaitResult
  <2>2. /\ o \in Outcomes
        /\ o \in {"value", "error"} => p.m_value \/ p.m_error = "error"
        /\ o = "not_ready" => ~ready(p)
    <3>1. CASE p.m_error # "none"
      <4>1. o = p.m_error
        BY <3>1 DEF ready
      <4> HIDE DEF o
      <4> QED BY <1>2, <3>1, <4>1 DEF Outcomes
    <3>2. CASE p.m_error = "none" /\ p.m_value
      <4>1. o = "value"
        BY <3>2 DEF ready
      <4> HIDE DEF o
      <4> QED BY <3>2, <4>1 DEF Outcomes
    <3>3. CASE p.m_error = "none" /\ ~p.m_value
      <4>1. o = "not_ready" /\ ~ready(p)
        BY <3>3 DEF ready
      <4> HIDE DEF o
      <4> QED BY <3>3, <4>1 DEF Outcomes
    <3> QED BY <3>1, <3>2, <3>3
  <2> HIDE DEF o
  <2>3. x \in {"none", "timeout", "error"} /\ x = "none"
    OBVIOUS
  <2> HIDE DEF x
  <2>4. /\ q \in Promises /\ q.m_ref_count = At(c).m_ref_count /\ q.m_value = At(c).m_value
        /\ q.m_blocked_thread = At(c).m_blocked_thread /\ q.m_error = "none"
    BY <1>1, <2>3, ErrorFacts
  <2> HIDE DEF q
  <2> QED BY <1>1, <2>1, <2>2, <2>4, LeaveIInv
<1> QED BY <1>3, <1>4, <1>5 DEF CallStep

-----------------------------------------------------------------------------
(* The theorems *)

\* Every step of a call, of a handler and of a posted notification keeps the invariant.
LEMMA NextIInv == IInv /\ [Next]_vars => IInv'
<1> SUFFICES ASSUME IInv, [Next]_vars PROVE IInv'
  OBVIOUS
<1>1. CASE UNCHANGED vars
  BY <1>1, SameIInv
<1>2. ASSUME NEW c \in Calls, NEW t \in Threads,
             \/ ReadWrite(c, t) \/ AcceptConnect(c, t) \/ receive_from(c, t) \/ resolve(c, t)
             \/ create(c, t) \/ SignalWait(c, t) \/ AsyncWait(c, t) \/ SyncCall(c, t)
             \/ WaitCopy(c, t)
      PROVE  IInv'
  BY <1>2, BeginIInv
<1>3. ASSUME NEW c \in Calls, CallStep(c) \/ Timeout(c) PROVE IInv'
  BY <1>3, CallStepIInv, TimeoutIInv
<1>4. ASSUME NEW t \in Threads, NEW a \in Addresses, NotifyTask(t, a) PROVE IInv'
  BY <1>4, NotifyTaskIInv
<1>5. ASSUME NEW c \in Calls,
             SetValue(c) \/ SetException(c) \/ OpEnds(c) \/ TouchGone(c) \/ Emit(c)
      PROVE  IInv'
  BY <1>5, SetValueIInv, SetExceptionIInv, NotifyIInv, DropIInv, TouchGoneIInv, EmitIInv DEF OpEnds
<1> QED BY <1>1, <1>2, <1>3, <1>4, <1>5 DEF Next

\* The invariant holds however calls, handlers, timeouts and notifications interleave.
THEOREM Invariance == Spec => []IInv
<1>1. Init => IInv
  BY InitIInv
<1>2. IInv /\ [Next]_vars => IInv'
  BY NextIInv
<1> QED BY <1>1, <1>2, PTL DEF Spec

\* A promise on the heap has exactly as many references as there are pointers to it: the
\* last of the caller, the handler and the posted notifications deletes it, and nobody
\* uses it after that (retainable::release, promise_base::notify, read_write_handler).
THEOREM CountsEveryHolder == Spec => []CountIsHolders
<1>1. IInv => CountIsHolders
  BY DEF IInv
<1> QED BY <1>1, Invariance, PTL

\* A call ends with a value or an error only when its own operation has produced it, though
\* late handlers and notifications of earlier calls at the same address are under way.
THEOREM OwnResultOnly == Spec => []ResultIsOwn
<1>1. IInv => ResultIsOwn
  BY DEF IInv
<1> QED BY <1>1, Invariance, PTL

\* Whenever a context is blocked on a promise that is set and names its thread, the
\* notification is posted or about to be (promise::wait against set_value and timeouts).
THEOREM WakeupNeverLost == Spec => []WakeupOnItsWay
<1>1. IInv => WakeupOnItsWay
  BY DEF IInv
<1> QED BY <1>1, Invariance, PTL

\* Every variable keeps its type, and no count of references on the heap goes below 0,
\* however many late notifications of frames are under way (retainable::release).
THEOREM TypeCorrect == Spec => []TypeOK
<1>1. IInv => TypeOK
  <2> SUFFICES ASSUME IInv PROVE TypeOK
    OBVIOUS
  <2>1. Types
    BY IInvParts
  <2>2. ASSUME NEW a \in Cells PROVE promise[a].m_ref_count \in Nat
    <3>1. promise[a].m_ref_count = Holders(a) /\ IsFiniteSet(Notices(a))
      BY IInvParts
    <3>2. /\ Cardinality(Users(a)) \in Nat /\ Cardinality(InWait(a)) \in Nat
          /\ Cardinality(Handlers(a)) \in Nat /\ Cardinality(Notices(a)) \in Nat
      BY <3>1, CallSetsFinite, FS_CardinalityType
    <3> QED BY <3>1, <3>2 DEF Holders
  <2> QED BY <2>1, <2>2 DEF Types, TypeOK, Promises, Places, Outcomes, OpStates
<1> QED BY <1>1, Invariance, PTL
=============================================================================
