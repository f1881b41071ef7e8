--------------------------- MODULE AcceptorProofs ---------------------------
(***************************************************************************)
(* Proofs about Acceptor, for any calls of listen() and any numbers of     *)
(* connections and failures: a connection is handed over once, and a       *)
(* failure is reported.                                                    *)
(***************************************************************************)
EXTENDS Acceptor, SequenceTheorems, FiniteSetTheorems, TLAPS

Codes == {"ok", "error"}

\* The variables keep their types.
AcceptorType ==
    /\ acc \in {NULL, "open", "deleted"}
    /\ listen_done \in Listeners \cup {NULL}
    /\ life \in {"alive", "waiting", "gone"}
    /\ pc \in [Listeners -> {"none", "posted", "not_open", "accepting", "ended"}]
    /\ code \in [Listeners -> Codes]
    /\ result \in [Listeners -> {NULL} \cup 0..MaxConns]
    /\ arrived \in 0..MaxConns
    /\ backlog \in Seq(1..MaxConns)
    /\ calls \in Seq([conn : 1..MaxConns, code : Codes])
    /\ fails \in Nat
    /\ fault \in BOOLEAN

\* A task that does not accept yet has neither a result nor a failure in hand.
NotBegun == \A l \in Listeners : pc[l] \in {"none", "posted", "not_open"} => result[l] = NULL

\* The inductive invariant.
IInv == AcceptorType /\ NotBegun /\ EachOnce /\ FailureReported

-----------------------------------------------------------------------------
(* Counting *)

\* The tasks with a connection in hand, and the posted calls that carry a failure.
Busy(f) == {l \in Listeners : f[l] \notin {NULL, 0}}
Errors(q) == {i \in 1..Len(q) : q[i].code = "error"}

\* Two sets that differ at most in one element.
LEMMA OneDiffers ==
    ASSUME NEW S, NEW T, NEW x, IsFiniteSet(S), IsFiniteSet(T), S \ {x} = T \ {x}
    PROVE  /\ Cardinality(S) \in Nat /\ Cardinality(T) \in Nat
           /\ (x \in S <=> x \in T) => Cardinality(T) = Cardinality(S)
           /\ x \in S /\ x \notin T => Cardinality(T) = Cardinality(S) - 1
           /\ x \notin S /\ x \in T => Cardinality(T) = Cardinality(S) + 1
<1>1. Cardinality(S) \in Nat /\ Cardinality(T) \in Nat
  BY FS_CardinalityType
<1>2. /\ Cardinality(S \ {x}) = IF x \in S THEN Cardinality(S) - 1 ELSE Cardinality(S)
      /\ Cardinality(T \ {x}) = IF x \in T THEN Cardinality(T) - 1 ELSE Cardinality(T)
  BY FS_RemoveElement
<1> QED BY <1>1, <1>2

\* A variable of one task changes: how many tasks then have the value x, or a connection.
LEMMA OneTaskChanges ==
    ASSUME NEW f, NEW g, NEW l \in Listeners, NEW x,
           \A m \in Listeners : m # l => g[m] = f[m]
    PROVE  /\ Waiting(f, x) \in Nat /\ Waiting(g, x) \in Nat
           /\ (f[l] = x <=> g[l] = x) => Waiting(g, x) = Waiting(f, x)
           /\ f[l] = x /\ g[l] # x => Waiting(g, x) = Waiting(f, x) - 1
           /\ f[l] # x /\ g[l] = x => Waiting(g, x) = Waiting(f, x) + 1
           /\ Cardinality(Busy(f)) \in Nat /\ Cardinality(Busy(g)) \in Nat
           /\ (f[l] \in {NULL, 0} <=> g[l] \in {NULL, 0})
                => Cardinality(Busy(g)) = Cardinality(Busy(f))
           /\ f[l] \notin {NULL, 0} /\ g[l] \in {NULL, 0}
                => Cardinality(Busy(g)) = Cardinality(Busy(f)) - 1
           /\ f[l] \in {NULL, 0} /\ g[l] \notin {NULL, 0}
                => Cardinality(Busy(g)) = Cardinality(Busy(f)) + 1
<1> DEFINE S == {m \in Listeners : f[m] = x}
           T == {m \in Listeners : g[m] = x}
<1>2. IsFiniteSet(S) /\ IsFiniteSet(T) /\ IsFiniteSet(Busy(f)) /\ IsFiniteSet(Busy(g))
  BY BoundsAssumption, FS_Subset DEF Busy
<1>3. S \ {l} = T \ {l} /\ Busy(f) \ {l} = Busy(g) \ {l}
  BY DEF Busy
<1>4. /\ l \in S <=> f[l] = x
      /\ l \in T <=> g[l] = x
      /\ l \in Busy(f) <=> f[l] \notin {NULL, 0}
      /\ l \in Busy(g) <=> g[l] \notin {NULL, 0}
  BY DEF Busy
<1>5. Waiting(f, x) = Cardinality(S) /\ Waiting(g, x) = Cardinality(T)
  BY DEF Waiting
<1> HIDE DEF S, T
<1>6. /\ Cardinality(S) \in Nat /\ Cardinality(T) \in Nat
      /\ (l \in S <=> l \in T) => Cardinality(T) = Cardinality(S)
      /\ l \in S /\ l \notin T => Cardinality(T) = Cardinality(S) - 1
      /\ l \notin S /\ l \in T => Cardinality(T) = Cardinality(S) + 1
  BY <1>2, <1>3, OneDiffers
<1> DEFINE A == Busy(f)
           B == Busy(g)
<1> HIDE DEF A, B
<1>7. /\ Cardinality(A) \in Nat /\ Cardinality(B) \in Nat
      /\ (l \in A <=> l \in B) => Cardinality(B) = Cardinality(A)
      /\ l \in A /\ l \notin B => Cardinality(B) = Cardinality(A) - 1
      /\ l \notin A /\ l \in B => Cardinality(B) = Cardinality(A) + 1
  <2>1. IsFiniteSet(A) /\ IsFiniteSet(B) /\ A \ {l} = B \ {l}
    BY <1>2, <1>3 DEF A, B
  <2> QED BY <2>1, OneDiffers
<1>8. /\ Waiting(f, x) \in Nat /\ Waiting(g, x) \in Nat
      /\ (f[l] = x <=> g[l] = x) => Waiting(g, x) = Waiting(f, x)
      /\ f[l] = x /\ g[l] # x => Waiting(g, x) = Waiting(f, x) - 1
      /\ f[l] # x /\ g[l] = x => Waiting(g, x) = Waiting(f, x) + 1
  BY <1>4, <1>5, <1>6
<1>9. /\ Cardinality(Busy(f)) \in Nat /\ Cardinality(Busy(g)) \in Nat
      /\ (f[l] \in {NULL, 0} <=> g[l] \in {NULL, 0})
           => Cardinality(Busy(g)) = Cardinality(Busy(f))
      /\ f[l] \notin {NULL, 0} /\ g[l] \in {NULL, 0}
           => Cardinality(Busy(g)) = Cardinality(Busy(f)) - 1
      /\ f[l] \in {NULL, 0} /\ g[l] \notin {NULL, 0}
           => Cardinality(Busy(g)) = Cardinality(Busy(f)) + 1
  BY <1>4, <1>7 DEF A, B
<1> QED BY <1>8, <1>9

\* A call is posted behind the others.
LEMMA OneCallMore ==
    ASSUME NEW S, NEW q \in Seq(S), NEW e \in S
    PROVE  LET r == Append(q, e)
           IN /\ r \in Seq(S) /\ Len(r) = Len(q) + 1 /\ Len(q) \in Nat
              /\ Cardinality(Errors(q)) \in Nat
              /\ e.code = "error" => Cardinality(Errors(r)) = Cardinality(Errors(q)) + 1
              /\ e.code # "error" => Cardinality(Errors(r)) = Cardinality(Errors(q))
              /\ {r[i].conn : i \in 1..Len(r)} = {q[i].conn : i \in 1..Len(q)} \cup {e.conn}
<1> DEFINE r == Append(q, e)
           n == Len(q)
<1>1. /\ r \in Seq(S) /\ Len(r) = n + 1 /\ n \in Nat
      /\ \A i \in 1..n : r[i] = q[i]
      /\ r[n + 1] = e
  BY AppendProperties, LenProperties
<1> HIDE DEF r, n
<1>2. Errors(q) = {i \in 1..n : q[i].code = "error"}
  BY DEF Errors, n
<1>3. IsFiniteSet(Errors(q)) /\ n + 1 \notin Errors(q) /\ Cardinality(Errors(q)) \in Nat
  <2>1. IsFiniteSet(1..n)
    BY <1>1, FS_Interval
  <2>2. IsFiniteSet(Errors(q))
    BY <1>2, <2>1, FS_Subset
  <2> QED BY <1>1, <1>2, <2>2, FS_CardinalityType
<1>4. Errors(r) = IF e.code = "error" THEN Errors(q) \cup {n + 1} ELSE Errors(q)
  <2>1. Errors(r) = {i \in 1..(n + 1) : r[i].code = "error"}
    BY <1>1 DEF Errors
  <2>2. 1..(n + 1) = 1..n \cup {n + 1}
    BY <1>1
  <2> QED BY <1>1, <1>2, <2>1, <2>2
<1>5. /\ e.code = "error" => Cardinality(Errors(r)) = Cardinality(Errors(q)) + 1
      /\ e.code # "error" => Cardinality(Errors(r)) = Cardinality(Errors(q))
  BY <1>3, <1>4, FS_AddElement
<1>6. {r[i].conn : i \in 1..(n + 1)} = {q[i].conn : i \in 1..n} \cup {e.conn}
  <2>1. 1..(n + 1) = 1..n \cup {n + 1}
    BY <1>1
  <2> QED BY <1>1, <2>1
<1> QED BY <1>1, <1>3, <1>5, <1>6 DEF r, n

\* The queue of the system: a connection comes behind the others, and the first one goes.
LEMMA BacklogFacts ==
    ASSUME NEW S, NEW q \in Seq(S)
    PROVE  /\ Len(q) \in Nat
           /\ \A e \in S : /\ Append(q, e) \in Seq(S) /\ Len(Append(q, e)) = Len(q) + 1
                           /\ ToSet(Append(q, e)) = ToSet(q) \cup {e}
           /\ q # <<>> => /\ Tail(q) \in Seq(S) /\ Len(Tail(q)) = Len(q) - 1
                          /\ Head(q) \in S /\ ToSet(q) = ToSet(Tail(q)) \cup {Head(q)}
<1>1. Len(q) \in Nat /\ DOMAIN q = 1..Len(q)
  BY LenProperties
<1>2. ASSUME NEW e \in S
      PROVE  /\ Append(q, e) \in Seq(S) /\ Len(Append(q, e)) = Len(q) + 1
             /\ ToSet(Append(q, e)) = ToSet(q) \cup {e}
  <2> DEFINE r == Append(q, e)
             n == Len(q)
  <2>1. /\ r \in Seq(S) /\ Len(r) = n + 1
        /\ \A i \in 1..n : r[i] = q[i]
        /\ r[n + 1] = e
    BY AppendProperties
  <2>2. DOMAIN r = 1..(n + 1) /\ DOMAIN q = 1..n /\ n \in Nat
    BY <1>1, <2>1, LenProperties
  <2> HIDE DEF r, n
  <2>3. 1..(n + 1) = 1..n \cup {n + 1}
    BY <2>2
  <2>4. ToSet(r) = ToSet(q) \cup {e}
    BY <2>1, <2>2, <2>3 DEF ToSet
  <2> QED BY <2>1, <2>4 DEF r, n
<1>3. ASSUME q # <<>>
      PROVE  /\ Tail(q) \in Seq(S) /\ Len(Tail(q)) = Len(q) - 1
             /\ Head(q) \in S /\ ToSet(q) = ToSet(Tail(q)) \cup {Head(q)}
  <2> DEFINE t == Tail(q)
             n == Len(q)
  <2>1. /\ t \in Seq(S) /\ Len(t) = n - 1 /\ Head(q) \in S
        /\ \A i \in 1..Len(t) : t[i] = q[i + 1]
    BY <1>3, HeadTailProperties
  <2>2. DOMAIN t = 1..(n - 1) /\ DOMAIN q = 1..n /\ n \in Nat \ {0} /\ Head(q) = q[1]
    BY <1>1, <1>3, <2>1, LenProperties, EmptySeq
  <2> HIDE DEF t, n
  <2>3. ASSUME NEW x \in ToSet(q) PROVE x \in ToSet(t) \cup {Head(q)}
    <3>1. PICK i \in 1..n : x = q[i]
      BY <2>2 DEF ToSet
    <3>2. CASE i = 1
      BY <3>1, <3>2, <2>2
    <3>3. CASE i # 1
      <4>1. i - 1 \in 1..(n - 1) /\ (i - 1) + 1 = i
        BY <3>3, <2>2
      <4>2. t[i - 1] = x
        BY <3>1, <4>1, <2>1
      <4> QED BY <4>1, <4>2, <2>2 DEF ToSet
    <3> QED BY <3>2, <3>3
  <2>4. ASSUME NEW x \in ToSet(t) PROVE x \in ToSet(q)
    <3>1. PICK i \in 1..(n - 1) : x = t[i]
      BY <2>2 DEF ToSet
    <3>2. i + 1 \in 1..n /\ x = q[i + 1]
      BY <3>1, <2>1, <2>2
    <3> QED BY <3>2, <2>2 DEF ToSet
  <2>5. Head(q) \in ToSet(q)
    BY <2>2 DEF ToSet
  <2> QED BY <2>1, <2>3, <2>4, <2>5 DEF t, n
<1> QED BY <1>1, <1>2, <1>3

-----------------------------------------------------------------------------
(* The inductive invariant *)

\* The two properties in the terms of the lemmas above.
LEMMA InTheseTerms ==
    /\ EachOnce <=> /\ 1..arrived = ToSet(backlog) \cup InHand \cup Handled
                    /\ arrived = Len(backlog) + Cardinality(Busy(result)) + Len(calls)
    /\ FailureReported <=> fails = Waiting(result, 0) + Waiting(code, "error")
                                     + Cardinality(Errors(calls))
BY DEF EachOnce, FailureReported, Busy, Errors

\* A failed accept's 0 is no connection, and neither is NULL.
LEMMA NumbersAreNotNull ==
    /\ 0 # NULL
    /\ \A c \in 1..MaxConns : c \notin {NULL, 0}
BY NullAssumption, BoundsAssumption

\* All that is counted is finite.
LEMMA CountsAreNumbers ==
    ASSUME AcceptorType
    PROVE  /\ Cardinality(Busy(result)) \in Nat
           /\ Waiting(result, 0) \in Nat /\ Waiting(code, "error") \in Nat
           /\ Cardinality(Errors(calls)) \in Nat
           /\ Len(calls) \in Nat /\ Len(backlog) \in Nat
<1>1. Len(calls) \in Nat /\ Len(backlog) \in Nat
  BY LenProperties DEF AcceptorType
<1>2. ASSUME NEW T \in SUBSET Listeners PROVE Cardinality(T) \in Nat
  BY BoundsAssumption, FS_Subset, FS_CardinalityType
<1>3. Cardinality(Errors(calls)) \in Nat
  <2> DEFINE S == 1..Len(calls)
  <2>1. IsFiniteSet(S)
    BY <1>1, FS_Interval
  <2>2. Errors(calls) \in SUBSET S
    BY DEF Errors
  <2> HIDE DEF S
  <2> QED BY <2>1, <2>2, FS_Subset, FS_CardinalityType
<1>4. /\ Busy(result) \in SUBSET Listeners
      /\ {l \in Listeners : result[l] = 0} \in SUBSET Listeners
      /\ {l \in Listeners : code[l] = "error"} \in SUBSET Listeners
  BY DEF Busy
<1> QED BY <1>1, <1>2, <1>3, <1>4 DEF Waiting

\* Without a listening task everything is empty.
LEMMA InitIInv == Init => IInv
<1> SUFFICES ASSUME Init PROVE IInv
  OBVIOUS
<1>1. AcceptorType
  <2>1. <<>> \in Seq(1..MaxConns) /\ <<>> \in Seq([conn : 1..MaxConns, code : Codes])
    BY EmptySeq
  <2>2. arrived \in 0..MaxConns /\ fails \in Nat
    BY BoundsAssumption DEF Init
  <2>3. /\ code \in [Listeners -> Codes]
        /\ result \in [Listeners -> {NULL} \cup 0..MaxConns]
        /\ pc \in [Listeners -> {"none", "posted", "not_open", "accepting", "ended"}]
    BY DEF Init, Codes
  <2> QED BY <2>1, <2>2, <2>3 DEF Init, AcceptorType
<1>2. NotBegun
  BY DEF Init, NotBegun
<1>3. EachOnce
  <2>1. Busy(result) = {} /\ InHand = {}
    BY DEF Init, Busy, InHand
  <2>2. Handled = {} /\ ToSet(backlog) = {} /\ 1..0 = {}
    BY DEF Init, Handled, ToSet
  <2>3. Len(<<>>) = 0
    BY EmptySeq
  <2>4. Cardinality(Busy(result)) = 0
    BY <2>1, FS_EmptySet
  <2>5. arrived = Len(backlog) + Cardinality(Busy(result)) + Len(calls)
    BY <2>3, <2>4 DEF Init
  <2>6. 1..arrived = ToSet(backlog) \cup InHand \cup Handled
    BY <2>1, <2>2 DEF Init
  <2> QED BY <2>5, <2>6, InTheseTerms
<1>4. FailureReported
  <2>1. {l \in Listeners : result[l] = 0} = {} /\ {l \in Listeners : code[l] = "error"} = {}
    BY NumbersAreNotNull DEF Init
  <2>2. Errors(calls) = {}
    BY DEF Init, Errors
  <2>3. /\ Waiting(result, 0) = 0 /\ Waiting(code, "error") = 0
        /\ Cardinality(Errors(calls)) = 0
    BY <2>1, <2>2, FS_EmptySet DEF Waiting
  <2>4. fails = Waiting(result, 0) + Waiting(code, "error") + Cardinality(Errors(calls))
    BY <2>3 DEF Init
  <2> QED BY <2>4, InTheseTerms
<1> QED BY <1>1, <1>2, <1>3, <1>4 DEF IInv

\* A connection arrives.
LEMMA ArriveIInv == ASSUME IInv, Arrive PROVE IInv'
<1> USE DEF Arrive
<1>1. arrived \in Nat /\ arrived + 1 \in 1..MaxConns /\ arrived' = arrived + 1
  BY BoundsAssumption DEF IInv, AcceptorType
<1>2. /\ backlog' \in Seq(1..MaxConns) /\ Len(backlog') = Len(backlog) + 1
      /\ Len(backlog) \in Nat /\ ToSet(backlog') = ToSet(backlog) \cup {arrived + 1}
  <2> DEFINE S == 1..MaxConns
  <2>1. backlog \in Seq(S) /\ arrived + 1 \in S
    BY <1>1 DEF IInv, AcceptorType
  <2> HIDE DEF S
  <2>2. backlog' \in Seq(S) /\ Len(backlog') = Len(backlog) + 1
        /\ Len(backlog) \in Nat /\ ToSet(backlog') = ToSet(backlog) \cup {arrived + 1}
    BY <2>1, BacklogFacts
  <2> QED BY <2>2 DEF S
<1>3. AcceptorType' /\ NotBegun'
  <2>1. AcceptorType'
    BY <1>1, <1>2 DEF IInv, AcceptorType
  <2>2. NotBegun'
    BY DEF IInv, NotBegun
  <2> QED BY <2>1, <2>2
<1>4. EachOnce'
  <2>1. 1..(arrived + 1) = 1..arrived \cup {arrived + 1}
    BY <1>1
  <2>2. InHand' = InHand /\ Handled' = Handled /\ Busy(result)' = Busy(result)
    BY DEF InHand, Handled, Busy
  <2>3. Cardinality(Busy(result)) \in Nat /\ Len(calls) \in Nat
    BY CountsAreNumbers DEF IInv
  <2>4. /\ 1..arrived = ToSet(backlog) \cup InHand \cup Handled
        /\ arrived = Len(backlog) + Cardinality(Busy(result)) + Len(calls)
    BY InTheseTerms DEF IInv
  <2>5. 1..arrived' = ToSet(backlog') \cup InHand' \cup Handled'
    BY <1>1, <1>2, <2>1, <2>2, <2>4
  <2>6. arrived' = Len(backlog') + Cardinality(Busy(result)') + Len(calls')
    BY <1>1, <1>2, <2>2, <2>3, <2>4
  <2> QED BY <2>5, <2>6 DEF EachOnce, Busy
<1>5. FailureReported'
  BY DEF IInv, FailureReported, Waiting
<1> QED BY <1>3, <1>4, <1>5 DEF IInv

\* An accept completes with a connection.
LEMMA AcceptDoneIInv == ASSUME IInv, NEW l \in Listeners, AcceptDone(l) PROVE IInv'
<1> USE DEF AcceptDone, Pending
<1> DEFINE c == Head(backlog)
<1>1. /\ backlog' \in Seq(1..MaxConns) /\ Len(backlog') = Len(backlog) - 1
      /\ Len(backlog) \in Nat /\ ToSet(backlog) = ToSet(backlog') \cup {c} /\ c \in 1..MaxConns
  <2> DEFINE S == 1..MaxConns
  <2>1. backlog \in Seq(S) /\ backlog # <<>> /\ backlog' = Tail(backlog)
    BY DEF IInv, AcceptorType
  <2> HIDE DEF S
  <2>2. /\ Len(backlog) \in Nat /\ Tail(backlog) \in Seq(S) /\ Len(Tail(backlog)) = Len(backlog) - 1
        /\ Head(backlog) \in S /\ ToSet(backlog) = ToSet(Tail(backlog)) \cup {Head(backlog)}
    BY <2>1, BacklogFacts
  <2> QED BY <2>1, <2>2 DEF S
<1>2. /\ result \in [Listeners -> {NULL} \cup 0..MaxConns] /\ result[l] = NULL
      /\ result' = [result EXCEPT ![l] = c] /\ c \notin {NULL, 0} /\ 0 # NULL
  BY <1>1, NumbersAreNotNull DEF IInv, AcceptorType
<1> HIDE DEF c
<1>3. AcceptorType'
  <2>1. result' \in [Listeners -> {NULL} \cup 0..MaxConns]
    BY <1>1, <1>2
  <2> QED BY <1>1, <2>1 DEF IInv, AcceptorType
<1>4. NotBegun'
  BY <1>2 DEF IInv, NotBegun
<1>5. /\ Waiting(result', 0) = Waiting(result, 0)
      /\ Cardinality(Busy(result')) = Cardinality(Busy(result)) + 1
      /\ Cardinality(Busy(result)) \in Nat
  <2> DEFINE f == result
             g == result'
  <2>1. g[l] = c /\ \A m \in Listeners : m # l => g[m] = f[m]
    BY <1>2
  <2>3. f[l] = NULL /\ 0 # NULL /\ c # NULL /\ c # 0
    BY <1>2
  <2> HIDE DEF f, g
  <2>2. /\ Waiting(g, 0) = Waiting(f, 0)
        /\ Cardinality(Busy(g)) = Cardinality(Busy(f)) + 1
        /\ Cardinality(Busy(f)) \in Nat
    BY <2>1, <2>3, OneTaskChanges
  <2> QED BY <2>2 DEF f, g
<1>6. EachOnce'
  <2>1. InHand' = InHand \cup {c}
    BY <1>2 DEF InHand
  <2>2. Handled' = Handled
    BY DEF Handled
  <2>3. /\ 1..arrived = ToSet(backlog) \cup InHand \cup Handled
        /\ arrived = Len(backlog) + Cardinality(Busy(result)) + Len(calls)
    BY InTheseTerms DEF IInv
  <2>4. Len(calls) \in Nat
    BY CountsAreNumbers DEF IInv
  <2>5. 1..arrived' = ToSet(backlog') \cup InHand' \cup Handled'
    BY <1>1, <2>1, <2>2, <2>3
  <2>6. arrived' = Len(backlog') + Cardinality(Busy(result')) + Len(calls')
    BY <1>1, <1>5, <2>3, <2>4
  <2> QED BY <2>5, <2>6 DEF EachOnce, Busy
<1>7. FailureReported'
  BY <1>5 DEF IInv, FailureReported, Waiting
<1> QED BY <1>3, <1>4, <1>6, <1>7 DEF IInv

\* An accept fails.
LEMMA AcceptFailsIInv == ASSUME IInv, NEW l \in Listeners, AcceptFails(l) PROVE IInv'
<1> USE DEF AcceptFails, Pending
<1>1. /\ result \in [Listeners -> {NULL} \cup 0..MaxConns] /\ result[l] = NULL
      /\ result' = [result EXCEPT ![l] = 0] /\ 0 # NULL /\ 0 \in 0..MaxConns
  BY BoundsAssumption, NumbersAreNotNull DEF IInv, AcceptorType
<1>2. AcceptorType'
  <2>1. result' \in [Listeners -> {NULL} \cup 0..MaxConns]
    BY <1>1
  <2>2. fails' \in Nat
    BY DEF IInv, AcceptorType
  <2> QED BY <2>1, <2>2 DEF IInv, AcceptorType
<1>3. NotBegun'
  BY <1>1 DEF IInv, NotBegun
<1>4. /\ Waiting(result', 0) = Waiting(result, 0) + 1 /\ Waiting(result, 0) \in Nat
      /\ Cardinality(Busy(result')) = Cardinality(Busy(result))
  <2> DEFINE f == result
             g == result'
  <2>1. g[l] = 0 /\ \A m \in Listeners : m # l => g[m] = f[m]
    BY <1>1
  <2>2. f[l] # 0 /\ f[l] \in {NULL, 0} /\ g[l] \in {NULL, 0}
    BY <1>1
  <2> HIDE DEF f, g
  <2>3. Waiting(g, 0) = Waiting(f, 0) + 1 /\ Waiting(f, 0) \in Nat
    BY <2>1, <2>2, OneTaskChanges
  <2>4. Cardinality(Busy(g)) = Cardinality(Busy(f))
    BY <2>1, <2>2, OneTaskChanges
  <2> QED BY <2>3, <2>4 DEF f, g
<1>5. EachOnce'
  <2>1. InHand' = InHand /\ Handled' = Handled
    BY <1>1 DEF InHand, Handled
  <2> QED BY <1>4, <2>1 DEF IInv, EachOnce, Busy
<1>6. FailureReported'
  <2>1. Waiting(code, "error") \in Nat /\ Cardinality(Errors(calls)) \in Nat
    BY CountsAreNumbers DEF IInv
  <2>3. Waiting(code', "error") = Waiting(code, "error") /\ Errors(calls') = Errors(calls)
    OBVIOUS
  <2>4. fails = Waiting(result, 0) + Waiting(code, "error") + Cardinality(Errors(calls))
    BY InTheseTerms DEF IInv
  <2>5. fails' = Waiting(result', 0) + Waiting(code', "error") + Cardinality(Errors(calls'))
    BY <1>4, <2>1, <2>3, <2>4
  <2> QED BY <2>5 DEF FailureReported, Waiting, Errors
<1> QED BY <1>2, <1>3, <1>5, <1>6 DEF IInv

\* listen() posts a task: it has nothing in hand.
LEMMA ListenIInv == ASSUME IInv, NEW l \in Listeners, listen(l) PROVE IInv'
<1> USE DEF listen
<1>1. AcceptorType'
  BY DEF IInv, AcceptorType
<1>2. NotBegun'
  BY DEF IInv, NotBegun, AcceptorType
<1>3. EachOnce' /\ FailureReported'
  <2>1. EachOnce'
    BY DEF IInv, EachOnce, InHand, Handled
  <2>2. FailureReported'
    BY DEF IInv, FailureReported, Waiting
  <2> QED BY <2>1, <2>2
<1> QED BY <1>1, <1>2, <1>3 DEF IInv

\* The task begins: there was no result to forget.
LEMMA BeginIInv == ASSUME IInv, NEW l \in Listeners, Begin(l) PROVE IInv'
<1>1. result' = result
  <2>1. CASE result' = [result EXCEPT ![l] = NULL]
    <3>1. result[l] = NULL /\ result \in [Listeners -> {NULL} \cup 0..MaxConns]
      BY DEF Begin, IInv, NotBegun, AcceptorType
    <3> QED BY <2>1, <3>1
  <2> QED BY <2>1 DEF Begin, Accept
<1>2. PICK p \in {"accepting", "not_open"} : pc' = [pc EXCEPT ![l] = p]
  BY DEF Begin, Accept
<1>3. fault' \in BOOLEAN
  BY DEF Begin, Accept, IInv, AcceptorType
<1>4. AcceptorType'
  <2>1. acc' \in {NULL, "open", "deleted"}
    BY DEF Begin, IInv, AcceptorType
  <2> QED BY <1>1, <1>2, <1>3, <2>1 DEF Begin, IInv, AcceptorType
<1>5. NotBegun'
  <2>1. result[l] = NULL
    BY DEF Begin, IInv, NotBegun
  <2> QED BY <1>1, <1>2, <2>1 DEF IInv, NotBegun, AcceptorType
<1>6. EachOnce'
  BY <1>1 DEF Begin, IInv, EachOnce, InHand, Handled
<1>7. FailureReported'
  BY <1>1 DEF Begin, IInv, FailureReported, Waiting
<1> QED BY <1>4, <1>5, <1>6, <1>7 DEF IInv

\* accept() returns: the connection goes from the task to the handler, and with it
\* the failure the task has seen before.
LEMMA AcceptedIInv == ASSUME IInv, NEW l \in Listeners, Accepted(l) PROVE IInv'
<1> DEFINE c == result[l]
           k == code[l]
<1>1. /\ result \in [Listeners -> {NULL} \cup 0..MaxConns]
      /\ result' = [result EXCEPT ![l] = NULL]
      /\ c \in 1..MaxConns /\ c \notin {NULL, 0} /\ 0 # NULL
  BY BoundsAssumption, NumbersAreNotNull DEF Accepted, Accept, Succeeded, IInv, AcceptorType
<1>2. code \in [Listeners -> Codes] /\ code' = [code EXCEPT ![l] = "ok"] /\ k \in Codes
  BY DEF Accepted, IInv, AcceptorType
<1>3. /\ calls' \in Seq([conn : 1..MaxConns, code : Codes])
      /\ Len(calls') = Len(calls) + 1 /\ Len(calls) \in Nat
      /\ Cardinality(Errors(calls)) \in Nat
      /\ k = "error" => Cardinality(Errors(calls')) = Cardinality(Errors(calls)) + 1
      /\ k # "error" => Cardinality(Errors(calls')) = Cardinality(Errors(calls))
      /\ Handled' = Handled \cup {c}
  <2> DEFINE S == [conn : 1..MaxConns, code : Codes]
             e == [conn |-> c, code |-> k]
  <2>1. calls \in Seq(S) /\ e \in S /\ calls' = Append(calls, e) /\ e.code = k /\ e.conn = c
    BY <1>1, <1>2 DEF Accepted, PostCall, IInv, AcceptorType
  <2> HIDE DEF S, e, c, k
  <2>2. /\ calls' \in Seq(S) /\ Len(calls') = Len(calls) + 1 /\ Len(calls) \in Nat
        /\ Cardinality(Errors(calls)) \in Nat
        /\ e.code = "error" => Cardinality(Errors(calls')) = Cardinality(Errors(calls)) + 1
        /\ e.code # "error" => Cardinality(Errors(calls')) = Cardinality(Errors(calls))
        /\ {calls'[i].conn : i \in 1..Len(calls')}
              = {calls[i].conn : i \in 1..Len(calls)} \cup {e.conn}
    BY <2>1, OneCallMore
  <2> QED BY <2>1, <2>2 DEF S, Handled
<1>4. /\ Waiting(result', 0) = Waiting(result, 0) /\ Waiting(result, 0) \in Nat
      /\ Cardinality(Busy(result')) = Cardinality(Busy(result)) - 1
      /\ Cardinality(Busy(result)) \in Nat
  <2> DEFINE f == result
             g == result'
  <2>1. /\ \A m \in Listeners : m # l => g[m] = f[m]
        /\ f[l] \notin {NULL, 0} /\ g[l] \in {NULL, 0} /\ f[l] # 0 /\ g[l] # 0
    BY <1>1
  <2> HIDE DEF f, g
  <2>2. Waiting(g, 0) = Waiting(f, 0) /\ Waiting(f, 0) \in Nat
    BY <2>1, OneTaskChanges
  <2>3. Cardinality(Busy(g)) = Cardinality(Busy(f)) - 1 /\ Cardinality(Busy(f)) \in Nat
    BY <2>1, OneTaskChanges
  <2> QED BY <2>2, <2>3 DEF f, g
<1>5. /\ Waiting(code, "error") \in Nat
      /\ k = "error" => Waiting(code', "error") = Waiting(code, "error") - 1
      /\ k # "error" => Waiting(code', "error") = Waiting(code, "error")
  <2> DEFINE f == code
             g == code'
             x == "error"
  <2>1. /\ \A m \in Listeners : m # l => g[m] = f[m]
        /\ f[l] = k /\ g[l] # x
    BY <1>2
  <2> HIDE DEF f, g, k, x
  <2>2. /\ Waiting(f, x) \in Nat
        /\ f[l] = x => Waiting(g, x) = Waiting(f, x) - 1
        /\ f[l] # x => Waiting(g, x) = Waiting(f, x)
    BY <2>1, OneTaskChanges
  <2> QED BY <2>1, <2>2 DEF f, g, x
<1>6. InHand = (InHand)' \cup {c}
  BY <1>1 DEF InHand
<1>7. AcceptorType'
  <2>1. /\ pc' \in [Listeners -> {"none", "posted", "not_open", "accepting", "ended"}]
        /\ fault' \in BOOLEAN
    BY DEF Accepted, Accept, IInv, AcceptorType
  <2>2. code' \in [Listeners -> Codes]
    BY <1>2 DEF Codes
  <2>3. result' \in [Listeners -> {NULL} \cup 0..MaxConns]
    BY <1>1
  <2> QED BY <1>3, <2>1, <2>2, <2>3 DEF Accepted, IInv, AcceptorType
<1>8. NotBegun'
  BY DEF Accepted, Accept, IInv, NotBegun, AcceptorType
<1> HIDE DEF c, k
<1>9. EachOnce'
  <2>1. /\ 1..arrived = ToSet(backlog) \cup InHand \cup Handled
        /\ arrived = Len(backlog) + Cardinality(Busy(result)) + Len(calls)
    BY InTheseTerms DEF IInv
  <2>2. arrived' = arrived /\ backlog' = backlog /\ Len(backlog) \in Nat
    BY CountsAreNumbers DEF Accepted, IInv
  <2>3. 1..arrived' = ToSet(backlog') \cup InHand' \cup Handled'
    BY <1>3, <1>6, <2>1, <2>2
  <2>4. arrived' = Len(backlog') + Cardinality(Busy(result')) + Len(calls')
    <3>1. \A x \in Nat, b \in Nat, n \in Nat : x + b + n = x + (b - 1) + (n + 1)
      OBVIOUS
    <3>2. /\ arrived' = Len(backlog) + Cardinality(Busy(result)) + Len(calls)
          /\ Len(backlog') = Len(backlog)
      BY <2>1, <2>2
    <3> QED BY <1>3, <1>4, <2>2, <3>1, <3>2
  <2> QED BY <2>3, <2>4 DEF EachOnce, Busy
<1>10. FailureReported'
  <2>1. fails = Waiting(result, 0) + Waiting(code, "error") + Cardinality(Errors(calls))
    BY InTheseTerms DEF IInv
  <2>2. fails' = fails
    BY DEF Accepted
  <2>3. fails' = Waiting(result', 0) + Waiting(code', "error") + Cardinality(Errors(calls'))
    BY <1>3, <1>4, <1>5, <2>1, <2>2
  <2> QED BY <2>3 DEF FailureReported, Waiting, Errors
<1> QED BY <1>7, <1>8, <1>9, <1>10 DEF IInv

\* accept() throws: the first failure is kept for the next call, the second ends the
\* task with both.
LEMMA FailedIInv == ASSUME IInv, NEW l \in Listeners, Failed(l) PROVE IInv'
<1>1. CASE ~InTry(l)
  <2>1. AcceptorType'
    BY <1>1 DEF Failed, IInv, AcceptorType
  <2>2. NotBegun'
    BY <1>1 DEF Failed, IInv, NotBegun, AcceptorType
  <2>3. EachOnce'
    BY <1>1 DEF Failed, IInv, EachOnce, InHand, Handled
  <2>4. FailureReported'
    BY <1>1 DEF Failed, IInv, FailureReported, Waiting
  <2> QED BY <2>1, <2>2, <2>3, <2>4 DEF IInv
<1>2. CASE InTry(l)
  <2>1. /\ result \in [Listeners -> {NULL} \cup 0..MaxConns] /\ result[l] = 0
        /\ result' = [result EXCEPT ![l] = NULL] /\ 0 # NULL
    BY <1>2, NumbersAreNotNull DEF Failed, Accept, IInv, AcceptorType
  <2>2. code \in [Listeners -> Codes] /\ code' = [code EXCEPT ![l] = "error"] /\ code[l] = "ok"
    BY <1>2 DEF Failed, InTry, IInv, AcceptorType
  <2>3. /\ Waiting(result', 0) = Waiting(result, 0) - 1 /\ Waiting(result, 0) \in Nat
        /\ Cardinality(Busy(result')) = Cardinality(Busy(result))
    <3> DEFINE f == result
               g == result'
               x == 0
    <3>1. \A m \in Listeners : m # l => g[m] = f[m]
      BY <2>1
    <3>2. f[l] = x /\ g[l] # x
      BY <2>1
    <3>3. f[l] \in {NULL, 0} /\ g[l] \in {NULL, 0}
      BY <2>1
    <3> HIDE DEF f, g, x
    <3>4. Waiting(g, x) = Waiting(f, x) - 1 /\ Waiting(f, x) \in Nat
      BY <3>1, <3>2, OneTaskChanges
    <3>5. Cardinality(Busy(g)) = Cardinality(Busy(f))
      BY <3>1, <3>3, OneTaskChanges
    <3> QED BY <3>4, <3>5 DEF f, g, x
  <2>4. Waiting(code', "error") = Waiting(code, "error") + 1 /\ Waiting(code, "error") \in Nat
    <3> DEFINE f == code
               g == code'
               x == "error"
    <3>1. /\ \A m \in Listeners : m # l => g[m] = f[m]
          /\ f[l] # x /\ g[l] = x
      BY <2>2
    <3> HIDE DEF f, g, x
    <3>2. Waiting(g, x) = Waiting(f, x) + 1 /\ Waiting(f, x) \in Nat
      BY <3>1, OneTaskChanges
    <3> QED BY <3>2 DEF f, g, x
  <2>5. AcceptorType'
    <3>1. /\ pc' \in [Listeners -> {"none", "posted", "not_open", "accepting", "ended"}]
          /\ fault' \in BOOLEAN
      BY <1>2 DEF Failed, Accept, IInv, AcceptorType
    <3>2. code' \in [Listeners -> Codes]
      BY <2>2 DEF Codes
    <3>3. result' \in [Listeners -> {NULL} \cup 0..MaxConns]
      BY <2>1
    <3> QED BY <3>1, <3>2, <3>3 DEF Failed, IInv, AcceptorType
  <2>6. NotBegun'
    BY <1>2 DEF Failed, Accept, IInv, NotBegun, AcceptorType
  <2>7. EachOnce'
    <3>1. InHand' = InHand /\ Handled' = Handled
      BY <2>1 DEF Failed, InHand, Handled
    <3>2. arrived' = arrived /\ backlog' = backlog /\ calls' = calls
      BY DEF Failed
    <3> QED BY <2>3, <3>1, <3>2 DEF IInv, EachOnce, Busy
  <2>8. FailureReported'
    <3>1. Cardinality(Errors(calls)) \in Nat
      BY CountsAreNumbers DEF IInv
    <3>2. Errors(calls') = Errors(calls) /\ fails' = fails
      BY DEF Failed
    <3>3. fails = Waiting(result, 0) + Waiting(code, "error") + Cardinality(Errors(calls))
      BY InTheseTerms DEF IInv
    <3>4. fails' = Waiting(result', 0) + Waiting(code', "error") + Cardinality(Errors(calls'))
      BY <2>3, <2>4, <3>1, <3>2, <3>3
    <3> QED BY <3>4 DEF FailureReported, Waiting, Errors
  <2> QED BY <2>5, <2>6, <2>7, <2>8 DEF IInv
<1> QED BY <1>1, <1>2

\* The destructor: every accept in progress fails.
LEMMA DestroyIInv == ASSUME IInv, Destroy PROVE IInv'
<1> DEFINE A == {l \in Listeners : Pending(l)}
           Z == {l \in Listeners : result[l] = 0}
           ZZ == {l \in Listeners : result'[l] = 0}
<1>1. /\ result \in [Listeners -> {NULL} \cup 0..MaxConns]
      /\ result' = [l \in Listeners |-> IF l \in A THEN 0 ELSE result[l]]
      /\ fails' = fails + Cardinality(A) /\ fails \in Nat
      /\ 0 # NULL /\ 0 \in 0..MaxConns
      /\ \A l \in A : result[l] = NULL /\ pc[l] = "accepting"
  BY BoundsAssumption, NumbersAreNotNull DEF Destroy, Pending, IInv, AcceptorType
<1>2. UNCHANGED <<listen_done, pc, code, arrived, backlog, calls, fault>>
  BY DEF Destroy
<1>3. IsFiniteSet(A) /\ IsFiniteSet(Z) /\ Cardinality(A) \in Nat /\ Cardinality(Z) \in Nat
  BY BoundsAssumption, FS_Subset, FS_CardinalityType
<1>4. A \cap Z = {} /\ ZZ = Z \cup A
  BY <1>1
<1>5. Waiting(result, 0) = Cardinality(Z) /\ Waiting(result', 0) = Cardinality(ZZ)
  BY DEF Waiting
<1> HIDE DEF A, Z, ZZ
<1>6. Cardinality(ZZ) = Cardinality(Z) + Cardinality(A)
  <2>1. Cardinality(Z \cup A) = Cardinality(Z) + Cardinality(A) - Cardinality(Z \cap A)
    BY <1>3, FS_Union
  <2>2. Cardinality(Z \cap A) = 0
    <3>1. Z \cap A = {}
      BY <1>4
    <3> QED BY <3>1, FS_EmptySet
  <2> QED BY <1>3, <1>4, <2>1, <2>2
<1>7. AcceptorType'
  <2>1. result' \in [Listeners -> {NULL} \cup 0..MaxConns]
    BY <1>1
  <2>2. fails' \in Nat
    BY <1>1, <1>3
  <2>3. acc' \in {NULL, "open", "deleted"} /\ life' \in {"alive", "waiting", "gone"}
    BY DEF Destroy, IInv, AcceptorType
  <2> QED BY <1>2, <2>1, <2>2, <2>3 DEF IInv, AcceptorType
<1>8. NotBegun'
  BY <1>1, <1>2 DEF IInv, NotBegun
<1>9. EachOnce'
  <2>1. InHand' = InHand /\ Handled' = Handled
    BY <1>1, <1>2 DEF InHand, Handled
  <2>2. Busy(result') = Busy(result)
    BY <1>1 DEF Busy
  <2> QED BY <1>2, <2>1, <2>2 DEF IInv, EachOnce, Busy
<1>10. FailureReported'
  <2>1. Waiting(code, "error") \in Nat /\ Cardinality(Errors(calls)) \in Nat
    BY CountsAreNumbers DEF IInv
  <2>2. Waiting(code', "error") = Waiting(code, "error") /\ Errors(calls') = Errors(calls)
    BY <1>2
  <2>3. fails = Waiting(result, 0) + Waiting(code, "error") + Cardinality(Errors(calls))
    BY InTheseTerms DEF IInv
  <2>4. fails' = Waiting(result', 0) + Waiting(code', "error") + Cardinality(Errors(calls'))
    BY <1>1, <1>3, <1>5, <1>6, <2>1, <2>2, <2>3
  <2> QED BY <2>4 DEF FailureReported, Waiting, Errors
<1> QED BY <1>7, <1>8, <1>9, <1>10 DEF IInv

\* The end of the destructor, and a step of nobody.
LEMMA NothingInHandChanges == ASSUME IInv, DestroyEnds \/ UNCHANGED vars PROVE IInv'
<1>1. UNCHANGED <<acc, listen_done, pc, code, result, arrived, backlog, calls, fails, fault>>
  BY DEF DestroyEnds, vars
<1>2. life' = "gone" \/ life' = life
  BY DEF DestroyEnds, vars
<1>3. AcceptorType'
  BY <1>1, <1>2 DEF IInv, AcceptorType
<1>4. NotBegun'
  BY <1>1 DEF IInv, NotBegun
<1>5. EachOnce'
  BY <1>1 DEF IInv, EachOnce, InHand, Handled
<1>6. FailureReported'
  BY <1>1 DEF IInv, FailureReported, Waiting
<1> QED BY <1>3, <1>4, <1>5, <1>6 DEF IInv

\* Every step keeps the invariant.
LEMMA NextIInv == IInv /\ [Next]_vars => IInv'
<1> SUFFICES ASSUME IInv, [Next]_vars PROVE IInv'
  OBVIOUS
<1>1. CASE Arrive
  BY <1>1, ArriveIInv
<1>2. CASE Destroy
  BY <1>2, DestroyIInv
<1>3. CASE DestroyEnds \/ UNCHANGED vars
  BY <1>3, NothingInHandChanges
<1>4. CASE \E l \in Listeners : AcceptDone(l) \/ AcceptFails(l) \/ listen(l)
                                   \/ Begin(l) \/ Accepted(l) \/ Failed(l)
  BY <1>4, AcceptDoneIInv, AcceptFailsIInv, ListenIInv, BeginIInv, AcceptedIInv, FailedIInv
<1> QED BY <1>1, <1>2, <1>3, <1>4 DEF Next

\* The inductive invariant holds in every state.
THEOREM Invariance == Spec => []IInv
BY InitIInv, NextIInv, PTL DEF Spec

-----------------------------------------------------------------------------
(* The theorems *)

\* Every connection that arrives is in one place, and the handler gets it once, whichever
\* task accepts it, whatever failed in between, and whenever the acceptor is destroyed.
THEOREM HandedOverOnce == Spec => []EachOnce
<1>1. IInv => EachOnce
  BY DEF IInv
<1> QED BY <1>1, Invariance, PTL

\* No failure of an accept is swallowed: it waits in its task, was passed to the handler
\* with a connection, or ended the task.
THEOREM NoFailureSwallowed == Spec => []FailureReported
<1>1. IInv => FailureReported
  BY DEF IInv
<1> QED BY <1>1, Invariance, PTL
=============================================================================
