-------------------------- MODULE TcpReaderProofs --------------------------
(***************************************************************************)
(* Proofs about TcpReader, for any sizes of the caller's buffers and any   *)
(* number of bytes: the types, and that the calls of read() return the     *)
(* stream.                                                                 *)
(***************************************************************************)
EXTENDS TcpReader, SequenceTheorems, TLAPS

\* The bytes of s are those of the stream after the first n.
Follows(s, n) == \A k \in 1..Len(s) : s[k] = n + k

\* As long as read_some() is not called: a read_buf that is used up starts over; what
\* was returned, then what the call in progress has, then what is left in read_buf is
\* all that was read from the kernel; and a call waits only with nothing in read_buf.
ReadInv ==
    only_read =>
        /\ pc # "read_some"
        /\ read_pos < Len(read_buf) \/ (read_pos = 0 /\ read_buf = <<>>)
        /\ Follows(received, 0)
        /\ pc = "idle" => /\ Len(received) + (Len(read_buf) - read_pos) = taken
                          /\ Follows(read_buf, taken - Len(read_buf))
        /\ pc = "read" => /\ read_buf = <<>>
                          /\ Len(received) + Len(buf) = taken
                          /\ Follows(buf, Len(received))

\* The inductive invariant.
IInv == TypeOK /\ ReadInv

-----------------------------------------------------------------------------
(* Operators *)

\* A function on 1..n is a sequence of length n.
LEMMA MadeSeq ==
    ASSUME NEW S, NEW n \in Nat, NEW f \in [1..n -> S]
    PROVE  f \in Seq(S) /\ Len(f) = n
<1>1. f \in Seq(S)
  BY SeqDef
<1>2. DOMAIN f = 1..n /\ DOMAIN f = 1..Len(f) /\ Len(f) \in Nat
  BY <1>1, LenProperties
<1> QED BY <1>1, <1>2

\* The bytes of the stream after the first i, up to the j-th.
LEMMA BytesFollow ==
    ASSUME NEW i \in Nat, NEW j \in Nat, i <= j, NEW n \in Nat, j <= n
    PROVE  /\ Bytes(i, j) \in Seq(0..n) /\ Len(Bytes(i, j)) = j - i
           /\ Follows(Bytes(i, j), i)
           /\ i = j => Bytes(i, j) = <<>>
<1> DEFINE f == Bytes(i, j)
           m == j - i
           S == 0..n
<1>1. m \in Nat /\ \A k \in 1..m : f[k] = i + k /\ i + k \in S
  BY DEF Bytes
<1>2. f \in [1..m -> S]
  BY <1>1 DEF Bytes
<1> HIDE DEF f, S
<1>3. f \in Seq(S) /\ Len(f) = m
  BY <1>1, <1>2, MadeSeq
<1>4. m = 0 => f = <<>>
  BY <1>3, EmptySeq
<1> QED BY <1>1, <1>3, <1>4 DEF f, S, Follows

\* Two parts of the stream, the second behind the first, are one part.
LEMMA FollowsConcat ==
    ASSUME NEW S, NEW s \in Seq(S), NEW t \in Seq(S), NEW n \in Nat,
           Follows(s, n), Follows(t, n + Len(s))
    PROVE  Follows(s \o t, n)
<1>1. /\ Len(s \o t) = Len(s) + Len(t)
      /\ \A i \in 1..(Len(s) + Len(t)) : (s \o t)[i] = IF i <= Len(s) THEN s[i] ELSE t[i - Len(s)]
      /\ Len(s) \in Nat /\ Len(t) \in Nat
  BY ConcatProperties, LenProperties
<1>2. ASSUME NEW k \in 1..Len(s \o t) PROVE (s \o t)[k] = n + k
  <2>1. CASE k <= Len(s)
    BY <1>1, <2>1 DEF Follows
  <2>2. CASE k > Len(s)
    <3>1. k - Len(s) \in 1..Len(t) /\ (s \o t)[k] = t[k - Len(s)]
      BY <1>1, <2>2
    <3>2. t[k - Len(s)] = (n + Len(s)) + (k - Len(s))
      BY <3>1 DEF Follows
    <3> QED BY <1>1, <3>1, <3>2
  <2> QED BY <1>1, <2>1, <2>2
<1> QED BY <1>2 DEF Follows

\* What is copied out of read_buf.
LEMMA ChunkType ==
    ASSUME NEW S, 0 \in S, read_buf \in Seq(S), read_pos \in Nat, NEW n \in Nat
    PROVE  /\ FromReadBuf(n) \in Seq(S) /\ Len(FromReadBuf(n)) = n
           /\ n <= Len(read_buf) - read_pos
                => \A k \in 1..n : FromReadBuf(n)[k] = read_buf[read_pos + k]
<1> DEFINE f == FromReadBuf(n)
<1>1. Len(read_buf) \in Nat /\ \A k \in 1..Len(read_buf) : read_buf[k] \in S
  BY LenProperties, ElementOfSeq
<1>2. \A k \in 1..n : read_pos + k \in 1..Len(read_buf) \/ ~(read_pos + k <= Len(read_buf))
  BY <1>1
<1>3. f \in [1..n -> S]
  BY <1>1, <1>2 DEF FromReadBuf
<1>4. n <= Len(read_buf) - read_pos => \A k \in 1..n : f[k] = read_buf[read_pos + k]
  BY <1>1 DEF FromReadBuf
<1> HIDE DEF f
<1>5. f \in Seq(S) /\ Len(f) = n
  BY <1>3, MadeSeq
<1> QED BY <1>4, <1>5 DEF f

\* What the caller takes for the result: n bytes of its buffer b.
LEMMA ReturnType ==
    ASSUME NEW S, 0 \in S, received \in Seq(S), NEW b \in Seq(S), NEW n \in Nat, Return(b, n)
    PROVE  /\ received' \in Seq(S)
           /\ Len(received') = Len(received) + n
           /\ n = Len(b) => received' = received \o b
           /\ buf' = <<>> /\ want' = 0 /\ pc' = "idle"
<1> DEFINE f == [k \in 1..n |-> IF k <= Len(b) THEN b[k] ELSE 0]
<1>1. Len(b) \in Nat /\ \A k \in 1..Len(b) : b[k] \in S
  BY LenProperties, ElementOfSeq
<1>2. \A k \in 1..n : k \in 1..Len(b) \/ ~(k <= Len(b))
  BY <1>1
<1>3. f \in [1..n -> S]
  BY <1>1, <1>2
<1>4. \A k \in 1..n : k <= Len(b) => f[k] = b[k]
  OBVIOUS
<1>5. received' = received \o f
  BY DEF Return
<1> HIDE DEF f
<1>6. f \in Seq(S) /\ Len(f) = n
  BY <1>3, MadeSeq
<1>7. received' \in Seq(S) /\ Len(received') = Len(received) + n
  BY <1>5, <1>6, ConcatProperties
<1>8. n = Len(b) => f = b
  BY <1>4, <1>6, SeqEqual
<1> QED BY <1>5, <1>7, <1>8 DEF Return

-----------------------------------------------------------------------------
(* The inductive invariant *)

\* At first everything is empty.
LEMMA InitIInv == Init => IInv
<1> SUFFICES ASSUME Init PROVE IInv
  OBVIOUS
<1>1. <<>> \in Seq(0..0) /\ Len(<<>>) = 0
  BY EmptySeq
<1>2. TypeOK
  <2>1. arrived \in 0..MaxBytes /\ taken \in 0..arrived
    BY BytesAssumption DEF Init
  <2> DEFINE S == 0..arrived
  <2>2. <<>> \in Seq(S)
    BY EmptySeq
  <2>3. read_buf \in Seq(S) /\ buf \in Seq(S) /\ received \in Seq(S)
    BY <2>2 DEF Init
  <2>4. read_pos \in Nat /\ want \in Nat
    BY DEF Init
  <2> HIDE DEF S
  <2>5. /\ closed \in BOOLEAN /\ only_read \in BOOLEAN
        /\ pc \in {"idle", "read", "read_some", "failed"}
    BY DEF Init
  <2> QED BY <2>1, <2>3, <2>4, <2>5 DEF TypeOK, S
<1>3. ReadInv
  BY <1>1 DEF Init, ReadInv, Follows
<1> QED BY <1>2, <1>3 DEF IInv

\* The facts about the state that the steps of the reader use.
LEMMA Bounds ==
    ASSUME TypeOK
    PROVE  /\ arrived \in Nat /\ taken \in Nat /\ taken <= arrived /\ arrived <= MaxBytes
           /\ Available = arrived - taken /\ Available \in Nat
           /\ Left \in Nat /\ Len(read_buf) \in Nat /\ Len(buf) \in Nat /\ Len(received) \in Nat
           /\ Left # 0 <=> read_pos # Len(read_buf)
           /\ 0 \in 0..arrived
<1>1. /\ arrived \in Nat /\ taken \in Nat /\ taken <= arrived /\ arrived <= MaxBytes
      /\ Available = arrived - taken /\ Available \in Nat /\ 0 \in 0..arrived
  BY BytesAssumption DEF TypeOK, Available
<1>2. Len(read_buf) \in Nat /\ Len(buf) \in Nat /\ Len(received) \in Nat
  BY LenProperties DEF TypeOK
<1>3. Left \in Nat /\ (Left # 0 <=> read_pos # Len(read_buf))
  BY <1>2, BytesAssumption DEF TypeOK, Left
<1> QED BY <1>1, <1>2, <1>3

\* The parts of the type invariant that the calls change.
LEMMA StepTypes ==
    ASSUME TypeOK, UNCHANGED <<arrived, closed>>,
           taken' \in Nat, taken' <= arrived,
           read_buf' \in Seq(0..arrived), read_pos' \in Nat,
           pc' \in {"idle", "read", "read_some", "failed"},
           buf' \in Seq(0..arrived), want' \in Nat,
           received' \in Seq(0..arrived), only_read' \in BOOLEAN
    PROVE  TypeOK'
BY BytesAssumption DEF TypeOK

\* What a call that has to wait or returns what the kernel has finds: rest bytes are
\* missing.
LEMMA KernelBytes ==
    ASSUME TypeOK, NEW rest \in Nat, rest <= Available,
           NEW b \in Seq(0..arrived)
    PROVE  /\ Excess(rest) \in Seq(0..arrived) /\ Len(Excess(rest)) = arrived - (taken + rest)
           /\ Follows(Excess(rest), taken + rest)
           /\ rest = Available => Excess(rest) = <<>>
           /\ Bytes(taken, taken + rest) \in Seq(0..arrived)
           /\ Follows(Bytes(taken, taken + rest), taken)
           /\ b \o Bytes(taken, taken + rest) \in Seq(0..arrived)
           /\ Len(b \o Bytes(taken, taken + rest)) = Len(b) + rest
<1>1. taken + rest \in Nat /\ taken + rest <= arrived /\ arrived \in Nat /\ taken \in Nat
      /\ Available = arrived - taken
  BY Bounds
<1> DEFINE u == taken + rest
           s == Bytes(taken, u)
           e == Bytes(u, arrived)
           S == 0..arrived
<1>2. u \in Nat /\ taken <= u /\ u <= arrived /\ u - taken = rest
  BY <1>1
<1>3. b \in Seq(S) /\ e = Excess(rest)
  BY DEF Excess
<1> HIDE DEF u
<1>4. s \in Seq(S) /\ Len(s) = u - taken /\ Follows(s, taken)
  BY <1>1, <1>2, BytesFollow
<1>5. e \in Seq(S) /\ Len(e) = arrived - u /\ Follows(e, u) /\ (u = arrived => e = <<>>)
  <2>1. u \in Nat /\ arrived \in Nat /\ u <= arrived /\ arrived <= arrived
    BY <1>1, <1>2
  <2> QED BY <2>1, BytesFollow
<1> HIDE DEF s, e, S
<1>6. b \o s \in Seq(S) /\ Len(b \o s) = Len(b) + Len(s)
  BY <1>3, <1>4, ConcatProperties
<1>7. rest = Available => u = arrived
  BY <1>1 DEF u
<1> QED BY <1>2, <1>3, <1>4, <1>5, <1>6, <1>7 DEF s, S, u

\* read() keeps the types.
LEMMA ReadType == ASSUME TypeOK, NEW size \in Sizes, Read(size) PROVE TypeOK'
<1> DEFINE s == AtMost(Left, size)
           chunk == FromReadBuf(s)
           rest == size - s
           S == 0..arrived
<1>1. size \in Nat /\ s \in Nat /\ s <= size /\ rest \in Nat
  BY SizesAssumption, Bounds DEF AtMost
<1>2. 0 \in S /\ read_buf \in Seq(S) /\ received \in Seq(S) /\ read_pos \in Nat
  BY Bounds DEF TypeOK
<1>3. <<>> \in Seq(S)
  BY EmptySeq
<1>4. read_pos' \in Nat /\ UNCHANGED <<arrived, closed, only_read>>
  BY <1>1, <1>2 DEF Read, ReadPosAfter
<1>5. only_read' \in BOOLEAN /\ taken \in Nat /\ taken <= arrived /\ arrived \in Nat
  BY <1>4, Bounds DEF TypeOK
<1> HIDE DEF S
<1>6. chunk \in Seq(S) /\ Len(chunk) = s
  BY <1>1, <1>2, ChunkType
<1> HIDE DEF chunk, s, rest
<1>7. CASE /\ read_buf' \in {<<>>, read_buf} /\ Return(chunk, s) /\ taken' = taken
  <2>1. received' \in Seq(S) /\ buf' = <<>> /\ want' = 0 /\ pc' = "idle"
    BY <1>1, <1>2, <1>6, <1>7, ReturnType
  <2>2. read_buf' \in Seq(S) /\ buf' \in Seq(S) /\ want' \in Nat
    BY <1>2, <1>3, <1>7, <2>1
  <2> QED BY <1>4, <1>5, <1>7, <2>1, <2>2, StepTypes DEF S
<1>8. CASE /\ Available >= rest /\ read_buf' = Excess(rest) /\ taken' = arrived
           /\ Return(chunk \o Bytes(taken, taken + rest), size)
  <2>1. Excess(rest) \in Seq(S) /\ chunk \o Bytes(taken, taken + rest) \in Seq(S)
    <3>1. rest <= Available
      BY <1>1, <1>8, Bounds
    <3> QED BY <1>1, <1>6, <3>1, KernelBytes DEF S
  <2>2. received' \in Seq(S) /\ buf' = <<>> /\ want' = 0 /\ pc' = "idle"
    BY <1>1, <1>2, <1>8, <2>1, ReturnType
  <2>3. taken' \in Nat /\ taken' <= arrived
    BY <1>5, <1>8
  <2> QED BY <1>3, <1>4, <1>5, <1>8, <2>1, <2>2, <2>3, StepTypes DEF S
<1>9. CASE /\ read_buf' \in {<<>>, read_buf} /\ pc' = "read" /\ buf' = chunk /\ want' = rest
           /\ taken' = taken /\ received' = received
  <2>1. read_buf' \in Seq(S)
    BY <1>2, <1>3, <1>9
  <2> QED BY <1>1, <1>2, <1>4, <1>5, <1>6, <1>9, <2>1, StepTypes DEF S
<1> QED BY <1>7, <1>8, <1>9 DEF Read, s, chunk, rest

\* read_some() keeps the types, wherever read_pos is.
LEMMA ReadSomeType == ASSUME TypeOK, NEW size \in Sizes, ReadSome(size) PROVE TypeOK'
<1> DEFINE grab == read_buf # <<>> /\ Left # 0
           s == IF grab THEN AtMost(Left, size) ELSE 0
           chunk == FromReadBuf(s)
           rest == size - s
           S == 0..arrived
<1>1. size \in Nat /\ s \in Nat /\ s <= size /\ rest \in Nat
  BY SizesAssumption, Bounds DEF AtMost
<1>2. 0 \in S /\ read_buf \in Seq(S) /\ received \in Seq(S) /\ read_pos \in Nat
  BY Bounds DEF TypeOK
<1>3. <<>> \in Seq(S)
  BY EmptySeq
<1>4. read_pos' \in Nat /\ UNCHANGED <<arrived, closed>> /\ only_read' \in BOOLEAN
  BY <1>1, <1>2 DEF ReadSome
<1>5. taken \in Nat /\ taken <= arrived /\ arrived \in Nat /\ Available \in Nat
  BY Bounds
<1> HIDE DEF S
<1>6. chunk \in Seq(S) /\ Len(chunk) = s
  BY <1>1, <1>2, ChunkType
<1> HIDE DEF chunk, s, rest
<1>7. CASE /\ read_buf' \in {<<>>, read_buf} /\ Return(chunk, s) /\ taken' = taken
  <2>1. received' \in Seq(S) /\ buf' = <<>> /\ want' = 0 /\ pc' = "idle"
    BY <1>1, <1>2, <1>6, <1>7, ReturnType
  <2>2. read_buf' \in Seq(S) /\ buf' \in Seq(S) /\ want' \in Nat
    BY <1>2, <1>3, <1>7, <2>1
  <2> QED BY <1>4, <1>5, <1>7, <2>1, <2>2, StepTypes DEF S
<1>8. CASE /\ Available >= rest /\ read_buf' = Excess(rest) /\ taken' = arrived
           /\ Return(chunk \o Bytes(taken, taken + rest), Available)
  <2>1. Excess(rest) \in Seq(S) /\ chunk \o Bytes(taken, taken + rest) \in Seq(S)
    <3>1. rest <= Available
      BY <1>1, <1>8, Bounds
    <3> QED BY <1>1, <1>6, <3>1, KernelBytes DEF S
  <2>2. received' \in Seq(S) /\ buf' = <<>> /\ want' = 0 /\ pc' = "idle"
    BY <1>2, <1>5, <1>8, <2>1, ReturnType
  <2>3. taken' \in Nat /\ taken' <= arrived
    BY <1>5, <1>8
  <2> QED BY <1>3, <1>4, <1>5, <1>8, <2>1, <2>2, <2>3, StepTypes DEF S
<1>9. CASE /\ read_buf' \in {<<>>, read_buf} /\ pc' = "read_some" /\ buf' = chunk
           /\ want' = rest /\ taken' = taken /\ received' = received
  <2>1. read_buf' \in Seq(S)
    BY <1>2, <1>3, <1>9
  <2> QED BY <1>1, <1>2, <1>4, <1>5, <1>6, <1>9, <2>1, StepTypes DEF S
<1> QED BY <1>7, <1>8, <1>9 DEF ReadSome, grab, s, chunk, rest

\* The operation of asio completes with n bytes.
LEMMA DoneType ==
    ASSUME TypeOK, NEW n \in Nat, n <= Available, NEW m \in Nat,
           taken' = taken + n, Return(buf \o Bytes(taken, taken + n), m),
           UNCHANGED <<arrived, closed, read_buf, read_pos, only_read>>
    PROVE  TypeOK'
<1> DEFINE S == 0..arrived
<1>1. taken' \in Nat /\ taken' <= arrived
  BY Bounds
<1>2. 0 \in S /\ received \in Seq(S) /\ buf \in Seq(S) /\ <<>> \in Seq(S)
  BY Bounds, EmptySeq DEF TypeOK
<1>3. buf \o Bytes(taken, taken + n) \in Seq(S)
  BY <1>2, KernelBytes
<1>4. /\ read_buf' \in Seq(S) /\ read_pos' \in Nat /\ only_read' \in BOOLEAN
  BY DEF TypeOK
<1> HIDE DEF S
<1>5. received' \in Seq(S) /\ buf' = <<>> /\ want' = 0 /\ pc' = "idle"
  BY <1>2, <1>3, ReturnType
<1> QED BY <1>1, <1>2, <1>4, <1>5, StepTypes DEF S

\* Every step keeps the types.
LEMMA NextType == ASSUME TypeOK, [Next]_vars PROVE TypeOK'
<1>1. CASE \E size \in Sizes : Read(size) \/ ReadSome(size)
  BY <1>1, ReadType, ReadSomeType
<1>2. CASE ReadDone
  <2>1. want \in Nat /\ want <= Available /\ Len(buf) + want \in Nat
    BY <1>2, Bounds DEF ReadDone, TypeOK
  <2> QED BY <1>2, <2>1, DoneType DEF ReadDone
<1>3. CASE ReadSomeDone
  <2>1. PICK n \in 1..AtMost(Available, want) :
           taken' = taken + n /\ Return(buf \o Bytes(taken, taken + n), n)
    BY <1>3 DEF ReadSomeDone
  <2>2. n \in Nat /\ n <= Available
    BY Bounds DEF TypeOK, AtMost
  <2> QED BY <1>3, <2>1, <2>2, DoneType DEF ReadSomeDone
<1>4. CASE ReadFails
  BY <1>4, Bounds DEF ReadFails, TypeOK
<1>5. CASE Arrive
  <2> DEFINE S == 0..arrived
             T == 0..arrived'
  <2>1. /\ arrived' = arrived + 1 /\ arrived' \in 0..MaxBytes /\ taken' \in 0..arrived'
        /\ S \subseteq T
    BY <1>5, Bounds, BytesAssumption DEF Arrive, TypeOK
  <2>2. read_buf \in Seq(S) /\ buf \in Seq(S) /\ received \in Seq(S)
    BY DEF TypeOK
  <2> HIDE DEF S, T
  <2>3. read_buf \in Seq(T) /\ buf \in Seq(T) /\ received \in Seq(T)
    BY <2>1, <2>2, SeqMonotonic
  <2> QED BY <1>5, <2>1, <2>3 DEF Arrive, TypeOK, T
<1>6. CASE Close
  BY <1>6 DEF Close, TypeOK
<1>7. CASE UNCHANGED vars
  BY <1>7 DEF vars, TypeOK
<1> QED BY <1>1, <1>2, <1>3, <1>4, <1>5, <1>6, <1>7 DEF Next

\* What read() copies out of read_buf follows what was returned before.
LEMMA ChunkFollows ==
    ASSUME TypeOK, ReadInv, only_read, pc = "idle", NEW n \in Nat, n <= Left
    PROVE  /\ Left = Len(read_buf) - read_pos
           /\ Len(received) + Left = taken
           /\ Left = 0 => read_pos = 0 /\ read_buf = <<>>
           /\ Follows(FromReadBuf(n), Len(received))
<1>1. /\ read_pos \in Nat /\ Len(read_buf) \in Nat /\ Len(received) \in Nat /\ taken \in Nat
      /\ Len(<<>>) = 0
  BY Bounds, EmptySeq DEF TypeOK
<1>2. /\ read_pos < Len(read_buf) \/ (read_pos = 0 /\ read_buf = <<>>)
      /\ Len(received) + (Len(read_buf) - read_pos) = taken
      /\ Follows(read_buf, taken - Len(read_buf))
  BY DEF ReadInv
<1>3. Left = Len(read_buf) - read_pos
  BY <1>1, <1>2 DEF Left
<1>4. Left = 0 => read_pos = 0 /\ read_buf = <<>>
  BY <1>1, <1>2, <1>3
<1> DEFINE S == 0..arrived
           f == FromReadBuf(n)
<1>5. 0 \in S /\ read_buf \in Seq(S)
  BY Bounds DEF TypeOK
<1> HIDE DEF S
<1>6. Len(f) = n /\ \A k \in 1..n : f[k] = read_buf[read_pos + k]
  BY <1>1, <1>3, <1>5, ChunkType
<1> HIDE DEF f
<1>7. ASSUME NEW k \in 1..n PROVE f[k] = Len(received) + k
  <2>1. read_pos + k \in 1..Len(read_buf)
    BY <1>1, <1>3
  <2>2. read_buf[read_pos + k] = (taken - Len(read_buf)) + (read_pos + k)
    BY <1>2, <2>1 DEF Follows
  <2>3. (taken - Len(read_buf)) + (read_pos + k) = Len(received) + k
    BY <1>1, <1>2
  <2> QED BY <1>6, <2>2, <2>3
<1> QED BY <1>1, <1>2, <1>3, <1>4, <1>6, <1>7 DEF f, Follows

\* The bytes b that a call returns follow the ones returned before.
LEMMA ReturnFollows ==
    ASSUME TypeOK, NEW b \in Seq(0..arrived), NEW n, n = Len(b), Return(b, n),
           Follows(received, 0), Follows(b, Len(received))
    PROVE  /\ Follows(received', 0) /\ Len(received') = Len(received) + n
           /\ pc' = "idle" /\ buf' = <<>>
<1> DEFINE S == 0..arrived
<1>1. 0 \in S /\ received \in Seq(S) /\ b \in Seq(S) /\ Len(received) \in Nat
  BY Bounds DEF TypeOK
<1> HIDE DEF S
<1>2. n \in Nat
  BY <1>1, LenProperties
<1>3. received' = received \o b /\ Len(received') = Len(received) + n /\ pc' = "idle" /\ buf' = <<>>
  BY <1>1, <1>2, ReturnType
<1>4. 0 + Len(received) = Len(received) /\ 0 \in Nat
  BY <1>1
<1>5. Follows(received \o b, 0)
  BY <1>1, <1>4, FollowsConcat
<1> QED BY <1>3, <1>5

\* read() returns the next bytes, or waits for them with read_buf empty.
LEMMA ReadReadInv ==
    ASSUME TypeOK, ReadInv, NEW size \in Sizes, Read(size) PROVE ReadInv'
<1> DEFINE grab == Left # 0
           s == AtMost(Left, size)
           chunk == FromReadBuf(s)
           rest == size - s
           kept == IF grab /\ read_pos + s = Len(read_buf) THEN <<>> ELSE read_buf
           S == 0..arrived
<1> SUFFICES ASSUME only_read PROVE ReadInv'
  BY DEF Read, ReadInv
<1>1. size \in Nat /\ s \in Nat /\ s <= size /\ s <= Left /\ rest \in Nat /\ (rest # 0 => s = Left)
  BY SizesAssumption, Bounds DEF AtMost
<1>2. /\ Left = Len(read_buf) - read_pos /\ Len(received) + Left = taken
      /\ Left = 0 => read_pos = 0 /\ read_buf = <<>>
      /\ Follows(chunk, Len(received))
  BY <1>1, ChunkFollows DEF Read
<1>3. /\ read_pos \in Nat /\ Len(read_buf) \in Nat /\ Len(received) \in Nat /\ taken \in Nat
      /\ arrived \in Nat /\ Len(<<>>) = 0 /\ Left \in Nat
      /\ Follows(received, 0) /\ Follows(read_buf, taken - Len(read_buf))
  BY Bounds, EmptySeq DEF TypeOK, ReadInv, Read
<1>4. chunk \in Seq(S) /\ Len(chunk) = s
  <2>1. 0 \in S /\ read_buf \in Seq(S)
    BY Bounds DEF TypeOK
  <2> HIDE DEF S
  <2> QED BY <1>1, <1>3, <2>1, ChunkType
<1>5. read_pos' = (IF grab THEN (IF read_pos + s = Len(read_buf) THEN 0 ELSE read_pos + s)
                   ELSE read_pos)
  BY DEF Read, ReadPosAfter
<1>6. \A n : Follows(<<>>, n)
  BY <1>3 DEF Follows
<1> HIDE DEF chunk, s, rest, S
<1>7. CASE grab /\ rest = 0 /\ read_buf' = kept /\ Return(chunk, s) /\ taken' = taken
  <2>1. /\ Follows(received', 0) /\ Len(received') = Len(received) + s /\ pc' = "idle"
    BY <1>2, <1>3, <1>4, <1>7, ReturnFollows DEF S
  <2>2. CASE read_pos + s = Len(read_buf)
    <3>1. read_buf' = <<>> /\ read_pos' = 0
      BY <1>5, <1>7, <2>2
    <3>2. Len(received') + (Len(read_buf') - read_pos') = taken'
      BY <1>1, <1>2, <1>3, <1>7, <2>1, <2>2, <3>1
    <3>3. Follows(read_buf', taken' - Len(read_buf'))
      BY <1>6, <3>1
    <3> QED BY <2>1, <3>1, <3>2, <3>3 DEF ReadInv
  <2>3. CASE read_pos + s # Len(read_buf)
    <3>1. read_buf' = read_buf /\ read_pos' = read_pos + s
      BY <1>5, <1>7, <2>3
    <3>2. /\ Len(received') + (Len(read_buf') - read_pos') = taken'
          /\ read_pos' < Len(read_buf')
      <4>1. /\ (Len(received) + s) + (Len(read_buf) - (read_pos + s)) = taken
            /\ read_pos + s < Len(read_buf)
        BY <1>1, <1>2, <1>3, <2>3
      <4> QED BY <1>7, <2>1, <3>1, <4>1
    <3>3. Follows(read_buf', taken' - Len(read_buf'))
      BY <1>3, <1>7, <3>1
    <3> QED BY <2>1, <3>2, <3>3 DEF ReadInv
  <2> QED BY <2>2, <2>3
<1>8. ASSUME ~(grab /\ rest = 0)
      PROVE  s = Left /\ read_pos' = 0 /\ kept = <<>>
  <2>1. s = Left
    BY <1>1, <1>3, <1>8
  <2> QED BY <1>1, <1>2, <1>3, <1>5, <2>1
<1>9. CASE /\ ~(grab /\ rest = 0) /\ Available >= rest /\ read_buf' = Excess(rest)
           /\ taken' = arrived /\ Return(chunk \o Bytes(taken, taken + rest), size)
  <2> DEFINE t == Bytes(taken, taken + rest)
             b == chunk \o t
  <2>1. rest <= Available /\ Available = arrived - taken
    BY <1>1, <1>9, Bounds
  <2>2. /\ read_buf' \in Seq(S) /\ Len(read_buf') = arrived - (taken + rest)
        /\ Follows(read_buf', taken + rest)
        /\ rest = Available => read_buf' = <<>>
        /\ t \in Seq(S) /\ Follows(t, taken)
        /\ b \in Seq(S) /\ Len(b) = s + rest
    BY <1>1, <1>4, <1>9, <2>1, KernelBytes DEF S
  <2>3. s + rest = size /\ Len(received) + s = taken /\ s = Left /\ read_pos' = 0
    BY <1>1, <1>2, <1>8, <1>9 DEF rest
  <2> HIDE DEF t
  <2>4. Follows(b, Len(received))
    <3>1. Follows(t, Len(received) + Len(chunk))
      BY <1>4, <2>2, <2>3
    <3> QED BY <1>2, <1>3, <1>4, <2>2, <3>1, FollowsConcat
  <2>5. Return(b, size) /\ size = Len(b) /\ b \in Seq(0..arrived)
    BY <1>9, <2>2, <2>3 DEF t, S
  <2> HIDE DEF b
  <2>6. Follows(received', 0) /\ Len(received') = Len(received) + size /\ pc' = "idle"
    BY <1>3, <2>4, <2>5, ReturnFollows
  <2>7. /\ Len(received') + (Len(read_buf') - read_pos') = taken'
        /\ taken' - Len(read_buf') = taken + rest
    <3>1. /\ (Len(received) + size) + ((arrived - (taken + rest)) - 0) = arrived
          /\ arrived - (arrived - (taken + rest)) = taken + rest
      BY <1>1, <1>3, <2>3
    <3> QED BY <1>9, <2>2, <2>3, <2>6, <3>1
  <2>8. read_pos' < Len(read_buf') \/ (read_pos' = 0 /\ read_buf' = <<>>)
    BY <1>1, <1>3, <2>1, <2>2, <2>3
  <2> QED BY <2>2, <2>6, <2>7, <2>8 DEF ReadInv
<1>10. CASE /\ ~(grab /\ rest = 0) /\ read_buf' = kept /\ pc' = "read" /\ buf' = chunk
            /\ taken' = taken /\ received' = received
  <2>1. read_buf' = <<>> /\ read_pos' = 0 /\ s = Left
    BY <1>8, <1>10
  <2>2. Len(received') + Len(buf') = taken' /\ Follows(buf', Len(received'))
    BY <1>2, <1>4, <1>10, <2>1
  <2> QED BY <1>3, <1>10, <2>1, <2>2 DEF ReadInv
<1> QED BY <1>7, <1>9, <1>10 DEF Read, s, chunk, rest

\* The bytes that read() has waited for come behind those it had.
LEMMA ReadDoneReadInv == ASSUME TypeOK, ReadInv, ReadDone PROVE ReadInv'
<1> SUFFICES ASSUME only_read PROVE ReadInv'
  BY DEF ReadDone, ReadInv
<1> DEFINE t == Bytes(taken, taken + want)
           b == buf \o t
           S == 0..arrived
<1>1. /\ taken' = taken + want /\ Return(b, Len(buf) + want)
      /\ UNCHANGED <<read_buf, read_pos>>
  BY DEF ReadDone
<1>2. /\ read_buf = <<>> /\ Len(received) + Len(buf) = taken /\ Follows(buf, Len(received))
      /\ Follows(received, 0)
      /\ read_pos < Len(read_buf) \/ (read_pos = 0 /\ read_buf = <<>>)
  BY DEF ReadDone, ReadInv
<1>3. /\ read_pos \in Nat /\ want \in Nat /\ want <= Available /\ Len(<<>>) = 0
      /\ Len(buf) \in Nat /\ Len(received) \in Nat /\ taken \in Nat /\ buf \in Seq(S)
  BY Bounds, EmptySeq DEF ReadDone, TypeOK
<1>4. t \in Seq(S) /\ Follows(t, taken) /\ b \in Seq(S) /\ Len(b) = Len(buf) + want
  BY <1>3, KernelBytes
<1> HIDE DEF t, S
<1>5. Follows(b, Len(received))
  <2>1. Follows(t, Len(received) + Len(buf))
    BY <1>2, <1>4
  <2> QED BY <1>2, <1>3, <1>4, <2>1, FollowsConcat
<1> HIDE DEF b
<1>6. /\ Follows(received', 0) /\ Len(received') = Len(received) + (Len(buf) + want)
      /\ pc' = "idle"
  BY <1>1, <1>2, <1>4, <1>5, ReturnFollows DEF S
<1>7. read_pos = 0
  BY <1>2, <1>3
<1>8. Len(received') + (Len(read_buf') - read_pos') = taken'
  BY <1>1, <1>2, <1>3, <1>6, <1>7
<1>9. Follows(read_buf', taken' - Len(read_buf'))
  BY <1>1, <1>2, <1>3 DEF Follows
<1> QED BY <1>1, <1>2, <1>6, <1>7, <1>8, <1>9 DEF ReadInv

\* Every step keeps the invariant.
LEMMA NextIInv == IInv /\ [Next]_vars => IInv'
<1> SUFFICES ASSUME IInv, [Next]_vars PROVE IInv'
  OBVIOUS
<1>1. TypeOK /\ ReadInv /\ TypeOK'
  BY NextType DEF IInv
<1>2. CASE \E size \in Sizes : Read(size)
  BY <1>1, <1>2, ReadReadInv DEF IInv
<1>3. CASE \E size \in Sizes : ReadSome(size)
  BY <1>1, <1>3 DEF ReadSome, ReadInv, IInv
<1>4. CASE ReadDone
  BY <1>1, <1>4, ReadDoneReadInv DEF IInv
<1>5. CASE ReadSomeDone
  BY <1>1, <1>5 DEF ReadSomeDone, ReadInv, IInv
<1>6. CASE ReadFails
  BY <1>1, <1>6 DEF ReadFails, ReadInv, IInv
<1>7. CASE Arrive \/ Close \/ UNCHANGED vars
  BY <1>1, <1>7 DEF Arrive, Close, vars, ReadInv, IInv
<1> QED BY <1>2, <1>3, <1>4, <1>5, <1>6, <1>7 DEF Next

\* The inductive invariant holds in every state.
THEOREM Invariance == Spec => []IInv
BY InitIInv, NextIInv, PTL DEF Spec

-----------------------------------------------------------------------------
(* The theorems *)

\* Neither read_buf nor the caller's buffer holds a byte before it has arrived, after
\* any calls of read() and read_some().
THEOREM TypeCorrect == Spec => []TypeOK
<1>1. IInv => TypeOK
  BY DEF IInv
<1> QED BY <1>1, Invariance, PTL

\* What the calls of read() return is the stream, in order, without gaps or repetitions.
THEOREM ReadReturnsTheStream == Spec => []StreamInOrder
<1>1. IInv => StreamInOrder
  <2> SUFFICES ASSUME IInv, only_read, NEW i \in DOMAIN received PROVE received[i] = i
    BY DEF StreamInOrder
  <2>1. i \in 1..Len(received) /\ Len(received) \in Nat
    BY LenProperties DEF IInv, TypeOK
  <2>2. received[i] = 0 + i
    BY <2>1 DEF IInv, ReadInv, Follows
  <2> QED BY <2>1, <2>2
<1> QED BY <1>1, Invariance, PTL
=============================================================================
