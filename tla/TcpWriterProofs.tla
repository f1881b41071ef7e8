-------------------------- MODULE TcpWriterProofs --------------------------
(***************************************************************************)
(* Proofs about TcpWriter, for any sizes of the writes and any bounds: the *)
(* two buffers and the wire hold what write() accepted, in order, a buffer *)
(* in flight is not written to, and a flush() that returns and a           *)
(* destructor that frees the buffers come after the last byte.             *)
(***************************************************************************)
EXTENDS TcpWriter, SequenceTheorems, TLAPS

\* The task write_loop, the buffers and the future: without the task both
\* buffers are empty and the future is there with its value; with it the two
\* sides have one buffer each, and the future has no value.
LoopInv ==
    /\ loop = "none" =>
         /\ cur_write_buf = NULL /\ sent = 0
         /\ write_buf[0] = <<>> /\ write_buf[1] = <<>>
         /\ write_complete # 0 => m_value[write_complete]
    /\ loop # "none" =>
         /\ cur_write_buf = OtherBuf(write_buf_idx)
         /\ write_complete # 0 /\ ~m_value[write_complete]
    /\ loop = "posted" => sent = 0
    /\ loop \in {"sending", "failed"} => size = Len(write_buf[write_buf_idx])
    /\ \A k \in 1..MaxLoops : m_value[k] => k <= write_complete
    /\ \A k \in 1..MaxLoops : m_error[k] => loop = "failed" /\ k = write_complete

\* flush(): who waits, waits for the promise of the task that is there; who was
\* woken was woken by the end of that task, after the last byte, or by its failure.
FlushInv ==
    /\ flush = "waiting" => flush_prom = write_complete /\ loop # "none"
    /\ flush = "resumed" =>
         \/ flush_mark <= Len(wire)
         \/ flush_prom = write_complete /\ write_complete # 0 /\ m_error[write_complete]
    /\ flush = "resumed" => flush_prom # 0
    /\ flush = "ok" => flush_mark <= Len(wire)

\* The destructor's flush() is the last call: nothing is written after it, so
\* when it is over the task is over too.
LifeInv ==
    life # "alive" =>
        /\ flush_prom = write_complete
        /\ flush_mark = accepted
        /\ flush # "idle"
        /\ flush \in {"resumed", "ok", "thrown"} => loop \in {"none", "failed"}
        /\ life = "gone" => flush \in {"ok", "thrown"}

\* The inductive invariant.
IInv == TypeOK /\ Conservation /\ LoopInv /\ FlushInv /\ LifeInv

-----------------------------------------------------------------------------
(* Operators *)

\* (i + 1) % 2 swaps the two indices.
LEMMA OtherBufSwaps == OtherBuf(0) = 1 /\ OtherBuf(1) = 0
BY DEF OtherBuf

\* The bytes of one write() follow those of the writes before it.
LEMMA BytesFollow ==
    ASSUME NEW a \in Nat, NEW n \in Nat
    PROVE  /\ Bytes(a, a + n) \in Seq(1..(a + n))
           /\ Len(Bytes(a, a + n)) = n
           /\ Bytes(0, a) \in Seq(1..a)
           /\ Len(Bytes(0, a)) = a
           /\ Bytes(0, a) \o Bytes(a, a + n) = Bytes(0, a + n)
<1> DEFINE s == Bytes(0, a)
           t == Bytes(a, a + n)
           u == Bytes(0, a + n)
<1>1. /\ s \in Seq(1..(a + n)) /\ s \in Seq(1..a)
      /\ Len(s) = a /\ \A k \in 1..a : s[k] = k
  BY DEF Bytes
<1>2. t \in Seq(1..(a + n)) /\ Len(t) = n /\ \A k \in 1..n : t[k] = a + k
  BY DEF Bytes
<1>3. u \in Seq(1..(a + n)) /\ Len(u) = a + n /\ \A k \in 1..(a + n) : u[k] = k
  BY DEF Bytes
<1> HIDE DEF s, t, u
<1>4. /\ s \o t \in Seq(1..(a + n))
      /\ Len(s \o t) = Len(s) + Len(t)
      /\ \A k \in 1..(Len(s) + Len(t)) :
            (s \o t)[k] = IF k <= Len(s) THEN s[k] ELSE t[k - Len(s)]
  <2>1. s \in Seq(1..(a + n)) /\ t \in Seq(1..(a + n))
    BY <1>1, <1>2
  <2> QED BY <2>1, ConcatProperties
<1>5. ASSUME NEW k \in 1..(a + n) PROVE (s \o t)[k] = u[k]
  <2>1. (s \o t)[k] = IF k <= a THEN s[k] ELSE t[k - a]
    BY <1>1, <1>2, <1>4
  <2>2. CASE k <= a
    BY <2>1, <2>2, <1>1, <1>3
  <2>3. CASE ~(k <= a)
    <3>1. k - a \in 1..n
      BY <2>3
    <3>2. t[k - a] = a + (k - a)
      BY <3>1, <1>2
    <3>3. a + (k - a) = k /\ ~(k <= a)
      BY <2>3
    <3>4. u[k] = k
      BY <1>3
    <3> QED BY <2>1, <3>2, <3>3, <3>4
  <2> QED BY <2>2, <2>3
<1>6. s \o t = u
  <2>1. Len(s \o t) = Len(u)
    BY <1>1, <1>2, <1>3, <1>4
  <2>2. \A k \in 1..Len(s \o t) : (s \o t)[k] = u[k]
    BY <2>1, <1>3, <1>5
  <2> QED BY <1>3, <1>4, <2>1, <2>2, SeqEqual
<1> QED BY <1>1, <1>2, <1>6 DEF s, t, u

\* What the kernel has not taken of a buffer of which it took j bytes.
LEMMA RestOfBuffer ==
    ASSUME NEW S, NEW b \in Seq(S), NEW j \in 0..Len(b)
    PROVE  /\ SubSeq(b, j + 1, Len(b)) \in Seq(S)
           /\ Len(SubSeq(b, j + 1, Len(b))) = Len(b) - j
           /\ j = 0 => SubSeq(b, j + 1, Len(b)) = b
           /\ j = Len(b) => SubSeq(b, j + 1, Len(b)) = <<>>
<1>1. Len(b) \in Nat /\ j \in Nat /\ \A i \in 1..Len(b) : b[i] \in S
  BY LenProperties, ElementOfSeq
<1>2. /\ SubSeq(b, j + 1, Len(b)) \in Seq(S)
      /\ Len(SubSeq(b, j + 1, Len(b))) = Len(b) - j
  <2>1. \A i \in (j + 1)..Len(b) : b[i] \in S
    BY <1>1
  <2>2. j + 1 \in Int /\ Len(b) \in Int
    BY <1>1
  <2>3. Len(SubSeq(b, j + 1, Len(b))) = IF j + 1 <= Len(b) THEN Len(b) - (j + 1) + 1 ELSE 0
    BY <2>1, <2>2, SubSeqProperties
  <2> QED BY <1>1, <2>1, <2>2, <2>3, SubSeqProperties
<1>3. j = 0 => SubSeq(b, j + 1, Len(b)) = b
  BY SubSeqFull
<1>4. j = Len(b) => SubSeq(b, j + 1, Len(b)) = <<>>
  BY <1>1, SubSeqEmpty
<1> QED BY <1>2, <1>3, <1>4

\* Bytes written behind those in the buffer being filled stand behind all others.
LEMMA WrittenBehind ==
    ASSUME NEW S, NEW w \in Seq(S), NEW r \in Seq(S), NEW f \in Seq(S), NEW x \in Seq(S)
    PROVE  (w \o r) \o (f \o x) = ((w \o r) \o f) \o x
<1> DEFINE p == w \o r
<1>1. p \in Seq(S)
  BY ConcatProperties
<1> HIDE DEF p
<1>2. (p \o f) \o x = p \o (f \o x)
  BY SMTT(60), <1>1, ConcatAssociative
<1> QED BY <1>2 DEF p

\* n bytes that the kernel takes leave the buffer and join the wire.
LEMMA TakenJoinWire ==
    ASSUME NEW S, NEW w \in Seq(S), NEW b \in Seq(S), NEW j \in 0..Len(b),
           NEW n \in 0..(Len(b) - j)
    PROVE  /\ SubSeq(b, j + 1, j + n) \in Seq(S)
           /\ (w \o SubSeq(b, j + 1, j + n)) \o SubSeq(b, (j + n) + 1, Len(b))
                 = w \o SubSeq(b, j + 1, Len(b))
<1> DEFINE part == SubSeq(b, j + 1, j + n)
           rest == SubSeq(b, (j + n) + 1, Len(b))
<1>1. /\ Len(b) \in Nat /\ \A i \in 1..Len(b) : b[i] \in S
  BY LenProperties, ElementOfSeq
<1>2. /\ j \in Nat /\ n \in Nat /\ j + n \in 0..Len(b)
      /\ j + 1 \in 1..(Len(b) + 1)
      /\ j + n \in (j + 1) - 1 .. Len(b)
      /\ Len(b) \in (j + n)..Len(b)
      /\ j + n \in Int /\ j + 1 \in Int
  BY <1>1
<1>3. rest \in Seq(S)
  BY <1>2, RestOfBuffer
<1>4. part \in Seq(S)
  <2>1. \A i \in (j + 1)..(j + n) : b[i] \in S
    BY <1>1, <1>2
  <2> QED BY <1>2, <2>1, SubSeqProperties
<1>5. part \o rest = SubSeq(b, j + 1, Len(b))
  BY <1>2, ConcatAdjacentSubSeq
<1>6. (w \o part) \o rest = w \o (part \o rest)
  <2> HIDE DEF part, rest
  <2> QED BY <1>3, <1>4, ConcatAssociative
<1> QED BY <1>4, <1>5, <1>6

-----------------------------------------------------------------------------
(* The inductive invariant *)

\* How much of what write() accepted is where.
LEMMA Lengths ==
    ASSUME IInv
    PROVE  /\ sent \in 0..Len(write_buf[write_buf_idx])
           /\ Len(wire) <= accepted
           /\ loop = "none" => Len(wire) = accepted
           /\ cur_write_buf # NULL => Len(write_buf[cur_write_buf]) <= accepted
           /\ loop = "posted" => Len(write_buf[write_buf_idx]) <= accepted
           /\ Len(wire) \in Nat
<1> DEFINE b == write_buf[write_buf_idx]
           rest == SubSeq(b, sent + 1, Len(b))
           fill == IF cur_write_buf = NULL THEN <<>> ELSE write_buf[cur_write_buf]
<1>1. /\ b \in Seq(1..accepted) /\ fill \in Seq(1..accepted) /\ wire \in Seq(1..accepted)
      /\ accepted \in Nat /\ sent \in Nat /\ sent <= size
  <2>1. <<>> \in Seq(1..accepted)
    BY EmptySeq
  <2>2. fill \in Seq(1..accepted)
    BY <2>1 DEF IInv, TypeOK
  <2>3. b \in Seq(1..accepted) /\ wire \in Seq(1..accepted)
    BY DEF IInv, TypeOK
  <2>4. accepted \in Nat /\ sent \in Nat /\ sent <= size
    BY BoundAssumption DEF IInv, TypeOK
  <2> QED BY <2>2, <2>3, <2>4
<1>2. wire \o rest \o fill = Bytes(0, accepted)
  BY DEF IInv, Conservation
<1>3. sent \in 0..Len(b)
  <2>1. Len(b) \in Nat
    BY <1>1, LenProperties
  <2>2. CASE loop \in {"none", "posted"}
    BY <2>1, <2>2 DEF IInv, LoopInv
  <2>3. CASE loop \in {"sending", "failed"}
    BY <2>1, <2>3, <1>1 DEF IInv, LoopInv
  <2> QED BY <2>2, <2>3 DEF IInv, TypeOK
<1>4. rest \in Seq(1..accepted) /\ Len(rest) = Len(b) - sent
  BY <1>1, <1>3, RestOfBuffer
<1>5. Len(Bytes(0, accepted)) = accepted
  BY <1>1, BytesFollow
<1> HIDE DEF rest, b, fill
<1>6. wire \o rest \in Seq(1..accepted) /\ Len(wire \o rest) = Len(wire) + Len(rest)
  BY <1>1, <1>4, ConcatProperties
<1>7. Len(wire \o rest \o fill) = Len(wire \o rest) + Len(fill)
  BY <1>1, <1>6, ConcatProperties
<1>8. /\ Len(wire) + (Len(b) - sent) + Len(fill) = accepted
      /\ Len(wire) \in Nat /\ Len(b) \in Nat /\ Len(fill) \in Nat
  BY <1>1, <1>2, <1>4, <1>5, <1>6, <1>7, LenProperties
<1>9. loop = "none" => Len(b) = 0 /\ sent = 0 /\ Len(fill) = 0
  BY DEF IInv, LoopInv, TypeOK, b, fill
<1>10. cur_write_buf # NULL => fill = write_buf[cur_write_buf]
  BY DEF fill
<1>11. loop = "posted" => sent = 0
  BY DEF IInv, LoopInv
<1> QED BY SMTT(60), <1>1, <1>3, <1>8, <1>9, <1>10, <1>11 DEF b

\* A socket as constructed satisfies the inductive invariant.
LEMMA InitIInv == Init => IInv
<1> SUFFICES ASSUME Init PROVE IInv
  OBVIOUS
<1>1. TypeOK
  BY BoundAssumption, EmptySeq DEF Init, TypeOK
<1>2. Conservation
  <2>1. SubSeq(<<>>, 0 + 1, Len(<<>>)) = <<>>
    BY EmptySeq, SubSeqEmpty
  <2>2. Bytes(0, 0) = <<>>
    BY DEF Bytes
  <2>3. <<>> \o <<>> \o <<>> = <<>>
    BY EmptySeq, ConcatEmptySeq
  <2> QED BY <2>1, <2>2, <2>3 DEF Init, Conservation
<1>3. LoopInv /\ FlushInv /\ LifeInv
  BY BoundAssumption DEF Init, LoopInv, FlushInv, LifeInv
<1> QED BY <1>1, <1>2, <1>3 DEF IInv

\* write() without a write_loop: the bytes go to the first buffer, for the new task.
LEMMA WriteFirstIInv ==
    ASSUME IInv, NEW n \in Sizes, WriteFirst(n)
    PROVE  IInv'
<1> USE DEF WriteFirst, flushVars
<1>1. /\ n \in Nat \ {0} /\ accepted \in Nat /\ accepted' = accepted + n
      /\ accepted' \in 0..MaxBytes /\ 1..accepted \subseteq 1..accepted'
  BY SizesAssumption, BoundAssumption DEF IInv, TypeOK
<1>2. loop = "none"
  BY NullAssumption DEF IInv, LoopInv, OtherBuf, TypeOK
<1> DEFINE new == Bytes(accepted, accepted + n)
<1>3. /\ new \in Seq(1..accepted') /\ Bytes(0, accepted) \o new = Bytes(0, accepted')
  BY <1>1, BytesFollow
<1>4. write_buf[0] = <<>> /\ write_buf[1] = <<>> /\ sent = 0
  BY <1>2 DEF IInv, LoopInv
<1>5. /\ write_buf' = [write_buf EXCEPT ![0] = <<>> \o new]
      /\ <<>> \o new = new
  BY <1>3, <1>4, ConcatEmptySeq
<1> HIDE DEF new
<1>6. write_buf'[0] = new /\ write_buf'[1] = <<>>
  BY <1>4, <1>5 DEF IInv, TypeOK
<1>7. wire \in Seq(1..accepted') /\ <<>> \in Seq(1..accepted')
  BY <1>1, SeqMonotonic, EmptySeq DEF IInv, TypeOK
<1>8. wire = Bytes(0, accepted)
  <2>1. write_buf_idx \in {0, 1} /\ write_buf[write_buf_idx] = <<>>
    BY <1>4 DEF IInv, TypeOK
  <2>2. SubSeq(<<>>, 0 + 1, Len(<<>>)) = <<>>
    BY EmptySeq, SubSeqEmpty
  <2>3. wire \o <<>> \o <<>> = wire
    BY <1>7, ConcatEmptySeq
  <2>4. cur_write_buf = NULL
    OBVIOUS
  <2> QED BY <1>4, <2>1, <2>2, <2>3, <2>4 DEF IInv, Conservation
<1>9. TypeOK'
  <2>1. write_buf' \in [{0, 1} -> Seq(1..accepted')]
    BY <1>3, <1>5, <1>6, <1>7 DEF IInv, TypeOK
  <2>2. write_complete' \in 0..MaxLoops /\ flush_prom' \in 0..write_complete'
    BY BoundAssumption DEF IInv, TypeOK
  <2>3. flush_mark' \in 0..accepted'
    BY <1>1 DEF IInv, TypeOK
  <2> QED BY <1>1, <1>7, <2>1, <2>2, <2>3, OtherBufSwaps DEF IInv, TypeOK
<1>10. Conservation'
  <2>1. SubSeq(new, 0 + 1, Len(new)) = new
    BY <1>3, SubSeqFull
  <2>2. wire \o new \o <<>> = Bytes(0, accepted')
    <3>1. wire \o new \in Seq(1..accepted')
      BY <1>3, <1>7, ConcatProperties
    <3> QED BY <1>3, <1>8, <3>1, ConcatEmptySeq
  <2>3. cur_write_buf' = 1 /\ write_buf_idx' = 0 /\ sent' = 0 /\ wire' = wire
    BY <1>4, OtherBufSwaps
  <2> QED BY <1>6, <2>1, <2>2, <2>3, NullAssumption DEF Conservation
<1>11. LoopInv'
  <2>1. write_complete \in 0..MaxLoops /\ write_complete' \in 1..MaxLoops
        /\ write_complete < write_complete'
    BY BoundAssumption DEF IInv, TypeOK
  <2>2. ~m_value[write_complete']
    BY <2>1 DEF IInv, LoopInv
  <2>3. \A k \in 1..MaxLoops : ~m_error[k]
    BY <1>2 DEF IInv, LoopInv
  <2>4. \A k \in 1..MaxLoops : m_value[k] => k <= write_complete'
    BY <2>1 DEF IInv, LoopInv
  <2> QED BY <1>4, <2>1, <2>2, <2>3, <2>4 DEF LoopInv
<1>12. FlushInv'
  BY <1>2 DEF IInv, FlushInv, LoopInv, TypeOK
<1>13. LifeInv'
  BY DEF IInv, LifeInv
<1> QED BY <1>9, <1>10, <1>11, <1>12, <1>13 DEF IInv

\* write() beside a write_loop, also a failed one whose error was taken: the
\* bytes go behind those that wait in the other buffer.
LEMMA WriteMoreIInv ==
    ASSUME IInv, NEW n \in Sizes, WriteMore(n)
    PROVE  IInv'
<1> USE DEF WriteMore, flushVars, loopVars, promVars
<1>1. /\ n \in Nat \ {0} /\ accepted \in Nat /\ accepted' = accepted + n
      /\ accepted' \in 0..MaxBytes /\ 1..accepted \subseteq 1..accepted'
  BY SizesAssumption, BoundAssumption DEF IInv, TypeOK
<1>2. loop # "none"
  BY DEF IInv, LoopInv
<1> DEFINE new == Bytes(accepted, accepted + n)
           b == write_buf[write_buf_idx]
           rest == SubSeq(b, sent + 1, Len(b))
           fill == write_buf[cur_write_buf]
<1>3. /\ new \in Seq(1..accepted') /\ Bytes(0, accepted) \o new = Bytes(0, accepted')
  BY <1>1, BytesFollow
<1>4. /\ write_buf_idx \in {0, 1} /\ cur_write_buf \in {0, 1}
      /\ write_buf_idx # cur_write_buf
  BY <1>2, OtherBufSwaps DEF IInv, TypeOK, LoopInv
<1>5. write_buf' = [write_buf EXCEPT ![cur_write_buf] = fill \o new]
  OBVIOUS
<1> HIDE DEF new
<1>6. b \in Seq(1..accepted') /\ fill \in Seq(1..accepted') /\ wire \in Seq(1..accepted')
  <2>1. b \in Seq(1..accepted) /\ fill \in Seq(1..accepted) /\ wire \in Seq(1..accepted)
    BY <1>4 DEF IInv, TypeOK
  <2> QED BY <2>1, <1>1, SeqMonotonic
<1>7. fill \o new \in Seq(1..accepted')
  BY <1>3, <1>6, ConcatProperties
<1>8. sent \in 0..Len(b) /\ rest \in Seq(1..accepted')
  BY <1>6, Lengths, RestOfBuffer
<1>9. write_buf'[write_buf_idx] = b /\ write_buf'[cur_write_buf] = fill \o new
  BY <1>4, <1>5 DEF IInv, TypeOK
<1>10. TypeOK'
  <2>1. write_buf' \in [{0, 1} -> Seq(1..accepted')]
    <3>1. \A i \in {0, 1} : write_buf'[i] \in Seq(1..accepted')
      BY <1>4, <1>6, <1>7, <1>9
    <3>2. write_buf' = [i \in {0, 1} |-> write_buf'[i]]
      BY <1>5 DEF IInv, TypeOK
    <3> QED BY <3>1, <3>2
  <2>2. flush_mark' \in 0..accepted'
    BY <1>1 DEF IInv, TypeOK
  <2> QED BY <1>1, <1>6, <2>1, <2>2 DEF IInv, TypeOK
<1>11. Conservation'
  <2>1. wire \o rest \o fill = Bytes(0, accepted)
    BY DEF IInv, Conservation
  <2>2. wire \o rest \o (fill \o new) = Bytes(0, accepted')
    <3> DEFINE S == 1..accepted'
    <3> HIDE DEF b, rest, fill, S
    <3>1. wire \in Seq(S) /\ rest \in Seq(S) /\ fill \in Seq(S) /\ new \in Seq(S)
      BY <1>3, <1>6, <1>8 DEF S
    <3>2. (wire \o rest) \o (fill \o new) = ((wire \o rest) \o fill) \o new
      BY SMTT(60), <3>1, WrittenBehind
    <3> QED BY <1>3, <2>1, <3>2
  <2>3. /\ cur_write_buf' = cur_write_buf /\ write_buf_idx' = write_buf_idx
        /\ sent' = sent /\ wire' = wire /\ cur_write_buf # NULL
    OBVIOUS
  <2> QED BY <1>9, <2>2, <2>3 DEF Conservation
<1>12. LoopInv'
  BY <1>2, <1>9 DEF IInv, LoopInv
<1>13. FlushInv' /\ LifeInv'
  BY DEF IInv, FlushInv, LifeInv
<1> QED BY <1>10, <1>11, <1>12, <1>13 DEF IInv

\* write_loop begins: the size of its buffer is what it will send.
LEMMA LoopStartIInv ==
    ASSUME IInv, LoopStart
    PROVE  IInv'
<1> USE DEF LoopStart, bufVars, promVars, flushVars
<1>1. Len(write_buf[write_buf_idx]) \in 0..MaxBytes /\ sent = 0
  <2>1. Len(write_buf[write_buf_idx]) \in Nat
    BY LenProperties DEF IInv, TypeOK
  <2>2. Len(write_buf[write_buf_idx]) <= accepted
    BY Lengths
  <2> QED BY <2>1, <2>2, BoundAssumption DEF IInv, TypeOK, LoopInv
<1>2. TypeOK'
  BY <1>1 DEF IInv, TypeOK
<1>3. Conservation'
  BY <1>1 DEF IInv, Conservation
<1>4. LoopInv'
  BY DEF IInv, LoopInv
<1>5. FlushInv' /\ LifeInv'
  BY DEF IInv, FlushInv, LifeInv, LoopInv
<1> QED BY <1>2, <1>3, <1>4, <1>5 DEF IInv

\* The kernel takes bytes: they move from the buffer to the wire.
LEMMA KernelTakesIInv ==
    ASSUME IInv, KernelTakes
    PROVE  IInv'
<1> USE DEF KernelTakes, bufVars, promVars, flushVars
<1> DEFINE b == write_buf[write_buf_idx]
           rest == SubSeq(b, sent + 1, Len(b))
           fill == IF cur_write_buf = NULL THEN <<>> ELSE write_buf[cur_write_buf]
<1>1. PICK n \in 1..(size - sent) : /\ sent' = sent + n
                                    /\ wire' = wire \o SubSeq(b, sent + 1, sent + n)
  OBVIOUS
<1> DEFINE part == SubSeq(b, sent + 1, sent + n)
<1>2. /\ b \in Seq(1..accepted) /\ wire \in Seq(1..accepted)
      /\ size = Len(b) /\ sent \in 0..size /\ size \in Nat
  BY BoundAssumption DEF IInv, TypeOK, LoopInv
<1>3. n \in Nat /\ sent \in 0..Len(b) /\ n \in 0..(Len(b) - sent) /\ sent + n \in 0..size
  BY <1>2
<1>4. /\ part \in Seq(1..accepted)
      /\ (wire \o part) \o SubSeq(b, (sent + n) + 1, Len(b)) = wire \o rest
  <2> DEFINE S == 1..accepted
  <2>1. b \in Seq(S) /\ wire \in Seq(S)
    BY <1>2
  <2> HIDE DEF S, b
  <2>2. part \in Seq(S) /\ (wire \o part) \o SubSeq(b, (sent + n) + 1, Len(b)) = wire \o rest
    BY <1>3, <2>1, TakenJoinWire
  <2> QED BY <2>2 DEF S
<1>6. wire' \in Seq(1..accepted) /\ Len(wire') >= Len(wire) /\ Len(wire') \in Nat
  <2>1. wire \o part \in Seq(1..accepted) /\ Len(wire \o part) = Len(wire) + Len(part)
    BY <1>2, <1>4, ConcatProperties
  <2>2. Len(wire) \in Nat /\ Len(part) \in Nat
    BY <1>2, <1>4, LenProperties
  <2> QED BY <1>1, <2>1, <2>2
<1>7. TypeOK'
  BY <1>1, <1>3, <1>6 DEF IInv, TypeOK
<1>8. Conservation'
  <2>1. wire \o rest \o fill = Bytes(0, accepted)
    BY DEF IInv, Conservation
  <2>3. wire' \o SubSeq(b, sent' + 1, Len(b)) \o fill = Bytes(0, accepted)
    BY <1>1, <1>4, <2>1
  <2> QED BY <2>3 DEF Conservation
<1>9. LoopInv' /\ LifeInv'
  BY DEF IInv, LoopInv, LifeInv
<1>10. FlushInv'
  BY <1>2, <1>6, LenProperties DEF IInv, FlushInv, TypeOK
<1> QED BY <1>7, <1>8, <1>9, <1>10 DEF IInv

\* The whole buffer is on the wire and the other one is not empty: they change places.
LEMMA LoopNextIInv ==
    ASSUME IInv, LoopNext
    PROVE  IInv'
<1> USE DEF LoopNext, SwapBufs, promVars, flushVars
<1> DEFINE fill == write_buf[cur_write_buf]
           S == 1..accepted
<1>1. /\ write_buf_idx \in {0, 1} /\ cur_write_buf = OtherBuf(write_buf_idx)
      /\ cur_wbuf_idx = cur_write_buf /\ cur_write_buf \in {0, 1} /\ cur_write_buf # NULL
      /\ size = Len(write_buf[write_buf_idx])
  BY NullAssumption, OtherBufSwaps DEF IInv, TypeOK, LoopInv
<1>2. /\ write_buf_idx' = cur_write_buf /\ cur_write_buf' = write_buf_idx
      /\ cur_wbuf_idx' = write_buf_idx /\ cur_write_buf # write_buf_idx
  BY <1>1, OtherBufSwaps
<1>3. write_buf'[write_buf_idx] = <<>> /\ write_buf'[cur_write_buf] = fill
  BY <1>1, <1>2 DEF IInv, TypeOK
<1>4. fill \in Seq(S) /\ wire \in Seq(S) /\ <<>> \in Seq(S) /\ write_buf[write_buf_idx] \in Seq(S)
  BY <1>1, EmptySeq DEF IInv, TypeOK
<1>5. size' = Len(fill) /\ size' \in 0..MaxBytes
  <2>1. Len(fill) <= accepted
    BY <1>1, Lengths
  <2>2. Len(fill) \in Nat
    BY <1>4, LenProperties
  <2> QED BY <1>1, <2>1, <2>2, BoundAssumption DEF IInv, TypeOK
<1>6. TypeOK'
  <2>1. write_buf' \in [{0, 1} -> Seq(S)]
    BY <1>4 DEF IInv, TypeOK
  <2> QED BY <1>1, <1>2, <1>5, <2>1 DEF IInv, TypeOK
<1>7. Conservation'
  <2>1. SubSeq(write_buf[write_buf_idx], sent + 1, Len(write_buf[write_buf_idx])) = <<>>
    BY <1>1, <1>4, LenProperties, SubSeqEmpty
  <2>2. wire \o <<>> \o fill = Bytes(0, accepted)
    BY <1>1, <2>1 DEF IInv, Conservation
  <2>3. SubSeq(fill, 0 + 1, Len(fill)) = fill
    BY <1>4, SubSeqFull
  <2>4. wire \o fill \o <<>> = wire \o <<>> \o fill
    <3> HIDE DEF fill, S
    <3>1. wire \o <<>> = wire
      BY <1>4, ConcatEmptySeq
    <3>2. wire \o fill \in Seq(S)
      BY <1>4, ConcatProperties
    <3>3. (wire \o fill) \o <<>> = wire \o fill
      BY <3>2, ConcatEmptySeq
    <3> QED BY <3>1, <3>3
  <2> HIDE DEF fill
  <2>5. wire' \o SubSeq(fill, sent' + 1, Len(fill)) \o <<>> = Bytes(0, accepted')
    BY <2>2, <2>3, <2>4
  <2>6. write_buf'[write_buf_idx'] = fill /\ write_buf'[cur_write_buf'] = <<>>
    BY <1>2, <1>3
  <2> QED BY <2>5, <2>6 DEF Conservation
<1>8. LoopInv'
  <2>1. cur_write_buf' = OtherBuf(write_buf_idx')
    BY <1>1, <1>2, OtherBufSwaps
  <2>2. size' = Len(write_buf'[write_buf_idx'])
    BY <1>2, <1>3, <1>5
  <2> QED BY <2>1, <2>2 DEF IInv, LoopInv
<1>9. FlushInv' /\ LifeInv'
  BY DEF IInv, FlushInv, LifeInv
<1> QED BY <1>6, <1>7, <1>8, <1>9 DEF IInv

\* Both buffers are empty: the task ends, and who waits for it is woken.
LEMMA LoopEndIInv ==
    ASSUME IInv, LoopEnd
    PROVE  IInv'
<1> USE DEF LoopEnd, MoreToSend, NotifyFlush
<1> DEFINE S == 1..accepted
<1>1. /\ write_buf_idx \in {0, 1} /\ cur_write_buf = OtherBuf(write_buf_idx)
      /\ cur_write_buf \in {0, 1} /\ cur_write_buf # NULL /\ cur_write_buf # write_buf_idx
      /\ size = Len(write_buf[write_buf_idx])
      /\ write_complete \in 1..MaxLoops /\ write_complete \in Nat
  BY NullAssumption, BoundAssumption, OtherBufSwaps DEF IInv, TypeOK, LoopInv
<1>2. write_buf'[write_buf_idx] = <<>> /\ write_buf'[cur_write_buf] = <<>>
  BY <1>1 DEF IInv, TypeOK
<1>3. wire \in Seq(S) /\ <<>> \in Seq(S) /\ write_buf[write_buf_idx] \in Seq(S)
  BY <1>1, EmptySeq DEF IInv, TypeOK
<1>4. wire = Bytes(0, accepted)
  <2>1. SubSeq(write_buf[write_buf_idx], sent + 1, Len(write_buf[write_buf_idx])) = <<>>
    BY <1>1, <1>3, LenProperties, SubSeqEmpty
  <2>2. wire \o <<>> \o <<>> = Bytes(0, accepted)
    BY <1>1, <2>1 DEF IInv, Conservation
  <2>3. wire \o <<>> = wire
    BY <1>3, ConcatEmptySeq
  <2> QED BY <2>2, <2>3
<1>5. Len(wire) = accepted /\ flush_mark <= accepted
  BY <1>4, BytesFollow, BoundAssumption DEF IInv, TypeOK
<1>6. TypeOK'
  <2>1. write_buf' \in [{0, 1} -> Seq(S)]
    BY <1>3 DEF IInv, TypeOK
  <2>2. m_value' \in [1..MaxLoops -> BOOLEAN]
    BY DEF IInv, TypeOK
  <2>3. flush' \in {"idle", "waiting", "resumed", "ok", "thrown"}
    BY DEF IInv, TypeOK
  <2>4. size' \in 0..MaxBytes /\ sent' \in 0..size'
    BY BoundAssumption
  <2> QED BY <2>1, <2>2, <2>3, <2>4 DEF IInv, TypeOK
<1>7. Conservation'
  <2>1. SubSeq(<<>>, 0 + 1, Len(<<>>)) = <<>>
    BY EmptySeq, SubSeqEmpty
  <2>2. wire \o <<>> \o <<>> = wire
    BY <1>3, ConcatEmptySeq
  <2>3. wire' = wire /\ accepted' = accepted /\ sent' = 0 /\ cur_write_buf' = NULL
        /\ write_buf'[write_buf_idx'] = <<>>
    BY <1>2
  <2> QED BY <1>4, <2>1, <2>2, <2>3 DEF Conservation
<1>8. LoopInv'
  <2>1. m_value'[write_complete'] /\ m_value \in [1..MaxLoops -> BOOLEAN]
    BY <1>1 DEF IInv, TypeOK
  <2>2. write_buf'[0] = <<>> /\ write_buf'[1] = <<>>
    BY <1>1, <1>2
  <2>3. \A k \in 1..MaxLoops : m_value'[k] => k <= write_complete'
    BY <1>1, <2>1 DEF IInv, LoopInv
  <2> QED BY <2>1, <2>2, <2>3 DEF IInv, LoopInv
<1>9. FlushInv'
  <2>1. flush' = "waiting" => FALSE
    BY DEF IInv, FlushInv
  <2>2. flush' \in {"resumed", "ok"} => flush_mark' <= Len(wire')
    BY <1>5
  <2>3. flush' = "resumed" => flush_prom' # 0
    BY <1>1 DEF IInv, FlushInv
  <2> QED BY <2>1, <2>2, <2>3 DEF FlushInv
<1>10. LifeInv'
  BY DEF IInv, LifeInv, FlushInv
<1> QED BY <1>6, <1>7, <1>8, <1>9, <1>10 DEF IInv

\* asio::write throws: the buffers stay as they are, who waits for the task is woken.
LEMMA LoopFailsIInv ==
    ASSUME IInv, LoopFails
    PROVE  IInv'
<1> USE DEF LoopFails, NotifyFlush, bufVars
<1>1. write_complete \in 1..MaxLoops /\ m_error \in [1..MaxLoops -> BOOLEAN]
  BY BoundAssumption DEF IInv, TypeOK, LoopInv
<1>2. m_error' \in [1..MaxLoops -> BOOLEAN] /\ m_error'[write_complete]
  BY <1>1
<1>3. TypeOK'
  BY <1>2 DEF IInv, TypeOK
<1>4. Conservation'
  BY DEF IInv, Conservation
<1>5. LoopInv'
  BY <1>1 DEF IInv, LoopInv
<1>6. FlushInv'
  BY <1>1, <1>2 DEF IInv, FlushInv, LoopInv
<1>7. LifeInv'
  BY DEF IInv, LifeInv
<1> QED BY <1>3, <1>4, <1>5, <1>6, <1>7 DEF IInv

\* flush() is called, by a context or by the destructor: where it returns at
\* once there is nothing left to send.
LEMMA FlushEnterIInv ==
    ASSUME IInv, FlushEnter, life' \in {life, "closing"}
    PROVE  IInv'
<1> USE DEF FlushEnter, bufVars, loopVars, promVars
<1>1. /\ flush' = "ok" => loop = "none"
      /\ flush' = "thrown" => loop = "failed"
      /\ flush' = "waiting" => loop # "none"
      /\ flush' \in {"ok", "thrown", "waiting"}
  <2>1. write_complete # 0 => write_complete \in 1..MaxLoops
    BY BoundAssumption DEF IInv, TypeOK
  <2>2. CASE write_complete = 0
    BY <2>2 DEF FlushFirst, IInv, LoopInv
  <2>3. CASE write_complete # 0 /\ Error
    BY <2>1, <2>3 DEF FlushFirst, Error, IInv, LoopInv
  <2>4. CASE write_complete # 0 /\ ~Error /\ m_value[write_complete]
    BY <2>1, <2>4 DEF FlushFirst, IInv, LoopInv
  <2>5. CASE write_complete # 0 /\ ~Error /\ ~m_value[write_complete]
    BY <2>1, <2>5 DEF FlushFirst, IInv, LoopInv
  <2> QED BY <2>2, <2>3, <2>4, <2>5
<1>2. TypeOK'
  BY <1>1, BoundAssumption DEF IInv, TypeOK
<1>3. Conservation'
  BY DEF IInv, Conservation
<1>4. LoopInv'
  BY DEF IInv, LoopInv
<1>5. FlushInv'
  BY <1>1, Lengths DEF FlushInv, IInv, TypeOK
<1>6. LifeInv'
  BY <1>1 DEF LifeInv
<1> QED BY <1>2, <1>3, <1>4, <1>5, <1>6 DEF IInv

\* The context in flush() runs again and looks at the future.
LEMMA FlushResumedIInv ==
    ASSUME IInv, FlushResumed
    PROVE  IInv'
<1> USE DEF FlushResumed, bufVars, loopVars
<1>1. write_complete \in 1..MaxLoops /\ m_error \in [1..MaxLoops -> BOOLEAN]
  BY BoundAssumption DEF IInv, TypeOK, FlushInv
<1>2. m_error' \in [1..MaxLoops -> BOOLEAN] /\ ~m_error'[write_complete]
  BY <1>1
<1>3. TypeOK'
  BY <1>2 DEF IInv, TypeOK
<1>4. Conservation'
  BY DEF IInv, Conservation
<1>5. LoopInv'
  BY <1>1, <1>2 DEF IInv, LoopInv
<1>6. FlushInv'
  BY <1>1 DEF IInv, FlushInv
<1>7. LifeInv'
  BY DEF IInv, LifeInv
<1> QED BY <1>3, <1>4, <1>5, <1>6, <1>7 DEF IInv

\* The same when a write() has started another task: whatever is read from the
\* freed promise, the bytes of the flush() are on the wire.
LEMMA FlushFreedIInv ==
    ASSUME IInv, FlushFreed
    PROVE  IInv'
<1> USE DEF FlushFreed, bufVars, loopVars, promVars
<1>1. TypeOK'
  BY DEF IInv, TypeOK
<1>2. Conservation' /\ LoopInv'
  BY DEF IInv, Conservation, LoopInv
<1>3. FlushInv' /\ LifeInv'
  BY DEF IInv, FlushInv, LifeInv
<1> QED BY <1>1, <1>2, <1>3 DEF IInv

\* No step of write(), write_loop, flush() or ~socket() breaks the inductive invariant.
LEMMA NextIInv == IInv /\ [Next]_vars => IInv'
<1> SUFFICES ASSUME IInv, [Next]_vars PROVE IInv'
  OBVIOUS
<1>1. CASE \E n \in Sizes : WriteFirst(n)
  BY <1>1, WriteFirstIInv
<1>2. CASE \E n \in Sizes : WriteMore(n)
  BY <1>2, WriteMoreIInv
<1>3. CASE LoopStart
  BY <1>3, LoopStartIInv
<1>4. CASE KernelTakes
  BY <1>4, KernelTakesIInv
<1>5. CASE LoopNext
  BY <1>5, LoopNextIInv
<1>6. CASE LoopEnd
  BY <1>6, LoopEndIInv
<1>7. CASE LoopFails
  BY <1>7, LoopFailsIInv
<1>8. CASE FlushCall
  BY <1>8, FlushEnterIInv DEF FlushCall
<1>9. CASE Destroy
  BY <1>9, FlushEnterIInv DEF Destroy
<1>10. CASE FlushResumed
  BY <1>10, FlushResumedIInv
<1>11. CASE FlushFreed
  BY <1>11, FlushFreedIInv
<1>12. CASE DeleteMy
  <2> USE <1>12 DEF DeleteMy, bufVars, loopVars, promVars, flushVars
  <2>1. TypeOK'
    BY DEF IInv, TypeOK
  <2>2. Conservation' /\ LoopInv'
    BY DEF IInv, Conservation, LoopInv
  <2>3. FlushInv' /\ LifeInv'
    BY DEF IInv, FlushInv, LifeInv
  <2> QED BY <2>1, <2>2, <2>3 DEF IInv
<1>13. CASE UNCHANGED vars
  <2> USE <1>13 DEF vars
  <2>1. TypeOK'
    BY DEF IInv, TypeOK
  <2>2. Conservation' /\ LoopInv'
    BY DEF IInv, Conservation, LoopInv
  <2>3. FlushInv' /\ LifeInv'
    BY DEF IInv, FlushInv, LifeInv
  <2> QED BY <2>1, <2>2, <2>3 DEF IInv
<1> QED BY <1>1, <1>2, <1>3, <1>4, <1>5, <1>6, <1>7, <1>8, <1>9, <1>10, <1>11, <1>12,
           <1>13 DEF Next, LoopStep, FlushStep

\* The inductive invariant holds of every behaviour of the writing side.
LEMMA Invariance == Spec => []IInv
<1>1. Init => IInv
  BY InitIInv
<1>2. IInv /\ [Next]_vars => IInv'
  BY NextIInv
<1> QED BY <1>1, <1>2, PTL DEF Spec

-----------------------------------------------------------------------------
(* Theorems *)

\* The fields of detail::socket keep their types, and the pointer and the index
\* of the buffer to fill agree, whatever is written, sent, flushed or thrown.
THEOREM TypeCorrect == Spec => []TypeOK
<1>1. IInv => TypeOK
  BY DEF IInv
<1> QED BY <1>1, Invariance, PTL

\* Double buffering loses, repeats and reorders nothing: the wire, the rest of
\* the buffer in flight and the buffer being filled are what write() accepted.
THEOREM NothingLostOrReordered == Spec => []Conservation
<1>1. IInv => Conservation
  BY DEF IInv
<1> QED BY <1>1, Invariance, PTL

\* write() never touches the buffer that write_loop has given to asio.
THEOREM InFlightIsUntouched == Spec => []InFlightUntouched
<1>1. IInv => InFlightUntouched
  BY OtherBufSwaps DEF IInv, LoopInv, TypeOK, InFlightUntouched
<1> QED BY <1>1, Invariance, PTL

\* A flush() that returns has sent what was written before it, also when the
\* promise it waited for was freed in between.
THEOREM FlushSends == Spec => []FlushMeansSent
<1>1. IInv => FlushMeansSent
  BY DEF IInv, FlushInv, FlushMeansSent
<1> QED BY <1>1, Invariance, PTL

\* ~socket() deletes the buffers only when neither write_loop nor asio uses them.
THEOREM FreedAfterLastUse == Spec => []FreedWhenDone
<1>1. IInv => FreedWhenDone
  BY Lengths DEF IInv, LifeInv, FreedWhenDone
<1> QED BY <1>1, Invariance, PTL
=============================================================================
