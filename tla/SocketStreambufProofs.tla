----------------------- MODULE SocketStreambufProofs -----------------------
(***************************************************************************)
(* Proofs about SocketStreambuf, for any size of the buffer and any number *)
(* of bytes and connections: what is put is on the wire in order, a sync() *)
(* that succeeds has sent everything, and what is got is the stream.       *)
(***************************************************************************)
EXTENDS SocketStreambuf, SequenceTheorems, TLAPS

\* The bytes of s are those of the stream after the first n.
Follows(s, n) == \A k \in 1..Len(s) : s[k] = n + k

\* The bytes that the promise of the call counts.
Counted == IF value > 0 THEN value ELSE 0

\* What the call in progress has put on the wire, of the put area or of its byte.
Sending == IF op = "send" THEN sent + Counted ELSE IF op = "send_char" THEN Counted ELSE 0

\* How many of the bytes that were put are on the wire.
Done == accepted - Len(put) + Sending

\* How many bytes have come that the get area does not have yet.
Pending == IF op = "receive" THEN Counted ELSE 0

\* The byte b was sent.
OnWire(b) == \E i \in DOMAIN wire : wire[i] = b

\* The members and the call keep their types, the notifications apart.
BufType ==
    /\ get \in Seq(1..arrived) /\ past \in BOOLEAN
    /\ put \in Seq(1..MaxPut) /\ Len(put) <= BufferSize
    /\ unbuffered \in BOOLEAN
    /\ pc \in {"idle", "call", "enqueued", "blocked", "result", "close"}
    /\ op \in {"none", "receive", "send", "send_char", "connect"}
    /\ closing \in BOOLEAN
    /\ char \in 0..MaxPut /\ sent \in 0..BufferSize
    /\ value \in -1..BufferSize /\ ec \in BOOLEAN
    /\ kernel \in BOOLEAN
    /\ handler \in {"none", "notify", "notify_last", "code"}
    /\ handler_ec \in BOOLEAN /\ frame \in BOOLEAN
    /\ up \in BOOLEAN /\ eof \in BOOLEAN
    /\ arrived \in 0..MaxArrive /\ taken \in 0..arrived
    /\ wire \in Seq(1..MaxPut)
    /\ accepted \in 0..MaxPut /\ received \in Seq(0..arrived)
    /\ outcome \in {"none", "ok", "synced", "eof"}
    /\ failed \subseteq {"get", "put"}
    /\ connects \in 0..MaxConnects /\ fault \in BOOLEAN

\* A notification posted for the promise of the call finds it set: so it cannot end the
\* wait of a call whose operation is still in progress.
NoteInv == /\ named \in BOOLEAN /\ notes \subseteq {"own", "stale"}
           /\ "own" \in notes => value # -1

\* What SyncMeansSent and ReadIsStream say, without looking at fault.
SyncOK == outcome = "synced" /\ ~unbuffered
             => \A b \in 1..accepted : \E i \in DOMAIN wire : wire[i] = b
ReadOK == "get" \notin failed =>
             \A i \in DOMAIN received : received[i] = i \/ (received[i] = 0 /\ i = Len(received))

\* A call that waits has an operation, whose promise is set when it completes; the frame
\* that a handler finds in place is that of the call in progress.
Waiting ==
    /\ pc \in {"idle", "close"} <=> op = "none"
    /\ kernel => op # "none" /\ value = -1
    /\ value # -1 => op # "none"
    /\ pc = "result" => value # -1
    /\ frame => value # -1

\* What a call has in hand.
InHand ==
    /\ op = "send" => ~unbuffered /\ put # <<>> /\ char \in {0, accepted + 1} /\ (closing => char = 0)
    /\ op = "send_char" => unbuffered /\ char = accepted + 1 /\ (up => value \in {-1, 1})
    /\ op = "receive" => get = <<>> /\ ~past /\ value <= taken
    /\ op = "connect" => wire = <<>> /\ accepted = 0 /\ put = <<>>

\* The put area holds the bytes put last, and a call sends no more than that.
PutArea ==
    /\ unbuffered => put = <<>>
    /\ Len(put) <= accepted /\ Follows(put, accepted - Len(put))
    /\ op = "send" => sent + Counted <= Len(put)

\* With a put area all bytes before it were sent, and what the call has sent of it.
SentOnWire == ~unbuffered => \A b \in 1..Done : OnWire(b)

\* Until a call fails they were sent once and in order; without a put area the error of a
\* lost connection may be missed.
WireOK == "put" \notin failed => Follows(wire, 0) /\ (~unbuffered \/ up => Len(wire) = Done)

\* The get area holds the bytes that came last, and the caller has those before.
GetArea ==
    /\ past => get = <<>>
    /\ past => ReadOK
    /\ "get" \notin failed /\ ~past =>
          /\ Len(get) + Pending <= taken /\ Follows(get, taken - Len(get))
          /\ Len(received) = taken - Len(get) - Pending /\ Follows(received, 0)

\* The inductive invariant.
IInv == BufType /\ Waiting /\ InHand /\ PutArea /\ SentOnWire /\ WireOK /\ GetArea /\ SyncOK

-----------------------------------------------------------------------------
(* Sequences of bytes *)

\* A function on 1..n is a sequence of length n.
LEMMA MadeSeq ==
    ASSUME NEW S, NEW n \in Nat, NEW f \in [1..n -> S]
    PROVE  f \in Seq(S) /\ Len(f) = n
<1>1. f \in Seq(S)
  BY SeqDef
<1>2. DOMAIN f = 1..n /\ DOMAIN f = 1..Len(f) /\ Len(f) \in Nat
  BY <1>1, LenProperties
<1> QED BY <1>1, <1>2

\* The bytes after the first i, up to the j-th.
LEMMA BytesFollow ==
    ASSUME NEW i \in Nat, NEW j \in Nat, i <= j, NEW n \in Nat, j <= n
    PROVE  /\ Bytes(i, j) \in Seq(1..n) /\ Len(Bytes(i, j)) = j - i
           /\ Follows(Bytes(i, j), i)
<1> DEFINE f == Bytes(i, j)
           m == j - i
           S == 1..n
<1>1. m \in Nat /\ \A k \in 1..m : f[k] = i + k /\ i + k \in S
  BY DEF Bytes
<1>2. f \in [1..m -> S]
  BY <1>1 DEF Bytes
<1> HIDE DEF f, S
<1>3. f \in Seq(S) /\ Len(f) = m
  BY <1>1, <1>2, MadeSeq
<1> QED BY <1>1, <1>3 DEF f, S, Follows

\* A part of the stream from its beginning is known by its length.
LEMMA FollowsIsBytes ==
    ASSUME NEW S, NEW s \in Seq(S), Follows(s, 0)
    PROVE  s = Bytes(0, Len(s))
<1>1. Len(s) \in Nat /\ s \in [1..Len(s) -> S]
  BY LenProperties
<1> DEFINE n == Len(s)
           f == [k \in 1..(n - 0) |-> 0 + k]
<1>2. n - 0 = n /\ \A k \in 1..n : s[k] = 0 + k
  BY <1>1 DEF Follows
<1> HIDE DEF n
<1>3. s = f
  BY <1>1, <1>2 DEF n
<1> QED BY <1>3 DEF Bytes, n

\* One more byte.
LEMMA AppendFollows ==
    ASSUME NEW S, NEW s \in Seq(S), NEW b \in S
    PROVE  /\ Append(s, b) \in Seq(S) /\ Len(Append(s, b)) = Len(s) + 1
           /\ \A k \in 1..Len(s) : Append(s, b)[k] = s[k]
           /\ Append(s, b)[Len(s) + 1] = b
           /\ \A n \in Int : Follows(s, n) /\ b = n + Len(s) + 1 => Follows(Append(s, b), n)
<1>1. /\ Append(s, b) \in Seq(S) /\ Len(Append(s, b)) = Len(s) + 1 /\ Len(s) \in Nat
      /\ \A k \in 1..Len(s) : Append(s, b)[k] = s[k]
      /\ Append(s, b)[Len(s) + 1] = b
  BY AppendProperties, LenProperties
<1>2. ASSUME NEW n \in Int, Follows(s, n), b = n + Len(s) + 1, NEW k \in 1..(Len(s) + 1)
      PROVE  Append(s, b)[k] = n + k
  <2>1. k \in 1..Len(s) \/ k = Len(s) + 1
    BY <1>1
  <2> QED BY <1>1, <1>2, <2>1 DEF Follows
<1> QED BY <1>1, <1>2 DEF Follows

\* A first byte is taken.
LEMMA TailFollows ==
    ASSUME NEW S, NEW s \in Seq(S), s # <<>>
    PROVE  /\ Head(s) \in S /\ Head(s) = s[1] /\ 1 \in 1..Len(s)
           /\ Tail(s) \in Seq(S) /\ Len(Tail(s)) = Len(s) - 1 /\ Len(s) \in Nat /\ Len(s) > 0
           /\ \A n \in Int : Follows(s, n) => Head(s) = n + 1 /\ Follows(Tail(s), n + 1)
<1>1. Len(s) \in Nat /\ Len(s) > 0
  BY LenProperties, EmptySeq
<1>2. Head(s) \in S /\ Head(s) = s[1]
  BY <1>1, ElementOfSeq, HeadTailProperties
<1>3. /\ Tail(s) \in Seq(S) /\ Len(Tail(s)) = Len(s) - 1
      /\ \A k \in 1..Len(Tail(s)) : Tail(s)[k] = s[k + 1]
  BY HeadTailProperties
<1>4. ASSUME NEW n \in Int, Follows(s, n) PROVE Head(s) = n + 1 /\ Follows(Tail(s), n + 1)
  <2>1. ASSUME NEW k \in 1..Len(Tail(s)) PROVE Tail(s)[k] = (n + 1) + k
    <3>1. k + 1 \in 1..Len(s) /\ k \in Int
      BY <1>1, <1>3
    <3>2. s[k + 1] = n + (k + 1)
      BY <1>4, <3>1 DEF Follows
    <3> QED BY <1>3, <3>1, <3>2
  <2>2. s[1] = n + 1
    BY <1>1, <1>4 DEF Follows
  <2> QED BY <1>2, <2>1, <2>2 DEF Follows
<1> QED BY <1>1, <1>2, <1>3, <1>4

\* Bytes are put behind others.
LEMMA ConcatFollows ==
    ASSUME NEW S, NEW s \in Seq(S), NEW t \in Seq(S)
    PROVE  /\ s \o t \in Seq(S) /\ Len(s \o t) = Len(s) + Len(t)
           /\ \A k \in 1..Len(s) : (s \o t)[k] = s[k]
           /\ \A k \in 1..Len(t) : (s \o t)[Len(s) + k] = t[k] /\ Len(s) + k \in 1..Len(s \o t)
           /\ \A n \in Int : Follows(s, n) /\ Follows(t, n + Len(s)) => Follows(s \o t, n)
<1>1. /\ s \o t \in Seq(S) /\ Len(s \o t) = Len(s) + Len(t)
      /\ Len(s) \in Nat /\ Len(t) \in Nat
      /\ \A i \in 1..(Len(s) + Len(t)) : (s \o t)[i] = IF i <= Len(s) THEN s[i] ELSE t[i - Len(s)]
  BY ConcatProperties, LenProperties
<1>2. \A k \in 1..Len(s) : (s \o t)[k] = s[k]
  BY <1>1
<1>3. ASSUME NEW k \in 1..Len(t)
      PROVE  (s \o t)[Len(s) + k] = t[k] /\ Len(s) + k \in 1..Len(s \o t)
  <2>1. Len(s) + k \in 1..(Len(s) + Len(t)) /\ ~(Len(s) + k <= Len(s)) /\ (Len(s) + k) - Len(s) = k
    BY <1>1
  <2> QED BY <1>1, <2>1
<1>4. ASSUME NEW n \in Int, Follows(s, n), Follows(t, n + Len(s)), NEW k \in 1..(Len(s) + Len(t))
      PROVE  (s \o t)[k] = n + k
  <2>1. CASE k \in 1..Len(s)
    BY <1>2, <1>4, <2>1 DEF Follows
  <2>2. CASE k \notin 1..Len(s)
    <3> DEFINE j == k - Len(s)
    <3>1. j \in 1..Len(t) /\ Len(s) + j = k
      BY <1>1, <2>2
    <3>2. (s \o t)[Len(s) + j] = t[j] /\ t[j] = (n + Len(s)) + j
      BY <1>3, <1>4, <3>1 DEF Follows
    <3> QED BY <1>1, <3>1, <3>2
  <2> QED BY <2>1, <2>2
<1> QED BY <1>1, <1>2, <1>3, <1>4 DEF Follows

\* What a send takes: n bytes after the first m.
LEMMA PartFollows ==
    ASSUME NEW S, NEW s \in Seq(S), NEW m \in Nat, m <= Len(s),
           NEW n \in 1..Len(SubSeq(s, m + 1, Len(s)))
    PROVE  LET part == SubSeq(SubSeq(s, m + 1, Len(s)), 1, n)
           IN /\ part \in Seq(S) /\ Len(part) = n /\ n \in Nat /\ m + n <= Len(s)
              /\ \A k \in 1..n : part[k] = s[m + k]
              /\ \A j \in Int : Follows(s, j) => Follows(part, j + m)
<1> DEFINE r == SubSeq(s, m + 1, Len(s))
           part == SubSeq(r, 1, n)
<1>1. Len(s) \in Nat /\ \A k \in 1..Len(s) : s[k] \in S
  BY LenProperties, ElementOfSeq
<1>2. r \in Seq(S) /\ Len(r) = Len(s) - m /\ \A k \in 1..Len(r) : r[k] = s[m + k]
  <2>1. m + 1 \in 1..(Len(s) + 1) /\ Len(s) \in m..Len(s)
    BY <1>1
  <2>2. /\ Len(r) = IF m + 1 <= Len(s) THEN Len(s) - (m + 1) + 1 ELSE 0
        /\ \A k \in 1..(Len(s) - (m + 1) + 1) : r[k] = s[(m + 1) + k - 1]
        /\ r \in Seq(S)
    BY <1>1, <2>1, SubSeqProperties
  <2>3. \A k \in 1..(Len(s) - m) : (m + 1) + k - 1 = m + k
    BY <1>1
  <2>4. Len(s) - (m + 1) + 1 = Len(s) - m
    BY <1>1
  <2> HIDE DEF r
  <2>5. Len(r) = Len(s) - m
    <3>1. m + 1 <= Len(s) \/ (~(m + 1 <= Len(s)) /\ Len(s) - m = 0)
      BY <1>1
    <3> QED BY <2>2, <2>4, <3>1
  <2> QED BY <2>2, <2>3, <2>4, <2>5
<1>3. n \in 1..Len(r)
  OBVIOUS
<1> HIDE DEF r
<1>4. part \in Seq(S) /\ Len(part) = n /\ \A k \in 1..n : part[k] = r[k]
  <2>1. Len(r) \in Nat /\ n \in Nat /\ n <= Len(r)
    BY <1>2, <1>3, LenProperties
  <2>2. /\ Len(part) = IF 1 <= n THEN n - 1 + 1 ELSE 0
        /\ \A k \in 1..(n - 1 + 1) : part[k] = r[1 + k - 1]
        /\ part \in Seq(S)
    BY <1>2, <2>1, SubSeqProperties
  <2>3. n - 1 + 1 = n /\ 1 <= n /\ \A k \in 1..n : 1 + k - 1 = k
    BY <1>3, <2>1
  <2> QED BY <2>2, <2>3
<1>5. n \in Nat /\ m + n <= Len(s) /\ \A k \in 1..n : k \in 1..Len(r)
  BY <1>1, <1>2, <1>3
<1> HIDE DEF part
<1>6. \A k \in 1..n : part[k] = s[m + k]
  BY <1>2, <1>4, <1>5
<1>7. ASSUME NEW j \in Int, Follows(s, j) PROVE Follows(part, j + m)
  <2>1. ASSUME NEW k \in 1..n PROVE part[k] = (j + m) + k
    <3>1. m + k \in 1..Len(s) /\ k \in Int
      BY <1>1, <1>5
    <3>2. s[m + k] = j + (m + k)
      BY <1>7, <3>1 DEF Follows
    <3> QED BY <1>6, <3>1, <3>2
  <2> QED BY <1>4, <2>1 DEF Follows
<1> QED BY <1>4, <1>5, <1>6, <1>7 DEF part, r

-----------------------------------------------------------------------------
(* The inductive invariant *)

\* The parts of the invariant, and the numbers in it.
LEMMA IInvParts ==
    ASSUME IInv
    PROVE  /\ BufType /\ Waiting /\ InHand /\ PutArea /\ SentOnWire /\ WireOK /\ GetArea
           /\ SyncOK
           /\ BufferSize \in Nat /\ BufferSize > 0 /\ MaxPut \in Nat /\ MaxArrive \in Nat
           /\ arrived \in Nat /\ taken \in Nat /\ taken <= arrived /\ accepted \in Nat
           /\ sent \in Nat /\ value \in Int /\ value >= -1 /\ Counted \in Nat /\ char \in Nat
           /\ Len(put) \in Nat /\ Len(get) \in Nat /\ Len(wire) \in Nat /\ Len(received) \in Nat
<1>1. /\ get \in Seq(1..arrived) /\ put \in Seq(1..MaxPut) /\ wire \in Seq(1..MaxPut)
      /\ received \in Seq(0..arrived)
  BY DEF IInv, BufType
<1>2. Len(put) \in Nat /\ Len(get) \in Nat /\ Len(wire) \in Nat /\ Len(received) \in Nat
  BY <1>1, LenProperties
<1>3. BufferSize \in Nat /\ BufferSize > 0 /\ MaxPut \in Nat /\ MaxArrive \in Nat
  BY BufferAssumption, BoundAssumption
<1>4. /\ arrived \in Nat /\ taken \in Nat /\ taken <= arrived /\ accepted \in Nat
      /\ sent \in Nat /\ value \in Int /\ value >= -1 /\ Counted \in Nat /\ char \in Nat
  BY <1>3 DEF IInv, BufType, Counted
<1> QED BY <1>2, <1>3, <1>4 DEF IInv

\* A step that leaves the put area and the wire alone.
LEMMA PutSame ==
    ASSUME IInv, UNCHANGED <<put, unbuffered, accepted, wire>>, Sending' = Sending,
           op' = "send" => sent' + Counted' <= Len(put),
           up' => up, "put" \in failed => "put" \in failed', outcome' = "synced" => outcome = "synced"
    PROVE  PutArea' /\ SentOnWire' /\ WireOK' /\ SyncOK'
<1>1. Done' = Done
  BY DEF Done
<1>2. PutArea'
  BY IInvParts DEF PutArea, Follows
<1>3. SentOnWire'
  BY <1>1, IInvParts DEF SentOnWire, OnWire
<1>4. WireOK'
  BY <1>1, IInvParts DEF WireOK, Follows
<1>5. SyncOK'
  BY IInvParts DEF SyncOK
<1> QED BY <1>2, <1>3, <1>4, <1>5

\* A step that leaves the get area alone.
LEMMA GetSame ==
    ASSUME IInv, UNCHANGED <<get, past, taken, received>>, Pending' = Pending,
           "get" \in failed => "get" \in failed'
    PROVE  GetArea'
BY IInvParts DEF GetArea, Follows, ReadOK

\* A connection starts with empty buffers.
LEMMA NewSame ==
    ASSUME IInv, init_buffers, NewConnection, unbuffered' = unbuffered,
           op' \in {"none", "connect"}
    PROVE  /\ PutArea' /\ SentOnWire' /\ WireOK' /\ GetArea' /\ SyncOK'
           /\ get' \in Seq(1..0) /\ put' \in Seq(1..MaxPut) /\ Len(put') = 0
           /\ wire' \in Seq(1..MaxPut) /\ received' \in Seq(0..0)
           /\ past' = FALSE /\ arrived' = 0 /\ taken' = 0 /\ accepted' = 0 /\ outcome' = "none"
           /\ failed' = {} /\ eof' = FALSE /\ wire' = <<>> /\ put' = <<>>
<1>1. /\ get' = <<>> /\ put' = <<>> /\ wire' = <<>> /\ received' = <<>> /\ past' = FALSE
      /\ arrived' = 0 /\ taken' = 0 /\ accepted' = 0 /\ outcome' = "none" /\ failed' = {}
      /\ eof' = FALSE
  BY DEF init_buffers, NewConnection
<1>2. /\ <<>> \in Seq(1..0) /\ <<>> \in Seq(1..MaxPut) /\ <<>> \in Seq(0..0) /\ Len(<<>>) = 0
  BY EmptySeq
<1>3. Done' = 0 /\ Sending' = 0 /\ Pending' = 0
  BY <1>1, <1>2 DEF Done, Sending, Pending
<1>4. \A k : Follows(<<>>, k)
  BY <1>2 DEF Follows
<1>5. PutArea'
  BY <1>1, <1>2, <1>4 DEF PutArea
<1>6. SentOnWire' /\ WireOK' /\ SyncOK'
  BY <1>1, <1>2, <1>3, <1>4 DEF SentOnWire, WireOK, SyncOK
<1>7. GetArea'
  <2>1. Len(get)' = 0 /\ Len(received)' = 0 /\ taken' = 0
    BY <1>1, <1>2
  <2>2. Follows(get, taken - Len(get))' /\ Follows(received, 0)'
    BY <2>1 DEF Follows
  <2>3. Len(get)' + Pending' <= taken' /\ Len(received)' = taken' - Len(get)' - Pending'
    BY <1>3, <2>1
  <2>4. ~past'
    BY <1>1
  <2> QED BY <2>2, <2>3, <2>4 DEF GetArea
<1> QED BY <1>1, <1>2, <1>5, <1>6, <1>7

\* At first the buffers are empty and there is no connection.
LEMMA InitIInv == Init => IInv
<1> SUFFICES ASSUME Init PROVE IInv
  OBVIOUS
<1>1. /\ <<>> \in Seq(1..0) /\ <<>> \in Seq(1..MaxPut) /\ <<>> \in Seq(0..0) /\ Len(<<>>) = 0
  BY EmptySeq
<1>2. BufferSize \in Nat /\ BufferSize > 0 /\ MaxPut \in Nat /\ MaxArrive \in Nat /\ MaxConnects \in Nat
  BY BufferAssumption, BoundAssumption
<1>3. BufType
  <2>1. /\ get \in Seq(1..arrived) /\ put \in Seq(1..MaxPut) /\ Len(put) <= BufferSize
        /\ wire \in Seq(1..MaxPut) /\ received \in Seq(0..arrived)
    BY <1>1, <1>2 DEF Init
  <2>2. /\ char \in 0..MaxPut /\ sent \in 0..BufferSize /\ value \in -1..BufferSize
        /\ arrived \in 0..MaxArrive /\ taken \in 0..arrived /\ accepted \in 0..MaxPut
        /\ connects \in 0..MaxConnects
    BY <1>2 DEF Init
  <2> QED BY <2>1, <2>2 DEF Init, BufType
<1>4. Waiting /\ InHand
  <2>1. /\ op = "none" /\ pc = "idle" /\ kernel = FALSE /\ value = -1 /\ frame = FALSE
    BY DEF Init
  <2> QED BY <2>1 DEF Waiting, InHand
<1>5. Done = 0 /\ Sending = 0 /\ Pending = 0
  <2>1. op = "none" /\ Len(put) = 0 /\ accepted = 0
    BY <1>1 DEF Init
  <2> QED BY <2>1 DEF Done, Sending, Pending
<1>6. PutArea /\ SentOnWire /\ WireOK /\ SyncOK
  <2>1. Len(put) = 0 /\ Len(wire) = 0 /\ accepted = 0 /\ op = "none" /\ outcome = "none" /\ put = <<>>
    BY <1>1 DEF Init
  <2>2. Follows(put, accepted - Len(put)) /\ Follows(wire, 0)
    BY <2>1 DEF Follows
  <2> QED BY <1>5, <2>1, <2>2 DEF PutArea, SentOnWire, WireOK, SyncOK
<1>7. GetArea
  <2>1. Len(get) = 0 /\ Len(received) = 0 /\ taken = 0 /\ past = FALSE
    BY <1>1 DEF Init
  <2>2. Follows(get, taken - Len(get)) /\ Follows(received, 0)
    BY <2>1 DEF Follows
  <2> QED BY <1>5, <2>1, <2>2 DEF GetArea
<1> QED BY <1>3, <1>4, <1>6, <1>7 DEF IInv

\* p.wait() up to its block, a notification and a late error code change the call only.
LEMMA WaitIInv ==
    ASSUME IInv, NoteInv,
           WaitCall \/ WaitBlock \/ HandlerNotify \/ RunOwn \/ RunStale \/ HandlerCode
    PROVE  IInv'
<1> USE DEF bufVars, callVars, promVars, ioVars, netVars, seenVars
<1>0. BufType /\ Waiting /\ InHand
  BY IInvParts
<1>1. /\ UNCHANGED <<get, past, put, unbuffered, op, closing, char, sent, value, kernel, handler_ec,
                     frame, up, eof, arrived, taken, wire, accepted, received, outcome, failed, connects>>
      /\ ec' \in {ec, handler_ec}
      /\ handler' \in {handler, "none", "code"}
      /\ fault' \in BOOLEAN
      /\ \/ pc' = pc
         \/ pc \in {"call", "enqueued"} /\ pc' \in {"enqueued", "blocked"}
         \/ pc \in {"call", "enqueued", "blocked"} /\ value # -1 /\ pc' = "result"
  <2>1. CASE WaitCall
    BY <1>0, <2>1 DEF WaitCall, BufType
  <2>2. CASE WaitBlock
    BY <1>0, <2>2 DEF WaitBlock, BufType
  <2>3. CASE HandlerNotify
    BY <1>0, <2>3 DEF HandlerNotify
  <2>4. CASE HandlerCode
    BY <1>0, <2>4 DEF HandlerCode, BufType
  <2>5. CASE RunOwn
    <3>1. value # -1
      BY <2>5 DEF RunOwn, NoteInv
    <3> QED BY <1>0, <2>5, <3>1 DEF RunOwn, BufType
  <2>6. CASE RunStale
    BY <1>0, <2>6 DEF RunStale, BufType
  <2> QED BY <2>1, <2>2, <2>3, <2>4, <2>5, <2>6
<1>2. BufType'
  BY <1>0, <1>1 DEF BufType
<1>3. Waiting' /\ InHand'
  BY <1>0, <1>1 DEF Waiting, InHand
<1>4. Sending' = Sending /\ Pending' = Pending /\ Counted' = Counted
  BY <1>1 DEF Sending, Pending, Counted
<1>5. op' = "send" => sent' + Counted' <= Len(put)
  BY <1>1, <1>4, IInvParts DEF PutArea
<1>6. PutArea' /\ SentOnWire' /\ WireOK' /\ SyncOK'
  BY <1>1, <1>4, <1>5, PutSame
<1>7. GetArea'
  BY <1>1, <1>4, GetSame
<1> QED BY <1>2, <1>3, <1>6, <1>7 DEF IInv

\* An operation completes: what its handler sets.
LEMMA CompleteFacts ==
    ASSUME IInv, NEW n \in Nat, n <= BufferSize, NEW e \in BOOLEAN, Complete(n, e)
    PROVE  /\ Waiting'
           /\ op # "none" /\ value = -1 /\ Counted = 0
           /\ value' = n /\ Counted' = n /\ value' \in -1..BufferSize
           /\ kernel' \in BOOLEAN /\ handler' \in {"none", "notify", "notify_last", "code"}
           /\ handler_ec' \in BOOLEAN /\ frame' \in BOOLEAN
           /\ UNCHANGED <<get, past, put, unbuffered, pc, op, closing, char, sent, ec, accepted,
                          received, outcome, failed, connects, fault>>
<1>0. Waiting /\ BufferSize \in Nat
  BY IInvParts
<1>1. /\ UNCHANGED <<get, past, put, unbuffered, pc, op, closing, char, sent, ec, accepted,
                     received, outcome, failed, connects, fault>>
      /\ kernel /\ value' = n /\ kernel' = FALSE /\ handler' \in {"notify", "notify_last"}
      /\ handler_ec' = e /\ frame' = TRUE
  BY DEF Complete, bufVars, callVars, seenVars
<1>2. op # "none" /\ value = -1 /\ n # -1
  BY <1>0, <1>1 DEF Waiting
<1>3. Counted = 0 /\ Counted' = n
  BY <1>1, <1>2 DEF Counted
<1>4. Waiting'
  BY <1>0, <1>1, <1>2 DEF Waiting
<1>5. value' \in -1..BufferSize
  BY <1>0, <1>1
<1>6. /\ kernel' \in BOOLEAN /\ handler' \in {"none", "notify", "notify_last", "code"}
      /\ handler_ec' \in BOOLEAN /\ frame' \in BOOLEAN
  BY <1>1
<1> QED BY <1>1, <1>2, <1>3, <1>4, <1>5, <1>6

\* The handler of a receive: bytes, the end of the stream or an error.
LEMMA CompleteReceiveIInv == ASSUME IInv, CompleteReceive PROVE IInv'
<1>0. /\ BufType /\ InHand /\ GetArea /\ op = "receive" /\ Len(put) \in Nat /\ Len(received) \in Nat
      /\ BufferSize \in Nat /\ MaxArrive \in Nat /\ arrived \in Nat /\ taken \in Nat /\ taken <= arrived
  BY IInvParts DEF CompleteReceive
<1>1. PICK n \in Nat, e \in BOOLEAN :
         /\ n <= BufferSize /\ Complete(n, e) /\ taken' = taken + n /\ taken + n <= arrived
         /\ UNCHANGED <<up, eof, arrived, wire>>
  <2>1. ASSUME NEW n \in 1..AtMost(arrived - taken, BufferSize)
        PROVE  n \in Nat /\ n <= BufferSize /\ taken + n <= arrived
    BY <1>0 DEF AtMost
  <2>2. taken + 0 = taken /\ 0 \in Nat /\ 0 <= BufferSize /\ TRUE \in BOOLEAN /\ FALSE \in BOOLEAN
    BY <1>0
  <2>3. CASE /\ \E n \in 1..AtMost(arrived - taken, BufferSize) :
                   Complete(n, FALSE) /\ taken' = taken + n
             /\ UNCHANGED <<up, eof, arrived, wire>>
    BY <2>1, <2>2, <2>3
  <2>4. CASE Complete(0, TRUE) /\ UNCHANGED netVars
    <3>1. /\ taken' = taken + 0 /\ taken + 0 <= arrived /\ UNCHANGED <<up, eof, arrived, wire>>
      BY <1>0, <2>2, <2>4 DEF netVars
    <3> QED BY <2>2, <2>4, <3>1
  <2>5. \/ /\ \E n \in 1..AtMost(arrived - taken, BufferSize) :
                 Complete(n, FALSE) /\ taken' = taken + n
           /\ UNCHANGED <<up, eof, arrived, wire>>
        \/ Complete(0, TRUE) /\ UNCHANGED netVars
    BY Zenon DEF CompleteReceive
  <2> QED BY <2>3, <2>4, <2>5, Zenon
<1>2. /\ Waiting' /\ value = -1 /\ Counted = 0 /\ value' = n /\ Counted' = n
      /\ value' \in -1..BufferSize
      /\ kernel' \in BOOLEAN /\ handler' \in {"none", "notify", "notify_last", "code"}
      /\ handler_ec' \in BOOLEAN /\ frame' \in BOOLEAN
      /\ UNCHANGED <<get, past, put, unbuffered, pc, op, closing, char, sent, ec, accepted,
                     received, outcome, failed, connects, fault>>
  BY <1>1, CompleteFacts
<1>3. BufType'
  BY <1>0, <1>1, <1>2 DEF BufType
<1>4. InHand'
  BY <1>0, <1>1, <1>2 DEF InHand
<1>5. Sending' = Sending
  BY <1>0, <1>2 DEF Sending
<1>6. PutArea' /\ SentOnWire' /\ WireOK' /\ SyncOK'
  BY <1>0, <1>1, <1>2, <1>5, PutSame
<1>7. GetArea'
  <2>1. ~past /\ Len(get) = 0 /\ Pending = 0 /\ Pending' = n
    BY <1>0, <1>2, EmptySeq DEF InHand, Pending
  <2> SUFFICES ASSUME "get" \notin failed
               PROVE  /\ Len(get)' + Pending' <= taken' /\ Follows(get, taken - Len(get))'
                      /\ Len(received)' = taken' - Len(get)' - Pending' /\ Follows(received, 0)'
    BY <1>2, <2>1 DEF GetArea
  <2>2. Len(received) = taken - 0 - 0 /\ Follows(received, 0)
    BY <1>0, <2>1 DEF GetArea
  <2>3. Follows(get, taken - Len(get))'
    BY <1>2, <2>1 DEF Follows
  <2>4. Len(get)' = 0 /\ Len(received)' = Len(received) /\ Follows(received, 0)'
    BY <1>2, <2>1, <2>2 DEF Follows
  <2> QED BY <1>0, <1>1, <2>1, <2>2, <2>3, <2>4
<1> QED BY <1>2, <1>3, <1>4, <1>6, <1>7 DEF IInv

\* The handler of a connect.
LEMMA CompleteConnectIInv == ASSUME IInv, CompleteConnect PROVE IInv'
<1>0. /\ BufType /\ InHand /\ PutArea /\ SentOnWire /\ WireOK /\ SyncOK /\ op = "connect"
      /\ BufferSize \in Nat /\ BufferSize > 0
  BY IInvParts DEF CompleteConnect
<1>1. PICK n \in Nat, e \in BOOLEAN : n <= BufferSize /\ Complete(n, e)
  <2>1. 0 \in Nat /\ 1 \in Nat /\ 0 <= BufferSize /\ 1 <= BufferSize /\ FALSE \in BOOLEAN
    BY <1>0
  <2> QED BY <2>1 DEF CompleteConnect
<1>2. /\ Waiting' /\ value = -1 /\ Counted = 0 /\ value' = n /\ Counted' = n
      /\ value' \in -1..BufferSize
      /\ kernel' \in BOOLEAN /\ handler' \in {"none", "notify", "notify_last", "code"}
      /\ handler_ec' \in BOOLEAN /\ frame' \in BOOLEAN
      /\ UNCHANGED <<get, past, put, unbuffered, pc, op, closing, char, sent, ec, accepted,
                     received, outcome, failed, connects, fault>>
  BY <1>1, CompleteFacts
<1>3. up' \in BOOLEAN /\ UNCHANGED <<eof, arrived, taken, wire>>
  BY DEF CompleteConnect
<1>4. BufType'
  BY <1>0, <1>2, <1>3 DEF BufType
<1>5. InHand'
  BY <1>0, <1>2, <1>3 DEF InHand
<1>6. Sending' = 0 /\ Sending = 0 /\ Pending' = Pending
  BY <1>0, <1>2 DEF Sending, Pending
<1>7. GetArea'
  BY <1>2, <1>3, <1>6, GetSame
<1>8. Len(put) = 0 /\ Len(wire) = 0 /\ accepted = 0 /\ Done = 0 /\ Done' = 0
  <2>1. Len(put) = 0 /\ Len(wire) = 0 /\ accepted = 0
    BY <1>0, EmptySeq DEF InHand
  <2> QED BY <1>2, <1>6, <2>1 DEF Done
<1>9. PutArea' /\ SentOnWire' /\ SyncOK'
  BY <1>0, <1>2, <1>3, <1>8 DEF PutArea, SentOnWire, SyncOK, Follows, OnWire
<1>10. WireOK'
  BY <1>2, <1>3, <1>8 DEF WireOK, Follows
<1> QED BY <1>2, <1>4, <1>5, <1>7, <1>9, <1>10 DEF IInv

\* Bytes that the kernel takes of the put area, or the byte of an unbuffered stream, are put
\* on the wire.
LEMMA SendsIInv ==
    ASSUME IInv, op \in {"send", "send_char"}, NEW n \in Nat, n <= BufferSize,
           Complete(n, FALSE), up, UNCHANGED <<up, eof, arrived, taken>>,
           NEW part \in Seq(1..MaxPut), Len(part) = n, wire' = wire \o part,
           op = "send" => sent + n <= Len(put),
           op = "send_char" => n = 1,
           \A j \in Int : j = accepted - Len(put) + sent /\ op = "send" => Follows(part, j),
           op = "send_char" => Follows(part, accepted)
    PROVE  IInv'
<1>0. /\ BufType /\ InHand /\ PutArea /\ SentOnWire /\ WireOK /\ SyncOK
      /\ BufferSize \in Nat /\ accepted \in Nat /\ Len(put) \in Nat /\ sent \in Nat /\ Len(wire) \in Nat
  BY IInvParts
<1>1. /\ Waiting' /\ value = -1 /\ Counted = 0 /\ value' = n /\ Counted' = n
      /\ value' \in -1..BufferSize
      /\ kernel' \in BOOLEAN /\ handler' \in {"none", "notify", "notify_last", "code"}
      /\ handler_ec' \in BOOLEAN /\ frame' \in BOOLEAN
      /\ UNCHANGED <<get, past, put, unbuffered, pc, op, closing, char, sent, ec, accepted,
                     received, outcome, failed, connects, fault>>
  BY CompleteFacts
<1>2. wire \in Seq(1..MaxPut)
  BY <1>0 DEF BufType
<1>3. /\ wire' \in Seq(1..MaxPut) /\ Len(wire') = Len(wire) + n
      /\ \A k \in 1..Len(wire) : wire'[k] = wire[k]
      /\ \A k \in 1..n : wire'[Len(wire) + k] = part[k] /\ Len(wire) + k \in 1..Len(wire')
      /\ Follows(wire, 0) /\ Follows(part, 0 + Len(wire)) => Follows(wire', 0)
  <2> DEFINE S == 1..MaxPut
             w == wire \o part
  <2>1. wire \in Seq(S) /\ part \in Seq(S) /\ wire' = w /\ 0 \in Int /\ Len(part) = n
    BY <1>2
  <2> HIDE DEF S
  <2>2. /\ w \in Seq(S) /\ Len(w) = Len(wire) + Len(part)
        /\ \A k \in 1..Len(wire) : w[k] = wire[k]
        /\ \A k \in 1..Len(part) : w[Len(wire) + k] = part[k] /\ Len(wire) + k \in 1..Len(w)
        /\ \A i \in Int : Follows(wire, i) /\ Follows(part, i + Len(wire)) => Follows(w, i)
    BY <2>1, ConcatFollows, Zenon
  <2> HIDE DEF w
  <2> QED BY <2>1, <2>2 DEF S
<1>4. DOMAIN wire = 1..Len(wire) /\ DOMAIN wire' = 1..Len(wire')
  BY <1>2, <1>3, LenProperties
<1>5. \A b : OnWire(b) => OnWire(b)'
  <2> SUFFICES ASSUME NEW b, NEW i \in 1..Len(wire), wire[i] = b PROVE \E k \in 1..Len(wire') : wire'[k] = b
    BY <1>4 DEF OnWire
  <2>1. i \in 1..Len(wire')
    BY <1>0, <1>3
  <2> QED BY <1>3, <2>1
<1>6. BufType'
  BY <1>0, <1>1, <1>3 DEF BufType
<1>7. InHand'
  BY <1>0, <1>1 DEF InHand
<1>8. Pending' = Pending
  BY <1>1 DEF Pending
<1>9. GetArea'
  BY <1>1, <1>8, GetSame
<1>10. PutArea'
  BY <1>0, <1>1 DEF PutArea, Follows
<1>11. SyncOK'
  BY <1>0, <1>1, <1>5 DEF SyncOK, OnWire
<1>12. Done \in Int /\ Done' = Done + n
  <2>1. Sending \in Int /\ Sending' = Sending + n
    <3>1. CASE op = "send"
      BY <1>0, <1>1, <3>1 DEF Sending
    <3>2. CASE op = "send_char"
      BY <1>0, <1>1, <3>2 DEF Sending
    <3> QED BY <3>1, <3>2
  <2>2. Done' = accepted - Len(put) + Sending'
    BY <1>1 DEF Done
  <2> QED BY <1>0, <2>1, <2>2 DEF Done
<1>13. op = "send" => Done = accepted - Len(put) + sent /\ Follows(part, Done)
  BY <1>0, <1>1, <1>12 DEF Done, Sending
<1>14. op = "send_char" => Done = accepted /\ Follows(part, Done)
  <2> SUFFICES ASSUME op = "send_char" PROVE Done = accepted
    OBVIOUS
  <2>1. Len(put) = 0
    BY <1>0, EmptySeq DEF InHand, PutArea
  <2> QED BY <1>0, <1>1, <2>1 DEF Done, Sending
<1>15. Follows(part, Done)
  BY <1>13, <1>14
<1>16. SentOnWire'
  <2> SUFFICES ASSUME ~unbuffered, NEW b \in 1..Done' PROVE OnWire(b)'
    BY <1>1 DEF SentOnWire
  <2>1. CASE b \in 1..Done
    BY <1>0, <1>5, <2>1 DEF SentOnWire
  <2>2. CASE b \notin 1..Done
    <3> DEFINE k == b - Done
    <3>1. Done >= 0
      BY <1>0, <1>13 DEF PutArea, InHand
    <3>2. k \in 1..n /\ Done + k = b
      BY <1>12, <2>2, <3>1
    <3>3. part[k] = b
      BY <1>15, <3>2 DEF Follows
    <3> HIDE DEF k
    <3>4. wire'[Len(wire) + k] = b /\ Len(wire) + k \in 1..Len(wire')
      BY <1>3, <3>2, <3>3
    <3> QED BY <1>4, <3>4 DEF OnWire
  <2> QED BY <2>1, <2>2
<1>17. WireOK'
  <2> SUFFICES ASSUME "put" \notin failed
               PROVE  Follows(wire', 0) /\ (~unbuffered \/ up => Len(wire') = Done')
    BY <1>1 DEF WireOK
  <2>1. Follows(wire, 0) /\ Len(wire) = Done /\ 0 + Len(wire) = Done
    BY <1>0 DEF WireOK
  <2> QED BY <1>3, <1>12, <1>15, <2>1
<1> QED BY <1>1, <1>6, <1>7, <1>9, <1>10, <1>11, <1>16, <1>17 DEF IInv

\* The handler of a send: some bytes of what it was given, or an error.
LEMMA CompleteSendIInv == ASSUME IInv, CompleteSend PROVE IInv'
<1>0. /\ BufType /\ InHand /\ PutArea /\ op \in {"send", "send_char"}
      /\ BufferSize \in Nat /\ BufferSize > 0 /\ accepted \in Nat /\ Len(put) \in Nat /\ sent \in Nat
      /\ Counted \in Nat /\ char \in Nat /\ MaxPut \in Nat
  BY IInvParts DEF CompleteSend
<1>1. put \in Seq(1..MaxPut) /\ Len(put) <= BufferSize /\ char \in 0..MaxPut
  BY <1>0 DEF BufType
<1>2. CASE ~up /\ Complete(0, TRUE) /\ UNCHANGED netVars
  <2>0. 0 \in Nat /\ 0 <= BufferSize /\ TRUE \in BOOLEAN
    BY <1>0
  <2>1. /\ Waiting' /\ value = -1 /\ Counted = 0 /\ value' = 0 /\ Counted' = 0
        /\ value' \in -1..BufferSize
        /\ kernel' \in BOOLEAN /\ handler' \in {"none", "notify", "notify_last", "code"}
        /\ handler_ec' \in BOOLEAN /\ frame' \in BOOLEAN
        /\ UNCHANGED <<get, past, put, unbuffered, pc, op, closing, char, sent, ec, accepted,
                       received, outcome, failed, connects, fault>>
    BY <1>2, <2>0, CompleteFacts
  <2>2. UNCHANGED <<up, eof, arrived, taken, wire>> /\ ~up
    BY <1>2 DEF netVars
  <2>3. BufType'
    BY <1>0, <2>1, <2>2 DEF BufType
  <2>4. InHand'
    BY <1>0, <2>1, <2>2 DEF InHand
  <2>5. Sending' = Sending /\ Pending' = Pending
    BY <1>0, <2>1 DEF Sending, Pending
  <2>6. op' = "send" => sent' + Counted' <= Len(put)
    BY <1>0, <2>1 DEF PutArea
  <2>7. PutArea' /\ SentOnWire' /\ WireOK' /\ SyncOK'
    BY <2>1, <2>2, <2>5, <2>6, PutSame
  <2>8. GetArea'
    BY <2>1, <2>2, <2>5, GetSame
  <2> QED BY <2>1, <2>3, <2>4, <2>7, <2>8 DEF IInv
<1>3. CASE /\ op = "send" /\ up /\ UNCHANGED <<up, eof, arrived, taken>>
           /\ \E n \in 1..Len(SubSeq(put, sent + 1, Len(put))) :
                 /\ Complete(n, FALSE)
                 /\ wire' = wire \o SubSeq(SubSeq(put, sent + 1, Len(put)), 1, n)
  <2>1. PICK n \in 1..Len(SubSeq(put, sent + 1, Len(put))) :
                 /\ Complete(n, FALSE)
                 /\ wire' = wire \o SubSeq(SubSeq(put, sent + 1, Len(put)), 1, n)
    BY <1>3
  <2> DEFINE S == 1..MaxPut
             part == SubSeq(SubSeq(put, sent + 1, Len(put)), 1, n)
  <2>2. put \in Seq(S) /\ sent \in Nat /\ sent <= Len(put)
    BY <1>0, <1>1, <1>3 DEF PutArea
  <2>3. wire' = wire \o part
    BY <2>1
  <2> HIDE DEF S
  <2>4. /\ part \in Seq(S) /\ Len(part) = n /\ n \in Nat /\ sent + n <= Len(put)
        /\ \A j \in Int : Follows(put, j) => Follows(part, j + sent)
    BY <2>2, PartFollows
  <2> HIDE DEF part
  <2>5. n <= BufferSize /\ Follows(part, accepted - Len(put) + sent)
    BY <1>0, <1>1, <2>4 DEF PutArea
  <2>6. /\ \A j \in Int : j = accepted - Len(put) + sent /\ op = "send" => Follows(part, j)
        /\ op # "send_char" /\ part \in Seq(1..MaxPut)
    BY <1>3, <2>4, <2>5 DEF S
  <2> QED BY <1>3, <2>1, <2>3, <2>4, <2>5, <2>6, SendsIInv
<1>4. CASE /\ op = "send_char" /\ up /\ UNCHANGED <<up, eof, arrived, taken>>
           /\ \E n \in 1..Len(<<char>>) :
                 Complete(n, FALSE) /\ wire' = wire \o SubSeq(<<char>>, 1, n)
  <2> DEFINE part == <<char>>
  <2>1. char \in 1..MaxPut /\ char = accepted + 1
    BY <1>0, <1>1, <1>4 DEF InHand
  <2>2. part \in Seq(1..MaxPut) /\ Len(part) = 1 /\ part[1] = char
    BY <2>1
  <2>3. SubSeq(part, 1, 1) = part
    BY <2>2, SubSeqFull
  <2>4. Complete(1, FALSE) /\ wire' = wire \o part
    <3>1. PICK n \in 1..Len(part) : Complete(n, FALSE) /\ wire' = wire \o SubSeq(part, 1, n)
      BY <1>4
    <3>2. n = 1
      BY <2>2, <3>1
    <3> QED BY <2>3, <3>1, <3>2
  <2>5. Follows(part, accepted)
    BY <1>0, <2>1, <2>2 DEF Follows
  <2> HIDE DEF part
  <2>6. 1 \in Nat /\ 1 <= BufferSize /\ op # "send"
    BY <1>0, <1>4
  <2> QED BY <1>4, <2>2, <2>4, <2>5, <2>6, SendsIInv
<1>5. \/ ~up /\ Complete(0, TRUE) /\ UNCHANGED netVars
      \/ /\ op = "send" /\ up /\ UNCHANGED <<up, eof, arrived, taken>>
         /\ \E n \in 1..Len(SubSeq(put, sent + 1, Len(put))) :
               /\ Complete(n, FALSE)
               /\ wire' = wire \o SubSeq(SubSeq(put, sent + 1, Len(put)), 1, n)
      \/ /\ op = "send_char" /\ up /\ UNCHANGED <<up, eof, arrived, taken>>
         /\ \E n \in 1..Len(<<char>>) :
               Complete(n, FALSE) /\ wire' = wire \o SubSeq(<<char>>, 1, n)
  <2>1. CASE op = "send"
    BY <2>1, Zenon DEF CompleteSend
  <2>2. CASE op = "send_char"
    <3>1. op # "send"
      BY <2>2
    <3> QED BY <2>2, <3>1, Zenon DEF CompleteSend
  <2> QED BY <1>0, <2>1, <2>2
<1> QED BY <1>2, <1>3, <1>4, <1>5, Zenon

-----------------------------------------------------------------------------
(* The calls *)

\* A byte of the get area.
LEMMA GetBufferedIInv == ASSUME IInv, GetBuffered PROVE IInv'
<1> USE DEF bufVars, callVars, promVars, ioVars, netVars, seenVars
<1>0. /\ BufType /\ Waiting /\ InHand /\ GetArea /\ arrived \in Nat /\ taken \in Nat /\ Len(put) \in Nat
      /\ taken <= arrived /\ Len(get) \in Nat /\ Len(received) \in Nat /\ get # <<>> /\ pc = "idle"
  BY IInvParts DEF GetBuffered, Idle
<1>1. /\ received' = Append(received, Head(get)) /\ get' = Tail(get)
      /\ UNCHANGED <<past, put, unbuffered, pc, op, closing, char, sent, value, ec, kernel, handler,
                     handler_ec, frame, up, eof, arrived, taken, wire, accepted, outcome, failed,
                     connects, fault>>
  BY DEF GetBuffered
<1>2. op = "none"
  BY <1>0 DEF Waiting
<1> DEFINE S == 1..arrived
           R == 0..arrived
<1>3. get \in Seq(S) /\ received \in Seq(R)
  BY <1>0 DEF BufType
<1>4. \A b \in S : b \in R
  BY <1>0
<1> HIDE DEF S, R
<1>5. /\ Head(get) \in S /\ Tail(get) \in Seq(S) /\ Len(Tail(get)) = Len(get) - 1 /\ Len(get) > 0
      /\ \A n \in Int : Follows(get, n) => Head(get) = n + 1 /\ Follows(Tail(get), n + 1)
  BY <1>0, <1>3, TailFollows
<1>6. Head(get) \in R
  BY <1>4, <1>5
<1>7. /\ Append(received, Head(get)) \in Seq(R) /\ Len(Append(received, Head(get))) = Len(received) + 1
      /\ \A n \in Int : Follows(received, n) /\ Head(get) = n + Len(received) + 1
                          => Follows(Append(received, Head(get)), n)
  <2> DEFINE b == Head(get)
  <2>1. b \in R
    BY <1>6
  <2> HIDE DEF b
  <2>2. /\ Append(received, b) \in Seq(R) /\ Len(Append(received, b)) = Len(received) + 1
        /\ \A n \in Int : Follows(received, n) /\ b = n + Len(received) + 1
                            => Follows(Append(received, b), n)
    BY <1>3, <2>1, AppendFollows
  <2> QED BY <2>2 DEF b
<1>8. BufType'
  <2>1. get' \in Seq(1..arrived') /\ received' \in Seq(0..arrived')
    BY <1>1, <1>5, <1>7 DEF S, R
  <2> QED BY <1>0, <1>1, <2>1 DEF BufType
<1>9. Waiting' /\ InHand'
  BY <1>0, <1>1, <1>2 DEF Waiting, InHand
<1>10. Sending' = Sending /\ Pending' = 0 /\ Pending = 0
  BY <1>1, <1>2 DEF Sending, Pending
<1>11. PutArea' /\ SentOnWire' /\ WireOK' /\ SyncOK'
  <2>1. op' # "send"
    BY <1>1, <1>2
  <2> QED BY <1>1, <1>10, <2>1, PutSame
<1>12. GetArea'
  <2>0. ~past
    BY <1>0 DEF GetArea
  <2> SUFFICES ASSUME "get" \notin failed
               PROVE  /\ Len(get)' + Pending' <= taken' /\ Follows(get, taken - Len(get))'
                      /\ Len(received)' = taken' - Len(get)' - Pending' /\ Follows(received, 0)'
    BY <1>1, <2>0 DEF GetArea
  <2>1. /\ Len(get) <= taken /\ Follows(get, taken - Len(get))
        /\ Len(received) = taken - Len(get) /\ Follows(received, 0)
    BY <1>0, <1>10, <2>0 DEF GetArea
  <2>2. /\ Len(get)' = Len(get) - 1 /\ Len(received)' = Len(received) + 1 /\ taken' = taken
        /\ taken - Len(get) \in Int
        /\ (taken - Len(get)) + 1 = taken - (Len(get) - 1)
        /\ (taken - Len(get)) + 1 = 0 + Len(received) + 1 /\ 0 \in Int
    BY <1>0, <1>1, <1>5, <1>7, <2>1
  <2>3. Head(get) = (taken - Len(get)) + 1 /\ Follows(Tail(get), (taken - Len(get)) + 1)
    BY <1>5, <2>1, <2>2
  <2>4. Follows(get', taken' - Len(get)')
    BY <1>1, <2>2, <2>3
  <2>5. Follows(received', 0)
    BY <1>1, <1>7, <2>1, <2>2, <2>3
  <2> QED BY <1>0, <1>10, <2>1, <2>2, <2>4, <2>5
<1> QED BY <1>8, <1>9, <1>11, <1>12 DEF IInv

\* underflow() starts a receive.
LEMMA UnderflowIInv == ASSUME IInv, underflow PROVE IInv'
<1> USE DEF bufVars, callVars, promVars, ioVars, netVars, seenVars
<1>0. BufType /\ Waiting /\ InHand /\ taken \in Nat /\ BufferSize \in Nat
  BY IInvParts
<1>1. /\ get = <<>> /\ ~past /\ pc = "idle" /\ pc' = "call" /\ op' = "receive" /\ value' = -1 /\ ec' = FALSE
      /\ kernel' = TRUE
      /\ UNCHANGED <<get, past, put, unbuffered, closing, char, sent, handler, handler_ec, frame, up,
                     eof, arrived, taken, wire, accepted, received, outcome, failed, connects, fault>>
  BY DEF underflow, Idle, AtEnd, StartOp
<1>2. op = "none" /\ value = -1 /\ frame = FALSE
  BY <1>0, <1>1 DEF Waiting, BufType
<1>3. BufType'
  <2>1. value' \in -1..BufferSize
    BY <1>0, <1>1
  <2> QED BY ZenonT(60), <1>0, <1>1, <2>1 DEF BufType
<1>4. Waiting' /\ InHand'
  BY <1>0, <1>1, <1>2 DEF Waiting, InHand
<1>5. Sending' = Sending /\ Pending' = Pending /\ op' # "send"
  BY <1>1, <1>2 DEF Sending, Pending, Counted
<1>6. PutArea' /\ SentOnWire' /\ WireOK' /\ SyncOK'
  BY <1>1, <1>5, PutSame
<1>7. GetArea'
  BY <1>1, <1>5, GetSame
<1> QED BY <1>3, <1>4, <1>6, <1>7 DEF IInv

\* The call leaves after its wait: no operation is left.
LEMMA LeaveFacts ==
    ASSUME IInv, NEW k \in {"receive", "send", "send_char", "connect"}, Resume(k), LeaveCall,
           pc' \in {"idle", "close"}, UNCHANGED <<kernel, handler, handler_ec, fault>>
    PROVE  /\ Waiting' /\ InHand' /\ op = k /\ value \in Nat
           /\ op' = "none" /\ Sending' = 0 /\ Pending' = 0
           /\ closing' \in BOOLEAN /\ char' \in 0..MaxPut /\ sent' \in 0..BufferSize
           /\ value' \in -1..BufferSize /\ ec' \in BOOLEAN /\ kernel' \in BOOLEAN
           /\ handler' \in {"none", "notify", "notify_last", "code"}
           /\ handler_ec' \in BOOLEAN /\ frame' \in BOOLEAN /\ fault' \in BOOLEAN
<1>0. /\ BufType /\ Waiting /\ value \in Int /\ value >= -1 /\ BufferSize \in Nat /\ MaxPut \in Nat
  BY IInvParts
<1>1. /\ op' = "none" /\ closing' = FALSE /\ char' = 0 /\ sent' = 0 /\ value' = -1 /\ ec' = FALSE
      /\ pc = "result" /\ op = k /\ frame' = FALSE
  BY DEF Resume, LeaveCall
<1>2. value \in Nat /\ kernel = FALSE
  BY <1>0, <1>1 DEF Waiting, BufType
<1>3. char' \in 0..MaxPut /\ sent' \in 0..BufferSize /\ value' \in -1..BufferSize
  BY <1>0, <1>1
<1>4. Sending' = 0 /\ Pending' = 0
  BY <1>1 DEF Sending, Pending
<1>5. Waiting' /\ InHand'
  BY <1>1, <1>2 DEF Waiting, InHand
<1>6. /\ closing' \in BOOLEAN /\ ec' \in BOOLEAN /\ kernel' \in BOOLEAN
      /\ handler' \in {"none", "notify", "notify_last", "code"}
      /\ handler_ec' \in BOOLEAN /\ frame' \in BOOLEAN /\ fault' \in BOOLEAN
  BY <1>0, <1>1 DEF BufType
<1> QED BY <1>1, <1>2, <1>3, <1>4, <1>5, <1>6

\* underflow() returns.
LEMMA UnderflowResultIInv == ASSUME IInv, UnderflowResult PROVE IInv'
<1>0. /\ BufType /\ InHand /\ GetArea /\ taken \in Nat /\ arrived \in Nat /\ taken <= arrived
      /\ Len(received) \in Nat /\ Len(put) \in Nat
  BY IInvParts
<1>1. /\ pc' = "idle" /\ Resume("receive") /\ LeaveCall
      /\ UNCHANGED <<put, unbuffered, kernel, handler, handler_ec, up, eof, arrived, taken, wire,
                     accepted, outcome, connects, fault>>
  BY DEF UnderflowResult, netVars
<1>2. /\ Waiting' /\ InHand' /\ op = "receive" /\ value \in Nat
      /\ op' = "none" /\ Sending' = 0 /\ Pending' = 0
      /\ closing' \in BOOLEAN /\ char' \in 0..MaxPut /\ sent' \in 0..BufferSize
      /\ value' \in -1..BufferSize /\ ec' \in BOOLEAN /\ kernel' \in BOOLEAN
      /\ handler' \in {"none", "notify", "notify_last", "code"}
      /\ handler_ec' \in BOOLEAN /\ frame' \in BOOLEAN /\ fault' \in BOOLEAN
  <2> DEFINE k == "receive"
  <2>1. k \in {"receive", "send", "send_char", "connect"} /\ Resume(k)
    BY <1>1
  <2>2. pc' \in {"idle", "close"} /\ UNCHANGED <<kernel, handler, handler_ec, fault>> /\ LeaveCall
    BY <1>1
  <2> HIDE DEF k
  <2>3. /\ Waiting' /\ InHand' /\ op = k /\ value \in Nat
        /\ op' = "none" /\ Sending' = 0 /\ Pending' = 0
        /\ closing' \in BOOLEAN /\ char' \in 0..MaxPut /\ sent' \in 0..BufferSize
        /\ value' \in -1..BufferSize /\ ec' \in BOOLEAN /\ kernel' \in BOOLEAN
        /\ handler' \in {"none", "notify", "notify_last", "code"}
        /\ handler_ec' \in BOOLEAN /\ frame' \in BOOLEAN /\ fault' \in BOOLEAN
    BY <2>1, <2>2, LeaveFacts
  <2> QED BY <2>3 DEF k
<1>3. /\ get = <<>> /\ Len(get) = 0 /\ past = FALSE /\ value <= taken /\ Pending = value /\ Sending = 0
      /\ Len(<<>>) = 0
  <2>1. get = <<>> /\ past = FALSE /\ value <= taken
    BY <1>0, <1>2 DEF InHand, BufType
  <2>2. Len(<<>>) = 0
    BY EmptySeq
  <2>3. Pending = value /\ Sending = 0
    BY <1>2 DEF Pending, Sending, Counted
  <2> QED BY <2>1, <2>2, <2>3
<1> DEFINE S == 0..arrived
<1>4. received \in Seq(S)
  BY <1>0 DEF BufType
<1>5. "get" \notin failed => Len(received) = taken - value /\ Follows(received, 0)
  BY <1>0, <1>2, <1>3 DEF GetArea
<1>6. CASE failed' = failed \cup {"get"} /\ UNCHANGED <<get, past, received>>
  <2>1. "get" \in failed' /\ failed' \subseteq {"get", "put"} /\ ("put" \in failed => "put" \in failed')
    BY <1>0, <1>6 DEF BufType
  <2>2. BufType'
    BY <1>0, <1>1, <1>2, <1>6, <2>1 DEF BufType
  <2>3. GetArea'
    BY <1>3, <1>6, <2>1 DEF GetArea
  <2>4. PutArea' /\ SentOnWire' /\ WireOK' /\ SyncOK'
    <3>1. op' # "send" /\ Sending' = Sending
      BY <1>2, <1>3
    <3> QED BY <1>1, <2>1, <3>1, PutSame
  <2> QED BY <1>2, <2>2, <2>3, <2>4 DEF IInv
<1>7. CASE /\ value > 0 /\ get' = Bytes(taken - value + 1, taken)
           /\ received' = Append(received, taken - value + 1) /\ UNCHANGED <<past, failed>>
  <2> DEFINE b == taken - value + 1
  <2>1. b \in Nat /\ b <= taken /\ b \in S
    BY <1>0, <1>2, <1>3, <1>7
  <2>2. get' = Bytes(b, taken) /\ received' = Append(received, b)
    BY <1>7
  <2>2b. taken - b = value - 1 /\ b = taken - (value - 1) /\ b = 0 + (taken - value) + 1
    BY <1>0, <1>2
  <2> HIDE DEF b, S
  <2>3. /\ Bytes(b, taken) \in Seq(1..arrived) /\ Len(Bytes(b, taken)) = taken - b
        /\ Follows(Bytes(b, taken), b)
    BY <1>0, <2>1, BytesFollow
  <2>4. /\ Append(received, b) \in Seq(S) /\ Len(Append(received, b)) = Len(received) + 1
        /\ \A n \in Int : Follows(received, n) /\ b = n + Len(received) + 1
                            => Follows(Append(received, b), n)
    BY <1>4, <2>1, AppendFollows
  <2>5. BufType'
    <3>1. get' \in Seq(1..arrived') /\ received' \in Seq(0..arrived')
      BY <1>1, <2>2, <2>3, <2>4 DEF S
    <3>2. past' \in BOOLEAN /\ failed' \subseteq {"get", "put"}
      BY <1>0, <1>7 DEF BufType
    <3> QED BY <1>0, <1>1, <1>2, <3>1, <3>2 DEF BufType
  <2>6. GetArea'
    <3>1. Len(get)' = value - 1 /\ Len(received)' = Len(received) + 1 /\ taken' = taken /\ Follows(get', b)
      BY <1>1, <2>2, <2>2b, <2>3, <2>4
    <3> SUFFICES ASSUME "get" \notin failed
                 PROVE  /\ Len(get)' + Pending' <= taken' /\ Follows(get, taken - Len(get))'
                        /\ Len(received)' = taken' - Len(get)' - Pending' /\ Follows(received, 0)'
      BY <1>3, <1>7 DEF GetArea
    <3>2. Follows(get', taken' - Len(get)')
      BY <2>2b, <3>1
    <3>3. Follows(received', 0)
      <4>1. Len(received) = taken - value /\ Follows(received, 0) /\ 0 \in Int
        BY <1>5
      <4>2. b = 0 + Len(received) + 1
        BY <2>2b, <4>1
      <4> QED BY <2>2, <2>4, <4>1, <4>2
    <3>4. Len(get)' + Pending' <= taken' /\ Len(received)' = taken' - Len(get)' - Pending'
      BY <1>0, <1>2, <1>3, <1>5, <3>1
    <3> QED BY <3>2, <3>3, <3>4
  <2>7. PutArea' /\ SentOnWire' /\ WireOK' /\ SyncOK'
    <3>1. op' # "send" /\ Sending' = Sending /\ failed' = failed
      BY <1>2, <1>3, <1>7
    <3> QED BY <1>1, <3>1, PutSame
  <2> QED BY <1>2, <2>5, <2>6, <2>7 DEF IInv
<1>8. CASE /\ value = 0 /\ past' = TRUE /\ received' = Append(received, 0) /\ UNCHANGED <<get, failed>>
  <2> DEFINE b == 0
  <2>1. b \in S /\ received' = Append(received, b)
    BY <1>0, <1>8
  <2> HIDE DEF b, S
  <2>2. /\ Append(received, b) \in Seq(S) /\ Len(Append(received, b)) = Len(received) + 1
        /\ \A k \in 1..Len(received) : Append(received, b)[k] = received[k]
        /\ Append(received, b)[Len(received) + 1] = b
    BY <1>4, <2>1, AppendFollows
  <2>3. BufType'
    <3>1. received' \in Seq(0..arrived')
      BY <1>1, <2>1, <2>2 DEF S
    <3> QED BY <1>0, <1>1, <1>2, <1>8, <3>1 DEF BufType
  <2>4. GetArea'
    <3>1. ReadOK'
      <4>1. DOMAIN received' = 1..(Len(received) + 1) /\ Len(received') = Len(received) + 1
        BY <2>1, <2>2, LenProperties
      <4> SUFFICES ASSUME "get" \notin failed, NEW i \in 1..(Len(received) + 1)
                   PROVE  received'[i] = i \/ (received'[i] = 0 /\ i = Len(received) + 1)
        BY <1>8, <4>1 DEF ReadOK
      <4>2. i \in 1..Len(received) \/ i = Len(received) + 1
        BY <1>0
      <4>3. ASSUME i \in 1..Len(received) PROVE received[i] = i
        BY <1>5, <4>3 DEF Follows
      <4> QED BY <2>1, <2>2, <4>2, <4>3 DEF b
    <3> QED BY <1>3, <1>8, <3>1 DEF GetArea
  <2>5. PutArea' /\ SentOnWire' /\ WireOK' /\ SyncOK'
    <3>1. op' # "send" /\ Sending' = Sending /\ failed' = failed
      BY <1>2, <1>3, <1>8
    <3> QED BY <1>1, <3>1, PutSame
  <2> QED BY <1>2, <2>3, <2>4, <2>5 DEF IInv
<1> QED BY <1>6, <1>7, <1>8 DEF UnderflowResult

\* Between two calls nothing is under way.
LEMMA IdleFacts ==
    ASSUME IInv, pc \in {"idle", "close"}
    PROVE  /\ op = "none" /\ value = -1 /\ kernel = FALSE /\ frame = FALSE
           /\ Counted = 0 /\ Sending = 0 /\ Pending = 0 /\ Done = accepted - Len(put)
<1>0. BufType /\ Waiting /\ accepted \in Nat /\ Len(put) \in Nat
  BY IInvParts
<1>1. op = "none" /\ value = -1 /\ kernel = FALSE /\ frame = FALSE
  BY <1>0 DEF Waiting, BufType
<1>2. Counted = 0 /\ Sending = 0 /\ Pending = 0
  BY <1>1 DEF Counted, Sending, Pending
<1> QED BY <1>0, <1>1, <1>2 DEF Done

\* A byte is put into the put area.
LEMMA PutBufferedIInv == ASSUME IInv, PutBuffered PROVE IInv'
<1> USE DEF bufVars, callVars, promVars, ioVars, netVars, seenVars
<1>0. /\ BufType /\ Waiting /\ PutArea /\ SentOnWire /\ WireOK /\ accepted \in Nat /\ Len(put) \in Nat
      /\ BufferSize \in Nat /\ MaxPut \in Nat
  BY IInvParts
<1>1. /\ pc = "idle" /\ pc' = "idle" /\ accepted < MaxPut /\ ~unbuffered /\ Len(put) < BufferSize
      /\ put' = Append(put, accepted + 1)
      /\ op' = "none" /\ closing' = FALSE /\ char' = 0 /\ sent' = 0 /\ value' = -1 /\ ec' = FALSE
      /\ UNCHANGED <<get, past, unbuffered, kernel, handler, handler_ec, frame, up, eof, arrived, taken,
                     wire, received, connects, fault>>
  BY DEF PutBuffered, MayPut, Idle, Return, LeaveCall
<1>2. outcome' = "ok" /\ failed' = failed /\ accepted' = accepted + 1
  <2>1. accepted + 1 # 0
    BY <1>0
  <2> QED BY <2>1 DEF PutBuffered, Return
<1>3. /\ op = "none" /\ value = -1 /\ kernel = FALSE /\ frame = FALSE
      /\ Counted = 0 /\ Sending = 0 /\ Pending = 0 /\ Done = accepted - Len(put)
  BY <1>1, IdleFacts
<1> DEFINE S == 1..MaxPut
           b == accepted + 1
<1>4. put \in Seq(S) /\ b \in S /\ put' = Append(put, b) /\ b = (accepted - Len(put)) + Len(put) + 1
  BY <1>0, <1>1 DEF BufType
<1> HIDE DEF S, b
<1>5. /\ Append(put, b) \in Seq(S) /\ Len(Append(put, b)) = Len(put) + 1
      /\ \A n \in Int : Follows(put, n) /\ b = n + Len(put) + 1 => Follows(Append(put, b), n)
  BY <1>4, AppendFollows
<1>6. put' \in Seq(1..MaxPut) /\ Len(put)' = Len(put) + 1
  BY <1>4, <1>5 DEF S
<1>7. BufType'
  <2>1. /\ char' \in 0..MaxPut /\ sent' \in 0..BufferSize /\ value' \in -1..BufferSize
        /\ accepted' \in 0..MaxPut /\ Len(put)' <= BufferSize
    BY <1>0, <1>1, <1>2, <1>6
  <2> QED BY <1>0, <1>1, <1>2, <1>6, <2>1 DEF BufType
<1>8. Waiting' /\ InHand'
  BY <1>1, <1>3 DEF Waiting, InHand
<1>9. PutArea'
  <2>1. /\ accepted - Len(put) \in Int /\ accepted' - Len(put)' = accepted - Len(put)
        /\ Len(put)' <= accepted'
    BY <1>0, <1>2, <1>6 DEF PutArea
  <2>2. Follows(put', accepted' - Len(put)')
    BY <1>0, <1>4, <1>5, <2>1 DEF PutArea
  <2> QED BY <1>1, <2>1, <2>2 DEF PutArea
<1>10. Sending' = 0 /\ Pending' = Pending
  BY <1>1, <1>3 DEF Sending, Pending
<1>11. Done' = Done
  BY <1>0, <1>2, <1>3, <1>6, <1>10 DEF Done
<1>12. SentOnWire' /\ WireOK'
  BY <1>0, <1>1, <1>2, <1>11 DEF SentOnWire, WireOK, OnWire, Follows
<1>13. SyncOK'
  BY <1>2 DEF SyncOK
<1>14. GetArea'
  BY <1>1, <1>2, <1>10, GetSame
<1> QED BY <1>7, <1>8, <1>9, <1>12, <1>13, <1>14 DEF IInv

\* overflow() starts to send.
LEMMA OverflowIInv ==
    ASSUME IInv, Idle, NEW c \in 0..MaxPut, NEW forClose \in BOOLEAN,
           \/ OverflowChar(c) /\ c = accepted + 1
           \/ OverflowBuffer(c, forClose) /\ c \in {0, accepted + 1} /\ (forClose => c = 0),
           UNCHANGED <<handler, handler_ec, frame, up, eof, arrived, taken, wire, received,
                       connects, fault>>
    PROVE  IInv'
<1>0. BufType /\ Waiting /\ Len(put) \in Nat /\ BufferSize \in Nat
  BY IInvParts
<1>1. /\ op = "none" /\ value = -1 /\ kernel = FALSE /\ frame = FALSE
      /\ Counted = 0 /\ Sending = 0 /\ Pending = 0
  BY IdleFacts DEF Idle
<1>2. /\ op' \in {"send", "send_char"} /\ pc' = "call" /\ value' = -1 /\ ec' = FALSE /\ kernel' = TRUE
      /\ char' = c /\ sent' = 0 /\ closing' \in BOOLEAN
      /\ UNCHANGED <<get, past, put, unbuffered, accepted, outcome, failed>>
      /\ op' = "send" => ~unbuffered /\ put # <<>> /\ c \in {0, accepted + 1} /\ (closing' => c = 0)
      /\ op' = "send_char" => unbuffered /\ c = accepted + 1
  <2>1. CASE OverflowChar(c) /\ c = accepted + 1
    BY <2>1 DEF OverflowChar, StartOp, bufVars
  <2>2. CASE OverflowBuffer(c, forClose) /\ c \in {0, accepted + 1} /\ (forClose => c = 0)
    <3>1. closing' = forClose /\ op' # "send_char"
      BY <2>2 DEF OverflowBuffer, StartOp
    <3> QED BY <2>2, <3>1 DEF OverflowBuffer, StartOp, bufVars
  <2> QED BY <2>1, <2>2
<1>3. BufType'
  <2>1. char' \in 0..MaxPut /\ sent' \in 0..BufferSize /\ value' \in -1..BufferSize
    BY <1>0, <1>2
  <2> QED BY ZenonT(60), <1>0, <1>2, <2>1 DEF BufType
<1>4. Waiting' /\ InHand'
  <2>1. /\ frame' = FALSE /\ pc' \notin {"idle", "close"} /\ op' # "none" /\ op' # "receive" /\ op' # "connect"
        /\ pc' # "result"
    BY <1>1, <1>2
  <2> QED BY <1>2, <2>1 DEF Waiting, InHand
<1>5. Counted' = 0 /\ Sending' = Sending /\ Pending' = Pending
  BY <1>1, <1>2 DEF Sending, Pending, Counted
<1>6. op' = "send" => sent' + Counted' <= Len(put)
  BY <1>0, <1>2, <1>5
<1>7. PutArea' /\ SentOnWire' /\ WireOK' /\ SyncOK'
  BY <1>2, <1>5, <1>6, PutSame
<1>8. GetArea'
  BY <1>2, <1>5, GetSame
<1> QED BY <1>3, <1>4, <1>7, <1>8 DEF IInv

\* sputc() without room starts to send.
LEMMA PutOverflowIInv == ASSUME IInv, PutOverflow PROVE IInv'
<1> DEFINE c == accepted + 1
<1>1. accepted \in Nat /\ MaxPut \in Nat
  BY IInvParts
<1>2. c \in 0..MaxPut /\ FALSE \in BOOLEAN
  BY <1>1 DEF PutOverflow, MayPut
<1>3. /\ UNCHANGED <<handler, handler_ec, frame, up, eof, arrived, taken, wire, received, connects, fault>>
      /\ Idle /\ (OverflowChar(c) \/ OverflowBuffer(c, FALSE)) /\ c = accepted + 1
  BY DEF PutOverflow, MayPut, netVars
<1> HIDE DEF c
<1> QED BY <1>2, <1>3, OverflowIInv

\* sync() starts to send, or has nothing to send.
LEMMA SyncIInv == ASSUME IInv, sync PROVE IInv'
<1>0. BufType /\ Waiting /\ SentOnWire /\ accepted \in Nat /\ MaxPut \in Nat /\ BufferSize \in Nat
  BY IInvParts
<1>1. /\ pc = "idle" /\ Idle
      /\ UNCHANGED <<handler, handler_ec, frame, up, eof, arrived, taken, wire, received, connects, fault>>
  BY DEF sync, Idle, netVars
<1>2. CASE OverflowBuffer(0, FALSE)
  <2>1. 0 \in 0..MaxPut /\ FALSE \in BOOLEAN
    BY <1>0
  <2> QED BY <1>1, <1>2, <2>1, OverflowIInv
<1>3. CASE NothingToSend /\ Return("ok", 0) /\ UNCHANGED <<bufVars, named, kernel>>
  <2>1. /\ put = <<>> /\ pc' = "idle" /\ outcome' = "synced" /\ failed' = failed /\ accepted' = accepted
        /\ op' = "none" /\ closing' = FALSE /\ char' = 0 /\ sent' = 0 /\ value' = -1 /\ ec' = FALSE
        /\ UNCHANGED <<get, past, put, unbuffered, kernel>>
    BY <1>3 DEF NothingToSend, Return, LeaveCall, bufVars
  <2>2. /\ op = "none" /\ value = -1 /\ kernel = FALSE /\ frame = FALSE
        /\ Sending = 0 /\ Pending = 0 /\ Done = accepted - Len(put)
    BY <1>1, IdleFacts
  <2>3. Done = accepted
    <3>1. Len(put) = 0
      BY <2>1, EmptySeq
    <3> QED BY <1>0, <2>2, <3>1
  <2>4. BufType'
    <3>1. char' \in 0..MaxPut /\ sent' \in 0..BufferSize /\ value' \in -1..BufferSize
      BY <1>0, <2>1
    <3> QED BY ZenonT(60), <1>0, <1>1, <2>1, <3>1 DEF BufType
  <2>5. Waiting' /\ InHand'
    BY <1>1, <2>1, <2>2 DEF Waiting, InHand
  <2>6. Sending' = Sending /\ Pending' = Pending /\ op' # "send" /\ Done' = Done
    BY <2>1, <2>2 DEF Sending, Pending, Done
  <2>7. PutArea' /\ SentOnWire' /\ WireOK'
    BY <1>1, <2>1, <2>6, IInvParts DEF PutArea, SentOnWire, WireOK, OnWire, Follows
  <2>8. SyncOK'
    BY <1>0, <1>1, <2>1, <2>3 DEF SyncOK, SentOnWire, OnWire
  <2>9. GetArea'
    BY <1>1, <2>1, <2>6, GetSame
  <2> QED BY <2>4, <2>5, <2>7, <2>8, <2>9 DEF IInv
<1> QED BY <1>2, <1>3 DEF sync

\* setbuf( 0, 0 ): nothing is in the put area.
LEMMA SetbufIInv == ASSUME IInv, setbuf PROVE IInv'
<1> USE DEF bufVars, callVars, promVars, ioVars, netVars, seenVars
<1>0. BufType /\ Waiting /\ PutArea /\ WireOK
  BY IInvParts
<1>1. /\ pc = "idle" /\ ~unbuffered /\ put = <<>> /\ unbuffered' = TRUE
      /\ UNCHANGED <<get, past, put, pc, op, closing, char, sent, value, ec, kernel, handler,
                     handler_ec, frame, up, eof, arrived, taken, wire, accepted, received, outcome,
                     failed, connects, fault>>
  BY DEF setbuf, Idle
<1>2. op = "none"
  BY <1>1, IdleFacts
<1>3. BufType'
  BY <1>0, <1>1 DEF BufType
<1>4. Waiting' /\ InHand'
  BY <1>0, <1>1, <1>2 DEF Waiting, InHand
<1>5. Done' = Done /\ Pending' = Pending
  BY <1>1 DEF Done, Sending, Pending, Counted
<1>6. PutArea' /\ SentOnWire' /\ SyncOK'
  BY <1>0, <1>1, <1>2 DEF PutArea, SentOnWire, SyncOK, Follows
<1>7. WireOK'
  BY <1>0, <1>1, <1>5 DEF WireOK, Follows
<1>8. GetArea'
  BY <1>1, <1>5, GetSame
<1> QED BY <1>3, <1>4, <1>6, <1>7, <1>8 DEF IInv

\* A send came back.
LEMMA OverflowResultIInv == ASSUME IInv, OverflowResult PROVE IInv'
<1>0. /\ BufType /\ Waiting /\ InHand /\ PutArea /\ SentOnWire /\ WireOK /\ SyncOK
      /\ accepted \in Nat /\ Len(put) \in Nat /\ sent \in Nat /\ value \in Int /\ value >= -1
      /\ Len(wire) \in Nat /\ BufferSize \in Nat /\ MaxPut \in Nat /\ char \in Nat
  BY IInvParts
<1>1. /\ Resume("send") /\ pc = "result" /\ op = "send" /\ frame' = FALSE
      /\ UNCHANGED <<get, past, unbuffered, handler, handler_ec, up, eof, arrived, taken, wire,
                     received, connects, fault>>
  BY DEF OverflowResult, Resume, netVars
<1>2. /\ value \in Nat /\ Counted = value /\ Sending = sent + value /\ Pending = 0
      /\ Done = accepted - Len(put) + (sent + value) /\ sent + value <= Len(put)
  <2>1. value \in Nat
    BY <1>0, <1>1 DEF Waiting
  <2>2. Counted = value
    BY <2>1 DEF Counted
  <2> QED BY <1>0, <1>1, <2>1, <2>2 DEF Sending, Pending, Done, PutArea
<1>3. /\ ~unbuffered /\ put # <<>> /\ char \in {0, accepted + 1} /\ (closing => char = 0)
      /\ kernel = FALSE /\ put \in Seq(1..MaxPut) /\ Len(put) <= BufferSize
  BY <1>0, <1>1, <1>2 DEF InHand, Waiting, BufType
<1>4. ASSUME LeaveCall, pc' \in {"idle", "close"}, kernel' = kernel
      PROVE  /\ Waiting' /\ InHand'
             /\ op' = "none" /\ Sending' = 0 /\ Pending' = 0
             /\ closing' \in BOOLEAN /\ char' \in 0..MaxPut /\ sent' \in 0..BufferSize
             /\ value' \in -1..BufferSize /\ ec' \in BOOLEAN /\ kernel' \in BOOLEAN
             /\ handler' \in {"none", "notify", "notify_last", "code"}
             /\ handler_ec' \in BOOLEAN /\ frame' \in BOOLEAN /\ fault' \in BOOLEAN
  <2> DEFINE k == "send"
  <2>1. /\ k \in {"receive", "send", "send_char", "connect"} /\ Resume(k)
        /\ UNCHANGED <<kernel, handler, handler_ec, fault>>
    BY <1>1, <1>4
  <2> HIDE DEF k
  <2> QED BY <1>4, <2>1, LeaveFacts
<1>5. CASE /\ pc' = IF closing THEN "close" ELSE "idle"
           /\ LeaveCall
           /\ outcome' = "eof" /\ failed' = failed \cup {"put"}
           /\ UNCHANGED <<put, kernel, accepted>>
  <2>1. /\ pc' \in {"idle", "close"} /\ LeaveCall /\ kernel' = kernel /\ "put" \in failed'
        /\ ("get" \in failed => "get" \in failed') /\ failed' \subseteq {"get", "put"}
    BY <1>0, <1>5 DEF BufType
  <2>2. /\ Waiting' /\ InHand' /\ op' = "none" /\ Sending' = 0 /\ Pending' = 0
        /\ closing' \in BOOLEAN /\ char' \in 0..MaxPut /\ sent' \in 0..BufferSize
        /\ value' \in -1..BufferSize /\ ec' \in BOOLEAN /\ kernel' \in BOOLEAN
        /\ handler' \in {"none", "notify", "notify_last", "code"}
        /\ handler_ec' \in BOOLEAN /\ frame' \in BOOLEAN /\ fault' \in BOOLEAN
    BY <1>4, <2>1
  <2>3. BufType'
    BY <1>0, <1>1, <1>5, <2>1, <2>2 DEF BufType
  <2>4. GetArea'
    BY <1>1, <1>2, <2>1, <2>2, GetSame
  <2>5. PutArea' /\ WireOK' /\ SyncOK'
    BY <1>0, <1>1, <1>5, <2>1, <2>2 DEF PutArea, WireOK, SyncOK, Follows
  <2>6. Done' = accepted - Len(put)
    BY <1>0, <1>5, <2>2 DEF Done
  <2>7. \A b \in 1..Done' : b \in 1..Done
    BY <1>0, <1>2, <2>6
  <2>8. SentOnWire'
    BY <1>0, <1>1, <2>7 DEF SentOnWire, OnWire
  <2> QED BY <2>2, <2>3, <2>4, <2>5, <2>8 DEF IInv
<1>6. CASE /\ sent' = sent + value
           /\ StartOp("send")
           /\ UNCHANGED <<put, closing, char, accepted, outcome, failed>>
  <2>1. op' = "send" /\ pc' = "call" /\ value' = -1 /\ ec' = FALSE /\ kernel' = TRUE
    BY <1>6 DEF StartOp
  <2>2. BufType'
    <3>1. sent' \in 0..BufferSize /\ value' \in -1..BufferSize
      BY <1>0, <1>2, <1>3, <1>6, <2>1
    <3> QED BY ZenonT(60), <1>0, <1>1, <1>6, <2>1, <3>1 DEF BufType
  <2>3. Waiting' /\ InHand'
    <3>1. InHand'
      BY <1>1, <1>3, <1>6, <2>1 DEF InHand
    <3> QED BY <1>1, <2>1, <3>1 DEF Waiting
  <2>4. Counted' = 0 /\ Sending' = Sending /\ Pending' = Pending
    <3>1. Counted' = 0
      BY <2>1 DEF Counted
    <3> QED BY <1>0, <1>2, <1>6, <2>1, <3>1 DEF Sending, Pending
  <2>5. op' = "send" => sent' + Counted' <= Len(put)
    BY <1>0, <1>2, <1>6, <2>4
  <2>6. PutArea' /\ SentOnWire' /\ WireOK' /\ SyncOK'
    BY <1>1, <1>6, <2>4, <2>5, PutSame
  <2>7. GetArea'
    BY <1>1, <1>6, <2>4, GetSame
  <2> QED BY <2>2, <2>3, <2>6, <2>7 DEF IInv
<1>7. CASE /\ sent + value = Len(put)
           /\ put' = PutAfter(char)
           /\ LeaveCall /\ pc' \in {"idle", "close"}
           /\ failed' = failed
           /\ accepted' = IF char # 0 THEN char ELSE accepted
           /\ \/ outcome' = IF char = 0 THEN "synced" ELSE "ok"
              \/ outcome' = outcome /\ char = 0
           /\ UNCHANGED kernel
  <2>1. /\ Waiting' /\ InHand' /\ op' = "none" /\ Sending' = 0 /\ Pending' = 0
        /\ closing' \in BOOLEAN /\ char' \in 0..MaxPut /\ sent' \in 0..BufferSize
        /\ value' \in -1..BufferSize /\ ec' \in BOOLEAN /\ kernel' \in BOOLEAN
        /\ handler' \in {"none", "notify", "notify_last", "code"}
        /\ handler_ec' \in BOOLEAN /\ frame' \in BOOLEAN /\ fault' \in BOOLEAN
    BY <1>4, <1>7
  <2>2. Done = accepted
    BY <1>0, <1>2, <1>7
  <2>3. /\ put' \in Seq(1..MaxPut) /\ Len(put)' \in {0, 1} /\ accepted' \in 0..MaxPut
        /\ accepted' - Len(put)' = accepted /\ Follows(put', accepted) /\ Len(put)' <= accepted'
    <3>1. CASE char = 0
      <4>1. put' = <<>> /\ accepted' = accepted
        BY <1>7, <3>1 DEF PutAfter
      <4>2. <<>> \in Seq(1..MaxPut) /\ Len(<<>>) = 0
        BY EmptySeq
      <4>3. Follows(<<>>, accepted)
        BY <4>2 DEF Follows
      <4>4. accepted \in 0..MaxPut
        BY <1>0 DEF BufType
      <4>5. accepted - 0 = accepted /\ 0 <= accepted
        BY <1>0
      <4> QED BY <4>1, <4>2, <4>3, <4>4, <4>5
    <3>2. CASE char # 0
      <4>1. char = accepted + 1 /\ char \in 1..MaxPut
        BY <1>0, <1>3, <3>2 DEF BufType
      <4>2. put' = <<char>> /\ accepted' = char
        BY <1>7, <3>2 DEF PutAfter
      <4> DEFINE p == <<char>>
      <4>3. p \in Seq(1..MaxPut) /\ Len(p) = 1 /\ p[1] = char
        BY <4>1
      <4>4. Follows(p, accepted)
        BY <1>0, <4>1, <4>3 DEF Follows
      <4>5. char - 1 = accepted /\ 1 <= char /\ char \in 0..MaxPut
        BY <1>0, <4>1
      <4>6. put' = p
        BY <4>2
      <4> HIDE DEF p
      <4> QED BY <4>2, <4>3, <4>4, <4>5, <4>6
    <3> QED BY <3>1, <3>2
  <2>4. BufType'
    <3>1. Len(put)' <= BufferSize
      <4>1. 0 <= BufferSize /\ 1 <= BufferSize
        BY IInvParts
      <4> QED BY <2>3, <4>1
    <3>2. outcome' \in {"none", "ok", "synced", "eof"}
      BY <1>0, <1>7 DEF BufType
    <3> QED BY <1>0, <1>1, <1>7, <2>1, <2>3, <3>1, <3>2 DEF BufType
  <2>5. GetArea'
    BY <1>1, <1>2, <1>7, <2>1, GetSame
  <2>6. PutArea'
    BY <1>1, <1>3, <2>1, <2>3 DEF PutArea
  <2>7. Done' = Done
    <3>1. Done' = accepted' - Len(put)' + 0
      BY <2>1 DEF Done
    <3> QED BY <1>0, <2>2, <2>3, <3>1
  <2>8. SentOnWire' /\ WireOK'
    BY <1>0, <1>1, <1>7, <2>7 DEF SentOnWire, WireOK, OnWire, Follows
  <2>9. SyncOK'
    <3> SUFFICES ASSUME outcome' = "synced", NEW b \in 1..accepted' PROVE OnWire(b)'
      BY DEF SyncOK, OnWire
    <3>1. char = 0 /\ accepted' = accepted
      BY <1>7
    <3> QED BY <1>0, <1>1, <1>3, <2>2, <3>1 DEF SentOnWire, OnWire
  <2> QED BY <2>1, <2>4, <2>5, <2>6, <2>8, <2>9 DEF IInv
<1>8. \/ /\ pc' = IF closing THEN "close" ELSE "idle"
         /\ LeaveCall
         /\ outcome' = "eof" /\ failed' = failed \cup {"put"}
         /\ UNCHANGED <<put, kernel, accepted>>
      \/ /\ sent' = sent + value
         /\ StartOp("send")
         /\ UNCHANGED <<put, closing, char, accepted, outcome, failed>>
      \/ /\ SentAll(sent + value)
         /\ put' = PutAfter(char)
         /\ Return("ok", char)
         /\ UNCHANGED kernel
      \/ /\ SentAll(sent + value) /\ closing
         /\ put' = PutAfter(char)
         /\ pc' = "close"
         /\ LeaveCall
         /\ UNCHANGED <<kernel, accepted, outcome, failed>>
  BY DEF OverflowResult
<1>9. ASSUME SentAll(sent + value), Return("ok", char)
      PROVE  /\ sent + value = Len(put) /\ LeaveCall /\ pc' \in {"idle", "close"} /\ failed' = failed
             /\ accepted' = IF char # 0 THEN char ELSE accepted
             /\ outcome' = IF char = 0 THEN "synced" ELSE "ok"
  BY <1>9 DEF SentAll, Return
<1>10. ASSUME SentAll(sent + value), closing, pc' = "close", UNCHANGED <<kernel, accepted, outcome, failed>>
       PROVE  /\ sent + value = Len(put) /\ pc' \in {"idle", "close"} /\ failed' = failed
              /\ accepted' = IF char # 0 THEN char ELSE accepted
              /\ outcome' = outcome /\ char = 0
  BY <1>3, <1>10 DEF SentAll
<1> QED BY <1>5, <1>6, <1>7, <1>8, <1>9, <1>10

\* The send of an unbuffered byte came back.
LEMMA OverflowCharResultIInv == ASSUME IInv, OverflowCharResult PROVE IInv'
<1>0. /\ BufType /\ Waiting /\ InHand /\ PutArea /\ WireOK
      /\ accepted \in Nat /\ value \in Int /\ value >= -1 /\ MaxPut \in Nat /\ char \in Nat
  BY IInvParts
<1>1. /\ op = "send_char" /\ pc = "result" /\ pc' = "idle" /\ LeaveCall /\ Resume("send_char")
      /\ UNCHANGED <<get, past, put, unbuffered, kernel, handler, handler_ec, up, eof, arrived, taken,
                     wire, received, connects, fault>>
  BY DEF OverflowCharResult, Resume, Return, netVars, bufVars
<1>2. /\ Waiting' /\ InHand' /\ value \in Nat
      /\ op' = "none" /\ Sending' = 0 /\ Pending' = 0
      /\ closing' \in BOOLEAN /\ char' \in 0..MaxPut /\ sent' \in 0..BufferSize
      /\ value' \in -1..BufferSize /\ ec' \in BOOLEAN /\ kernel' \in BOOLEAN
      /\ handler' \in {"none", "notify", "notify_last", "code"}
      /\ handler_ec' \in BOOLEAN /\ frame' \in BOOLEAN /\ fault' \in BOOLEAN
  <2> DEFINE k == "send_char"
  <2>1. k \in {"receive", "send", "send_char", "connect"} /\ Resume(k) /\ LeaveCall
    BY <1>1
  <2>2. pc' \in {"idle", "close"} /\ UNCHANGED <<kernel, handler, handler_ec, fault>>
    BY <1>1
  <2> HIDE DEF k
  <2> QED BY <2>1, <2>2, LeaveFacts
<1>3. /\ unbuffered /\ put = <<>> /\ Len(put) = 0 /\ char = accepted + 1 /\ char # 0
      /\ (up => value = 1) /\ char \in 0..MaxPut
  <2>1. unbuffered /\ char = accepted + 1 /\ (up => value \in {-1, 1}) /\ put = <<>> /\ char \in 0..MaxPut
    BY <1>0, <1>1 DEF InHand, PutArea, BufType
  <2> QED BY <1>0, <1>2, <2>1, EmptySeq
<1>4. /\ outcome' \in {"ok", "eof"} /\ accepted' \in {accepted, char}
      /\ failed' \subseteq {"get", "put"} /\ ("get" \in failed => "get" \in failed')
      /\ \/ "put" \in failed'
         \/ failed' = failed /\ accepted' = char
  <2>1. CASE ec
    BY <1>0, <2>1 DEF OverflowCharResult, Return, BufType
  <2>2. CASE ~ec
    BY <1>0, <1>3, <2>2 DEF OverflowCharResult, Return, BufType
  <2> QED BY <2>1, <2>2
<1>5. accepted' \in 0..MaxPut /\ accepted' \in Nat
  BY <1>0, <1>3, <1>4 DEF BufType
<1>6. BufType'
  BY <1>0, <1>1, <1>2, <1>4, <1>5 DEF BufType
<1>7. Pending = 0
  BY <1>1 DEF Pending
<1>8. GetArea'
  BY <1>1, <1>2, <1>4, <1>7, GetSame
<1>9. PutArea' /\ SentOnWire' /\ SyncOK'
  <2>1. Len(put)' = 0 /\ put' = <<>> /\ unbuffered' /\ op' = "none"
    BY <1>1, <1>2, <1>3
  <2> QED BY <1>5, <2>1 DEF PutArea, SentOnWire, SyncOK, Follows
<1>10. WireOK'
  <2> SUFFICES ASSUME "put" \notin failed' PROVE Follows(wire, 0) /\ (up => Len(wire) = Done')
    BY <1>1, <1>3 DEF WireOK, Follows
  <2>1. failed' = failed /\ accepted' = accepted + 1
    BY <1>3, <1>4
  <2>2. Follows(wire, 0) /\ (up => Len(wire) = Done)
    BY <1>0, <2>1 DEF WireOK
  <2>3. up => Done = Done'
    <3> SUFFICES ASSUME up PROVE Done = Done'
      OBVIOUS
    <3>1. Sending = 1
      BY <1>1, <1>3 DEF Sending, Counted
    <3>2. Done = accepted - 0 + 1
      BY <1>3, <3>1 DEF Done
    <3>3. Done' = accepted + 1 - 0 + 0
      BY <1>1, <1>2, <1>3, <2>1 DEF Done
    <3> QED BY <1>0, <3>2, <3>3
  <2> QED BY <2>2, <2>3
<1> QED BY <1>2, <1>6, <1>8, <1>9, <1>10 DEF IInv

-----------------------------------------------------------------------------
(* Connections *)

\* connect( endpoint ) starts over.
LEMMA ConnectIInv == ASSUME IInv, connect \/ resolve_and_connect PROVE IInv'
<1> USE DEF bufVars, callVars, promVars, ioVars
<1>0. BufType /\ Waiting /\ MaxPut \in Nat /\ MaxArrive \in Nat /\ BufferSize \in Nat /\ connects \in Nat
  BY IInvParts DEF BufType
<1>1. /\ pc = "idle" /\ init_buffers /\ NewConnection /\ connects < MaxConnects /\ connects' = connects + 1
      /\ UNCHANGED <<unbuffered, closing, char, sent, handler, handler_ec, frame, fault>>
      /\ up' \in BOOLEAN
  BY DEF connect, resolve_and_connect, Idle
<1>2. /\ op = "none" /\ value = -1 /\ kernel = FALSE /\ frame = FALSE
  BY <1>1, IdleFacts
<1>3. /\ value' = -1 /\ ec' \in BOOLEAN
      /\ \/ pc' = "call" /\ op' = "connect" /\ kernel' = TRUE
         \/ pc' = "idle" /\ op' = "none" /\ kernel' = FALSE
  <2>1. CASE connect
    BY <2>1 DEF connect, StartOp
  <2>2. CASE resolve_and_connect
    BY <1>0, <1>1, <1>2, <2>2 DEF resolve_and_connect, BufType
  <2> QED BY <2>1, <2>2
<1>4. /\ PutArea' /\ SentOnWire' /\ WireOK' /\ GetArea' /\ SyncOK'
      /\ get' \in Seq(1..0) /\ put' \in Seq(1..MaxPut) /\ Len(put') = 0
      /\ wire' \in Seq(1..MaxPut) /\ received' \in Seq(0..0)
      /\ past' = FALSE /\ arrived' = 0 /\ taken' = 0 /\ accepted' = 0 /\ outcome' = "none"
      /\ failed' = {} /\ eof' = FALSE /\ wire' = <<>> /\ put' = <<>>
  <2>1. op' \in {"none", "connect"}
    BY <1>3
  <2> QED BY <1>1, <2>1, NewSame
<1>5. Waiting' /\ InHand'
  <2>1. frame' = FALSE /\ op' \notin {"send", "send_char", "receive"}
    BY <1>1, <1>2, <1>3
  <2>2. InHand'
    BY <1>4, <2>1 DEF InHand
  <2> QED BY <1>3, <2>1, <2>2 DEF Waiting
<1>6. BufType'
  <2>1. /\ get' \in Seq(1..arrived') /\ received' \in Seq(0..arrived')
    BY <1>4
  <2>2. /\ arrived' \in 0..MaxArrive /\ taken' \in 0..arrived' /\ accepted' \in 0..MaxPut
        /\ value' \in -1..BufferSize /\ Len(put') <= BufferSize
    BY <1>0, <1>3, <1>4
  <2>3. connects' \in 0..MaxConnects
    BY <1>0, <1>1, BoundAssumption
  <2>4. /\ pc' \in {"idle", "call", "enqueued", "blocked", "result", "close"}
        /\ op' \in {"none", "receive", "send", "send_char", "connect"} /\ kernel' \in BOOLEAN
    BY <1>3
  <2>5. /\ past' \in BOOLEAN /\ eof' \in BOOLEAN /\ failed' \subseteq {"get", "put"}
        /\ outcome' \in {"none", "ok", "synced", "eof"}
    BY <1>4
  <2> QED BY <1>0, <1>1, <1>3, <1>4, <2>1, <2>2, <2>3, <2>4, <2>5 DEF BufType
<1> QED BY <1>4, <1>5, <1>6 DEF IInv

\* connect() returns.
LEMMA ConnectResultIInv == ASSUME IInv, ConnectResult PROVE IInv'
<1>1. /\ op = "connect" /\ pc' = "idle" /\ LeaveCall /\ Resume("connect")
      /\ UNCHANGED <<get, past, put, unbuffered, kernel, handler, handler_ec, up, eof, arrived, taken,
                     wire, accepted, received, outcome, failed, connects, fault>>
  BY DEF ConnectResult, Resume, netVars, bufVars, seenVars
<1>2. /\ Waiting' /\ InHand' /\ op' = "none" /\ Sending' = 0 /\ Pending' = 0
      /\ closing' \in BOOLEAN /\ char' \in 0..MaxPut /\ sent' \in 0..BufferSize
      /\ value' \in -1..BufferSize /\ ec' \in BOOLEAN /\ kernel' \in BOOLEAN
      /\ handler' \in {"none", "notify", "notify_last", "code"}
      /\ handler_ec' \in BOOLEAN /\ frame' \in BOOLEAN /\ fault' \in BOOLEAN
  <2> DEFINE k == "connect"
  <2>1. k \in {"receive", "send", "send_char", "connect"} /\ Resume(k) /\ LeaveCall
    BY <1>1
  <2>2. pc' \in {"idle", "close"} /\ UNCHANGED <<kernel, handler, handler_ec, fault>>
    BY <1>1
  <2> HIDE DEF k
  <2> QED BY <2>1, <2>2, LeaveFacts
<1>3. BufType'
  BY <1>1, <1>2, IInvParts DEF BufType
<1>4. Sending = 0 /\ Pending = 0 /\ op' # "send"
  BY <1>1, <1>2 DEF Sending, Pending
<1>5. PutArea' /\ SentOnWire' /\ WireOK' /\ SyncOK'
  BY <1>1, <1>2, <1>4, PutSame
<1>6. GetArea'
  BY <1>1, <1>2, <1>4, GetSame
<1> QED BY <1>2, <1>3, <1>5, <1>6 DEF IInv

\* Steps of the peer, and those of close() that do not send.
LEMMA PeerIInv ==
    ASSUME IInv,
           UNCHANGED <<get, past, put, unbuffered, op, closing, char, sent, value, ec, kernel, handler,
                       handler_ec, frame, taken, wire, accepted, received, outcome, failed,
                       connects, fault>>,
           pc' = pc \/ (pc \in {"idle", "close"} /\ pc' \in {"idle", "close"}),
           up' \in {up, FALSE}, eof' \in BOOLEAN,
           arrived' \in {arrived, arrived + 1}, arrived' \in 0..MaxArrive
    PROVE  IInv'
<1>0. BufType /\ Waiting /\ InHand /\ PutArea /\ arrived \in Nat /\ taken \in Nat /\ taken <= arrived
  BY IInvParts
<1>1. Waiting'
  BY <1>0 DEF Waiting
<1>2. InHand'
  <2>1. up' => up
    BY <1>0 DEF BufType
  <2> QED BY <1>0, <2>1 DEF InHand
<1>3. arrived <= arrived' /\ arrived' \in Nat
  BY <1>0
<1>4. get \in Seq(1..arrived') /\ received \in Seq(0..arrived')
  <2>1. get \in Seq(1..arrived) /\ received \in Seq(0..arrived)
    BY <1>0 DEF BufType
  <2>2. Len(get) \in Nat /\ get \in [1..Len(get) -> 1..arrived]
    BY <2>1, LenProperties
  <2>3. Len(received) \in Nat /\ received \in [1..Len(received) -> 0..arrived]
    BY <2>1, LenProperties
  <2> DEFINE m == Len(get)
             n == Len(received)
             S == 1..arrived'
             R == 0..arrived'
  <2>4. get \in [1..m -> S] /\ received \in [1..n -> R]
    <3>1. (\A x \in 1..arrived : x \in S) /\ (\A x \in 0..arrived : x \in R)
      BY <1>0, <1>3
    <3> HIDE DEF S, R, m, n
    <3> QED BY <2>2, <2>3, <3>1 DEF m, n
  <2>5. m \in Nat /\ n \in Nat
    BY <2>2, <2>3
  <2> HIDE DEF m, n, S, R
  <2>6. get \in Seq(S) /\ received \in Seq(R)
    BY <2>4, <2>5, MadeSeq
  <2> QED BY <2>6 DEF S, R
<1>5. BufType'
  <2>1. get' \in Seq(1..arrived') /\ received' \in Seq(0..arrived') /\ taken' \in 0..arrived'
    BY <1>0, <1>3, <1>4
  <2>2. pc' \in {"idle", "call", "enqueued", "blocked", "result", "close"} /\ up' \in BOOLEAN
    BY <1>0 DEF BufType
  <2> QED BY <1>0, <2>1, <2>2 DEF BufType
<1>6. Sending' = Sending /\ Pending' = Pending /\ Counted' = Counted
  BY DEF Sending, Pending, Counted
<1>7. op' = "send" => sent' + Counted' <= Len(put)
  BY <1>0, <1>6 DEF PutArea
<1>8. PutArea' /\ SentOnWire' /\ WireOK' /\ SyncOK'
  <2>1. up' => up
    BY <1>0 DEF BufType
  <2> QED BY <1>6, <1>7, <2>1, PutSame
<1>9. GetArea'
  BY <1>6, GetSame
<1> QED BY <1>1, <1>2, <1>5, <1>8, <1>9 DEF IInv

\* The peer sends, closes its side or is lost.
LEMMA NetIInv == ASSUME IInv, Arrive \/ PeerCloses \/ ConnectionLost PROVE IInv'
<1> USE DEF bufVars, callVars, promVars, ioVars, seenVars
<1>0. arrived \in 0..MaxArrive /\ eof \in BOOLEAN /\ MaxArrive \in Nat
  BY IInvParts DEF BufType
<1>1. /\ UNCHANGED <<get, past, put, unbuffered, op, closing, char, sent, value, ec, kernel, handler,
                     handler_ec, frame, taken, wire, accepted, received, outcome, failed,
                     connects, fault>>
      /\ pc' = pc /\ up' \in {up, FALSE} /\ eof' \in BOOLEAN
      /\ \/ arrived' = arrived
         \/ arrived' = arrived + 1 /\ arrived < MaxArrive
  <2>1. CASE Arrive
    BY <1>0, <2>1 DEF Arrive
  <2>2. CASE PeerCloses
    BY <1>0, <2>2 DEF PeerCloses
  <2>3. CASE ConnectionLost
    BY <1>0, <2>3 DEF ConnectionLost
  <2> QED BY <2>1, <2>2, <2>3
<1>2. arrived' \in {arrived, arrived + 1} /\ arrived' \in 0..MaxArrive
  BY <1>0, <1>1
<1> QED BY <1>1, <1>2, PeerIInv

\* close() starts to send, or has nothing to send.
LEMMA CloseIInv == ASSUME IInv, close PROVE IInv'
<1> USE DEF bufVars, callVars, promVars, netVars
<1>0. /\ arrived \in 0..MaxArrive /\ eof \in BOOLEAN /\ MaxArrive \in Nat /\ MaxPut \in Nat
      /\ arrived' \in {arrived, arrived + 1}
  BY IInvParts DEF BufType, close
<1>1. /\ pc = "idle" /\ Idle
      /\ UNCHANGED <<handler, handler_ec, frame, up, eof, arrived, taken, wire, received, connects, fault>>
  BY DEF close, Idle
<1>2. CASE OverflowBuffer(0, TRUE)
  <2>1. 0 \in 0..MaxPut /\ TRUE \in BOOLEAN
    BY <1>0
  <2> QED BY <1>1, <1>2, <2>1, OverflowIInv
<1>3. CASE /\ pc' = "close"
           /\ UNCHANGED <<bufVars, callVars, promVars, named, kernel, accepted, outcome, failed>>
  <2>1. /\ UNCHANGED <<get, past, put, unbuffered, op, closing, char, sent, value, ec, kernel, accepted,
                       outcome, failed>>
        /\ pc \in {"idle", "close"} /\ pc' \in {"idle", "close"} /\ arrived' \in 0..MaxArrive
        /\ eof' \in BOOLEAN
    BY <1>0, <1>1, <1>3
  <2> QED BY <1>0, <1>1, <2>1, PeerIInv
<1> QED BY <1>2, <1>3 DEF close

\* The socket is closed.
LEMMA CloseSocketIInv == ASSUME IInv, CloseSocket PROVE IInv'
<1> USE DEF callVars, promVars, ioVars
<1>0. /\ BufType /\ Waiting /\ BufferSize \in Nat /\ MaxPut \in Nat /\ MaxArrive \in Nat
  BY IInvParts
<1>1. /\ pc = "close" /\ pc' = "idle" /\ up' = FALSE
      /\ UNCHANGED <<unbuffered, op, closing, char, sent, value, ec, kernel, handler, handler_ec, frame,
                     connects, fault>>
  BY DEF CloseSocket
<1>2. /\ op = "none" /\ value = -1 /\ kernel = FALSE /\ frame = FALSE
  BY <1>1, IdleFacts
<1>3. CASE init_buffers /\ NewConnection
  <2>1. /\ PutArea' /\ SentOnWire' /\ WireOK' /\ GetArea' /\ SyncOK'
        /\ get' \in Seq(1..0) /\ put' \in Seq(1..MaxPut) /\ Len(put') = 0
        /\ wire' \in Seq(1..MaxPut) /\ received' \in Seq(0..0)
        /\ past' = FALSE /\ arrived' = 0 /\ taken' = 0 /\ accepted' = 0 /\ outcome' = "none"
        /\ failed' = {} /\ eof' = FALSE /\ wire' = <<>> /\ put' = <<>>
    <3>1. op' \in {"none", "connect"} /\ unbuffered' = unbuffered
      BY <1>1, <1>2
    <3> QED BY <1>3, <3>1, NewSame
  <2>2. Waiting' /\ InHand'
    BY <1>1, <1>2 DEF Waiting, InHand
  <2>3. BufType'
    <3>1. get' \in Seq(1..arrived') /\ received' \in Seq(0..arrived')
      BY <2>1
    <3>2. /\ arrived' \in 0..MaxArrive /\ taken' \in 0..arrived' /\ accepted' \in 0..MaxPut
          /\ Len(put') <= BufferSize
      BY <1>0, <2>1
    <3>3. /\ past' \in BOOLEAN /\ eof' \in BOOLEAN /\ failed' \subseteq {"get", "put"}
          /\ outcome' \in {"none", "ok", "synced", "eof"} /\ up' \in BOOLEAN
          /\ pc' \in {"idle", "call", "enqueued", "blocked", "result", "close"}
      BY <1>1, <2>1
    <3> QED BY <1>0, <1>1, <2>1, <3>1, <3>2, <3>3 DEF BufType
  <2> QED BY <2>1, <2>2, <2>3 DEF IInv
<1>4. CASE UNCHANGED <<get, past, put, eof, arrived, taken, wire, accepted, received, outcome, failed>>
  <2>1. /\ arrived' \in 0..MaxArrive /\ arrived' \in {arrived, arrived + 1} /\ eof' \in BOOLEAN
        /\ up' \in {up, FALSE} /\ pc \in {"idle", "close"} /\ pc' \in {"idle", "close"}
    BY <1>0, <1>1, <1>4 DEF BufType
  <2> QED BY <1>1, <1>4, <2>1, PeerIInv
<1> QED BY <1>3, <1>4 DEF CloseSocket

-----------------------------------------------------------------------------
(* The theorems *)

\* Every step keeps the inductive invariant.
LEMMA NextIInv == IInv /\ NoteInv /\ [Next]_vars => IInv'
<1> SUFFICES ASSUME IInv, NoteInv, [Next]_vars PROVE IInv'
  OBVIOUS
<1>1. CASE CallStep
  BY <1>1, WaitIInv, UnderflowResultIInv, OverflowResultIInv, OverflowCharResultIInv,
     ConnectResultIInv, CloseSocketIInv DEF CallStep
<1>2. CASE IoStep \/ RunStale
  BY <1>2, CompleteReceiveIInv, CompleteSendIInv, CompleteConnectIInv, WaitIInv DEF IoStep
<1>3. CASE GetBuffered \/ underflow
  BY <1>3, GetBufferedIInv, UnderflowIInv
<1>4. CASE PutBuffered \/ PutOverflow \/ sync \/ setbuf
  BY <1>4, PutBufferedIInv, PutOverflowIInv, SyncIInv, SetbufIInv
<1>5. CASE connect \/ resolve_and_connect \/ close
  BY <1>5, ConnectIInv, CloseIInv
<1>6. CASE Arrive \/ PeerCloses \/ ConnectionLost
  BY <1>6, NetIInv
<1>7. CASE UNCHANGED vars
  <2>1. arrived \in 0..MaxArrive /\ eof \in BOOLEAN
    BY IInvParts DEF BufType
  <2>2. /\ UNCHANGED <<get, past, put, unbuffered, op, closing, char, sent, value, ec, kernel, handler,
                       handler_ec, frame, taken, wire, accepted, received, outcome, failed,
                       connects, fault>>
        /\ pc' = pc /\ up' \in {up, FALSE} /\ eof' \in BOOLEAN
        /\ arrived' \in {arrived, arrived + 1} /\ arrived' \in 0..MaxArrive
    BY <1>7, <2>1 DEF vars
  <2> QED BY <2>2, PeerIInv
<1> QED BY <1>1, <1>2, <1>3, <1>4, <1>5, <1>6, <1>7 DEF Next

\* A notification of the call in progress is posted only after the promise was set, and
\* when the call leaves it is one of an earlier call.
LEMMA NextNoteInv == IInv /\ NoteInv /\ [Next]_vars => NoteInv'
<1> SUFFICES ASSUME IInv, NoteInv, [Next]_vars PROVE NoteInv'
  OBVIOUS
<1> USE DEF noteVars, NoteInv
<1>1. (frame => value # -1) /\ (pc \in {"idle", "close"} => value = -1) /\ (kernel => value = -1)
  BY IInvParts DEF Waiting
<1>2. ASSUME UNCHANGED <<named, notes, value>> PROVE NoteInv'
  BY <1>2
<1>3. ASSUME pc \in {"idle", "close"}, named' \in BOOLEAN, notes' = notes PROVE NoteInv'
  BY <1>1, <1>3
<1>4. ASSUME NEW k, Resume(k) PROVE NoteInv'
  BY <1>4 DEF Resume
<1>5. CASE CallStep
  <2>1. CASE WaitCall \/ WaitBlock \/ RunOwn
    BY <2>1 DEF WaitCall, WaitBlock, RunOwn, promVars
  <2>2. CASE UnderflowResult \/ OverflowResult \/ OverflowCharResult \/ ConnectResult
    BY <1>4, <2>2 DEF UnderflowResult, OverflowResult, OverflowCharResult, ConnectResult
  <2>3. CASE CloseSocket
    BY <1>2, <2>3 DEF CloseSocket, promVars
  <2> QED BY <1>5, <2>1, <2>2, <2>3 DEF CallStep
<1>6. CASE CompleteReceive \/ CompleteSend \/ CompleteConnect
  <2>1. ASSUME NEW n, NEW e, Complete(n, e) PROVE NoteInv'
    BY <1>1, <2>1 DEF Complete
  <2> QED BY <1>6, <2>1 DEF CompleteReceive, CompleteSend, CompleteConnect
<1>7. CASE HandlerNotify \/ HandlerCode \/ RunStale
  <2>1. value' = value /\ named' = named
    BY <1>7 DEF HandlerNotify, HandlerCode, RunStale, promVars
  <2>2. notes' \in {notes, notes \cup {"stale"}, notes \ {"stale"}} \/ (frame /\ notes' = notes \cup {"own"})
    BY <1>7 DEF HandlerNotify, HandlerCode, RunStale, PostNotify
  <2> QED BY <1>1, <2>1, <2>2
<1>8. CASE GetBuffered \/ setbuf \/ resolve_and_connect \/ Arrive \/ PeerCloses \/ ConnectionLost
  BY <1>2, <1>8 DEF GetBuffered, setbuf, resolve_and_connect, Arrive, PeerCloses, ConnectionLost,
                    promVars
<1>9. CASE underflow \/ PutBuffered \/ PutOverflow \/ sync \/ connect \/ close
  <2>1. pc = "idle" /\ notes' = notes
    BY <1>9 DEF underflow, PutBuffered, PutOverflow, sync, connect, close, Idle, MayPut
  <2>2. named' \in BOOLEAN
    BY <1>9 DEF underflow, PutBuffered, PutOverflow, sync, connect, close, StartOp, OverflowChar,
                OverflowBuffer
  <2> QED BY <1>3, <2>1, <2>2
<1>10. CASE UNCHANGED vars
  BY <1>2, <1>10 DEF vars
<1> QED BY <1>5, <1>6, <1>7, <1>8, <1>9, <1>10 DEF Next, IoStep

\* The inductive invariant holds in every reachable state.
THEOREM Invariance == Spec => [](IInv /\ NoteInv)
<1>1. Init => NoteInv
  BY DEF Init, NoteInv
<1> QED BY <1>1, InitIInv, NextIInv, NextNoteInv, PTL DEF Spec

\* The members of basic_socket_streambuf keep their types in every reachable state: the put
\* area stays within buffer_size, and overflow() sends nothing beyond it.
THEOREM TypeCorrect == Spec => []TypeOK
<1>1. IInv /\ NoteInv => TypeOK
  BY DEF IInv, BufType, NoteInv, TypeOK
<1> QED BY <1>1, Invariance, PTL

\* Until overflow() or sync() has returned eof or a frame that is gone was used, the wire
\* holds what was put into the stream, in order, without gaps or repetitions, even when an
\* error code of read_write_handler_ec comes too late to be seen.
THEOREM WireIsTheStream == Spec => []WireInOrder
<1>1. IInv => WireInOrder
  <2> SUFFICES ASSUME IInv, "put" \notin failed PROVE wire = Bytes(0, Len(wire))
    BY DEF WireInOrder
  <2> DEFINE S == 1..MaxPut
  <2>1. wire \in Seq(S) /\ Follows(wire, 0)
    BY DEF IInv, BufType, WireOK
  <2> HIDE DEF S
  <2> QED BY <2>1, FollowsIsBytes
<1> QED BY <1>1, Invariance, PTL

\* Until a frame that is gone was used, a sync() of a buffered stream that returns success
\* has sent every byte put into the stream.
THEOREM SyncHasSent == Spec => []SyncMeansSent
<1>1. IInv => SyncMeansSent
  BY DEF IInv, SyncOK, SyncMeansSent
<1> QED BY <1>1, Invariance, PTL

\* Until underflow() has returned eof or a frame that is gone was used, the bytes got from
\* the stream are those the peer sent, in order, and an end of the stream that was missed
\* adds one byte at most.
THEOREM ReadsTheStream == Spec => []ReadIsStream
<1>1. IInv => ReadOK
  <2> SUFFICES ASSUME IInv PROVE ReadOK
    OBVIOUS
  <2>1. CASE past
    BY <2>1 DEF IInv, GetArea
  <2>2. CASE ~past
    <3>1. received \in Seq(0..arrived)
      BY DEF IInv, BufType
    <3>2. DOMAIN received = 1..Len(received)
      BY <3>1, LenProperties
    <3>3. "get" \notin failed => Follows(received, 0)
      BY <2>2 DEF IInv, GetArea
    <3>4. "get" \notin failed => \A i \in DOMAIN received : received[i] = i
      BY <3>2, <3>3 DEF Follows
    <3> QED BY <3>4 DEF ReadOK
  <2> QED BY <2>1, <2>2
<1>2. ReadOK => ReadIsStream
  BY DEF ReadOK, ReadIsStream
<1> QED BY <1>1, <1>2, Invariance, PTL
=============================================================================
