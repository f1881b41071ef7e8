---------------------------- MODULE ActorProofs ----------------------------
(***************************************************************************)
(* Proofs about Actor, for any set of calls and emissions in progress and  *)
(* any number of slots: one scope at a time has the reverse connection to  *)
(* unblock, an emission that is alone does not come back, and the source   *)
(* does not reach a destroyed member.                                      *)
(***************************************************************************)
EXTENDS Actor, FiniteSetTheorems, TLAPS

Pcs == {"idle", "posted", "called", "body", "local", "before", "emit", "after"}
Kinds == {"none", "method", "call", "source"}
Replies == {"none", "value", "no_connected_slots", "error"}

FrameType == [pc : Pcs, kind : Kinds, outer : BOOLEAN, inner : BOOLEAN,
              fired : Nat, alone : BOOLEAN, reply : Replies]

\* A frame with the field blocked.
View == [pc : Pcs, kind : Kinds, outer : BOOLEAN, inner : BOOLEAN,
         fired : Nat, alone : BOOLEAN, reply : Replies, blocked : BOOLEAN]

\* The variables keep their types.
ActorType == /\ life \in {"unset", "set", "gone"}
             /\ m_signal \in Nat
             /\ before \in BOOLEAN /\ after \in BOOLEAN
             /\ connected \in BOOLEAN /\ blocked \in BOOLEAN
             /\ frame \in [Frames -> FrameType]
             /\ fault \in BOOLEAN

\* A frame in which a scope has the connection to unblock, and a frame beside one.
Owns(f) == frame[f].outer \/ frame[f].inner
Held(f) == \E g \in Frames : g # f /\ Owns(g)

\* The connection is blocked exactly while one scope of one frame owns the blocking.
Ownership == /\ blocked <=> \E f \in Frames : Owns(f)
             /\ \A f, g \in Frames : Owns(f) /\ Owns(g) => f = g
             /\ \A f \in Frames : ~(frame[f].outer /\ frame[f].inner)

\* The same for a stretch of code in the frame s, beside frames that own the blocking or not.
Owned(s, held) == /\ s.blocked <=> (held \/ s.outer \/ s.inner)
                  /\ s.outer \/ s.inner => ~held
                  /\ ~(s.outer /\ s.inner)

\* Which code a frame can be in, and what its scopes then own.
PlaceOK(r) ==
    /\ r.pc # "called"
    /\ r.pc = "posted" => r.kind \in {"method", "call"}
    /\ r.pc = "body" => r.kind = "method"
    /\ r.pc = "local" => r.kind = "call"
    /\ r.pc \in {"before", "emit", "after"} => r.kind \in {"call", "source"}
    /\ r.pc = "after" => after
    /\ r.outer => r.kind = "call" /\ r.pc \in {"local", "before", "emit", "after"}
    /\ r.inner => r.pc = "emit"

\* How far an emission without another one beside it has got.
AloneOK(r) ==
    r.alone =>
      /\ r.fired <= 1
      /\ r.kind = "call" /\ r.pc \in {"local", "before", "emit", "after"}
            => r.outer /\ r.pc # "emit"
      /\ r.kind = "source" /\ r.pc = "before" => r.fired = 0
      /\ r.kind = "source" /\ r.pc = "emit" => r.fired = 1
      /\ r.kind = "source" /\ r.pc = "after" /\ connected => r.fired = 1

\* Two emissions in progress are not alone.
Solo == \A f, g \in Emitting : frame[f].alone => g = f

\* The reverse connection is there while the actor is.
LifeInv == /\ connected <=> life = "set"
           /\ after => life # "unset"

\* The inductive invariant.
IInv == /\ ActorType /\ Ownership /\ Solo /\ LifeInv
        /\ \A f \in Frames : PlaceOK(frame[f]) /\ AloneOK(frame[f])

-----------------------------------------------------------------------------
(* The stretches of code *)

\* A frame with the field blocked has the fields of the frame.
LEMMA ShownFacts ==
    ASSUME NEW r \in FrameType, blocked \in BOOLEAN
    PROVE  /\ Shown(r) \in View
           /\ Shown(r).blocked = blocked
           /\ Shown(r).pc = r.pc /\ Shown(r).kind = r.kind
           /\ Shown(r).outer = r.outer /\ Shown(r).inner = r.inner
           /\ Shown(r).fired = r.fired /\ Shown(r).alone = r.alone
           /\ Shown(r).reply = r.reply
BY DEF Shown, FrameType, View

\* So has what is kept of it at the end of a stretch of code.
LEMMA HiddenFacts ==
    ASSUME NEW s \in View
    PROVE  /\ Hidden(s) \in FrameType
           /\ Hidden(s).pc = s.pc /\ Hidden(s).kind = s.kind
           /\ Hidden(s).outer = s.outer /\ Hidden(s).inner = s.inner
           /\ Hidden(s).fired = s.fired /\ Hidden(s).alone = s.alone
           /\ Hidden(s).reply = s.reply
BY DEF Hidden, Idle, FrameType, View

\* A new frame.
LEMMA NewFacts ==
    ASSUME NEW k \in Kinds, NEW p \in Pcs
    PROVE  /\ New(k, p) \in FrameType
           /\ New(k, p).pc = p /\ New(k, p).kind = k
           /\ ~New(k, p).outer /\ ~New(k, p).inner
           /\ New(k, p).fired = 0 /\ New(k, p).alone
BY DEF New, Idle, FrameType, Replies

\* t is the same emission as s, in View, and owns the blocking or leaves it alone.
Goes(s, t, held) == /\ t \in View /\ Owned(t, held)
                    /\ t.kind = s.kind /\ t.alone = s.alone

\* The frame ends: its scopes own nothing any more.
LEMMA LeaveFacts ==
    ASSUME NEW s \in View, NEW held \in BOOLEAN, Owned(s, held), ~s.inner,
           NEW how \in Replies
    PROVE  LET t == Leave(s, how)
           IN /\ Goes(s, t, held) /\ t.fired = s.fired
              /\ t.pc = "idle" /\ ~t.outer /\ ~t.inner
BY DEF Leave, Unblock, View, Owned, Goes, Pcs

\* The slots behind the reverse connection, if there are any.
LEMMA SlotsAfterFacts ==
    ASSUME NEW s \in View, NEW held \in BOOLEAN, Owned(s, held), ~s.inner
    PROVE  LET t == SlotsAfter(s)
           IN /\ Goes(s, t, held) /\ t.fired = s.fired /\ ~t.inner
              /\ \/ t.pc = "after" /\ after /\ t.outer = s.outer
                 \/ t.pc = "idle" /\ ~t.outer
<1>1. CASE after
  BY <1>1 DEF SlotsAfter, View, Owned, Goes, Pcs
<1>2. CASE ~after
  <2>1. "value" \in Replies
    BY DEF Replies
  <2> QED BY <1>2, <2>1, LeaveFacts DEF SlotsAfter
<1> QED BY <1>1, <1>2

\* emit() is over.
LEMMA EmitEndFacts ==
    ASSUME NEW s \in View, NEW held \in BOOLEAN, Owned(s, held)
    PROVE  LET t == EmitEnd(s)
           IN /\ Goes(s, t, held) /\ t.fired = s.fired /\ ~t.inner
              /\ \/ t.pc = "after" /\ after /\ t.outer = s.outer
                 \/ t.pc = "idle" /\ ~t.outer
<1> DEFINE u == Unblock(s, "inner")
<1>1. /\ u \in View /\ Owned(u, held) /\ ~u.inner /\ u.outer = s.outer
      /\ u.kind = s.kind /\ u.alone = s.alone /\ u.fired = s.fired
  BY DEF Unblock, View, Owned
<1> HIDE DEF u
<1>2. LET t == SlotsAfter(u)
      IN /\ Goes(u, t, held) /\ t.fired = u.fired /\ ~t.inner
         /\ \/ t.pc = "after" /\ after /\ t.outer = u.outer
            \/ t.pc = "idle" /\ ~t.outer
  BY <1>1, SlotsAfterFacts
<1>3. EmitEnd(s) = SlotsAfter(u)
  BY DEF EmitEnd, u
<1> QED BY <1>1, <1>2, <1>3 DEF Goes

\* emit() begins where the connection is not blocked, and blocks it for itself.
LEMMA EmitFacts ==
    ASSUME NEW s \in View, NEW held \in BOOLEAN, Owned(s, held), ~s.blocked
    PROVE  LET t == emit(s)
           IN /\ Goes(s, t, held) /\ t.fired = s.fired + 1 /\ ~t.outer
              /\ \/ t.pc = "emit"
                 \/ t.pc = "after" /\ after /\ ~t.inner
                 \/ t.pc = "idle" /\ ~t.inner
<1> DEFINE v == Block(s, "inner")
           u == [v EXCEPT !.fired = @ + 1]
<1>1. /\ u \in View /\ Owned(u, held) /\ ~u.outer
      /\ u.kind = s.kind /\ u.alone = s.alone /\ u.fired = s.fired + 1
  <2>1. /\ v \in View /\ v.blocked /\ v.inner /\ v.outer = s.outer
        /\ v.kind = s.kind /\ v.alone = s.alone /\ v.fired = s.fired
    BY DEF Block, View
  <2> HIDE DEF v
  <2>2. /\ u \in View /\ u.blocked = v.blocked /\ u.inner = v.inner /\ u.outer = v.outer
        /\ u.kind = v.kind /\ u.alone = v.alone /\ u.fired = v.fired + 1
    <3>1. v.fired + 1 \in Nat
      BY <2>1 DEF View
    <3>2. ASSUME NEW n \in Nat, u = [v EXCEPT !.fired = n]
          PROVE  /\ u \in View /\ u.blocked = v.blocked /\ u.inner = v.inner
                 /\ u.outer = v.outer /\ u.kind = v.kind /\ u.alone = v.alone /\ u.fired = n
      <4> HIDE DEF u
      <4> QED BY <2>1, <3>2 DEF View
    <3> QED BY <3>1, <3>2
  <2> HIDE DEF u
  <2> QED BY <2>1, <2>2 DEF Owned
<1>2. emit(s) = IF m_signal > 0 THEN [u EXCEPT !.pc = "emit"] ELSE EmitEnd(u)
  BY DEF emit
<1> HIDE DEF u
<1>3. CASE m_signal > 0
  <2> DEFINE t == [u EXCEPT !.pc = "emit"]
  <2>1. /\ t \in View /\ t.pc = "emit" /\ t.fired = u.fired /\ t.blocked = u.blocked
        /\ t.kind = u.kind /\ t.alone = u.alone /\ t.outer = u.outer /\ t.inner = u.inner
    BY <1>1 DEF View, Pcs
  <2>2. emit(s) = t
    BY <1>2, <1>3
  <2> HIDE DEF t
  <2>3. Owned(t, held)
    BY <1>1, <2>1 DEF Owned
  <2> QED BY <1>1, <2>1, <2>2, <2>3 DEF Goes
<1>4. CASE ~(m_signal > 0)
  <2>1. LET t == EmitEnd(u)
        IN /\ Goes(u, t, held) /\ t.fired = u.fired /\ ~t.inner
           /\ \/ t.pc = "after" /\ after /\ t.outer = u.outer
              \/ t.pc = "idle" /\ ~t.outer
    BY <1>1, EmitEndFacts
  <2> QED BY <1>1, <1>2, <1>4, <2>1 DEF Goes
<1> QED BY <1>3, <1>4

\* The turn of the reverse connection: it is called when it is there and not blocked.
LEMMA ReverseSlotFacts ==
    ASSUME NEW s \in View, NEW held \in BOOLEAN, Owned(s, held), ~s.inner
    PROVE  LET t == ReverseSlot(s)
           IN /\ Goes(s, t, held)
              /\ \/ /\ connected /\ ~s.blocked /\ ~t.outer
                    /\ t.fired = s.fired + 1
                    /\ \/ t.pc = "emit"
                       \/ t.pc = "after" /\ after /\ ~t.inner
                       \/ t.pc = "idle" /\ ~t.inner
                 \/ /\ ~(connected /\ ~s.blocked) /\ ~t.inner
                    /\ t.fired = s.fired
                    /\ \/ t.pc = "after" /\ after /\ t.outer = s.outer
                       \/ t.pc = "idle" /\ ~t.outer
<1>1. CASE connected /\ ~s.blocked
  BY <1>1, EmitFacts DEF ReverseSlot
<1>2. CASE ~(connected /\ ~s.blocked)
  BY <1>2, SlotsAfterFacts DEF ReverseSlot
<1> QED BY <1>1, <1>2

\* A frame at a scope of user code beside which it will be the turn of the
\* reverse connection, or past that turn.
Fired(s, t) ==
    \/ t.pc = "before" /\ ~t.inner /\ t.outer = s.outer /\ t.fired = s.fired
    \/ /\ connected /\ ~s.blocked /\ ~t.outer
       /\ t.fired = s.fired + 1
       /\ \/ t.pc = "emit"
          \/ t.pc = "after" /\ after /\ ~t.inner
          \/ t.pc = "idle" /\ ~t.inner
    \/ /\ ~(connected /\ ~s.blocked) /\ ~t.inner
       /\ t.fired = s.fired
       /\ \/ t.pc = "after" /\ after /\ t.outer = s.outer
          \/ t.pc = "idle" /\ ~t.outer

\* An emission of the source.
LEMMA FireSourceFacts ==
    ASSUME NEW s \in View, NEW held \in BOOLEAN, Owned(s, held), ~s.inner
    PROVE  Goes(s, FireSource(s), held) /\ Fired(s, FireSource(s))
<1>1. CASE before
  BY <1>1 DEF FireSource, View, Owned, Goes, Fired, Pcs
<1>2. CASE ~before
  BY <1>2, ReverseSlotFacts DEF FireSource, Fired
<1> QED BY <1>1, <1>2

\* The delegate of a signal: without a slot besides its own it throws.
LEMMA EmitOrThrowFacts ==
    ASSUME NEW s \in View, NEW held \in BOOLEAN, Owned(s, held), ~s.inner
    PROVE  LET t == emit_or_throw(s)
           IN /\ Goes(s, t, held)
              /\ \/ Fired(s, t)
                 \/ t.fired = s.fired /\ t.pc = "idle" /\ ~t.outer /\ ~t.inner
<1>1. "no_connected_slots" \in Replies
  BY DEF Replies
<1>2. CASE num_slots > 1
  BY <1>2, FireSourceFacts DEF emit_or_throw
<1>3. CASE ~(num_slots > 1)
  BY <1>1, <1>3, LeaveFacts DEF emit_or_throw
<1> QED BY <1>2, <1>3

\* operator() of a signal: it blocks the connection, so nothing comes back from
\* the source unless another call unblocks it.
LEMMA SignalCallFacts ==
    ASSUME NEW s \in View, NEW held \in BOOLEAN, Owned(s, held), ~s.outer, ~s.inner,
           s.fired = 0
    PROVE  LET t == SignalCall(s)
           IN /\ Goes(s, t, held) /\ t.fired \in {0, 1} /\ ~t.inner
              /\ \/ t.pc \in {"local", "before"}
                 \/ t.pc = "after" /\ after
                 \/ t.pc = "idle" /\ ~t.outer
              /\ ~held /\ t.pc # "idle" => t.outer
<1> DEFINE u == Block(s, "outer")
           t == SignalCall(s)
<1>1. /\ u \in View /\ Owned(u, held) /\ ~u.inner /\ u.blocked /\ (~held => u.outer)
      /\ u.kind = s.kind /\ u.alone = s.alone /\ u.fired = 0
  BY DEF Block, View, Owned
<1>2. t = IF m_signal > 1 THEN [u EXCEPT !.pc = "local", !.fired = @ + 1] ELSE emit_or_throw(u)
  BY DEF SignalCall
<1> SUFFICES /\ Goes(s, t, held) /\ t.fired \in {0, 1} /\ ~t.inner
             /\ \/ t.pc \in {"local", "before"}
                \/ t.pc = "after" /\ after
                \/ t.pc = "idle" /\ ~t.outer
             /\ ~held /\ t.pc # "idle" => t.outer
  OBVIOUS
<1> HIDE DEF u, t
<1>3. CASE m_signal > 1
  <2>1. t = [u EXCEPT !.pc = "local", !.fired = 1]
    BY <1>1, <1>2, <1>3 DEF View
  <2>2. /\ t \in View /\ t.pc = "local" /\ t.fired = 1 /\ t.blocked = u.blocked
        /\ t.kind = u.kind /\ t.alone = u.alone /\ t.outer = u.outer /\ t.inner = u.inner
    BY <1>1, <2>1 DEF View, Pcs
  <2>3. Owned(t, held)
    BY <1>1, <2>2 DEF Owned
  <2>4. Goes(s, t, held)
    BY <1>1, <2>2, <2>3 DEF Goes
  <2>5. ~t.inner /\ (~held => t.outer)
    BY <1>1, <2>2
  <2> QED BY <2>2, <2>4, <2>5
<1>4. CASE ~(m_signal > 1)
  <2> DEFINE w == emit_or_throw(u)
  <2>1. /\ Goes(u, w, held)
        /\ \/ Fired(u, w)
           \/ w.fired = u.fired /\ w.pc = "idle" /\ ~w.outer /\ ~w.inner
    BY <1>1, EmitOrThrowFacts
  <2>2. t = w
    BY <1>2, <1>4
  <2> HIDE DEF w
  <2>3. Goes(s, t, held)
    BY <1>1, <2>1, <2>2 DEF Goes
  <2>4. t.fired = 0 /\ ~t.inner
    BY <1>1, <2>1, <2>2 DEF Fired
  <2>5. \/ t.pc = "before" /\ t.outer = u.outer
        \/ t.pc = "after" /\ after /\ t.outer = u.outer
        \/ t.pc = "idle" /\ ~t.outer
    BY <1>1, <2>1, <2>2 DEF Fired
  <2>6. ~held /\ t.pc # "idle" => t.outer
    BY <1>1, <2>5
  <2>7. t.fired \in {0, 1}
    BY <2>4
  <2> QED BY <2>3, <2>4, <2>5, <2>6, <2>7
<1> QED BY <1>3, <1>4

-----------------------------------------------------------------------------
(* Steps of a frame *)

\* A scope that owns the blocking belongs to an emission in progress.
LEMMA OwnersEmit ==
    ASSUME IInv
    PROVE  /\ \A f \in Frames : Owns(f) => f \in Emitting
           /\ \A f \in Frames : Held(f) \in BOOLEAN
           /\ \A f \in Frames : Owned(Shown(frame[f]), Held(f))
<1>1. ASSUME NEW f \in Frames, Owns(f) PROVE f \in Emitting
  BY <1>1 DEF IInv, PlaceOK, Owns, Emitting
<1>2. ASSUME NEW f \in Frames PROVE Owned(Shown(frame[f]), Held(f))
  <2> DEFINE s == Shown(frame[f])
  <2>1. s.outer = frame[f].outer /\ s.inner = frame[f].inner /\ s.blocked = blocked
    BY ShownFacts DEF IInv, ActorType
  <2> HIDE DEF s
  <2>2. Owned(s, Held(f))
    BY <2>1 DEF IInv, Ownership, Owned, Owns, Held
  <2> QED BY <2>2 DEF s
<1> QED BY <1>1, <1>2 DEF Held

\* A stretch of code in the frame f keeps the invariant if it does for f alone.
LEMMA BecomesIInv ==
    ASSUME IInv, NEW f \in Frames, NEW t \in View, Owned(t, Held(f)),
           PlaceOK(t), AloneOK(t),
           t.kind \in {"call", "source"} /\ t.pc \notin {"idle", "posted"}
              => f \in Emitting /\ t.alone = frame[f].alone,
           Becomes(f, t)
    PROVE  IInv'
<1>1. /\ life' = life /\ m_signal' = m_signal /\ before' = before /\ after' = after
      /\ connected' = connected /\ blocked' = t.blocked /\ fault' = fault
  BY DEF Becomes
<1>2. /\ frame' \in [Frames -> FrameType]
      /\ frame'[f] = Hidden(t)
      /\ \A g \in Frames : g # f => frame'[g] = frame[g]
  BY HiddenFacts DEF Becomes, IInv, ActorType
<1>3. /\ frame'[f].pc = t.pc /\ frame'[f].kind = t.kind
      /\ frame'[f].outer = t.outer /\ frame'[f].inner = t.inner
      /\ frame'[f].fired = t.fired /\ frame'[f].alone = t.alone
  BY <1>2, HiddenFacts
<1>4. ActorType'
  BY <1>1, <1>2 DEF IInv, ActorType, View
<1>5. Ownership'
  <2>1. Owns(f)' <=> t.outer \/ t.inner
    BY <1>3 DEF Owns
  <2>2. \A g \in Frames : g # f => (Owns(g)' <=> Owns(g))
    BY <1>2 DEF Owns
  <2>3. blocked' <=> \E g \in Frames : Owns(g)'
    BY <1>1, <2>1, <2>2 DEF Owned, Held
  <2>4. \A g, h \in Frames : Owns(g)' /\ Owns(h)' => g = h
    BY <2>1, <2>2 DEF IInv, Ownership, Owned, Held
  <2>5. \A g \in Frames : ~(frame'[g].outer /\ frame'[g].inner)
    BY <1>2, <1>3 DEF IInv, Ownership, Owned
  <2> QED BY <2>3, <2>4, <2>5 DEF Ownership
<1>6. Solo'
  <2>1. \A g \in Frames : g \in Emitting' => g \in Emitting /\ frame'[g].alone = frame[g].alone
    BY <1>2, <1>3 DEF Emitting
  <2> QED BY <2>1 DEF IInv, Solo, Emitting
<1>7. LifeInv'
  BY <1>1 DEF IInv, LifeInv
<1>8. ASSUME NEW g \in Frames PROVE PlaceOK(frame[g])' /\ AloneOK(frame[g])'
  <2>1. CASE g = f
    <3>1. PlaceOK(frame[g])'
      BY <1>1, <1>3, <2>1 DEF PlaceOK
    <3>2. AloneOK(frame[g])'
      BY <1>1, <1>3, <2>1 DEF AloneOK
    <3> QED BY <3>1, <3>2
  <2>2. CASE g # f
    BY <1>1, <1>2, <2>2 DEF PlaceOK, AloneOK, IInv
  <2> QED BY <2>1, <2>2
<1> QED BY <1>4, <1>5, <1>6, <1>7, <1>8 DEF IInv

\* An emission that begins keeps the invariant if it does for its own frame, and
\* all that are in progress then are not alone any more.
LEMMA BeginsIInv ==
    ASSUME IInv, NEW f \in Frames, f \notin Emitting,
           NEW t \in View, Owned(t, Held(f)), PlaceOK(t), ~Held(f) => AloneOK(t), t.alone,
           Begins(f, t)
    PROVE  IInv'
<1> DEFINE u == [t EXCEPT !.alone = (Emitting = {})]
<1>1. /\ life' = life /\ m_signal' = m_signal /\ before' = before /\ after' = after
      /\ connected' = connected /\ blocked' = t.blocked /\ fault' = fault
  BY DEF Begins
<1>2. /\ u \in View /\ u.pc = t.pc /\ u.kind = t.kind /\ u.outer = t.outer
      /\ u.inner = t.inner /\ u.fired = t.fired /\ u.alone = (Emitting = {})
  BY DEF View
<1>3. frame' = [g \in Frames |-> IF g = f THEN Hidden(u)
                                 ELSE IF g \in Emitting THEN [frame[g] EXCEPT !.alone = FALSE]
                                 ELSE frame[g]]
  BY DEF Begins
<1> HIDE DEF u
<1>4. /\ Hidden(u) \in FrameType
      /\ frame'[f].pc = t.pc /\ frame'[f].kind = t.kind
      /\ frame'[f].outer = t.outer /\ frame'[f].inner = t.inner
      /\ frame'[f].fired = t.fired /\ frame'[f].alone = (Emitting = {})
  BY <1>2, <1>3, HiddenFacts
<1>5. ASSUME NEW g \in Frames, g # f
      PROVE  /\ frame'[g] \in FrameType
             /\ frame'[g].pc = frame[g].pc /\ frame'[g].kind = frame[g].kind
             /\ frame'[g].outer = frame[g].outer /\ frame'[g].inner = frame[g].inner
             /\ frame'[g].fired = frame[g].fired
             /\ g \in Emitting => ~frame'[g].alone
             /\ frame'[g].alone => frame[g].alone
  <2>1. frame[g] \in FrameType
    BY DEF IInv, ActorType
  <2>2. CASE g \in Emitting
    BY <1>3, <1>5, <2>1, <2>2 DEF FrameType
  <2>3. CASE g \notin Emitting
    BY <1>3, <1>5, <2>1, <2>3 DEF FrameType
  <2> QED BY <2>2, <2>3
<1>6. ActorType'
  <2>1. frame' \in [Frames -> FrameType]
    BY <1>3, <1>4, <1>5
  <2> QED BY <1>1, <2>1 DEF IInv, ActorType, View
<1>7. Ownership'
  <2>1. Owns(f)' <=> t.outer \/ t.inner
    BY <1>4 DEF Owns
  <2>2. \A g \in Frames : g # f => (Owns(g)' <=> Owns(g))
    BY <1>5 DEF Owns
  <2>3. blocked' <=> \E g \in Frames : Owns(g)'
    BY <1>1, <2>1, <2>2 DEF Owned, Held
  <2>4. \A g, h \in Frames : Owns(g)' /\ Owns(h)' => g = h
    BY <2>1, <2>2 DEF IInv, Ownership, Owned, Held
  <2>5. \A g \in Frames : ~(frame'[g].outer /\ frame'[g].inner)
    BY <1>4, <1>5 DEF IInv, Ownership, Owned
  <2> QED BY <2>3, <2>4, <2>5 DEF Ownership
<1>8. Solo'
  <2>1. \A g \in Frames : g # f => (g \in Emitting' <=> g \in Emitting)
    BY <1>5 DEF Emitting
  <2>2. \A g \in Emitting' : g \in Frames
    BY DEF Emitting
  <2>3. \A g \in Frames : g # f /\ g \in Emitting => ~frame'[g].alone
    BY <1>5
  <2>4. frame'[f].alone => Emitting = {}
    BY <1>4
  <2> QED BY <2>1, <2>2, <2>3, <2>4 DEF Solo
<1>9. LifeInv'
  BY <1>1 DEF IInv, LifeInv
<1>10. Emitting = {} => ~Held(f)
  BY OwnersEmit DEF Held
<1>11. ASSUME NEW g \in Frames PROVE PlaceOK(frame[g])' /\ AloneOK(frame[g])'
  <2>1. CASE g = f
    <3>1. PlaceOK(frame[g])'
      BY <1>1, <1>4, <2>1 DEF PlaceOK
    <3>2. AloneOK(frame[g])'
      BY <1>1, <1>4, <1>10, <2>1 DEF AloneOK
    <3> QED BY <3>1, <3>2
  <2>2. CASE g # f
    <3>1. PlaceOK(frame[g])'
      BY <1>1, <1>5, <2>2 DEF PlaceOK, IInv
    <3>2. AloneOK(frame[g])'
      BY <1>1, <1>5, <2>2 DEF AloneOK, IInv
    <3> QED BY <3>1, <3>2
  <2> QED BY <2>1, <2>2
<1> QED BY <1>6, <1>7, <1>8, <1>9, <1>11 DEF IInv

\* The user's code in a frame returns.
LEMMA ContinueIInv ==
    ASSUME IInv, NEW f \in Frames, Continue(f)
    PROVE  IInv'
<1> DEFINE r == frame[f]
           s == Shown(r)
<1>1. r \in FrameType /\ PlaceOK(r) /\ AloneOK(r)
  BY DEF IInv, ActorType
<1>2. /\ s \in View /\ s.blocked = blocked /\ s.pc = r.pc /\ s.kind = r.kind
      /\ s.outer = r.outer /\ s.inner = r.inner /\ s.fired = r.fired /\ s.alone = r.alone
  BY <1>1, ShownFacts DEF IInv, ActorType
<1>3. Owned(s, Held(f)) /\ Held(f) \in BOOLEAN
  BY OwnersEmit
<1>4. "value" \in Replies
  BY DEF Replies
<1>5. /\ r.kind \in {"call", "source"} /\ r.pc \notin {"idle", "posted"} => f \in Emitting
      /\ f \in Emitting /\ r.alone => ~Held(f)
  BY OwnersEmit DEF Emitting, Held, IInv, Solo
<1>6. \/ s.pc = "body" /\ Becomes(f, Leave(s, "value"))
      \/ s.pc = "local" /\ Becomes(f, emit_or_throw(s))
      \/ s.pc = "before" /\ Becomes(f, ReverseSlot(s))
      \/ s.pc = "emit" /\ Becomes(f, EmitEnd(s))
      \/ s.pc = "after" /\ Becomes(f, Leave(s, "value"))
  BY DEF Continue
<1> HIDE DEF s
<1>7. CASE s.pc \in {"body", "after"} /\ Becomes(f, Leave(s, "value"))
  <2> DEFINE t == Leave(s, "value")
  <2>1. /\ Goes(s, t, Held(f)) /\ t.fired = s.fired
        /\ t.pc = "idle" /\ ~t.outer /\ ~t.inner
    <3>1. ~s.inner
      BY <1>1, <1>2, <1>7 DEF PlaceOK
    <3> QED BY <3>1, <1>2, <1>3, <1>4, LeaveFacts
  <2>2. Becomes(f, t)
    BY <1>7
  <2> HIDE DEF t
  <2>3. PlaceOK(t)
    BY <2>1 DEF PlaceOK
  <2>4. AloneOK(t)
    BY <1>1, <1>2, <2>1 DEF AloneOK, Goes
  <2>5. t \in View /\ Owned(t, Held(f))
    BY <2>1 DEF Goes
  <2> QED BY <2>1, <2>2, <2>3, <2>4, <2>5, BecomesIInv
<1>8. CASE s.pc = "local" /\ Becomes(f, emit_or_throw(s))
  <2> DEFINE t == emit_or_throw(s)
  <2>1. ~s.inner /\ s.kind = "call" /\ f \in Emitting
    BY <1>1, <1>2, <1>5, <1>8 DEF PlaceOK
  <2>2. /\ Goes(s, t, Held(f))
        /\ \/ Fired(s, t)
           \/ t.fired = s.fired /\ t.pc = "idle" /\ ~t.outer /\ ~t.inner
    BY <2>1, <1>2, <1>3, EmitOrThrowFacts
  <2>3. Becomes(f, t)
    BY <1>8
  <2> HIDE DEF t
  <2>4. PlaceOK(t)
    BY <1>2, <2>1, <2>2 DEF PlaceOK, Goes, Fired, Owned
  <2>5. AloneOK(t)
    <3>1. s.alone => s.outer /\ s.fired <= 1 /\ s.blocked
      BY <1>1, <1>2, <1>3, <1>8, <2>1 DEF AloneOK, Owned
    <3> QED BY <3>1, <2>1, <2>2 DEF AloneOK, Goes, Fired
  <2>6. t \in View /\ Owned(t, Held(f)) /\ t.alone = r.alone
    BY <1>2, <2>2 DEF Goes
  <2> QED BY <2>1, <2>3, <2>4, <2>5, <2>6, BecomesIInv
<1>9. CASE s.pc = "before" /\ Becomes(f, ReverseSlot(s))
  <2> DEFINE t == ReverseSlot(s)
  <2>1. ~s.inner /\ s.kind \in {"call", "source"} /\ f \in Emitting
    BY <1>1, <1>2, <1>5, <1>9 DEF PlaceOK
  <2>2. Goes(s, t, Held(f)) /\ Fired(s, t) /\ t.pc # "before"
    <3>1. /\ Goes(s, t, Held(f))
          /\ \/ /\ connected /\ ~s.blocked /\ ~t.outer
                /\ t.fired = s.fired + 1
                /\ \/ t.pc = "emit"
                   \/ t.pc = "after" /\ after /\ ~t.inner
                   \/ t.pc = "idle" /\ ~t.inner
             \/ /\ ~(connected /\ ~s.blocked) /\ ~t.inner
                /\ t.fired = s.fired
                /\ \/ t.pc = "after" /\ after /\ t.outer = s.outer
                   \/ t.pc = "idle" /\ ~t.outer
      BY <2>1, <1>2, <1>3, ReverseSlotFacts
    <3> HIDE DEF t
    <3> QED BY <3>1 DEF Fired
  <2>3. Becomes(f, t)
    BY <1>9
  <2> HIDE DEF t
  <2>6. PlaceOK(t)
    <3>1. s.outer => s.kind = "call"
      BY <1>1, <1>2 DEF PlaceOK
    <3> QED BY <2>1, <2>2, <3>1 DEF PlaceOK, Goes, Fired
  <2>7. AloneOK(t)
    <3>1. CASE s.kind = "call"
      <4>1. s.alone => s.outer /\ s.fired <= 1 /\ s.blocked
        BY <1>1, <1>2, <1>3, <1>9, <3>1 DEF AloneOK, Owned
      <4> QED BY <4>1, <3>1, <2>2 DEF AloneOK, Goes, Fired
    <3>2. CASE s.kind = "source"
      <4>1. s.alone => s.fired = 0 /\ ~s.blocked
        BY <1>1, <1>2, <1>3, <1>5, <1>9, <2>1, <3>2 DEF AloneOK, PlaceOK, Owned
      <4> QED BY <4>1, <3>2, <2>2 DEF AloneOK, Goes, Fired
    <3> QED BY <2>1, <3>1, <3>2
  <2>8. t \in View /\ Owned(t, Held(f)) /\ t.alone = r.alone
    BY <1>2, <2>2 DEF Goes
  <2> QED BY <2>1, <2>3, <2>6, <2>7, <2>8, BecomesIInv
<1>10. CASE s.pc = "emit" /\ Becomes(f, EmitEnd(s))
  <2> DEFINE t == EmitEnd(s)
  <2>1. s.kind \in {"call", "source"} /\ f \in Emitting
    BY <1>1, <1>2, <1>5, <1>10 DEF PlaceOK
  <2>2. /\ Goes(s, t, Held(f)) /\ t.fired = s.fired /\ ~t.inner
        /\ \/ t.pc = "after" /\ after /\ t.outer = s.outer
           \/ t.pc = "idle" /\ ~t.outer
    BY <1>2, <1>3, EmitEndFacts
  <2>3. Becomes(f, t)
    BY <1>10
  <2> HIDE DEF t
  <2>4. PlaceOK(t)
    <3>1. s.outer => s.kind = "call"
      BY <1>1, <1>2 DEF PlaceOK
    <3> QED BY <2>1, <2>2, <3>1 DEF PlaceOK, Goes
  <2>5. AloneOK(t)
    <3>1. s.alone => s.kind = "source" /\ s.fired = 1
      BY <1>1, <1>2, <1>10, <2>1 DEF AloneOK
    <3> QED BY <3>1, <2>2 DEF AloneOK, Goes
  <2>6. t \in View /\ Owned(t, Held(f)) /\ t.alone = r.alone
    BY <1>2, <2>2 DEF Goes
  <2> QED BY <2>1, <2>3, <2>4, <2>5, <2>6, BecomesIInv
<1> QED BY <1>6, <1>7, <1>8, <1>9, <1>10

\* It throws: whatever the frame's scopes own is given back.
LEMMA ThrowIInv ==
    ASSUME IInv, NEW f \in Frames, Throw(f)
    PROVE  IInv'
<1> DEFINE r == frame[f]
           s == Shown(r)
           u == Unblock(s, "inner")
           t == Leave(u, "error")
<1>1. r \in FrameType /\ PlaceOK(r) /\ AloneOK(r)
  BY DEF IInv, ActorType
<1>2. s \in View /\ s.fired = r.fired /\ s.alone = r.alone /\ s.kind = r.kind
  BY <1>1, ShownFacts DEF IInv, ActorType
<1>3. Owned(s, Held(f)) /\ Held(f) \in BOOLEAN
  BY OwnersEmit
<1>4. Becomes(f, t)
  BY DEF Throw
<1> HIDE DEF s
<1>5. /\ u \in View /\ Owned(u, Held(f)) /\ ~u.inner
      /\ u.kind = s.kind /\ u.alone = s.alone /\ u.fired = s.fired
  BY <1>2, <1>3 DEF Unblock, View, Owned
<1> HIDE DEF u
<1>6. "error" \in Replies
  BY DEF Replies
<1>7. /\ Goes(u, t, Held(f)) /\ t.fired = u.fired
      /\ t.pc = "idle" /\ ~t.outer /\ ~t.inner
  BY <1>3, <1>5, <1>6, LeaveFacts
<1> HIDE DEF t
<1>8. PlaceOK(t)
  BY <1>7 DEF PlaceOK
<1>9. AloneOK(t)
  BY <1>1, <1>2, <1>5, <1>7 DEF AloneOK, Goes
<1>10. t \in View /\ Owned(t, Held(f))
  BY <1>7 DEF Goes
<1> QED BY <1>4, <1>7, <1>8, <1>9, <1>10, BecomesIInv

\* A call that is not in progress yet owns nothing: its code begins with what
\* the others have left.
LEMMA FreshFacts ==
    ASSUME IInv, NEW f \in Frames, frame[f].pc \in {"idle", "posted"},
           NEW k \in Kinds, NEW p \in Pcs
    PROVE  LET s == Shown(New(k, p))
           IN /\ s \in View /\ Owned(s, Held(f)) /\ Held(f) \in BOOLEAN /\ f \notin Emitting
              /\ s.pc = p /\ s.kind = k /\ ~s.outer /\ ~s.inner /\ s.fired = 0 /\ s.alone
<1> DEFINE s == Shown(New(k, p))
<1>1. /\ s \in View /\ s.blocked = blocked
      /\ s.pc = p /\ s.kind = k /\ ~s.outer /\ ~s.inner /\ s.fired = 0 /\ s.alone
  <2> DEFINE r == New(k, p)
  <2>1. /\ r \in FrameType /\ r.pc = p /\ r.kind = k /\ ~r.outer /\ ~r.inner
        /\ r.fired = 0 /\ r.alone
    BY NewFacts
  <2> HIDE DEF r
  <2>2. blocked \in BOOLEAN
    BY DEF IInv, ActorType
  <2>3. /\ Shown(r) \in View /\ Shown(r).blocked = blocked
        /\ Shown(r).pc = r.pc /\ Shown(r).kind = r.kind
        /\ Shown(r).outer = r.outer /\ Shown(r).inner = r.inner
        /\ Shown(r).fired = r.fired /\ Shown(r).alone = r.alone
    BY <2>1, <2>2, ShownFacts
  <2>4. s = Shown(r)
    BY DEF r
  <2> HIDE DEF s
  <2> QED BY <2>1, <2>3, <2>4
<1> HIDE DEF s
<1>2. ~Owns(f)
  BY DEF IInv, PlaceOK, Owns
<1>3. blocked <=> Held(f)
  BY <1>2 DEF IInv, Ownership, Held
<1>4. Owned(s, Held(f))
  BY <1>1, <1>3 DEF Owned
<1>5. f \notin Emitting
  BY DEF Emitting
<1>6. Held(f) \in BOOLEAN
  BY OwnersEmit
<1> QED BY <1>1, <1>4, <1>5, <1>6 DEF s

\* A member is called on another thread.
LEMMA RemoteCallIInv ==
    ASSUME IInv, NEW f \in Frames, NEW k \in {"method", "call"}, RemoteCall(f, k)
    PROVE  IInv'
<1> DEFINE r == New(k, "posted")
           s == Shown(r)
<1>1. k \in Kinds /\ "posted" \in Pcs
  BY DEF Kinds, Pcs
<1>2. frame[f].pc = "idle"
  BY DEF RemoteCall
<1>3. /\ s \in View /\ Owned(s, Held(f))
      /\ s.pc = "posted" /\ s.kind = k /\ ~s.outer /\ ~s.inner /\ s.fired = 0 /\ s.alone
  BY <1>1, <1>2, FreshFacts
<1>4. Hidden(s) = r /\ s.blocked = blocked
  <2>1. r \in FrameType /\ blocked \in BOOLEAN
    BY <1>1, NewFacts DEF IInv, ActorType
  <2> HIDE DEF r
  <2>2. Hidden(s) = r
    BY <2>1 DEF Hidden, Shown, Idle, FrameType
  <2>3. s.blocked = blocked
    BY <2>1, ShownFacts
  <2> QED BY <2>2, <2>3
<1>5. Becomes(f, s)
  <2>1. frame' = [frame EXCEPT ![f] = r] /\ UNCHANGED <<life, m_signal, before, after, connected, blocked, fault>>
    BY DEF RemoteCall
  <2> HIDE DEF r, s
  <2> QED BY <1>4, <2>1 DEF Becomes
<1> HIDE DEF r, s
<1>6. PlaceOK(s)
  BY <1>2, <1>3 DEF PlaceOK
<1>7. AloneOK(s)
  BY <1>3 DEF AloneOK
<1> QED BY <1>3, <1>5, <1>6, <1>7, BecomesIInv

\* A method's body begins.
LEMMA CallMethodIInv ==
    ASSUME IInv, NEW f \in Frames, CallMethod(f)
    PROVE  IInv'
<1> DEFINE s == Shown(New("method", "body"))
<1>1. "method" \in Kinds /\ "body" \in Pcs
  BY DEF Kinds, Pcs
<1>2. frame[f].pc \in {"idle", "posted"}
  BY DEF CallMethod, Called
<1>3. /\ s \in View /\ Owned(s, Held(f))
      /\ s.pc = "body" /\ s.kind = "method" /\ ~s.outer /\ ~s.inner /\ s.fired = 0 /\ s.alone
  BY <1>1, <1>2, FreshFacts
<1>4. Becomes(f, s)
  BY DEF CallMethod
<1> HIDE DEF s
<1>5. PlaceOK(s)
  BY <1>2, <1>3 DEF PlaceOK
<1>6. AloneOK(s)
  BY <1>3 DEF AloneOK
<1> QED BY <1>3, <1>4, <1>5, <1>6, BecomesIInv

\* A signal is called through the actor.
LEMMA CallSignalIInv ==
    ASSUME IInv, NEW f \in Frames, CallSignal(f)
    PROVE  IInv'
<1> DEFINE s == Shown(New("call", "called"))
           t == SignalCall(s)
<1>1. "call" \in Kinds /\ "called" \in Pcs
  BY DEF Kinds, Pcs
<1>2. frame[f].pc \in {"idle", "posted"}
  BY DEF CallSignal, Called
<1>3. /\ s \in View /\ Owned(s, Held(f)) /\ Held(f) \in BOOLEAN /\ f \notin Emitting
      /\ s.kind = "call" /\ ~s.outer /\ ~s.inner /\ s.fired = 0 /\ s.alone
  BY <1>1, <1>2, FreshFacts
<1>4. Begins(f, t)
  BY DEF CallSignal
<1> HIDE DEF s
<1>5. /\ Goes(s, t, Held(f)) /\ t.fired \in {0, 1} /\ ~t.inner
      /\ \/ t.pc \in {"local", "before"}
         \/ t.pc = "after" /\ after
         \/ t.pc = "idle" /\ ~t.outer
      /\ ~Held(f) /\ t.pc # "idle" => t.outer
  BY <1>3, SignalCallFacts
<1> HIDE DEF t
<1>6. t \in View /\ Owned(t, Held(f)) /\ t.kind = "call" /\ t.alone
  BY <1>3, <1>5 DEF Goes
<1>7. PlaceOK(t)
  BY <1>2, <1>5, <1>6 DEF PlaceOK
<1>8. ~Held(f) => AloneOK(t)
  BY <1>5, <1>6 DEF AloneOK
<1> QED BY <1>3, <1>4, <1>6, <1>7, <1>8, BeginsIInv

\* The object emits its signal itself.
LEMMA SourceEmitsIInv ==
    ASSUME IInv, NEW f \in Frames, SourceEmits(f)
    PROVE  IInv'
<1> DEFINE s == Shown(New("source", "called"))
           t == FireSource(s)
<1>1. "source" \in Kinds /\ "called" \in Pcs
  BY DEF Kinds, Pcs
<1>2. frame[f].pc \in {"idle", "posted"}
  BY DEF SourceEmits
<1>3. /\ s \in View /\ Owned(s, Held(f)) /\ Held(f) \in BOOLEAN /\ f \notin Emitting
      /\ s.kind = "source" /\ ~s.outer /\ ~s.inner /\ s.fired = 0 /\ s.alone
  BY <1>1, <1>2, FreshFacts
<1>4. Begins(f, t)
  BY DEF SourceEmits
<1> HIDE DEF s
<1>5. Goes(s, t, Held(f)) /\ Fired(s, t)
  BY <1>3, FireSourceFacts
<1> HIDE DEF t
<1>6. t \in View /\ Owned(t, Held(f)) /\ t.kind = "source" /\ t.alone
  BY <1>3, <1>5 DEF Goes
<1>8. PlaceOK(t)
  BY <1>3, <1>5, <1>6 DEF PlaceOK, Fired
<1>9. ~Held(f) => AloneOK(t)
  <2>1. ~Held(f) => ~s.blocked
    BY <1>3 DEF Owned
  <2> QED BY <2>1, <1>3, <1>5, <1>6 DEF AloneOK, Fired
<1> QED BY <1>3, <1>4, <1>6, <1>8, <1>9, BeginsIInv

-----------------------------------------------------------------------------
(* The inductive invariant *)

\* Before the actor is constructed there is no frame.
LEMMA InitIInv == Init => IInv
<1> SUFFICES ASSUME Init PROVE IInv
  OBVIOUS
<1>1. /\ Idle \in FrameType /\ Idle.pc = "idle" /\ Idle.kind = "none"
      /\ ~Idle.outer /\ ~Idle.inner /\ Idle.fired = 0
  BY DEF Idle, FrameType, Pcs, Kinds, Replies
<1>2. \A f \in Frames : frame[f] = Idle
  BY DEF Init
<1>3. ActorType
  BY <1>1 DEF Init, ActorType
<1>4. Ownership
  BY <1>1, <1>2 DEF Init, Ownership, Owns
<1>5. Solo /\ LifeInv
  BY <1>1, <1>2 DEF Init, Solo, Emitting, LifeInv
<1>6. \A f \in Frames : PlaceOK(frame[f]) /\ AloneOK(frame[f])
  BY <1>1, <1>2 DEF PlaceOK, AloneOK
<1> QED BY <1>3, <1>4, <1>5, <1>6 DEF IInv

\* Frames and blocking stay as they are when only the actor's life or the slots change.
LEMMA QuietIInv ==
    ASSUME IInv, UNCHANGED <<blocked, before, frame>>, fault' \in BOOLEAN,
           life' \in {"unset", "set", "gone"}, m_signal' \in Nat,
           after' \in BOOLEAN, connected' \in BOOLEAN, LifeInv',
           \A f \in Frames : PlaceOK(frame[f])' /\ AloneOK(frame[f])'
    PROVE  IInv'
<1>1. ActorType' /\ Ownership'
  BY DEF IInv, ActorType, Ownership, Owns
<1>2. Solo'
  BY DEF IInv, Solo, Emitting
<1> QED BY <1>1, <1>2 DEF IInv

\* No step of the actor, its callers or its slots breaks the inductive invariant.
LEMMA NextIInv == IInv /\ [Next]_vars => IInv'
<1> SUFFICES ASSUME IInv, [Next]_vars PROVE IInv'
  OBVIOUS
<1>1. CASE Construct
  <2> USE <1>1 DEF Construct, set_vtable, set_delegate
  <2>1. LifeInv'
    BY DEF LifeInv
  <2>2. ASSUME NEW f \in Frames PROVE PlaceOK(frame[f])' /\ AloneOK(frame[f])'
    <3>1. PlaceOK(frame[f]) /\ AloneOK(frame[f]) /\ ~after
      BY DEF IInv, LifeInv
    <3>2. PlaceOK(frame[f])'
      BY <3>1 DEF PlaceOK
    <3>3. AloneOK(frame[f])'
      BY <3>1 DEF AloneOK, PlaceOK
    <3> QED BY <3>2, <3>3
  <2>3. after \in BOOLEAN /\ fault \in BOOLEAN
    BY DEF IInv, ActorType
  <2> QED BY <2>1, <2>2, <2>3, QuietIInv
<1>2. CASE Destroy
  <2> USE <1>2 DEF Destroy, Disconnected
  <2>1. LifeInv'
    BY DEF LifeInv
  <2>2. ASSUME NEW f \in Frames PROVE PlaceOK(frame[f])' /\ AloneOK(frame[f])'
    <3>1. PlaceOK(frame[f]) /\ AloneOK(frame[f])
      BY DEF IInv
    <3>2. PlaceOK(frame[f])'
      BY <3>1 DEF PlaceOK
    <3>3. AloneOK(frame[f])'
      BY <3>1 DEF AloneOK
    <3> QED BY <3>2, <3>3
  <2>3. after \in BOOLEAN /\ fault \in BOOLEAN
    BY DEF IInv, ActorType
  <2> QED BY <2>1, <2>2, <2>3, QuietIInv
<1>3. CASE SourceConnect \/ connect \/ disconnect
  <2>1. /\ UNCHANGED <<life, connected, blocked, before, frame, fault>>
        /\ m_signal' \in Nat /\ after' \in BOOLEAN /\ (after => after')
    <3> USE DEF SourceConnect, connect, disconnect
    <3>1. UNCHANGED <<life, connected, blocked, before, frame, fault>>
      BY <1>3
    <3>2. m_signal' \in Nat
      BY <1>3 DEF IInv, ActorType
    <3>3. after' \in BOOLEAN /\ (after => after')
      BY <1>3 DEF IInv, ActorType
    <3> QED BY <3>1, <3>2, <3>3
  <2>2. LifeInv'
    BY <1>3, <2>1 DEF IInv, LifeInv, SourceConnect, connect, disconnect
  <2>3. ASSUME NEW f \in Frames PROVE PlaceOK(frame[f])' /\ AloneOK(frame[f])'
    BY <2>1 DEF IInv, PlaceOK, AloneOK
  <2>4. life' \in {"unset", "set", "gone"} /\ connected' \in BOOLEAN /\ fault' \in BOOLEAN
    BY <2>1 DEF IInv, ActorType
  <2> QED BY <2>1, <2>2, <2>3, <2>4, QuietIInv
<1>4. CASE \E f \in Frames : \E k \in {"method", "call"} : RemoteCall(f, k)
  BY <1>4, RemoteCallIInv
<1>5. CASE \E f \in Frames : CallMethod(f)
  BY <1>5, CallMethodIInv
<1>6. CASE \E f \in Frames : CallSignal(f)
  BY <1>6, CallSignalIInv
<1>7. CASE \E f \in Frames : SourceEmits(f)
  BY <1>7, SourceEmitsIInv
<1>8. CASE \E f \in Frames : Continue(f)
  BY <1>8, ContinueIInv
<1>9. CASE \E f \in Frames : Throw(f)
  BY <1>9, ThrowIInv
<1>10. CASE \E f \in Frames : UseGone(f)
  <2>1. UNCHANGED <<life, m_signal, before, after, connected, blocked, frame>> /\ fault' \in BOOLEAN
    BY <1>10 DEF UseGone
  <2>2. LifeInv' /\ \A f \in Frames : PlaceOK(frame[f])' /\ AloneOK(frame[f])'
    BY <2>1 DEF IInv, LifeInv, PlaceOK, AloneOK
  <2>3. ActorType' /\ Ownership'
    BY <2>1 DEF IInv, ActorType, Ownership, Owns
  <2>4. Solo'
    BY <2>1 DEF IInv, Solo, Emitting
  <2> QED BY <2>2, <2>3, <2>4 DEF IInv
<1>11. CASE UNCHANGED vars
  <2> USE <1>11 DEF vars
  <2>1. ActorType' /\ Ownership' /\ LifeInv'
    BY DEF IInv, ActorType, Ownership, Owns, LifeInv
  <2>2. Solo'
    BY DEF IInv, Solo, Emitting
  <2>3. ASSUME NEW f \in Frames PROVE PlaceOK(frame[f])' /\ AloneOK(frame[f])'
    BY DEF IInv, PlaceOK, AloneOK
  <2> QED BY <2>1, <2>2, <2>3 DEF IInv
<1> QED BY <1>1, <1>2, <1>3, <1>4, <1>5, <1>6, <1>7, <1>8, <1>9, <1>10, <1>11 DEF Next

\* The inductive invariant holds of every behaviour of the actor.
LEMMA Invariance == Spec => []IInv
<1>1. Init => IInv
  BY InitIInv
<1>2. IInv /\ [Next]_vars => IInv'
  BY NextIInv
<1> QED BY <1>1, <1>2, PTL DEF Spec

\* One scope owns the blocking of a blocked connection, none that of another one.
LEMMA OneOwner == IInv => BlockedByOne
<1> SUFFICES ASSUME IInv PROVE BlockedByOne
  OBVIOUS
<1>1. \A o \in Owners : /\ o[1] \in Frames /\ o[2] \in {"outer", "inner"}
                        /\ o = <<o[1], o[2]>> /\ frame[o[1]][o[2]]
  BY DEF Owners
<1>2. \A o \in Owners : Owns(o[1])
  BY <1>1 DEF Owns
<1>3. \A o \in Owners : frame[o[1]].pc \notin {"idle", "posted"}
  BY <1>1, <1>2, OwnersEmit DEF Emitting
<1>4. CASE blocked
  <2>1. PICK f \in Frames : Owns(f)
    BY <1>4 DEF IInv, Ownership
  <2>2. PICK x \in {"outer", "inner"} : frame[f][x]
    BY <2>1 DEF Owns
  <2>3. <<f, x>> \in Owners
    BY <2>1, <2>2 DEF Owners
  <2>4. ASSUME NEW o \in Owners PROVE o = <<f, x>>
    <3>1. o[1] = f
      BY <1>1, <1>2, <2>1 DEF IInv, Ownership
    <3>2. o[2] = x
      BY <1>1, <2>2, <3>1 DEF IInv, Ownership
    <3> QED BY <1>1, <3>1, <3>2
  <2>5. Owners = {<<f, x>>}
    BY <2>3, <2>4
  <2> QED BY <1>3, <1>4, <2>5, FS_Singleton DEF BlockedByOne
<1>5. CASE ~blocked
  <2>1. Owners = {}
    BY <1>1, <1>2, <1>5 DEF IInv, Ownership
  <2> QED BY <1>3, <1>5, <2>1, FS_EmptySet DEF BlockedByOne
<1> QED BY <1>4, <1>5

\* After ~actor_member no step emits m_signal on behalf of the source.
LEMMA GoneStep ==
    ASSUME IInv, [Next]_vars, life = "gone", NEW f \in Frames, frame'[f].kind = "source"
    PROVE  frame'[f].fired \in {0, frame[f].fired}
<1>1. ~connected
  BY DEF IInv, LifeInv
<1>2. ASSUME NEW g \in Frames, NEW t \in View,
             t.kind = "source" => t.fired \in {0, frame[g].fired},
             \/ Becomes(g, t)
             \/ Begins(g, t)
      PROVE  frame'[f].fired \in {0, frame[f].fired}
  <2>0. frame[f] \in FrameType /\ frame \in [Frames -> FrameType]
    BY DEF IInv, ActorType
  <2>1. CASE Becomes(g, t)
    BY <1>2, <2>0, <2>1, HiddenFacts DEF Becomes
  <2>2. CASE Begins(g, t)
    <3> DEFINE u == [t EXCEPT !.alone = (Emitting = {})]
    <3>1. u \in View /\ u.fired = t.fired /\ u.kind = t.kind
      BY DEF View
    <3>2. frame'[f] = IF f = g THEN Hidden(u)
                      ELSE IF f \in Emitting THEN [frame[f] EXCEPT !.alone = FALSE]
                      ELSE frame[f]
      BY <2>2 DEF Begins
    <3> HIDE DEF u
    <3>3. Hidden(u).fired = t.fired /\ Hidden(u).kind = t.kind
      BY <3>1, HiddenFacts
    <3>4. [frame[f] EXCEPT !.alone = FALSE].fired = frame[f].fired
      BY <2>0 DEF FrameType
    <3> QED BY <1>2, <3>2, <3>3, <3>4
  <2> QED BY <1>2, <2>1, <2>2
<1>3. CASE UNCHANGED frame
  BY <1>3
<1>4. CASE \E g \in Frames : Continue(g) \/ Throw(g)
  <2>1. PICK g \in Frames : Continue(g) \/ Throw(g)
    BY <1>4
  <2> DEFINE s == Shown(frame[g])
  <2>2. /\ s \in View /\ s.fired = frame[g].fired /\ s.pc = frame[g].pc
        /\ s.inner = frame[g].inner /\ s.kind = frame[g].kind
    BY ShownFacts DEF IInv, ActorType
  <2>3. Owned(s, Held(g)) /\ Held(g) \in BOOLEAN
    BY OwnersEmit
  <2>4. PlaceOK(frame[g])
    BY DEF IInv
  <2>5. "value" \in Replies /\ "error" \in Replies
    BY DEF Replies
  <2>6. \/ s.pc \in {"body", "after"} /\ Becomes(g, Leave(s, "value"))
        \/ s.pc = "local" /\ Becomes(g, emit_or_throw(s))
        \/ s.pc = "before" /\ Becomes(g, ReverseSlot(s))
        \/ s.pc = "emit" /\ Becomes(g, EmitEnd(s))
        \/ Becomes(g, Leave(Unblock(s, "inner"), "error"))
    BY <2>1, <2>2 DEF Continue, Throw
  <2> HIDE DEF s
  <2>7. CASE s.pc \in {"body", "after"} /\ Becomes(g, Leave(s, "value"))
    <3> DEFINE t == Leave(s, "value")
    <3>1. t \in View /\ t.fired = s.fired
      <4>1. ~s.inner
        BY <2>2, <2>4, <2>7 DEF PlaceOK
      <4> QED BY <4>1, <2>2, <2>3, <2>5, LeaveFacts DEF Goes
    <3> HIDE DEF t
    <3> QED BY <3>1, <2>2, <2>7, <1>2 DEF t
  <2>8. CASE s.pc = "local" /\ Becomes(g, emit_or_throw(s))
    <3> DEFINE t == emit_or_throw(s)
    <3>1. ~s.inner /\ s.kind = "call"
      BY <2>2, <2>4, <2>8 DEF PlaceOK
    <3>2. t \in View /\ t.kind = s.kind
      BY <3>1, <2>2, <2>3, EmitOrThrowFacts DEF Goes
    <3> HIDE DEF t
    <3> QED BY <3>1, <3>2, <2>8, <1>2 DEF t
  <2>9. CASE s.pc = "before" /\ Becomes(g, ReverseSlot(s))
    <3> DEFINE t == ReverseSlot(s)
    <3>1. t \in View /\ t.fired = s.fired
      <4>1. ~s.inner
        BY <2>2, <2>4, <2>9 DEF PlaceOK
      <4> QED BY <4>1, <1>1, <2>2, <2>3, ReverseSlotFacts DEF Goes
    <3> HIDE DEF t
    <3> QED BY <3>1, <2>2, <2>9, <1>2 DEF t
  <2>10. CASE s.pc = "emit" /\ Becomes(g, EmitEnd(s))
    <3> DEFINE t == EmitEnd(s)
    <3>1. t \in View /\ t.fired = s.fired
      BY <2>2, <2>3, EmitEndFacts DEF Goes
    <3> HIDE DEF t
    <3> QED BY <3>1, <2>2, <2>10, <1>2 DEF t
  <2>11. CASE Becomes(g, Leave(Unblock(s, "inner"), "error"))
    <3> DEFINE u == Unblock(s, "inner")
               t == Leave(u, "error")
    <3>1. u \in View /\ Owned(u, Held(g)) /\ ~u.inner /\ u.fired = s.fired
      BY <2>2, <2>3 DEF Unblock, View, Owned
    <3> HIDE DEF u
    <3>2. t \in View /\ t.fired = u.fired
      BY <3>1, <2>3, <2>5, LeaveFacts DEF Goes
    <3>3. Becomes(g, t)
      BY <2>11 DEF u
    <3> HIDE DEF t
    <3> QED BY <3>1, <3>2, <3>3, <2>2, <1>2
  <2> QED BY <2>6, <2>7, <2>8, <2>9, <2>10, <2>11
<1>5. CASE \E g \in Frames : SourceEmits(g)
  <2>1. PICK g \in Frames : SourceEmits(g)
    BY <1>5
  <2> DEFINE s == Shown(New("source", "called"))
             t == FireSource(s)
  <2>2. "source" \in Kinds /\ "called" \in Pcs /\ frame[g].pc \in {"idle", "posted"}
    BY <2>1 DEF Kinds, Pcs, SourceEmits
  <2>3. s \in View /\ Owned(s, Held(g)) /\ Held(g) \in BOOLEAN /\ ~s.inner /\ s.fired = 0
    BY <2>2, FreshFacts
  <2>4. Begins(g, t)
    BY <2>1 DEF SourceEmits
  <2> HIDE DEF s
  <2>5. Goes(s, t, Held(g)) /\ Fired(s, t)
    BY <2>3, FireSourceFacts
  <2> HIDE DEF t
  <2>6. t \in View /\ t.fired = 0
    BY <1>1, <2>3, <2>5 DEF Goes, Fired
  <2> QED BY <1>2, <2>4, <2>6
<1>6. CASE \E g \in Frames : CallMethod(g)
  <2>1. PICK g \in Frames : CallMethod(g)
    BY <1>6
  <2> DEFINE t == Shown(New("method", "body"))
  <2>2. "method" \in Kinds /\ "body" \in Pcs /\ frame[g].pc \in {"idle", "posted"}
    BY <2>1 DEF Kinds, Pcs, CallMethod, Called
  <2>3. t \in View /\ t.kind = "method"
    BY <2>2, FreshFacts
  <2>4. Becomes(g, t)
    BY <2>1 DEF CallMethod
  <2> HIDE DEF t
  <2> QED BY <1>2, <2>3, <2>4
<1>7. CASE \E g \in Frames : CallSignal(g)
  <2>1. PICK g \in Frames : CallSignal(g)
    BY <1>7
  <2> DEFINE s == Shown(New("call", "called"))
             t == SignalCall(s)
  <2>2. "call" \in Kinds /\ "called" \in Pcs /\ frame[g].pc \in {"idle", "posted"}
    BY <2>1 DEF Kinds, Pcs, CallSignal, Called
  <2>3. /\ s \in View /\ Owned(s, Held(g)) /\ Held(g) \in BOOLEAN
        /\ ~s.outer /\ ~s.inner /\ s.fired = 0 /\ s.kind = "call"
    BY <2>2, FreshFacts
  <2>4. Begins(g, t)
    BY <2>1 DEF CallSignal
  <2> HIDE DEF s
  <2>5. Goes(s, t, Held(g))
    BY <2>3, SignalCallFacts
  <2> HIDE DEF t
  <2>6. t \in View /\ t.kind = "call"
    BY <2>3, <2>5 DEF Goes
  <2> QED BY <1>2, <2>4, <2>6
<1>8. ASSUME NEW g \in Frames, NEW k \in {"method", "call"}
      PROVE  ~RemoteCall(g, k)
  BY DEF RemoteCall
<1>9. CASE Construct \/ Destroy \/ SourceConnect \/ connect \/ disconnect
           \/ \E g \in Frames : UseGone(g)
  BY <1>3, <1>9 DEF Construct, Destroy, SourceConnect, connect, disconnect, UseGone
<1> QED BY <1>3, <1>4, <1>5, <1>6, <1>7, <1>8, <1>9 DEF Next, vars

-----------------------------------------------------------------------------
(* Theorems *)

\* scoped_block_signal works for calls that overlap and slots that throw: exactly
\* one scope, of a call still running, unblocks a blocked reverse connection.
THEOREM OneScopeUnblocks == Spec => []BlockedByOne
<1>1. IInv => BlockedByOne
  BY OneOwner
<1> QED BY <1>1, Invariance, PTL

\* An emission that none overlaps reaches m_signal at most once, and once when it
\* comes from the source.
THEOREM EmittedOnce == Spec => []OnceWhenAlone
<1>1. IInv => OnceWhenAlone
  BY DEF IInv, AloneOK, OnceWhenAlone
<1> QED BY <1>1, Invariance, PTL

\* After ~actor_member nothing that the source emits reaches the member's slots.
THEOREM DestroyedIsQuiet == Spec => GoneIsQuiet
<1>1. IInv /\ [Next]_vars
        => [life = "gone" => \A f \in Frames : frame'[f].kind = "source"
                                                  => frame'[f].fired \in {0, frame[f].fired}]_vars
  BY GoneStep
<1> QED BY <1>1, Invariance, PTL DEF Spec, GoneIsQuiet
=============================================================================
