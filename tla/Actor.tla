-------------------------------- MODULE Actor --------------------------------
(***************************************************************************)
(* One actor (actor.hpp) with a method and a signal (actor_interface.hpp). *)
(* A member called from another thread is posted to the actor's thread,    *)
(* and called there directly.  The signal is doubled: slots connected      *)
(* through the actor are on m_signal, slots connected to the object are on *)
(* its own signal, the source; a reverse connection, a slot of the source, *)
(* forwards its emissions to m_signal, and a call through the actor blocks *)
(* it to keep its own emission from coming back.                           *)
(*                                                                         *)
(* All member code runs on one thread, in contexts that only give way in a *)
(* slot or in a method's body, where the user's code may wait.  So a step  *)
(* is what happens from the end of one stretch of user code to the         *)
(* beginning of the next one.                                              *)
(***************************************************************************)
EXTENDS Integers, FiniteSets

CONSTANTS Frames,  \* the calls and emissions in progress, a context each
          MaxSlots \* bound: slots connected through the actor

ASSUME FiniteAssumption == IsFiniteSet(Frames) /\ MaxSlots \in Nat

VARIABLES
    life,        \* "unset" before the actor's constructor, then "set", then "gone"
    m_signal,    \* how many slots m_signal has
    before, after, \* has the source slots older, or younger, than the reverse connection?
    connected,   \* is the reverse connection a slot of the source?
    blocked,     \* is it blocked?
    frame,       \* per frame, what it does and where it is
    fault        \* has the memory of a destroyed member been used?

vars == <<life, m_signal, before, after, connected, blocked, frame, fault>>

\* outer, inner: does the scoped_block_signal of operator(), of emit(), have the
\* connection to unblock?  fired: how often m_signal was emitted on behalf of the
\* frame.  alone: no other emission was in progress meanwhile.
Idle == [pc |-> "idle", kind |-> "none", outer |-> FALSE, inner |-> FALSE,
         fired |-> 0, alone |-> TRUE, reply |-> "none"]

Init == /\ life = "unset"
        /\ m_signal = 0
        /\ before \in BOOLEAN /\ after = FALSE
        /\ connected = FALSE /\ blocked = FALSE
        /\ frame = [f \in Frames |-> Idle]
        /\ fault = FALSE

-----------------------------------------------------------------------------
(* Stretches of code without user code in them, as functions of a frame s that *)
(* also has the field blocked.                                                 *)

\* scoped_block_signal: the constructor, and the destructor.
\* Mutants: it does not block; it always takes the unblocking on itself.
NoBlock(s, scope) == s
BlockAlways(s, scope) == [s EXCEPT !.blocked = TRUE, ![scope] = TRUE]
Block(s, scope) == IF s.blocked THEN s ELSE [s EXCEPT !.blocked = TRUE, ![scope] = TRUE]
Unblock(s, scope) == IF s[scope] THEN [s EXCEPT !.blocked = FALSE, ![scope] = FALSE] ELSE s

\* The frame is done; an answer goes to the future of its caller.
\* Mutant: a frame without a result is not answered.
LeaveSilent(s, how) == [Unblock(s, "outer") EXCEPT !.pc = "idle",
                                                   !.reply = IF how = "error" THEN @ ELSE how]
Leave(s, how) == [Unblock(s, "outer") EXCEPT !.pc = "idle", !.reply = how]

\* An emission of the source: the slots before the reverse connection, that one,
\* and the slots after it.
SlotsAfter(s) == IF after THEN [s EXCEPT !.pc = "after"] ELSE Leave(s, "value")

EmitEnd(s) == SlotsAfter(Unblock(s, "inner"))

emit(s) == LET t == [Block(s, "inner") EXCEPT !.fired = @ + 1]
           IN IF m_signal > 0 THEN [t EXCEPT !.pc = "emit"] ELSE EmitEnd(t)

\* A slot that is disconnected or blocked when its turn comes is not called.
ReverseSlot(s) == IF connected /\ ~s.blocked THEN emit(s) ELSE SlotsAfter(s)

FireSource(s) == IF before THEN [s EXCEPT !.pc = "before"] ELSE ReverseSlot(s)

num_slots == Cardinality({b \in {"before", "after", "reverse"} :
                             CASE b = "before" -> before
                               [] b = "after" -> after
                               [] b = "reverse" -> connected})

\* The delegate of a signal.
emit_or_throw(s) == IF num_slots > 1 THEN FireSource(s) ELSE Leave(s, "no_connected_slots")

\* operator() of a signal, on the actor's thread.
SignalCall(s) == LET t == Block(s, "outer")
                 IN IF m_signal > 1
                    THEN [t EXCEPT !.pc = "local", !.fired = @ + 1]
                    ELSE emit_or_throw(t)

-----------------------------------------------------------------------------
\* A frame with the field blocked, and without it.
Shown(r) == [x \in DOMAIN r \cup {"blocked"} |-> IF x = "blocked" THEN blocked ELSE r[x]]
Hidden(s) == [x \in DOMAIN Idle |-> s[x]]

Becomes(f, s) == /\ frame' = [frame EXCEPT ![f] = Hidden(s)]
                 /\ blocked' = s.blocked
                 /\ UNCHANGED <<life, m_signal, before, after, connected, fault>>

\* Frames with an emission in progress.
Emitting == {f \in Frames : frame[f].kind \in {"call", "source"}
                              /\ frame[f].pc \notin {"idle", "posted"}}

\* f begins an emission, s says how far it gets; frames in progress overlap with it.
Begins(f, s) ==
    /\ frame' = [g \in Frames |-> IF g = f THEN Hidden([s EXCEPT !.alone = Emitting = {}])
                                 ELSE IF g \in Emitting THEN [frame[g] EXCEPT !.alone = FALSE]
                                 ELSE frame[g]]
    /\ blocked' = s.blocked
    /\ UNCHANGED <<life, m_signal, before, after, connected, fault>>

New(k, p) == [Idle EXCEPT !.kind = k, !.pc = p]

-----------------------------------------------------------------------------
(* The actor and its connections *)

\* The signal's slots are dropped, and the source is connected to emit.
set_delegate == m_signal' = 0 /\ connected' = TRUE

\* Each member gets its delegate; a method's does not change.
set_vtable == set_delegate /\ UNCHANGED <<before, after, blocked>>

\* actor( T* ).
Construct == life = "unset" /\ life' = "set" /\ set_vtable /\ UNCHANGED <<frame, fault>>

\* ~actor_member, whatever is posted or in progress.
\* Mutant: the reverse connection stays.
StaysConnected == TRUE
Disconnected == FALSE
Destroy == /\ life = "set"
           /\ life' = "gone"
           /\ m_signal' = 0
           /\ connected' = Disconnected
           /\ UNCHANGED <<before, after, blocked, frame, fault>>

connect == /\ life = "set" /\ m_signal < MaxSlots
           /\ m_signal' = m_signal + 1
           /\ UNCHANGED <<life, before, after, connected, blocked, frame, fault>>

disconnect == /\ life = "set" /\ m_signal > 0
              /\ m_signal' = m_signal - 1
              /\ UNCHANGED <<life, before, after, connected, blocked, frame, fault>>

\* Somebody connects a slot to the source itself.
SourceConnect == /\ life # "unset" /\ ~after
                 /\ after' = TRUE
                 /\ UNCHANGED <<life, m_signal, before, connected, blocked, frame, fault>>

-----------------------------------------------------------------------------
(* Calls *)

\* A member is called on another thread: a task is posted.
RemoteCall(f, k) == /\ life = "set" /\ frame[f].pc = "idle"
                    /\ frame' = [frame EXCEPT ![f] = New(k, "posted")]
                    /\ UNCHANGED <<life, m_signal, before, after, connected, blocked, fault>>

\* On the actor's thread: directly, or by the posted task.
Called(f, k) == \/ life = "set" /\ frame[f].pc = "idle"
                \/ frame[f].pc = "posted" /\ frame[f].kind = k
CallMethod(f) == Called(f, "method") /\ Becomes(f, Shown(New("method", "body")))
CallSignal(f) == Called(f, "call") /\ Begins(f, SignalCall(Shown(New("call", "called"))))

\* The object emits its signal.
SourceEmits(f) == frame[f].pc = "idle" /\ Begins(f, FireSource(Shown(New("source", "called"))))

\* The user's code that f runs returns.
Continue(f) ==
    LET s == Shown(frame[f]) IN
    \/ s.pc = "body" /\ Becomes(f, Leave(s, "value"))
    \/ s.pc = "local" /\ Becomes(f, emit_or_throw(s))
    \/ s.pc = "before" /\ Becomes(f, ReverseSlot(s))
    \/ s.pc = "emit" /\ Becomes(f, EmitEnd(s))
    \/ s.pc = "after" /\ Becomes(f, Leave(s, "value"))

\* It throws: the destructors run, from the inner one to the outer one.
Throw(f) == /\ frame[f].pc \notin {"idle", "posted"}
            /\ Becomes(f, Leave(Unblock(Shown(frame[f]), "inner"), "error"))

\* Frames whose next step is in code of the destroyed member: a signal call holds
\* *this and the connection to unblock, emit() the connection, and the task of a
\* const method the delegate.  That of another method has a copy of it.
HoldsMember(f) == CASE frame[f].kind = "call" -> frame[f].pc # "idle"
                    [] frame[f].kind = "source" -> frame[f].pc = "emit"
                    [] frame[f].kind = "method" -> frame[f].pc = "posted"
                    [] OTHER -> FALSE

\* That memory is not the member's any more, and nothing is known of what follows;
\* the other steps of such a frame are what it does if the memory is still intact.
UseGone(f) == /\ life = "gone" /\ HoldsMember(f)
              /\ fault' = TRUE
              /\ UNCHANGED <<life, m_signal, before, after, connected, blocked, frame>>

-----------------------------------------------------------------------------
Posted(f) == ~fault /\ frame[f].pc = "posted" /\ (CallMethod(f) \/ CallSignal(f))
Returns(f) == ~fault /\ (Continue(f) \/ Throw(f))

Next == /\ ~fault
        /\ \/ Construct \/ Destroy \/ SourceConnect \/ connect \/ disconnect
           \/ \E f \in Frames : \/ \E k \in {"method", "call"} : RemoteCall(f, k)
                                \/ CallMethod(f) \/ CallSignal(f) \/ SourceEmits(f)
                                \/ Continue(f) \/ Throw(f) \/ UseGone(f)

\* The thread runs what is posted to it, and the user's code returns or throws.
Fairness == \A f \in Frames : WF_vars(Posted(f)) /\ WF_vars(Returns(f))

Spec == Init /\ [][Next]_vars /\ Fairness

-----------------------------------------------------------------------------
(* Properties *)

\* The scopes that have the reverse connection to unblock.
Owners == {o \in Frames \X {"outer", "inner"} : frame[o[1]][o[2]]}

\* However calls overlap and wherever slots throw, exactly one scope will unblock
\* a blocked reverse connection, and it belongs to a call that is still running:
\* so the connection works again when the actor is at rest (scoped_block_signal).
BlockedByOne == /\ Cardinality(Owners) = IF blocked THEN 1 ELSE 0
                /\ \A o \in Owners : frame[o[1]].pc \notin {"idle", "posted"}

\* An emission that no other one overlaps reaches m_signal at most once: what a
\* call through the actor sends to the source does not come back.  One that comes
\* from the source reaches it exactly once unless a slot throws before its turn
\* (operator(), emit).  Overlapping ones may come back or be dropped.
OnceWhenAlone ==
    \A f \in Frames :
        frame[f].alone =>
            /\ frame[f].fired <= 1
            /\ frame[f].kind = "source" /\ frame[f].pc \in {"emit", "after"} /\ connected
                  => frame[f].fired = 1

\* The object outlives the member: what the source emits does not reach a member
\* that is destroyed, even if the emission was under way and its turn had not come
\* (~actor_member disconnects the reverse connection).  Calls through the actor hold
\* the member, and nothing keeps it alive for them (HoldsMember).
GoneIsQuiet == [][life = "gone" =>
                    \A f \in Frames : frame'[f].kind = "source"
                                          => frame'[f].fired \in {0, frame[f].fired}]_vars

\* A call posted by another thread is answered: with a result, with
\* no_connected_slots or with what a slot threw (async<R>, emit_or_throw), unless
\* the memory of a destroyed member is used.
CallAnswered == \A f \in Frames : frame[f].pc = "posted"
                                     ~> ((frame[f].pc = "idle" /\ frame[f].reply # "none") \/ fault)
=============================================================================
