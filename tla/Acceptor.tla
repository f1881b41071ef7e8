------------------------------ MODULE Acceptor ------------------------------
(***************************************************************************)
(* acceptor (acceptor.cpp): listen() posts a task that accepts connections *)
(* for ever and posts a call of the handler for each.  A failed accept is  *)
(* caught, and its code is passed on with the connection that the catch    *)
(* block accepts next; a failure there ends the task.  listen() called     *)
(* twice starts two tasks on one socket.  The destructor deletes the       *)
(* socket and then waits for the task of the last listen().                *)
(*                                                                         *)
(* Tasks and destructor run on one cmt::thread, so a step goes from one    *)
(* wait to the next; the operating system and the io_service thread accept *)
(* in between.  A use of memory that was deleted may do anything: fault is *)
(* set and nothing more is followed.                                       *)
(***************************************************************************)
EXTENDS Naturals, Sequences, FiniteSets, SequencesExt

CONSTANTS Listeners, \* the calls of listen()
          MaxConns,  \* bound: connections that arrive
          MaxFails,  \* bound: accepts that fail
          NULL

ASSUME BoundsAssumption == IsFiniteSet(Listeners) /\ MaxConns \in Nat /\ MaxFails \in Nat
ASSUME NullAssumption == NULL \notin Listeners /\ NULL \notin 0..MaxConns

VARIABLES
    acc,          \* the socket: NULL, "open" or "deleted"
    listen_done,  \* the task whose future the acceptor has
    life,         \* "alive", "waiting" in the destructor, "gone"
    pc,           \* where a listening task is
    code,         \* in the catch block the code of the failure, else "ok"
    result,       \* of the accept in progress: NULL, 0 for a failure, or a connection
    arrived,      \* how many connections have arrived
    backlog,      \* the ones the system has ready
    calls,        \* the calls of the handler that were posted
    fails,        \* how many accepts failed
    fault         \* was deleted memory used?

vars == <<acc, listen_done, life, pc, code, result, arrived, backlog, calls, fails, fault>>

Init == /\ acc = NULL /\ listen_done = NULL /\ life = "alive"
        /\ pc = [l \in Listeners |-> "none"]
        /\ code = [l \in Listeners |-> "ok"]
        /\ result = [l \in Listeners |-> NULL]
        /\ arrived = 0 /\ backlog = <<>> /\ calls = <<>> /\ fails = 0 /\ fault = FALSE

-----------------------------------------------------------------------------
(* External: connections arrive, and asynchronous accepts complete. *)

Arrive == /\ arrived < MaxConns
          /\ arrived' = arrived + 1
          /\ backlog' = Append(backlog, arrived + 1)
          /\ UNCHANGED <<acc, listen_done, life, pc, code, result, calls, fails, fault>>

Pending(l) == pc[l] = "accepting" /\ result[l] = NULL

AcceptDone(l) == /\ Pending(l) /\ backlog # <<>>
                 /\ result' = [result EXCEPT ![l] = Head(backlog)]
                 /\ backlog' = Tail(backlog)
                 /\ UNCHANGED <<acc, listen_done, life, pc, code, arrived, calls, fails, fault>>

AcceptFails(l) == /\ Pending(l) /\ fails < MaxFails
                  /\ result' = [result EXCEPT ![l] = 0]
                  /\ fails' = fails + 1
                  /\ UNCHANGED <<acc, listen_done, life, pc, code, arrived, backlog, calls, fault>>

-----------------------------------------------------------------------------
(* acceptor::listen, and the task *)

listen(l) == /\ life = "alive" /\ pc[l] = "none"
             /\ pc' = [pc EXCEPT ![l] = "posted"]
             /\ listen_done' = l
             /\ UNCHANGED <<acc, life, code, result, arrived, backlog, calls, fails, fault>>

\* accept(): the promise and the asynchronous accept are made anew.
Accept(l, socket) ==
    /\ fault' = (socket # "open")
    /\ pc' = [pc EXCEPT ![l] = "accepting"]
    /\ result' = [result EXCEPT ![l] = NULL]

\* The task begins; the constructor of the socket may throw, and no socket is kept.
Begin(l) ==
    /\ pc[l] = "posted"
    /\ \/ /\ acc' = IF acc = NULL THEN "open" ELSE acc
          /\ Accept(l, IF life = "gone" THEN "deleted" ELSE acc')
       \/ /\ acc = NULL /\ life # "gone"
          /\ pc' = [pc EXCEPT ![l] = "not_open"]
          /\ UNCHANGED <<acc, result, fault>>
    /\ UNCHANGED <<listen_done, life, code, arrived, backlog, calls, fails>>

\* accept() returns in the try block or in the catch block, a call is posted, and
\* the loop begins again.  Mutant: the connection accepted after a failure is dropped.
PostUnlessFailed(l) == IF code[l] = "ok" THEN Append(calls, [conn |-> result[l], code |-> "ok"])
                                         ELSE calls
PostCall(l) == Append(calls, [conn |-> result[l], code |-> code[l]])

\* accept() returns a socket if the code it waited for says so.
Succeeded(l) == result[l] \notin {NULL, 0}

Accepted(l) ==
    /\ pc[l] = "accepting" /\ Succeeded(l)
    /\ calls' = PostCall(l)
    /\ code' = [code EXCEPT ![l] = "ok"]
    /\ Accept(l, IF life = "gone" THEN "deleted" ELSE acc)
    /\ UNCHANGED <<acc, listen_done, life, arrived, backlog, fails>>

\* accept() throws: in the try block it is called again in the catch block; there
\* the exception ends the task.  Mutant: the catch block tries again too.
AlwaysRetry(l) == TRUE
InTry(l) == code[l] = "ok"

Failed(l) ==
    /\ pc[l] = "accepting" /\ result[l] = 0
    /\ IF InTry(l)
       THEN code' = [code EXCEPT ![l] = "error"] /\ Accept(l, IF life = "gone" THEN "deleted" ELSE acc)
       ELSE pc' = [pc EXCEPT ![l] = "ended"] /\ UNCHANGED <<code, result, fault>>
    /\ UNCHANGED <<acc, listen_done, life, arrived, backlog, calls, fails>>

-----------------------------------------------------------------------------
(* The destructor *)

Over(l) == l = NULL \/ pc[l] \in {"ended", "not_open"}

\* Accepts in progress on the deleted socket are aborted.
Destroy ==
    LET aborted == {l \in Listeners : Pending(l)} IN
    /\ life = "alive"
    /\ acc' = IF acc = "open" THEN "deleted" ELSE acc
    /\ result' = [l \in Listeners |-> IF l \in aborted THEN 0 ELSE result[l]]
    /\ fails' = fails + Cardinality(aborted)
    /\ life' = IF listen_done = NULL \/ Over(listen_done) THEN "gone" ELSE "waiting"
    /\ UNCHANGED <<listen_done, pc, code, arrived, backlog, calls, fault>>

DestroyEnds == /\ life = "waiting" /\ Over(listen_done)
               /\ life' = "gone"
               /\ UNCHANGED <<acc, listen_done, pc, code, result, arrived, backlog, calls, fails, fault>>

-----------------------------------------------------------------------------
TaskStep(l) == Begin(l) \/ Accepted(l) \/ Failed(l)

Next == /\ ~fault
        /\ \/ Arrive \/ Destroy \/ DestroyEnds
           \/ \E l \in Listeners : AcceptDone(l) \/ AcceptFails(l) \/ listen(l)
                                      \/ Begin(l) \/ Accepted(l) \/ Failed(l)

\* The thread runs its tasks, and the system hands out what has arrived.
Fairness == \A l \in Listeners : WF_vars(TaskStep(l) /\ ~fault) /\ WF_vars(AcceptDone(l) /\ ~fault)

Spec == Init /\ [][Next]_vars /\ Fairness

-----------------------------------------------------------------------------
(* Properties *)

InHand == {result[l] : l \in Listeners} \ {NULL, 0}
Handled == {calls[i].conn : i \in 1..Len(calls)}

\* Every connection is in one place, and is handed to the handler once, whichever
\* task accepts it and whatever failed in between (listen).
EachOnce == /\ 1..arrived = ToSet(backlog) \cup InHand \cup Handled
            /\ arrived = Len(backlog) + Cardinality({l \in Listeners : result[l] \notin {NULL, 0}})
                            + Len(calls)

\* No failure is swallowed: it is passed to the handler with the next connection
\* of its task, or a second one in a row ended the task (the catch block).
Waiting(s, x) == Cardinality({l \in Listeners : s[l] = x})
FailureReported ==
    fails = Waiting(result, 0) + Waiting(code, "error")
               + Cardinality({i \in 1..Len(calls) : calls[i].code = "error"})

\* A connection that has arrived is handed over as long as the acceptor lives and
\* a task has neither had two failures in a row nor no socket (listen).
Served == \A n \in 1..MaxConns :
             (n \in ToSet(backlog) /\ \E l \in Listeners : pc[l] = "accepting")
                ~> (n \in Handled \/ life # "alive" \/ \A l \in Listeners : pc[l] # "accepting")
=============================================================================
