# A TLA+ model of Boost.CMT

Boost.CMT is a cooperative multitasking library for C++: tasks are posted to a
`cmt::thread`, run there on contexts (user-level stacks) and wait for each
other through futures. This directory holds TLA+ specifications of its core, TLC
configurations that check them on small instances, and TLAPS proofs. Paths below
are relative to the repository; `thread.cpp:234` is `src/thread.cpp`, line 234.

## 1. Inventory

| Part | State it keeps | Operations | What makes it correct |
|---|---|---|---|
| Task hand-over (`thread.cpp` 179-215, 279-327, 619-636) | atomic list `task_in_queue`, mutex and condition variable | `async`, `dequeue`, sleep and wake in `process_tasks` | a posted task is started once; no wakeup is lost; the thread stops only on `quit()` with nothing pending |
| Scheduler of one thread (`thread.cpp`) | `current`, ready list, blocked list, heap of sleepers, heaps of due and scheduled tasks, `done` | `process_tasks`, `start_next_task`, `check_for_timeouts`, `wait`, `notify`, `sleep_until`, `yield`, `quit`, `cancel` | a suspended context is where its wakeup comes from; the OS thread sleeps only when idle; tasks start in order; contexts are reused |
| Promises (`future.hpp`, `future.cpp`) | value, error, thread to notify | `wait`, `wait_until`, `set_value`, `set_exception`, `notify` | a wait ends with the value, the error or the timeout; a set promise wakes its waiters |
| Tasks (`task.hpp`) | priority, time, number, canceled, active context | `run`, `cancel` | the promise of a task is set whatever the functor does |
| TCP socket (`asio/tcp/socket.cpp`) | `read_buf`, two write buffers, future of `write_loop` | `read`, `read_some`, `write`, `flush`, the destructor | the streams are neither reordered, repeated nor cut; flush means sent; buffers outlive their use |
| Asynchronous calls (`asio.hpp`, `asio.cpp`, `udp/socket.cpp`, `signals.hpp`, `sync` and `create` in `thread.hpp`) | a promise with its reference count, its handler, posted notifications | `read`, `write`, `accept`, `connect`, `resolve`, `receive_from`, `wait(signal)`, `sync`, `create` | a call ends with its own result, error or timeout; the promise lives as long as somebody points to it |
| Acceptor (`asio/acceptor.cpp`) | listening socket, future of the task | `listen`, the accepting task, the destructor | each connection handled once, failures reported |
| Socket stream buffer (`basic_socket_streambuf.hpp`) | get and put area | `underflow`, `overflow`, `sync`, `connect`, `close` | as for the socket |
| Actors (`actor.hpp`, `actor_interface.hpp`) | slots, reverse connection and its blocking | calls of methods and signals, `connect`, `disconnect`, `emit` | calls run on the actor's thread and are answered; an emission does not come back |
| `cmt::mutex`, `spin_lock`, `retainable` | atomic flag, reference count | `lock`, `unlock`, `retain`, `release` | exclusion, no use after release |
| iostream shell, strands, logging | none of their own, or unfinished | forwarding | — |

How the parts interact. Every OS thread may call `async` on a `cmt::thread`;
that is the only way in. A context that waits for a promise names its thread in
the promise; whoever sets the promise calls `notify`, directly in the same
thread and as a posted task from another one. The io_service runs in its own OS
thread and sets promises. The socket's `write_loop` is a task, so its
interleaving with `write` and `flush` is that of contexts.

What is hard here: the lock-free list and the sleep of the loop; values that
arrive while a deadline passes; state computed before a context switch and used
after it; lists linked through fields of the contexts themselves; errors that a
waiter consumes while somebody else still needs them; handlers and notifications
that come after the call they belong to; one blocked flag for overlapping calls
of an actor. The list `hazards` of
`PROJECT.json` gives the lines.

## 2. Modules

| Module | Models |
|---|---|
| `TaskBag` | what a thread promises to those who post: a bag of tasks |
| `TaskQueue` | the hand-over, one step per shared memory access; implements `TaskBag` |
| `CmtThread` | scheduler, promises and tasks of one thread, with the other threads that post and set promises |
| `TcpReader` | `socket::read`, `socket::read_some` |
| `TcpWriter` | `socket::write`, `write_loop`, `flush`, the destructor |
| `SocketStreambuf` | `basic_socket_streambuf`: `underflow`, `overflow`, `sync`, `setbuf`, `connect`, `close`, and the handlers of the io_service thread |
| `AsyncCalls` | the asio wrappers, `wait` on a signal, `async`, `sync` and `create` across threads, and the life of the promise they wait for |
| `Actor` | an actor's method and signal, with the object's own signal |
| `Acceptor` | `acceptor::listen`, its task and its destructor |
| `...Proofs` | the theorems about `TaskQueue`, `CmtThread`, `TcpReader`, `TcpWriter`, `SocketStreambuf`, `AsyncCalls`, `Actor` and `Acceptor` |
| `MC...` | instances for TLC |

A *mutant* is a wrong version of the definition that follows it; the list
`mutants` says which property it breaks. No specification uses one.

**TaskQueue.** The list that hangs off the atomic head is a sequence; a task is
the address of a cell that can be reused once the task was released, so ABA on
the compare-exchange can happen. `AsyncBegin`, `AsyncPush`, `AsyncRetry`,
`AsyncLock`, `AsyncNotify` are the steps of `thread::async`; `LoopDequeue`,
`LoopRunEnd`, `LoopLock`, `LoopBlockWait`, `LoopWoken` those of `process_tasks`.
The refinement mapping is: pending = list and heap, running = the task in hand.

**CmtThread.** A context is at a label (`pc`) inside `process_tasks`,
`check_for_timeouts`, `start_next_task` or a call of its task; only the running
context moves. The ready and the blocked list are sequences, the heaps are sets
(with multiplicity for sleepers: a context can be there twice) of which an
operator selects the possible fronts. A future is a promise together with the
task that belongs to it: the `rtask` that sets a local one, the posted
`notify` of a remote one. Task bodies make arbitrary library calls, up to
`MaxCalls`. Assertions, the null promise in `quit()`, an exception that leaves
`process_tasks`, and a context pushed twice on an intrusive list set `fault`,
after which the thread stops. Posting and waking is one step here, because
`TaskQueue` shows that no wakeup is lost. The number of a task comes from a counter
that all threads share without a lock, long before the push (`task.hpp:30`), so `Post`
takes any of `Numbers`; `pushed` is a ghost that keeps the order of the pushes. The clock
may run at any moment but in the loop over the expired sleepers, which goes by the time
read before it. The reading of the clock at the end of `check_for_timeouts` and that of the
`dequeue` that follows it are one. Locked sections of a promise are
atomic; `notify()` of another thread is a step of its own, as it runs after the
unlock.

**TcpReader.** Bytes are numbered in the order sent; the caller takes as many
bytes from its buffer as the call returns. `read_some` forgets `read_pos`, so
`StreamInOrder` speaks of connections on which only `read` was called
(`only_read`); `CloseEndsRead` covers both calls. `Left` wraps as `size_t` does, and
bytes copied from beyond the buffer are the number 0, no byte of the stream.

**TcpWriter.** Contexts run up to the next wait, so `write` is atomic. Promises
are numbered, as `write` replaces the one that a flush waits for; a flush that
reads a freed promise has any outcome. A `write_loop` that failed stays "failed":
nothing starts another one while `cur_write_buf` is set. The destructor is a flush
(`Destroy`) whose end, good or bad, frees the buffers (`DeleteMy`).

**SocketStreambuf.** The promise and the error code live in the frame of the call.
`read_write_handler_ec` is three steps of the io_service thread: set the value
(`Complete`), notify, store the error code. `p.wait()` is three steps of the
context, so it can leave between any two of them. Notifying posts a task to the
context's thread if the promise names it; `RunOwn` is that task while its call waits,
`RunStale` once the call has left. A stale one finds no promise, or the next one at the same
address: it does nothing, wakes the context when the value is there anyway, or ends
the wait too early, which sets `fault`. A handler that comes too late
uses a frame that is gone: notifying may then do nothing, post such a task or fault, and
the error code may be lost or hit that of the call now in progress. The failure of a call
(`eof`) and what was put and got are recorded per connection.

**AsyncCalls.** A step is one access to what OS threads share: `WaitCheck` (the
locked part of `promise::wait`), `ThreadWait` (`thread::wait` up to the block),
`WaitResult`; `SetValue` or `SetException`, `Notify`, `Drop` for the handler;
`NotifyTask` for the posted `thread::notify`, `Timeout` for `check_for_timeouts`. An
address is a heap cell or, for `sync`, the frame of the task; both are used again.
Every pointer counts: that of the call, that of `promise_base::wait`, that of the
handler and that of a posted notification. `WaitCopy` waits for a copy of another
call's future on another thread. Notifications that wait in a queue belong to an
address, not to a call, so a late one meets whatever is there. What a task of
`sync` writes into a frame that is gone is not followed. The scheduling inside a
thread is reduced to one rule, that its contexts run one at a time; `CmtThread` has
the rest.

**Actor.** A frame is a call or an emission in progress. User code (slots, method
bodies) may wait, so other frames run in between; the code between two stretches
of user code is one step, written as a function of the frame and of the `blocked`
flag of the reverse connection. `m_signal` is a number of slots; the source has
slots older and younger than the reverse connection, so that both orders occur.
`alone` records that no other emission overlapped. The destructor waits for nobody: a
frame that then uses the member (`HoldsMember`) goes on as if the memory were intact, or
sets `fault` (`UseGone`).

**Acceptor.** A listening task is at `accept()` in the try block (`code` "ok") or in
the catch block (`code` "error"). The destructor aborts pending accepts by deleting
the socket; a task that then uses it sets `fault` and the behaviour ends there.

## 3. Runs

Passing runs:

| Run | Checks | Instance |
|---|---|---|
| `task_queue` | `OnePlace`, `NoLostWakeup`, `ImplementsTaskBag` (with liveness) | 3 cells, 2 posting threads and the thread itself |
| `wait` | `NoLostWakeup`, `StartInOrder`, `WakeupDelivered` | 3 contexts, 2 local futures, 1 remote; tasks post, wait and throw; 2 priorities, 2 numbers |
| `timers` | `FaultOnlyLate`, `IdleOnlyWhenNoWork`, `Placement`, `WaitHasResult`, `ReuseBeforeCreate` | the same contexts and futures; tasks wait, wait with a deadline, sleep and yield; delays 0 to 2, 3 clock values |
| `all_calls` | `NoTaskLost` | the same; all calls but yield, errors, delays 0 and 1, two waiters, faults |
| `tcp_read` | `StreamInOrder`, `CloseEndsRead` | 5 bytes, calls for 0 to 3 |
| `tcp_write` | `Conservation`, `InFlightUntouched`, `FlushMeansSent`, `FreedWhenDone`, `FlushEnds`, `WrittenIsSent` | 6 bytes, writes of 1 and 2, 3 `write_loop` tasks |
| `stream` | `WireInOrder`, `SyncMeansSent`, `ReadIsStream`, `CallEnds` | put area of 2, 3 bytes out, 2 bytes in, 2 connections |
| `async_calls` | `CountIsHolders`, `ResultIsOwn`, `WakeupOnItsWay` | 2 tasks on 2 threads, 2 cells, all kinds of calls |
| `actor` | `BlockedByOne`, `OnceWhenAlone`, `GoneIsQuiet`, `CallAnswered` | 2 frames, 2 slots |
| `acceptor` | `EachOnce`, `FailureReported`, `Served` | 2 listening tasks, 4 connections, 4 failures |

The type invariants are checked along in `task_queue`, `all_calls`, `tcp_read`,
`tcp_write`, `stream` and `async_calls`.

The bounds. Three cells are enough for a stale head whose cell is released and
posted again behind another one. Three contexts let one task wait, a second one
run and a third loop sleep; a thread that would need a fourth stops in the model
(`SwitchToNew` is not enabled), which only cuts behaviours off. Two calls per
task (`MaxCalls`) give a call whose state was left by an earlier one, which is
what the violations below need. `MaxWaiters` bounds the contexts inside `wait` on
one promise: one in `wait` and `timers`, because `notify` wakes only the first of
several, two in `all_calls`. Two priorities and two `Numbers` in `wait` give tasks that
are numbered alike, in the order of posting or against it; where no property speaks of the order
one number is enough, as equal ranks leave every choice open. Six bytes and three `write_loop` tasks let the two
write buffers change places several times and a flush meet a later promise; five
bytes against calls for up to three let `read_buf` be used in parts and refilled.
A put area of two and three bytes give a short send, and a byte put after a full
area; the second connection lets a handler of the first one come late.
Two calls and two cells let a late handler meet a promise at its old address while
another call runs; one task makes calls of kind "io" and "sync", the other "io",
"code" and "signal", which is enough for every pair that shares something
(futures are shared by "io" calls). `sync` starts only when no notification of its
frame is posted (`MaxPosted = 0`) to keep the run short: the instance with `MaxPosted = 1`
has four times as many states, and the theorems hold for any `MaxPosted`. Two frames
are a call and an emission that overlap; two slots are the least for which a call
emits to `m_signal`. Four connections and four failures give each of two tasks
a failure, a retry and a connection after it.
Symmetry (`timers`, `all_calls`; threads in `async_calls`) is over local futures and over the contexts other
than `Main`, which no definition tells apart; only safety is checked there.
Deadlock is not checked: a thread with nothing to do, one that has left `exec()` and one
that has failed an assertion may stop, an actor's run ends at a use of freed memory, and a
waiter whose thread's name in the promise was overwritten stays.

Fairness. The OS schedules a thread that can run, so the steps of a thread are
weakly fair; task bodies return, as the scheduling is cooperative; a thread that
set a promise goes on to notify. The tick is strongly fair because the model
keeps it out of the expiry loop. Nobody must post, quit, or wake a condition variable
without reason. In `TcpReader` asio completes what it can complete; in
`TcpWriter` the kernel takes bytes and the thread runs its tasks; in
`Actor` the thread runs what is posted, and slots return or throw (until a destroyed
member is used); in `Acceptor` the
thread runs and the system hands out connections; `AsyncCalls` states safety only.
In `SocketStreambuf` the context and the io_service thread run. There `overflow` of a
lost connection may go round for ever, when the context wins every race for the
error code, and `CallEnds` leaves that case out.

Runs that show what the code does against its documentation (each reports a
violation; the quotations are in `findings`):

| Run | Property | What happens |
|---|---|---|
| `doc_schedule_start` | `ScheduledTaskStarts` | a due task is never started (stale timeout, or a spinning loop) |
| `doc_sync_notify` | `SyncEndsByResult` | the notification of an earlier `sync` wakes a later one, which ends with `future_value_not_ready` |

Other behaviours. The models contain some more behaviours that the passing runs
are stated around, because the code has them:

* `set_exception` releases the mutex before `notify()`; a waiter that takes the
  error in between clears it, and the assertion `ready()` of `future.cpp:17` (or
  `thread.cpp:504`) fails in the notifying thread;
* a `set_value` between a timeout and the waiter that consumes it is dropped
  (`future.hpp:113`): the next wait on the promise blocks although the value was
  set, against "until one of three conditions are met" (`future.hpp:221`). Hence
  `WakeupDelivered` speaks of promises that hold a result;
* `read_some` computes what is left from `read_buf.size()` without `read_pos`
  (`socket.cpp:65`): it goes to the kernel with bytes left, or returns bytes twice,
  against "by the time I get here read_buf should be empty" (`socket.cpp:75`). Hence
  `only_read` in `StreamInOrder`;
* the flush that reports a failed `write_loop` clears the error (`future.hpp:77`), so
  the next flush, or the destructor, waits for a task that is gone, although
  "it will be rethrown from the call to wait()" (`future.hpp:227`). `FlushEnds` leaves
  this case out;
* a second `yield()` with nothing else to do: the idle loop is resumed, finds no
  task and sleeps on the condition variable while the yielder is ready
  (`thread.cpp:307`); so with a context whose sleep is over. `IdleOnlyWhenNoWork` therefore
  speaks of contexts that come back from a wait;
* a second `usleep()`: the resumed loop waits with the timeout it computed before
  it was suspended, possibly none, so the sleeper stays (`thread.cpp:321`);
* `usleep(0)`, a timeout of zero, or any deadline that passes between the call and
  `check_for_timeouts`, as the clock does not stop there: the
  current context becomes ready and `start_next_task` switches to itself, against
  the assertion at `thread.cpp:234`. `FaultOnlyLate` says that this is the only case;
* task numbers may repeat or go back (`task.hpp:30`), and a task may be pushed long after it
  was numbered. Tasks that different threads post need not start in the order of posting:
  `StartInOrder` says what is left, that of two tasks the one with the higher rank that was also
  pushed first starts first;
* two contexts that wait for one promise: the walk in `notify` ends at the first
  (`thread.cpp:534`). `WakeupDelivered` is checked with `MaxWaiters = 1`;
* `quit()` goes from the first blocked context to the next *ready* one
  (`thread.cpp:598`), so other blocked contexts stay blocked, and a ready one
  with no promise is a null pointer (`thread.cpp:596`);
* the heap of scheduled tasks has the latest task in front (`thread.cpp:175`), so
  an early task waits for a late one;
* a canceled context keeps its flag; when its loop is resumed, `task_canceled`
  leaves `process_tasks` (`thread.cpp:265`);
* after `quit()` a loop that has just taken a task ends without running it
  (`thread.cpp:283`);
* a `write` between the end of `write_loop` and the resumption of `flush` frees the
  promise that `flush` reads (`socket.cpp:195`), in builds without rvalue
  references; the flush may then end either way;
* `underflow` that misses the error code at the end of the stream returns a byte of
  its buffer that the peer never sent (`asio.cpp:13`), and an unbuffered
  `overflow` that misses it reports a byte as sent; `ReadIsStream` and
  `SyncMeansSent` say how far this goes;
* the context may find the value without blocking (`thread.cpp:467`) when the promise
  names its thread already: `thread::notify` is posted for a promise on the stack
  (`thread.cpp:506`) and runs when that promise is gone, or ends the next `p.wait()` at its
  address with `future_value_not_ready`, whose operation goes on without its frame. Then bytes may be
  sent twice, a count may reach a later call, and bytes may land in a later `underflow`; the
  properties of the stream hold up to that point (`fault`);
* `overflow` that fails after a short send keeps all of the put area, so that
  another `sync` sends the first bytes again (`basic_socket_streambuf.hpp:231`);
* two threads that wait for one promise: the second overwrites the first one's name
  (`future.cpp:7`), and the first is never woken; with a deadline, it has the other
  thread notified when its own time comes (`thread.cpp:358`), and stays blocked.
  A waiter of a shared future may also find that the other one took the error
  away, and ends with `future_value_not_ready`;
* overlapping emissions of an actor: the second call finds the reverse connection
  blocked by the first (`actor_interface.hpp:158`), and when the first returns it is
  unblocked under the second, whose emission then comes back; an emission of the
  object meanwhile does not reach the actor's slots at all;
* an actor destroyed while calls of its signal are posted or in progress: they hold a reference to
  the member (`boost::ref(*this)`, `actor_interface.hpp:315`), and `~actor_member` (365-369) neither
  waits for them nor revokes them, so they emit through freed memory. `GoneIsQuiet` is about
  the emissions of the object, which the destructor does disconnect;
* a call through an actor with one slot connected does not reach that slot
  (`actor_interface.hpp:318`);
* destroying an acceptor with a pending accept uses the deleted socket
  (`acceptor.cpp:45`); destroying it before its task has begun waits for ever.

## 4. Proofs

The theorems hold for every value of the constants that the `ASSUME`s of the
component's module admit: sizes, bounds and sets of names of any number. Each
module proves `Init => IInv`, `IInv /\ [Next]_vars => IInv'` with a lemma per
action or group of actions, and from `Spec => []IInv` the properties of the runs.
TLC checked every such invariant on the instances of section 3 before it was proved.

**TaskQueueProofs**, from the assumptions that `Self` is not a producer and `NULL`
no task or thread: `TypeCorrect`, `TaskInOnePlace`, `WakeupNeverLost` (the
invariants of `task_queue`), and `ImplementsTaskBagSafely`, `Spec => Bag!SafeSpec`.
`IInv` adds `Protocol` to the three properties. It says
who holds the mutex, that a poster at the compare-exchange has a task in hand,
that the thread posts only from a running task, and that the heap is empty from
the moment the loop looks for the lock. Without the first, `NoLostWakeup` is not
inductive: a poster could notify while the loop is between the dequeue and the
wait. Without the second, `OnePlace` is not: the push would link an unknown
cell. `LinkIsWholeList` is the heart of the ABA argument: whenever the compare
succeeds, the list that starts at the stale head is the whole current list,
however the head came to be that cell again. The refinement takes one step per
action.

**CmtThreadProofs**, for any finite sets of contexts and futures, any calls, delays
and outcomes, and with faults: `TypeCorrect`, `NoTaskIsLost` (`NoTaskLost`) and
`StartsInOrder` (`StartInOrder`). `NoTaskLost` alone is
not inductive: a loop could overwrite the task in its hand, or a suspended one could
lose it. `Hand` says at which labels, and on behalf of whom in
`start_next_task()`, a loop has no task, one that waits to be run, or one that runs;
`OneRuns` and `Made` that all contexts but the running one are suspended or not
made, and that only made ones are in the lists, so that a switch resumes a suspended
one. `OnePlace` is `NoTaskLost` without counting. For the order, `InOrder` extends the
property to a task that was taken from the queue but not started; it needs nothing of
the numbers, only that no task was pushed after as many as there are (`Counted`),
that only the running context holds a task that is not started, and that a task due when posted never enters the heap
of scheduled ones. `DequeueFacts`, `PostCounts`, `TaskGoesOn` and the facts about
`notify()` are the lemmas on which the proofs of the actions rest.

The rest of the scheduler's properties fail when a task or another thread asks too
much of the code (section 3, Other behaviours), so they are proved under a
hypothesis on the constants, `Orderly`: no `cancel` and no `quit`; other
threads set values; at most one context inside `wait` on a promise. Nothing is asked of the
clock, the delays or the numbers. `Orderly` is
what the runs `wait` and `timers` have in common, for any number of contexts, futures,
calls and clock values: `FaultsOnlyWhenLate` (`FaultOnlyLate`), `ContextsArePlaced`
(`Placement`), `NoWakeupIsLost` (`NoLostWakeup`), `WaitGetsResult` (`WaitHasResult`),
`ReusesContexts` (the action property `ReuseBeforeCreate`) and `SleepsOnlyWithoutWork`
(`IdleOnlyWhenNoWork`). The parts of `Orderly`
exclude ways to break one of them: a canceled context makes the loop throw, `quit`
may follow a null promise, the error of another thread may be taken before its
`notify` asserts `ready()`, and a second waiter stays blocked on a promise that is
set.

None of them is inductive. `JInv` joins them and says for each context where it is
(`Placed`): nowhere while it runs; from the moment it calls `start_next_task()` blocked, or in the
heap, or `Late`, that is made ready by its own `check_for_timeouts` with its deadline over;
in exactly one list when it is suspended. A late context either switches to another
one that is ahead of it, and is then ready as any other, or meets the assertion, which is the
one fault left. `Agree` ties a blocked context to its promise: it is named there, the
promise has no error yet, and if it has a value the notification is coming
(`Coming`); a context that has left the blocked list finds an answer (`Answered`). `Sent` says
that what another thread announces is a value, which nobody takes away. `Calm` says that an
idle loop switches only when a context is ready, which is why none is made for
it. The heart of it is `NotifyMoves`: whether the value or the deadline comes first,
`notify()` takes the one context that waits for the promise out of the blocked list and
of the heap together and puts it on the ready list once (`Moved`), so the other event
finds nobody (`NotifyNobody`).

`SleepsOnlyWithoutWork` has an invariant of its own, `KInv`: a loop that `start_next_task()`
resumes goes to `block_wait` without another look at `ready_head` (`thread.cpp:307`). Contexts
that come back from a wait are pushed at the front of the ready list, all others at its
back, so the waiters lead (`WaitersLead`), and an idle loop is resumed only when no waiter is
left (`NoWaiter`, `Resting`). `yield` and `sleep` push a context with a task behind the
idle loops; that is why the property says nothing of them.

**TcpWriterProofs**: `TypeCorrect`, `NothingLostOrReordered` (`Conservation`),
`InFlightIsUntouched` (a state invariant), `FlushSends` (`FlushMeansSent`),
`FreedAfterLastUse` (`FreedWhenDone`). `LoopInv` ties the task `write_loop` to the
buffers and to the promise: without a task both buffers are empty, with one the
two sides have a buffer each. `FlushInv` says for whom a flush waits and why it was
woken, and `LifeInv` that the destructor's flush is the last call. Without `FlushInv`
a flush could be woken by the promise of an earlier task, before its own bytes are
sent.

**TcpReaderProofs**: `TypeCorrect` and `ReadReturnsTheStream` (`StreamInOrder`).
`ReadInv` says that what was returned, what the call has so far and what is left
in `read_buf` make up all that was read from the kernel, and that a call goes to
the kernel only with nothing left in `read_buf`.

**SocketStreambufProofs**: `TypeCorrect`, `WireIsTheStream` (`WireInOrder`),
`SyncHasSent` (`SyncMeansSent`), `ReadsTheStream` (`ReadIsStream`). `PutArea` and
`GetArea` describe the areas as parts of the streams; `Done` is the number of bytes
on the wire, computed from the put area and from what the promise of a send in
progress counts. This is why a late error code does no harm: the count is set
before the notification, so `sent` never includes a byte that was not sent
(`Waiting`: a call goes on only when its promise is set; `NoteInv`: a notification of the call's
own promise finds it set, so it cannot end the wait too early). All of it is up to a use of a frame
that is gone: `fault` ends the behaviour. An unbuffered stream that
misses an error has a byte less on the wire than were accepted, but only on a
connection that is lost, where nothing follows it: hence "`~unbuffered \/ up`" in
`WireOK`.

**AsyncCallsProofs**: `CountsEveryHolder` (`CountIsHolders`), `OwnResultOnly`
(`ResultIsOwn`), `WakeupNeverLost` (`WakeupOnItsWay`), all for any `MaxPosted`. `OneHandler` and
`OneUser` say that an address in use is not used by a second call unless the future
is shared; the count of holders is what makes this inductive, since a cell
is handed out again only at count 0. `NamesThread`, `NotSetYet` and `WokenWhenSet`
give the order of naming the thread, setting and waking.
`TypeCorrect` (`TypeOK`) says that no count on the heap goes below 0, and follows from
`CountIsHolders`. In the frames of `sync()` a count may be any integer: a notification
of a frame that is gone is released on whatever is there now (`doc_sync_notify`).

**ActorProofs**: `OneScopeUnblocks` (`BlockedByOne`), `EmittedOnce`
(`OnceWhenAlone`), `DestroyedIsQuiet` (the action property `GoneIsQuiet`: the object's
emissions do not reach a destroyed member; calls through the actor are not part of it). A frame's
stretch of code is a function of the frame and of `blocked`; `Owned` is shown for
those functions once, and `Ownership` of the whole follows frame by frame.

**AcceptorProofs**: `HandedOverOnce` (`EachOnce`), `NoFailureSwallowed`
(`FailureReported`). The invariant adds to the two that a task which does not yet
accept has nothing in hand; the work is in counting (`OneDiffers`).

Only model-checked:

* all liveness (`WakeupDelivered`, `CloseEndsRead`, `FlushEnds`, `WrittenIsSent`,
  `CallEnds`, `CallAnswered`, `Served`) and the liveness part of `ImplementsTaskBag`,
  since the prover handles neither fairness nor ENABLED.

Every invariant and every action property of the passing runs is a theorem.

## 5. Not modelled

`PROJECT.json` lists each part. Out of the model by choice: memory orders weaker
than sequential consistency (release and consume order suffice for the list head,
release and acquire for the reference count); contents of tasks; contention on a promise's mutex; `quit()` from another thread; what a use
of freed memory does, beyond the cases named above; the connect delegate of an
actor's signal and actors over `any_ptr`; the putback area of the stream buffer; the
iostream shell, strands and logging.

## 6. Plan

What would come next: weaker hypotheses than `Orderly`, property by property
(errors of other threads first); and the parts that section 5
leaves out, `quit()` from another thread first.
