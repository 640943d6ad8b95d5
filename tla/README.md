# Verification of ecron

ecron is a small C++ network library: a `boost::asio` event loop with timers, a
TCP server and client on top of it, a thread pool, a few queues, and two example
programs (an RPC channel and an HTTP server). This directory holds TLA+ models of
its components, the TLC configurations that check them on small instances, and
TLAPS proofs of what they establish for every instance.

`PROJECT.json` is the index: components, runs, the map from definitions to source
lines, findings, hazards, mutants and theorems.

## Inventory

| Component | State | Operations | Interaction | What is hard | What makes it correct |
|---|---|---|---|---|---|
| `BlockingQueue` | deque, bound, `exit_`, sleepers on a condition variable | `init`, `push`, `pop`, `notify_exit` | under `ThreadPool` and `ThreadGroup` | wake-ups, exit against sleep | no lost wake-up, bound, exit reaches everybody |
| `ThreadPool` | vector of threads, a `BlockingQueue` of tasks | `start`, `append`, `stop`, `run` | producers on any thread, an owner | join against tasks and sleepers, restart | tasks begin once and in order, `stop` returns and is quiescent |
| `TimingWheel` | 60 buckets of `Timer*`, the hand, timers on the heap | `add_timer`, `del_timer`, `handle_timeout` | owned by `EventLoop`; closures through `dispatch` | callbacks that add and cancel, freed and reused memory, wrap-around | every timer is called on time, once per interval; no use of freed timers |
| `EventLoop` | an `io_context`, its thread, signals, a wheel | `loop`, `quit`, `post`, `dispatch`, timers, signals | everything runs on it | inline or queued execution | closures run in order, on the loop thread |
| `TcpConnection` | socket, `connected_`, queue of buffers, receive buffer, callbacks | `send`, `close`, `handle_establish`, `handle_recv`, `handle_send`, `handle_close` | called by users on any thread, by server and client; calls back into all of them | handlers in any order, failure of reads and writes, calls from inside callbacks | one write at a time, data in order, the end is reported |
| `TcpClient` | `connecting_`, `conn_`, retry timer | `connect`, `disconnect`, `handle_connect`, `handle_timeout`, `remove_conn` | a `TcpConnection`, the loop's timers | disconnect against every stage of a connect | at most one attempt, `disconnect` ends in "not connecting" |
| `TcpServer`, `EventLoopPool` | acceptor, set of connections, loops and threads | `start`, `stop`, `accept_loop`, `handle_accept`, `remove_conn` | connections live on other loops | failing accepts, hand-over and removal between loops, shutdown over several threads | a connection that is up is registered, one that ended is removed, the server goes on accepting, `stop` returns and closes what it serves |
| `ThreadGroup` | workers, each with its queue | `start`, `stop`, `get_worker`, `push` | as `ThreadPool` | start and stop order | as `ThreadPool`, per worker |
| `LockFreeQueue` | linked nodes, atomic head, tail, count | `init`, `push`, `pop` | any threads | every interleaving of atomics, reclamation, a counter apart from the links | FIFO, the counter and the bound are off by the calls under way at most, no node used after it is freed |
| `CircularQueue`, `Buffer` | array and indices | push/pop, write/read/grow | `Buffer` under every connection | index arithmetic, growth | equal to a sequence |
| `Logger` | spdlog loggers | `init`, `release`, writes | everybody logs | - | - |
| RPC example | pending requests, frames, services | `CallMethod`, `process`, `on_done` | over `TcpConnection` and `ThreadPool` | partial frames, answers out of order, disconnects | each request is answered once, by its answer |
| HTTP example, `SqlConnPool` | task per connection, files, pool of connections | parse, respond, send in chunks; get and release | `sendcomplete_callback_` drives the chunks | task shared by loop and workers, next request against the end of the last one | a client gets the answer to its request, the file is closed once |

Vendored or generated: spdlog, fmt, http_parser, protobuf output, Catch.
`LockFreeArrayQueue` is an unfinished stub and `CircularQueue` does not compile;
nothing includes either.

The hazards behind the last two columns are listed in `PROJECT.json`, each at its
line.

## Modules

| Module | Models |
|---|---|
| `BlockingQueue` | `code/BlockingQueue.hpp`; state and operations, used by `ThreadPool` |
| `ThreadPool` | `code/ThreadPool.cpp` on top of `BlockingQueue` |
| `TaskExecutor` | abstract: what a pool promises |
| `TimingWheel` | `code/TimingWheel.cpp`, `.h`, `TimerId.h`, and `EventLoop::dispatch` as far as the wheel uses it |
| `TimerService` | abstract: timers that count down, without slots and rotations |
| `TcpConnection` | `code/TcpConnection.cpp`, and `EventLoop::dispatch` as far as it is used |
| `TcpClient` | `code/TcpClient.cpp`, with the connection and the timer as the client sees them |
| `OutStream` | abstract: an ordered stream that is cut at some point |
| `TcpServer` | `code/TcpServer.cpp`, `EventLoopPool.cpp` and `EventLoop.cpp` (loop, quit, post, dispatch), with the connections as the server sees them |
| `LockFreeQueue` | `code/LockFreeQueue.hpp`, an atomic access a step |
| `FifoQueue` | abstract: a queue |
| `Buffer` | `code/Buffer.cpp`, `.h`, as operators on a record, used by `RpcChannel` |
| `RpcChannel` | `examples/rpc`: the channels at both ends of a connection, over `Buffer` |
| `RpcCalls` | abstract: calls that are answered at most once, each by its own answer |
| `HttpTask` | `examples/http`: the task of one connection, shared by the loop thread and the workers |
| `MC*` | small instances for TLC |
| `*Proofs` | theorems about the module of that name, checked by TLAPS; `RpcChannelProofs` also has the lemmas about `Buffer` |

Operators have the names of the functions they model. Where a function is cut
into several steps, each step has the function's name and a suffix. Operators at
the head of a module under "Variants" are slips a programmer could make; no
specification uses them, they are there to show that each property can fail.

### BlockingQueue and ThreadPool

A member function of the queue holds the mutex from beginning to end, so it is one
step. `pop` is the exception: `cond_.wait` releases the mutex, so `pop` is
going to sleep (`pop_wait`), returning false (`pop_exit`) or returning an item
(`pop_item`). `waiting` is the set of sleepers; `notify_one` removes any one of
them, `notify_exit` all, and a spurious wake-up may remove one at any time. A
woken thread tests the predicate again, as the lambda of the code does.

`run` is a worker's loop: pop, then the task. `stop` is two steps, the
notification and the return of the last join; any number of steps of the workers
and producers fall between them. `start` throws the queue away, as
`tasks_.init` does; `append` is possible at any time, as nothing in the code
prevents it.

History variables: `accepted` (number of successful appends, which also names the
tasks), `started`, `discarded`, `starts`.

### TimingWheel

A `Timer` is named by its address, and a freed address may be handed out again.
`add_timer` and `del_timer` are inline on the loop thread (between two handlers or
inside a timer's task) and queue a closure on any other thread. `handle_timeout`
is one step for the movement of the hand and then one step per element of the
bucket: count a rotation down, call the task, put the timer back, delete it. Users
act between these steps. A timer that is inserted into the bucket being walked is
visited in that walk or not, as the hash table decides.

`age` counts the ticks since a timer was put in the wheel, and is history.

What users may do is restricted to what is defined behaviour: a timer is cancelled
while it is allocated, at most once, not by its own task, and from another thread
only if it repeats (a one-shot timer may fire and be freed before the closure
runs). The cases left out are hazards in `PROJECT.json`. They do occur: the library
itself makes such a call at `TcpClient.cpp:76`, where `disconnect_loop` cancels a
one-shot timer that may have fired.

### TcpConnection

An asynchronous operation completes (a step of the kernel) and later its handler
runs (a step of the loop thread). A handler is cut at the user callback it makes:
`in` says which callback the loop thread is in, and `send` and `close` may be
called there, between handlers, and from other threads. A write on a shut
socket fails; a read may still deliver what arrived before.

Buffers are numbered in the order in which `send_loop` accepted them. `wire` is
what the socket took, `downs` how often `handle_close` ran. The constant
`SendFromSendComplete` says whether `sendcomplete_callback_` may call `send`.

### TcpClient

`connect` is two steps, since any thread may call it: the flag is taken, and the
closure is queued. `disconnect` runs `disconnect_loop` at once on the loop thread
and queues it on another one; on an idle client it sets the flag and clears it
again, which is two steps. The kernel completes an `async_connect` (`op[c]`), and
later `handle_connect` runs; both the reset of the connection by the peer and a
`disconnect` may fall between. `handle_connect` acts on `conn_`, whatever that is
by then, as the code does; an exception out of `init` ends the loop (`crashed`).
A connection that is up is reported to `remove_conn` once or twice, as
`TcpConnection` shows.

`clean` is history: it becomes false when `disconnect_loop` runs before the
`connect_loop` it is meant to undo, or between a completed connect and its
handler, or when the end of an old connection is reported while a new attempt is
under way. These are the hazards of `TcpClient.cpp` the code does not handle. All
properties but `TypeOK` are about what holds up to then; that they hold shows that
there is no further case.

### TcpServer, EventLoopPool and EventLoop

A loop has a life (`none`, `running`, `stopped`, `destroyed`) and a queue of
closures. `dispatch` runs a closure at once if the caller is on the thread of the
loop and queues it otherwise; `post` always queues. A loop that has stopped runs
nothing more, and what is queued in it is lost when it is destroyed.

`accept_loop` takes the next loop of the pool in turn and starts an accept for a
new connection; the kernel completes it (`outcome`), and later `handle_accept`
runs. Between the two the client may reset the connection: `init` then throws and
the exception leaves the base loop (`crashed`). `handle_accept` enters the
connection, has it established on its own loop, and starts the next accept, also
after an error. A connection is what `TcpConnection` shows it to be: its end is
reported once or twice, on its loop, and `remove_conn` dispatches the removal to
the base loop.

The destructor runs `stop` when `loop()` of the base loop has returned, as the
programs in `tests` and `examples` do. It is two steps: every loop of the pool is
told to quit; the threads are joined, the loops destroyed and the acceptor closed.
The `close()` of each connection that follows reaches no loop that runs: the loops
of the pool are destroyed, and without a pool it is queued in the base loop, which
has stopped. This is finding 2.

A `TcpConnection` is reused once nobody holds a pointer to it, as memory is.

### LockFreeQueue

Each step is one access to an atomic that other threads write; the locals of
`push` and `pop` are variables by thread. `compare_exchange_weak` may fail without
a reason. Nodes are numbered as they are allocated, an item is named by its node,
and `chain` and `taken` (history) are the order of linking and of removal; the
refinement mapping takes what was linked behind `head_` for the contents of
`FifoQueue`.

The code does look into deleted nodes. The model notes deletions in `freed`, and
does not hand the memory out again: the refinement and the counter are properties
of the algorithm on a heap that leaves deleted nodes alone, and `NoUseAfterFree`,
which fails, says how far the code is from needing no more than that. On the real
heap `new` may return the memory of a deleted node to which a thread still holds a
pointer; its `compare_exchange_weak` then succeeds although `head_` or `tail_` has
been elsewhere in between (ABA), and with several consumers the order of the queue
is lost. `ImplementsFifo` and `CountTracks` exclude this and do not show its absence.
`SafeForOneEach` is what remains of it for one producer and one consumer.
`size_t` counts modulo `Word`.

### Buffer and RpcChannel

`Buffer` keeps the vector and the two indices of the code, and each operation is
an operator that gives the new record. `RpcChannel` uses it on both sides: a frame
is packed into a new buffer by `pack_send`, travels as a sequence of bytes, and is
received in pieces of any size into the receive buffer of the other end, which is
moved and made longer as `TcpConnection::async_recv` asks for space. A byte
carries the frame it belongs to and its place in it, so a reader that starts
anywhere else is seen to.

`process` is one step per frame; `process_message` is a step for a response, one
for a request that is refused and one for a request that is given to a service.
The service answers in a step of its own, in any order, also when the connection
is gone. In that case the code calls `on_done` through a plain pointer to a channel
that was destroyed (`RpcChannel.cpp:218`); the model takes it to find no connection
and to send nothing. The client keeps its channel, with `id_` and `reqs_`, over connections.

### HttpTask

One connection and its task. The loop thread parses what arrives (`on_recv`), and
looks at `completed()` in a step of its own, since a worker may run `init` in
between; it queues the task for the workers when a request is complete and when a
buffer was sent. The pool may refuse a job (`append`), since its queue is that of all
connections; the server does not look at the result, and `refused` (history) says
that it happened. A worker's job is one step, but for `init`, which no lock guards: it
clears `completed_` at the end of the job, and the rest of the task in a step of its
own (`init_rest`), while `resetting` counts the worker. The client is patient: it sends the
next request when it has the whole answer, or leaves at any time, with or without
a reset, and then the handlers and jobs that are under way still run.

`overlapped` is history: it becomes true when a request is parsed while the one
before is still in the task, a task that is being reset included. That happens to a patient client, too. The answer is
whole when its last chunk has arrived, and only after that does a worker read the
end of the file and `init` the task. If the next request is parsed first, `init`
wipes it out, or, between two of its pieces, makes the rest of it garbage that is
answered with 400. The comment at `HttpServer.cpp:71`, "no multiple requests at one
time", states the assumption, but nothing establishes it. `OwnAnswer` and `Finishes`
are about connections on which it has not happened, and `Finishes` about those whose
jobs were all taken.

## Runs

| Run | Expected | Shows |
|---|---|---|
| `pool` | pass | all properties of `ThreadPool` |
| `wheel` | pass | all properties of `TimingWheel`, intervals that are no multiple of a turn |
| `wheel_turns` | pass | with multiples of a turn: calls are on time or late by exactly one turn, and no timer is lost but repeating ones of such an interval |
| `connection` | pass | all properties of `TcpConnection`, no `send` from `sendcomplete_callback_` |
| `connection_inline_send` | violation of `OneWriteInFlight` | `send` inside `sendcomplete_callback_` starts two writes of one buffer |
| `client` | pass | all properties of `TcpClient` |
| `lockfree` | pass | `LockFreeQueue` implements `FifoQueue`; `CountTracks`, `BoundOvershoot`, `SafeForOneEach` |
| `lockfree_mpmc` | violation of `NoUseAfterFree` | with more threads, deleted nodes are read |
| `server` | pass | `Registered`, `KeepsServing`, `StopReturns` |
| `server_stop` | violation of `StopCloses` | `stop` closes no connection, neither on the destroyed loops of a pool nor, without io threads (the trace), on the stopped base loop |
| `rpc` | pass | `Framed`, `Answered`; the channels implement `RpcCalls` |
| `http` | pass | `OwnAnswer`, `Finishes` |

### Bounds

* `pool`: three workers (one busy, one woken, one asleep), four tasks, no bound and
  a bound of two, two starts so that a stopped pool with a full queue is started
  again.
* `wheel`: three ticks to a turn, intervals 1, 2 and 4 (in the next slot, wrapping,
  more than a turn), two addresses and three timers, so that memory is reused.
  `wheel_turns` has intervals 2, 3 and 6: one and two whole turns.
* `connection`: three buffers (one written, one next, one behind), two queued
  closures.
* `client`: two connections (an old one and its successor), two retry timers, three
  closures queued or about to be. States in which `clean` is false are not explored
  further in this run: every property but `TypeOK` holds there by its statement, and
  `TypeOK` is proved for all states (`TcpClientProofs`).
* `lockfree`: two producers and two consumers, so that a thread is overtaken by one
  of its kind and by one of the other kind; five nodes, four of them pushed;
  no bound and a bound of one. Threads of a kind are symmetric.
* `server`: a pool of no, one and two threads; three connections, the one being
  accepted included, so that two are up on different loops. A pool of two shows
  the round-robin wrap.
* `rpc`: two calls, frames of three and five bytes received into buffers of four:
  frames are smaller and larger than the buffer, which is both moved and made
  longer; one reconnect. `id_` starts at 0: it is not initialised, but ids are only
  compared with each other.
* `http`: three requests, two pieces each, files of no, one and two chunks, two
  workers.

### Fairness

* `pool`: each worker is scheduled and its tasks return (weak fairness of its
  steps, without spurious wake-ups); the joins return. Nobody has to call `start`,
  `append` or `stop`.
* `wheel`: `io_context` runs ready handlers in the order in which they became
  ready, so neither the queued closures nor the tick are passed over for ever
  although handlers and user calls come between (strong fairness), and a walk
  that was begun goes on.
* `connection`: strong fairness of each handler for the same reason, weak fairness
  for the return of callbacks; a write ends in success or in failure; the read of a
  shut socket ends. A peer need not send.
* `client`: as `connection`, and a connect under way succeeds or fails; a thread
  that took the flag in `connect` goes on to queue the closure. Nobody has to call
  `connect` or `disconnect`.
* `server`: each loop runs the closure at the head of its queue (weak fairness: it
  stays there), the handler of an accept that completed runs, the destructor goes on
  once the base loop has stopped. A client that waits is accepted unless the
  attempts fail for ever (strong fairness of `accept_done`): a server
  that stays out of descriptors serves nobody. Clients need not come or go,
  nobody has to quit.
* `rpc`: while the connection is up what was sent arrives, both loops process what
  they have received, and a service calls `on_done` at some time. Nobody has to
  call, and the connection need not last.
* `http`: the loop thread and the workers run. The client need not send or leave.

### Deadlock

All specifications may stop: nobody has to use a pool or a connection, and the
number of tasks, timers, buffers, nodes and calls is bounded. Deadlock is therefore not checked;
what has to go on is stated as liveness.

## Proofs

Each theorem holds for every value of the constants that satisfies the named
assumptions of the modules (`WorkersAssumption`, `TicksAssumption`, ...).

Every safety invariant and every refinement the runs check is a theorem.

**ThreadPoolProofs.** `Inv` is type correctness with two facts about threads:
sleepers are idle threads of the pool, threads outside it are in no part of
`run`; and a join is under way only after `exit_` was set. The results rest on
it. `Quiescence`: `stop` returns when all threads are done. `WakeupsSuffice`:
`NoLostWakeup` is inductive relative to `Inv`: a push adds one task and, if
somebody sleeps, one awake worker; a pop takes one of each; only a worker that
sees an empty queue goes to sleep. `FirstInFirstBegun`: `started` followed by the
queue is increasing, and everything in it was accepted. `NoTaskLost`: the tasks in
the queue, in `started` and in `discarded` are the accepted ones, and no task is in
two of these. `PoolRefinesExecutor`: each step is a step of `TaskExecutor` or
invisible.

**TimingWheelProofs.** The heart is `TimeInv`: for a timer in the wheel, the ticks
it has seen and the ticks its slot and rotation still stand for add up to its
interval, or to one turn more if the interval is a multiple of `Count_Ticks`. It
needs `PlaceInv` (where a timer can be, with `LostOnlyOnWholeTurns`), `HandInv` (what the walk of
`handle_timeout` has left, and that the called timer is in the current bucket) and
`PostInv` (a queued cancellation is of a repeating timer, so the timer does not
vanish after its call). The arithmetic of slots is in the lemmas `Placement` and
`PlacementWhole` (slot and rotation stand for the interval) and `TurnStep` (a tick
brings every slot nearer by one). For any intervals: `TypeCorrect`, `NothingStale`,
`LateByATurnAtMost`, `OnlyWholeTurnsLost`. Under `NoWholeTurn` (no interval is a multiple of
`Count_Ticks`) the second alternative of `TimeInv` is void and no timer leaves the
wheel while it is allocated, which gives `Scheduled`, `CalledOnTime` and
`WheelRefinesService`; without `NoWholeTurn` these three do not hold (finding 4).
For the refinement, `TimeInv` lets the abstract countdown be read as interval less
age, so only the guards of `Tick` and `Call` need the slots.

**TcpConnectionProofs.** Under `~SendFromSendComplete`. The invariant says that the
write under way, if there is one, is of the front buffer, that the front buffer
follows what the wire has, and that a buffer waits only behind a write or behind
`handle_send`, which is about to start one. `SingleWrite`, `Progressing`,
`ConnectionRefinesStream` follow. `AtMostTwoReports` counts: a report uses up the
read or a write, and neither is started again once the connection is down.

**TcpServerProofs.** `Registered` does not say which closures can still be queued
for a connection. `ClosureInv` does: a queued `handle_establish` is for a connection
that is accepted and no further, on its own loop, and a queued `remove_conn_loop` for
one that has ended, on the base loop. `OnceInv` keeps `handle_establish` from being
queued twice, which would bring an ended connection back to life; `AcceptInv` keeps
the connection being accepted out of `connections_`; `ReportInv` keeps a connection
from ending before it is up. `PoolInv` is the round-robin index in its range.

**TcpClientProofs.** `OneAttempt` counts what is under way. `AttemptInv` says which
of these can be there together while `clean` holds: nothing, while the flag is clear
or held by the probe of a `disconnect`; one `connect` on its way, or the retry timer,
or a `conn_`; and only `conn_` is dialled or up, not both, so that
`handle_connect` finds the connection it was started for.

**LockFreeQueueProofs.** `ListInv`: all nodes ever linked form a chain without
repetition in which each points to the next, with `head_` on it and not past
`tail_`. `ThreadInv` says what a thread still knows about nodes it read some time
ago; every step of another thread leaves all of it true, since links are set once
and `head_` and `tail_` only move forwards (`Rely`). `IsFifo` follows: the link is
the push of `FifoQueue`, the move of `head_` its pop. `CountInv` balances nodes,
producers that passed the test for `full` and `count_`; it gives
`CounterTracksItems` and `OvershootIsBounded`, by counting threads by their place in
the code. `OneEachIsSafe` is from an invariant of its own: with one thread on each
side what a thread has read of `tail_` and `head_` is still so, and only what is
behind `head_` is deleted. All of it is for any number of threads and nodes, on the
heap described above, which excludes ABA.

**RpcChannelProofs.** The lemmas about `Buffer` show that it is a queue of bytes
whether it moves or grows. So what an end has not consumed and what is on its way to
it is one stream (`End`), which a receive leaves as it is; `Whole` says that around
each byte of it lies its frame. A frame that is packed is appended, a frame that is
processed is the first: `StreamsAreFramed`. For `CallsFindTheirAnswers`,
`MeantInv` says that everything on its way and everything a service works on under
an id that is in `reqs_` belongs to the call that waits under that id, over
reconnects too: ids are given out once, as `id_` only grows from whatever it held.
(The model does not wrap `id_`; an id would come again after 2^64 calls.)

**HttpTaskProofs.** As long as nothing has `overlapped`, the task is in one place: in
`on_recv` that completed a request, in one job of the workers, in one buffer being
sent (`PlaceInv`) or with the worker that resets it (`ResetInv`); a job that is
refused leaves it nowhere. The other parts say which request each place belongs to, what is
left of the file, and that what the client has and what is on its way begin with
the headers and hold no more chunks than these promise. `AnswersAreTheirOwn`.

Only model-checked, because liveness under fairness is out of the prover's reach:
`StopReturns` of the pool and of the server, `EveryTaskBegun`, `EveryTimerFires`,
`DownIsReported`, `DataGoesOut`, `DisconnectEnds`, `TriesAgain`, `KeepsServing`,
`Answered`, `Finishes`.

## Findings

Shown by a run:

1. `LockFreeQueue.hpp:139`: a consumer deletes a node that other threads are about to
   look into (run `lockfree_mpmc`), in a queue that says it is for several producers
   and consumers and is tested with a hundred of each. If the allocator hands the
   node out again meanwhile, its untagged pointers are open to ABA too; the model,
   which reuses no node, does not show that.
2. `TcpServer.cpp:110`: `stop` destroys the io loops first and dispatches `close` to
   them afterwards; no connection is closed, and the dispatch goes to a destroyed
   loop. Without io threads, which is the case TLC's trace shows, `close` is posted to
   the base loop, which has stopped and never runs it (run `server_stop`).
3. `TcpConnection.cpp:173`: `send` from `sendcomplete_callback_` starts two writes
   of one buffer (run `connection_inline_send`).

Bounded by a property that holds:

4. `TimingWheel.cpp:85`: an interval that is a multiple of 60 seconds fires exactly
   60 seconds late (`LateByOneTurn`); a repeating timer with such an interval is
   erased from the bucket it was just put in and never fires again
   (`LostOnlyOnWholeTurns`: it happens to no other timer).
5. `TcpConnection.cpp:200`: the end of a connection may be reported twice
   (`DownAtMostTwice`), which the commented assertions at `TcpServer.cpp:193` and
   `TcpClient.cpp:122` rule out.
6. `TcpClient.cpp:82`: a `disconnect` that comes before the queued `connect_loop`
   finds no connection, clears `connecting_`, and the client connects nevertheless
   (`clean`).
7. `LockFreeQueue.hpp:57`: the bound may be exceeded by one item less than there are
   producers (`BoundOvershoot`), and `count_` may be below zero, that is huge, for a
   moment (`CountTracks`).
8. `HttpTask.cpp:286`: a task is made ready for the next request too late and
   without a lock (`overlapped`).
9. `HttpServer.cpp:85`: the result of `workers_.append` is ignored, so that a job the
   full pool refuses is lost and its request comes to no end (`refused`).

Seen while reading, outside the models: `RpcChannel.cpp:218` binds the closure of a
service to a channel that may be destroyed before it is called; `RpcChannel.cpp:118` loops for ever on meta
data it cannot parse; a client of `RpcChannel` does not look at the error code of an
answer, so a request that was refused looks like one that returned a default message
(in the model, `Empty`); the answer to a request that failed says
`Connection: close`, but `HttpMain.cpp` never closes that connection; an empty file is
answered without a `Content-length` on a connection that is kept; a connection that
ends in the middle of a file leaves the file open (`HttpTask.cpp:209`);
`HttpMain.cpp:101` makes a temporary `SqlConnRAII`, which gives the database
connection back before it is used; `set_signal_handle` while a signal is being
delivered leaves two waits behind, so later signals are reported twice;
`ThreadGroup::start` refuses its own default argument and ignores the bound it is
given; `connected_` is a plain `bool` that other threads read; `add_timer` on another
thread reads `timer->seq_` after the loop may have freed the timer.

## Not modelled

The map covers the library's and the examples' own code where it keeps state. Nine
tenths of the lines in the repository are vendored or generated (spdlog with fmt,
http_parser, protobuf output, Catch), and are not part of ecron: they are taken for
what their callers use of them. The library and the examples together have about
3000 lines, so no model of ecron can cover more than an eighth of the repository.

Of ecron itself: log output, formatting, socket options, drift of the tick timer;
`TimingWheel::stop` (never called); destructors of timers, connections and clients,
and of a server whose loop still runs; the signal set of `EventLoop`; the worker
threads of `RpcServer` (a data race on the receive buffer) and malformed RPC frames;
what `HttpMain.cpp` does to find the file of a request, and the database behind it;
`SqlConnPool` (two critical sections that wait for nothing); `ThreadGroup`, whose
workers are `ThreadPool` workers with a queue each, and which nothing uses; an HTTP
server without workers; the reuse of the memory of deleted queue nodes (ABA);
`CircularQueue`, which does not compile, and `LockFreeArrayQueue`, a stub; memory
orders weaker than sequential consistency; and all undefined behaviour that the
hazards list as such.

## Plan

What is left:

1. `TcpConnection`: which of the theorems hold without `~SendFromSendComplete`
   (type correctness and the bound on the reports, with two writes under way).
2. `TcpClient`: an invariant for the states in which `clean` is false, that is how
   far the client goes wrong after each of the three hazards.
3. Properties for the hazards that have none yet, where the model can hold them.
