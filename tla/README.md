# A verification project for the IOCP echo server

TLA+ models of the server's concurrent core, checked with TLC on small
instances, and theorems about them that TLAPS proves for every size: about the
three modules of a connection, the services, the request dispatcher, the
database pool and the logic thread.
Paths such as `net/connection.cpp` are relative to `src/src/`.

## 1. Inventory

The server is a single Windows process. Threads and who calls whom:

    peers -> kernel -> completion port -> IOCP workers (IoService, Connection)
         -> lanes of the game and the chat service (SwapQueue + LogicThread)
         -> database workers (WorkerPool, RequestDispatcher, MySQL connection)
         -> back to the game lane -> Connection::send -> completion port -> kernel
    a sweeper thread closes idle connections and reclaims closed ones;
    a log writer, an admin thread and main complete the process.

| component | state it keeps | operations | what makes it correct |
|---|---|---|---|
| connection, send side (`net/connection.cpp`) | two buffers, `sending_`, `flush_queued_`, `pending_`, `closed_` | send, on_flush, post_send_locked, on_send_done | one WSASend at a time, bytes in order, none stranded, the limit holds |
| connection, receive side | receive buffer, `recv_paused_`, `resume_queued_` | post_receive, on_receive_done, drain_frames, pause, resume, on_resume | one owner of the buffer, each frame delivered once and in order, a paused connection is resumed |
| I/O service (`net/io_service.cpp`) | `connections_`, workers, sweeper | adopt, find, dispatch, sweep, flush_pending, stop | an object outlives its operations; the connection limit; a closed connection is reclaimed |
| acceptor, connector | posted accepts, the listening socket | start, post_accept, on_accept_done, stop | every accept is posted again until stop |
| service lanes (`app/service.cpp`) | inbound queue, relay inbox, list of paused connections | post_*, run_step, resume_paused | relays before messages, a fault loses one event only, paused connections are resumed |
| router (`app/service_router.cpp`) | route table | route, post_*, drain | notices precede messages; drain waits for all work |
| game and broadcast service, handlers, session table | sessions, members, names | on_event, on_service, on_db_response, handlers | sessions and members agree with the open connections; every request is answered once |
| logic thread, swap queue (`core/`) | signal, two buffers | wake, run, push, swap | no lost wakeup |
| request dispatcher (`db/request_dispatcher.cpp`) | queue per key, working marks, ready list, depth | push, take, finish, take_all | one request per session key at a time, in order; exact ready list and depth |
| database worker pool (`db/db_worker_pool.cpp`) | queues, connections, batches | submit, run, flush_saves, process, drain, stop | every accepted request is answered once; batches keep the order; only safe requests are retried |
| MySQL connection, procedures | connection, prepared statements | save, history, counter, transactions | a counter request key counts once |
| receive buffer, frame parser, rate limiter, latency histogram | offsets, tokens, buckets | reserve, commit, consume, peek, allow, add | bounds; nothing read that was not written |
| log, admin server, metrics, configuration, main | queue, files | | drop counter; shutdown order |

What is hard here: the flags `sending_`, `flush_queued_`, `recv_paused_` and
`resume_queued_` hand work from one thread to another without a common lock;
object lifetime depends on a counter that six places change; the shutdown
drains four stages in a row; requests of one session must stay in order over a
pool of workers. `PROJECT.json` lists these places as hazards, line by line.

## 2. Modules

| module | models |
|---|---|
| `OutboundStream` | abstract: what `Connection::send` promises, a stream of whole messages |
| `ConnectionSend` | the send side, with senders, workers and kernel; implements `OutboundStream` |
| `ReceiveBuffer` | the positions of a receive buffer: reserve, commit, consume |
| `ConnectionReceive` | the receive side with its buffer, a bounded lane, pause and resume |
| `ConnectionLifetime` | what keeps a connection object alive: registry, adopt, dispatch, sessions, sweep |
| `KeySerial` | abstract: requests of a key one at a time, in order, every key served |
| `RequestDispatcher` | the dispatcher and the workers that use it; implements `KeySerial` |
| `WorkerPool` | the database pool: submit, batches, deadlines, retries, drain, stop, with connections that break and the tables behind them |
| `Services` | the router, the game and the chat service, relays, database answers, faults |
| `LogicThread` | the thread of a lane and its swap queue, down to mutex, signal and condition variable |
| `Shutdown` | the drains and stops at the end of `main`, and the way of a request through the stages |
| `LogRotation` | rotation and purging of log files |
| `...Proofs` | the theorems about a module and their proofs (section 4); `WorkerPool` has two, `WorkerPoolDatabaseProofs` on top of `WorkerPoolProofs` |
| `MC...` | values of the constants for TLC |

Definitions that say "mutant" in their comment are wrong variants of the
definition that follows them. They are not part of the model; they stand for
plausible slips that a property must detect, and `PROJECT.json` pairs each
property with one.

### ConnectionSend

A section under `send_mutex_` is a step: all fields but `closed_` and
`pending_` are touched under it. `send` is three steps (the checks before the
lock, the locked part, a close after it), a completion is the locked part, an
optional close and the decrement of `pending_`. The locked part of `send`
either issues at once (`direct_send`), leaves the bytes to a running send or a
queued flush, posts a flush, or issues because posting failed; every WSASend
can fail on the spot. The kernel (external) completes a send with any number
of bytes, an error, or an error after some bytes. A message is its sequence of
bytes `<<message, position>>`, so that a lost, repeated or moved byte shows.
`accepted` and `wire` are history variables.

`FailureIsFinal` is an assumption about Winsock: once a send failed or moved
nothing, the socket moves no byte any more. The code needs it:
`on_send_done` clears `sending_` under the lock but closes after it, and a
sender that comes in between issues the next bytes. With
`FailureIsFinal = FALSE` TLC refutes `ImplementsStream` in this window. It is
listed as a hazard.

### ConnectionReceive

A frame is two units (header, body), the receive buffer is its positions and
capacity in these units (`ReceiveBuffer`), its content the stream from the
consumed frames on, and a frame's kind says which lane
takes it, that no service knows it or that its body is too large. A receive may
deliver as much as the buffer has room for. A worker's
handler is a sequence of steps: take the completion, cut one frame at a time,
pause, put the connection on the lane's list, post the next receive or not,
decrement `pending_`. `on_resume` clears its two flags in two steps. The rate
limiter is a free choice: any complete frame may be answered "busy". A frame
whose id no service owns, like one that is too large, is answered by a fatal
error: `send_error` closes the connection after it (`app/reply.cpp:19-20`, the
codes below 10 of `app/messages.h`). `DrainFatal` closes, the frame is consumed
in the next step, and nothing may be cut behind it (`NothingBehindFatal`).
The other errors leave the connection open. A fatal error that a lane's handler
answers is, for the receive side, a close by somebody else. A lane
swaps its queue, handles the batch (one step: nobody else sees it), takes the
list of paused connections and wakes them one by one; posting the wake-up may
fail, and then nobody resumes the connection (`stranded`). `handled` keeps the
events each lane has handled, in their order.

`RoomToReceive` says that `reserve_free` never has to grow the buffer or to
refuse: when a receive is posted, less than a frame is left in the buffer, and
`kChunk` (8 KB) has room for that (at most 1,029 bytes) and for `kMinFree`
(4 KB). The bounds have the same relation: a chunk of 4, 3 to be free and a
rest of at most 1. So a connection's buffer takes 8 KB, not the 16 KB of
`kMaxCapacity` that the worst case in the header counts with.

`setup` fixes the overflow policy, the number of workers and what the peers
send. `run receive` uses backpressure with ONE worker and refusal with two;
`run double_receive` shows what two workers do under backpressure, see below.

### ConnectionLifetime

The object lives while it is registered or somebody holds a `shared_ptr`: the
caller of `adopt`, a Connected notice in a service's queue, the session it
becomes, a handler (`dispatch` holds what `find` returned) and the sweeper's
list. An operation refers to it by a raw pointer: it is in the `kernel`, on the
`port`, or `lost` when its notification finds no connection. Here the
operations only come and go, the other modules say what they carry.

What decides about lifetime is a test in one thread and its use in another, so
these are steps of their own:

- `close()` in its parts: the mark (`closed`, the exchange at
  `net/connection.cpp:47`, within the caller's step), `CloseSocket` (line 58) and
  `PostDisconnected` for each service, in the order of `service_at`;
- the test of `closed_` and the system call behind it: `Start` and
  `FirstReceive`, `OnReceive` and `PostReceive`, `SendEnter` and `SendAppend`,
  `PostSendLocked` and `IssueSend`. A call on a socket that is not closed yet is
  taken, whatever `closed_` says;
- `adopt`: make, register under the lock or be refused, `PostConnected` to one
  service after the other, start, erase when the first receive failed.

A send may queue a flush or, in `direct_send` mode or when the flush cannot be
queued, issue at once, from a service's thread or from a worker that answers a
frame. A thread that issues holds `send_mutex_` (`Locked`), also in a `close()`
because the call was refused. The increment of `pending_` and the system call
are one step: between them the count alone keeps the sweeper away. The sweep
reclaims one connection at a time, notes the idle ones and closes them outside
the lock. A connection is idle only when it was started, because it was touched
when it was made. The overflow policy is refusal: no receive is paused, which
`ConnectionReceive` covers. That a closed socket's handle may be given to
another socket is left out.

`ReclaimedIdle` says of whatever the sweeper takes out of the registry that
nothing refers to it at that moment. It cannot say more: its socket may be open
and a thread that tested `closed_` before may issue afterwards, see
`destroyed_idle`. It leaves out what `adopt` erases after a first receive that
failed (stage "failed"), whatever is pending by then: a service that has its
Connected notice may have sent to it. That is listed as a hazard, and
`DestroyedIdle` speaks of started connections for the same reason.

`overtaken` is a history variable: the connections of which a service was told
the end in front of the beginning, because they were closed between the two
calls of `post_connected`. Such a service makes a session for a connection that
is gone, and keeps it for ever; `EventuallyDestroyed` leaves out these. In
`Services` they are `early`.

### RequestDispatcher

Each operation runs under one mutex and is a step. A worker takes requests
until its batch is full or nothing is ready, or takes one that cannot be
batched, and finishes all it holds in order before it takes again.
`take_all` may come at any time.

### WorkerPool

A lane's `submit` is two steps, the checks and the push, so that other lanes,
`drain` and `stop` come in between. A worker's loop is cut where another thread
or the database can act: `Top` (reconnect, ping, swap the static queue), `Take`,
`Collect`, `Flush`, `Pick`, `LoopEnd` for the collecting of Saves; `TurnDown`,
`Execute`, `Reopen` for a single request; `BeginBatch`, `InsertBatch`,
`CommitBatch` for the transaction of a batch; `Release` and `Exit`. `dispatch`
is a variable that never changes, so that one run has both kinds. Under dynamic
dispatch the shared queue is used through what `RequestDispatcher` implements:
a line per key, one request of a key at a time.

The database is three tables and one `session` per connection. A connection can
be lost before, during or after a statement, and a statement can be refused.
What is lost in the middle never arrived, took effect, or is finished later by
a server that nobody listens to (`running_on`): a client that gave up after
`MYSQL_OPT_READ_TIMEOUT` knows as little. A Counter's transaction is one step:
its writes are invisible until COMMIT, and two of one request key wait for each
other at the primary key. Two assumptions about MySQL: a refused COMMIT ends
the transaction without effect, and a connection that is gone rolls back what
it had open. The workers' condition variable is not modelled: its wait is timed
and its protocol the one of `LogicThread`. A round without work is left out.
`accepted` are the requests that were pushed while the pool was running. One
that is pushed after `running_` fell is left out although `submit` returns true:
when the workers are joined by then it is in nobody's hands. Likewise
`DrainComplete` speaks of what was pushed: a lane between its test and its push
when `drain` returns is outside it. `Exit` swaps, counts down and rejects in one
step where the code counts down before it answers
(`db/db_worker_pool.cpp:331-332`); only `drain` looks at the counter, and it is
over by then.

A History carries the newest rows of its session, as many as it asks for at
most (`ORDER BY log_id DESC LIMIT ?`, `db/mysql_connection.cpp:18`):
`MostRecent`, over the order of `log_id` (`log_order`). The number is given out
at the INSERT and the row is seen at the COMMIT, so the rows of a transaction
that runs on may come in below rows that were committed before them. What a
session may rely on is therefore `Carries`: a Save in front of the History that
was answered Ok is among the rows, or the answer is full of newer ones.
`answers` has the pairs of requests of one session of which the sink got the
answer to the first before that to the second.

### Services

`post_connected` tells the game service, then the chat service, and only then is
the first receive posted; `close` tells them in the same order, from whichever
thread closes. Each post is a step. A lane's round is `run_step`: the database
answers (game) or the relayed session keys (chat) are swapped out and handled,
then the inbound queue is, one event a step; the chat lane drops the keys that
nobody took at the end of a round. `Fault` is a handler that throws together
with `note_fault` and `on_fault`. The pool is a counter of requests under way
for each connection; `WorkerPool` says what becomes of them.

The properties name the cases in which the code does not keep them, each as a
history variable: `early`, a connection that closes while `post_connected` is
between the services (the chat lane gets Disconnected in front of Connected
and keeps the member for ever); `deaf`, a handler that threw with no entry to
remove, be it over an event, a relayed key or a database answer (`on_fault` then
leaves the connection open, and its requests get no answer);
`missed`, see the lost name below. The comment at `app/service.cpp:348`, why a
notice is never refused, and the one at line 363, why a refusal is answered, are what
`NoOrphan` and `EveryRequestAnswered` state. `NoOrphan` and `EventuallyRemoved`
exempt `early`: they do not hold there. Between the two posts only the game
session has the connection, so it takes a send of the game service that
fails or overruns the limit to close it (`Close`). A handler that
answers with a fatal error is its own action and then `Close`.

### LogicThread

Each access to an atomic, each section under `mutex_` and each swap is a step.
`thread` is the position in `run()`, `producer` and `stopper` those of the
callers of `wake` and `stop`. The thread holds the mutex at "decide" and
"going"; the wait begins in the step that gives it up. Atomics are sequentially
consistent here. The code's weaker orders give the same: a push that a swap
misses comes after it by the queue's lock, so its exchange of the signal comes
after the store that cleared it; and the look before the wait is ordered with
the exchange by `mutex_`. Spinning only repeats
`Check`. Timers run with the step and are not told apart from it.

### Shutdown and LogRotation

`Shutdown` has a request at one place at a time, from the client to the socket,
while `main` goes from call to call; `submit` and an answer of the pool are
steps here, and every drain may run out of time. `LogRotation` has the writer
thread's `drain` with rotation, name and purge as one step, the clock, failing
opens and renames, and a restart of the process. A file is its time stamp and
number; the order of names is the order of their characters, because the
finding is about that order.

## 3. Runs

| run | checks | result |
|---|---|---|
| `send` | types, `OneOutstandingSend`, `NoLostFlush`, `PendingCount`, `WithinLimit`, `NothingDropped`, refinement of `OutboundStream` with liveness | holds, 341,536 states |
| `receive` | types, `OneReceiver`, `PendingCount`, `NeverForgotten`, `DeliveredInOrder`, `RoomToReceive`, `NothingBehindFatal`, `EventuallyDrained` | holds, 283,785 states |
| `double_receive` | `NoReceiveWhilePaused` | violated: see below |
| `lifetime` | types, `ReclaimedIdle`, `EventuallyDestroyed` | holds, 109,918 states |
| `destroyed_idle` | `DestroyedIdle` | violated: see below |
| `dispatcher` | types, `KeyExclusive`, `ReadyExact`, `DepthExact`, refinement of `KeySerial` with liveness | holds, 2,522 states |
| `pool` | types, `DrainComplete`, `AnsweredInOrder`, `SavedOnce`, `AnswerTrue`, `CountedOnce`, `ReadsOwnSaves`, `NoneForgotten` | holds, 1,543,070 states |
| `services` | types, `NoOrphan`, `EveryRequestAnswered`, `NoNameLost`, `EventuallyRemoved` | holds, 198,884 states |
| `lost_name` | `LeftoversHaveNoOwner` | violated: see below |
| `logic_thread` | types with no item handled twice, `NoLostWakeup`, `EventuallyHandled` | holds, 138,050 states |
| `shutdown` | `AnsweredBeforeClose` | violated: see below |
| `log_purge` | `PurgesOldest` | violated: see below |

Bounds. `send`: two senders, two workers, four messages of 1 to 3 bytes, one of
them too large, and a limit of 4 bytes: two-byte messages can be cut by a
partial send, three messages overflow the limit, two workers let a flush and a
completion run side by side; each message is sent once. `receive`: one
connection with three frames, or two that compete with one frame each, or
refusal with two workers; a lane of capacity one, so that any notice or frame
makes it full; a buffer of four units, so that a receive ends in the
middle of a frame and the rest has to be moved. `lifetime` and
`destroyed_idle`: one connection, since connections share nothing but the
registry; two services, so that a close comes between their notices and two
threads send beside the workers; two workers, so that a connection's operations
are handled side by side. That the limit on connections holds is
proved (`LimitHolds`), not run. `dispatcher`: three keys, five request slots that are
used again, two workers, a batch of two and a cap of four, so that one key has
a request in hand and others waiting, and the cap is reached. `pool`: a session
that saves and reads, one that saves and counts, on the same shard, two
workers, batches of two, one fault; so the Saves of two sessions share a
transaction, a History stands behind a collected Save, and the fault comes at
any statement of either. The History asks for one row, and its session has
saved one; that `ReadsOwnSaves` holds where the limit cuts rows off is the
theorem's part. A second fault or
a third session multiply the states beyond a run of minutes. `services`:
one connection with three requests on a queue of two and two faults; the tables
are keyed by connection, and what races is the connection's own notices, keys
and answers on two lanes. `logic_thread`: two producers of two items, so that
one raises the signal while the other finds it raised, and both buffers are
used again. `shutdown`: a request with and one without the database. `log_purge`: a file
that is full after one batch.

Deadlock is not checked in `send`, `receive`, `double_receive`, `lifetime`,
`destroyed_idle`, `services`, `lost_name`, `shutdown` and `log_purge`: the peers have a bounded number of messages and connections, and
an idle server waits. In `dispatcher`, `pool` and `logic_thread` it is checked.
In `pool` the scripts are finite and a worker's rounds without work are left
out, so no behaviour goes on for ever: with no deadlock before `stop` has
returned, `NoneForgotten` says that every accepted request is answered.

Fairness. IOCP workers, logic threads and database workers are loops that never
block for good: weak fairness of a worker's next step, of the port handing out
a connection's notifications and of a lane's loop (it sleeps at most
`max_idle_wait_ms`). The kernel completes what it was given. Nobody has to
connect, send, submit or close. In `lifetime` also `adopt`, the sweeper and
whoever is inside `send` or `close` go on, and the kernel completes the
operations of a closed socket; taking a notice is strongly fair: a service's
sends are made while it handles its queue in order, so they cannot keep it from
the next notice. In `services` the lanes run and a thread that told
one service goes on to tell the other; the pool owes no answer there. In `logic_thread` the thread, a
producer inside `wake` and a caller inside `stop` go on; the end of the timed
wait is NOT assumed, so `EventuallyHandled` does not lean on the timeout that
would cover up a lost wakeup after `max_idle_wait_ms`.

### The double receive

Under backpressure `Service::post_message` pauses the connection and puts it on
the lane's list (`app/service.cpp:357-361`) while the worker is still inside
`on_receive_done`. The lane may take the list at once and post a resume; a
second worker runs `on_resume`, which clears `recv_paused_`; then the first
worker reads `recv_paused_` (`net/connection.cpp:118`), finds it clear and
posts a receive, and so does `on_resume`. The comment at line 148 says that no
receive was posted meanwhile. By default there are two to four workers
(`IoService::decide_worker_count`). With one worker the resume waits in the
port until the first handler is over, and all properties hold.

### Destroyed with an operation outstanding

The comment at `net/connection.cpp:17` says that nothing is outstanding in the
destructor, and the sweeper's at `net/io_service.cpp:283-284` that a connection
is reclaimed when its socket is closed and nothing is outstanding. But what it
tests is `closed_`, which `close()` sets (`net/connection.cpp:47`) before it
closes the socket (line 58), and `pending_`, which a thread that has tested
`closed()` has not raised yet: `post_receive` (line 69, raised at 88),
`send` (190, 233), `post_send_locked` (266, 283). A thread may be preempted in
each of these windows; the sweeper wakes every `sweep_interval_ms`.

In the shortest trace a service, told of the connection, sends and overruns the
limit while `adopt` is between the test and the WSARecv of the first receive:
the connection is marked, reclaimed with its socket open, the receive is
accepted, and when the sessions end the object is destroyed with `pending_ = 1`
and a receive in the kernel. Two service threads in `direct_send` mode do the
same with a WSASend, and a sender that is past line 190 can post a flush on a
connection whose socket is closed: its notification, which `dispatch` reads,
then points into an object that is gone. What does hold is `ReclaimedIdle`, in
the moment of reclaiming.

### The lost name

The chat service keeps a session key that arrives before its member and drops
what is left at the end of a round; `app/broadcast_service.cpp:111-112` says
that it has no owner then, because Connected was queued first. But
`ServiceRouter::post_connected` tells the game service first
(`app/service_router.cpp:78-80`). The game lane can handle Connected and relay
the key while the I/O thread has not come to the chat service yet; if the chat
lane runs a whole round in this window, the key is dropped and the member has
no name for the rest of its life. `NoNameLost` shows that there is no other way
to lose it.

### Answers lost at shutdown

The three drains look at queues, at the pool's depth and at send buffers. The
batch a lane has swapped out is in none of them (`app/service.cpp:71-80`,
`app/service_router.cpp:117-121`). With the lane in the middle of a batch, all
drains succeed at once and `io.stop` closes the connections before the rest of
the batch is answered. The comment at `main.cpp:274` says that the connections are
closed after the work is finished and its answers are out.

### The purge that takes the newer file

Files rotated within one second are `<stamp>.log`, `<stamp>-1.log` and so on
(`core/log.cpp:131-137`). '-' sorts before '.', so the second file of a second
comes before the first and `purge_old` removes it first; the comment at
`core/log.cpp:174` says that the order of the names is the order of time.

## 4. Proofs

A module `...Proofs` extends the module it is about. Each has an inductive
invariant `IInv`, a lemma for every action (the action preserves `IInv`, one
step per conjunct it can disturb), and theorems `Spec => []Inv` drawn from it.
TLC checked every `IInv` on the bounds of the module's run before it was proved.
The assumptions on constants are `ASSUME`s of the modelling modules, which TLC
evaluates in the runs; further hypotheses stand in the theorem.

### ConnectionSendProofs

For any senders, workers, messages of at least one byte and send limit
(`SendAssumption`): `TypeCorrect`, `OneSendAtATime` (`OneOutstandingSend`),
`FlushNeverLost` (`NoLostFlush`), `PendingExact` (`PendingCount`),
`LimitRespected` (`WithinLimit`). `IInv` joins these with two facts none of them
says: the notification on the port and `flush_queued_` agree (`FlushExact`),
and while the connection is open the staging buffer is in use only by a running
send (`StagingInUse`), without which the swap in `post_send_locked` could bury
bytes.

Assuming `FailureIsFinal` (a socket that failed a send accepts no other, which
is what the runs assume too): `NothingLost` (`NothingDropped`) and
`ImplementsStreamSteps`, that every step is a step of `OutboundStream` or leaves
its variables alone. `StreamInv` adds that on a socket that has not failed every
completion still waiting moved bytes and says so. Without the hypothesis the
failure of one send with another issued before the close leaves a gap (section
2). The fairness of `OutboundStream!Spec` stays with TLC.

### ConnectionLifetimeProofs

For any connections, workers, services and limit: `TypeCorrect`,
`PendingCounts`, `ReclaimsOnlyIdle` (`ReclaimedIdle`) and `LimitHolds`
(`WithinLimit`). That the sweeper takes out no connection an operation or a
handler refers to follows from `pending_` being 0; so the core of `IInv` is
`PendingExact`: `pending_` is the number of operations not handed to a worker
plus the number of handlers that have not given theirs back. The count takes
each kind of operation once, so `IInv` also says that a receive is outstanding,
in its handler or about to be posted by it, one of these at a time and none
before start (`OneReceive`); the same of a send, which `send_mutex_` and
`sending_` see to (`OneSend`); and where a thread is when it holds a connection
(`ThreadsHold`). The steps of threads that only move fall under one lemma
(`MoveKeeps`), those that issue under another (`IssueKeeps`), a call of `close`
under a third. The counting uses the cardinality theorems for finite sets.

### ConnectionReceiveProofs

Without further hypotheses `PendingExact` (`PendingCount`): the count is right
even when two receives run at once; and `FramesInOrder` (`DeliveredInOrder`):
what a lane has handled, has in its batch and in its queue is, for each
connection, exactly the frames of its kind that were cut from the stream and not
refused, in increasing order. The order is stated by positions (`Mine`,
`Carries`), so that no induction over a sequence is needed: a step appends one
event to a queue, which adds one position (`CarriesAppend`), or moves events
from queue to batch to handled, which leaves the whole as it was. `DeliveryInv`
adds that the batch is empty outside "batch" and that nothing is refused that
was not cut. The model cuts, queues and consumes a frame in one step; that is
the code as long as the buffer has one owner, so the theorem speaks for the code
where `OneOwnerAtATime` does. The rest is proved under two hypotheses:
`OneWorkerOrRefusal`, that one worker runs or the policy is to refuse, because
with two workers under backpressure `double_receive` shows that the buffer gets
a second owner; and `ChunkSuffices`, that what is left of an incomplete frame
and a receive fit in the first chunk (1,029 and 4,096 of 8,192 bytes). Then
`TypeCorrect`, `OneOwnerAtATime` (`OneReceiver`), `NobodyForgotten`
(`NeverForgotten`), `AlwaysRoom` (`RoomToReceive`), `SealedBehindFatal`
(`NothingBehindFatal`), and `ResumeFindsNone`, the claim of the code that
`double_receive` refutes in general. For `SealedBehindFatal` the invariant is
`Sealed`: behind a fatal error the connection is closed, no receive and no
resume is under way, and the handler is still at that frame or past draining;
it leans on the one owner of the buffer. `IInv` says who owns
the buffer (a receive, a handler, or nobody while paused), what
`recv_paused_` and `resume_queued_` mean at each step of pause and resume, that
a paused connection is on some lane's list or about to be woken, and how much
the buffer can hold at each of these points.

### ServicesProofs

For any connections, queue bound, messages and number of handlers that throw
(`ServicesAssumption`): `TypeCorrect`, `NobodyOrphaned` (`NoOrphan`),
`NamesNeverLost` (`NoNameLost`), `RequestsAnswered` (`EveryRequestAnswered`),
and `DroppedKeys`: what `on_after_batch` drops
belongs to a closed connection, to one over which a handler threw, or to one
whose Connected was not in the queue when the lane swapped it out. `lost_name`
shows the last case, which the comment in the code excludes.
`NoOrphan` speaks of what is in the queues, not of their order; for it to
survive the handling of a Disconnected, `IInv` has to say that no Connected is
behind a Disconnected of the same connection, through batch and queue
(`NoticesInOrder`), that only a closed connection's end is told, and that one
closed before the chat service knew of it is counted as early. For the names:
a connection the chat service was told of is a member or about to be
(`MemberOrComing`), a key kept while a batch runs has its Connected in that
batch (`KeptIsComing`), and a relayed key is on its way, a name, or kept
(`KeySomewhere`).

`RequestsAnswered` counts: what a connection asked is what it was answered plus
what is in the two queues, the two batches, with the pool and among its answers
(`Settled`). A step takes one request from one of these places and puts it into
another or answers it; what needs an invariant is that none of them falls out.
`RequestInv` says of a connection that is neither closed nor deaf: a service
that was told of it has it in its table or has its Connected to come; its queued
requests are behind that Connected, unless it is in the table already
(`Greeted`), so that no request meets a missing session; and what the pool works
on or has answered has a session to come back to (`AtPool`).

### RequestDispatcherProofs

For any keys, workers, finite set of requests, cap and batch size
(`DispatcherAssumption`): `TypeCorrect`, `NoTwoOfOneKey` (`KeyExclusive`),
`ReadyListExact` (`ReadyExact`), `DepthCorrect` (`DepthExact`), and
`ImplementsKeySerialSteps`: push, take, finish and take_all are the steps
Submit, Start, Complete and Recall of `KeySerial`.

`KeyExclusive` is not inductive: that a taken key is in nobody's hands follows
from its working mark, and that the mark is right follows from where every
request is. `IInv` adds: a key is marked exactly when one of its requests is
held; a key has an entry in the table when it has requests or a mark; waiting
requests are of the key they wait at, no slot is twice in the lists; the ready
list holds exactly the keys that can be served. `DepthCorrect` counts the slots
in use: each action adds one, removes one or removes the waiting ones. For the
refinement, `KeyExclusive` makes the request a worker holds of a key unique, so
that it is the head of the mapped line.

### WorkerPoolProofs

For any finite sets of sessions, workers and requests, any scripts in which a
request occurs once, any cap, batch size and number of faults
(`PoolAssumption`), under static and dynamic dispatch: `DrainIsComplete`
(`DrainComplete`), `NobodyForgotten` (`NoneForgotten`), and `NothingOvertaken`
(`NoneOvertaken`, the second half of `AnsweredInOrder`, which the next module
proves whole).

All three are about what happens to a request between the lane that submits it
and its answer, so `IInv` says where every request is. What a worker has in
hand, has collected, has swapped out and, under static dispatch, has in its
queue is read as one sequence, its `Pipe`. Most steps only move a request
along the pipe and leave it unchanged (`QuietKeeps`), the others answer its
front (`AnswerKeeps`), release it, take, push, or reject what is left; one
lemma for each of these kinds carries the argument and a short one per action
says of which kind it is. The parts of `IInv`: a pipe and a line hold the
requests of a session in the order of its script (`InOrder`); under static
dispatch a session is with its worker only, under dynamic dispatch one request
of it at most is with a worker and the rest waits behind it (`Home`,
`Exclusive`); what waits has no answer and what is about to be released has one
(`Unanswered`); nothing answered comes after something of its session that
still waits (`NoOvertaking`); and what was taken on without an answer is
somewhere, though not with a worker that is gone (`Kept`). `DepthInv` adds that
the counters `drain` looks at are the number of requests in use, not yet
released, and how far they pass the cap when several lanes are between the
check and the push of `submit` (`Room`).

### WorkerPoolDatabaseProofs

On top of that, for the connections and the tables: `TypeCorrect` (it includes
the bounds of `DepthInv`), `SaveStoredOnce` (`SavedOnce`), `AnswersTrue`
(`AnswerTrue`), `KeyCountedOnce` (`CountedOnce`), `HistoryReadsSaves`
(`ReadsOwnSaves`), `AnswersInOrder` (`AnsweredInOrder`), and `AnswersStand`: an
answer is never changed.

`DataInv` says for each Save how its row, what the server may still run for it
and its answer go together (`RowAt`): a row of 1 only with Ok or Unavailable,
something pending only with Unavailable and no row, and never two transactions
pending with the same Save. `SavedOnce` alone is not inductive, since nothing
in it keeps a Save that ran into a broken COMMIT from being executed again;
that comes from `Unanswered` above and from `Work`, which says that a request
that is retried is no Save, and that an open transaction holds just the Saves
inserted so far. For the counters, that the claims of a session are as many as
its count (`Tally`). Every Save before a History
has its answer by then (`NoOvertaking`), so its row is stored: it is among the
rows or the answer is full of newer ones (`Carries`), which stays so because
`log_order` only grows. A step is reduced to what it does to
answers and tables (`DataStep`: it answers some requests in use with one
status, and commits a transaction of just these Saves, leaves it to run on, or
neither), and `DataKeeps` is proved once for all of them.

For the order at the sink, `answers` is the set of pairs of one session of which
the sink got the first first; a second answer to a request would be a pair of it
with itself. `OrderInv` says that these are the pairs of answered requests in the
order of the script and no others. A step answers one sequence, or one for each
session at the end of `stop` (`AnswersAll`): it is ordered by `InOrder`, it
holds nothing that was answered before (`Unanswered`), and all that was answered
of the same session comes before it (`NoOvertaking`).

### LogicThreadProofs

For any producers and any number of items (`MaxItemsAssumption`): `TypeCorrect`,
which includes that no item is handled twice, and `WakeupNotLost`
(`NoLostWakeup`).

Neither is inductive. `IInv` adds for the first that a pushed item is counted
and in one buffer only (`Pushed`) and that what is still to be handled was not
handled (`Fresh`); for the second that a filled buffer has raised the signal or
its producer is about to, except between clearing the signal and the swap
(`SignalUp`), and that whoever raised it after the thread decided to sleep has
the lock or the notification still to come (`SignalTold`, and `StopTold` for
`stop`). The lock is what makes it true: nobody gets from "lock" to "notify"
while the thread is between its decision and its wait.

### Only model-checked

- All liveness, and the fairness part of the two refinements: out of the
  prover's reach.
- `Shutdown` and `LogRotation`, whose runs show disagreements.

## 5. Plan

The parts of the system that carry its logic have their modules, and every
invariant a passing run checks has its theorem. What could follow: the drain of
two handlers inside one buffer in steps finer than a frame, which the double
receive makes possible; a shared model of the lanes' memory at `stop`; the
hazards in PROJECT.json that no property covers yet.

## 6. Not modelled

- Text formatting, metrics, the admin port's HTTP, configuration, uuid and byte
  order helpers: no state shared between threads.
- Winsock and MySQL calls beyond their possible results; timing (a timeout may
  happen at any moment); the timers of a logic thread.
- The token bucket and the latency histogram: sequential, with unit tests under
  `src/tests`. `ConnectionReceive` lets the limiter refuse any frame.
- `log_write`'s queue: the same `SwapQueue`; the limit is looked at before the
  push, so it can be passed by as many records as there are threads. The
  comment at `core/log.h:21` says that 0 bytes means no rotation; the day's
  change rotates all the same.
- The stored procedures' result sets: a procedure that took effect but whose
  row cannot be fetched. `WorkerPool` follows the direct SQL path.
- Re-posting of accepts, the connector, the load generator under `bench/`.
- The memory of a service's lanes: `stop` clears `lanes_` while another
  service's last rounds may still post to it. It is listed as a hazard.
