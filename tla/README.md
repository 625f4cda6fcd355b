# Sentinel Home Hub: TLA+ models and proofs

Sentinel Home Hub is a publish/subscribe broker for home devices: one asyncio
process that logs every published frame, queues it by priority and fans it out
to subscribers; a dashboard server that bridges the broker to browsers over
server-sent events; and a few clients. This directory models the parts that
carry its logic, checks them with TLC, and proves with TLAPS every safety
property that the passing runs check.

## The system

| Part | Source | State | Operations | What is hard |
|---|---|---|---|---|
| Priority router | `broker/router.py` | heap, counter, event flag, worker task | `enqueue`, `start`, `stop`, worker loop, fan-out | wakeups, order under late arrivals, slow and dead subscribers, cancellation |
| Connection registry | `broker/server.py` 42-86 | client table with topic sets, and each transport | `register`, `unregister`, `subscribe`, `get_subscribers` | two tasks unregister the same connection; frames of a dropped client are still handled |
| Event log | `broker/storage.py` | one append-only file | `append` (pool thread), `replay_from` (batches read by pool threads) | two threads append at once, replay during appends, torn writes, arbitrary offsets |
| Broker server | `broker/server.py` 89-245 | counters, handler tasks, metrics task | dispatch of SUBSCRIBE, PUBLISH, TIME_TRAVEL; metrics | log-then-route across an await, history and live delivery, kills, power failures and restarts |
| Process life | `main.py`, `start` and `stop` of `broker/server.py` | main task, listening socket, shutdown event, calls of `stop()` | `run`, `start`, `stop`, signal handler, end of `asyncio.run` | signals at any moment, overlapping calls of `stop()`, builds that wait for clients |
| Wire protocol | `broker/protocol.py` | none | `encode`, `read_message` | frames cut and joined by TCP, ends in the middle of one, flow control |
| Dashboard server | `dashboard_server.py` | broker status, list of stream queues, replay tasks | proxy loop, `broadcast_sse`, `/stream`, `/api/time-travel`, `/api/simulate` | full queues, joins during reconnects, broken streams |
| Browser | `visualization/app.js` | event source, status text, replay button, timers | event handlers | reconnects, messages and timers in any order, answers that never come |
| CLI client, simulators | `client/`, `smart_home_simulator.py`, `simulate_load.py` | one connection each | publish, subscribe, time travel | leaving with data in the buffer, a broker that leaves first |

A handler task per connection reads frames. PUBLISH awaits `EventLog.append` in
the thread pool, then updates the counters and enqueues in one step. The
router's single worker pops the heap, takes a snapshot of the subscribers and
writes to each, awaiting `drain()` with a timeout; it unregisters those that
failed through the registry the handlers use too. TIME_TRAVEL streams the file
to its own connection while everything else goes on. The dashboard's proxy is
one such subscriber, and each replay button press another connection.

## Modules

| Module | Models | How it corresponds |
|---|---|---|
| `QoSQueue` | what the router promises | `pending`/`arrivals`/`served`; `Arrive` is `enqueue`, `Serve` a pop |
| `ConnectionRegistry` | `ConnectionRegistry` and asyncio transports | one operator per method; `conn` and `buffered` stand for a `StreamWriter` (below the high-water mark, above it, closing, lost) |
| `PriorityRouter` | `router.py` on top of the registry | `worker` is the await at which the task is suspended; one action per stretch between awaits. `Serve` is pop + snapshot + first write, `Proceed` the next write, `Reap` the loop over the dead ones |
| `EventLog` | `storage.py` | `file` is a sequence of cells; `OpenForAppend` is `open` + `tell`, `WriteFrame` the `write`, `ReadBatch` one `_sync_read_batch` (`BatchesFrom`), `SeekFails` one whose `seek` refuses the offset |
| `BrokerServer` | handlers, metrics, kill, power failure, restart | `EXTENDS EventLog`; the registry through `INSTANCE`; the heap as `QoSQueue`, which `PriorityRouter` implements; `Route` is a pop with the snapshot and the first write, `Proceed` the next write, and `FanoutCrashes`, `RouterStops` and a kill end a fan-out before its end |
| `Shutdown` | the broker process from `run()` to the end of `asyncio.run()` | `EXTENDS PriorityRouter`; `main` is the await of `run()`, `calls` one entry for every call of `stop()`, `handler` one task per connection |
| `FrameChannel` | what a direction of a connection promises | `Write` appends frames, `Deliver` hands over the next one whole |
| `Session` | one connection: a client program, TCP, the broker's handler | `mode` chooses the program; `sent`, `got`, `used` are positions in the stream of cells; `TakeHeader` and `TakePayload` are the two `readexactly()` of `read_message()` and of the clients' `_read_one()` |
| `DashboardServer` | proxy, streams, replay tasks | queues hold the numbers of the events broadcast, so order and gaps are visible |
| `BrowserPage` | one page of `app.js` | `EXTENDS DashboardServer` and takes the place of its browsers: one action per callback, with the source's names |
| `QoSQueueProofs` | proofs about `QoSQueue` | TLAPS |
| `PriorityRouterProofs` | proofs about `PriorityRouter` | TLAPS; uses the theorems of `QoSQueueProofs` through the refinement |
| `ShutdownProofs` | proofs about `Shutdown` | uses the types of `PriorityRouterProofs` |
| `InductionLemmas` | induction over the naturals | about sets and functions; for the recursive functions below |
| `EventLogProofs` | proofs about `EventLog` | uses `InductionLemmas` |
| `BrokerServerProofs` | proofs about `BrokerServer` | uses the invariants of `EventLogProofs`, step by step |
| `DashboardProofs` | proofs about `DashboardServer` and `BrowserPage` | the page's step is shown to be one of the server's |
| `SessionProofs` | proofs about `Session` | uses `InductionLemmas` for `FlattenSeq` |
| `MC*` | TLC instances | symmetry sets only |

Variables declared under a comment "History" are read by no action. Operators
under a comment "Fault" are broken variants of the definition that follows
them. They are used by no specification; putting one in place of its original
makes a property fail, which shows that the property can fail.

### Modelling decisions

* asyncio switches tasks only at an await, so an action runs from one await to
  the next. `drain()` below the high-water mark may return without giving up
  the loop; the model always lets others run there, which only adds behaviours.
* The heap is a set and the pop takes its least tuple. The fan-out visits the
  snapshot in any order (the code: insertion order of a dict).
* A transport that is closing is lost once its buffer is empty, and not before.
  This is the fact on which the stuck worker below depends.
* `FanoutCrashes` is any exception that `_fanout` does not name (a
  `MemoryError` in `writer.write`, for example).
* Cancellation is delivered at the next step of the worker. Before Python 3.12
  `wait_for` can swallow a cancellation that meets the end of its inner await;
  that corner is not modelled.
* One `write(2)` per frame: CPython's buffered writer hands over a frame in one
  call and `O_APPEND` places it at the end of the file. A reader that sees
  part of the last frame behaves as if it saw none of it, so a write is one
  step; a failed write leaves any proper prefix.
* Bytes that are no header give an arbitrary payload length (`GarbageLen`),
  another one for every frame of a batch.
* `BrokerServer` fans out one subscriber at a time, with handlers, appends and
  replays between two writes. `lost` records for whom a fan-out that an
  exception or `stop()` ended was cut short. How a `drain()` times out or
  raises, the event and the wakeups are in `PriorityRouter`.
* A message on an unknown topic and an unknown command change no state.
* A power failure leaves any prefix of the file (`flush` without `fsync`). That
  the kernel writes back a prefix is an assumption; some file systems can also
  leave a hole. Frames before the failure may be gone although they were
  routed, so `WriteAhead` speaks of those begun after the latest failure, and
  `SubscribeThenReplayHasNoGap` does too.
* `Server.wait_closed()` differs between Python versions: up to 3.12.0 it
  returns at once, later it waits for every accepted connection. `build.waits`
  is chosen once and for all in the initial state. So is `build.signals`: on
  Windows no handler can be installed; the first Ctrl+C cancels the main task,
  in `start_server()` (`Finally`) or while it serves (`MainCancelled`), and the
  second one, in the `async with` or in `stop()`, ends the loop
  (`Interrupted`). This is `asyncio.run()` as it is since Python 3.11.
* A signal that arrives before `start_server()` has returned finds no server to
  close; the model has the time between the listening socket and the
  assignment as a state of its own (`opening`).
* `asyncio.run()` cancels what is left when `run()` returns: handlers in their
  loop go through their `finally`, whatever awaits a close is over.
* In `Session` a frame is a header of two cells and up to four of payload. One
  threshold stands for the high- and low-water marks of a write buffer, one for
  the limit of a reader. A paused reader transport is resumed by a
  `readexactly()` that waits for more, as asyncio does.
* A process that ends closes its sockets: the kernel still sends what it holds,
  and what the transport had buffered is lost. A network failure (`Lose`) is
  silent, and the other end may never learn of it: a socket fails by itself
  only when it has data to send that nobody acknowledges, or when the other end
  has been closed. There is no keep-alive and no timeout on a read.
* `read_message` says in its docstring that it returns `None` at the end of the
  stream; `readexactly` raises `IncompleteReadError` instead, which the handler
  catches. Both leave the loop.
* After its browser has left, a `drain()` of an event stream may still return,
  until the transport has noticed (`dashboard_server.py` 379-393). In
  `BrowserPage` a stream breaks as often as there are further streams to open,
  which bounds the reconnects.
* In `BrowserPage`, time is not modelled: a timer fires at any moment after it
  was set, which covers every order of the 2 s, 15 s and retry timers.

## Runs

| Run | Bounds | What it shows |
|---|---|---|
| `qos_order` | 5 messages, 3 priorities, 2 topics | order by priority, then age, for every interleaving; each message served once |
| `router_safety` | 2 connections, 2 messages, 2 priorities | no lost wakeup; order per subscriber; a failing subscriber costs the others nothing; a dropped connection stays out; refinement of `QoSQueue` |
| `shutdown` | 1 connection, 2 published messages and metrics of one priority, 2 signals, all builds | with `start()`, signals, up to three calls of `stop()` and a second Ctrl+C: the process ends and leaves no task, entry or open connection; the worker lives until some `stop()` has come to `router.stop()`; nothing is delivered once a `stop()` returned; messages of a running router are served if peers respond; `stop()` returns even when they do not |
| `log_replay` | 2 callers, 2 frames of 2 or 3 cells, batches of 2, replay from 0, from inside a header and from an offset `seek` refuses, 1 torn write | returned offsets are usable bookmarks; replays are contiguous, complete and end |
| `server_gap` | 2 clients that subscribe and replay from 0 or ask for an offset `seek` refuses, one of which publishes, 1 frame of 1 cell, 1 kill or power failure | what is published is in the history, sent, or about to be; only a fan-out cut short since the replay began loses it; no entry outlives its handler |
| `server_crash` | 2 publishers, one of them a subscriber, 2 frames of 2 cells, 1 torn write, 1 kill or power failure, 1 metrics tick | log before delivery, save what a power failure took; order per publisher; metrics account for every publish |
| `dashboard_page` | 1 page, 2 streams one after the other, queues of 2, 1 replay of up to 2 frames (the page's or another's), 3 events, backoff up to 3 | a slow browser loses only the oldest events; the page shows the true status; one connection loop; reports count what was sent; the button comes back |
| `session` | 5 kinds of program, up to 2 frames in each direction, payloads of 0 to 4 cells of which 3 are allowed, 2 cells on the wire, buffers of 1 | both directions are channels of frames; what is reported as sent arrives; an end between frames means all frames; nobody waits for ever |
| `router_slow_subscriber` | 1 connection, 2 messages | violated: see findings |
| `log_torn` | 1 caller, 2 frames, 1 torn write | violated |
| `server_seamless` | 1 publisher, 1 client that replays, 2 frames | violated |
| `dashboard_leak` | 1 stream | violated |

Deadlock is checked in `session` alone, where `Over` says when both ends may
rest. Elsewhere every bound on messages, frames or events makes the system
stop, and an idle broker does nothing.

Why the bounds are enough: two connections are the least at which one can harm
the other, and the fan-out treats the rest alike; two messages give arrival
during a fan-out, and in `shutdown`, with the metrics, a message stranded by an
exception followed by one that is not. Two frames with batches of two give a batch with
several frames, and a replay that continues after one frame with a second
batch. Streams do not interact except through the broadcast, which treats each
alike; the second one of `dashboard_page` is there for the reconnect. Its
backoff limit is a constant, so that three failures reach it. In `session` the
buffers and the wire are smaller than one frame and the wire is smaller than a
header with its payload, so that every frame is cut, every buffer fills, and a
payload exceeds the reader's limit. In `server_gap`
a fan-out has two turns, the first or the second of which may be that of a
client in the middle of its replay; its property speaks of each message by
itself, and batches of a growing file with several frames are those of
`log_replay`. More frames, more kills and both at once are left to the theorem.
In `server_crash` the subscriber publishes too, so that its own frames come
back to it; that a publisher's two frames can have another's between them is
left to the theorem too. `qos_order`
reaches five messages because the abstract queue is cheap.

Fairness. `LoopFairness` says that the worker takes a step when it can, that
`stop()` returns once the worker is over, and that a closing transport with an
empty buffer is lost: asyncio's loop runs every ready task and timer.
`FanoutCrashes`, arrivals, connections and stops have no fairness.
`PeerFairness`, that every peer with bytes waiting reads some or is lost, is no
fact about the code; it is the antecedent of `EventuallyServed` and
`ShutdownCompletes`. `LifeFairness` adds that main, each call of `stop()` and
each handler go on, and that `start_server()` returns or fails; no signal has to
arrive. `ShutdownCompletes` also assumes, on builds whose `wait_closed()` waits
for clients, that these hang up of their own accord (see findings). In the log,
each pool thread and each consumer of a replay goes on. In `Session`, programs
and handlers take the steps that are ready, kernels deliver what they hold,
and an end with data under way to one that is closed or lost fails in the end,
by a reset or by TCP's own timeout; nobody has to type, to stop or to notice a
silent network failure with nothing under way, and a dispatch returns (for a replay: once its
buffer drains). In `BrowserPage`, the server answers a POST that reached it,
`fetch()` then settles, and the timer of the click fires. Low priorities are
served in the end only because arrivals are bounded: an endless stream of
urgent messages starves the others by design.

## Findings

* `router_slow_subscriber`: after five seconds the worker gives up on a client
  and awaits `unregister`, which awaits `wait_closed()` without a timeout. The
  transport cannot close with bytes in its buffer, so a peer that never reads
  stops the routing of all messages.
* `log_torn`: a partly written frame is never removed, and a replay takes the
  next frame for its rest.
* `server_seamless`: time travel does not subscribe; live delivery needs a
  SUBSCRIBE frame of its own. With it, before the replay, there is no gap but
  the one a fan-out that is cut short leaves, until the next replay.
* `dashboard_leak`: a stream that breaks during its first drain leaves its
  queue in the list.

Also seen while modelling, and not among the runs:

* `EventLog._sync_append` takes `tell()` before `write()`, so concurrent appends
  return the same offset, although `storage.py:60-61` calls it the offset of
  this frame. `BookmarkReachesFrame` says what still holds: it is a frame
  boundary at or before the frame.
* `PriorityRouter.stop()` leaves the heap as it is; its docstring
  (`router.py:57`) and `Viva_Reports/Server_QA_Report.md:52` speak of draining it.
* On Python 3.12.1 and later, Ctrl+C does not end the broker while a client
  stays connected: `stop()` closes the listening socket and awaits
  `wait_closed()`, and nothing closes the connections. Without the assumption
  `ClientsHangUp`, TLC finds this as a counterexample of `ShutdownCompletes`.
* `BrokerServer.start()` after a restart reports `current_log_offset` 0 until the
  first publish.
* `client.py` ends with an unhandled `IncompleteReadError` when the broker goes
  away inside a payload; the dashboard's `_read_one` treats it as an end.
* A connection that breaks without a word leaves the listeners waiting for
  ever; there is no keep-alive. The same holds of the broker:
  `Viva_Reports/Server_QA_Report.md:17` says that the entry of a client is
  always deleted, also when its "internet cable is violently pulled out", but
  the read at `server.py:171` of such a client has no timeout, and its handler
  and entry stay until a fan-out to it fails. `HandlerEnds` therefore speaks of
  programs whose end reaches the broker; without that precondition TLC finds
  the handler that waits for ever.
* `Viva_Reports/Server_QA_Report.md:12` says a frame is "physically flushed to
  the hard drive" before it is routed, and `Features_Report.md:12` that "if the
  power cuts out, zero data is lost". `_sync_append` flushes to the kernel and
  does not call `fsync` (`storage.py:72`); `PowerFails` takes such frames away,
  and `WriteAhead` holds only of what is published after it.
* An exception during a fan-out, or `stop()`, loses the popped message for the
  subscribers whose turn had not come (`router.py:100-102`, 61). Nothing sends
  it again; a replay that begins later finds it in the log.
* What is published after `router.stop()`, or by a client that connected while
  `start_server()` was still awaited and a signal had come, is logged, queued
  and never routed.

## Proofs

Every invariant, action property and refinement of the passing runs is a theorem
of its specification, for every set of clients, publishers, streams, topics and
priorities, every buffer, batch and frame length, and every bound on messages
and events. Each step is over the same `Next` the runs explore: crashes,
cancellations, torn writes, power failures and lost connections are in. An
invariant is rarely inductive as it stands; what follows says what had to be
added, and why.

### The queue and the router

`QoSQueueProofs`: `QueueTypeOK`, `PriorityOrder` (`ServedByPriority`),
`EachServedOnce` (`ServedOnce`). That a served message precedes a later one
says nothing of what is pending. `QueueInv` adds that pending entries have
distinct numbers below the counter (`PendingNumbered`), that a service saw its
entry arrive (`ServedNumbered`), and that whatever is pending comes after every
earlier service or arrived after it (`PendingAfterServed`), which is what the
next service turns into `ServedByPriority`. There is one lemma per action.

`PriorityRouterProofs`: the types (`RouterTypeOK`) come first; the other
invariants are proved on top of them, each by its own strengthening.

* `WakeupNeverLost`. `NoLostWakeup` speaks of the `waiting` worker only.
  `WakeupInv` adds the states from which it comes to wait again without
  looking at the heap (`none`, `recovering`), that a live worker nobody is
  cancelling implies `_running`, and that the event set by `stop()` stays set
  until a later worker has seen it. Without the last, a restart could sleep
  on messages enqueued while the router was stopped.
* `DeliveryOrder`. `DeliveryInv` adds that whatever a client received is the
  number of a service that took place, and a smaller one than the current if
  the client is still on the list of the fan-out.
* `FanoutReach`. `ReachInv` adds that a connection that was registered, or
  listed by a fan-out, is never new again: otherwise an old audience could
  become connected without having been sent anything.
* `UnregisteredStaysOut`, an action property, needs the types only.
* `RouterImplementsQueue`. `Enqueue` maps to `Arrive`, `Serve` to `Serve`,
  every other step to a stutter; no invariant is needed. `RouterServesInOrder`
  carries the theorems about `QoSQueue` over to the router.

### The process

`ShutdownProofs` rests on one lemma, `LifeStepIsRouterStep`: whatever main, a
handler, a signal or a call of `stop()` does is, for the variables of the
router, a step of the router or none. So its types carry over
(`ProcessTypeOK`). `LifeInv` then follows the life of the process: the socket
is open only while main starts or serves (`SocketOpenOnlyEarly`), so nobody
connects afterwards; a call of `stop()` sets the event first (`RequestSeen`);
until one comes to `router.stop()` nobody has told the worker to end
(`RouterLives`), for which the finally must be ahead of main (`FinallyAhead`);
a call that returned saw the worker over, and nobody starts another
(`ReturnedOver`); an open connection has an entry, an entry a handler in its
loop (`EntriesBelong`); the end of `asyncio.run()` leaves no worker, no loop and
no `stop()` but that of `run()` behind (`UnwindingQuiet`), and awaits that one
and the handlers (`ExitedQuiet`). `ExitLeavesNothing` (`NothingSurvivesExit`)
follows from the last four. `RouterServes` (`RoutesWhileServing`) is
`RouterLives`; it says nothing of what a handler publishes once some `stop()`
has come to `router.stop()`. `SilenceAfterStop` (the action property
`NoServiceAfterStop`) is `ReturnedOver` and that only a live worker serves or
writes.

### The event log

`EventLogProofs`. The file only grows, except that one write may leave a prefix
of its frame, and a growing file keeps every stored frame and every boundary
(`GrowthKeeps`).

* `EventLogTypeOK` adds that a replay is handed only batches with a frame in
  them. The loop of `_sync_read_batch` is a recursive function, in `BatchesFrom`.
  That it exists, and what holds at its end, comes from `Iteration` and
  `SetInduction` of `InductionLemmas`.
* `BookmarksReach` (`BookmarkReachesFrame`). `AppendsAt` says it of appends
  that are under way: the offset taken is a boundary, and once the frame is
  written it lies there or later, because others append only behind.
* `NoByteSkipped` (`ReplayContiguous`). `ReplayAt` adds where the generator
  stands: what it has yielded is one stretch of the file, the offset is where
  that ends, and the batch in its hand begins there.
* `ReplaysComplete` (`ReplayComplete`). `CompleteInv` speaks of logs without a
  torn write, as the property does: the file is tiled by whole frames
  (`Tiled`), a replay that began at a frame has read whole frames only and
  stands at one, and one that ended has passed the end the file had when it
  began.

### The broker server

`BrokerServerProofs`. Steps are of three kinds (`NextKinds`): those of the log,
those that leave the log alone, and the end of the process. The invariants of
the log are carried through them, so a fact about the file is not proved twice.

* `BrokerTypeOK`. `MessageInv` says that a publish under way is its handler's
  own, `CarriedInv` that queue entries and deliveries name publishes that began.
* `RegistryHasNoGhosts` (`NoGhostClients`) is inductive as it stands.
* `MetricsAreAccurate` adds `AppendsAt`: the offset reported is one an append
  took, and a kill gives it up.
* `LogBeforeDelivery` (`WriteAhead`) adds `WrittenStored`: between the write and
  the step that enqueues, the frame is in the log, and no kill falls in between
  without ending the handler. `CurrentStored` says the same of the message that
  is being fanned out.
* `PublishersInOrder` (`PublisherOrder`) has two halves. In the log
  (`LogOrderInv`) the cells of one publisher are in the order of its publishes
  and the frame it is about to write is the latest. In the queue
  (`QueueOrderInv`) the entries of one stream are in order, what a client
  received of it precedes what is pending, the message of the fan-out lies
  between the two (`CurrentBetween`), and a publish under way is later
  than all its publisher ever got into the queue (`BusyIsLatest`), which holds
  because a handler reads no frame while it awaits an append.
* `NoGapAfterSubscribing` (`SubscribeThenReplayHasNoGap`). The property speaks
  of replays that ended; `ReachInv` says of every client in the middle of one
  that each acknowledged publish lies in the file before the point where the
  file ended when the replay began, has come to the client, is queued, awaits
  the client's turn in the fan-out (`Awaits`), or is among the `lost`. A new
  acknowledgement enqueues in the same step; a pop moves a message from the heap
  to the audience, which holds every registered subscriber of its topic; a
  fan-out that is cut short moves it to `lost`; a replay that starts finds
  everything acknowledged in the file (`AckedLogged`). `ReplaysComplete` turns
  "lies before the end" into "was yielded", for a log without torn writes, of
  which alone the property speaks. `NewIsFresh` (a connection that does not
  exist has no handler and no replay) and `CarriedTopics` (a queue entry has
  the topic of what it carries) keep it from a step to the next. Without the
  exception for power failures the property is false, as TLC showed when
  the proof asked: what was acknowledged, and delivered to nobody yet, may be
  gone from the file. Hence the kill in the run `server_gap`. So it is without
  the exception for fan-outs cut short: the client's turn does not come.

### The dashboard and its page

`DashboardProofs`.

* `StreamsFollow` (`StreamFollowsBroadcasts`). `StepsOfAStream` reduces every
  action to what it does to one stream: nothing, a join, a send or a broadcast.
  The line of a stream is what it was sent, followed by its queue. `LineInv`
  says that a line is in order and later than the joining (`LineInOrder`) and
  that, while the stream is listed, only what the full queue dropped is
  missing and the newest event is last (`LineComplete`).
* `ReportsCount` (`DoneCountsReplayed`). `ReportInv` ties the counter of a task
  to its frames among the events, and says that one that reported is finished.
* `PageIsABrowser`, a refinement: a step of the page is a step of the server
  with any browsers, or stutters there. A source the page closes or loses is a
  browser that hangs up. `ServerBehindThePage` carries the two theorems over.
* `OneLoop` (`OneConnectionLoop`). `PageInv` adds that a stream with a browser
  is the page's or was not opened yet.
* `PageTypes`. That `resets` is bounded is not obvious: an event that two
  streams received could start two timers. `ResetInv` says it does not, since
  each message the page handles is a later event, also across its streams.
* `ShownStatus` (`ShownStatusTrue`). `StatusInv` says that the events tell the
  status and that the one written first on a stream is that of the events
  before it joined; `ShownInv` that the text is what the messages handled so
  far make true. With everything handled and nothing dropped, these are all
  the events.

### The connection

`SessionProofs`. `SessionInv` ties positions in the stream of cells to frames:
the frames decoded are the first of those written, and a reader in `header` or
`busy` stands at the end of the last of them, a reader in `payload` behind the
header of the next, whose length it knows (`ReadsAt`). Positions are sums of
lengths, computed by `FlattenSeq` of the community modules, a recursive
function; `FlattenConcatenates` brings it to a form without recursion,
and `CellsOfFrame` says which cells are the i-th frame's.

* `SessionTypeOK`: no reader takes a cell that has not arrived, none arrives
  that was not sent, none is sent that was not written.
* `SessionImplementsChannels` (`ImplementsFrameChannel`): a write of frames is
  `Write`, the end of a `readexactly()` that completes a frame is `Deliver`,
  every other step a stutter, in both directions and for every kind of program.
* `EndIsComplete` (`EndMeansAll`). `EndInv` adds that the broker's transport
  closes with everything sent unless its process died, and that a listener told
  of the end has read what was sent.

### Assumptions

On constants only, each in the module that declares it and evaluated by TLC in
its runs: a header, a batch, a queue, a wire and a backoff are at least one;
frames are no shorter than a header; offsets, lengths and buffers are natural
numbers; the metrics topic and priority are among the topics and priorities,
clients are callers of the log, and "no stream" is none of the streams;
priorities are natural numbers, in the server one byte, as the
header has it, so that the least tuple of the heap exists; bounds are natural
numbers. The theorems about the queue, and about the router apart from
`RouterServesInOrder`, need none.

### Only model-checked

Liveness, which with `ENABLED` is out of the prover's reach: `EventuallyServed`,
`ShutdownCompletes`, `StopCompletes`, `ReplayTerminates`, `ButtonReenabled`,
`OkArrives`, `SendingEnds`, `HandlerEnds`, `ListenerNotices`. The properties of
the four runs that expect a violation are false.


## Not modelled

Byte packing and topic hashing (data without control); HTTP parsing, static
files and CORS answers of the dashboard server (a request each, no shared
state); the periodic loops and random payloads of the simulators, which repeat
the publish that `Session` models; drawing, the feed, the slider, the opacity
of the button and the length of the retry delay in `app.js`; argument parsing
and logging. The windows described under the modelling decisions: a
cancellation swallowed by `wait_for` before Python 3.12, files with holes after
a power failure, a Ctrl+C without signal handlers in the one turn of the loop
between the listening socket and the assignment of `_server`, a third Ctrl+C,
and the `asyncio.run()` of Python before 3.11.

## Plan

1. Done: the broker (`QoSQueue`, `ConnectionRegistry`, `PriorityRouter`,
   `EventLog`, `BrokerServer`), its process (`Shutdown`), its connections
   (`FrameChannel`, `Session`), the dashboard (`DashboardServer`,
   `BrowserPage`).
2. Done: the proofs of every safety property the runs check.
3. Open: the safety half of the liveness properties, which needs no `ENABLED`.
   For `ButtonReenabled`, that while the button is disabled a timer, an answer
   or a running replay is there to set it; for `ReplayTerminates`, a measure
   that each batch lowers; for `StopCompletes`, that the worker that
   `stop()` awaits has its cancellation pending.
