# SmallServer, a TLA+ verification project

SmallServer is an HTTP/1, HTTP/2 and WebSocket server in Python that runs on the
cooperative scheduler SmallOS. This directory holds TLA+ modules translated from its source,
TLC configurations that check them on small instances, and proofs that TLAPS checks for every
value of the constants. Paths below are relative to the repository; line numbers refer to
the commit the modules were written from. `PROJECT.json` maps each definition to its lines.

Contents: [inventory](#1-inventory-of-the-system),
[modules](#2-modules-and-how-they-correspond-to-the-code), [runs](#3-runs),
[fairness](#4-fairness), [disagreements](#5-where-code-and-documentation-disagree),
[proofs](#6-what-is-proved), [what is left out](#7-what-is-not-modelled),
[plan](#8-plan).

## 1. Inventory of the system

### Components

| Component | Source | State | Operations |
|---|---|---|---|
| Server handle | `smallserver/server.py` 232-650 | close flags, `_connections`, `_closing_connections`, `_owned_tasks`, `_pending_task_cancellations`, `_cancelled_task_ids`, `_cleanup_errors`, `_websocket_states`, `_graceful_closers`, `_capacity_waiting`, `_finished` | `close`, `close_from_task`, `finalize`, `_finish_close`, `_connection_finished`, `_force_connection_close`, `_retry_connection_closes`, `_listener_failed`, `_update_finished`, `_wait_for_capacity` |
| Accept loop, close watcher | `app.py` 677-747 | where each waits | accept, setup failure, closed-listener exit, fork of a connection; wakeup wait and its `finally` |
| Startup and ownership | `app.py` 185-676 | `_active_invocation`, the acquired resources | `listen`, `serve`, `_reserve_invocation`, `_release_invocation`, rollback |
| Cleanup transactions | `errors.py` | remaining actions, completion callback | `retry`, `complete`, `retry_cleanup`, `finalize`, destructor |
| Route observer | `server.py` 171-230 | bounded deque, drop counter, stop flag | `enqueue`, `stop`, the observer task |
| HTTP/2 protocol state | `http2.py` 224-702 | inbound and outbound tables, response commands, active streams, two byte budgets | `receive_data`, `take_*`, `queue_response`, `flush`, `drop_stream`, `request_shutdown`, `close` |
| HTTP/2 connection tasks | `app.py` 65-95, 873-1131 | per-connection flags, signals, timers | reader, writer, handlers, shutdown enforcer, watchdog |
| WebSocket connections | `websocket.py` 246-1077 | handshake and close state, bounded inbox and outbox, writer acknowledgements, deadlines | `accept`, `reject`, `receive`, `send_*`, `close`, coordinator, reader, writer, deadline task |
| HTTP/1 connections and parser | `app.py` 749-873, `server.py` 26-130 | parser buffer and head, a route error to report | connection task, `dispatch`, upgrade decision, `feed` |
| WebSocket frame guard | `websocket.py` 173-243 | header position, remaining payload | `feed` |
| HTTP/2 frame budget | `http2.py` 96-190 | header position, counters | `feed` |
| Router | `routing.py`, `app.py` 234-334 | static and regex route tables | `add_static`, `add_regex`, `resolve` |
| Adapter registry | `adapters.py` | named adapters | register, get, shutdown |
| Transport | `_transport.py` | the kernel's handles | `open_listener`, `accept`, `recv`, `send_all`, `close`, wakeup channel |
| HTTP values, configuration, runtime discovery | `http.py`, dataclasses in `server.py`, `http2.py`, `websocket.py`, `runtime.py`, `__init__.py` | none | validation, formatting |
| SmallOS | not in the repository | ready queue, signals, sockets | `fork`, `cancel_task`, `resume_task`, `wait_signal`, ... |

### How they interact

* **Calls.** `listen()` reserves the application, acquires listener, wakeup channel, handle
  and tasks in this order, and rolls back in the opposite direction. The handle is the one
  place where closes and cancellations are retried; the application frees itself in the
  handle's `on_finalized` callback, or in the callback of a cleanup error.
* **Re-entrancy.** `cancel_task` of a started coroutine runs its `finally` before it returns.
  The close watcher's `finally` calls `_finish_close`, a connection's calls
  `_connection_finished`: a finalization that cancels tasks calls itself, in the middle of its
  loops over the tables.
* **Shared state.** All tasks run on one scheduler thread and share the handle;
  `close()` alone (and `retry_cleanup()` of an error) may run on any thread.
* **Signals.** A capacity signal to the listener, output signals to each HTTP/2 writer,
  a shutdown signal to each enforcer, an event signal to the route observer, the wakeup
  channel to the close watcher. A signal can fail to be sent.
* **Failure.** Every kernel call may raise: accept, configuration of an accepted socket, read,
  write, close, wakeup creation and notification, fork, cancel, resume, signal. What could not be
  closed or cancelled stays owned, is reported, and is tried again.

### What is hard, and what correct means

| Component | Hard behaviour | Correct when |
|---|---|---|
| Handle | re-entrant finalization, every close failing at any point, `close()` on other threads, a listener suspended between test and use | no stream is lost or owned twice, the connection limit holds, nothing is accepted into a finalized server, the application is released after the resources and once, each requested shutdown completes |
| Startup, transactions | any acquisition fails after any other, rollback fails as well, several threads start and retry | every open resource has one owner who can be asked to close it, one invocation at a time |
| Route observer | failed signal after the append, stop during a delivery | each event is delivered, counted or queued; in order; silence after stop |
| HTTP/2 protocol | five ways to end a stream, batches with yields inside, partial flushes | both byte budgets and the slots are exact, one response per stream, handlers on live streams only |
| HTTP/2 tasks | writer blocked on its peer, lost wake-ups, timers racing input, several tasks that close | timers are exact, output is never forgotten, silence and shutdown end the connection |
| WebSocket | deadlines against sends, full mailboxes, cancelled commands, a shutdown at any moment | nobody is told a frame was flushed that was not, no waiter and no wake-up is lost, one HTTP response is begun, deadlines and shutdown end the connection |
| HTTP/1, parser, guard | input cut anywhere, limits met exactly, bytes behind an upgrade, a task cancelled while it sends | the answer depends on the request and not on the cuts, no byte is lost at the upgrade, each late match is reported once |
| Router | registrations refused in between, matches that do not finish in time | the promised handler or a truthful 405; a late match never sends a request elsewhere |

`PROJECT.json` lists these hazards one by one, each at the line where it bites, with the
properties that cover it.

## 2. Modules and how they correspond to the code

| Module | Models | Extended or instantiated by |
|---|---|---|
| `ServerLifecycle` | the handle with its listener, close watcher, observer and connection tasks, `close()` threads, the owner's finalization | `MCServerLifecycle`, `ServerLifecycle_proofs` |
| `Startup` | `listen`/`serve` up to the running handle, rollback, cleanup errors and the threads that retry them | `MCStartup`, `Startup_proofs` |
| `ExclusiveOwner` | abstract specification of instance ownership | instantiated by `Startup` |
| `RouteObserver` | the bounded error-event channel and its task | `HTTP1Connection`, `RouteObserver_proofs` |
| `Router` | the two route tables, registration, `resolve` | `HTTP1Connection`, `HTTP1Parts_proofs` |
| `FrameGuard` | `_FrameGuard.feed` | `HTTP1Connection`, `HTTP1Parts_proofs` |
| `HTTP1Connection` | the HTTP/1 connection tasks with parser, routing, upgrade and route-error reports: the three modules above under one next-state relation | `MCHTTP1`, `HTTP1Connection_proofs` |
| `WebSocketConn` | the five tasks of one WebSocket connection over a `_WebSocketState` | `WebSocketConn_proofs` |
| `HTTP2Streams` | `H2Protocol`, the stream tables and byte budgets of one connection | `HTTP2Flush`, `HTTP2Streams_proofs` |
| `HTTP2Flush` | the two loops of `flush` and `_start_response`, step by step, to check the closed form of `HTTP2Streams` against | |
| `HTTP2Connection` | the tasks, signals and timers of one HTTP/2 connection | `MCHTTP2Connection`, `HTTP2Connection_proofs` |

Names of operators and variables are the source's where TLA+ allows it; the comment at each
VARIABLES entry gives the attribute it stands for. A definition marked `mutant` is a
plausible error of the operator defined after it. It occurs in no specification; it is
there to be put in that operator's place, to see that the property named in
`PROJECT.json` notices.

**Grain of the actions.** SmallOS is cooperative: what a task does between two awaits cannot
be interleaved with another task. Such a stretch is one action. There are three exceptions.
(1) `ServerHandle.close()` and `retry_cleanup()` may run on other threads; they are modelled
statement by statement, or critical section by critical section. (2) A stretch that calls
itself, because cancelling a task runs that task's `finally`, is a run of actions under an
explicit call stack (`ServerLifecycle!stack`): each frame is a call of `_finish_close`,
`_connection_finished` or `_listener_failed` with its local variables, and while the stack
is not empty only the top frame and the `close()` threads can move. (3) A `send_all`
is split into its beginning and its end, because it may wait for the peer in between.

**`ServerLifecycle`.** State: the handle's flags and tables by name, `stream[c]` (the kernel's
view of an accepted stream), `task[t]` (created, forked but not started, suspended, done), and
where the listener waits. Actions, in the order of the module:

| Actions | Code |
|---|---|
| `ListenerTop`, `ListenerCapacityWake`, `ListenerExits`, `ListenerAcceptError`, `ListenerSetupFailed`, `ListenerRefuses`, `ListenerRegisters`, `ListenerForkFails` | `_accept_loop` (`accept_batch_size` 1) with every error path, `_wait_for_capacity`, `_accepted_setup_failed` |
| `StartTask`, `RegisterGraceful`, `OpenWebSocket`, `ForceClose`, `SayGoaway`, `ConnEnds`, `ObserverEnds` | a connection as the handle sees it: children, graceful closer, WebSocket state, `_force_connection_close`, the reader's GOAWAY, `_connection_finished` |
| `WatcherWakes` | `_close_watcher` and its `finally` |
| `CloseFromTask`, `RuntimeStops`, `Finalize` | `close_from_task`, the end of the scheduler, `finalize` |
| `CloseCall`, `CloseFlag`, `CloseTest`, `CloseNotify`, `CloseMark` | `close()` on a thread |
| `FinishStart`, `FinishRetryCloses`, `FinishRetryCancel`, `FinishCancelConn`, `FinishConn`, `FinishCancelTask`, `FinishTail`, `Update` | the phases of `_finish_close`, one frame step each |
| `CancelSucceeds`, `CancelFails`, `CancelReturns` | `_cancel_or_retain_task` with the `finally` that it runs |
| `ConnFinished`, `ListenerFailed` | the rest of `_connection_finished` and `_listener_failed` |

Frame-by-frame modelling makes the order in which the code walks its tables visible: a table
is walked as a snapshot (`todo`), entries are dropped while inner calls change the same
table. One child task per connection stands for all of them (HTTP/2 writer, enforcer, watchdog;
WebSocket handler, reader, writer, deadline): the handle treats them alike.

**`Startup`.** `active` is `_active_invocation` (free, a call's marker, a call's handle); `res`
what a call has open in the kernel (listener, wakeup channel) and whether its handle owes the
cancellation of tasks; `txn` the actions left in a cleanup error's transaction. A `_finish_close`
closes any subset of what is open and releases the instance when nothing is left (`Finish`); the
tables it walks are in `ServerLifecycle`. The one step inside it that others can see is that it cancels
the close watcher, whose `finally` is a `_finish_close` too (`watching`, `WatcherFinally`): the inner one
may free the instance before the outer one fails to cancel another task, and another
call may then take it. Retrying threads hold the transaction's lock from `BeginRetry` to
`RetryActions`, and stop before the second critical section and between taking the completion
flag and running the callback.

**`RouteObserver`.** The deque, the stop flag and the counters, with history variables that
number events. An observer stretch drains the queue and parks; a signal that cannot be
delivered takes the new event back.

**`HTTP2Streams`.** The record `h` has `H2Protocol`'s tables and both budgets. The reader's side
is one action per hyper-h2 event, followed by the capture of control output, between
`BatchPauses` and `BatchEnds` (frames are processed in bounded batches); the handlers' side
queues responses; the writer's is the two halves of `flush`. hyper-h2 is external: which
events arrive, header sizes and flow-control windows are choices, and header decoding is the
choice between a well-formed and a malformed request. Body bytes are counted in units. What a
budget should be is a sum over the tables (`Total`, of the bytes of the requests or of those `Owed` to
the responses); one flush hands the parts of several responses to the socket at once, so `Flushed`
gives the result of its loops in closed form. `HTTP2Flush` has the loops themselves, with each
addition to and subtraction from the budget where the code has it (`Started`, `HeadersFail`, `Sent`),
as functions over the commands and the streams; `FlushIsItsLoops` says they come to the same in
every state in which the writer may flush.

**`HTTP2Connection`.** One reader (the connection's task), writer, handlers, enforcer and
watchdog, with the two signals, `closing`, `shutdown_requested`, `local_closed` and the
watchdog's timers. Of the protocol state only the amount of output is left. One tick is the
watchdog's sleep of at most a second. The connection begins with the reader alone, in the send of the
server preface (`reader = "start"`); then the children are forked and the graceful closer is
registered, or the fork fails (`Starts`). A shutdown without a registered closer closes the stream
(`ShutdownAtStart`). A task may refuse a signal (`MayRefuse`): a refused wake-up ends the handler that
sent it, with its response queued and the writer not told (`Respond`; `refused` remembers
it until the writer takes its next signal), or the reader (`Receive`); a refused shutdown signal makes
`_finish_close` close the stream (`RequestShutdown`).

**`Router`.** `table` is the pair `_static`, `_regex`; `log` is history: every registration an
application tried, refused ones included, and a registration's number stands for its handler.
`Register` is `add_static` or `add_regex` with their refusals. `Resolve` is `resolve()`, an operator,
because it neither suspends nor changes anything; `late` is the set of patterns that do not finish,
by their own timeout or because the total is spent. The reference is `Promise`, written over the
log and not over the tables: which registrations succeed, which handler or `Allow` list the
guide promises.

**`FrameGuard`.** One turn of the loop of `feed()` is `Turn`, made of `TakePayload`, `TakeHeader` and
`Judge`; `GuardFeed` repeats it (`TurnIfLeft`) until the chunk is used up, as a recursive function
with as many turns as the chunk has bytes. A frame is a header length, a payload length and the
verdict on its complete header. `forwarded` counts what reached wsproto.

**`HTTP1Connection`.** One record per connection task. What a peer will send is a record of lengths
and verdicts (`Wire`), and `recv()` hands over any number of bytes of it up to the chunk size.

| Actions | Code |
|---|---|
| `Configure`, `Serve`, `BeginClose`, `StopChannel` | registration, `serve`, the beginning of `_finish_close` and its `channel.stop()` |
| `Accept` | a stream is handed to a new connection task |
| `Receive` | one iteration of `_connection_loop`: `ParserFeed` (`HTTPRequestParser.feed`), then `Outcomes`: the answer to a bad request, `UpgradeOutcomes` (`_dispatch_websocket`), pipelined bytes, `Dispatched` (`dispatch` with `Resolve`) |
| `HandlerReturns` | the handler answers or raises |
| `ReaderStarts`, `ReaderReceives` | `_receive_protocol_data` on the trailing data of the request, then on what is received |
| `Ends` | the `finally` clause: `_enqueue_route_error`, `_connection_finished` |
| `Observer` | the observer task of `RouteObserver` |

**`WebSocketConn`.** `ws` is the `_WebSocketState` (with the signals latched on its tasks and each
waiter's acknowledgement), `pc` says where each task is suspended. A method of `_WebSocketState` is an
operator from state to state with the method's name (`Disconnect`, `FailHandshake`,
`FailOutbound`, `AbortWriter`, `RequestShutdown`, `BeginDeadlineClose`, ...), and a task's step is a
composition of them, in the code's order, from one await to the next.

| Actions | Code |
|---|---|
| `HandlerDecides`, `HandlerReplied`, `HandlerReplyFails` | `accept`, `reject`, and the 403 or 500 of `_run_handler`'s `finally` |
| `HandlerReceives`, `HandlerSends`, `HandlerCloses`, `HandlerAcked`, `HandlerClosed`, `HandlerEnds` | the other methods of `WebSocket`, in any program an application may write |
| `WriterWakes`, `WriterFlushes`, `WriterSendFails` | `_run_writer`; what wsproto refuses fails on the spot (`Sendable`) |
| `ReaderStarts`, `ReaderReceives` | `_run_reader` with `_drain_protocol_events` and the except clauses |
| `DeadlineWakes`, `DeadlineReplied` | `_run_deadlines`: any subset of the armed deadlines has passed |
| `CoordinatorDecides`, `CoordinatorJoins`, `CoordinatorAcked`, `CoordinatorFinishes` | `run_websocket_connection` with its `finally` |
| `ServerShutsDown` | `_finish_close` calls `request_shutdown` |

## 3. Runs

`tlc -config <cfg> <module>` in this directory. Every cfg says `CHECK_DEADLOCK FALSE`:
the system may really stop (a finished shutdown, silent clients, no more calls), and the
liveness properties say where it may not. The state counts are those of a complete search.

| Run (cfg, module) | Instance | States | Shows |
|---|---|---|---|
| `lifecycle_http1` (`Lifecycle_http1`, `MCServerLifecycle`) | HTTP/1 with a WebSocket, 1 connection, 1 slot, 1 `close()` thread, wakeup channel, any 1 failure, fair | 181 865 | `ErrorsAreOwned`, `ReleasedMeansClosed`, `NoRegistrationAfterFinalization`, `ShutdownCompletes`, `CapacityWaitEnds` |
| `lifecycle_http2` (`Lifecycle_http2`, same) | HTTP/2, 2 connections for 1 slot, no wakeup channel, observer, any 2 failures, fair | 381 667 | `TypeOK` (with: `_capacity_waiting` is set exactly while the listener is parked), `OwnedOnce`, `NoStreamLeak`, `CapacityBound`, `ShutdownCompletes`: a stream whose forced close failed is met by the children, the reader, the retry loop and the shutdown loop, is in one table, and the shutdown still completes |
| `lifecycle_reuse` (`Lifecycle_reuse`, same) | HTTP/1 with observer, 1 connection, any 1 failure | violation | `ReusableOnlyWhenFinished` fails, section 5 |
| `startup` (`Startup`, `MCStartup`) | 2 calls of `listen`, 2 retrying threads, any 3 failures, nested finalizations, fair | 40 809 | `TypeOK`, `HeldWhileOwned`, `NothingOrphaned`, `OwnerSpec` (implements `ExclusiveOwner`), `FailedStartIsReleased` |
| `startup_true` (`Startup_true`, `MCStartup`) | 2 calls, 2 retrying threads, any 2 failures | violation | `TrueMeansReleased` fails, section 5 |
| `http1` (`HTTP1`, `MCHTTP1`) | every log of 3 registrations over 2 methods, 4 paths and 3 patterns; then 2 connections, 16 kinds of peer, a queue of 1 event, a shutdown, fair | 428 804 | `HTTP1TypeOK`, `AnswersMatchRequest`, `FramesSurviveUpgrade`, `RoutesAreSound`, `OneEventPerTimeout`, `AcceptedIsHandled` |
| `http2_streams` (`HTTP2Streams`, `HTTP2Flush`) | 3 streams for 2 slots, bodies and buffers of 2 units, output of 3, control output of 1 | 72 594 | `TypeOK`, `BudgetsAreExact`, `SlotsMatch`, `OneResponse`, `HandlersAreLive`; `FlushIsItsLoops` in each state, for every stream that fails and every window |
| `http2_tasks` (`HTTP2_tasks`, `MCHTTP2Connection`) | 2 request streams, 3 chunks of input, output of 2, timeouts of 2 ticks, forks and signals that fail, fair | 138 093 | `TypeOK`, `IdleWindow`, `OutputWakesWriter`, `SilentEnds`, `ShutdownIsEnforced`, `ShutdownIsBoundedIfRead` |
| `http2_stuck` (`HTTP2_stuck`, same) | the same | violation | `ShutdownIsBounded` fails, section 5 |
| `websocket` (`WebSocket`, `WebSocketConn`) | inbox of 1, outbox of 2, 2 frames from the peer, 2 messages or Pings of the handler, a shutdown, fair | 130 113 | `TypeOK`, `SendMeansFlushed`, `WaitersAreServed`, `NoLostWakeup`, `OneReply`, `FailedIsNotAccepted`, `EndsOrWaits` |
| `websocket_stuck`, `websocket_queued` (`WebSocket_*`, same) | the same | violations | `CleanupIsBounded`, `QueuedAreDelivered` fail, section 5 |

### Bounds and why they are enough

* **Connections (`Conn`) and `MaxConnections`.** Two accepted streams and one slot are the least
  for which the limit bites: the second is accepted while the first is being closed, has failed
  to close or waits for a retry (`lifecycle_http2`). What the HTTP/1 run adds is the wakeup channel,
  the `close()` thread and WebSockets, and liveness over them, for which one connection is
  enough. The theorems of section 6 hold for any number of both and every configuration.
* **Failures (`MaxFaults`).** One failure already reaches every error path by itself. Two are
  what it takes for the retry of a failed close or cancellation to fail as well, or for a signal
  that reports a failure to fail in its turn. In `Startup` three: one acquisition and two
  steps of its rollback, or the retry of one of them.
* **`close()` threads and retriers.** One thread against the scheduler and the owner is enough
  for the flag races of `close()`; two retriers are needed to race on one cleanup error,
  and two calls to have an instance taken by one while the other's handle or error still owes something.
* **Registrations (`MaxLog`, `MaxRoutes`).** Three: the least that lets a method be added to an
  earlier pattern behind a later one, and a third pattern for a table of two be refused. `Served`
  limits which of the logs goes on to serve: routing is checked for all of them before.
* **HTTP/1 connections (`Slot`, `MaxServed`, `Wire`).** Two connections share the observer's queue
  of one event, so that the second report finds it full, and the one place for a WebSocket, so that
  the second upgrade is refused. The peers are one for each way through the parser, each limit
  met exactly and passed by one, and every way to cut them: heads of up to 4 bytes for a limit of 3,
  bodies of up to 3 for a limit of 2, upgrades followed by whole, long-headed and refused frames. The
  chunk is as long as the longest of them but one, so that it arrives at once as well as byte by byte.
* **Observer (`MaxEvents`, `MaxOffers`).** One place and two events fill the queue, drain it and
  take an event back; the theorems have every limit and every number of events.
* **WebSocket.** An inbox of one overflows at the second message of a peer that sends two
  frames. An outbox of two holds a command of the handler, and one of the coordinator or a control
  frame beside it; with the Pongs and Closes of the other tasks it is full in many states. Two
  operations make a waiting command and one behind it.
* **HTTP/2 streams.** A third stream for two slots is refused; two units per body allow a body
  cut in two and one that is a unit too long; output of three leaves room for one response and a
  half. `MaxBuffer` equals `MaxBody`, the case in which the connection's budget and the stream's
  own limit compete. The limit of `2 * MaxStreams` waiting commands is in the model but
  out of reach with three streams.
* **HTTP/2 tasks.** Three chunks are one for the preface, one for requests and one for a
  reset, an error or late activity. Timeouts of two ticks leave a tick at which a timer may expire
  too early and one at which it expires too late. `age` and `gap` are capped at what the properties
  compare.

## 4. Fairness

* **Scheduler** (`ServerLifecycle`, `HTTP1Connection`, `HTTP2Connection`, `WebSocketConn`). SmallOS runs every
  ready task in its turn: weak fairness for the steps a ready task takes by itself. In
  `ServerLifecycle` it is one strong fairness condition on the disjunction of all task steps: each
  task can take finitely many, so none is left out; a disjunction because a call
  stack disables all of them again and again.
* **Synchronous calls.** A step under the call stack is one of a running Python function.
* **Timers.** Time passes while the watchdog sleeps (`Tick`), and a sleep ends. In `WebSocketConn`
  any subset of the armed deadlines may have passed whenever the deadline task wakes, and fairness of
  the step in which all have is what "time passes" means: the task sleeps for
  the shortest of them again and again while it lives.
* **Owner and users.** The owner of a stopped runtime calls `finalize()`. Whoever finds a
  handle unfinished after a first attempt calls again, and a cleanup error is retried until it is
  done: `guide/runtime-lifecycle.md` and `guide/errors-observability.md:39-40` ask for it. Without
  it no retained resource could be expected to close, since the code never retries by itself.
* **Peers and handlers.** Nothing obliges a peer to connect, write, read or close, nor a handler to
  return, to receive or to answer. A task that waits for
  a stream closed under it is woken by an error. `ShutdownIsBoundedIfRead` assumes a
  peer that goes on reading, in its formula, where the reader of the property sees it. In
  `ServerLifecycle` the end of an HTTP/2 connection that was told to shut down is taken from
  `HTTP2Connection`, whose exception (`http2_stuck`) therefore is an exception to
  `ShutdownCompletes` as well.

## 5. Where code and documentation disagree

Each is the counterexample of a run, quoted in full in `PROJECT.json`.

* **`lifecycle_reuse`, `server.py:639`.** "The instance can be reused after its handle is fully
  finished" (`guide/runtime-lifecycle.md:7-8`). When `finalize()` runs while the close watcher is
  suspended, cancelling the watcher runs its `finally`, a second `_finish_close` inside
  the first. The inner call finds everything closed, sets `finished` and releases the
  application. The outer call goes on cancelling `_owned_tasks`; if one of these cancellations
  fails, it sets `finished` back to False. The instance was released by a handle that now says it
  is unfinished.
* **`startup_true`, `errors.py:116`.** "Retain the exception and call `retry_cleanup()` or
  `finalize()` until it returns `True`" (`guide/errors-observability.md:39-40`). Of two threads that
  retry one error, one takes the completion flag under the lock and runs the callback after it has
  left the lock; the other sees the flag and returns True while the instance is still reserved.
* **`http2_stuck`, `app.py:986`.** "... force-closes the stream after the writer's graceful
  scheduling opportunity so shutdown remains bounded" (`guide/http2.md:52-54`). A reader in its
  `finally` has cancelled writer, enforcer and watchdog, and waits for its own GOAWAY to be sent. If the
  peer does not read, a shutdown signals tasks that no longer exist, and nothing closes the stream.

* **`websocket_stuck`, `websocket.py:788`.** "Handshake, idle, Pong, and close deadlines also bound
  cleanup when a peer stops reading" (`guide/websockets.md:42-43`). The coordinator waits for
  the writer's acknowledgement of its Close, the writer for a peer that does not read. A shutdown makes the
  deadline task leave its loop (`while not state.shutdown`) before a deadline has passed: nobody is left to
  abort the writer. There is a second way to the same wait: the write deadline expires just after
  the handler failed, the deadline task cancels the writer and returns, and the coordinator then enqueues its
  Close for a writer that no longer exists. `EndsOrWaits` says that these, and a 408
  the peer does not read, are the only ways.
* **`websocket_queued`, `websocket.py:908`.** "raise `WebSocketDisconnect` after already queued messages
  have been delivered when the peer or application closes the connection"
  (`guide/websockets.md:51-53`). At the end of the peer's stream, and when wsproto refuses a command
  queued after the peer's Close, the handler is cancelled with messages still queued.

Remarks without a run of their own:

* The comment at `server.py:506-507` says that a cancelled listener "must never be resumed"; in the
  nested finalization above the inner call resumes it after the outer one cancelled it. What
  `resume_task` makes of that is up to the kernel.
* `app.py:1088`: "`handshake_timeout` bounds receipt of the client preface" (`guide/http2.md:39-40`), but
  the watchdog tests the elapsed time before it looks again at `preface_received`: a preface that arrived
  during its last sleep is still timed out (`WatchdogHandshake` has this order).
* `app.py:884`: the watchdog is forked only after the server preface is sent, so a peer that connects and
  takes nothing of the preface is not bounded by `handshake_timeout`. `SilentEnds`
  therefore begins at the first `recv`.
* `app.py:1017`: a refused wake-up of the writer leaves a queued response waiting for the next wake-up by
  somebody else, or for the idle timer. `OutputWakesWriter` says that this is the only way to strand
  output.
* `app.py:986`: "The single writer preserves frame ordering" (`guide/http2.md:30-31`), but a reader that
  leaves cancels the writer, possibly in the middle of a payload, and sends a GOAWAY itself, which
  the peer reads as the rest of the interrupted frame.
* `routing.py:130`: "registration order" (`guide/routing.md:3-4`) is that of a pattern's first
  registration: a method added to it later has the earlier place. `Promise` says it so.
* `app.py:791`: "pipelined requests are not supported" (`guide/requests-and-responses.md:18`) is
  answered only if further bytes are there when the request becomes complete; those that come later are
  never read. `Answers` therefore allows both answers to such a peer.
* `websocket.py:182`: chunks collected before a refused frame in the same feed are dropped with it,
  and forwarded if the network cuts between them.

## 6. What is proved

TLAPS checks every step of the eight proof modules (`tlapm <module>.tla`). Every invariant that a
run checks is also a theorem, but for `FlushIsItsLoops`, and so is the
refinement (`OwnerSpec`). The theorems hold for all values of the constants that satisfy the
named assumptions of the modules; TLC evaluates these in each run.

| Assumption | What it says | Why |
|---|---|---|
| `LifecycleAssumption` | finitely many connections, `max_connections` at least 1 | `ServerConfig` validates it (`server.py:149-164`) |
| `StartupAssumption` | only what tells the constants apart | |
| `ObserverAssumption` | a queue of at least one place | `ServerConfig` validates `max_route_error_events` |
| `RouterAssumption` | what patterns match are paths; the limits are numbers | |
| `GuardAssumption` | a frame header has two bytes or more | RFC 6455; `feed()` collects two before it knows more |
| `HTTP1Assumption` | finitely many connections at a time; what a peer may send is a record of lengths; a head has one defect at a time; what follows a valid upgrade is the frames of its record | the verdict stands for the text of a head, see section 7 |
| `StreamsAssumption` | limits are at least 1, a body fits the buffer, a response and the control output fit the output | `HTTP2Config` validates it (`http2.py:34-64`) |
| `ConnectionAssumption` | timeouts of at least one tick | `HTTP2Config` validates them positive |
| `WebSocketAssumption` | mailboxes of at least one place | `WebSocketConfig` validates it (`websocket.py:109`) |

**`ServerLifecycle_proofs`**: `TypeOKHolds`, `OwnedOnceHolds`, `NoStreamLeakHolds`,
`CapacityBoundHolds`, `ErrorsAreOwnedHolds`, `ReleasedMeansClosedHolds`,
`NoRegistrationAfterFinalizationHolds`. None of the first three safety properties is inductive. The invariant `IInv` adds
to them (a) that an entry of a table is the entry of an accepted stream, without which accepting a
stream could put it into a second table, and (b) `Slots`: while the listener is in `accept()` and
may still return from it, there is room for one more. The listener tests the
count before it suspends, and (b) is what makes the test still good afterwards: no action
but the listener's own adds to the two tables, a failed close moves an entry from one table to the
other (`Retained`), and every other step removes. The lemma `EndKeeps` states this once for "an
entry is taken out of `_connections` and its stream is closed or retained"; most actions
are instances of it. The types of the remaining state do not interact with the
tables and are proved on top of `IInv` in four groups (`Flags`, `Records`, `Places`, `Waiting`) and a
bound on the failures. `Waiting` is the part that says something about the code:
`_capacity_waiting` is set exactly while the listener is parked, although the parked
listener can be resumed, signalled or cancelled.
The last three theorems follow from two facts about a step, each proved once by going through all actions:
`TablesMove`, that a step changes the tables and the errors of failed closes in one of five ways (a
stream arrives, ends, is retained with its error, is tried again, or all errors are forgotten because
nothing is left), and `LatchesHold`, that a closed listener, a closed wakeup channel, a request and a
release are never taken back. The first keeps errors and retained streams together; with the second,
a released application stays one in which all is closed; and `Requested`, that an attempt to
finalize comes with a request, makes the listener that returns from `accept()` refuse the stream.

**`Startup_proofs`**: `TypeOKHolds`, `HeldWhileOwnedHolds`, `NothingOrphanedHolds`, `OwnerSpecHolds`.
The invariant says for each stage of a call what it owns and who has the instance (`StageOf`):
up to the handle the marker, then the handle for as long as listener or wakeup channel is open, and
after a failure exactly what the error's transaction can still close. A handle that only owes the
cancellation of a task need not have the instance: the watcher's nested finalization may have given it
away (`WatcherKeeps`), and nothing the first handle does later can take it from the next owner. For retriers (`Notified`): whoever is about to run
the completion callback works on an error whose transaction is empty; without it a late callback
could release an instance that still has resources. `OwnerSpecHolds` is the refinement: initial
states map to initial states, and each step is a `Take`, `Use` or `Leave` of `ExclusiveOwner` or a
stutter (`OwnerStep`). That the instance is never handed from one call to another directly is the
lemma `HandOver`.

**`RouteObserver_proofs`**: `TypeOKHolds`, `ConservationHolds`, `BoundedHolds`, `SilentAfterStopHolds`,
`InOrderHolds`. The counts need that a stopped channel's queue is empty; order is proved of
`delivered \o events` as one sequence, with the fact that no accepted event is newer than
the last one offered, which is what makes an append keep it sorted.

**`HTTP1Parts_proofs`** has the two parts of the HTTP/1 connections that keep no task of their own.
*Routing.* `Tables` says what the two tables hold, given the log: whether a registration is
accepted depends on the accepted ones before it, so there is exactly one set of them
(`RuledIsUnique`); the static table has the handlers of the accepted static registrations, the regex
table an entry for each accepted pattern, in the order of its first registration, with the handlers of all
of them. `TablesNext` shows that both registrations keep it, refusals included, and `ResolveIsSound`
that the search through the entries finds what the promise names. *Frames.* `Fed(g, stream, k)` says
where a guard is that was given the first `k` bytes of its stream: in the header of frame `at`
and how far, in its payload and how far, or at a refused header, every frame before it
passed and forwarded. A turn of the loop leads from such a place to the next and consumes a byte or more
(`TurnKeeps`), so after as many turns as the chunk has bytes nothing is left of it (`GuardFed`). What
`Fed` means for the bytes forwarded is `FedMeans`. Neither part needs induction as a proof rule: numbers
are counted up to (`CountUp`) with the well-founded order of the naturals.

**`HTTP1Connection_proofs`**: `ChannelInvariants`, `OneEventPerTimeoutHolds`,
`RoutesAreSoundHolds`, `HTTP1TypeOKHolds`, `AnswersMatchRequestHolds`, `FramesSurviveUpgradeHolds`. The
connections' specification is composed so that each step of a connection or of a shutdown is a step
of `RouteObserver` or leaves it alone; the lemma `ChannelBehaves` says so, and is there to carry the
properties of the channel, proved in its own module, over to the server. `OneEventPerTimeout` follows a
late match to its end and needs both sides: that its task offers it once (`Reported`), and that the
channel loses and doubles nothing that is offered (`Conservation`). For the former the
invariant `Reports` adds that a task which is still parsing owes no report (`Reading`): one lemma
per operator of the model says what it leaves of a task's record, and `OwedCount` how the number of
owed reports changes with one task. The channel's `TypeOK` gives the range of `offered`.

`AnswersMatchRequest` speaks of the whole request, and its bytes come in pieces, so the invariant
(`Answering`) has to say what a task knows in each of its stages. One that reads either has no whole head
yet, all its bytes buffered and within the limit (`Pending`), or has taken the head off the buffer and
counts the body against it (`Headed`); one that runs a handler has the whole request and the handler the
routes promise; one that sends has an answer the request calls for; one that upgrades has exactly the bytes
behind the head left over; the guard of an upgraded one is `Fed` with what came behind the head. `FeedIs`
shows for a chunk of any length that `feed()` leaves the request refused, unfinished or whole
(`Fetched`), and `OutcomesAreOrderly` where the rest of the iteration leads. The promise does not change
under a connection because the server accepts only after it was configured. For the types, a
late match and a task that still reads are two of the connections accepted (`Counted`).

**`HTTP2Connection_proofs`**: `ConnectionTypeOK`, `IdleWindowHolds`, `OutputWakesWriterHolds`,
`VerdictStands`. The watchdog counts its sleeps without activity, and the property is about time.
`Silence` relates the two: an idle watchdog has counted the true silence but for one sleep, and for the
sleep that is over and not yet counted; a preface that arrives during a handshake sleep starts a
silence of that sleep at most. `Alone`, that nothing runs beside a reader that still sends the server
preface, gives the watchdog and the writer their first states. With it the idle verdict falls into the last tick of the window for
every timeout. `Judged`, that a verdict closes the stream and ends the watchdog, is what makes it final.

**`WebSocketConn_proofs`**: `WebSocketTypeOK`, `SendMeansFlushedHolds`, `WaitersAreServedHolds`,
`NoLostWakeupHolds`, `OneReplyHolds`, `FailedIsNotAcceptedHolds`. Each method of the connection's state is
an operator from state to state, and a step calls several of them. The proof follows the calls:
`Core` (the types; a success only after the flush; a waiting caller's command in the outbox or with the
writer) is kept by every method at every point, and `Sound` adds what holds between steps. That the
writer holds a command exactly while it sends it (`Writing`) keeps everybody else from acknowledging it;
that only parked callers have an acknowledgement (`Waits`) is why a cancelled caller leaves none
behind; and `Places`, which tasks exist in which state of the handshake, is why handler and deadline do
not both send a refusal.

**`HTTP2Streams_proofs`**: `StreamsTypeOK`, `BudgetsAreExactHolds`, `SlotsMatchHolds`, `OneResponseHolds`,
`HandlersAreLiveHolds`. A budget is a sum over the streams, which the provers cannot take apart by
themselves; lemmas about sums (one stream changes, several change, two sums agree) stand for the
induction. `Good(p)`, a predicate of the tables alone, says that they agree with each other, that the
request budget is what they hold and the output budget at least that; one lemma per
operation shows that it stays so, and what the operation gives back. What the output budget counts beyond the
tables (`Lost`) is the output of a flush that failed: there is none while the connection is up, and a
failed flush takes it down, so the budget is exact where anybody can still use it. Last, `Wired` and
`Handled` follow a stream from the wire to a handler and from there to the writer: one of them has it
at a time.

**Only model-checked**: liveness under fairness, which the installed provers cannot do
(`ShutdownCompletes`, `CapacityWaitEnds`, `FailedStartIsReleased`, `AcceptedIsHandled`, `SilentEnds`,
`ShutdownIsEnforced`, `ShutdownIsBoundedIfRead`, `EndsOrWaits`), and `FlushIsItsLoops`: that two loops over
data come to a closed form is an induction. **Only proved**: `Bounded`, `InOrder` and `SilentAfterStop` of
the channel, for every limit; the queue of one event of the `http1` run has no order to speak of.

## 7. What is not modelled

* **Adapter registry**: a table, and a shutdown that visits each adapter in one loop without an
  await; no task of the server shares it. **HTTP/2 frame budget**: `HTTP2Streams` takes the bytes as
  the events hyper-h2 makes of them; a frame the budget refuses is one of the ways `receive_data`
  fails, with the difference that complete frames before it in the same feed are discarded with it.
* **HTTP values, configuration, imports, examples, benchmarks, demo**: no state. Limits
  appear as constants, with the validated ranges as assumptions.
* **SmallOS and the kernel**: not in the repository; modelled from how the code uses them.
  In particular `cancel_task` closes a started coroutine synchronously, so that its `finally`
  runs before the call returns. The code relies on it (the GeneratorExit handlers, for example
  `websocket.py:827`).
* **`KeyboardInterrupt`** is modelled where it ends the runtime (`RuntimeStops`), not in the
  middle of a synchronous stretch.
* **`accept_batch_size` above 1**: a larger batch leaves out the yield between two accepts. The
  loop tests `closed` and the count before each accept all the same, so its behaviours are among those of
  the model, in which the listener may be scheduled next.
* **In `ServerLifecycle`** the choice of the first reported failure (`failure`), logging, and
  what a connection's protocol does before it ends.
* **In `Startup`** argument checks, which come before the reservation, a destructor that
  gives up after its one attempt, and tasks of an aborted start whose cancellation failed and which the
  runtime runs all the same: they meet a finalized handle.
* **In `HTTP1Connection`** the text of heads: what `_parse_head` and `_validate_upgrade` find in it is one
  verdict per request, so the order in which they look is not modelled, and 400 stands for 403 and 426
  of an upgrade as well. Registering while a server runs, and a connection task that first
  runs after the handle closed. **In `Router`** what a pattern matches is a constant; compiling
  and validating patterns, and captures, are left out.
* **In `WebSocketConn`** the byte limits of the mailboxes (the counts are there), reassembly of
  fragments, validation of `accept()`'s arguments, a `cancel_task` that fails (in `ServerLifecycle`).
* **In `HTTP2Streams`** header contents and sizes, priorities, and flow control, which is
  a choice of how much may be sent. **In `HTTP2Connection`** cancellations and
  closes that fail, which `ServerLifecycle` has.

## 8. Plan

In the order of importance for the system. Steps 1 to 8 are done.

1. `RouteObserver`: the smallest component with signals and failures, with its proofs.
2. `ServerLifecycle`, with `MCServerLifecycle` for HTTP/1 and HTTP/2, safety and liveness; proofs of
   types, ownership and capacity.
3. `Startup` over `ExclusiveOwner`, with the proof of the refinement.
4. `HTTP2Streams`: budgets and slots; `HTTP2Flush` for the loops of `flush`.
5. `HTTP2Connection`: tasks, signals and timers.
6. `WebSocketConn`: handshake, mailboxes, writer, reader, deadlines and shutdown.
7. `HTTP1Connection` over `Router`, `FrameGuard` and `RouteObserver`, with the channel's
   theorems carried over to it.
8. Proofs of every invariant the runs check, with the inductive invariants of section 6. The models were
   changed where they could not be reasoned about: sums and functions for folds (`HTTP2Streams`,
   `FrameGuard`), guards of a CASE made disjoint (`HTTP1Connection`).
9. `_FrameBudget` as an operator beside `FrameGuard`; `AdapterRegistry.shutdown` with several failures.
