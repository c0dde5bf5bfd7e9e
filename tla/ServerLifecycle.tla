--------------------------- MODULE ServerLifecycle ---------------------------
(***************************************************************************)
(* One ServerHandle (server.py) with the tasks that drive it (app.py): the *)
(* listener, the close watcher, the route observer and one task per        *)
(* accepted connection, plus the threads that call ServerHandle.close()    *)
(* and the owner thread that calls finalize() once the runtime stopped.    *)
(*                                                                         *)
(* Everything between two awaits runs on the scheduler thread without a    *)
(* task switch.  Such a synchronous stretch is one action, or, where it    *)
(* calls itself again (cancelling a task runs that task's "finally"), a    *)
(* run of actions under a call stack: while stack is not empty only its    *)
(* top frame and the close() threads move.  Kernel and runtime calls fail  *)
(* by choice, at most MaxFaults times in a behaviour.                      *)
(***************************************************************************)
EXTENDS Integers, FiniteSets, Sequences

CONSTANTS
    Conn,            \* accepted streams; each is accepted at most once
    NoConn,          \* the second component of tasks that serve no stream
    Closer,          \* threads outside the scheduler that call close()
    MaxConnections,  \* ServerConfig.max_connections
    Protocol,        \* "http1" or "http2"
    HasWakeup,       \* does the kernel offer a wakeup channel?
    HasObserver,     \* is a route error observer configured?
    MaxFaults        \* bound on failing kernel and runtime calls

ASSUME LifecycleAssumption ==
    /\ IsFiniteSet(Conn) /\ NoConn \notin Conn
    /\ MaxConnections \in Nat \ {0}
    /\ Protocol \in {"http1", "http2"}
    /\ HasWakeup \in BOOLEAN /\ HasObserver \in BOOLEAN
    /\ MaxFaults \in Nat

-----------------------------------------------------------------------------
(* Tasks.  A connection task may own child tasks (HTTP/2 writer, enforcer  *)
(* and watchdog; WebSocket handler, reader, writer and deadline); one      *)
(* child per connection stands for them.                                   *)
Listener == <<"listener", NoConn>>
Watcher == <<"watcher", NoConn>>
Observer == <<"observer", NoConn>>
UserTask == <<"user", NoConn>>
Nobody == <<"nobody", NoConn>>
ConnTask(c) == <<"conn", c>>
Child(c) == <<"child", c>>

Task == {Listener, Watcher, Observer}
          \union {ConnTask(c) : c \in Conn} \union {Child(c) : c \in Conn}
Caller == Task \union {UserTask, Nobody}

(* The order of _owned_tasks: start-up appends listener, close watcher and *)
(* observer, the connections follow.                                       *)
Rank(t) == CASE t = Listener -> 0
             [] t = Watcher -> 1
             [] t = Observer -> 2
             [] OTHER -> 3

VARIABLES
    \* ServerHandle
    closeRequested,  \* _close_requested
    notified,        \* _notification_sent
    finAttempted,    \* _finalization_attempted
    finished,        \* _finished
    released,        \* the on_finalized callback has run
    connections,     \* keys of _connections
    closing,         \* keys of _closing_connections
    errConn,         \* connections with an entry in _cleanup_errors
    pending,         \* _pending_task_cancellations
    cancelled,       \* _cancelled_task_ids
    owned,           \* _owned_tasks
    wsStates,        \* keys of _websocket_states
    closers,         \* keys of _graceful_closers
    listenerResumed, \* _listener_resumed
    capWaiting,      \* _capacity_waiting
    \* kernel and runtime
    stream,          \* per connection: "none", "open" or "closed"
    listenerClosed, wakeupClosed,
    wakeSignal,      \* the wakeup channel is readable
    capSignal,       \* the capacity signal is set on the listener task
    woken,           \* resume_task(listener) not consumed yet
    runtime,         \* "running" or "stopped"
    task,            \* per task: "none", "created", "ready", "live", "done"
    lpc,             \* where the listener is: "top", "capwait", "accept"
    shut,            \* connections whose task was told to come to its end
    stack,           \* synchronous calls in progress, innermost first
    cpc,             \* where each close() thread is
    faults           \* failures so far

flagVars == <<closeRequested, notified, finAttempted>>
doneVars == <<finished, released>>
ownVars == <<connections, closing, errConn, pending, cancelled, owned,
             wsStates, closers>>
listenVars == <<listenerResumed, capWaiting, capSignal, woken, lpc>>
kernelVars == <<listenerClosed, wakeupClosed, wakeSignal>>
vars == <<flagVars, doneVars, ownVars, listenVars, kernelVars,
          stream, runtime, task, shut, stack, cpc, faults>>

Frame == [proc : {"finish", "connFinished", "listenerFailed", "update"},
          owner : BOOLEAN,
          cur : Caller,
          phase : {"start", "retry", "cancels", "conns", "tasks", "tail"},
          todo : SUBSET Task,
          tried : SUBSET Task,
          busy : Task \union {Nobody},
          prev : Nat]

(* A new call of _finish_close(current_task=cur, owner_thread=owner).      *)
FinishFrame(cur, owner) ==
    [proc |-> "finish", owner |-> owner, cur |-> cur, phase |-> "start",
     todo |-> {}, tried |-> {}, busy |-> Nobody, prev |-> 0]
(* The rest of _connection_finished after the close, for a handle that     *)
(* owned prev connections before it.                                       *)
ConnFinishedFrame(cur, prev) ==
    [FinishFrame(cur, FALSE) EXCEPT !.proc = "connFinished", !.prev = prev]
ListenerFailedFrame(cur) ==
    [FinishFrame(cur, FALSE) EXCEPT !.proc = "listenerFailed"]
UpdateFrame(cur) == [FinishFrame(cur, FALSE) EXCEPT !.proc = "update"]

Top == Head(stack)
Below == Tail(stack)
InFinish(phase) ==
    /\ stack # <<>> /\ Top.proc = "finish"
    /\ Top.phase = phase /\ Top.busy = Nobody
Idle == stack = <<>> /\ runtime = "running"

(* owned_connection_count                                                  *)
OwnedCount == Cardinality(connections) + Cardinality(closing)

(* The outcomes of this step's calls that may fail, FALSE for a failure.   *)
Outcomes(s) ==
    LET n == Cardinality({i \in DOMAIN s : ~s[i]})
    IN  faults + n <= MaxFaults /\ faults' = faults + n

-----------------------------------------------------------------------------
Init ==
    /\ closeRequested = FALSE /\ notified = FALSE /\ finAttempted = FALSE
    /\ finished = FALSE /\ released = FALSE
    /\ connections = {} /\ closing = {} /\ errConn = {}
    /\ pending = {} /\ cancelled = {}
    /\ owned = {Listener} \union (IF HasWakeup THEN {Watcher} ELSE {})
                          \union (IF HasObserver THEN {Observer} ELSE {})
    /\ wsStates = {} /\ closers = {}
    /\ listenerResumed = FALSE /\ capWaiting = FALSE
    /\ capSignal = FALSE /\ woken = FALSE /\ lpc = "top"
    /\ stream = [c \in Conn |-> "none"]
    /\ listenerClosed = FALSE /\ wakeupClosed = FALSE /\ wakeSignal = FALSE
    /\ runtime = "running"
    /\ task = [t \in Task |-> IF t \in owned THEN "ready" ELSE "none"]
    /\ shut = {} /\ stack = <<>>
    /\ cpc = [k \in Closer |-> "idle"]
    /\ faults = 0

-----------------------------------------------------------------------------
(* Pieces shared by the actions.                                           *)

(* A close of stream c may fail only while it is open: transport.close()   *)
(* of a closed handle returns at once.                                     *)
MayEnd(c, ok) == ok \/ stream[c] = "open"

(* Where a stream goes whose close failed: it stays with its connection    *)
(* entry if the caller kept that, else it is retained for a retry.         *)
RetainedTwice(c) == closing \union {c}    \* mutant: the entry is not looked up
RetainedNowhere(c) == closing             \* mutant: the failed stream is dropped
Retained(c) == IF c \in connections' THEN closing ELSE closing \union {c}

(* _close_or_retain(c) up to the failure report.                           *)
CloseOrRetain(c, ok) ==
    /\ MayEnd(c, ok)
    /\ stream' = [stream EXCEPT ![c] = IF ok THEN "closed" ELSE @]
    /\ closing' = IF ok THEN closing \ {c} ELSE Retained(c)
    /\ errConn' = IF ok THEN errConn \ {c} ELSE errConn \union {c}

(* _connection_close_failed, run when ok is FALSE: make the failure fatal  *)
(* by waking the close watcher, or by finishing here if nothing can.  nok  *)
(* is the outcome of notify(); the frames below are what runs afterwards.  *)
ReportCloseFailure(ok, nok, cur, below) ==
    LET report == ~ok /\ ~finAttempted
        notify == report /\ HasWakeup /\ ~notified
    IN  /\ closeRequested' = (closeRequested \/ ~ok)
        /\ notify \/ nok
        /\ notified' = (notified \/ (notify /\ nok))
        /\ wakeSignal' = (wakeSignal \/ (notify /\ nok))
        /\ stack' = IF report /\ (~HasWakeup \/ (notify /\ ~nok))
                    THEN <<FinishFrame(cur, FALSE)>> \o below
                    ELSE below

(* The coordinator's "finally" takes its state out of _websocket_states.   *)
WsStatesKept(c) == wsStates               \* mutant: the entry is left behind
WsStatesWithout(c) == wsStates \ {c}

(* The synchronous part of the end of connection c, its coroutine being    *)
(* closed or returning: cancel the children (cok is the outcome), drop the *)
(* WebSocket state, then _connection_finished up to the failure report.    *)
(* An HTTP/2 child leaves _owned_tasks even if its cancellation failed.    *)
EndConnection(c, ok, cok) ==
    LET child == Child(c)
        has == task[child] \in {"ready", "live"}
    IN  /\ has \/ cok
        /\ task' = [task EXCEPT ![ConnTask(c)] = "done",
                                ![child] = IF has /\ cok THEN "done" ELSE @]
        /\ pending' = IF ~has THEN pending
                      ELSE IF cok THEN pending \ {child}
                      ELSE pending \union {child}
        /\ owned' = owned \ (IF has /\ (cok \/ Protocol = "http2")
                             THEN {ConnTask(c), child} ELSE {ConnTask(c)})
        /\ wsStates' = WsStatesWithout(c)
        /\ connections' = connections \ {c}
        /\ closers' = closers \ {c}
        /\ CloseOrRetain(c, ok)

(* _update_finished: every resource closed and every obligation met.       *)
ReleasedWithRetained ==                   \* mutant: retained streams forgotten
    /\ closeRequested /\ (HasWakeup => wakeupClosed) /\ listenerClosed
    /\ connections = {} /\ pending = {} /\ wsStates = {}
AllReleased ==
    /\ closeRequested
    /\ HasWakeup => wakeupClosed
    /\ listenerClosed
    /\ connections = {} /\ closing = {} /\ pending = {} /\ wsStates = {}

UpdateFinished ==
    /\ finished' = AllReleased
    /\ released' = (released \/ AllReleased)
    /\ errConn' = IF AllReleased THEN {} ELSE errConn

-----------------------------------------------------------------------------
(* The listener: _accept_loop and ServerHandle._wait_for_capacity.         *)

ListenerRuns == Idle /\ task[Listener] \in {"ready", "live"}

(* The listener accepts while this holds, and parks when the next one does.*)
AdmitsAlways == TRUE                      \* mutant: no test after accept()
Admits == ~closeRequested
FullPlusOne == OwnedCount > MaxConnections        \* mutant: off by one
AtCapacity == OwnedCount >= MaxConnections

(* The head of the loop, with accept_batch_size = 1.                       *)
ListenerTop ==
    /\ ListenerRuns /\ lpc = "top"
    /\ IF closeRequested
       THEN task' = [task EXCEPT ![Listener] = "done"] /\ UNCHANGED <<lpc, capWaiting>>
       ELSE /\ task' = [task EXCEPT ![Listener] = "live"]
            /\ IF AtCapacity
               THEN lpc' = "capwait" /\ capWaiting' = TRUE
               ELSE lpc' = "accept" /\ UNCHANGED capWaiting
    /\ UNCHANGED <<flagVars, doneVars, ownVars, kernelVars, listenerResumed,
                   capSignal, woken, stream, runtime, shut, stack, cpc, faults>>

(* wait_signal returns: the signal is set, or the task was resumed.        *)
ListenerCapacityWake ==
    /\ ListenerRuns /\ lpc = "capwait"
    /\ capSignal \/ woken
    /\ lpc' = "top" /\ capWaiting' = FALSE
    /\ capSignal' = FALSE /\ woken' = FALSE
    /\ UNCHANGED <<flagVars, doneVars, ownVars, kernelVars, listenerResumed,
                   stream, runtime, task, shut, stack, cpc, faults>>

(* accept() raised after the handle was closed: a normal exit.  The        *)
(* listening stream is gone and the parked listener was resumed.           *)
ListenerExits ==
    /\ ListenerRuns /\ lpc = "accept"
    /\ listenerClosed /\ woken
    /\ task' = [task EXCEPT ![Listener] = "done"]
    /\ woken' = FALSE
    /\ UNCHANGED <<flagVars, doneVars, ownVars, kernelVars, listenerResumed,
                   capWaiting, capSignal, lpc, stream, runtime, shut, stack,
                   cpc, faults>>

(* accept() raised although the listening stream is open.                  *)
ListenerAcceptError ==
    /\ ListenerRuns /\ lpc = "accept" /\ ~listenerClosed
    /\ Outcomes(<<FALSE>>)
    /\ task' = [task EXCEPT ![Listener] = "done"]
    /\ stack' = IF closeRequested THEN <<>> ELSE <<ListenerFailedFrame(Listener)>>
    /\ UNCHANGED <<flagVars, doneVars, ownVars, listenVars, kernelVars, stream,
                   runtime, shut, cpc>>

(* The accepted stream could not be configured and closing it failed as    *)
(* well: _accepted_setup_failed takes it over and the listener raises.  (A *)
(* configuration error whose close succeeds is a ListenerAcceptError.)     *)
ListenerSetupFailed(c) ==
    /\ ListenerRuns /\ lpc = "accept" /\ ~listenerClosed
    /\ stream[c] = "none"
    /\ \E nok \in BOOLEAN :
         /\ Outcomes(<<FALSE, FALSE, nok>>)
         /\ ReportCloseFailure(FALSE, nok, Listener, <<>>)
    /\ stream' = [stream EXCEPT ![c] = "open"]
    /\ closing' = closing \union {c}
    /\ errConn' = errConn \union {c}
    /\ task' = [task EXCEPT ![Listener] = "done"]
    /\ UNCHANGED <<finAttempted, doneVars, connections, pending, cancelled,
                   owned, wsStates, closers, listenVars, listenerClosed,
                   wakeupClosed, runtime, shut, cpc>>

(* A stream accepted after the handle was closed is closed at once.        *)
ListenerRefuses(c) ==
    /\ ListenerRuns /\ lpc = "accept" /\ ~listenerClosed
    /\ closeRequested
    /\ stream[c] = "none"
    /\ \E ok, nok \in BOOLEAN :
         /\ Outcomes(<<ok, nok>>)
         /\ ReportCloseFailure(ok, nok, Listener, <<>>)
         /\ stream' = [stream EXCEPT ![c] = IF ok THEN "closed" ELSE "open"]
         /\ closing' = IF ok THEN closing ELSE closing \union {c}
         /\ errConn' = IF ok THEN errConn ELSE errConn \union {c}
         /\ IF ok THEN lpc' = "top" /\ UNCHANGED task
                  ELSE task' = [task EXCEPT ![Listener] = "done"] /\ UNCHANGED lpc
    /\ UNCHANGED <<finAttempted, doneVars, connections, pending, cancelled,
                   owned, wsStates, closers, listenerResumed, capWaiting,
                   capSignal, woken, listenerClosed, wakeupClosed, runtime,
                   shut, cpc>>

(* The stream becomes a connection with a task of its own.                 *)
ListenerRegisters(c) ==
    /\ ListenerRuns /\ lpc = "accept" /\ ~listenerClosed
    /\ Admits
    /\ stream[c] = "none"
    /\ stream' = [stream EXCEPT ![c] = "open"]
    /\ connections' = connections \union {c}
    /\ owned' = owned \union {ConnTask(c)}
    /\ task' = [task EXCEPT ![ConnTask(c)] = "ready"]
    /\ lpc' = "top"
    /\ UNCHANGED <<flagVars, doneVars, closing, errConn, pending, cancelled,
                   wsStates, closers, listenerResumed, capWaiting, capSignal,
                   woken, kernelVars, runtime, shut, stack, cpc, faults>>

(* fork() refused the connection task: cancel it (it never started), close *)
(* the stream, and report the listener failure.                            *)
ListenerForkFails(c) ==
    /\ ListenerRuns /\ lpc = "accept" /\ ~listenerClosed
    /\ Admits
    /\ stream[c] = "none"
    /\ \E cok, ok, nok \in BOOLEAN :
         /\ Outcomes(<<FALSE, cok, ok, nok>>)
         /\ task' = [task EXCEPT ![Listener] = "done",
                                 ![ConnTask(c)] = IF cok THEN "done" ELSE "created"]
         /\ owned' = IF cok THEN owned ELSE owned \union {ConnTask(c)}
         /\ pending' = IF cok THEN pending ELSE pending \union {ConnTask(c)}
         /\ stream' = [stream EXCEPT ![c] = IF ok THEN "closed" ELSE "open"]
         /\ closing' = IF ok THEN closing ELSE closing \union {c}
         /\ errConn' = IF ok THEN errConn ELSE errConn \union {c}
         /\ ReportCloseFailure(ok, nok, Listener, <<ListenerFailedFrame(Listener)>>)
    /\ UNCHANGED <<finAttempted, doneVars, connections, cancelled, wsStates,
                   closers, listenVars, listenerClosed, wakeupClosed, runtime,
                   shut, cpc>>

-----------------------------------------------------------------------------
(* Connection tasks: _connection_loop, _http2_connection_loop and          *)
(* run_websocket_connection as far as they touch the handle.               *)

(* The runtime runs a forked task for the first time.                      *)
StartTask(t) ==
    /\ Idle /\ t # Listener
    /\ task[t] = "ready"
    /\ task' = [task EXCEPT ![t] = "live"]
    /\ UNCHANGED <<flagVars, doneVars, ownVars, listenVars, kernelVars, stream,
                   runtime, shut, stack, cpc, faults>>

ConnRuns(c) == Idle /\ task[ConnTask(c)] = "live"

(* The HTTP/2 preface is sent: fork the children, register the closer.     *)
RegisterGraceful(c) ==
    /\ Protocol = "http2"
    /\ ConnRuns(c) /\ stream[c] = "open" /\ task[Child(c)] = "none"
    /\ task' = [task EXCEPT ![Child(c)] = "ready"]
    /\ owned' = owned \union {Child(c)}
    /\ closers' = closers \union {c}
    /\ UNCHANGED <<flagVars, doneVars, connections, closing, errConn, pending,
                   cancelled, wsStates, listenVars, kernelVars, stream,
                   runtime, shut, stack, cpc, faults>>

(* An upgrade request arrived and there is WebSocket capacity.             *)
OpenWebSocket(c) ==
    /\ Protocol = "http1"
    /\ ConnRuns(c) /\ stream[c] = "open" /\ task[Child(c)] = "none"
    /\ Cardinality(wsStates) < MaxConnections
    /\ task' = [task EXCEPT ![Child(c)] = "ready"]
    /\ owned' = owned \union {Child(c)}
    /\ wsStates' = wsStates \union {c}
    /\ UNCHANGED <<flagVars, doneVars, connections, closing, errConn, pending,
                   cancelled, closers, listenVars, kernelVars, stream,
                   runtime, shut, stack, cpc, faults>>

(* An HTTP/2 child (writer on error or shutdown, enforcer, watchdog)       *)
(* closes the stream under the reader: _force_connection_close.            *)
ForceClose(c) ==
    /\ Protocol = "http2" /\ Idle
    /\ task[Child(c)] = "live" /\ stream[c] = "open"
    /\ closers' = closers \ {c}
    /\ connections' = connections
    /\ \E ok, nok \in BOOLEAN :
         /\ Outcomes(<<ok, nok>>)
         /\ CloseOrRetain(c, ok)
         /\ ReportCloseFailure(ok, nok, Child(c), <<>>)
    /\ UNCHANGED <<finAttempted, doneVars, pending, cancelled, owned, wsStates,
                   listenVars, listenerClosed, wakeupClosed, runtime, task,
                   shut, cpc>>

(* An HTTP/2 reader leaves its loop: it cancels the children, and waits    *)
(* for its GOAWAY to be sent before the connection is finished.            *)
SayGoaway(c) ==
    /\ Protocol = "http2"
    /\ ConnRuns(c) /\ stream[c] = "open" /\ task[Child(c)] \in {"ready", "live"}
    /\ \E cok \in BOOLEAN :
         /\ Outcomes(<<cok>>)
         /\ task' = [task EXCEPT ![Child(c)] = IF cok THEN "done" ELSE @]
         /\ pending' = IF cok THEN pending \ {Child(c)} ELSE pending \union {Child(c)}
    /\ owned' = owned \ {Child(c)}
    /\ UNCHANGED <<flagVars, doneVars, connections, closing, errConn, cancelled,
                   wsStates, closers, listenVars, kernelVars, stream, runtime,
                   shut, stack, cpc>>

(* A connection's task returns or raises: the response was sent, the peer  *)
(* went away, the handler failed, or the stream was closed under it.       *)
ConnEnds(c) ==
    /\ ConnRuns(c)
    /\ \E ok, cok, nok \in BOOLEAN :
         /\ Outcomes(<<ok, cok, nok>>)
         /\ EndConnection(c, ok, cok)
         /\ ReportCloseFailure(ok, nok, ConnTask(c),
                               <<ConnFinishedFrame(ConnTask(c), OwnedCount)>>)
    /\ UNCHANGED <<finAttempted, doneVars, cancelled, listenVars,
                   listenerClosed, wakeupClosed, runtime, shut, cpc>>

(* The route observer leaves its loop once the channel was stopped.        *)
ObserverEnds ==
    /\ Idle /\ task[Observer] = "live" /\ finAttempted
    /\ task' = [task EXCEPT ![Observer] = "done"]
    /\ UNCHANGED <<flagVars, doneVars, ownVars, listenVars, kernelVars, stream,
                   runtime, shut, stack, cpc, faults>>

(* The close watcher: its readiness wait returns, and its "finally" runs   *)
(* _finish_close(current_task=watcher).                                    *)
WatcherFinally == <<FinishFrame(Watcher, FALSE)>>

WatcherWakes ==
    /\ Idle /\ task[Watcher] = "live"
    /\ wakeSignal /\ ~wakeupClosed
    /\ task' = [task EXCEPT ![Watcher] = "done"]
    /\ wakeSignal' = FALSE
    /\ stack' = WatcherFinally
    /\ UNCHANGED <<flagVars, doneVars, ownVars, listenVars, listenerClosed,
                   wakeupClosed, stream, runtime, shut, cpc, faults>>

-----------------------------------------------------------------------------
(* close_from_task, called by a task of the application or by a handler: an *)
(* HTTP/1 handler runs on its connection's task, the others on a child.    *)
HandlerTask == {ConnTask(c) : c \in IF Protocol = "http1"
                                    THEN {d \in Conn : task[Child(d)] = "none"}
                                    ELSE {}}
                 \union {Child(c) : c \in Conn}

CloseFromTask(t) ==
    /\ Idle /\ ~finished
    /\ t # UserTask => t \in HandlerTask /\ task[t] = "live"
    /\ closeRequested' = TRUE /\ finAttempted' = TRUE
    /\ shut' = shut \union wsStates \union (IF t[1] = "conn" THEN {t[2]} ELSE {})
    /\ stack' = <<FinishFrame(t, FALSE)>>
    /\ UNCHANGED <<notified, doneVars, ownVars, listenVars, kernelVars, stream,
                   runtime, task, cpc, faults>>

(* The scheduler returned or raised; its tasks stay suspended.             *)
RuntimeStops ==
    /\ Idle
    /\ runtime' = "stopped"
    /\ UNCHANGED <<flagVars, doneVars, ownVars, listenVars, kernelVars, stream,
                   task, shut, stack, cpc, faults>>

(* finalize() on the owner thread, or the "finally" of listen().           *)
Finalize ==
    /\ runtime = "stopped" /\ stack = <<>> /\ ~finished
    /\ stack' = <<FinishFrame(Nobody, TRUE)>>
    /\ UNCHANGED <<flagVars, doneVars, ownVars, listenVars, kernelVars, stream,
                   runtime, task, shut, cpc, faults>>

-----------------------------------------------------------------------------
(* ServerHandle.close() on thread k, one statement at a time.              *)

At(k, from, to) == cpc[k] = from /\ cpc' = [cpc EXCEPT ![k] = to]

CloseCall(k) ==
    /\ At(k, "idle", "flag")
    /\ ~finished /\ HasWakeup
    /\ UNCHANGED <<flagVars, wakeSignal, faults>>

CloseFlag(k) ==
    /\ At(k, "flag", "test")
    /\ closeRequested' = TRUE
    /\ UNCHANGED <<notified, finAttempted, wakeSignal, faults>>

(* Already notified: close() returns, or raises "cleanup is incomplete".   *)
CloseTest(k) ==
    /\ At(k, "test", IF notified THEN "idle" ELSE "notify")
    /\ UNCHANGED <<flagVars, wakeSignal, faults>>

(* notify() may raise, and on a channel that the scheduler closed meanwhile *)
(* it may do either without counting as a fault; the caller is expected to *)
(* call close() again.                                                     *)
CloseNotify(k) ==
    /\ \/ /\ At(k, "notify", "mark")
          /\ wakeSignal' = (wakeSignal \/ ~wakeupClosed) /\ UNCHANGED faults
       \/ /\ At(k, "notify", "idle") /\ UNCHANGED wakeSignal
          /\ Outcomes(<<wakeupClosed>>)
    /\ UNCHANGED flagVars

CloseMark(k) ==
    /\ At(k, "mark", "idle")
    /\ notified' = TRUE
    /\ UNCHANGED <<closeRequested, finAttempted, wakeSignal, faults>>

CloserStep(k) ==
    /\ \/ CloseCall(k) \/ CloseFlag(k) \/ CloseTest(k)
       \/ CloseNotify(k) \/ CloseMark(k)
    /\ UNCHANGED <<doneVars, ownVars, listenVars, listenerClosed, wakeupClosed,
                   stream, runtime, task, shut, stack>>

-----------------------------------------------------------------------------
(* The synchronous calls: the frame on top of the stack moves.             *)

Goto(phase, todo) ==
    stack' = <<[Top EXCEPT !.phase = phase, !.todo = todo]>> \o Below

(* _finish_close begins: flags, WebSocket shutdown, observer stop, wakeup  *)
(* channel.                                                                *)
FinishStart ==
    /\ InFinish("start")
    /\ IF finished
       THEN /\ stack' = Below
            /\ UNCHANGED <<flagVars, shut, wakeupClosed, faults>>
       ELSE /\ closeRequested' = TRUE /\ finAttempted' = TRUE
            /\ UNCHANGED notified
            /\ shut' = shut \union wsStates
            /\ \E ok \in BOOLEAN :
                 /\ Outcomes(<<ok>>)
                 /\ ok \/ (HasWakeup /\ ~wakeupClosed)
                 /\ wakeupClosed' = (wakeupClosed \/ (HasWakeup /\ ok))
            /\ Goto("retry", {})
    /\ UNCHANGED <<doneVars, ownVars, listenVars, listenerClosed, wakeSignal,
                   stream, runtime, task, cpc>>

(* Every connection retained by an earlier close failure is tried once;    *)
(* the ones in bad fail again.                                             *)
StaleErrors(bad) == errConn \union bad    \* mutant: success leaves its error
RetriedErrors(bad) == (errConn \ closing) \union bad

FinishRetryCloses ==
    /\ InFinish("retry")
    /\ \E bad \in SUBSET {c \in closing : stream[c] = "open"} :
         /\ Outcomes([c \in bad |-> FALSE])
         /\ stream' = [c \in Conn |-> IF c \in closing \ bad THEN "closed" ELSE stream[c]]
         /\ closing' = bad
         /\ errConn' = RetriedErrors(bad)
    /\ Goto("cancels", pending)
    /\ UNCHANGED <<flagVars, doneVars, connections, pending, cancelled, owned,
                   wsStates, closers, listenVars, kernelVars, runtime, task,
                   shut, cpc>>

(* A task whose cancellation this attempt still owes.                      *)
NeedsCancel(t) == t # Top.cur /\ t \notin cancelled /\ t \notin Top.tried

(* _cancel_or_retain_task(t) fails: t is pending.                          *)
CancelFails(t, todo) ==
    /\ Outcomes(<<FALSE>>)
    /\ pending' = pending \union {t}
    /\ stack' = <<[Top EXCEPT !.todo = todo, !.tried = @ \union {t}]>> \o Below
    /\ UNCHANGED <<flagVars, doneVars, connections, closing, errConn, cancelled,
                   owned, wsStates, closers, capWaiting, wakeSignal, stream, task>>

(* A cancelled wait runs the "finally" of _wait_for_capacity.              *)
CapacityWaitKept(t) == capWaiting         \* mutant: the flag is not reset
CapacityWaitAfter(t) == capWaiting /\ ~(t = Listener /\ task[t] = "live")

(* It succeeds: t is done and, if its coroutine had started, its "finally" *)
(* runs before cancel_task returns.  A cancelled close watcher so calls    *)
(* _finish_close again, a cancelled connection _connection_finished.       *)
CancelSucceeds(t, todo) ==
    LET frame == [Top EXCEPT !.todo = todo, !.tried = @ \union {t}, !.busy = t]
        live == task[t] = "live"
    IN  /\ capWaiting' = CapacityWaitAfter(t)
        /\ UNCHANGED <<doneVars, cancelled>>
        /\ IF live /\ t[1] = "conn"
           THEN \E ok, cok, nok \in BOOLEAN :
                  /\ Outcomes(<<ok, cok, nok>>)
                  /\ EndConnection(t[2], ok, cok)
                  /\ ReportCloseFailure(ok, nok, t,
                        <<ConnFinishedFrame(t, OwnedCount), frame>> \o Below)
                  /\ UNCHANGED finAttempted
           ELSE /\ task' = [task EXCEPT ![t] = "done"]
                /\ owned' = IF live /\ t[1] = "child" /\ Protocol = "http2"
                            THEN owned \ {t} ELSE owned
                /\ stack' = IF live /\ t = Watcher
                            THEN <<FinishFrame(Watcher, FALSE), frame>> \o Below
                            ELSE <<frame>> \o Below
                /\ UNCHANGED <<flagVars, connections, closing, errConn, pending,
                               wsStates, closers, wakeSignal, stream, faults>>

Cancel(t, todo) == CancelFails(t, todo) \/ CancelSucceeds(t, todo)

CancelUnchanged == UNCHANGED <<listenerResumed, capSignal, woken, lpc,
                               listenerClosed, wakeupClosed, runtime, shut, cpc>>

(* cancel_task returned: the task is no longer pending.                    *)
StillPending == pending                   \* mutant: success is not recorded
NoLongerPending == pending \ {Top.busy}

CancelReturns ==
    /\ stack # <<>> /\ Top.proc = "finish" /\ Top.busy # Nobody
    /\ pending' = NoLongerPending
    /\ cancelled' = cancelled \union {Top.busy}
    /\ stack' = <<[Top EXCEPT !.busy = Nobody]>> \o Below
    /\ UNCHANGED <<flagVars, doneVars, connections, closing, errConn, owned,
                   wsStates, closers, listenVars, kernelVars, stream, runtime,
                   task, shut, cpc, faults>>

(* Cancellations retained by an earlier attempt are retried.               *)
FinishRetryCancel ==
    /\ InFinish("cancels")
    /\ \E t \in Top.todo : Cancel(t, Top.todo \ {t})
    /\ CancelUnchanged

FinishRetryCancelsDone ==
    /\ InFinish("cancels") /\ Top.todo = {}
    /\ Goto("conns", {ConnTask(c) : c \in connections})
    /\ UNCHANGED <<flagVars, doneVars, ownVars, listenVars, kernelVars, stream,
                   runtime, task, shut, cpc, faults>>

(* The next entry of the loop over _connections: the one whose task was    *)
(* just cancelled, if any, is completed first.                             *)
NextConn == {t \in Top.todo : t \in Top.tried \/ Top.todo \cap Top.tried = {}}

(* Owner thread: cancel the connection's task.                             *)
FinishCancelConn ==
    /\ InFinish("conns") /\ Top.owner
    /\ \E t \in NextConn : NeedsCancel(t) /\ Cancel(t, Top.todo)
    /\ CancelUnchanged

(* Scheduler: an HTTP/2 connection is asked to say goodbye, a WebSocket    *)
(* coordinator finishes its own Close handshake; both keep their stream.   *)
KeepsStream(c, asked) == ~Top.owner /\ (asked \/ c \in wsStates)

(* The entry is passed over, or dropped and its stream closed.  The        *)
(* graceful closer may raise (asked is FALSE although there is one).       *)
FinishConn ==
    /\ InFinish("conns")
    /\ \E c \in Conn, asked, ok \in BOOLEAN :
         LET t == ConnTask(c)
             canAsk == ~Top.owner /\ t # Top.cur /\ c \in closers
             drop == t # Top.cur /\ ~KeepsStream(c, asked)
         IN  /\ t \in NextConn
             /\ Top.owner => ~NeedsCancel(t)
             /\ asked => canAsk
             /\ Outcomes(<<ok, canAsk => asked>>)
             /\ shut' = IF asked THEN shut \union {c} ELSE shut
             /\ IF drop
                THEN connections' = connections \ {c} /\ CloseOrRetain(c, ok)
                ELSE ok /\ UNCHANGED <<connections, closing, errConn, stream>>
             /\ Goto("conns", Top.todo \ {t})
    /\ UNCHANGED <<flagVars, doneVars, pending, cancelled, owned, wsStates,
                   closers, listenVars, kernelVars, runtime, task, cpc>>

FinishConnsDone ==
    /\ InFinish("conns") /\ Top.todo = {}
    /\ IF Top.owner THEN Goto("tasks", owned) ELSE Goto("tail", {})
    /\ UNCHANGED <<flagVars, doneVars, ownVars, listenVars, kernelVars, stream,
                   runtime, task, shut, cpc, faults>>

(* Owner thread: cancel what is left of _owned_tasks, in its order.        *)
FinishCancelTask ==
    /\ InFinish("tasks")
    /\ \E t \in Top.todo :
         /\ \A u \in Top.todo : Rank(t) <= Rank(u)
         /\ IF NeedsCancel(t)
            THEN Cancel(t, Top.todo \ {t})
            ELSE /\ Goto("tasks", Top.todo \ {t})
                 /\ UNCHANGED <<flagVars, doneVars, ownVars, capWaiting,
                                wakeSignal, stream, task, faults>>
    /\ CancelUnchanged

(* The owner never resumes the listener afterwards.                        *)
FinishTasksDone ==
    /\ InFinish("tasks") /\ Top.todo = {}
    /\ listenerResumed' = TRUE
    /\ Goto("tail", {})
    /\ UNCHANGED <<flagVars, doneVars, ownVars, capWaiting, capSignal, woken,
                   lpc, kernelVars, stream, runtime, task, shut, cpc, faults>>

(* Resume the listener once (the call may raise), close its stream.        *)
FinishTail ==
    /\ InFinish("tail")
    /\ \E rok, ok \in BOOLEAN :
         LET resume == Listener # Top.cur /\ ~listenerResumed
         IN  /\ rok \/ resume
             /\ ok \/ ~listenerClosed
             /\ Outcomes(<<rok, ok>>)
             /\ listenerResumed' = (listenerResumed \/ resume)
             /\ woken' = (woken \/ (resume /\ rok))
             /\ listenerClosed' = (listenerClosed \/ ok)
    /\ stack' = <<UpdateFrame(Top.cur)>> \o Below
    /\ UNCHANGED <<flagVars, doneVars, ownVars, capWaiting, capSignal, lpc,
                   wakeupClosed, wakeSignal, stream, runtime, task, shut, cpc>>

(* _update_finished at the end of a call.                                  *)
Update ==
    /\ stack # <<>> /\ Top.proc = "update"
    /\ UpdateFinished
    /\ stack' = Below
    /\ UNCHANGED <<flagVars, connections, closing, pending, cancelled, owned,
                   wsStates, closers, listenVars, kernelVars, stream, runtime,
                   task, shut, cpc, faults>>

(* The rest of _connection_finished: _notify_capacity_released, whose      *)
(* signal may fail, then _update_finished.                                 *)
NoticesLate(prev) ==                      \* mutant: off by one, a lost signal
    capWaiting /\ prev > MaxConnections /\ OwnedCount < MaxConnections
NoticesRoom(prev) ==
    capWaiting /\ prev >= MaxConnections /\ OwnedCount < MaxConnections

ConnFinished ==
    /\ stack # <<>> /\ Top.proc = "connFinished"
    /\ \E ok \in BOOLEAN :
         /\ ok \/ NoticesRoom(Top.prev)
         /\ Outcomes(<<ok>>)
         /\ capSignal' = (capSignal \/ (NoticesRoom(Top.prev) /\ ok))
         /\ stack' = (IF ok THEN <<>> ELSE <<ListenerFailedFrame(Top.cur)>>)
                       \o <<UpdateFrame(Top.cur)>> \o Below
    /\ UNCHANGED <<flagVars, doneVars, ownVars, listenerResumed, capWaiting,
                   woken, lpc, kernelVars, stream, runtime, task, shut, cpc>>

(* _listener_failed: have the close watcher finish, or finish here.        *)
ListenerFailed ==
    /\ stack # <<>> /\ Top.proc = "listenerFailed"
    /\ closeRequested' = TRUE
    /\ \E ok \in BOOLEAN :
         LET notify == HasWakeup /\ ~notified
         IN  /\ ok \/ notify
             /\ Outcomes(<<ok \/ wakeupClosed>>)
             /\ notified' = (notified \/ (notify /\ ok))
             /\ wakeSignal' = (wakeSignal \/ (notify /\ ok /\ ~wakeupClosed))
             /\ stack' = IF (notify /\ ok) \/ (~notify /\ notified)
                         THEN Below
                         ELSE <<FinishFrame(Top.cur, FALSE)>> \o Below
    /\ UNCHANGED <<finAttempted, doneVars, ownVars, listenVars, listenerClosed,
                   wakeupClosed, stream, runtime, task, shut, cpc>>

SyncStep ==
    \/ FinishStart \/ FinishRetryCloses
    \/ FinishRetryCancel \/ FinishRetryCancelsDone \/ CancelReturns
    \/ FinishCancelConn \/ FinishConn \/ FinishConnsDone
    \/ FinishCancelTask \/ FinishTasksDone \/ FinishTail
    \/ Update \/ ConnFinished \/ ListenerFailed

ListenerStep ==
    \/ ListenerTop \/ ListenerCapacityWake \/ ListenerExits \/ ListenerAcceptError
    \/ \E c \in Conn : \/ ListenerSetupFailed(c) \/ ListenerRefuses(c)
                       \/ ListenerRegisters(c) \/ ListenerForkFails(c)

ConnStep(c) ==
    \/ RegisterGraceful(c) \/ OpenWebSocket(c) \/ ForceClose(c)
    \/ SayGoaway(c) \/ ConnEnds(c)

Next ==
    \/ SyncStep
    \/ ListenerStep
    \/ \E t \in Task : StartTask(t)
    \/ \E c \in Conn : ConnStep(c)
    \/ ObserverEnds \/ WatcherWakes
    \/ \E t \in Task \union {UserTask} : CloseFromTask(t)
    \/ RuntimeStops \/ Finalize
    \/ \E k \in Closer : CloserStep(k)

Spec == Init /\ [][Next]_vars

(* Fairness.  SmallOS is a cooperative scheduler that runs every ready     *)
(* task in turn, so as long as some task is ready again and again, task    *)
(* steps are taken; each can be taken finitely often only, so no ready     *)
(* task is left out.  A connection ends when its stream is closed under    *)
(* it, or when it was told to (WebSocket deadlines bound the Close         *)
(* handshake, a handler that called close_from_task returns); an HTTP/2    *)
(* connection told to shut down is closed by its children, unless it has   *)
(* said its GOAWAY, which the peer then takes (HTTP2Connection shows what  *)
(* happens when it does not).  The owner of a stopped runtime finalizes,   *)
(* and whoever sees an unfinished handle after a first attempt calls       *)
(* close_from_task or finalize again, as the guide asks.  Nothing obliges  *)
(* clients to connect or threads to call close().                          *)
Leaving(c) == \/ stream[c] = "closed"
              \/ Protocol = "http1" /\ c \in shut
              \/ Protocol = "http2" /\ task[Child(c)] = "done"

TaskStep ==
    \/ ListenerTop \/ ListenerCapacityWake \/ ListenerExits
    \/ WatcherWakes \/ ObserverEnds
    \/ \E t \in Task : StartTask(t)
    \/ \E c \in Conn : \/ Leaving(c) /\ ConnEnds(c)
                       \/ c \in shut \cap closers /\ ForceClose(c)

Fairness ==
    /\ WF_vars(SyncStep) /\ WF_vars(Finalize)
    /\ SF_vars(TaskStep)
    /\ SF_vars(finAttempted /\ CloseFromTask(UserTask))
    /\ \A k \in Closer : WF_vars(cpc[k] # "idle" /\ CloserStep(k))

FairSpec == Spec /\ Fairness

-----------------------------------------------------------------------------
(* The types of the state.  _capacity_waiting says exactly whether the     *)
(* listener is parked in _wait_for_capacity (server.py:313-317).           *)
TypeOK ==
    /\ {closeRequested, notified, finAttempted, finished, released,
        listenerResumed, capWaiting, capSignal, woken,
        listenerClosed, wakeupClosed, wakeSignal} \subseteq BOOLEAN
    /\ connections \subseteq Conn /\ closing \subseteq Conn
    /\ errConn \subseteq Conn /\ wsStates \subseteq Conn
    /\ closers \subseteq Conn /\ shut \subseteq Conn
    /\ pending \subseteq Task /\ owned \subseteq Task /\ cancelled \subseteq Task
    /\ lpc \in {"top", "capwait", "accept"}
    /\ capWaiting = (lpc = "capwait" /\ task[Listener] = "live")
    /\ stream \in [Conn -> {"none", "open", "closed"}]
    /\ runtime \in {"running", "stopped"}
    /\ task \in [Task -> {"none", "created", "ready", "live", "done"}]
    /\ stack \in Seq(Frame)
    /\ cpc \in [Closer -> {"idle", "flag", "test", "notify", "mark"}]
    /\ faults \in 0..MaxFaults

(* server.py:306 counts _connections and _closing_connections separately:  *)
(* a stream in both would be counted, and closed, twice.                   *)
OwnedOnce == connections \cap closing = {}

(* No accepted stream is ever lost: whatever failed, in whatever order, an *)
(* open stream is in one of the two tables that _finish_close walks.       *)
NoStreamLeak ==
    \A c \in Conn : stream[c] = "open" => c \in connections \union closing

(* max_connections bounds the streams the server owns, the ones whose      *)
(* close failed included, although the listener tests the count before it  *)
(* suspends in accept() and uses it afterwards.                            *)
CapacityBound ==
    Cardinality(connections) + Cardinality(closing) <= MaxConnections

(* cleanup_errors: "latest close failures for resources still owned".      *)
ErrorsAreOwned == /\ errConn \subseteq connections \union closing
                  /\ closing \subseteq errConn

(* The application may listen again (on_finalized has run) only when the   *)
(* kernel resources of this invocation are gone, and they stay gone.       *)
ReleasedMeansClosed ==
    released => /\ listenerClosed /\ (HasWakeup => wakeupClosed)
                /\ \A c \in Conn : stream[c] # "open"

(* Once the first finalization attempt began no stream becomes a           *)
(* connection: the listener saw the request, or was never resumed.         *)
NoRegistrationAfterFinalization ==
    [][finAttempted => connections' \subseteq connections]_vars

(* Every shutdown that reached the close watcher, or that a task or the    *)
(* owner began, completes, however the failures fell, because retained     *)
(* resources stay reachable for the retries.                               *)
ShutdownCompletes == (notified \/ finAttempted) ~> finished

(* A listener blocked on a full server goes on once there is room, unless  *)
(* shutdown came first: no capacity signal is lost, and one that cannot be *)
(* sent turns into a shutdown.  (In a shutdown the listener depends on the *)
(* single resume_task call of _finish_close, whose failure is swallowed.)  *)
CapacityWaitEnds ==
    (capWaiting /\ OwnedCount < MaxConnections)
        ~> (~capWaiting \/ closeRequested \/ runtime = "stopped")

(* guide/runtime-lifecycle.md:8: "The instance can be reused after its     *)
(* handle is fully finished."  The callback that frees the instance must   *)
(* therefore not have run while the handle is unfinished.                  *)
ReusableOnlyWhenFinished == released => finished
=============================================================================
