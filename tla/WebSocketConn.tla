---------------------------- MODULE WebSocketConn ----------------------------
(***************************************************************************)
(* One WebSocket connection: the tasks of smallserver/websocket.py that    *)
(* share a _WebSocketState.  The coordinator spawns the application's      *)
(* handler and the deadline task, and after the 101 the writer and the     *)
(* reader; the peer, the server's request_shutdown() and time act at any   *)
(* moment.  Tasks are cooperative: a step runs from one suspension to the  *)
(* next.  A method of _WebSocketState is an operator from state to state.  *)
(*                                                                         *)
(* Time: an armed deadline may have passed whenever the deadline task      *)
(* wakes, because every timeout of WebSocketConfig is any positive number. *)
(* Messages are counted, frames are the kind of their event.  The handler  *)
(* is any program over the WebSocket methods; an error raised into it      *)
(* leaves it running, free to return or to fail.                           *)
(***************************************************************************)
EXTENDS Naturals, Sequences, FiniteSetsExt

CONSTANTS MaxInbox,    \* max_inbound_messages
          MaxOutbox,   \* max_outbound_commands
          MaxInput,    \* frames the peer sends (bound of the model)
          MaxOps       \* messages and Pings the handler sends (bound of the model)

ASSUME WebSocketAssumption ==
    /\ MaxInbox \in Nat \ {0} /\ MaxOutbox \in Nat \ {0}
    /\ MaxInput \in Nat /\ MaxOps \in Nat

VARIABLES
    ws,      \* the _WebSocketState, with its signals and acknowledgements
    pc,      \* task -> where it is suspended, or how it ended
    input,   \* frames received so far
    ops      \* messages and Pings sent so far

vars == <<ws, pc, input, ops>>

Tasks     == {"coordinator", "handler", "writer", "reader", "deadline"}
Waiters   == {"handler", "coordinator", "nobody"}
Undecided == {"pending", "accepting", "rejecting"}
Ended     == {"returned", "cancelled"}
Events    == {"data", "ping", "pong", "close"}
Timers    == {"handshake", "pong", "idle", "write", "close"}
Command   == [event : Events, waiter : Waiters]
Idle      == [event |-> "none", waiter |-> "nobody"]

Alive(p, t) == p[t] \notin Ended \cup {"unspawned"}

TypeOK ==
    /\ ws.handshake_state \in Undecided \cup {"accepted", "rejected", "failed"}
    /\ ws.shutdown \in BOOLEAN /\ ws.peer_closed \in BOOLEAN /\ ws.close_sent \in BOOLEAN
    /\ ws.disconnect \in BOOLEAN /\ ws.handler_error \in BOOLEAN
    /\ ws.ping \in BOOLEAN /\ ws.close_deadline \in BOOLEAN
    /\ ws.inbox \in 0..MaxInbox
    /\ ws.outbox \in Seq(Command) /\ Len(ws.outbox) <= MaxOutbox
    /\ ws.active_command \in Command \cup {Idle}
    /\ ws.protocol \in {"none", "open", "local_closing", "remote_closing", "closed"}
    /\ ws.signals \subseteq {"decision", "inbox", "outbox"}
    /\ ws.ack \in [Waiters -> {"none", "pending", "ok", "error"}]
    /\ ws.flushed \subseteq Waiters /\ ws.replies \in Nat
    /\ DOMAIN pc = Tasks
    /\ (pc.writer = "sending") = (ws.active_command # Idle)
    /\ input \in 0..MaxInput /\ ops \in 0..MaxOps

-----------------------------------------------------------------------------
(* Both parts of the state together, as the methods see and change them. *)

Now == [ws |-> ws, pc |-> pc]
Becomes(next) == \E s \in {next} : ws' = s.ws /\ pc' = s.pc

Set(s, t, label) == [s EXCEPT !.pc[t] = label]
Signal(s, sig)   == [s EXCEPT !.ws.signals = @ \cup {sig}]

FullLate(s) == Len(s.ws.outbox) > MaxOutbox        \* mutant: off by one
Full(s) == Len(s.ws.outbox) >= MaxOutbox

\* Appending a command signals the writer, if there is one.
Queue(s, event, waiter) ==
    LET t == [s EXCEPT !.ws.outbox = Append(@, [event |-> event, waiter |-> waiter])]
    IN  IF s.pc.writer = "unspawned" THEN t ELSE Signal(t, "outbox")

EnqueueControl(s, event) == IF Full(s) THEN s ELSE Queue(s, event, "nobody")

\* _enqueue(wait=True) past its capacity check: the caller waits for the ack.
EnqueueAndWait(s, event, waiter) ==
    [Queue(s, event, waiter) EXCEPT !.ws.ack[waiter] = "pending",
                                      !.ws.flushed = @ \ {waiter}]

\* command.done with command.error: only a task still waiting sees it.
Acknowledge(s, waiters, result) ==
    [s EXCEPT !.ws.ack = [w \in Waiters |->
        IF w \in waiters /\ @[w] = "pending" THEN result ELSE @[w]]]

DisconnectQuietly(s) ==                            \* mutant: receive() is not woken
    Signal([s EXCEPT !.ws.disconnect = TRUE], "decision")
Disconnect(s) ==
    Signal(Signal([s EXCEPT !.ws.disconnect = TRUE], "inbox"), "decision")

FailHandshake(s) ==
    IF s.ws.handshake_state = "failed" THEN s
    ELSE Disconnect([s EXCEPT !.ws.handshake_state = "failed", !.ws.protocol = "none"])

ClearOutbound(s) == [s EXCEPT !.ws.outbox = <<>>]   \* mutant: the waiters are forgotten
FailOutbound(s) ==
    [Acknowledge(s, {s.ws.outbox[i].waiter : i \in DOMAIN s.ws.outbox}
                        \cup {s.ws.active_command.waiter}, "error")
        EXCEPT !.ws.outbox = <<>>]

\* Closing the writer's coroutine runs the finally of its command, which
\* acknowledges it with whatever error it has by then.
CancelWriter(s) ==
    IF ~Alive(s.pc, "writer") THEN s
    ELSE [Set(Acknowledge(s, {s.ws.active_command.waiter}, "ok"), "writer", "cancelled")
             EXCEPT !.ws.active_command = Idle]

CancelFirst(s) == FailOutbound(CancelWriter(s))    \* mutant: the order swapped
AbortWriter(s) == CancelWriter(FailOutbound(s))

\* Closing the handler's coroutine: ping() forgets its Ping, close()
\* disconnects, and _run_handler signals the coordinator.
CancelHandler(s) ==
    IF ~Alive(s.pc, "handler") THEN s
    ELSE LET t == IF s.pc.handler = "closing" THEN Disconnect(s) ELSE s
         IN  [Signal(Set(t, "handler", "cancelled"), "decision") EXCEPT
                !.ws.ping = @ /\ s.pc.handler # "pinging",
                !.ws.ack["handler"] = "none",
                !.ws.flushed = @ \ {"handler"}]

Deciding(s) == s.ws.handshake_state \in Undecided

\* What a shutdown ends: the handshake that is still open, or the connection.
EndAll(s) == IF Deciding(s) THEN FailHandshake(s) ELSE Disconnect(s)

RequestShutdown(s) ==
    IF s.ws.shutdown THEN s
    ELSE LET noted == [s EXCEPT !.ws.shutdown = TRUE]
             closed == IF s.ws.handshake_state = "accepted" /\ ~s.ws.close_sent
                       THEN [EnqueueControl(noted, "close") EXCEPT !.ws.close_sent = TRUE]
                       ELSE noted
             gone == CancelHandler(EndAll(closed))
         IN  IF s.pc.writer = "unspawned" THEN gone ELSE Signal(gone, "outbox")

BeginDeadlineClose(s) ==
    LET t == IF s.ws.close_sent \/ s.ws.protocol = "none" THEN s
             ELSE [EnqueueControl(s, "close") EXCEPT !.ws.close_sent = TRUE]
     IN CancelHandler(Disconnect([t EXCEPT !.ws.close_deadline = TRUE]))

-----------------------------------------------------------------------------
(* The handler: WebSocket's methods and _run_handler. *)

\* accept() and reject() claim the handshake, then send their response.
Claim(s, task, state, label) ==
    [Set(s, task, label) EXCEPT !.ws.handshake_state = state, !.ws.replies = @ + 1]

HandlerDecides ==
    /\ pc.handler = "running" /\ ws.handshake_state = "pending"
    /\ \/ Becomes([Claim(Now, "handler", "accepting", "accepting")
                      EXCEPT !.ws.protocol = "open"])
       \/ Becomes(Claim(Now, "handler", "rejecting", "rejecting"))
    /\ UNCHANGED <<input, ops>>

\* The response is flushed.  A handler that never decided sent the 403 or 500
\* of its finally clause ("refusing") and ends here.
HandlerReplied ==
    /\ \/ /\ pc.handler = "accepting"
          /\ Becomes(Signal([Set(Now, "handler", "running")
                        EXCEPT !.ws.handshake_state = "accepted"], "decision"))
       \/ /\ pc.handler \in {"rejecting", "refusing"}
          /\ Becomes(Signal([Set(Now, "handler",
                                 IF pc.handler = "refusing" THEN "returned" ELSE "running")
                        EXCEPT !.ws.handshake_state = "rejected"], "decision"))
    /\ UNCHANGED <<input, ops>>

HandlerReplyFails ==
    /\ pc.handler \in {"accepting", "rejecting", "refusing"}
    /\ Becomes(IF pc.handler = "refusing"
               THEN Signal(Set(Disconnect(FailHandshake(Now)), "handler", "returned"), "decision")
               ELSE Set(FailHandshake(Now), "handler", "running"))
    /\ UNCHANGED <<input, ops>>

\* receive(): a queued message, else WebSocketDisconnect, else wait.
HandlerReceives ==
    /\ ws.handshake_state = "accepted"
    /\ \/ pc.handler = "running" /\ (ws.inbox > 0 \/ ~ws.disconnect)
       \/ pc.handler = "receiving" /\ "inbox" \in ws.signals
    /\ LET woken == [Now EXCEPT !.ws.signals =
                        IF pc.handler = "receiving" THEN @ \ {"inbox"} ELSE @]
       IN  Becomes(IF ws.inbox > 0
                   THEN [Set(woken, "handler", "running") EXCEPT !.ws.inbox = @ - 1]
                   ELSE Set(woken, "handler", IF ws.disconnect THEN "running" ELSE "receiving"))
    /\ UNCHANGED <<input, ops>>

RequireOpen == ws.handshake_state = "accepted" /\ ~ws.shutdown /\ ~ws.disconnect

\* send_text(), send_bytes() and ping(); a full outbox raises and changes nothing.
HandlerSends ==
    /\ pc.handler = "running" /\ RequireOpen /\ ~Full(Now) /\ ops < MaxOps
    /\ \/ Becomes(Set(EnqueueAndWait(Now, "data", "handler"), "handler", "sending"))
       \/ /\ ~ws.ping
          /\ Becomes([Set(EnqueueAndWait(Now, "ping", "handler"), "handler", "pinging")
                         EXCEPT !.ws.ping = TRUE])
    /\ ops' = ops + 1
    /\ UNCHANGED input

\* close() notes the Close before it enqueues it; a full outbox disconnects.
HandlerCloses ==
    /\ pc.handler = "running" /\ RequireOpen
    /\ LET noted == [Now EXCEPT !.ws.close_sent = TRUE, !.ws.close_deadline = TRUE]
       IN  Becomes(IF Full(Now) THEN Disconnect(noted)
                   ELSE Set(EnqueueAndWait(noted, "close", "handler"), "handler", "closing"))
    /\ UNCHANGED <<input, ops>>

HandlerAcked ==
    /\ pc.handler \in {"sending", "pinging", "closing"}
    /\ ws.ack["handler"] \in {"ok", "error"}
    /\ LET ok   == ws.ack["handler"] = "ok"
           next == IF pc.handler = "closing" /\ ok THEN "close_wait" ELSE "running"
           t    == [Set(Now, "handler", next) EXCEPT
                      !.ws.ack["handler"] = "none",
                      !.ws.flushed = @ \ {"handler"},
                      !.ws.ping = @ /\ (pc.handler = "pinging" => ok)]
       IN  Becomes(IF pc.handler = "closing" /\ ~ok THEN Disconnect(t) ELSE t)
    /\ UNCHANGED <<input, ops>>

\* The peer's Close or close_timeout ends the wait of close().
HandlerClosed ==
    /\ pc.handler = "close_wait"
    /\ Becomes([Set(Now, "handler", "running") EXCEPT !.ws.disconnect = TRUE])
    /\ UNCHANGED <<input, ops>>

\* The application's coroutine returns or raises.
HandlerEnds ==
    /\ pc.handler = "running"
    /\ \E failed \in BOOLEAN :
          LET t == [Now EXCEPT !.ws.handler_error = failed]
          IN  Becomes(IF ws.handshake_state = "pending"
                      THEN Claim(t, "handler", "rejecting", "refusing")
                      ELSE Signal(Set(t, "handler", "returned"), "decision"))
    /\ UNCHANGED <<input, ops>>

-----------------------------------------------------------------------------
(* The writer.  wsproto's Connection.send() refuses an event its state does  *)
(* not allow; a Close moves the state.                                       *)

Sendable(event, protocol) ==
    \/ protocol = "open"
    \/ protocol = "remote_closing" /\ event = "close"

AfterSend(event, protocol) ==
    IF event # "close" THEN protocol
    ELSE IF protocol = "open" THEN "local_closing" ELSE "closed"

\* From the head of the loop to its next suspension: commands wsproto refuses
\* fail on the spot, the first one it takes is being flushed.
WriterRuns(s) ==
    LET takes == {i \in DOMAIN s.ws.outbox : Sendable(s.ws.outbox[i].event, s.ws.protocol)}
        last  == IF takes = {} THEN Len(s.ws.outbox) ELSE Min(takes) - 1
        refused == {s.ws.outbox[i].waiter : i \in 1..last}
        t == IF last = 0 THEN s
             ELSE Acknowledge(CancelHandler(Disconnect(s)), refused, "error")
        rest == SubSeq(s.ws.outbox, last + 1, Len(s.ws.outbox))
    IN  IF rest = <<>>
        THEN [Set(t, "writer", IF t.ws.shutdown THEN "returned" ELSE "waiting")
                 EXCEPT !.ws.outbox = <<>>]
        ELSE [Set(t, "writer", "sending") EXCEPT
                 !.ws.outbox = Tail(rest),
                 !.ws.active_command = Head(rest),
                 !.ws.protocol = AfterSend(Head(rest).event, @)]

WriterWakes ==
    /\ \/ pc.writer = "spawned" /\ Becomes(WriterRuns(Now))
       \/ /\ pc.writer = "waiting" /\ "outbox" \in ws.signals
          /\ Becomes(WriterRuns([Now EXCEPT !.ws.signals = @ \ {"outbox"}]))
    /\ UNCHANGED <<input, ops>>

\* The peer has taken the last chunk of the frame.
WriterFlushes ==
    /\ pc.writer = "sending"
    /\ LET w == ws.active_command.waiter
       IN  Becomes(WriterRuns([Acknowledge(Now, {w}, "ok") EXCEPT
                      !.ws.active_command = Idle, !.ws.flushed = @ \cup ({w} \ {"nobody"})]))
    /\ UNCHANGED <<input, ops>>

WriterSendFails ==
    /\ pc.writer = "sending"
    /\ Becomes(WriterRuns([CancelHandler(Disconnect(
                              Acknowledge(Now, {ws.active_command.waiter}, "error")))
                      EXCEPT !.ws.active_command = Idle]))
    /\ UNCHANGED <<input, ops>>

-----------------------------------------------------------------------------
(* The reader and _drain_protocol_events. *)

\* The reader's except clauses: 1009 or 1002.
ReaderFails(s) ==
    Set(IF s.ws.shutdown THEN s
        ELSE CancelHandler(Disconnect([EnqueueControl(s, "close")
                              EXCEPT !.ws.close_sent = TRUE])),
        "reader", "returned")

\* Back at the loop's condition.
ReaderLoops(s) == Set(s, "reader", IF s.ws.shutdown THEN "returned" ELSE "receiving")

\* A CloseConnection event: answered once; a response that does not fit is a
\* capacity error.
CloseEvent(s) ==
    LET t == [s EXCEPT !.ws.peer_closed = TRUE]
    IN  IF s.ws.close_sent THEN Set(Disconnect(t), "reader", "returned")
        ELSE IF Full(s) THEN ReaderFails(t)
        ELSE Set(Disconnect([EnqueueControl(t, "close") EXCEPT !.ws.close_sent = TRUE]),
                 "reader", "returned")

Frames == {"message", "ping", "pong", "close", "unparsable", "refused", "eof"}

Received(s, frame) ==
    CASE frame = "message" ->
            IF s.ws.inbox >= MaxInbox THEN ReaderFails(s)
            ELSE ReaderLoops(Signal([s EXCEPT !.ws.inbox = @ + 1], "inbox"))
      [] frame = "ping" ->
            IF Full(s) THEN ReaderFails(s) ELSE ReaderLoops(EnqueueControl(s, "pong"))
      [] frame = "pong" -> ReaderLoops([s EXCEPT !.ws.ping = FALSE])
      [] frame = "close" ->
            CloseEvent([s EXCEPT !.ws.protocol =
                           IF @ = "local_closing" THEN "closed" ELSE "remote_closing"])
      [] frame = "unparsable" -> CloseEvent(s)      \* wsproto reports it as a Close
      [] frame = "refused"    -> ReaderFails(s)     \* _FrameGuard, a limit, recv()
      [] frame = "eof" ->
            LET t == CloseEvent([s EXCEPT !.ws.protocol = "closed"])
            IN  CancelHandler(t)

ReaderReceives ==
    /\ pc.reader \in {"spawned", "receiving"} /\ input < MaxInput
    /\ \E frame \in Frames :
          /\ pc.reader = "spawned" => frame # "eof"   \* trailing data of the request
          /\ Becomes(Received(Now, frame))
    /\ input' = input + 1
    /\ UNCHANGED ops

\* No trailing data.
ReaderStarts ==
    /\ pc.reader = "spawned"
    /\ Becomes(ReaderLoops(Now))
    /\ UNCHANGED <<input, ops>>

-----------------------------------------------------------------------------
(* The deadline task: which armed deadlines have passed is a choice. *)

DeadlineLoops(s) == Set(s, "deadline", IF s.ws.shutdown THEN "returned" ELSE "sleeping")

ReplyAnyway(s) == Claim(s, "deadline", "rejecting", "refusing")   \* mutant: 408 over a 101
FailOnly(s) ==                                     \* mutant: the handler keeps sending its 101
    Set(FailHandshake(s), "deadline", "returned")
HandshakeDeadline(s) ==
    IF s.ws.handshake_state = "pending"
    THEN Claim(s, "deadline", "rejecting", "refusing")
    ELSE Set(CancelHandler(FailHandshake(s)), "deadline", "returned")

AbortOnly(s) ==                                    \* mutant: the handler is left alone
    Set(Disconnect(AbortWriter(s)), "deadline", "returned")
Expire(s) == Set(Disconnect(CancelHandler(AbortWriter(s))), "deadline", "returned")

OpenDeadlines(s, late) ==
    LET t == IF late \cap {"pong", "idle"} # {} THEN BeginDeadlineClose(s) ELSE s
    IN  IF late \cap {"write", "close"} # {} THEN Expire(t) ELSE DeadlineLoops(t)

Armed(s) ==
    {t \in Timers : CASE t = "handshake" -> Deciding(s)
                      [] t = "pong"  -> s.ws.ping
                      [] t = "idle"  -> s.ws.handshake_state = "accepted"
                      [] t = "write" -> s.pc.writer = "sending"
                      [] t = "close" -> s.ws.close_deadline}

DeadlineWakes(late) ==
    /\ pc.deadline = "sleeping"
    /\ Becomes(IF ~Deciding(Now) THEN OpenDeadlines(Now, late)
               ELSE IF "handshake" \in late THEN HandshakeDeadline(Now)
               ELSE DeadlineLoops(Now))
    /\ UNCHANGED <<input, ops>>

\* The 408 of an expired handshake.
DeadlineReplied ==
    /\ pc.deadline = "refusing"
    /\ \/ Becomes(Signal([Set(Now, "deadline", "returned")
                             EXCEPT !.ws.handshake_state = "rejected"], "decision"))
       \/ Becomes(Disconnect(FailHandshake(Set(Now, "deadline", "returned"))))
    /\ UNCHANGED <<input, ops>>

-----------------------------------------------------------------------------
(* The coordinator: run_websocket_connection. *)

\* The finally clause: children are cancelled in the order they were spawned.
Finish(s) ==
    LET t == CancelWriter(CancelHandler(RequestShutdown(s)))
    IN  [t EXCEPT !.pc = [task \in Tasks |->
            IF task = "coordinator" THEN "returned"
            ELSE IF Alive(t.pc, task) THEN "cancelled" ELSE t.pc[task]]]

CoordinatorDecides ==
    /\ pc.coordinator = "deciding" /\ "decision" \in ws.signals
    /\ LET t == [Now EXCEPT !.ws.signals = @ \ {"decision"}]
       IN  Becomes(IF Deciding(Now) THEN t
                   ELSE IF ws.handshake_state # "accepted" THEN Finish(t)
                   ELSE [t EXCEPT !.pc.coordinator = "joining",
                                  !.pc.writer = "spawned", !.pc.reader = "spawned"])
    /\ UNCHANGED <<input, ops>>

\* Sends 1011 or 1000 and waits for the writer.
CloseAndWait(s) ==
    LET t == [s EXCEPT !.ws.close_deadline = TRUE]
    IN  IF Full(s) THEN Set(t, "coordinator", "lingering")
        ELSE Set(EnqueueAndWait(t, "close", "coordinator"), "coordinator", "closing")

\* SmallOS's join of a cancelled task may raise or return.
CoordinatorJoins ==
    /\ pc.coordinator = "joining" /\ pc.handler \in Ended
    /\ \E raises \in BOOLEAN :
          /\ raises => pc.handler = "cancelled"
          /\ LET t == [Now EXCEPT !.ws.handler_error = @ \/ raises]
             IN  Becomes(IF ~ws.close_sent /\ (t.ws.handler_error \/ ~ws.disconnect)
                         THEN CloseAndWait(t)
                         ELSE Set(t, "coordinator", "lingering"))
    /\ UNCHANGED <<input, ops>>

CoordinatorAcked ==
    /\ pc.coordinator = "closing" /\ ws.ack["coordinator"] \in {"ok", "error"}
    /\ Becomes([Set(Now, "coordinator", "lingering") EXCEPT
                   !.ws.close_sent = @ \/ ws.ack["coordinator"] = "ok",
                   !.ws.ack["coordinator"] = "none"])
    /\ UNCHANGED <<input, ops>>

\* Everything is sent and the peer has closed, or close_timeout passed.
CoordinatorFinishes ==
    /\ pc.coordinator = "lingering"
    /\ Becomes(Finish(Now))
    /\ UNCHANGED <<input, ops>>

\* ServerHandle closes: _finish_close() calls request_shutdown().
ServerShutsDown ==
    /\ pc.coordinator # "returned" /\ ~ws.shutdown
    /\ Becomes(RequestShutdown(Now))
    /\ UNCHANGED <<input, ops>>

-----------------------------------------------------------------------------

Init ==
    /\ ws = [handshake_state |-> "pending", shutdown |-> FALSE, peer_closed |-> FALSE,
             close_sent |-> FALSE, disconnect |-> FALSE, handler_error |-> FALSE,
             ping |-> FALSE, close_deadline |-> FALSE, inbox |-> 0, outbox |-> <<>>,
             active_command |-> Idle, protocol |-> "none", signals |-> {},
             ack |-> [w \in Waiters |-> "none"], flushed |-> {}, replies |-> 0]
    /\ pc = [coordinator |-> "deciding", handler |-> "running", deadline |-> "sleeping",
             writer |-> "unspawned", reader |-> "unspawned"]
    /\ input = 0 /\ ops = 0

Handler == \/ HandlerDecides \/ HandlerReplied \/ HandlerReplyFails \/ HandlerReceives
           \/ HandlerSends \/ HandlerCloses \/ HandlerAcked \/ HandlerClosed \/ HandlerEnds
Writer  == WriterWakes \/ WriterFlushes \/ WriterSendFails
Reader  == ReaderReceives \/ ReaderStarts
Deadline == (\E late \in SUBSET Armed(Now) : DeadlineWakes(late)) \/ DeadlineReplied
Coordinator == \/ CoordinatorDecides \/ CoordinatorJoins \/ CoordinatorAcked
               \/ CoordinatorFinishes

Next == Handler \/ Writer \/ Reader \/ Deadline \/ Coordinator \/ ServerShutsDown

Spec == Init /\ [][Next]_vars

(***************************************************************************)
(* SmallOS runs every task that can run, and time passes: a sleeping       *)
(* deadline task eventually finds every armed deadline expired.  Nothing   *)
(* is assumed of the peer (WriterFlushes, HandlerReplied, ReaderReceives)  *)
(* nor of the application's own progress.                                  *)
(***************************************************************************)
Fairness ==
    /\ WF_vars(WriterWakes) /\ WF_vars(ReaderStarts)
    /\ WF_vars(DeadlineWakes(Armed(Now)))
    /\ WF_vars(CoordinatorDecides) /\ WF_vars(CoordinatorJoins)
    /\ WF_vars(CoordinatorAcked) /\ WF_vars(CoordinatorFinishes)
    /\ WF_vars(HandlerAcked)

FairSpec == Spec /\ Fairness

-----------------------------------------------------------------------------
(* Properties. *)

Done == pc.coordinator = "returned"

\* SendMeansFlushed: a send, Ping or Close whose caller is told it succeeded
\* was flushed, however the writer was aborted (guide/websockets.md:59).
SendMeansFlushed ==
    \A w \in Waiters : ws.ack[w] = "ok" => w \in ws.flushed

\* WaitersAreServed: the command of a waiting caller is still owned by the
\* outbox or by the writer: clearing the outbox never forgets a waiter.
WaitersAreServed ==
    \A w \in Waiters \ {"nobody"} : ws.ack[w] = "pending" =>
        \/ ws.active_command.waiter = w
        \/ \E i \in DOMAIN ws.outbox : ws.outbox[i].waiter = w

\* NoLostWakeup: a task parked on a signal whose condition already holds has
\* that signal latched: the handler with a message or a disconnect, the writer
\* with a command or a shutdown, the coordinator with a decided handshake.
NoLostWakeup ==
    /\ pc.handler = "receiving" /\ (ws.inbox > 0 \/ ws.disconnect) => "inbox" \in ws.signals
    /\ pc.writer = "waiting" /\ (ws.outbox # <<>> \/ ws.shutdown) => "outbox" \in ws.signals
    /\ pc.coordinator = "deciding" /\ ~Deciding(Now) => "decision" \in ws.signals

\* OneReply: application, _run_handler's finally clause and the handshake
\* deadline begin at most one HTTP response between them; and the handler is
\* cancelled only with its handshake claimed or failed, or its finally clause
\* would await another reject() while its coroutine is being closed.
OneReply ==
    /\ ws.replies <= 1
    /\ pc.handler = "cancelled" => ws.handshake_state # "pending"

\* FailedIsNotAccepted: a handshake that timed out or was shut down while the
\* 101 was being sent never turns into an accepted connection.
FailedIsNotAccepted ==
    [][ws.handshake_state = "failed" => ws.handshake_state' # "accepted"]_vars

\* The three ways in which a connection is known to wait for its peer for ever:
\* a Close enqueued after the write deadline has removed the writer, a shutdown
\* that ends the deadline task while the coordinator waits for the writer, and
\* a 408 the peer does not read.
WaitsForPeer ==
    \/ pc.coordinator = "closing" /\ pc.writer = "cancelled"
    \/ pc.coordinator = "closing" /\ pc.writer = "sending" /\ pc.deadline = "returned"
    \/ pc.deadline = "refusing"

\* EndsOrWaits: in every other case the deadlines end the connection, whatever
\* peer and application do (guide/websockets.md:42).
EndsOrWaits == []<>(Done \/ WaitsForPeer)

\* CleanupIsBounded: guide/websockets.md:42, a disconnected connection is
\* cleaned up even when the peer stops reading.
CleanupIsBounded == ws.disconnect ~> Done

\* QueuedAreDelivered: guide/websockets.md:51, when the peer closes, receive()
\* still delivers what was queued: the handler is not cancelled before.
QueuedAreDelivered ==
    [][/\ pc.handler # "cancelled" /\ pc'.handler = "cancelled"
       /\ Writer \/ (ReaderReceives /\ ws'.peer_closed)
       => ws.inbox = 0]_vars

=============================================================================
