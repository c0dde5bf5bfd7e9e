--------------------------- MODULE HTTP1Connection ---------------------------
(***************************************************************************)
(* The HTTP/1.1 connection tasks (app.py: _connection_loop, dispatch,      *)
(* _dispatch_websocket, _send_response), each with its HTTPRequestParser   *)
(* (server.py), over the tables of module Router, reporting match timeouts *)
(* to the channel of module RouteObserver, and handing an upgraded stream  *)
(* to the guard of module FrameGuard.                                      *)
(*                                                                         *)
(* What a peer has to send is a record of lengths and verdicts:            *)
(*   head     bytes up to and with the blank line, 0 if it never comes     *)
(*   verdict  0, or the status _parse_head answers a wrong head with       *)
(*   claim    its Content-Length        size   all the peer will send      *)
(*   broken   Request() refuses what the head says, once the body is there *)
(*   upgrade  "no"; or what the WebSocket checks say: "valid", "unknown",  *)
(*            "invalid"                 frames  what follows a valid one   *)
(*   method, path                       of the request                     *)
(* A connection task runs from one await to the next in one step.  Status  *)
(* 200 stands for whatever the handler answers, HTTPError included.        *)
(***************************************************************************)
EXTENDS Integers, Sequences, FiniteSets, RouteObserver, Router, FrameGuard

CONSTANTS Slot,          \* connections at a time
          MaxServed,     \* bound on the connections of a behaviour
          Wire,          \* what peers send
          Served,        \* bound: the logs of registrations a server starts with
          MaxHeader,     \* max_header_bytes
          MaxBody,       \* max_body_bytes
          Chunk,         \* receive_chunk_bytes
          MaxWebSockets  \* min(max WebSocket connections, max_connections)

ASSUME HTTP1Assumption ==
    /\ IsFiniteSet(Slot)
    /\ {MaxHeader, MaxBody, Chunk, MaxWebSockets, MaxServed} \subseteq Nat
    /\ \A w \in Wire :
         /\ w \in [head : Nat, verdict : {0, 400, 413, 414}, claim : Nat, size : Nat,
                   broken : BOOLEAN, upgrade : {"no", "valid", "unknown", "invalid"},
                   frames : Seq(ClientFrame), method : Method, path : Path]
         /\ w.verdict = 0 \/ w.claim <= MaxBody      \* one defect at a time
         /\ w.upgrade = "valid" =>
              w.size <= w.head + w.claim + Begin(w.frames, Len(w.frames) + 1)

VARIABLES
    mode,     \* "setup", "serving", or "closed" for handle.closed
    conn,     \* the connection task of each slot, with its parser and guard
    accepted_connections,  \* connections accepted so far
    timeouts  \* history: requests whose route match timed out

http1 == <<mode, conn, accepted_connections, timeouts>>
allvars == <<http1, router, vars>>

Free == [pc |-> "free"]
None == 0

(* pc: "reading" in recv(), "handling" in the handler, "sending" in        *)
(* send_all(), "upgrading" in run_websocket_connection() until the reader  *)
(* runs, "websocket" from then on, "refused" once the guard raised.  got   *)
(* and buffer: bytes received, and not yet consumed; parsed: _request_head *)
(* is set.  event: the finally clause has a route error to report.         *)
Start(w) == [pc |-> "reading", wire |-> w, got |-> 0, buffer |-> 0, parsed |-> FALSE,
             reply |-> None, handler |-> None, event |-> FALSE, guard |-> NewGuard]

Busy(c) == conn[c].pc # "free"
Live == {c \in Slot : Busy(c)}
Upgraded == {c \in Slot : conn[c].pc \in {"upgrading", "websocket", "refused"}}

-----------------------------------------------------------------------------
(* HTTPRequestParser.feed: "more" for None, an error status, or a request. *)

Refuse(p, status) == [p EXCEPT !.reply = status]

\* The head is complete, or too long, or not there yet.
TooLongEarly(p) == ~p.parsed /\ p.buffer > MaxHeader   \* mutant: counts body bytes
TooLong(p) ==
    /\ ~p.parsed
    /\ LET w == p.wire
       IN  IF w.head = 0 \/ p.buffer < w.head THEN p.buffer > MaxHeader
                                              ELSE w.head > MaxHeader

Verdict(w) == IF w.claim > MaxBody THEN 413 ELSE w.verdict

ParseHeadLong(p) ==                       \* mutant: one byte too many is consumed
    IF p.parsed \/ p.wire.head = 0 \/ p.buffer < p.wire.head THEN p
    ELSE [p EXCEPT !.parsed = TRUE, !.buffer = @ - p.wire.head - 1]
ParseHead(p) ==
    LET w == p.wire
    IN  IF p.parsed \/ w.head = 0 \/ p.buffer < w.head THEN p
        ELSE IF Verdict(w) # 0 THEN Refuse(p, Verdict(w))
        ELSE [p EXCEPT !.parsed = TRUE, !.buffer = @ - w.head]

Complete(p) == p.parsed /\ p.buffer >= p.wire.claim
Trailing(p) == p.buffer - p.wire.claim

ParserFeed(p, n) ==
    LET q == [p EXCEPT !.got = @ + n, !.buffer = @ + n]
        t == IF TooLong(q) THEN Refuse(q, 413) ELSE ParseHead(q)
    IN  IF Complete(t) /\ t.wire.broken THEN Refuse(t, 400) ELSE t

-----------------------------------------------------------------------------
(* What a complete request leads to, up to the next await.                 *)

Send(p, status) == [p EXCEPT !.pc = "sending", !.reply = status]

\* _dispatch_websocket.  WebSocketUnavailable is a choice of the environment.
UpgradeOutcomes(p) ==
    CASE p.wire.upgrade = "unknown" -> {Send(p, 404)}
      [] p.wire.upgrade = "invalid" \/ (p.wire.upgrade = "valid" /\ p.wire.claim > 0) ->
            {Send(p, 400)}
      [] OTHER -> IF Cardinality(Upgraded) >= MaxWebSockets
                  THEN {Send(p, 503)}
                  ELSE {Send(p, 503), [p EXCEPT !.pc = "upgrading"]}

\* dispatch(): which matches are late is a choice of the environment.
Dispatched(p, late) ==
    LET result == Resolve(table, p.wire.method, p.wire.path, late)
    IN  CASE result.kind = "handler" ->
                [p EXCEPT !.pc = "handling", !.handler = result.handler]
          [] result.kind = "none" -> Send(p, IF result.methods = {} THEN 404 ELSE 405)
          [] result.kind = "too large" -> Send(p, 414)
          [] result.kind = "late" -> [Send(p, 500) EXCEPT !.event = TRUE]

\* The whole of an iteration after recv() returned n bytes.
Outcomes(p) ==
    IF p.reply # None THEN {Send(p, p.reply)}
    ELSE IF ~Complete(p) THEN {IF mode = "closed" THEN Free ELSE p}
    ELSE IF p.wire.upgrade # "no" THEN UpgradeOutcomes(p)
    ELSE IF Trailing(p) > 0 THEN {Send(p, 400)}
    ELSE {Dispatched(p, late) : late \in SUBSET DOMAIN table.regex}

-----------------------------------------------------------------------------
Become(c, p) == conn' = [conn EXCEPT ![c] = p]

\* serve(): the application starts with what it has registered.  Registering
\* goes on while a server runs; those behaviours are left out.
Configure == mode = "setup" /\ Register /\ UNCHANGED <<http1, vars>>
Serve ==
    /\ mode = "setup" /\ log \in Served /\ mode' = "serving"
    /\ UNCHANGED <<conn, accepted_connections, timeouts, router, vars>>

\* The accept loop hands a stream to a new task.  (One that first runs after
\* the handle closed ends without a look at the stream: it is left out.)
Accept(c) ==
    /\ mode = "serving" /\ ~Busy(c) /\ accepted_connections < MaxServed
    /\ \E w \in Wire : Become(c, Start(w))
    /\ accepted_connections' = accepted_connections + 1
    /\ UNCHANGED <<mode, timeouts, router, vars>>

\* recv() returns between one byte and a chunk, cut anywhere.
Cuts(p) == {n \in 1..Chunk : n <= p.wire.size - p.got}

Receive(c) ==
    /\ conn[c].pc = "reading"
    /\ \E n \in Cuts(conn[c]) : \E p \in Outcomes(ParserFeed(conn[c], n)) :
          /\ Become(c, p)
          /\ timeouts' = timeouts + (IF p # Free /\ p.event THEN 1 ELSE 0)
    /\ UNCHANGED <<mode, accepted_connections, router, vars>>

\* The handler returns, or raises: 200 or 500.
HandlerReturns(c) ==
    /\ conn[c].pc = "handling"
    /\ \E status \in {200, 500} : Become(c, Send(conn[c], status))
    /\ UNCHANGED <<mode, accepted_connections, timeouts, router, vars>>

\* The WebSocket's reader starts with the trailing data of the request, and
\* goes on with what the peer sends.
Guarded(p, n) ==
    LET g == GuardFeed(p.guard, p.wire.frames, n)
    IN  [p EXCEPT !.guard = g, !.pc = IF g.failed THEN "refused" ELSE "websocket"]

ReaderStarts(c) ==
    /\ conn[c].pc = "upgrading"
    /\ Become(c, Guarded(conn[c], Trailing(conn[c])))
    /\ UNCHANGED <<mode, accepted_connections, timeouts, router, vars>>

ReaderReceives(c) ==
    /\ conn[c].pc = "websocket"
    /\ \E n \in Cuts(conn[c]) : Become(c, [Guarded(conn[c], n) EXCEPT !.got = @ + n])
    /\ UNCHANGED <<mode, accepted_connections, timeouts, router, vars>>

\* The finally clause: the event goes to the channel once, however the task
\* ends, and the connection is given back.
ReportOpen(p) ==                          \* mutant: not in a shutdown
    IF p.event /\ mode # "closed" THEN EnqueueFull \/ Enqueue \/ EnqueueUnsignalled
    ELSE UNCHANGED vars
Report(p) ==
    IF p.event THEN EnqueueFull \/ Enqueue \/ EnqueueUnsignalled ELSE UNCHANGED vars

\* The task ends: the response is sent or could not be, the peer closed or
\* reset the stream, the WebSocket is over, the handler raised an interrupt, or
\* the shutdown closed the stream or cancelled the task at its await.
Ends(c) ==
    /\ Busy(c)
    /\ Report(conn[c])
    /\ Become(c, Free)
    /\ UNCHANGED <<mode, accepted_connections, timeouts, router>>

\* A shutdown begins; its finalization stops the channel.
BeginClose ==
    /\ mode = "serving" /\ mode' = "closed"
    /\ UNCHANGED <<conn, accepted_connections, timeouts, router, vars>>

StopChannel == mode = "closed" /\ Stop /\ UNCHANGED <<http1, router>>
Observer ==
    /\ mode # "setup"
    /\ ObserverRuns \/ ObserverCancelled
    /\ UNCHANGED <<http1, router>>

HTTP1Init ==
    /\ Init /\ RouterInit
    /\ mode = "setup" /\ conn = [c \in Slot |-> Free]
    /\ accepted_connections = 0 /\ timeouts = 0

HTTP1Next ==
    \/ Configure \/ Serve \/ BeginClose \/ StopChannel \/ Observer
    \/ \E c \in Slot : \/ Accept(c) \/ Receive(c) \/ HandlerReturns(c) \/ Ends(c)
                       \/ ReaderStarts(c) \/ ReaderReceives(c)

(* SmallOS runs a ready task in its turn; nothing is assumed of peers and  *)
(* handlers.                                                               *)
HTTP1Spec ==
    /\ HTTP1Init /\ [][HTTP1Next]_allvars
    /\ WF_allvars(mode # "setup" /\ ObserverRuns /\ UNCHANGED <<http1, router>>)

-----------------------------------------------------------------------------
(* The types of the state.                                                 *)
Connection ==
    [pc : {"reading", "handling", "sending", "upgrading", "websocket", "refused"},
     wire : Wire, got : Nat, buffer : Nat, parsed : BOOLEAN, event : BOOLEAN,
     reply : {None, 200, 400, 404, 405, 413, 414, 500, 503},
     handler : Nat,
     guard : [at : Nat \ {0}, header : Nat, length : Nat, remaining : Nat, left : {0},
              collected : {0}, forwarded : Nat, failed : BOOLEAN]]

HTTP1TypeOK ==
    /\ mode \in {"setup", "serving", "closed"}
    /\ \A c \in Live : conn[c] \in Connection
    /\ accepted_connections \in 0..MaxServed /\ timeouts \in 0..accepted_connections

(* What the guide has a request answered with, over all that the peer      *)
(* sends and not over the chunks it arrives in.                            *)
HeadArrives(w) == w.head \in 1..w.size /\ w.head <= MaxHeader
Whole(w) == /\ HeadArrives(w) /\ w.verdict = 0 /\ w.claim <= MaxBody
            /\ w.head + w.claim <= w.size

Answers(w) ==
    IF ~HeadArrives(w) THEN IF w.size > MaxHeader THEN {413} ELSE {}
    ELSE IF w.verdict # 0 THEN {w.verdict}
    ELSE IF w.claim > MaxBody THEN {413}
    ELSE IF ~Whole(w) THEN {}
    ELSE IF w.broken THEN {400}
    ELSE CASE w.upgrade = "unknown" -> {404}
           [] w.upgrade = "invalid" \/ (w.upgrade = "valid" /\ w.claim > 0) -> {400}
           [] w.upgrade = "valid" /\ w.claim = 0 -> {503}
           [] w.upgrade = "no" ->
                LET routed == Promise(w.method, w.path)
                IN  (IF w.size > w.head + w.claim THEN {400} ELSE {})
                    \cup {500}     \* the handler raised, or a match was late
                    \cup CASE routed.kind = "handler" -> {200}
                           [] routed.kind = "too large" -> {414}
                           [] routed.kind = "none" ->
                                 {IF routed.methods = {} THEN 404 ELSE 405}

(* AnswersMatchRequest: where the network cuts the bytes decides nothing.  *)
(* The answer is the one the whole request calls for, a handler runs only  *)
(* once the whole request is there, it is the one the routes promise, and  *)
(* a request that is complete, or can no longer become valid, never leaves *)
(* both sides waiting for each other (server.py:51-84).                    *)
AnswersMatchRequest ==
    \A c \in Live :
        LET p == conn[c]
            w == p.wire
        IN  /\ p.reply # None => p.reply \in Answers(w)
            /\ p.pc = "handling" => /\ Whole(w) /\ p.got >= w.head + w.claim
                                    /\ Promise(w.method, w.path) = Found(p.handler)
            /\ p.pc = "reading" =>
                  /\ w.head > 0 /\ p.got >= w.head =>
                        HeadArrives(w) /\ w.verdict = 0 /\ w.claim <= MaxBody
                            /\ p.got < w.head + w.claim
                  /\ p.got <= MaxHeader \/ HeadArrives(w)

(* FramesSurviveUpgrade: every byte behind the request of an upgrade goes  *)
(* through the guard once and in order, whether it came with the request   *)
(* or later and wherever it was cut, and a refused frame ends the stream   *)
(* exactly when its header is complete (app.py:782-789, websocket.py:182). *)
FramesSurviveUpgrade ==
    \A c \in Live : LET p == conn[c] IN
        p.pc \in {"websocket", "refused"} =>
            /\ GuardHolds(p.guard, p.wire.frames, p.got - p.wire.head)
            /\ (p.pc = "refused") = p.guard.failed

(* RoutesAreSound: RoutingIsSound of module Router, for every sequence of  *)
(* registrations.  (The tables do not change once the server runs.)        *)
RoutesAreSound == mode = "setup" => RoutingIsSound

(* OneEventPerTimeout: every request that failed by a late match is        *)
(* accounted for exactly once, also when its 500 cannot be sent or its     *)
(* task is cancelled while it sends (app.py:804-817), when the queue is    *)
(* full, the observer cannot be signalled and the event is taken out       *)
(* again, or stop() empties the queue (server.py:186-213): it is reported  *)
(* by a task that has still to end, or was delivered, is queued, or is     *)
(* counted in dropped_route_error_events.                                  *)
OneEventPerTimeout ==
    timeouts = (Len(delivered) + Len(events) + dropped)
                 + Cardinality({c \in Live : conn[c].event})
=============================================================================
