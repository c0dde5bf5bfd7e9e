---------------------------- MODULE HTTP2Streams ----------------------------
(***************************************************************************)
(* H2Protocol (http2.py): the bounded stream state of one HTTP/2           *)
(* connection, as its reader, its request handlers and its writer          *)
(* (app.py) drive it.                                                      *)
(*                                                                         *)
(* hyper-h2 is external: it turns frames into the events below and keeps   *)
(* the wire state of a stream.  The reader takes a batch of frames in one  *)
(* synchronous stretch; handlers and writer run between batches.  Lengths  *)
(* are in units, header bytes and flow-control windows are choices.        *)
(***************************************************************************)
EXTENDS Integers, Sequences, FiniteSets, Functions

CONSTANTS
    NStreams,     \* bound: streams of a behaviour, opened in order
    MaxStreams,   \* max_concurrent_streams
    MaxBody,      \* max_body_bytes
    MaxBuffer,    \* max_connection_buffer_bytes
    MaxResponse,  \* max_response_body_bytes
    MaxOutput,    \* max_pending_output_bytes
    MaxControl,   \* max_control_output_bytes
    FrameSize     \* the peer's maximum frame size

ASSUME StreamsAssumption ==
    /\ {NStreams, MaxStreams, MaxBody, MaxBuffer, MaxResponse, MaxOutput,
        MaxControl, FrameSize} \subseteq Nat \ {0}
    /\ MaxBody <= MaxBuffer /\ MaxResponse <= MaxOutput /\ MaxControl <= MaxOutput

Stream == 1..NStreams
Unknown == -1                    \* no content-length header

VARIABLES
    h,         \* the tables of H2Protocol
    control,   \* len(_control_output)
    cancelled, \* _cancelled_streams
    last,      \* last_processed_stream_id
    handlers,  \* streams whose handler task exists
    wire,      \* hyper-h2: "idle", "open", "ended" (by the peer) or "closed"
    batch,     \* the reader is inside receive_data
    phase      \* "up", "failed" (an exception ends the connection), "closed"

vars == <<h, control, cancelled, last, handlers, wire, batch, phase>>

Init ==
    /\ h = [inbound |-> <<>>, active |-> {}, outbound |-> <<>>, commands |-> <<>>,
            buffered |-> 0, pending |-> 0, ready |-> {}]
    /\ control = 0 /\ cancelled = {} /\ last = 0 /\ handlers = {}
    /\ wire = [s \in Stream |-> "idle"]
    /\ batch = FALSE /\ phase = "up"

-----------------------------------------------------------------------------
(* Operations on the tables: p is H2Protocol, s a stream, S some streams.  *)

Without(f, S) == [t \in DOMAIN f \ S |-> f[t]]
With(f, s, v) == [t \in DOMAIN f \union {s} |-> IF t = s THEN v ELSE f[t]]

(* What is taken from a budget entry by entry, summed up.                  *)
Sum(f, n) ==
    LET upto[i \in 0..n] == IF i = 0 THEN 0 ELSE upto[i - 1] + f[i]
    IN  upto[n]
Total(f) == Sum(f, NStreams)
Of(f, S) == [s \in Stream |-> IF s \in S THEN f[s] ELSE 0]

(* Body bytes of the request of each stream.                               *)
Body(p) ==
    [s \in Stream |-> IF s \in DOMAIN p.inbound THEN p.inbound[s].len ELSE 0]

(* Bytes of the response of each stream: the rest of its body, or the      *)
(* response that waits for the writer.                                     *)
Rest(p, s) == IF s \in DOMAIN p.outbound THEN p.outbound[s] ELSE 0
Answers(c, S) == c.s \in S /\ c.op = "response"
Waiting(commands, s) ==
    Sum([i \in DOMAIN commands |-> IF Answers(commands[i], {s}) THEN commands[i].len ELSE 0],
        Len(commands))
Owed(p) == [s \in Stream |-> Rest(p, s) + Waiting(p.commands, s)]

(* _release_inbound                                                        *)
ReleaseForgets(p, S) == [p EXCEPT !.inbound = Without(@, S)]  \* mutant: budget kept
ReleaseInbound(p, S) ==
    [p EXCEPT !.inbound = Without(@, S), !.buffered = @ - Total(Of(Body(p), S))]

(* drop_stream: forget the request, the rest of the response, and a        *)
(* response that waits for the writer; a "reset" command stays.            *)
DropsNoCommand(commands, S) == commands   \* mutant: the command is left behind
KeptCommands(commands, S) ==
    LET kept[i \in 0..Len(commands)] ==
          IF i = 0 THEN <<>>
          ELSE IF Answers(commands[i], S) THEN kept[i - 1]
          ELSE Append(kept[i - 1], commands[i])
    IN  kept[Len(commands)]

Drop(p, S) ==
    [ReleaseInbound(p, S) EXCEPT
        !.ready = @ \ S, !.outbound = Without(@, S), !.active = @ \ S,
        !.commands = KeptCommands(@, S), !.pending = @ - Total(Of(Owed(p), S))]

(* _reset_stream                                                           *)
Reset(s) == h' = Drop(h, {s}) /\ wire' = [wire EXCEPT ![s] = "closed"]

-----------------------------------------------------------------------------
(* The reader: one action per hyper-h2 event of a batch, each followed by  *)
(* _capture_control_output of 0 or 1 units.                                *)

Reading == phase = "up" /\ batch' = TRUE
           /\ UNCHANGED <<handlers, phase>>

Fits(n, size, pending) == size + n <= MaxControl /\ size + n + pending <= MaxOutput

Capture == \E n \in {0, 1} : Fits(n, control, h'.pending) /\ control' = control + n

AdmitOneMore(p) == Cardinality(p.active) <= MaxStreams         \* mutant: off by one
MayOpen(p) == Cardinality(p.active) < MaxStreams

(* _request_received: refused at the limit, reset when malformed.          *)
RequestReceived(s) ==
    /\ Reading
    /\ wire[s] = "idle" /\ \A t \in 1..(s - 1) : wire[t] # "idle"
    /\ \/ Reset(s)
       \/ \E want \in {Unknown} \union 0..MaxBody :
            /\ MayOpen(h)
            /\ h' = [h EXCEPT !.active = @ \union {s},
                       !.inbound = With(@, s, [len |-> 0, want |-> want, whole |-> FALSE])]
            /\ wire' = [wire EXCEPT ![s] = "open"]
    /\ Capture
    /\ UNCHANGED <<cancelled, last>>

(* _data_received: the body grows, or breaks a limit and resets the stream.*)
OverBudget(p, s, n) ==
    \/ p.inbound[s].len + n > MaxBody
    \/ p.inbound[s].want # Unknown /\ p.inbound[s].len + n > p.inbound[s].want
    \/ p.buffered + n > MaxBuffer
OverOwnBudget(p, s, n) == p.inbound[s].len + n > MaxBody  \* mutant: connection budget

DataReceived(s) ==
    /\ Reading
    /\ wire[s] = "open"
    /\ \E n \in 1..MaxBody :
         IF OverBudget(h, s, n)
         THEN Reset(s)
         ELSE /\ h' = [h EXCEPT !.inbound[s].len = @ + n, !.buffered = @ + n]
              /\ UNCHANGED wire
    /\ Capture
    /\ UNCHANGED <<cancelled, last>>

(* _stream_ended: the request is complete, or shorter than announced.      *)
StreamEnded(s) ==
    /\ Reading
    /\ wire[s] = "open"
    /\ IF h.inbound[s].want \in {Unknown, h.inbound[s].len}
       THEN /\ h' = [h EXCEPT !.inbound[s].whole = TRUE, !.ready = @ \union {s}]
            /\ wire' = [wire EXCEPT ![s] = "ended"]
            /\ last' = IF s > last THEN s ELSE last
       ELSE Reset(s) /\ UNCHANGED last
    /\ Capture
    /\ UNCHANGED cancelled

(* The peer resets the stream, or sends trailers and is reset.             *)
StreamReset(s) ==
    /\ Reading
    /\ wire[s] \in {"open", "ended"}
    /\ Reset(s)
    /\ \/ cancelled' = cancelled \union {s}
       \/ wire[s] = "open" /\ UNCHANGED cancelled
    /\ Capture
    /\ UNCHANGED last

(* An event without a stream: WINDOW_UPDATE, SETTINGS, PING.               *)
OtherEvent ==
    /\ Reading
    /\ UNCHANGED <<h, cancelled, last, wire>>
    /\ Capture

(* receive_data raises: hyper-h2 found an error, or control output would   *)
(* not fit.                                                                *)
ReceiveFails ==
    /\ phase = "up"
    /\ phase' = "failed" /\ batch' = FALSE
    /\ UNCHANGED <<h, control, cancelled, last, handlers, wire>>

(* The batch ends with frames left over: nothing is handed out yet, but    *)
(* reset streams lose their handlers.                                      *)
NoneCancelled == {}                       \* mutant: handlers are not cancelled
CancelledHandlers == handlers \intersect cancelled

BatchPauses ==
    /\ batch /\ batch' = FALSE
    /\ cancelled' = {}
    /\ handlers' = handlers \ CancelledHandlers
    /\ h' = Drop(h, CancelledHandlers)
    /\ UNCHANGED <<control, last, wire, phase>>

(* It ends with all of them processed: completed requests get handlers.    *)
Dispatch(p, dead) == {s \in p.ready \ dead : s \in p.active}

BatchEnds ==
    /\ batch /\ batch' = FALSE
    /\ cancelled' = {}
    /\ handlers' = (handlers \ CancelledHandlers) \union Dispatch(h, cancelled)
    /\ h' = [Drop(h, CancelledHandlers) EXCEPT !.ready = {}]
    /\ UNCHANGED <<control, last, wire, phase>>

-----------------------------------------------------------------------------
(* A handler returns a response of n units: queue_response.                *)
OverTotal(p, n) == control + p.pending + n > MaxOutput  \* mutant: one limit of two
Over(p, n) == n > MaxResponse \/ control + p.pending + n > MaxOutput

Respond(s) ==
    /\ ~batch /\ s \in handlers
    /\ handlers' = handlers \ {s}
    /\ \E n \in 0..(MaxResponse + 1) :
         LET q == ReleaseInbound(h, {s})
             wants(op) == Append(q.commands, [op |-> op, s |-> s, len |-> n])
         IN  IF s \notin h.active
             THEN UNCHANGED <<h, wire>>
             ELSE IF Over(q, n)
             THEN /\ h' = [q EXCEPT !.commands =
                              IF \E c \in Range(q.commands) : c.s = s THEN @ ELSE wants("reset")]
                  /\ UNCHANGED wire
             ELSE IF Len(q.commands) >= 2 * MaxStreams
             THEN /\ h' = Drop(q, {s})
                  /\ wire' = [wire EXCEPT ![s] = "closed"]
             ELSE /\ h' = [q EXCEPT !.commands = wants("response"), !.pending = @ + n]
                  /\ UNCHANGED wire
    /\ UNCHANGED <<control, cancelled, last, batch, phase>>

(* A handler is cancelled, or queue_response raises, before its response   *)
(* counts as queued.                                                       *)
HandlerDies(s) ==
    /\ ~batch /\ s \in handlers
    /\ handlers' = handlers \ {s}
    /\ h' = Drop(h, {s})
    /\ UNCHANGED <<control, cancelled, last, wire, batch, phase>>

(* flush.  First half: a reset takes effect; a response gets its headers   *)
(* and becomes an outbound body.  Second half: a chunk of each body goes   *)
(* out, its last one ends the stream.  A stream in bad cannot have its     *)
(* headers sent, or is gone on the wire.  As no stream has two commands,   *)
(* nor one beside a body (OneResponse), the two loops treat every stream   *)
(* by itself.                                                              *)
CommandsTo(p, op) == {c.s : c \in {d \in Range(p.commands) : d.op = op}}
Sending(p) == DOMAIN p.outbound \union CommandsTo(p, "response")

Flushed(p, bad, chunk) ==
    LET dropped == CommandsTo(p, "reset") \union bad
        sent == Sending(p) \ dropped
        done == {s \in sent : chunk[s] = Owed(p)[s]}
    IN  [Drop(p, dropped) EXCEPT
            !.commands = <<>>, !.active = @ \ done, !.pending = @ - Total(Of(chunk, sent)),
            !.outbound = [s \in sent \ done |-> Owed(p)[s] - chunk[s]]]

Flush ==
    /\ ~batch /\ phase = "up"
    /\ \E bad \in SUBSET Sending(h), chunk \in [Sending(h) -> 0..FrameSize] :
         /\ \A s \in Sending(h) : chunk[s] <= Owed(h)[s]
         /\ h' = Flushed(h, bad, chunk)
    /\ wire' = [s \in Stream |-> IF s \in h.active \ h'.active THEN "closed" ELSE wire[s]]
    /\ control' = 0
    /\ UNCHANGED <<cancelled, last, handlers, batch, phase>>

(* flush raises: generated output would exceed its bound.                  *)
FlushFails ==
    /\ ~batch /\ phase = "up"
    /\ phase' = "failed"
    /\ h' = [h EXCEPT !.commands = <<>>]
    /\ UNCHANGED <<control, cancelled, last, handlers, wire, batch>>

(* close: the GOAWAY names the last stream a handler may have seen.        *)
Close ==
    /\ ~batch /\ phase # "closed"
    /\ phase' = "closed"
    /\ h' = [inbound |-> <<>>, active |-> {}, outbound |-> <<>>, commands |-> <<>>,
             buffered |-> 0, pending |-> 0, ready |-> {}]
    /\ control' = 0
    /\ UNCHANGED <<cancelled, last, handlers, wire, batch>>

Next ==
    \/ \E s \in Stream : \/ RequestReceived(s) \/ DataReceived(s) \/ StreamEnded(s)
                         \/ StreamReset(s) \/ Respond(s) \/ HandlerDies(s)
    \/ OtherEvent \/ ReceiveFails \/ BatchPauses \/ BatchEnds
    \/ Flush \/ FlushFails \/ Close

Spec == Init /\ [][Next]_vars

-----------------------------------------------------------------------------
(* The types of the state.                                                 *)
TypeOK ==
    /\ h.active \subseteq Stream /\ h.ready \subseteq Stream
    /\ DOMAIN h.inbound \subseteq Stream /\ DOMAIN h.outbound \subseteq Stream
    /\ \A s \in DOMAIN h.inbound :
         h.inbound[s] \in [len : 0..MaxBody, want : {Unknown} \union 0..MaxBody, whole : BOOLEAN]
    /\ \A s \in DOMAIN h.outbound : h.outbound[s] \in 1..MaxResponse
    /\ \A c \in Range(h.commands) :
         c \in [op : {"response", "reset"}, s : Stream, len : 0..(MaxResponse + 1)]
    /\ {h.buffered, h.pending, control} \subseteq Nat
    /\ cancelled \subseteq Stream /\ handlers \subseteq Stream /\ last \in Nat
    /\ wire \in [Stream -> {"idle", "open", "ended", "closed"}]
    /\ batch \in BOOLEAN /\ phase \in {"up", "failed", "closed"}

(* Both byte budgets are exact and kept: every request byte charged belongs *)
(* to a request that is still held, and every response byte to a response  *)
(* that waits or a body partly sent, so no reset, drop, failure or response *)
(* path leaks budget (which would refuse streams for ever) or frees it     *)
(* twice; with the control bytes the output stays within its limit.        *)
BudgetsAreExact ==
    /\ h.buffered = Total(Body(h)) /\ h.buffered <= MaxBuffer
    /\ phase = "up" => h.pending = Total(Owed(h)) /\ h.pending + control <= MaxOutput

(* A stream holds a slot exactly as long as it holds anything else: no     *)
(* request, response or handler-to-be outlives its slot, slots are limited,*)
(* and a slot without any of them has a handler or a reset on its way.     *)
SlotsMatch ==
    LET held == DOMAIN h.inbound \union DOMAIN h.outbound
                  \union {c.s : c \in {d \in Range(h.commands) : d.op = "response"}}
        owed == handlers \union {c.s : c \in Range(h.commands)}
    IN  /\ held \union h.ready \subseteq h.active
        /\ Cardinality(h.active) <= MaxStreams
        /\ phase = "up" => h.active \subseteq held \union owed

(* No stream gets two responses, nor a response after its reset: a stream  *)
(* with a body under way has no command, none has two.                     *)
OneResponse ==
    /\ \A s \in Stream :
         Cardinality({i \in DOMAIN h.commands : h.commands[i].s = s}) <= 1
    /\ \A c \in Range(h.commands) :
         c.s \notin DOMAIN h.outbound /\ (c.op = "response" => wire[c.s] = "ended")

(* Between batches a handler works on a complete request of a live stream: *)
(* none is left for a stream the peer reset, on whatever side of a batch   *)
(* boundary its frames fell, and a GOAWAY never disowns a request that a   *)
(* handler saw.                                                            *)
HandlersAreLive ==
    /\ phase = "up" /\ ~batch =>
         \A s \in handlers : s \in h.active /\ wire[s] = "ended" /\ h.inbound[s].whole
    /\ \A s \in handlers : s <= last
=============================================================================
