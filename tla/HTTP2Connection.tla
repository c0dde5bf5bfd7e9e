--------------------------- MODULE HTTP2Connection ---------------------------
(***************************************************************************)
(* The tasks of one HTTP/2 connection (app.py): the reader, which is the   *)
(* connection task, the single writer, the request handlers, the shutdown  *)
(* enforcer and the watchdog, with the signals between them, a peer that   *)
(* may stop reading at any byte, and the timers.                           *)
(*                                                                         *)
(* The protocol state is HTTP2Streams; here only the amount of output the  *)
(* writer could flush is kept.  A stretch of a task between two awaits is  *)
(* one action.  Forks and signals may fail.  One tick is the watchdog's    *)
(* sleep of at most one second; cancellations succeed (ServerLifecycle     *)
(* lets them fail).                                                        *)
(***************************************************************************)
EXTENDS Integers, FiniteSets

CONSTANTS
    Stream,           \* request streams; each gets at most one handler
    HandshakeTimeout, \* in ticks
    IdleTimeout,      \* in ticks
    MaxInput,         \* bound on chunks the peer sends
    MaxOutput         \* bound on payloads waiting for the writer

ASSUME ConnectionAssumption ==
    /\ HandshakeTimeout \in Nat \ {0} /\ IdleTimeout \in Nat \ {0}
    /\ MaxInput \in Nat \ {0} /\ MaxOutput \in Nat \ {0}

VARIABLES
    reader,     \* "start" (sending the server preface), "recv", "goaway"
                \* (sending it in "finally") or "done"
    writer,     \* "none" yet, "wait", "send", "bye" (sending GOAWAY) or "done"
    enforcer,   \* "none" (and no closer registered), "wait", "yield" or
                \* "done"
    watchdog,   \* "none" yet, "new", "handshake", "idle" or "done"
    handlers,   \* streams with a live handler task
    served,     \* streams that had one
    output,     \* payloads that flush() would still return
    writerSig, enforcerSig,   \* signals set on the tasks
    shutdown,   \* shutdown_requested
    closing,    \* state.closing
    localClosed,\* protocol.local_closed
    handleClosed, \* handle.closed
    closed,     \* the client stream is closed
    prefaced,   \* preface_received
    input,      \* chunks received
    fresh,      \* activity_epoch moved since the watchdog looked
    asleep, elapsed,  \* the watchdog's timer
    age, gap,   \* history: ticks since the start, since the last input
    verdict,    \* history: why the watchdog closed the stream
    refused     \* history: a wake-up failed since the writer last got one

vars == <<reader, writer, enforcer, watchdog, handlers, served, output,
          writerSig, enforcerSig, shutdown, closing, localClosed, handleClosed,
          closed, prefaced, input, fresh, asleep, elapsed, age, gap, verdict,
          refused>>
timeVars == <<asleep, elapsed, age, gap, verdict, watchdog>>
inputVars == <<prefaced, input, fresh, served>>

(* The connection task begins: it sends the server preface.                *)
Init ==
    /\ reader = "start" /\ writer = "none" /\ enforcer = "none" /\ watchdog = "none"
    /\ handlers = {} /\ served = {} /\ output = 0
    /\ writerSig = FALSE /\ enforcerSig = FALSE
    /\ shutdown = FALSE /\ closing = FALSE /\ localClosed = FALSE
    /\ handleClosed = FALSE /\ closed = FALSE
    /\ prefaced = FALSE /\ input = 0 /\ fresh = FALSE
    /\ asleep = FALSE /\ elapsed = 0 /\ age = 0 /\ gap = 0 /\ verdict = "none"
    /\ refused = FALSE

-----------------------------------------------------------------------------
(* The reader's "finally": stop everybody, then say GOAWAY unless the      *)
(* writer did or the stream is closed, then _connection_finished.          *)
ReaderLeaves ==
    /\ closing' = TRUE /\ handlers' = {}
    /\ writer' = "done" /\ watchdog' = "done"
    /\ enforcer' = (IF enforcer = "none" THEN "none" ELSE "done")
    /\ localClosed' = TRUE
    /\ IF localClosed \/ closed
       THEN reader' = "done" /\ closed' = TRUE
       ELSE reader' = "goaway" /\ UNCHANGED closed

(* The preface is sent: the children are forked, and the reader goes on to *)
(* receive unless the handle was closed meanwhile.  A send or a fork that  *)
(* fails takes it to its "finally".                                        *)
Starts ==
    /\ reader = "start"
    /\ \/ /\ ~closed /\ ~handleClosed
          /\ reader' = "recv" /\ writer' = "wait" /\ enforcer' = "wait" /\ watchdog' = "new"
          /\ UNCHANGED <<handlers, closing, localClosed, closed>>
       \/ ReaderLeaves
    /\ UNCHANGED <<output, writerSig, enforcerSig, shutdown, handleClosed,
                   inputVars, asleep, elapsed, age, gap, verdict, refused>>

(* wake_writer, when the writer accepts the signal, and when it refuses:   *)
(* then wake_writer raises.                                                *)
WriterWoken == writerSig \/ writer # "done"
MayRefuse(task) == task # "done"

(* A chunk arrives: it may complete the preface, complete and cancel       *)
(* requests and produce control output.  A protocol error, a handler that  *)
(* cannot be forked and a writer that cannot be woken end the reader.      *)
Receive ==
    /\ reader = "recv" /\ ~closed
    /\ input < MaxInput /\ input' = input + 1
    /\ fresh' = TRUE /\ gap' = 0
    /\ prefaced' \in {prefaced, TRUE}
    /\ \/ \E begun \in SUBSET (Stream \ served), dead \in SUBSET handlers :
            /\ ~prefaced' => begun = {}
            /\ handlers' = (handlers \ dead) \union begun
            /\ served' = served \union begun
            /\ output' \in {output, output + 1} /\ output' <= MaxOutput
            /\ writerSig' = WriterWoken
            /\ ~handleClosed
            /\ UNCHANGED <<reader, writer, enforcer, watchdog, closing, localClosed, closed>>
       \/ ReaderLeaves /\ UNCHANGED <<served, output, writerSig>>
    /\ UNCHANGED <<enforcerSig, shutdown, handleClosed, asleep, elapsed, age, verdict, refused>>

(* The peer ends its side, the read fails, or the stream was closed here.  *)
ReaderEnds ==
    /\ reader = "recv"
    /\ ReaderLeaves
    /\ UNCHANGED <<output, writerSig, enforcerSig, shutdown, handleClosed,
                   inputVars, asleep, elapsed, age, gap, verdict, refused>>

(* The peer takes the GOAWAY, or the write fails: _connection_finished.    *)
FinishedOpen == UNCHANGED closed          \* mutant: the stream is not closed
ConnectionFinished == closed' = TRUE

ReaderFinishes ==
    /\ reader = "goaway"
    /\ reader' = "done" /\ ConnectionFinished
    /\ UNCHANGED <<writer, enforcer, handlers, output, writerSig, enforcerSig,
                   shutdown, closing, localClosed, handleClosed, inputVars, timeVars, refused>>

-----------------------------------------------------------------------------
(* A handler hands its response to the protocol, which may have no use for *)
(* it, and wakes the writer.  A refused wake-up ends the handler with its  *)
(* response queued; a handler that dies before leaves none.                *)
Respond(s) ==
    /\ s \in handlers
    /\ handlers' = handlers \ {s}
    /\ \/ /\ output' \in {output, output + (IF localClosed THEN 0 ELSE 1)}
          /\ output' <= MaxOutput
          /\ \/ writerSig' = WriterWoken /\ UNCHANGED refused
             \/ MayRefuse(writer) /\ refused' = TRUE /\ UNCHANGED writerSig
       \/ UNCHANGED <<output, writerSig, refused>>
    /\ UNCHANGED <<reader, writer, enforcer, enforcerSig, shutdown, closing,
                   localClosed, handleClosed, closed, inputVars, timeVars>>

-----------------------------------------------------------------------------
(* The writer: after a signal it says GOAWAY in a shutdown, or flushes     *)
(* until nothing is left to send.                                          *)
FlushOnce ==                              \* mutant: one flush per signal
    IF writer = "wait" /\ output > 0
    THEN writer' = "send" /\ output' \in 0..(output - 1)
    ELSE writer' = "wait" /\ UNCHANGED output
FlushNext ==
    IF output > 0
    THEN writer' = "send" /\ output' \in 0..(output - 1)
    ELSE writer' = "wait" /\ UNCHANGED output
FlushOrStop == IF closing THEN writer' = "done" /\ UNCHANGED output ELSE FlushNext

WriterWakes ==
    /\ writer = "wait" /\ writerSig
    /\ writerSig' = FALSE /\ refused' = FALSE
    /\ IF shutdown
       THEN /\ writer' = "bye" /\ closing' = TRUE
            /\ localClosed' = TRUE /\ output' = 0
       ELSE /\ FlushOrStop
            /\ UNCHANGED <<closing, localClosed>>
    /\ UNCHANGED <<reader, enforcer, handlers, enforcerSig, shutdown,
                   handleClosed, closed, inputVars, timeVars>>

(* The kernel took all of a payload; until then the writer waits in "send". *)
WriterSent ==
    /\ writer = "send" /\ ~closed
    /\ FlushOrStop
    /\ UNCHANGED <<reader, enforcer, handlers, writerSig, enforcerSig, shutdown,
                   closing, localClosed, handleClosed, closed, inputVars, timeVars, refused>>

(* The GOAWAY is out: _force_connection_close.                             *)
WriterCloses ==
    /\ writer = "bye"
    /\ writer' = "done" /\ closed' = TRUE
    /\ UNCHANGED <<reader, enforcer, handlers, output, writerSig, enforcerSig,
                   shutdown, closing, localClosed, handleClosed, inputVars, timeVars, refused>>

(* A write fails, always so once the stream is closed.                     *)
WriterFails ==
    /\ writer \in {"send", "bye"}
    /\ writer' = "done" /\ closing' = TRUE /\ closed' = TRUE
    /\ UNCHANGED <<reader, enforcer, handlers, output, writerSig, enforcerSig,
                   shutdown, localClosed, handleClosed, inputVars, timeVars, refused>>

-----------------------------------------------------------------------------
(* close() on another thread only sets the flag.                           *)
HandleCloses ==
    /\ ~handleClosed /\ handleClosed' = TRUE
    /\ UNCHANGED <<reader, writer, enforcer, handlers, output, writerSig,
                   enforcerSig, shutdown, closing, localClosed, closed, inputVars, timeVars, refused>>

(* _finish_close calls the graceful closer: request_shutdown.  It stays    *)
(* registered until _connection_finished.  When a signal is refused the    *)
(* closer raises, and _finish_close closes the stream itself.              *)
RequestShutdown ==
    /\ ~shutdown /\ reader \in {"recv", "goaway"} /\ enforcer # "none" /\ ~closed
    /\ shutdown' = TRUE /\ handleClosed' = TRUE
    /\ \/ /\ writerSig' = WriterWoken /\ enforcerSig' = (enforcer # "done")
          /\ UNCHANGED closed
       \/ /\ MayRefuse(writer) /\ UNCHANGED <<writerSig, enforcerSig>>
          /\ closed' = TRUE
       \/ /\ MayRefuse(enforcer) /\ writerSig' = WriterWoken /\ UNCHANGED enforcerSig
          /\ closed' = TRUE
    /\ UNCHANGED <<reader, writer, enforcer, handlers, output, closing,
                   localClosed, inputVars, timeVars, refused>>

(* Where the closer is not registered, before the children were forked or  *)
(* after that failed, _finish_close closes the stream.                     *)
ShutdownAtStart ==
    /\ reader # "done" /\ enforcer = "none" /\ ~closed
    /\ handleClosed' = TRUE /\ closed' = TRUE
    /\ UNCHANGED <<reader, writer, enforcer, handlers, output, writerSig, enforcerSig,
                   shutdown, closing, localClosed, inputVars, timeVars, refused>>

EnforcerWakes ==
    /\ enforcer = "wait" /\ enforcerSig
    /\ enforcer' = "yield"
    /\ UNCHANGED <<reader, writer, handlers, output, writerSig, enforcerSig,
                   shutdown, closing, localClosed, handleClosed, closed, inputVars, timeVars, refused>>

EnforcerOnlyMarks == UNCHANGED closed     \* mutant: the stream is left open
EnforcerClosesStream == closed' = TRUE

EnforcerCloses ==
    /\ enforcer = "yield"
    /\ enforcer' = "done"
    /\ closing' = (closing \/ ~closed)
    /\ EnforcerClosesStream
    /\ UNCHANGED <<reader, writer, handlers, output, writerSig, enforcerSig,
                   shutdown, localClosed, handleClosed, inputVars, timeVars, refused>>

-----------------------------------------------------------------------------
(* Time passes for a sleeping watchdog.                                    *)
Cap(n, most) == IF n > most THEN most ELSE n

Tick ==
    /\ asleep /\ asleep' = FALSE
    /\ age' = Cap(age + 1, HandshakeTimeout)
    /\ gap' = Cap(gap + 1, IdleTimeout + 2)
    /\ UNCHANGED <<reader, writer, enforcer, watchdog, handlers, output,
                   writerSig, enforcerSig, shutdown, closing, localClosed,
                   handleClosed, closed, inputVars, elapsed, verdict, refused>>

Watching == UNCHANGED <<reader, writer, enforcer, handlers, output, writerSig,
                        enforcerSig, shutdown, localClosed, handleClosed, prefaced,
                        input, served, age, gap, refused>>

Sleep(n) == asleep' = TRUE /\ elapsed' = n /\ UNCHANGED <<closing, closed, verdict>>
Stop == /\ watchdog' = "done" /\ asleep' = FALSE
        /\ UNCHANGED <<closing, closed, elapsed, fresh, verdict>>
TimedOutQuietly(why) ==                   \* mutant: the close is forgotten
    /\ watchdog' = "done" /\ asleep' = FALSE /\ elapsed' = 0
    /\ closing' = TRUE /\ UNCHANGED closed /\ verdict' = why
    /\ UNCHANGED fresh
TimedOut(why) ==
    /\ watchdog' = "done" /\ asleep' = FALSE /\ elapsed' = 0
    /\ closing' = TRUE /\ closed' = TRUE /\ verdict' = why
    /\ UNCHANGED fresh

(* The loop heads: still in the handshake, or idle from here on.           *)
Enters(n) ==
    IF closing THEN Stop
    ELSE IF ~prefaced
    THEN watchdog' = "handshake" /\ Sleep(n) /\ UNCHANGED fresh
    ELSE watchdog' = "idle" /\ Sleep(0) /\ fresh' = FALSE

WatchdogStarts == watchdog = "new" /\ Enters(0) /\ Watching

(* The sleep ended; the elapsed time is tested, and only then the preface. *)
WatchdogHandshake ==
    /\ watchdog = "handshake" /\ ~asleep
    /\ IF elapsed + 1 >= HandshakeTimeout THEN TimedOut("handshake") ELSE Enters(elapsed + 1)
    /\ Watching

IdleLate(n) == n > IdleTimeout            \* mutant: one sleep too many
IdleExpired(n) == n >= IdleTimeout
ElapsedAnyway == FALSE                    \* mutant: activity is not looked at
SawActivity == fresh

WatchdogIdle ==
    /\ watchdog = "idle" /\ ~asleep
    /\ IF ~SawActivity /\ IdleExpired(elapsed + 1) THEN TimedOut("idle")
       ELSE IF closing THEN Stop
       ELSE /\ Sleep(IF SawActivity THEN 0 ELSE elapsed + 1)
            /\ fresh' = FALSE /\ UNCHANGED watchdog
    /\ Watching

Next ==
    \/ Starts \/ Receive \/ ReaderEnds \/ ReaderFinishes
    \/ \E s \in Stream : Respond(s)
    \/ WriterWakes \/ WriterSent \/ WriterCloses \/ WriterFails
    \/ HandleCloses \/ RequestShutdown \/ ShutdownAtStart
    \/ EnforcerWakes \/ EnforcerCloses
    \/ Tick \/ WatchdogStarts \/ WatchdogHandshake \/ WatchdogIdle

Spec == Init /\ [][Next]_vars

(* The scheduler runs every ready task and every timer; a task that waits  *)
(* for a stream that was closed under it is woken by an error.  The peer   *)
(* need not read, write or end its side, nor handlers return.              *)
FairSpec ==
    /\ Spec
    /\ WF_vars(WriterWakes) /\ WF_vars(closed /\ WriterFails)
    /\ WF_vars(closed /\ Starts) /\ WF_vars(closed /\ ReaderEnds)
    /\ WF_vars(closed /\ ReaderFinishes)
    /\ WF_vars(EnforcerWakes) /\ WF_vars(EnforcerCloses)
    /\ WF_vars(Tick) /\ WF_vars(WatchdogStarts)
    /\ WF_vars(WatchdogHandshake) /\ WF_vars(WatchdogIdle)

(* A peer that goes on reading.                                            *)
PeerReads ==
    WF_vars(WriterSent) /\ WF_vars(WriterCloses) /\ WF_vars(ReaderFinishes)

-----------------------------------------------------------------------------
(* The types of the state.                                                 *)
TypeOK ==
    /\ reader \in {"start", "recv", "goaway", "done"}
    /\ writer \in {"none", "wait", "send", "bye", "done"}
    /\ enforcer \in {"none", "wait", "yield", "done"}
    /\ watchdog \in {"none", "new", "handshake", "idle", "done"}
    /\ handlers \subseteq served /\ served \subseteq Stream
    /\ output \in 0..MaxOutput /\ input \in 0..MaxInput
    /\ elapsed \in Nat /\ (elapsed < HandshakeTimeout \/ elapsed < IdleTimeout)
    /\ age \in 0..HandshakeTimeout /\ gap \in 0..(IdleTimeout + 2)
    /\ verdict \in {"none", "handshake", "idle"}
    /\ writerSig \in BOOLEAN /\ enforcerSig \in BOOLEAN /\ shutdown \in BOOLEAN
    /\ closing \in BOOLEAN /\ localClosed \in BOOLEAN /\ handleClosed \in BOOLEAN
    /\ closed \in BOOLEAN /\ prefaced \in BOOLEAN /\ fresh \in BOOLEAN
    /\ asleep \in BOOLEAN /\ refused \in BOOLEAN

(* The idle timer is exact to one sleep: a connection is closed as idle    *)
(* only after IdleTimeout ticks without input, and input that arrives      *)
(* while the watchdog sleeps is never overlooked; a prefaced connection    *)
(* survives at most one tick more than that (http2.md:40).                 *)
IdleWindow ==
    /\ verdict = "idle" => gap >= IdleTimeout
    /\ watchdog = "idle" => gap <= IdleTimeout + 1

(* No wake-up of the writer is lost: it never waits for a signal with      *)
(* output left and no signal set, wherever in its loop it was when a       *)
(* handler or the reader queued some, unless it refused a wake-up since it *)
(* last took one.  (The idle timer would end such a connection, so         *)
(* liveness would not show it.)                                            *)
OutputWakesWriter == writer = "wait" /\ output > 0 => writerSig \/ refused

(* A connection whose peer falls silent, before or after the preface, ends *)
(* by one timer or the other, what a refused wake-up stranded included.    *)
(* (Input is bounded: every peer falls silent.)                            *)
SilentEnds == reader = "recv" ~> (closed \/ reader # "recv")

(* A shutdown request closes the stream, whatever the peer does, as long   *)
(* as the reader has not already gone into its own GOAWAY.                 *)
ShutdownIsEnforced == (shutdown /\ reader = "recv") ~> (closed \/ reader = "goaway")

(* http2.md:51: a lower-priority task force-closes the stream "so shutdown *)
(* remains bounded".                                                       *)
ShutdownIsBounded == shutdown ~> closed

(* It does for every peer that goes on reading.                            *)
ShutdownIsBoundedIfRead == PeerReads => (shutdown ~> closed)

=============================================================================
