----------------------- MODULE HTTP2Connection_proofs -----------------------
(***************************************************************************)
(* The safety properties of HTTP2Connection for every set of streams, both *)
(* timeouts and every bound.  The idle window needs the exact relation     *)
(* between the watchdog's counter of sleeps and the true silence of the    *)
(* peer (Silence), and that a verdict is only reached once (Judged).       *)
(***************************************************************************)
EXTENDS HTTP2Connection, TLAPS

(* How long the peer has been silent, seen from the watchdog's counter:    *)
(* before the first sleep not at all; a preface that arrives in a sleep of *)
(* the handshake is at most that sleep old; an idle watchdog that has seen *)
(* no activity counts every sleep but at most one, and the sleep that is   *)
(* over but not yet counted.                                               *)
Silence ==
    /\ watchdog \in {"none", "new"} => gap = 0 /\ ~asleep /\ elapsed = 0
    /\ watchdog = "handshake" /\ prefaced => gap <= IF asleep THEN 0 ELSE 1
    /\ watchdog = "handshake" => elapsed < HandshakeTimeout
    /\ watchdog = "idle" =>
         /\ elapsed < IdleTimeout
         /\ fresh => gap <= IF asleep THEN 0 ELSE 1
         /\ ~fresh => LET counted == IF asleep THEN elapsed ELSE elapsed + 1
                      IN  counted <= gap /\ gap <= counted + 1

(* Nothing runs beside the reader that still sends the server preface.     *)
Alone == reader = "start" => watchdog = "none" /\ output = 0 /\ handlers = {}

(* A verdict closes the stream, ends the watchdog, and stands.             *)
Judged == verdict # "none" => closed /\ watchdog = "done"

(* The flags of the type invariant, and the rest of it.                    *)
Flags ==
    /\ writerSig \in BOOLEAN /\ enforcerSig \in BOOLEAN /\ shutdown \in BOOLEAN
    /\ closing \in BOOLEAN /\ localClosed \in BOOLEAN /\ handleClosed \in BOOLEAN
    /\ closed \in BOOLEAN /\ prefaced \in BOOLEAN /\ fresh \in BOOLEAN
    /\ asleep \in BOOLEAN /\ refused \in BOOLEAN

Places ==
    /\ reader \in {"start", "recv", "goaway", "done"}
    /\ writer \in {"none", "wait", "send", "bye", "done"}
    /\ enforcer \in {"none", "wait", "yield", "done"}
    /\ watchdog \in {"none", "new", "handshake", "idle", "done"}
    /\ handlers \subseteq served /\ served \subseteq Stream
    /\ output \in 0..MaxOutput /\ input \in 0..MaxInput
    /\ elapsed \in Nat /\ (elapsed < HandshakeTimeout \/ elapsed < IdleTimeout)
    /\ age \in 0..HandshakeTimeout /\ gap \in 0..(IdleTimeout + 2)
    /\ verdict \in {"none", "handshake", "idle"}

Timing == Alone /\ Silence /\ Judged /\ IdleWindow /\ OutputWakesWriter

IInv == Flags /\ Places /\ Timing

LEMMA IInvInit == Init => IInv
<1> SUFFICES ASSUME Init PROVE IInv
  OBVIOUS
<1> USE ConnectionAssumption DEF ConnectionAssumption, Init
<1>1. Flags
  BY DEF Flags
<1>2. Places
  BY DEF Places
<1>3. Timing
  BY DEF Timing, Alone, Silence, Judged, IdleWindow, OutputWakesWriter
<1> QED
  BY <1>1, <1>2, <1>3 DEF IInv

(* The flags stay flags.                                                    *)
LEMMA FlagsKept ==
    ASSUME Flags, [Next]_vars
    PROVE  Flags'
<1> USE ConnectionAssumption
    DEF ConnectionAssumption, Flags, inputVars, timeVars
<1>1. CASE Receive
  BY <1>1 DEF Receive, ReaderLeaves, WriterWoken
<1>2. CASE ReaderEnds
  BY <1>2 DEF ReaderEnds, ReaderLeaves
<1>3. CASE ReaderFinishes
  BY <1>3 DEF ReaderFinishes, ConnectionFinished
<1>4. ASSUME NEW s \in Stream, Respond(s) PROVE Flags'
  BY <1>4 DEF Respond, WriterWoken
<1>5. CASE WriterWakes
  BY <1>5 DEF WriterWakes, FlushOrStop, FlushNext
<1>6. CASE WriterSent
  BY <1>6 DEF WriterSent, FlushOrStop, FlushNext
<1>7. CASE WriterCloses
  BY <1>7 DEF WriterCloses
<1>8. CASE WriterFails
  BY <1>8 DEF WriterFails
<1>9. CASE HandleCloses
  BY <1>9 DEF HandleCloses
<1>10. CASE RequestShutdown
  BY <1>10 DEF RequestShutdown, WriterWoken
<1>11. CASE EnforcerWakes
  BY <1>11 DEF EnforcerWakes
<1>12. CASE EnforcerCloses
  BY <1>12 DEF EnforcerCloses, EnforcerClosesStream
<1>13. CASE Tick
  BY <1>13 DEF Tick, Cap
<1>14. CASE WatchdogStarts
  BY <1>14 DEF WatchdogStarts, Watching, Enters, Sleep, Stop
<1>15. CASE WatchdogHandshake
  BY <1>15 DEF WatchdogHandshake, Watching, Enters, Sleep, Stop, TimedOut
<1>16. CASE WatchdogIdle
  BY <1>16 DEF WatchdogIdle, Watching, Sleep, Stop, TimedOut, SawActivity, IdleExpired
<1>17. CASE Starts
  BY <1>17 DEF Starts, ReaderLeaves
<1>18. CASE ShutdownAtStart
  BY <1>18 DEF ShutdownAtStart
<1>19. CASE UNCHANGED vars
  BY <1>19 DEF vars
<1> QED
  BY <1>1, <1>2, <1>3, <1>4, <1>5, <1>6, <1>7, <1>8, <1>9, <1>10, <1>11, <1>12,
     <1>13, <1>14, <1>15, <1>16, <1>17, <1>18, <1>19 DEF Next

(* The tasks stay in their loops, the counters within their bounds.         *)
LEMMA PlacesKept ==
    ASSUME Places, Timing, [Next]_vars
    PROVE  Places'
<1> USE ConnectionAssumption
    DEF ConnectionAssumption, Places, Timing, Alone, Silence, inputVars, timeVars
<1>1. CASE Receive
  BY <1>1 DEF Receive, ReaderLeaves, WriterWoken
<1>2. CASE ReaderEnds
  BY <1>2 DEF ReaderEnds, ReaderLeaves
<1>3. CASE ReaderFinishes
  BY <1>3 DEF ReaderFinishes, ConnectionFinished
<1>4. ASSUME NEW s \in Stream, Respond(s) PROVE Places'
  BY <1>4 DEF Respond, WriterWoken
<1>5. CASE WriterWakes
  BY <1>5 DEF WriterWakes, FlushOrStop, FlushNext
<1>6. CASE WriterSent
  BY <1>6 DEF WriterSent, FlushOrStop, FlushNext
<1>7. CASE WriterCloses
  BY <1>7 DEF WriterCloses
<1>8. CASE WriterFails
  BY <1>8 DEF WriterFails
<1>9. CASE HandleCloses
  BY <1>9 DEF HandleCloses
<1>10. CASE RequestShutdown
  BY <1>10 DEF RequestShutdown, WriterWoken
<1>11. CASE EnforcerWakes
  BY <1>11 DEF EnforcerWakes
<1>12. CASE EnforcerCloses
  BY <1>12 DEF EnforcerCloses, EnforcerClosesStream
<1>13. CASE Tick
  BY <1>13 DEF Tick, Cap
<1>14. CASE WatchdogStarts
  BY <1>14 DEF WatchdogStarts, Watching, Enters, Sleep, Stop
<1>15. CASE WatchdogHandshake
  BY <1>15 DEF WatchdogHandshake, Watching, Enters, Sleep, Stop, TimedOut
<1>16. CASE WatchdogIdle
  BY <1>16 DEF WatchdogIdle, Watching, Sleep, Stop, TimedOut, SawActivity, IdleExpired
<1>17. CASE Starts
  BY <1>17 DEF Starts, ReaderLeaves
<1>18. CASE ShutdownAtStart
  BY <1>18 DEF ShutdownAtStart
<1>19. CASE UNCHANGED vars
  BY <1>19 DEF vars
<1> QED
  BY <1>1, <1>2, <1>3, <1>4, <1>5, <1>6, <1>7, <1>8, <1>9, <1>10, <1>11, <1>12,
     <1>13, <1>14, <1>15, <1>16, <1>17, <1>18, <1>19 DEF Next

(* The watchdog's counter keeps to the peer's silence, and no output is    *)
(* left unsignalled but by a refused wake-up.                              *)
LEMMA TimingKept ==
    ASSUME Places, Timing, [Next]_vars
    PROVE  Timing'
<1> USE ConnectionAssumption
    DEF ConnectionAssumption, Places, Timing, Alone, Silence, Judged, IdleWindow,
        OutputWakesWriter, inputVars, timeVars
<1>1. CASE Receive
  <2>1. gap' = 0 /\ fresh' = TRUE /\ UNCHANGED <<verdict, asleep, elapsed>> /\ ~closed
    BY <1>1 DEF Receive
  <2>2. watchdog' \in {watchdog, "done"}
    BY <1>1 DEF Receive, ReaderLeaves
  <2>3. OutputWakesWriter'
    BY <1>1 DEF Receive, ReaderLeaves, WriterWoken
  <2>4. reader' # "start" /\ verdict = "none"
    BY <1>1, <2>1 DEF Receive, ReaderLeaves
  <2>5. (Alone /\ Silence)'
    BY <2>1, <2>2, <2>4
  <2>6. (Judged /\ IdleWindow)'
    BY <2>1, <2>2, <2>4
  <2> QED
    BY <2>3, <2>5, <2>6
<1>2. CASE ReaderEnds
  BY <1>2 DEF ReaderEnds, ReaderLeaves
<1>3. CASE ReaderFinishes
  BY <1>3 DEF ReaderFinishes, ConnectionFinished
<1>4. ASSUME NEW s \in Stream, Respond(s) PROVE Timing'
  <2>1. UNCHANGED <<reader, closed, prefaced, fresh, asleep, elapsed, gap, verdict, watchdog,
                    writer>>
    BY <1>4 DEF Respond
  <2>2. (Silence /\ Judged /\ IdleWindow)'
    BY <2>1
  <2>3. OutputWakesWriter'
    <3>1. CASE writerSig' = WriterWoken
      BY <2>1, <3>1 DEF WriterWoken
    <3>2. CASE refused' = TRUE
      BY <3>2
    <3>3. CASE UNCHANGED <<output, writerSig, refused>>
      BY <2>1, <3>3
    <3> QED
      BY <1>4, <3>1, <3>2, <3>3 DEF Respond
  <2>4. reader' # "start"
    BY <1>4 DEF Respond
  <2> QED
    BY <2>2, <2>3, <2>4
<1>5. CASE WriterWakes
  BY <1>5 DEF WriterWakes, FlushOrStop, FlushNext
<1>6. CASE WriterSent
  BY <1>6 DEF WriterSent, FlushOrStop, FlushNext
<1>7. CASE WriterCloses
  BY <1>7 DEF WriterCloses
<1>8. CASE WriterFails
  BY <1>8 DEF WriterFails
<1>9. CASE HandleCloses
  BY <1>9 DEF HandleCloses
<1>10. CASE RequestShutdown
  <2>1. /\ UNCHANGED <<reader, prefaced, fresh, asleep, elapsed, gap, verdict, watchdog>>
        /\ closed' = closed \/ closed' = TRUE
    BY <1>10 DEF RequestShutdown
  <2>2. (Silence /\ Judged /\ IdleWindow)'
    BY <2>1
  <2>3. OutputWakesWriter' /\ Alone'
    <3>1. UNCHANGED <<writer, output, refused>> /\ reader' # "start"
      BY <1>10 DEF RequestShutdown
    <3>2. CASE writerSig' = WriterWoken
      BY <3>1, <3>2 DEF WriterWoken
    <3>3. CASE UNCHANGED writerSig
      BY <3>1, <3>3
    <3> QED
      BY <1>10, <3>2, <3>3 DEF RequestShutdown
  <2> QED
    BY <2>2, <2>3
<1>11. CASE EnforcerWakes
  BY <1>11 DEF EnforcerWakes
<1>12. CASE EnforcerCloses
  BY <1>12 DEF EnforcerCloses, EnforcerClosesStream
<1>13. CASE Tick
  BY <1>13 DEF Tick, Cap
<1>14. CASE WatchdogStarts
  BY <1>14 DEF WatchdogStarts, Watching, Enters, Sleep, Stop
<1>15. CASE WatchdogHandshake
  BY <1>15 DEF WatchdogHandshake, Watching, Enters, Sleep, Stop, TimedOut
<1>16. CASE WatchdogIdle
  BY <1>16 DEF WatchdogIdle, Watching, Sleep, Stop, TimedOut, SawActivity, IdleExpired
<1>17. CASE Starts
  <2>1. /\ watchdog = "none" /\ UNCHANGED <<prefaced, asleep, elapsed, gap, verdict>>
        /\ reader' # "start" /\ watchdog' \in {"new", "done"}
    BY <1>17 DEF Starts, ReaderLeaves
  <2>2. verdict = "none" /\ gap = 0 /\ ~asleep /\ elapsed = 0
    BY <2>1
  <2>3. (Silence /\ Judged /\ IdleWindow)'
    BY <2>1, <2>2
  <2>4. (OutputWakesWriter /\ Alone)'
    <3>1. output' = 0 /\ reader' # "start"
      BY <1>17 DEF Starts, ReaderLeaves
    <3> QED
      BY <3>1
  <2> QED
    BY <2>3, <2>4
<1>18. CASE ShutdownAtStart
  BY <1>18 DEF ShutdownAtStart
<1>19. CASE UNCHANGED vars
  BY <1>19 DEF vars
<1> QED
  BY <1>1, <1>2, <1>3, <1>4, <1>5, <1>6, <1>7, <1>8, <1>9, <1>10, <1>11, <1>12,
     <1>13, <1>14, <1>15, <1>16, <1>17, <1>18, <1>19 DEF Next

LEMMA IInvNext == IInv /\ [Next]_vars => IInv'
BY FlagsKept, PlacesKept, TimingKept DEF IInv

LEMMA IInvHolds == Spec => []IInv
BY IInvInit, IInvNext, PTL DEF Spec

(* The state keeps its types (run http2_tasks).                            *)
THEOREM ConnectionTypeOK == Spec => []TypeOK
<1>1. IInv => TypeOK
  BY DEF IInv, Flags, Places, TypeOK
<1> QED
  BY <1>1, IInvHolds, PTL

(* The idle timer neither fires before IdleTimeout ticks of silence nor    *)
(* lets a prefaced connection outlive them by more than one sleep          *)
(* (app.py, the watchdog's loops).                                         *)
THEOREM IdleWindowHolds == Spec => []IdleWindow
<1>1. IInv => IdleWindow
  BY DEF IInv, Timing
<1> QED
  BY <1>1, IInvHolds, PTL

(* The writer never waits, unsignalled, with output left, unless it        *)
(* refused a wake-up since it last took one (app.py:78-82, 1015-1017).     *)
THEOREM OutputWakesWriterHolds == Spec => []OutputWakesWriter
<1>1. IInv => OutputWakesWriter
  BY DEF IInv, Timing
<1> QED
  BY <1>1, IInvHolds, PTL

(* A verdict of the watchdog is final: whatever arrives afterwards, the    *)
(* stream stays closed and no other timer overrules it.                    *)
THEOREM VerdictStands == Spec => [][verdict # "none" => verdict' = verdict /\ closed']_vars
<1>1. IInv /\ [Next]_vars => [verdict # "none" => verdict' = verdict /\ closed']_vars
  <2> SUFFICES ASSUME IInv, Next, verdict # "none" PROVE verdict' = verdict /\ closed'
    OBVIOUS
  <2>1. closed /\ watchdog = "done"
    BY DEF IInv, Timing, Judged
  <2>2. closed'
    BY <2>1 DEF Next, Starts, ShutdownAtStart, Receive, ReaderEnds, ReaderFinishes,
         Respond, WriterWakes, WriterSent, WriterCloses, WriterFails, HandleCloses, RequestShutdown, EnforcerWakes,
         EnforcerCloses, Tick, WatchdogStarts, WatchdogHandshake, WatchdogIdle,
         ReaderLeaves, ConnectionFinished, EnforcerClosesStream, timeVars
  <2>3. verdict' = verdict
    BY <2>1 DEF Next, Starts, ShutdownAtStart, Receive, ReaderEnds, ReaderFinishes,
         Respond, WriterWakes, WriterSent, WriterCloses, WriterFails, HandleCloses, RequestShutdown, EnforcerWakes,
         EnforcerCloses, Tick, WatchdogStarts, WatchdogHandshake, WatchdogIdle, timeVars
  <2> QED
    BY <2>2, <2>3
<1> QED
  BY <1>1, IInvHolds, PTL DEF Spec
=============================================================================
