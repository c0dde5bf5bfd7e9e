----------------------------- MODULE FrameGuard -----------------------------
(***************************************************************************)
(* _FrameGuard (websocket.py): the bytes of a WebSocket client, cut into   *)
(* chunks anywhere, are forwarded to wsproto one frame header, or one run  *)
(* of payload bytes, at a time, and a refused frame not at all.            *)
(*                                                                         *)
(* A frame is a record [header, payload, refused]: the length its first    *)
(* two bytes give its header, the payload length the header declares, and  *)
(* whether the complete header is refused (unmasked, not minimal, a bad    *)
(* control frame, or over max_frame_payload_bytes).                        *)
(***************************************************************************)
EXTENDS Naturals, Sequences, FiniteSetsExt

CONSTANT ClientFrame  \* the frames a client may send

ASSUME GuardAssumption ==
    /\ ClientFrame \subseteq [header : Nat, payload : Nat, refused : BOOLEAN]
    /\ \A f \in ClientFrame : f.header >= 2

\* header, length and remaining: len(_header), _header_length (0 for None) and
\* _payload_remaining; at: the frame the next byte belongs to; left: what is
\* left of the chunk; collected: the bytes in chunks, forwarded: those returned.
NewGuard == [at |-> 1, header |-> 0, length |-> 0, remaining |-> 0,
             left |-> 0, collected |-> 0, forwarded |-> 0, failed |-> FALSE]

LeastOf(m, n) == IF m < n THEN m ELSE n

NextFrameStale(g) == [g EXCEPT !.at = @ + 1]   \* mutant: the old length is kept
NextFrame(g) == [g EXCEPT !.at = @ + 1, !.length = 0]

TakePayload(g) ==
    LET n == LeastOf(g.remaining, g.left)
        t == [g EXCEPT !.left = @ - n, !.remaining = @ - n, !.collected = @ + n]
    IN  IF t.remaining = 0 THEN NextFrame(t) ELSE t

\* Bytes of the header, up to the given length of it.
TakeHeader(g, length) ==
    LET n == LeastOf(length - g.header, g.left)
    IN  [g EXCEPT !.left = @ - n, !.header = @ + n]

\* The header is complete.
Judge(g, frame) ==
    IF frame.refused THEN [g EXCEPT !.failed = TRUE]
    ELSE LET t == [g EXCEPT !.collected = @ + g.header, !.header = 0,
                            !.remaining = frame.payload]
         IN  IF frame.payload = 0 THEN NextFrame(t) ELSE t

\* One turn of the loop of feed().
Turn(g, stream) ==
    IF g.remaining > 0 THEN TakePayload(g)
    ELSE LET first == IF g.length > 0 THEN g ELSE TakeHeader(g, 2)
             sized == IF first.header < 2 THEN first
                      ELSE [first EXCEPT !.length = IF @ > 0 THEN @ ELSE stream[g.at].header]
             whole == IF sized.length = 0 THEN sized ELSE TakeHeader(sized, sized.length)
         IN  IF whole.length = 0 \/ whole.header < whole.length THEN whole
             ELSE Judge(whole, stream[g.at])

TurnIfLeft(g, stream) == IF g.left = 0 \/ g.failed THEN g ELSE Turn(g, stream)

\* feed() of n bytes: every turn consumes one or more.  What it collected
\* before a refused frame is lost with the exception.
GuardFeed(g, stream, n) ==
    LET after[i \in 0..n] == IF i = 0 THEN [g EXCEPT !.left = n]
                                      ELSE TurnIfLeft(after[i - 1], stream)
        end == after[n]
    IN  [end EXCEPT !.forwarded = IF end.failed THEN @ ELSE @ + end.collected,
                    !.collected = 0, !.left = 0]

-----------------------------------------------------------------------------
Size(frame) == frame.header + frame.payload
Begin(stream, i) ==
    LET upto[j \in 0..(i - 1)] == IF j = 0 THEN 0 ELSE upto[j - 1] + Size(stream[j])
    IN  upto[i - 1]
HeaderEnd(stream, i) == Begin(stream, i) + stream[i].header

\* What a guard that was fed the first k bytes of a stream must have done: it
\* has forwarded all but the header it is in the middle of; it has refused the
\* stream if the whole header of a refused frame has come, and then it has not
\* forwarded a byte of that frame.
GuardHolds(g, stream, k) ==
    LET bad == {i \in DOMAIN stream : stream[i].refused /\ HeaderEnd(stream, i) <= k}
        open == {i \in DOMAIN stream : Begin(stream, i) <= k /\ k < HeaderEnd(stream, i)}
    IN  /\ g.failed = (bad # {})
        /\ IF g.failed THEN \A i \in bad : g.forwarded <= Begin(stream, i)
                       ELSE g.forwarded = (IF open = {} THEN k ELSE Begin(stream, Max(open)))
=============================================================================
