----------------------------- MODULE HTTP2Flush -----------------------------
(***************************************************************************)
(* H2Protocol.flush (http2.py) as the code has it, a loop over the         *)
(* commands and then one over the bodies under way, beside the closed form *)
(* Flushed that HTTP2Streams uses for it.  flush() takes the commands out  *)
(* before it works through them, so a failure on the way must give back    *)
(* what drop_stream no longer finds: each step here changes the budget     *)
(* where the code does.                                                    *)
(***************************************************************************)
EXTENDS HTTP2Streams

(* What becomes of a stream with something to send: all is well, or its    *)
(* headers, its window or its data make hyper-h2 raise.  Only a response   *)
(* sends headers, and only a body asks for the window.                     *)
Fates(p) ==
    {fate \in [Sending(p) -> {"ok", "headers", "body"}] :
        \A s \in Sending(p) : /\ fate[s] = "headers" => s \in CommandsTo(p, "response")
                              /\ fate[s] = "body" => Owed(p)[s] > 0}

Chunks(p) ==
    {chunk \in [Sending(p) -> 0..FrameSize] : \A s \in Sending(p) : chunk[s] <= Owed(p)[s]}

(* _start_response: headers that are too large or cannot be sent.          *)
HeadersFailUncharged(p, c) == Drop(p, {c.s})     \* mutant: the body stays charged
HeadersFail(p, c) == Drop([p EXCEPT !.pending = @ - c.len], {c.s})

Started(p, c, fate) ==
    CASE c.op = "reset" -> Drop(p, {c.s})
      [] c.op = "response" /\ fate[c.s] = "headers" -> HeadersFail(p, c)
      [] c.op = "response" /\ fate[c.s] # "headers" /\ c.len = 0 ->
            [p EXCEPT !.active = @ \ {c.s}]
      [] OTHER -> [p EXCEPT !.outbound = With(@, c.s, c.len)]

(* The second loop's body: the stream is gone, its window is closed, or a  *)
(* chunk of it goes out, which may be the last.                            *)
Sent(p, s, fate, n) ==
    CASE fate[s] = "body" -> Drop(p, {s})
      [] fate[s] # "body" /\ n < p.outbound[s] ->
            [p EXCEPT !.outbound[s] = @ - n, !.pending = @ - n]
      [] OTHER -> [p EXCEPT !.outbound = Without(@, {s}), !.pending = @ - n,
                            !.active = @ \ {s}]

(* The loops, over a snapshot of what is to do.                            *)
AllStarted(p, fate) ==
    LET upto[i \in 0..Len(p.commands)] ==
          IF i = 0 THEN [p EXCEPT !.commands = <<>>]
          ELSE Started(upto[i - 1], p.commands[i], fate)
    IN  upto[Len(p.commands)]

AllSent(p, fate, chunk) ==
    LET upto[s \in 0..NStreams] ==
          IF s = 0 THEN p
          ELSE IF s \in DOMAIN p.outbound THEN Sent(upto[s - 1], s, fate, chunk[s])
          ELSE upto[s - 1]
    IN  upto[NStreams]

(* In every state in which the writer may flush, for every stream that     *)
(* fails and every window, the two loops do what Flushed says: they charge *)
(* and give back each byte once (http2.py:562-614), although the responses *)
(* are out of the list when a later step drops their stream.               *)
FlushIsItsLoops ==
    ~batch /\ phase = "up" =>
        \A fate \in Fates(h), chunk \in Chunks(h) :
            AllSent(AllStarted(h, fate), fate, chunk)
              = Flushed(h, {s \in Sending(h) : fate[s] # "ok"}, chunk)
=============================================================================
