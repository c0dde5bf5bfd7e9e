------------------------- MODULE WebSocketConn_proofs -------------------------
(***************************************************************************)
(* The proofs about WebSocketConn.                                         *)
(*                                                                         *)
(* The model writes every method of _WebSocketState as an operator from    *)
(* state to state, so the invariant is a predicate of a state, Sound, and  *)
(* the proof follows the calls: a lemma for each method says what it keeps *)
(* and what it leaves alone (Like), and the lemma of a step composes those *)
(* of the methods the step calls.                                          *)
(*                                                                         *)
(* Core holds at every point of every method: the types, a success only    *)
(* after the flush (Flushes), a pending acknowledgement only with its      *)
(* command (Serves).  The rest of Sound holds between steps:               *)
(*   Writing  the writer holds a command exactly while it is sending it,   *)
(*            and so nothing but its finally clause acknowledges it;       *)
(*   Awake    a parked task whose condition holds has its signal;          *)
(*   Waits    only callers that are parked have an acknowledgement, which  *)
(*            is why a cancelled caller leaves none behind;                *)
(*   Replies  nobody has begun a response while the handshake is pending;  *)
(*   Places   which tasks there are in which state of the handshake: the   *)
(*            deadline and the handler do not both send a refusal, and     *)
(*            writer and reader serve an accepted connection only.         *)
(***************************************************************************)
EXTENDS WebSocketConn, WellFoundedInduction, TLAPS

-----------------------------------------------------------------------------
(* States as the methods of _WebSocketState see them. *)

Flags  == {"shutdown", "peer_closed", "close_sent", "disconnect", "handler_error",
           "ping", "close_deadline"}
Plain  == Flags \cup {"handshake_state", "protocol", "inbox", "signals", "replies"}
Fields == Plain \cup {"outbox", "active_command", "ack", "flushed"}

IsAck(v) == v = [w \in Waiters |-> v[w]]
IsState(s) ==
    /\ s = [ws |-> s.ws, pc |-> s.pc]
    /\ s.ws = [f \in Fields |-> s.ws[f]]
    /\ IsAck(s.ws.ack)
    /\ s.pc = [t \in Tasks |-> s.pc[t]]

\* t is s but for the fields F and the tasks T.
Like(t, s, F, T) ==
    /\ IsState(t)
    /\ \A f \in Fields \ F : t.ws[f] = s.ws[f]
    /\ \A u \in Tasks \ T : t.pc[u] = s.pc[u]

Put(s, f, v) == [s EXCEPT !.ws[f] = v]

LEMMA PutLike ==
    ASSUME NEW s, IsState(s), NEW f \in Fields, NEW v, f = "ack" => IsAck(v)
    PROVE  Like(Put(s, f, v), s, {f}, {}) /\ Put(s, f, v).ws[f] = v
BY DEF IsState, Put, Fields, Plain, Flags, Like, IsAck

LEMMA SetLike ==
    ASSUME NEW s, IsState(s), NEW t \in Tasks, NEW label
    PROVE  Like(Set(s, t, label), s, {}, {t}) /\ Set(s, t, label).pc[t] = label
BY DEF IsState, Set, Like

LEMMA LikeAgain ==
    ASSUME NEW s, NEW t, NEW u, NEW F, NEW G, NEW T, NEW U,
           Like(t, s, F, T), Like(u, t, G, U)
    PROVE  Like(u, s, F \cup G, T \cup U)
BY DEF Like

-----------------------------------------------------------------------------
(* What holds in the middle of every method. *)

States    == Undecided \cup {"accepted", "rejected", "failed"}
Protocols == {"none", "open", "local_closing", "remote_closing", "closed"}
Signals   == {"decision", "inbox", "outbox"}
Acks      == {"none", "pending", "ok", "error"}

Fits(f, v) ==
    /\ f \in Flags => v \in BOOLEAN
    /\ f = "handshake_state" => v \in States
    /\ f = "protocol" => v \in Protocols
    /\ f = "inbox" => v \in 0..MaxInbox
    /\ f = "signals" => v \in SUBSET Signals
    /\ f = "replies" => v \in 0..1

Typed(s) ==
    /\ IsState(s)
    /\ \A f \in Plain : Fits(f, s.ws[f])
    /\ s.ws.outbox \in Seq(Command) /\ Len(s.ws.outbox) <= MaxOutbox
    /\ s.ws.active_command \in Command \cup {Idle}
    /\ s.ws.flushed \subseteq Waiters
    /\ \A w \in Waiters : s.ws.ack[w] \in Acks

Flushes(s) == \A w \in Waiters : s.ws.ack[w] = "ok" => w \in s.ws.flushed

Owned(s, w) == \/ s.ws.active_command.waiter = w
               \/ \E i \in DOMAIN s.ws.outbox : s.ws.outbox[i].waiter = w
Serves(s) == \A w \in Waiters \ {"nobody"} : s.ws.ack[w] = "pending" => Owned(s, w)

Core(s) == Typed(s) /\ Flushes(s) /\ Serves(s)

\* Like SetCore and PutCore: what a method keeps follows from what it leaves alone.
LEMMA PutCore ==
    ASSUME NEW s, Core(s), NEW f \in Plain, NEW v, Fits(f, v)
    PROVE  Core(Put(s, f, v)) /\ Like(Put(s, f, v), s, {f}, {}) /\ Put(s, f, v).ws[f] = v
<1> DEFINE t == Put(s, f, v)
<1>1. Like(t, s, {f}, {}) /\ t.ws[f] = v
  <2>1. IsState(s) /\ f \in Fields /\ f # "ack"
    BY DEF Core, Typed, Fields, Plain, Flags
  <2> QED
    BY <2>1, PutLike
<1> HIDE DEF t
<1>2. \A g \in {"outbox", "active_command", "ack", "flushed"} : t.ws[g] = s.ws[g]
  BY <1>1 DEF Like, Fields, Plain, Flags
<1>3. \A g \in Plain : Fits(g, t.ws[g])
  <2> TAKE g \in Plain
  <2>1. CASE g = f
    BY <2>1, <1>1
  <2>2. CASE g # f
    <3>1. t.ws[g] = s.ws[g]
      BY <2>2, <1>1 DEF Like, Fields
    <3> QED
      BY <3>1 DEF Core, Typed
  <2> QED
    BY <2>1, <2>2
<1>4. Typed(t)
  BY <1>1, <1>2, <1>3 DEF Core, Typed, Like
<1>5. Flushes(t) /\ Serves(t)
  BY <1>2 DEF Core, Flushes, Serves, Owned
<1> QED
  BY <1>1, <1>4, <1>5 DEF Core, t

LEMMA SetCore ==
    ASSUME NEW s, Core(s), NEW u \in Tasks, NEW label
    PROVE  /\ Core(Set(s, u, label)) /\ Like(Set(s, u, label), s, {}, {u})
           /\ Set(s, u, label).pc[u] = label
<1> DEFINE t == Set(s, u, label)
<1>0. IsState(s)
  BY DEF Core, Typed
<1>1. Like(t, s, {}, {u}) /\ t.pc[u] = label
  BY <1>0, SetLike
<1> HIDE DEF t
<1>2. \A g \in Fields : t.ws[g] = s.ws[g]
  BY <1>1 DEF Like
<1>3. Typed(t)
  <2>1. \A g \in Plain : t.ws[g] = s.ws[g]
    BY <1>2 DEF Fields
  <2>2. \A g \in {"outbox", "active_command", "ack", "flushed"} : t.ws[g] = s.ws[g]
    BY <1>2 DEF Fields
  <2> QED
    BY <1>1, <2>1, <2>2 DEF Core, Typed, Like
<1>4. Flushes(t) /\ Serves(t)
  BY <1>2 DEF Core, Flushes, Serves, Owned, Fields
<1> QED
  BY <1>1, <1>3, <1>4 DEF Core, t

\* The other fields: the commands and who waits for them.
LEMMA PutOutbox ==
    ASSUME NEW s, Core(s), NEW v \in Seq(Command), Len(v) <= MaxOutbox,
           \A w \in Waiters \ {"nobody"} : s.ws.ack[w] = "pending" =>
               \/ s.ws.active_command.waiter = w
               \/ \E i \in DOMAIN v : v[i].waiter = w
    PROVE  /\ Core(Put(s, "outbox", v)) /\ Like(Put(s, "outbox", v), s, {"outbox"}, {})
           /\ Put(s, "outbox", v).ws.outbox = v
<1> DEFINE t == Put(s, "outbox", v)
<1>0. IsState(s)
  BY DEF Core, Typed
<1>1. Like(t, s, {"outbox"}, {}) /\ t.ws.outbox = v
  BY <1>0, PutLike DEF Fields
<1> HIDE DEF t
<1>2. /\ \A g \in Plain : t.ws[g] = s.ws[g]
      /\ \A g \in {"active_command", "ack", "flushed"} : t.ws[g] = s.ws[g]
  BY <1>1 DEF Like, Fields, Plain, Flags
<1>3. Typed(t)
  BY <1>1, <1>2 DEF Core, Typed, Like
<1>4. Flushes(t) /\ Serves(t)
  BY <1>1, <1>2 DEF Core, Flushes, Serves, Owned
<1> QED
  BY <1>1, <1>3, <1>4 DEF Core, t

LEMMA PutAck ==
    ASSUME NEW s, Core(s), NEW v, IsAck(v), \A w \in Waiters : v[w] \in Acks,
           \A w \in Waiters : v[w] = "ok" => w \in s.ws.flushed,
           \A w \in Waiters \ {"nobody"} : v[w] = "pending" => Owned(s, w)
    PROVE  /\ Core(Put(s, "ack", v)) /\ Like(Put(s, "ack", v), s, {"ack"}, {})
           /\ Put(s, "ack", v).ws.ack = v
<1> DEFINE t == Put(s, "ack", v)
<1>0. IsState(s)
  BY DEF Core, Typed
<1>1. Like(t, s, {"ack"}, {}) /\ t.ws.ack = v
  BY <1>0, PutLike DEF Fields
<1> HIDE DEF t
<1>2. /\ \A g \in Plain : t.ws[g] = s.ws[g]
      /\ \A g \in {"active_command", "outbox", "flushed"} : t.ws[g] = s.ws[g]
  BY <1>1 DEF Like, Fields, Plain, Flags
<1>3. Typed(t)
  BY <1>1, <1>2 DEF Core, Typed, Like
<1>4. Flushes(t) /\ Serves(t)
  BY <1>1, <1>2 DEF Core, Flushes, Serves, Owned
<1> QED
  BY <1>1, <1>3, <1>4 DEF Core, t

LEMMA PutFlushed ==
    ASSUME NEW s, Core(s), NEW v \in SUBSET Waiters,
           \A w \in Waiters : s.ws.ack[w] = "ok" => w \in v
    PROVE  /\ Core(Put(s, "flushed", v)) /\ Like(Put(s, "flushed", v), s, {"flushed"}, {})
           /\ Put(s, "flushed", v).ws.flushed = v
<1> DEFINE t == Put(s, "flushed", v)
<1>0. IsState(s)
  BY DEF Core, Typed
<1>1. Like(t, s, {"flushed"}, {}) /\ t.ws.flushed = v
  BY <1>0, PutLike DEF Fields
<1> HIDE DEF t
<1>2. /\ \A g \in Plain : t.ws[g] = s.ws[g]
      /\ \A g \in {"active_command", "outbox", "ack"} : t.ws[g] = s.ws[g]
  BY <1>1 DEF Like, Fields, Plain, Flags
<1>3. Typed(t)
  BY <1>1, <1>2 DEF Core, Typed, Like
<1>4. Flushes(t) /\ Serves(t)
  BY <1>1, <1>2 DEF Core, Flushes, Serves, Owned
<1> QED
  BY <1>1, <1>3, <1>4 DEF Core, t

LEMMA PutActive ==
    ASSUME NEW s, Core(s), NEW c \in Command \cup {Idle},
           \A w \in Waiters \ {"nobody"} : s.ws.ack[w] = "pending" =>
               c.waiter = w \/ \E i \in DOMAIN s.ws.outbox : s.ws.outbox[i].waiter = w
    PROVE  LET t == Put(s, "active_command", c) IN
           Core(t) /\ Like(t, s, {"active_command"}, {}) /\ t.ws.active_command = c
<1> DEFINE t == Put(s, "active_command", c)
<1>0. IsState(s)
  BY DEF Core, Typed
<1>1. Like(t, s, {"active_command"}, {}) /\ t.ws.active_command = c
  BY <1>0, PutLike DEF Fields
<1> HIDE DEF t
<1>2. /\ \A g \in Plain : t.ws[g] = s.ws[g]
      /\ \A g \in {"outbox", "ack", "flushed"} : t.ws[g] = s.ws[g]
  BY <1>1 DEF Like, Fields, Plain, Flags
<1>3. Typed(t)
  BY <1>1, <1>2 DEF Core, Typed, Like
<1>4. Flushes(t) /\ Serves(t)
  BY <1>1, <1>2 DEF Core, Flushes, Serves, Owned
<1> QED
  BY <1>1, <1>3, <1>4 DEF Core, t

\* The order in which two fields are set does not matter.
LEMMA PutSwap ==
    ASSUME NEW s, IsState(s), NEW f \in Fields, NEW g \in Fields, f # g, NEW v, NEW w
    PROVE  Put(Put(s, f, v), g, w) = Put(Put(s, g, w), f, v)
<1>1. Put(Put(s, f, v), g, w) = [s EXCEPT !.ws = [@ EXCEPT ![f] = v, ![g] = w]]
  BY DEF Put, IsState
<1>2. Put(Put(s, g, w), f, v) = [s EXCEPT !.ws = [@ EXCEPT ![g] = w, ![f] = v]]
  BY DEF Put, IsState
<1>3. [s.ws EXCEPT ![f] = v, ![g] = w] = [s.ws EXCEPT ![g] = w, ![f] = v]
  BY DEF IsState
<1> QED
  BY <1>1, <1>2, <1>3

-----------------------------------------------------------------------------
(* Whoever is parked has its signal latched. *)

HandlerAwake(s) ==
    s.pc.handler = "receiving" /\ (s.ws.inbox > 0 \/ s.ws.disconnect) => "inbox" \in s.ws.signals
WriterAwake(s) ==
    s.pc.writer = "waiting" /\ (s.ws.outbox # <<>> \/ s.ws.shutdown) => "outbox" \in s.ws.signals
CoordinatorAwake(s) ==
    s.pc.coordinator = "deciding" /\ ~Deciding(s) => "decision" \in s.ws.signals

\* A method that wakes whomever it gives something to do.
Wakes(s, t) == /\ HandlerAwake(s) => HandlerAwake(t)
               /\ WriterAwake(s) => WriterAwake(t)
               /\ CoordinatorAwake(s) => CoordinatorAwake(t)

-----------------------------------------------------------------------------
(* The methods of _WebSocketState. *)

LEMMA SignalCore ==
    ASSUME NEW s, Core(s), NEW sig \in Signals
    PROVE  LET t == Signal(s, sig) IN
           /\ Core(t) /\ Wakes(s, t) /\ Like(t, s, {"signals"}, {})
           /\ t.ws.signals = s.ws.signals \cup {sig}
<1> DEFINE v == s.ws.signals \cup {sig}
           t == Signal(s, sig)
<1>1. t = Put(s, "signals", v)
  BY DEF Signal, Put
<1>2. Fits("signals", v)
  BY DEF Core, Typed, Fits, Plain, Signals, Flags
<1> HIDE DEF t, v
<1>3. Core(t) /\ Like(t, s, {"signals"}, {}) /\ t.ws.signals = v
  BY <1>1, <1>2, PutCore DEF Plain
<1>4. s.ws.signals \subseteq t.ws.signals
  BY <1>3 DEF v
<1>5. Wakes(s, t)
  BY <1>3, <1>4 DEF Wakes, HandlerAwake, WriterAwake, CoordinatorAwake, Like, Fields, Plain,
                    Flags, Tasks, Deciding
<1> QED
  BY <1>3, <1>5 DEF t, v

LEMMA DisconnectCore ==
    ASSUME NEW s, Core(s)
    PROVE  LET t == Disconnect(s) IN
           /\ Core(t) /\ Wakes(s, t) /\ Like(t, s, {"disconnect", "signals"}, {})
           /\ t.ws.disconnect = TRUE
           /\ s.ws.signals \subseteq t.ws.signals /\ {"inbox", "decision"} \subseteq t.ws.signals
<1> DEFINE yes == TRUE
           a == Put(s, "disconnect", yes)
           b == Signal(a, "inbox")
           t == Signal(b, "decision")
<1>0. Disconnect(s) = t
  BY DEF Disconnect, Put
<1>1. Fits("disconnect", yes)
  BY DEF Fits, Flags
<1> HIDE DEF yes
<1>2. Core(a) /\ Like(a, s, {"disconnect"}, {}) /\ a.ws.disconnect = yes
  BY <1>1, PutCore DEF Plain, Flags
<1> HIDE DEF a
<1>3. Core(b) /\ Like(b, a, {"signals"}, {}) /\ b.ws.signals = a.ws.signals \cup {"inbox"}
  BY <1>2, SignalCore DEF Signals
<1> HIDE DEF b
<1>4. Core(t) /\ Like(t, b, {"signals"}, {}) /\ t.ws.signals = b.ws.signals \cup {"decision"}
  BY <1>3, SignalCore DEF Signals
<1> HIDE DEF t
<1>5. Like(t, s, {"disconnect", "signals"}, {})
  BY <1>2, <1>3, <1>4 DEF Like
<1>6. t.ws.disconnect = yes /\ a.ws.signals = s.ws.signals
  BY <1>2, <1>3, <1>4 DEF Like, Fields, Plain, Flags
<1>7. s.ws.signals \subseteq t.ws.signals /\ {"inbox", "decision"} \subseteq t.ws.signals
  BY <1>3, <1>4, <1>6
<1>8. Wakes(s, t)
  BY <1>5, <1>7 DEF Wakes, HandlerAwake, WriterAwake, CoordinatorAwake, Like, Fields, Plain,
                    Flags, Tasks
<1> QED
  BY <1>0, <1>4, <1>5, <1>6, <1>7, <1>8 DEF yes

LEMMA FailHandshakeCore ==
    ASSUME NEW s, Core(s)
    PROVE  LET t == FailHandshake(s) IN
           /\ Core(t) /\ Wakes(s, t)
           /\ Like(t, s, {"handshake_state", "protocol", "disconnect", "signals"}, {})
           /\ t.ws.handshake_state = "failed"
<1>1. CASE s.ws.handshake_state = "failed"
  <2>1. FailHandshake(s) = s
    BY <1>1 DEF FailHandshake
  <2>2. Like(s, s, {"handshake_state", "protocol", "disconnect", "signals"}, {}) /\ Wakes(s, s)
    BY DEF Core, Typed, Like, Wakes
  <2> QED
    BY <1>1, <2>1, <2>2
<1>2. CASE s.ws.handshake_state # "failed"
  <2> DEFINE a == Put(s, "handshake_state", "failed")
             b == Put(a, "protocol", "none")
             t == Disconnect(b)
  <2>0. FailHandshake(s) = t
    BY <1>2 DEF FailHandshake, Put
  <2>1. Fits("handshake_state", "failed") /\ Fits("protocol", "none")
    BY DEF Fits, Flags, States, Protocols
  <2>2. Core(a) /\ Like(a, s, {"handshake_state"}, {}) /\ a.ws.handshake_state = "failed"
    BY <2>1, PutCore DEF Plain
  <2> HIDE DEF a
  <2>3. Core(b) /\ Like(b, a, {"protocol"}, {})
    BY <2>1, <2>2, PutCore DEF Plain
  <2> HIDE DEF b
  <2>4. /\ Core(t) /\ Like(t, b, {"disconnect", "signals"}, {})
        /\ b.ws.signals \subseteq t.ws.signals /\ {"inbox", "decision"} \subseteq t.ws.signals
    BY <2>3, DisconnectCore
  <2> HIDE DEF t
  <2>5. /\ Like(t, s, {"handshake_state", "protocol", "disconnect", "signals"}, {})
        /\ t.ws.handshake_state = "failed" /\ b.ws.signals = s.ws.signals
    BY <2>2, <2>3, <2>4 DEF Like, Fields, Plain, Flags
  <2>6. Wakes(s, t)
    BY <2>4, <2>5 DEF Wakes, HandlerAwake, WriterAwake, CoordinatorAwake, Like, Fields, Plain,
                      Flags, Tasks
  <2> QED
    BY <2>0, <2>4, <2>5, <2>6
<1> QED
  BY <1>1, <1>2

\* EndAll leaves nothing undecided.
LEMMA EndAllCore ==
    ASSUME NEW s, Core(s)
    PROVE  LET t == EndAll(s) IN
           /\ Core(t) /\ Wakes(s, t)
           /\ Like(t, s, {"handshake_state", "protocol", "disconnect", "signals"}, {})
           /\ ~Deciding(t)
           /\ s.ws.handshake_state = "accepted" => t.ws.handshake_state = "accepted"
           /\ t.ws.handshake_state \in {s.ws.handshake_state, "failed"}
<1> DEFINE t == EndAll(s)
<1>1. CASE Deciding(s)
  <2>1. t = FailHandshake(s) /\ s.ws.handshake_state # "accepted"
    BY <1>1 DEF EndAll, Deciding, Undecided
  <2>2. t.ws.handshake_state = "failed" => ~Deciding(t)
    BY DEF Deciding, Undecided
  <2> QED
    BY <2>1, <2>2, FailHandshakeCore
<1>2. CASE ~Deciding(s)
  <2>1. t = Disconnect(s)
    BY <1>2 DEF EndAll
  <2>2. Core(t) /\ Wakes(s, t) /\ Like(t, s, {"disconnect", "signals"}, {})
    BY <2>1, DisconnectCore
  <2> HIDE DEF t
  <2>3. /\ Like(t, s, {"handshake_state", "protocol", "disconnect", "signals"}, {})
        /\ t.ws.handshake_state = s.ws.handshake_state
    BY <2>2 DEF Like, Fields, Plain, Flags
  <2> QED
    BY <1>2, <2>2, <2>3 DEF Deciding, t
<1> QED
  BY <1>1, <1>2

-----------------------------------------------------------------------------
(* The commands, their waiters, and the tasks that are cancelled. *)

\* Who may be waiting for an acknowledgement.
Waits(s) ==
    /\ s.ws.ack["nobody"] = "none"
    /\ s.ws.ack["handler"] # "none" => s.pc.handler \in {"sending", "pinging", "closing"}
    /\ s.ws.ack["coordinator"] # "none" => s.pc.coordinator = "closing"

LEMMA QueueCore ==
    ASSUME NEW s, Core(s), ~Full(s), NEW event \in Events, NEW waiter \in Waiters
    PROVE  LET t == Queue(s, event, waiter) IN
           /\ Core(t) /\ Wakes(s, t) /\ Like(t, s, {"outbox", "signals"}, {})
           /\ Owned(t, waiter)
<1> DEFINE c == [event |-> event, waiter |-> waiter]
           v == Append(s.ws.outbox, c)
           a == Put(s, "outbox", v)
           t == Queue(s, event, waiter)
<1>1. t = IF s.pc.writer = "unspawned" THEN a ELSE Signal(a, "outbox")
  BY DEF Queue, Put
<1>2. s.ws.outbox \in Seq(Command) /\ Len(s.ws.outbox) < MaxOutbox
  BY WebSocketAssumption DEF Core, Typed, Full
<1>3. c \in Command /\ c.waiter = waiter
  BY DEF Command
<1> HIDE DEF c
<1>4. /\ v \in Seq(Command) /\ Len(v) = Len(s.ws.outbox) + 1
      /\ \A i \in DOMAIN s.ws.outbox : i \in DOMAIN v /\ v[i] = s.ws.outbox[i]
      /\ Len(v) \in DOMAIN v /\ v[Len(v)] = c
  BY <1>2, <1>3
<1>5. Len(v) <= MaxOutbox /\ v # <<>>
  BY <1>2, <1>4, WebSocketAssumption
<1> HIDE DEF v
<1>6. Core(a) /\ Like(a, s, {"outbox"}, {}) /\ a.ws.outbox = v
  <2>1. \A w \in Waiters \ {"nobody"} : s.ws.ack[w] = "pending" =>
            s.ws.active_command.waiter = w \/ \E i \in DOMAIN v : v[i].waiter = w
    BY <1>4 DEF Core, Serves, Owned
  <2> QED
    BY <1>4, <1>5, <2>1, PutOutbox
<1> HIDE DEF a, t
<1>7. /\ Core(t) /\ Like(t, a, {"signals"}, {}) /\ Wakes(a, t)
      /\ t.pc.writer = "unspawned" \/ "outbox" \in t.ws.signals
  <2>1. CASE s.pc.writer = "unspawned"
    <3>1. t = a /\ Like(a, a, {"signals"}, {}) /\ Wakes(a, a)
      BY <1>1, <1>6, <2>1 DEF Like, Wakes
    <3>2. a.pc.writer = "unspawned"
      BY <1>6, <2>1 DEF Like, Tasks
    <3> QED
      BY <1>6, <3>1, <3>2
  <2>2. CASE s.pc.writer # "unspawned"
    <3>1. t = Signal(a, "outbox")
      BY <1>1, <2>2
    <3> QED
      BY <1>6, <3>1, SignalCore DEF Signals
  <2> QED
    BY <2>1, <2>2
<1>8. Like(t, s, {"outbox", "signals"}, {}) /\ t.ws.outbox = v
  BY <1>6, <1>7 DEF Like, Fields, Plain, Flags
<1>9. Owned(t, waiter)
  BY <1>3, <1>4, <1>8 DEF Owned
<1>10. Wakes(s, t)
  <2>1. HandlerAwake(s) => HandlerAwake(a)
    BY <1>6 DEF HandlerAwake, Like, Fields, Plain, Flags, Tasks
  <2>2. CoordinatorAwake(s) => CoordinatorAwake(a)
    BY <1>6 DEF CoordinatorAwake, Like, Fields, Plain, Flags, Tasks, Deciding
  <2>3. WriterAwake(t)
    BY <1>7 DEF WriterAwake
  <2> QED
    BY <1>7, <2>1, <2>2, <2>3 DEF Wakes
<1> QED
  BY <1>7, <1>8, <1>9, <1>10 DEF t

LEMMA EnqueueControlCore ==
    ASSUME NEW s, Core(s), NEW event \in Events
    PROVE  LET t == EnqueueControl(s, event) IN
           Core(t) /\ Wakes(s, t) /\ Like(t, s, {"outbox", "signals"}, {})
<1>1. CASE Full(s)
  BY <1>1 DEF EnqueueControl, Core, Typed, Like, Wakes
<1>2. CASE ~Full(s)
  BY <1>2, QueueCore DEF EnqueueControl, Waiters
<1> QED
  BY <1>1, <1>2

LEMMA EnqueueAndWaitCore ==
    ASSUME NEW s, Core(s), ~Full(s), NEW event \in Events, NEW waiter \in Waiters
    PROVE  LET t == EnqueueAndWait(s, event, waiter) IN
           /\ Core(t) /\ Wakes(s, t)
           /\ Like(t, s, {"outbox", "signals", "ack", "flushed"}, {})
           /\ \A w \in Waiters \ {waiter} : t.ws.ack[w] = s.ws.ack[w]
<1> DEFINE q == Queue(s, event, waiter)
           v == [q.ws.ack EXCEPT ![waiter] = "pending"]
           a == Put(q, "ack", v)
           f == q.ws.flushed \ {waiter}
           t == Put(a, "flushed", f)
<1>0. EnqueueAndWait(s, event, waiter) = t
  BY DEF EnqueueAndWait, Put
<1>1. Core(q) /\ Wakes(s, q) /\ Like(q, s, {"outbox", "signals"}, {}) /\ Owned(q, waiter)
  BY QueueCore
<1> HIDE DEF q
<1>2. /\ IsAck(v) /\ v[waiter] = "pending"
      /\ \A w \in Waiters \ {waiter} : v[w] = q.ws.ack[w]
  <2>1. IsAck(q.ws.ack)
    BY <1>1 DEF Core, Typed, IsState
  <2> QED
    BY <2>1 DEF IsAck
<1> HIDE DEF v
<1>3. Core(a) /\ Like(a, q, {"ack"}, {}) /\ a.ws.ack = v
  <2>1. /\ \A w \in Waiters : v[w] \in Acks
        /\ \A w \in Waiters : v[w] = "ok" => w \in q.ws.flushed
    BY <1>1, <1>2 DEF Core, Typed, Flushes, Acks
  <2>2. \A w \in Waiters \ {"nobody"} : v[w] = "pending" => Owned(q, w)
    BY <1>1, <1>2 DEF Core, Serves
  <2> QED
    BY <1>1, <1>2, <2>1, <2>2, PutAck
<1> HIDE DEF a
<1>4. Core(t) /\ Like(t, a, {"flushed"}, {})
  <2>1. a.ws.flushed = q.ws.flushed
    BY <1>3 DEF Like, Fields
  <2>2. f \in SUBSET Waiters /\ \A w \in Waiters : a.ws.ack[w] = "ok" => w \in f
    BY <1>2, <1>3, <2>1 DEF Core, Typed, Flushes
  <2> QED
    BY <1>3, <2>2, PutFlushed
<1> HIDE DEF t
<1>5. /\ Like(t, q, {"ack", "flushed"}, {}) /\ t.ws.ack = v
      /\ q.ws.ack = s.ws.ack
  BY <1>1, <1>3, <1>4 DEF Like, Fields
<1>6. Like(t, s, {"outbox", "signals", "ack", "flushed"}, {})
  BY <1>1, <1>5 DEF Like
<1>7. Wakes(q, t)
  BY <1>5 DEF Wakes, HandlerAwake, WriterAwake, CoordinatorAwake, Like, Fields, Plain, Flags,
              Tasks, Deciding
<1> QED
  BY <1>0, <1>1, <1>2, <1>4, <1>5, <1>6, <1>7 DEF Wakes

\* A result reaches those who still wait for it.
LEMMA AcknowledgeCore ==
    ASSUME NEW s, Core(s), NEW W, NEW result \in {"ok", "error"},
           \A w \in Waiters : w \in W /\ s.ws.ack[w] = "pending" /\ result = "ok"
                                 => w \in s.ws.flushed
    PROVE  LET t == Acknowledge(s, W, result) IN
           /\ Core(t) /\ Wakes(s, t) /\ Like(t, s, {"ack"}, {})
           /\ \A w \in Waiters : t.ws.ack[w] =
                 IF w \in W /\ s.ws.ack[w] = "pending" THEN result ELSE s.ws.ack[w]
           /\ Waits(s) => Waits(t)
<1> DEFINE v == [w \in Waiters |->
                    IF w \in W /\ s.ws.ack[w] = "pending" THEN result ELSE s.ws.ack[w]]
           t == Put(s, "ack", v)
<1>0. Acknowledge(s, W, result) = t
  BY DEF Acknowledge, Put
<1>1. /\ IsAck(v)
      /\ \A w \in Waiters : v[w] =
            IF w \in W /\ s.ws.ack[w] = "pending" THEN result ELSE s.ws.ack[w]
  BY DEF IsAck
<1> HIDE DEF v
<1>2. Core(t) /\ Like(t, s, {"ack"}, {}) /\ t.ws.ack = v
  <2>1. /\ \A w \in Waiters : v[w] \in Acks
        /\ \A w \in Waiters : v[w] = "ok" => w \in s.ws.flushed
    BY <1>1 DEF Core, Typed, Flushes, Acks
  <2>2. \A w \in Waiters \ {"nobody"} : v[w] = "pending" => Owned(s, w)
    BY <1>1 DEF Core, Serves
  <2> QED
    BY <1>1, <2>1, <2>2, PutAck
<1> HIDE DEF t
<1>3. Wakes(s, t)
  BY <1>2 DEF Wakes, HandlerAwake, WriterAwake, CoordinatorAwake, Like, Fields, Plain, Flags,
              Tasks, Deciding
<1>4. Waits(s) => Waits(t)
  BY <1>1, <1>2 DEF Waits, Like, Tasks, Waiters
<1> QED
  BY <1>0, <1>1, <1>2, <1>3, <1>4

\* FailOutbound tells every waiter before it forgets the commands.
LEMMA FailOutboundCore ==
    ASSUME NEW s, Core(s)
    PROVE  LET t == FailOutbound(s) IN
           /\ Core(t) /\ Wakes(s, t) /\ Like(t, s, {"ack", "outbox"}, {})
           /\ \A w \in Waiters \ {"nobody"} : t.ws.ack[w] # "pending"
           /\ Waits(s) => Waits(t)
<1> DEFINE W == {s.ws.outbox[i].waiter : i \in DOMAIN s.ws.outbox}
                    \cup {s.ws.active_command.waiter}
           a == Acknowledge(s, W, "error")
           none == <<>>
           t == Put(a, "outbox", none)
<1>0. FailOutbound(s) = t
  BY DEF FailOutbound, Put
<1>1. \A w \in Waiters \ {"nobody"} : s.ws.ack[w] = "pending" => w \in W
  BY DEF Core, Serves, Owned
<1> HIDE DEF W
<1>2. /\ Core(a) /\ Wakes(s, a) /\ Like(a, s, {"ack"}, {})
      /\ Waits(s) => Waits(a)
      /\ \A w \in Waiters : a.ws.ack[w] =
            IF w \in W /\ s.ws.ack[w] = "pending" THEN "error" ELSE s.ws.ack[w]
  BY AcknowledgeCore
<1> HIDE DEF a
<1>3. \A w \in Waiters \ {"nobody"} : a.ws.ack[w] # "pending"
  BY <1>1, <1>2
<1>4. Core(t) /\ Like(t, a, {"outbox"}, {}) /\ t.ws.outbox = <<>>
  <2>1. none \in Seq(Command) /\ Len(none) <= MaxOutbox /\ none = <<>>
    BY WebSocketAssumption
  <2> HIDE DEF none
  <2> QED
    BY <1>2, <1>3, <2>1, PutOutbox
<1> HIDE DEF t
<1>5. Wakes(a, t) /\ (Waits(a) => Waits(t)) /\ t.ws.ack = a.ws.ack
  BY <1>4 DEF Wakes, HandlerAwake, WriterAwake, CoordinatorAwake, Like, Fields, Plain, Flags,
              Tasks, Deciding, Waits
<1>6. Like(t, s, {"ack", "outbox"}, {})
  BY <1>2, <1>4 DEF Like
<1> QED
  BY <1>0, <1>2, <1>3, <1>4, <1>5, <1>6 DEF Wakes

Writing(s) == (s.pc.writer = "sending") <=> (s.ws.active_command # Idle)

\* A writer that is cancelled acknowledges its command as if it had been sent:
\* nobody may be waiting for that.
LEMMA CancelWriterCore ==
    ASSUME NEW s, Core(s),
           \A w \in Waiters : s.ws.ack[w] # "pending"
    PROVE  LET t == CancelWriter(s) IN
           /\ Core(t) /\ Wakes(s, t) /\ Like(t, s, {"ack", "active_command"}, {"writer"})
           /\ ~Alive(t.pc, "writer") /\ (Writing(s) => Writing(t))
           /\ t.pc.writer = "unspawned" <=> s.pc.writer = "unspawned"
           /\ \A w \in Waiters : t.ws.ack[w] # "pending"
           /\ Waits(s) => Waits(t)
<1>1. CASE ~Alive(s.pc, "writer")
  <2>1. CancelWriter(s) = s
    BY <1>1 DEF CancelWriter
  <2>2. Like(s, s, {"ack", "active_command"}, {"writer"}) /\ Wakes(s, s)
    BY DEF Core, Typed, Like, Wakes
  <2> QED
    BY <1>1, <2>1, <2>2
<1>2. CASE Alive(s.pc, "writer")
  <2> DEFINE W == {s.ws.active_command.waiter}
             a == Acknowledge(s, W, "ok")
             b == Set(a, "writer", "cancelled")
             t == Put(b, "active_command", Idle)
  <2>0. CancelWriter(s) = t
    BY <1>2 DEF CancelWriter, Put
  <2> HIDE DEF W
  <2>1. /\ Core(a) /\ Wakes(s, a) /\ Like(a, s, {"ack"}, {})
        /\ \A w \in Waiters : a.ws.ack[w] # "pending"
        /\ Waits(s) => Waits(a)
    BY AcknowledgeCore
  <2> HIDE DEF a
  <2>2. /\ Core(t) /\ Like(t, a, {"active_command"}, {"writer"})
        /\ t.pc.writer = "cancelled" /\ t.ws.active_command = Idle
    <3>1. Core(b) /\ Like(b, a, {}, {"writer"}) /\ b.pc.writer = "cancelled"
      BY <2>1, SetCore DEF Tasks
    <3> HIDE DEF b
    <3>2. b.ws.ack = a.ws.ack
      BY <3>1 DEF Like, Fields
    <3>3. Core(t) /\ Like(t, b, {"active_command"}, {}) /\ t.ws.active_command = Idle
      BY <2>1, <3>1, <3>2, PutActive
    <3> HIDE DEF t
    <3> QED
      BY <3>1, <3>3 DEF Like, Tasks
  <2> HIDE DEF b, t
  <2>3. Wakes(a, t) /\ t.ws.ack = a.ws.ack /\ (Waits(a) => Waits(t))
    BY <2>2 DEF Wakes, HandlerAwake, WriterAwake, CoordinatorAwake, Like, Fields, Plain, Flags,
                Tasks, Deciding, Waits
  <2>4. Like(t, s, {"ack", "active_command"}, {"writer"})
    BY <2>1, <2>2 DEF Like
  <2>5. s.pc.writer # "unspawned" /\ ~Alive(t.pc, "writer") /\ Writing(t)
    BY <1>2, <2>2 DEF Alive, Ended, Writing
  <2> QED
    BY <1>2, <2>0, <2>1, <2>2, <2>3, <2>4, <2>5 DEF Wakes
<1> QED
  BY <1>1, <1>2

\* Whatever the handler was awaiting, it awaits it no longer.
LEMMA CancelHandlerCore ==
    ASSUME NEW s, Core(s)
    PROVE  LET t == CancelHandler(s) IN
           /\ Core(t) /\ Wakes(s, t)
           /\ Like(t, s, {"disconnect", "signals", "ping", "ack", "flushed"}, {"handler"})
           /\ ~Alive(t.pc, "handler")
           /\ t.pc.handler \in {s.pc.handler, "cancelled"}
           /\ \A w \in Waiters \ {"handler"} : t.ws.ack[w] = s.ws.ack[w]
           /\ Waits(s) => Waits(t)
<1>1. CASE ~Alive(s.pc, "handler")
  <2>1. CancelHandler(s) = s
    BY <1>1 DEF CancelHandler
  <2>2. Like(s, s, {"disconnect", "signals", "ping", "ack", "flushed"}, {"handler"})
        /\ Wakes(s, s)
    BY DEF Core, Typed, Like, Wakes
  <2> QED
    BY <1>1, <2>1, <2>2
<1>2. CASE Alive(s.pc, "handler")
  <2> DEFINE a == IF s.pc.handler = "closing" THEN Disconnect(s) ELSE s
             b == Set(a, "handler", "cancelled")
             c == Signal(b, "decision")
             p == c.ws.ping /\ s.pc.handler # "pinging"
             d == Put(c, "ping", p)
             v == [d.ws.ack EXCEPT !["handler"] = "none"]
             e == Put(d, "ack", v)
             f == e.ws.flushed \ {"handler"}
             t == Put(e, "flushed", f)
  <2>0. CancelHandler(s) = t
    <3>1. CancelHandler(s) = [c EXCEPT !.ws.ping = p, !.ws.ack["handler"] = "none",
                                       !.ws.flushed = @ \ {"handler"}]
      BY <1>2 DEF CancelHandler
    <3> HIDE DEF a, b, c, p
    <3>2. t = [c EXCEPT !.ws.ping = p, !.ws.ack["handler"] = "none",
                        !.ws.flushed = @ \ {"handler"}]
      BY DEF Put
    <3> QED
      BY <3>1, <3>2
  <2>1. Core(a) /\ Wakes(s, a) /\ Like(a, s, {"disconnect", "signals"}, {})
    BY DisconnectCore DEF Core, Typed, Like, Wakes
  <2> HIDE DEF a
  <2>2. Core(b) /\ Like(b, a, {}, {"handler"}) /\ b.pc.handler = "cancelled"
    BY <2>1, SetCore DEF Tasks
  <2> HIDE DEF b
  <2>3. Core(c) /\ Wakes(b, c) /\ Like(c, b, {"signals"}, {})
    BY <2>2, SignalCore DEF Signals
  <2> HIDE DEF c
  <2>4. Core(d) /\ Like(d, c, {"ping"}, {})
    <3>1. p \in BOOLEAN
      BY DEF p
    <3>2. Fits("ping", p)
      BY <3>1, Zenon DEF Fits, Flags
    <3> HIDE DEF p
    <3> QED
      BY <2>3, <3>2, PutCore DEF Plain, Flags
  <2> HIDE DEF p, d
  <2>5. /\ IsAck(v) /\ v["handler"] = "none"
        /\ \A w \in Waiters \ {"handler"} : v[w] = d.ws.ack[w]
    <3>1. IsAck(d.ws.ack)
      BY <2>4 DEF Core, Typed, IsState
    <3> QED
      BY <3>1 DEF IsAck, Waiters
  <2> HIDE DEF v
  <2>6. Core(e) /\ Like(e, d, {"ack"}, {}) /\ e.ws.ack = v
    <3>1. /\ \A w \in Waiters : v[w] \in Acks
          /\ \A w \in Waiters : v[w] = "ok" => w \in d.ws.flushed
      BY <2>4, <2>5 DEF Core, Typed, Flushes, Acks
    <3>2. \A w \in Waiters \ {"nobody"} : v[w] = "pending" => Owned(d, w)
      BY <2>4, <2>5 DEF Core, Serves
    <3> QED
      BY <2>4, <2>5, <3>1, <3>2, PutAck
  <2> HIDE DEF e
  <2>7. Core(t) /\ Like(t, e, {"flushed"}, {})
    <3>1. f \in SUBSET Waiters /\ \A w \in Waiters : e.ws.ack[w] = "ok" => w \in f
      BY <2>5, <2>6 DEF Core, Typed, Flushes
    <3> QED
      BY <2>6, <3>1, PutFlushed
  <2> HIDE DEF t
  <2>8. Like(t, b, {"signals", "ping", "ack", "flushed"}, {})
    BY <2>3, <2>4, <2>6, <2>7 DEF Like
  <2>9. Like(t, s, {"disconnect", "signals", "ping", "ack", "flushed"}, {"handler"})
    BY <2>1, <2>2, <2>8 DEF Like
  <2>10. t.pc.handler = "cancelled" /\ ~Alive(t.pc, "handler")
    BY <2>2, <2>8 DEF Like, Tasks, Alive, Ended
  <2>11. t.ws.ack = v /\ d.ws.ack = s.ws.ack
    BY <2>1, <2>2, <2>3, <2>4, <2>6, <2>7 DEF Like, Fields
  <2>12. Wakes(a, b)
    BY <2>2 DEF Wakes, HandlerAwake, WriterAwake, CoordinatorAwake, Like, Fields, Plain, Flags,
                Tasks, Deciding
  <2>13. Wakes(c, t)
    <3>1. Like(t, c, {"ping", "ack", "flushed"}, {})
      BY <2>4, <2>6, <2>7 DEF Like
    <3> QED
      BY <3>1 DEF Wakes, HandlerAwake, WriterAwake, CoordinatorAwake, Like, Fields, Plain, Flags,
                  Tasks, Deciding
  <2>14. Wakes(s, t)
    BY <2>1, <2>3, <2>12, <2>13 DEF Wakes
  <2>15. Waits(s) => Waits(t)
    BY <2>5, <2>9, <2>11 DEF Waits, Waiters, Like, Tasks
  <2> QED
    BY <2>0, <2>5, <2>7, <2>9, <2>10, <2>11, <2>14, <2>15
<1> QED
  BY <1>1, <1>2

-----------------------------------------------------------------------------
(* The inductive invariant: what holds whenever every task is suspended. *)

Awake(s) == HandlerAwake(s) /\ WriterAwake(s) /\ CoordinatorAwake(s)

\* A reply is begun by whoever takes the handshake out of "pending".
Replies(s) ==
    /\ s.ws.handshake_state = "pending" => s.ws.replies = 0
    /\ s.pc.handler = "cancelled" => s.ws.handshake_state # "pending"

\* Which tasks there are in which state of the handshake.
Serving(s) == \/ s.pc.writer # "unspawned" \/ s.pc.reader # "unspawned"
              \/ s.pc.coordinator \in {"joining", "closing", "lingering"}
Early(s) == s.pc.writer # "unspawned" /\ s.pc.coordinator = "deciding"

Places(s) ==
    /\ s.pc.handler = "accepting" => s.ws.handshake_state = "accepting"
    /\ s.pc.handler \in {"rejecting", "refusing"} =>
          s.ws.handshake_state = "rejecting" /\ s.pc.deadline # "refusing"
    /\ s.pc.deadline = "refusing" => s.ws.handshake_state \in {"rejecting", "failed"}
    /\ Serving(s) => s.ws.handshake_state = "accepted"
    /\ ~Early(s)

Sound(s) == /\ Core(s) /\ Writing(s) /\ Awake(s)
            /\ Waits(s) /\ Replies(s) /\ Places(s)

\* Most steps leave the handshake as it is.
LEMMA Quietly ==
    ASSUME NEW s, Replies(s), Places(s), NEW t, Core(t), Writing(t), Awake(t), Waits(t),
           t.ws.handshake_state = s.ws.handshake_state, t.ws.replies = s.ws.replies,
           \/ t.pc.handler = s.pc.handler
           \/ /\ t.pc.handler \notin {"accepting", "rejecting", "refusing"}
              /\ t.pc.handler = "cancelled" => s.ws.handshake_state # "pending",
           t.pc.deadline = s.pc.deadline \/ t.pc.deadline # "refusing",
           (Serving(t) => Serving(s)) \/ s.ws.handshake_state = "accepted",
           Early(t) => Early(s)
    PROVE  Sound(t)
<1>1. Replies(t)
  BY DEF Replies
<1>2. Places(t)
  BY DEF Places
<1> QED
  BY <1>1, <1>2 DEF Sound

-----------------------------------------------------------------------------
(* The methods that close the connection keep the whole invariant. *)

LEMMA RequestShutdownCore ==
    ASSUME NEW s, Core(s)
    PROVE  LET t == RequestShutdown(s) IN
           /\ Core(t) /\ (Awake(s) => Awake(t)) /\ (Waits(s) => Waits(t))
           /\ Like(t, s, Fields \ {"replies", "active_command"}, {"handler"})
           /\ t.pc.handler \in {s.pc.handler, "cancelled"}
           /\ t.ws.handshake_state \in {s.ws.handshake_state, "failed"}
           /\ s.ws.handshake_state = "accepted" => t.ws.handshake_state = "accepted"
           /\ t = s \/ (~Deciding(t) /\ ~Alive(t.pc, "handler"))
           /\ t.ws.shutdown = TRUE
<1> DEFINE D == Fields \ {"replies", "active_command"}
<1>1. CASE s.ws.shutdown
  <2>1. RequestShutdown(s) = s
    BY <1>1 DEF RequestShutdown
  <2>2. Like(s, s, D, {"handler"})
    BY DEF Core, Typed, Like
  <2>3. s.ws.shutdown = TRUE
    <3>1. s.ws["shutdown"] \in BOOLEAN
      BY DEF Core, Typed, Fits, Plain, Flags
    <3> QED
      BY <1>1, <3>1
  <2> QED
    BY <2>1, <2>2, <2>3
<1>2. CASE ~s.ws.shutdown
  <2> DEFINE yes  == TRUE
             a    == Put(s, "shutdown", yes)
             b    == EnqueueControl(a, "close")
             c    == IF s.ws.handshake_state = "accepted" /\ ~s.ws.close_sent
                     THEN Put(b, "close_sent", yes) ELSE a
             d    == EndAll(c)
             gone == CancelHandler(d)
             t    == IF s.pc.writer = "unspawned" THEN gone ELSE Signal(gone, "outbox")
  <2>0. RequestShutdown(s) = t
    <3>1. a.ws.handshake_state = s.ws.handshake_state /\ a.ws.close_sent = s.ws.close_sent
      BY DEF Put, Core, Typed, IsState, Fields, Plain, Flags
    <3> QED
      BY <1>2, <3>1 DEF RequestShutdown, Put
  <2>1. Fits("shutdown", yes) /\ Fits("close_sent", yes)
    BY DEF Fits, Flags
  <2>y. yes = TRUE
    OBVIOUS
  <2> HIDE DEF yes
  <2>2. Core(a) /\ Like(a, s, {"shutdown"}, {}) /\ a.ws.shutdown = yes
    BY <2>1, PutCore DEF Plain, Flags
  <2>3. Core(b) /\ Like(b, a, {"outbox", "signals"}, {}) /\ Wakes(a, b)
    <3> HIDE DEF a
    <3> QED
      BY <2>2, EnqueueControlCore DEF Events
  <2>4. /\ Core(c) /\ Like(c, a, {"outbox", "signals", "close_sent"}, {})
        /\ (HandlerAwake(a) => HandlerAwake(c)) /\ (CoordinatorAwake(a) => CoordinatorAwake(c))
    <3> DEFINE e == Put(b, "close_sent", yes)
    <3> HIDE DEF a, b
    <3>1. Core(e) /\ Like(e, b, {"close_sent"}, {})
      BY <2>1, <2>3, PutCore DEF Plain, Flags
    <3> HIDE DEF e
    <3>2. Like(e, a, {"outbox", "signals", "close_sent"}, {})
      BY <2>3, <3>1 DEF Like
    <3>3. Wakes(b, e)
      BY <3>1 DEF Wakes, HandlerAwake, WriterAwake, CoordinatorAwake, Like, Fields, Plain, Flags,
                  Tasks, Deciding
    <3>4. CASE c = e
      BY <2>3, <3>1, <3>2, <3>3, <3>4 DEF Wakes
    <3>5. CASE c = a
      BY <2>2, <3>5 DEF Like
    <3> QED
      BY <3>4, <3>5 DEF e
  <2> HIDE DEF a, b, c
  <2>5. /\ Core(d) /\ Wakes(c, d)
        /\ Like(d, c, {"handshake_state", "protocol", "disconnect", "signals"}, {})
        /\ ~Deciding(d)
        /\ c.ws.handshake_state = "accepted" => d.ws.handshake_state = "accepted"
        /\ d.ws.handshake_state \in {c.ws.handshake_state, "failed"}
    BY <2>4, EndAllCore
  <2> HIDE DEF d
  <2>6. /\ Core(gone) /\ Wakes(d, gone)
        /\ Like(gone, d, {"disconnect", "signals", "ping", "ack", "flushed"}, {"handler"})
        /\ ~Alive(gone.pc, "handler")
        /\ gone.pc.handler \in {d.pc.handler, "cancelled"}
        /\ Waits(d) => Waits(gone)
    BY <2>5, CancelHandlerCore
  <2> HIDE DEF gone
  <2>7. /\ Core(t) /\ Wakes(gone, t) /\ Like(t, gone, {"signals"}, {})
        /\ t.pc.writer = "unspawned" \/ "outbox" \in t.ws.signals
    <3>1. CASE s.pc.writer = "unspawned"
      <4>1. t = gone /\ gone.pc.writer = "unspawned"
        BY <2>2, <2>4, <2>5, <2>6, <3>1 DEF Like, Tasks
      <4> QED
        BY <2>6, <4>1 DEF Like, Wakes
    <3>2. CASE s.pc.writer # "unspawned"
      <4>1. t = Signal(gone, "outbox")
        BY <3>2
      <4> QED
        BY <2>6, <4>1, SignalCore DEF Signals
    <3> QED
      BY <3>1, <3>2
  <2> HIDE DEF t
  <2>8. Like(c, s, {"shutdown", "outbox", "signals", "close_sent"}, {})
    BY <2>2, <2>4 DEF Like
  <2>9. Like(t, s, D, {"handler"})
    <3>1. Like(t, c, D, {"handler"})
      BY <2>5, <2>6, <2>7 DEF Like, Fields, Plain, Flags
    <3> QED
      BY <2>8, <3>1 DEF Like, Fields, Plain, Flags
  <2>10. /\ t.ws.handshake_state = d.ws.handshake_state
         /\ c.ws.handshake_state = s.ws.handshake_state
         /\ t.pc.handler = gone.pc.handler /\ d.pc.handler = s.pc.handler
    BY <2>5, <2>6, <2>7, <2>8 DEF Like, Fields, Plain, Flags, Tasks
  <2>11. ~Deciding(t) /\ ~Alive(t.pc, "handler")
    BY <2>5, <2>6, <2>10 DEF Deciding, Alive
  <2>12. t.ws.shutdown = yes
    <3>1. t.ws.shutdown = c.ws.shutdown /\ c.ws.shutdown = a.ws.shutdown
      BY <2>4, <2>5, <2>6, <2>7 DEF Like, Fields, Plain, Flags
    <3> QED
      BY <2>2, <3>1
  <2>13. Waits(s) => Waits(t)
    <3>1. Waits(s) => Waits(d)
      BY <2>5, <2>8 DEF Waits, Like, Fields, Tasks
    <3>2. Waits(gone) => Waits(t)
      BY <2>7 DEF Waits, Like, Fields, Tasks
    <3> QED
      BY <2>6, <3>1, <3>2
  <2>14. Awake(s) => Awake(t)
    <3>1. HandlerAwake(s) => HandlerAwake(a)
      BY <2>2 DEF HandlerAwake, Like, Fields, Plain, Flags, Tasks
    <3>2. CoordinatorAwake(s) => CoordinatorAwake(a)
      BY <2>2 DEF CoordinatorAwake, Like, Fields, Plain, Flags, Tasks, Deciding
    <3>3. WriterAwake(t)
      BY <2>7 DEF WriterAwake
    <3> QED
      BY <2>4, <2>5, <2>6, <2>7, <3>1, <3>2, <3>3 DEF Awake, Wakes
  <2> QED
    BY <2>0, <2>5, <2>6, <2>7, <2>9, <2>10, <2>11, <2>12, <2>13, <2>14, <2>y
<1> QED
  BY <1>1, <1>2

\* A flag nobody waits for.
LEMMA NoteCore ==
    ASSUME NEW s, Core(s), NEW f \in Flags \ {"shutdown", "disconnect"}, NEW v, v \in BOOLEAN
    PROVE  LET t == Put(s, f, v) IN
           /\ Core(t) /\ Wakes(s, t) /\ Like(t, s, {f}, {}) /\ t.ws[f] = v
           /\ Waits(s) => Waits(t)
<1> DEFINE t == Put(s, f, v)
<1>1. Fits(f, v)
  <2>1. f \notin {"handshake_state", "protocol", "inbox", "signals", "replies"}
    BY DEF Flags
  <2> QED
    BY <2>1, Zenon DEF Fits
<1>2. Core(t) /\ Like(t, s, {f}, {}) /\ t.ws[f] = v
  BY <1>1, PutCore DEF Plain
<1> HIDE DEF t
<1>3. \A g \in {"inbox", "outbox", "signals", "disconnect", "shutdown", "handshake_state", "ack"} :
         t.ws[g] = s.ws[g]
  BY <1>2 DEF Like, Fields, Plain, Flags
<1>4. \A u \in Tasks : t.pc[u] = s.pc[u]
  BY <1>2 DEF Like
<1>5. Wakes(s, t)
  BY <1>3, <1>4 DEF Wakes, HandlerAwake, WriterAwake, CoordinatorAwake, Tasks, Deciding
<1>6. Waits(s) => Waits(t)
  BY <1>3, <1>4 DEF Waits, Tasks
<1> QED
  BY <1>2, <1>5, <1>6 DEF t

\* A step that at most closes: what becomes of a decided connection.
Closes(s, t) ==
    /\ Core(t) /\ Wakes(s, t) /\ (Waits(s) => Waits(t))
    /\ Like(t, s, Fields \ {"handshake_state", "replies", "active_command", "shutdown"}, {"handler"})
    /\ t.pc.handler \in {s.pc.handler, "cancelled"}

LEMMA ClosesAgain ==
    ASSUME NEW s, NEW t, NEW u, Closes(s, t), Closes(t, u)
    PROVE  Closes(s, u)
<1>1. Like(u, s, Fields \ {"handshake_state", "replies", "active_command", "shutdown"}, {"handler"})
  BY DEF Closes, Like
<1> QED
  BY <1>1 DEF Closes, Wakes

LEMMA CloseSteps ==
    ASSUME NEW s, Core(s)
    PROVE  /\ Closes(s, s)
           /\ Closes(s, Disconnect(s))
           /\ Closes(s, CancelHandler(s))
           /\ Closes(s, FailOutbound(s))
           /\ \A event \in Events : Closes(s, EnqueueControl(s, event))
           /\ \A W : Closes(s, Acknowledge(s, W, "error"))
           /\ \A p \in Protocols : Closes(s, Put(s, "protocol", p))
           /\ \A v \in BOOLEAN : \A f \in Flags \ {"shutdown", "disconnect"} :
                 Closes(s, Put(s, f, v))
<1> DEFINE D == Fields \ {"handshake_state", "replies", "active_command", "shutdown"}
<1>1. Closes(s, s)
  BY DEF Core, Typed, Like, Closes, Wakes
<1>2. ASSUME NEW t, NEW F, NEW T, Like(t, s, F, T), F \subseteq D, T \subseteq {"handler"}
      PROVE  Like(t, s, D, {"handler"})
  BY <1>2 DEF Like
<1>3. ASSUME NEW t, NEW F, Like(t, s, F, {}), F \subseteq D, Core(t), Wakes(s, t),
             "ack" \notin F
      PROVE  Closes(s, t)
  <2>1. t.pc.handler = s.pc.handler /\ t.pc.coordinator = s.pc.coordinator /\ t.ws.ack = s.ws.ack
    BY <1>3 DEF Like, Tasks, Fields
  <2> QED
    BY <1>2, <1>3, <2>1 DEF Closes, Waits
<1>4. Closes(s, Disconnect(s))
  <2>1. {"disconnect", "signals"} \subseteq D
    BY DEF Fields, Plain, Flags
  <2> QED
    BY <1>3, <2>1, DisconnectCore
<1>5. Closes(s, CancelHandler(s))
  <2>1. {"disconnect", "signals", "ping", "ack", "flushed"} \subseteq D
    BY DEF Fields, Plain, Flags
  <2> QED
    BY <1>2, <2>1, CancelHandlerCore DEF Closes
<1>6. ASSUME NEW event \in Events
      PROVE  Closes(s, EnqueueControl(s, event))
  <2>1. {"outbox", "signals"} \subseteq D
    BY DEF Fields, Plain, Flags
  <2> QED
    BY <1>3, <2>1, EnqueueControlCore
<1>7. Closes(s, FailOutbound(s))
  <2>1. {"ack", "outbox"} \subseteq D
    BY DEF Fields, Plain, Flags
  <2>2. FailOutbound(s).pc.handler = s.pc.handler
    BY FailOutboundCore DEF Like, Tasks
  <2> QED
    BY <1>2, <2>1, <2>2, FailOutboundCore DEF Closes
<1>a. ASSUME NEW W
      PROVE  Closes(s, Acknowledge(s, W, "error"))
  <2> DEFINE t == Acknowledge(s, W, "error")
  <2>1. {"ack"} \subseteq D
    BY DEF Fields, Plain, Flags
  <2>2. Core(t) /\ Wakes(s, t) /\ Like(t, s, {"ack"}, {}) /\ (Waits(s) => Waits(t))
    BY AcknowledgeCore
  <2> HIDE DEF t
  <2>3. t.pc.handler = s.pc.handler
    BY <2>2 DEF Like, Tasks
  <2> QED
    BY <1>2, <2>1, <2>2, <2>3 DEF Closes, t
<1>b. ASSUME NEW p \in Protocols
      PROVE  Closes(s, Put(s, "protocol", p))
  <2> DEFINE t == Put(s, "protocol", p)
  <2>1. {"protocol"} \subseteq D
    BY DEF Fields, Plain, Flags
  <2>2. Fits("protocol", p)
    BY DEF Fits, Flags
  <2>3. Core(t) /\ Like(t, s, {"protocol"}, {})
    BY <2>2, PutCore DEF Plain
  <2> HIDE DEF t
  <2>4. Wakes(s, t)
    BY <2>3 DEF Wakes, HandlerAwake, WriterAwake, CoordinatorAwake, Like, Fields, Plain, Flags,
                Tasks, Deciding
  <2> QED
    BY <1>3, <2>1, <2>3, <2>4 DEF t
<1>8. ASSUME NEW v \in BOOLEAN, NEW f \in Flags \ {"shutdown", "disconnect"}
      PROVE  Closes(s, Put(s, f, v))
  <2>1. {f} \subseteq D /\ "ack" \notin {f}
    BY DEF Fields, Plain, Flags
  <2>2. v \in BOOLEAN /\ f \in Flags \ {"shutdown", "disconnect"}
    OBVIOUS
  <2>3. Core(Put(s, f, v)) /\ Wakes(s, Put(s, f, v)) /\ Like(Put(s, f, v), s, {f}, {})
    BY <2>2, NoteCore, Zenon
  <2> QED
    BY <1>3, <2>1, <2>3
<1> QED
  BY <1>1, <1>4, <1>5, <1>6, <1>7, <1>8, <1>a, <1>b, Zenon

LEMMA ClosedSound ==
    ASSUME NEW s, Sound(s), NEW t, Closes(s, t),
           s.ws.handshake_state # "pending" \/ t.pc.handler = s.pc.handler
    PROVE  Sound(t) /\ t.ws.handshake_state = s.ws.handshake_state
<1>1. /\ t.ws.handshake_state = s.ws.handshake_state /\ t.ws.replies = s.ws.replies
      /\ t.ws.active_command = s.ws.active_command
  BY DEF Closes, Like, Fields, Plain, Flags
<1>2. \A u \in Tasks \ {"handler"} : t.pc[u] = s.pc[u]
  BY DEF Closes, Like
<1>3. Writing(t) /\ Awake(t) /\ Waits(t)
  BY <1>1, <1>2 DEF Closes, Sound, Writing, Awake, Wakes, Tasks
<1>4. (Serving(t) => Serving(s)) /\ (Early(t) => Early(s))
  BY <1>2 DEF Serving, Early, Tasks
<1>5. Core(t) /\ t.pc.handler \in {s.pc.handler, "cancelled"} /\ t.pc.deadline = s.pc.deadline
  BY <1>2 DEF Closes, Tasks
<1> QED
  BY <1>1, <1>3, <1>4, <1>5, Quietly DEF Sound

\* The deadline task and the reader are parked on no signal.
LEMMA SetSound ==
    ASSUME NEW s, Sound(s), NEW u \in {"reader", "deadline"}, NEW label, label # "refusing",
           u = "reader" => s.pc.reader # "unspawned"
    PROVE  /\ Sound(Set(s, u, label))
           /\ Set(s, u, label).ws.handshake_state = s.ws.handshake_state
<1> DEFINE t == Set(s, u, label)
<1>1. Core(t) /\ Like(t, s, {}, {u}) /\ t.pc[u] = label
  <2>1. Core(s) /\ u \in Tasks
    BY DEF Sound, Tasks
  <2> QED
    BY <2>1, SetCore
<1> HIDE DEF t
<1>2. /\ \A f \in Fields : t.ws[f] = s.ws[f]
      /\ \A v \in {"coordinator", "handler", "writer"} : t.pc[v] = s.pc[v]
      /\ t.pc.deadline = s.pc.deadline \/ t.pc.deadline # "refusing"
  BY <1>1 DEF Like, Tasks
<1>3. Writing(t) /\ Awake(t) /\ Waits(t)
  BY <1>2 DEF Sound, Writing, Awake, HandlerAwake, WriterAwake, CoordinatorAwake, Waits, Deciding,
              Fields, Plain, Flags
<1>4. (Serving(t) => Serving(s)) /\ (Early(t) => Early(s))
  BY <1>1, <1>2 DEF Serving, Early, Like, Tasks
<1>5. t.ws.handshake_state = s.ws.handshake_state /\ t.ws.replies = s.ws.replies
  BY <1>2 DEF Fields, Plain
<1> QED
  BY <1>1, <1>2, <1>3, <1>4, <1>5, Quietly DEF Sound, t

LEMMA ShutdownSound ==
    ASSUME NEW s, Sound(s)
    PROVE  /\ Sound(RequestShutdown(s))
           /\ RequestShutdown(s).ws.handshake_state \in {s.ws.handshake_state, "failed"}
<1> DEFINE t == RequestShutdown(s)
<1>1. /\ Core(t) /\ (Awake(s) => Awake(t)) /\ (Waits(s) => Waits(t))
      /\ Like(t, s, Fields \ {"replies", "active_command"}, {"handler"})
      /\ t.pc.handler \in {s.pc.handler, "cancelled"}
      /\ t.ws.handshake_state \in {s.ws.handshake_state, "failed"}
      /\ s.ws.handshake_state = "accepted" => t.ws.handshake_state = "accepted"
      /\ t = s \/ (~Deciding(t) /\ ~Alive(t.pc, "handler"))
  BY RequestShutdownCore DEF Sound
<1> HIDE DEF t
<1>2. CASE t = s
  BY <1>2 DEF t
<1>3. CASE ~Deciding(t) /\ ~Alive(t.pc, "handler")
  <2>1. /\ t.ws.replies = s.ws.replies /\ t.ws.active_command = s.ws.active_command
        /\ \A u \in Tasks \ {"handler"} : t.pc[u] = s.pc[u]
    BY <1>1 DEF Like, Fields, Plain, Flags
  <2>2. Writing(t) /\ Awake(t) /\ Waits(t)
    BY <1>1, <2>1 DEF Sound, Writing, Tasks
  <2>3. Replies(t)
    BY <1>3 DEF Replies, Deciding, Undecided
  <2>4. t.pc.handler \notin {"accepting", "rejecting", "refusing"}
    BY <1>3 DEF Alive, Ended
  <2>5. Places(t)
    BY <1>1, <2>1, <2>4 DEF Sound, Places, Serving, Early, Tasks
  <2> QED
    BY <1>1, <2>2, <2>3, <2>5 DEF Sound, t
<1> QED
  BY <1>1, <1>2, <1>3 DEF t

LEMMA BeginDeadlineCloseCloses ==
    ASSUME NEW s, Core(s)
    PROVE  Closes(s, BeginDeadlineClose(s))
<1> DEFINE yes == TRUE
           a == EnqueueControl(s, "close")
           b == Put(a, "close_sent", yes)
           c == IF s.ws.close_sent \/ s.ws.protocol = "none" THEN s ELSE b
           d == Put(c, "close_deadline", yes)
           e == Disconnect(d)
           t == CancelHandler(e)
<1>0. BeginDeadlineClose(s) = t
  BY DEF BeginDeadlineClose, Put
<1>1. yes \in BOOLEAN
  OBVIOUS
<1> HIDE DEF yes
<1>2. Closes(s, a)
  BY CloseSteps DEF Events
<1> HIDE DEF a
<1>3. Closes(a, b)
  <2>1. Core(a)
    BY <1>2 DEF Closes
  <2>2. "close_sent" \in Flags \ {"shutdown", "disconnect"}
    BY DEF Flags
  <2> QED
    BY <1>1, <2>1, <2>2, CloseSteps, Zenon
<1> HIDE DEF b
<1>4. Closes(s, c)
  BY <1>2, <1>3, ClosesAgain, CloseSteps
<1> HIDE DEF c
<1>5. Closes(c, d)
  <2>1. Core(c)
    BY <1>4 DEF Closes
  <2>2. "close_deadline" \in Flags \ {"shutdown", "disconnect"}
    BY DEF Flags
  <2> QED
    BY <1>1, <2>1, <2>2, CloseSteps, Zenon
<1> HIDE DEF d
<1>6. Closes(d, e)
  BY <1>5, CloseSteps DEF Closes
<1> HIDE DEF e
<1>7. Closes(e, t)
  BY <1>6, CloseSteps DEF Closes
<1> HIDE DEF t
<1> QED
  BY <1>0, <1>4, <1>5, <1>6, <1>7, ClosesAgain

LEMMA AbortWriterSound ==
    ASSUME NEW s, Sound(s)
    PROVE  /\ Sound(AbortWriter(s))
           /\ AbortWriter(s).ws.handshake_state = s.ws.handshake_state
<1> DEFINE a == FailOutbound(s)
           t == CancelWriter(a)
<1>1. /\ Core(a) /\ Wakes(s, a) /\ Like(a, s, {"ack", "outbox"}, {}) /\ Waits(a)
      /\ \A w \in Waiters \ {"nobody"} : a.ws.ack[w] # "pending"
  BY FailOutboundCore DEF Sound
<1> HIDE DEF a
<1>2. \A w \in Waiters : a.ws.ack[w] # "pending"
  BY <1>1 DEF Waits
<1>3. Writing(a)
  BY <1>1 DEF Sound, Writing, Like, Fields, Tasks
<1>4. /\ Core(t) /\ Wakes(a, t) /\ Like(t, a, {"ack", "active_command"}, {"writer"})
      /\ Writing(t) /\ Waits(t)
      /\ t.pc.writer = "unspawned" <=> a.pc.writer = "unspawned"
  BY <1>1, <1>2, <1>3, CancelWriterCore
<1> HIDE DEF t
<1>5. /\ \A u \in Tasks \ {"writer"} : t.pc[u] = s.pc[u]
      /\ t.pc.writer = "unspawned" <=> s.pc.writer = "unspawned"
      /\ t.ws.handshake_state = s.ws.handshake_state /\ t.ws.replies = s.ws.replies
  BY <1>1, <1>4 DEF Like, Fields, Plain, Flags, Tasks
<1>6. Awake(t)
  BY <1>1, <1>4 DEF Sound, Awake, Wakes
<1>7. (Serving(t) => Serving(s)) /\ (Early(t) => Early(s))
  BY <1>5 DEF Serving, Early, Tasks
<1>8. t.pc.handler = s.pc.handler /\ t.pc.deadline = s.pc.deadline
  BY <1>5 DEF Tasks
<1>9. Sound(t)
  BY <1>4, <1>5, <1>6, <1>7, <1>8, Quietly DEF Sound
<1> QED
  BY <1>5, <1>9 DEF AbortWriter, t, a

LEMMA ExpireSound ==
    ASSUME NEW s, Sound(s), s.ws.handshake_state # "pending"
    PROVE  Sound(Expire(s)) /\ Expire(s).ws.handshake_state = s.ws.handshake_state
<1> DEFINE a == AbortWriter(s)
           b == CancelHandler(a)
           c == Disconnect(b)
<1>1. Sound(a) /\ a.ws.handshake_state = s.ws.handshake_state
  BY AbortWriterSound
<1> HIDE DEF a
<1>2. Closes(a, b)
  BY <1>1, CloseSteps DEF Sound
<1> HIDE DEF b
<1>3. Closes(b, c)
  BY <1>2, CloseSteps DEF Closes
<1> HIDE DEF c
<1>4. Sound(c) /\ c.ws.handshake_state = s.ws.handshake_state
  BY <1>1, <1>2, <1>3, ClosesAgain, ClosedSound
<1>5. /\ Sound(Set(c, "deadline", "returned"))
      /\ Set(c, "deadline", "returned").ws.handshake_state = s.ws.handshake_state
  BY <1>4, SetSound
<1> QED
  BY <1>5 DEF Expire, a, b, c

-----------------------------------------------------------------------------
(* The reader's methods. *)

LEMMA ReaderFailsSound ==
    ASSUME NEW s, Sound(s), s.ws.handshake_state # "pending", s.pc.reader # "unspawned"
    PROVE  /\ Sound(ReaderFails(s))
           /\ ReaderFails(s).ws.handshake_state = s.ws.handshake_state
<1> DEFINE yes == TRUE
           a == EnqueueControl(s, "close")
           b == Put(a, "close_sent", yes)
           c == Disconnect(b)
           d == CancelHandler(c)
           e == IF s.ws.shutdown THEN s ELSE d
<1>0. ReaderFails(s) = Set(e, "reader", "returned")
  BY DEF ReaderFails, Put
<1>1. yes \in BOOLEAN /\ "close_sent" \in Flags \ {"shutdown", "disconnect"}
  BY DEF Flags
<1> HIDE DEF yes
<1>2. Closes(s, a)
  BY CloseSteps DEF Events, Sound
<1> HIDE DEF a
<1>3. Closes(a, b)
  <2>1. Core(a)
    BY <1>2 DEF Closes
  <2> QED
    BY <1>1, <2>1, CloseSteps, Zenon
<1> HIDE DEF b
<1>4. Closes(b, c)
  BY <1>3, CloseSteps DEF Closes
<1> HIDE DEF c
<1>5. Closes(c, d)
  BY <1>4, CloseSteps DEF Closes
<1> HIDE DEF d
<1>6. Closes(s, s)
  BY CloseSteps DEF Sound
<1>7. Closes(s, e)
  BY <1>2, <1>3, <1>4, <1>5, <1>6, ClosesAgain
<1> HIDE DEF e
<1>8. /\ Sound(e) /\ e.pc.reader = s.pc.reader
      /\ e.ws.handshake_state = s.ws.handshake_state
  BY <1>7, ClosedSound DEF Closes, Like, Tasks
<1> QED
  BY <1>0, <1>8, SetSound

LEMMA ReaderLoopsSound ==
    ASSUME NEW s, Sound(s), s.pc.reader # "unspawned"
    PROVE  Sound(ReaderLoops(s))
BY SetSound DEF ReaderLoops

\* What CloseEvent leaves is the state of an open connection, then the reader's end.
LEMMA CloseEventSound ==
    ASSUME NEW s, Sound(s), s.ws.handshake_state # "pending", s.pc.reader # "unspawned"
    PROVE  /\ Sound(CloseEvent(s))
           /\ CloseEvent(s).ws.handshake_state = s.ws.handshake_state
<1> DEFINE yes == TRUE
           p == Put(s, "peer_closed", yes)
           a == EnqueueControl(p, "close")
           b == Put(a, "close_sent", yes)
           c == Disconnect(b)
           d == Disconnect(p)
<1>0. CloseEvent(s) = IF s.ws.close_sent THEN Set(d, "reader", "returned")
                      ELSE IF Full(s) THEN ReaderFails(p)
                      ELSE Set(c, "reader", "returned")
  BY DEF CloseEvent, Put
<1>1. /\ yes \in BOOLEAN
      /\ "close_sent" \in Flags \ {"shutdown", "disconnect"}
      /\ "peer_closed" \in Flags \ {"shutdown", "disconnect"}
  BY DEF Flags
<1> HIDE DEF yes
<1>2. Closes(s, p)
  <2>1. Core(s)
    BY DEF Sound
  <2> QED
    BY <1>1, <2>1, CloseSteps, Zenon
<1> HIDE DEF p
<1>3. Closes(p, a)
  BY <1>2, CloseSteps DEF Events, Closes
<1> HIDE DEF a
<1>4. Closes(a, b)
  <2>1. Core(a)
    BY <1>3 DEF Closes
  <2> QED
    BY <1>1, <2>1, CloseSteps, Zenon
<1> HIDE DEF b
<1>5. Closes(b, c)
  BY <1>4, CloseSteps DEF Closes
<1>6. Closes(p, d)
  BY <1>2, CloseSteps DEF Closes
<1> HIDE DEF c, d
<1>7. Closes(s, c) /\ Closes(s, d)
  BY <1>2, <1>3, <1>4, <1>5, <1>6, ClosesAgain
<1>8. /\ Sound(c) /\ Sound(d) /\ Sound(p)
      /\ \A t \in {c, d, p} : /\ t.ws.handshake_state = s.ws.handshake_state
                              /\ t.pc.reader = s.pc.reader
  <2>1. \A t \in {c, d, p} : Closes(s, t)
    BY <1>2, <1>7
  <2>2. \A t \in {c, d, p} : t.pc.reader = s.pc.reader
    BY <2>1 DEF Closes, Like, Tasks
  <2> QED
    BY <2>1, <2>2, ClosedSound
<1>9. Sound(CloseEvent(s))
  BY <1>0, <1>8, SetSound, ReaderFailsSound
<1>10. CloseEvent(s).ws.handshake_state = s.ws.handshake_state
  BY <1>0, <1>8, SetSound, ReaderFailsSound
<1> QED
  BY <1>9, <1>10

LEMMA ReceivedSound ==
    ASSUME NEW s, Sound(s), s.ws.handshake_state # "pending", s.pc.reader # "unspawned",
           NEW frame \in Frames
    PROVE  Sound(Received(s, frame))
<1>1. CASE frame = "message"
  <2>1. CASE s.ws.inbox >= MaxInbox
    BY <1>1, <2>1, ReaderFailsSound DEF Received
  <2>2. CASE ~(s.ws.inbox >= MaxInbox)
    <3> DEFINE n == s.ws.inbox + 1
               a == Put(s, "inbox", n)
               t == Signal(a, "inbox")
    <3>1. Received(s, frame) = ReaderLoops(t)
      BY <1>1, <2>2 DEF Received, Put
    <3>2. Fits("inbox", n)
      <4>1. s.ws["inbox"] \in 0..MaxInbox
        BY DEF Sound, Core, Typed, Plain, Fits
      <4>2. n \in 0..MaxInbox
        BY <2>2, <4>1, WebSocketAssumption
      <4> QED
        BY <4>2 DEF Fits, Flags
    <3> HIDE DEF n
    <3>3. Core(a) /\ Like(a, s, {"inbox"}, {})
      BY <3>2, PutCore DEF Sound, Plain
    <3> HIDE DEF a
    <3>4. Core(t) /\ Like(t, a, {"signals"}, {}) /\ t.ws.signals = a.ws.signals \cup {"inbox"}
      BY <3>3, SignalCore DEF Signals
    <3> HIDE DEF t
    <3>5. /\ Like(t, s, {"inbox", "signals"}, {}) /\ a.ws.signals = s.ws.signals
      BY <3>3, <3>4 DEF Like, Fields, Plain, Flags
    <3>6. Writing(t) /\ Awake(t) /\ Waits(t)
      BY <3>4, <3>5 DEF Sound, Writing, Awake, HandlerAwake, WriterAwake, CoordinatorAwake, Waits,
                        Deciding, Like, Fields, Plain, Flags, Tasks
    <3>7. (Serving(t) => Serving(s)) /\ (Early(t) => Early(s))
      BY <3>5 DEF Serving, Early, Like, Tasks
    <3>8. /\ t.ws.handshake_state = s.ws.handshake_state /\ t.ws.replies = s.ws.replies
          /\ t.pc.handler = s.pc.handler /\ t.pc.deadline = s.pc.deadline
          /\ t.pc.reader = s.pc.reader
      BY <3>5 DEF Like, Fields, Plain, Flags, Tasks
    <3>9. Sound(t)
      BY <3>4, <3>6, <3>7, <3>8, Quietly DEF Sound
    <3> QED
      BY <3>1, <3>8, <3>9, ReaderLoopsSound
  <2> QED
    BY <2>1, <2>2
<1>2. CASE frame = "ping"
  <2>1. CASE Full(s)
    BY <1>2, <2>1, ReaderFailsSound DEF Received
  <2>2. CASE ~Full(s)
    <3> DEFINE t == EnqueueControl(s, "pong")
    <3>1. Closes(s, t)
      BY CloseSteps DEF Sound, Events
    <3>2. Received(s, frame) = ReaderLoops(t)
      BY <1>2, <2>2 DEF Received
    <3> HIDE DEF t
    <3>3. Sound(t) /\ t.pc.reader = s.pc.reader
      BY <3>1, ClosedSound DEF Closes, Like, Tasks
    <3> QED
      BY <3>2, <3>3, ReaderLoopsSound
  <2> QED
    BY <2>1, <2>2
<1>3. CASE frame = "pong"
  <2> DEFINE no == FALSE
             t == Put(s, "ping", no)
  <2>1. no \in BOOLEAN /\ "ping" \in Flags \ {"shutdown", "disconnect"}
    BY DEF Flags
  <2>2. Received(s, frame) = ReaderLoops(t)
    BY <1>3 DEF Received, Put
  <2> HIDE DEF no
  <2>3. Closes(s, t)
    <3>1. Core(s)
      BY DEF Sound
    <3> QED
      BY <2>1, <3>1, CloseSteps, Zenon
  <2> HIDE DEF t
  <2>4. Sound(t) /\ t.pc.reader = s.pc.reader
    BY <2>3, ClosedSound DEF Closes, Like, Tasks
  <2> QED
    BY <2>2, <2>4, ReaderLoopsSound
<1>4. CASE frame = "close"
  <2> DEFINE p == IF s.ws.protocol = "local_closing" THEN "closed" ELSE "remote_closing"
             t == Put(s, "protocol", p)
  <2>1. Received(s, frame) = CloseEvent(t)
    BY <1>4 DEF Received, Put
  <2>2. p \in Protocols
    BY DEF Protocols
  <2> HIDE DEF p
  <2>3. Closes(s, t)
    BY <2>2, CloseSteps DEF Sound
  <2> HIDE DEF t
  <2>4. /\ Sound(t) /\ t.pc.reader = s.pc.reader
        /\ t.ws.handshake_state = s.ws.handshake_state
    BY <2>3, ClosedSound DEF Closes, Like, Tasks
  <2> QED
    BY <2>1, <2>4, CloseEventSound
<1>5. CASE frame = "unparsable"
  BY <1>5, CloseEventSound DEF Received
<1>6. CASE frame = "refused"
  BY <1>6, ReaderFailsSound DEF Received
<1>7. CASE frame = "eof"
  <2> DEFINE t == Put(s, "protocol", "closed")
             u == CloseEvent(t)
  <2>1. Received(s, frame) = CancelHandler(u)
    BY <1>7 DEF Received, Put
  <2>2. Closes(s, t)
    BY CloseSteps DEF Sound, Protocols
  <2> HIDE DEF t
  <2>4. /\ Sound(t) /\ t.pc.reader = s.pc.reader
        /\ t.ws.handshake_state = s.ws.handshake_state
    BY <2>2, ClosedSound DEF Closes, Like, Tasks
  <2>5. Sound(u) /\ u.ws.handshake_state # "pending"
    BY <2>4, CloseEventSound
  <2> HIDE DEF u
  <2>6. Closes(u, CancelHandler(u))
    BY <2>5, CloseSteps DEF Sound
  <2> QED
    BY <2>1, <2>5, <2>6, ClosedSound
<1> QED
  BY <1>1, <1>2, <1>3, <1>4, <1>5, <1>6, <1>7 DEF Frames

-----------------------------------------------------------------------------
(* The writer's loop. *)

\* How many commands are refused: an index of the outbox.
LEMMA MinTakes ==
    ASSUME NEW T \in SUBSET Nat, T # {}
    PROVE  Min(T) \in T
<1> DEFINE R == {ss \in Nat \X Nat : ss[1] < ss[2]}
<1>1. IsWellFoundedOn(R, Nat)
  BY NatLessThanWellFounded DEF OpToRel
<1>2. PICK x \in T : \A y \in T : ~(<<y, x>> \in R)
  <2> HIDE DEF R
  <2> QED
    BY WFMin, <1>1
<1>3. \A y \in T : x <= y
  <2>1. ASSUME NEW y \in T, y < x
        PROVE  <<y, x>> \in R
    <3> DEFINE p == <<y, x>>
    <3>1. p \in Nat \X Nat /\ p[1] = y /\ p[2] = x
      OBVIOUS
    <3> HIDE DEF p
    <3>2. p \in R
      BY <3>1, <2>1
    <3> QED
      BY <3>2 DEF p
  <2> HIDE DEF R
  <2>2. \A y \in T : ~(y < x)
    BY <1>2, <2>1
  <2> QED
    BY <2>2
<1> QED
  BY <1>3 DEF Min

LEMMA WriterRunsSound ==
    ASSUME NEW s, Core(s), s.ws.active_command = Idle, s.ws.handshake_state = "accepted",
           HandlerAwake(s), CoordinatorAwake(s), Waits(s), Replies(s), Places(s),
           s.pc.writer # "unspawned"
    PROVE  Sound(WriterRuns(s))
<1> DEFINE box     == s.ws.outbox
           takes   == {i \in DOMAIN box : Sendable(box[i].event, s.ws.protocol)}
           last    == IF takes = {} THEN Len(box) ELSE Min(takes) - 1
           refused == {box[i].waiter : i \in 1..last}
           a       == Disconnect(s)
           b       == CancelHandler(a)
           c       == Acknowledge(b, refused, "error")
           t       == IF last = 0 THEN s ELSE c
           rest    == SubSeq(box, last + 1, Len(box))
           end     == IF t.ws.shutdown THEN "returned" ELSE "waiting"
           none    == <<>>
           d       == Set(t, "writer", end)
           quiet   == Put(d, "outbox", none)
           e       == Set(t, "writer", "sending")
           head    == Head(rest)
           tail    == Tail(rest)
           p       == AfterSend(head.event, e.ws.protocol)
           busy    == Put(Put(Put(e, "outbox", tail), "active_command", head), "protocol", p)
<1>0. WriterRuns(s) = IF rest = <<>> THEN quiet ELSE busy
  BY DEF WriterRuns, Put
<1>1. box \in Seq(Command) /\ Len(box) <= MaxOutbox /\ box = s.ws.outbox
  BY DEF Core, Typed
<1>2. last \in 0..Len(box)
  <2>1. Len(box) \in Nat /\ DOMAIN box = 1..Len(box)
    BY <1>1
  <2>2. takes \subseteq DOMAIN box
    OBVIOUS
  <2> HIDE DEF takes, box
  <2>3. CASE takes = {}
    BY <2>1, <2>3
  <2>4. CASE takes # {}
    <3>1. takes \in SUBSET Nat
      BY <2>1, <2>2
    <3>2. Min(takes) \in 1..Len(box)
      BY <2>1, <2>2, <2>4, <3>1, MinTakes
    <3> QED
      BY <2>1, <2>4, <3>2
  <2> QED
    BY <2>3, <2>4
<1> HIDE DEF takes, last, box
<1>3. /\ rest \in Seq(Command) /\ Len(rest) = Len(box) - last
      /\ \A i \in DOMAIN box : i > last => i - last \in DOMAIN rest /\ rest[i - last] = box[i]
  BY <1>1, <1>2
<1>4. \A i \in DOMAIN box : i <= last => box[i].waiter \in refused
  BY <1>1, <1>2
<1> HIDE DEF rest, refused
<1>5. /\ Core(t) /\ Wakes(s, t) /\ (Waits(s) => Waits(t))
      /\ Like(t, s, {"disconnect", "signals", "ping", "ack", "flushed"}, {"handler"})
      /\ t.pc.handler \in {s.pc.handler, "cancelled"}
      /\ \A w \in Waiters : t.ws.ack[w] = "pending" => last = 0 \/ w \notin refused
  <2>1. Core(a) /\ Wakes(s, a) /\ Like(a, s, {"disconnect", "signals"}, {})
    BY DisconnectCore
  <2> HIDE DEF a
  <2>2. /\ Core(b) /\ Wakes(a, b) /\ (Waits(a) => Waits(b))
        /\ Like(b, a, {"disconnect", "signals", "ping", "ack", "flushed"}, {"handler"})
        /\ b.pc.handler \in {a.pc.handler, "cancelled"}
    BY <2>1, CancelHandlerCore
  <2> HIDE DEF b
  <2>3. /\ Core(c) /\ Wakes(b, c) /\ Like(c, b, {"ack"}, {}) /\ (Waits(b) => Waits(c))
        /\ \A w \in Waiters : w \in refused => c.ws.ack[w] # "pending"
    BY <2>2, AcknowledgeCore
  <2> HIDE DEF c
  <2>4. /\ Like(c, s, {"disconnect", "signals", "ping", "ack", "flushed"}, {"handler"})
        /\ c.pc.handler = b.pc.handler /\ a.pc.handler = s.pc.handler
    BY <2>1, <2>2, <2>3 DEF Like, Tasks
  <2>5. Waits(s) => Waits(a)
    BY <2>1 DEF Waits, Like, Fields, Tasks
  <2>6. Wakes(s, c)
    BY <2>1, <2>2, <2>3 DEF Wakes
  <2>7. CASE t = c
    BY <2>2, <2>3, <2>4, <2>5, <2>6, <2>7
  <2>8. CASE t = s /\ last = 0
    BY <2>8 DEF Core, Typed, Like, Wakes
  <2> QED
    BY <2>7, <2>8
<1> HIDE DEF t
<1>6. /\ Waits(t) /\ HandlerAwake(t) /\ CoordinatorAwake(t)
      /\ t.ws.outbox = box /\ t.ws.active_command = Idle
      /\ t.ws.handshake_state = "accepted" /\ t.ws.replies = s.ws.replies
      /\ \A u \in Tasks \ {"handler"} : t.pc[u] = s.pc[u]
  BY <1>1, <1>5 DEF Wakes, Like, Fields, Plain, Flags
\* Whoever is still waiting has its command in the rest.
<1>7. \A w \in Waiters \ {"nobody"} : t.ws.ack[w] = "pending" =>
         \E i \in DOMAIN rest : rest[i].waiter = w
  <2> SUFFICES ASSUME NEW w \in Waiters \ {"nobody"}, t.ws.ack[w] = "pending"
               PROVE  \E i \in DOMAIN rest : rest[i].waiter = w
    OBVIOUS
  <2>1. PICK i \in DOMAIN box : box[i].waiter = w
    <3>1. Idle.waiter # w
      BY DEF Idle
    <3> QED
      BY <1>5, <1>6, <3>1 DEF Core, Serves, Owned
  <2>2. i > last
    <3>1. i \in Nat /\ i >= 1
      BY <1>1
    <3> QED
      BY <1>2, <1>4, <1>5, <2>1, <3>1
  <2> QED
    BY <1>3, <2>1, <2>2
<1>8. CASE rest = <<>>
  <2>1. none \in Seq(Command) /\ Len(none) <= MaxOutbox /\ none = <<>>
    BY WebSocketAssumption
  <2>2. \A w \in Waiters \ {"nobody"} : t.ws.ack[w] # "pending"
    BY <1>7, <1>8
  <2> HIDE DEF none
  <2>3. Core(d) /\ Like(d, t, {}, {"writer"}) /\ d.pc.writer = end
    BY <1>5, SetCore DEF Tasks
  <2> HIDE DEF d
  <2>4. Core(quiet) /\ Like(quiet, d, {"outbox"}, {}) /\ quiet.ws.outbox = none
    <3>1. d.ws.ack = t.ws.ack
      BY <2>3 DEF Like, Fields
    <3> QED
      BY <2>1, <2>2, <2>3, <3>1, PutOutbox
  <2> HIDE DEF quiet
  <2>5. /\ Like(quiet, t, {"outbox"}, {"writer"}) /\ quiet.pc.writer = end
        /\ quiet.ws.active_command = Idle
    BY <1>6, <2>3, <2>4 DEF Like, Fields, Tasks
  <2>6. HandlerAwake(quiet) /\ CoordinatorAwake(quiet) /\ Waits(quiet)
    BY <1>6, <2>5 DEF HandlerAwake, CoordinatorAwake, Waits, Like, Fields, Plain, Flags, Tasks,
                      Deciding
  <2>7. Writing(quiet)
    BY <2>5 DEF Writing
  <2>8. WriterAwake(quiet)
    <3>1. quiet.ws.shutdown = t.ws.shutdown
      BY <2>5 DEF Like, Fields, Plain, Flags
    <3>2. end = "waiting" => ~t.ws.shutdown
      OBVIOUS
    <3> HIDE DEF end
    <3> QED
      BY <2>1, <2>4, <2>5, <3>1, <3>2 DEF WriterAwake
  <2> HIDE DEF end
  <2>9. /\ quiet.ws.handshake_state = s.ws.handshake_state /\ quiet.ws.replies = s.ws.replies
        /\ quiet.pc.handler = t.pc.handler /\ quiet.pc.deadline = s.pc.deadline
        /\ Early(quiet) => Early(s)
    BY <1>6, <2>5 DEF Like, Fields, Plain, Flags, Tasks, Early
  <2>10. Sound(quiet)
    BY <1>5, <2>4, <2>6, <2>7, <2>8, <2>9, Quietly DEF Awake
  <2> QED
    BY <1>0, <1>8, <2>10
<1>9. CASE rest # <<>>
  <2>1. /\ head \in Command /\ head # Idle
        /\ tail \in Seq(Command) /\ Len(tail) <= MaxOutbox
        /\ \A i \in DOMAIN rest : rest[i] = head \/ \E j \in DOMAIN tail : tail[j] = rest[i]
    <3>1. head = rest[1] /\ head \in Command
      BY <1>3, <1>9
    <3>2. head # Idle
      BY <3>1 DEF Command, Events, Idle
    <3>3. tail \in Seq(Command) /\ Len(tail) = Len(rest) - 1
      BY <1>3, <1>9
    <3>4. Len(tail) <= MaxOutbox
      BY <1>1, <1>2, <1>3, <3>3, WebSocketAssumption
    <3>5. \A i \in DOMAIN rest : i = 1 \/ (i - 1 \in DOMAIN tail /\ tail[i - 1] = rest[i])
      BY <1>3, <1>9, <3>3
    <3> QED
      BY <3>1, <3>2, <3>3, <3>4, <3>5
  <2> HIDE DEF head, tail
  <2>2. Core(e) /\ Like(e, t, {}, {"writer"}) /\ e.pc.writer = "sending"
    BY <1>5, SetCore DEF Tasks
  <2> HIDE DEF e
  <2>3. e.ws.ack = t.ws.ack /\ e.ws.outbox = box /\ e.ws.active_command = Idle
    BY <1>6, <2>2 DEF Like, Fields
  <2> DEFINE f == Put(e, "active_command", head)
             g == Put(f, "outbox", tail)
             h == Put(g, "protocol", p)
  <2>4. busy = h
    <3>1. IsState(e)
      BY <2>2 DEF Like
    <3>2. Put(Put(e, "outbox", tail), "active_command", head) = g
      BY <3>1, PutSwap DEF Fields
    <3> QED
      BY <3>2
  <2>5. p \in Protocols
    <3>1. e.ws.protocol \in Protocols
      <4>1. Fits("protocol", e.ws["protocol"])
        BY <2>2 DEF Core, Typed, Plain
      <4> QED
        BY <4>1 DEF Fits
    <3> QED
      BY <3>1 DEF AfterSend, Protocols
  <2> HIDE DEF p
  <2>6. Core(f) /\ Like(f, e, {"active_command"}, {}) /\ f.ws.active_command = head
    <3>1. \A w \in Waiters \ {"nobody"} : e.ws.ack[w] = "pending" =>
             head.waiter = w \/ \E i \in DOMAIN e.ws.outbox : e.ws.outbox[i].waiter = w
      <4>1. Idle.waiter = "nobody"
        BY DEF Idle
      <4> QED
        BY <2>2, <2>3, <4>1 DEF Core, Serves, Owned
    <3> QED
      BY <2>1, <2>2, <3>1, PutActive
  <2> HIDE DEF f
  <2>7. Core(g) /\ Like(g, f, {"outbox"}, {})
    <3>1. f.ws.ack = t.ws.ack
      BY <2>3, <2>6 DEF Like, Fields
    <3>2. \A w \in Waiters \ {"nobody"} : f.ws.ack[w] = "pending" =>
             f.ws.active_command.waiter = w \/ \E i \in DOMAIN tail : tail[i].waiter = w
      BY <1>7, <2>1, <2>6, <3>1
    <3> QED
      BY <2>1, <2>6, <3>2, PutOutbox
  <2> HIDE DEF g
  <2>8. Core(h) /\ Like(h, g, {"protocol"}, {})
    <3>1. Fits("protocol", p)
      BY <2>5 DEF Fits, Flags
    <3> QED
      BY <2>7, <3>1, PutCore DEF Plain
  <2> HIDE DEF h
  <2>9. /\ Like(h, t, {"active_command", "outbox", "protocol"}, {"writer"})
        /\ h.pc.writer = "sending" /\ h.ws.active_command = head
    BY <2>2, <2>6, <2>7, <2>8 DEF Like, Fields, Plain, Flags, Tasks
  <2>10. HandlerAwake(h) /\ CoordinatorAwake(h) /\ Waits(h)
    BY <1>6, <2>9 DEF HandlerAwake, CoordinatorAwake, Waits, Like, Fields, Plain, Flags, Tasks,
                      Deciding
  <2>11. WriterAwake(h) /\ Writing(h)
    BY <2>1, <2>9 DEF Writing, WriterAwake
  <2>12. /\ h.ws.handshake_state = s.ws.handshake_state /\ h.ws.replies = s.ws.replies
         /\ h.pc.handler = t.pc.handler /\ h.pc.deadline = s.pc.deadline
         /\ Early(h) => Early(s)
    BY <1>6, <2>9 DEF Like, Fields, Plain, Flags, Tasks, Early
  <2>13. Sound(h)
    BY <1>5, <2>8, <2>10, <2>11, <2>12, Quietly DEF Awake
  <2> HIDE DEF busy
  <2> QED
    BY <1>0, <1>9, <2>4, <2>13
<1> QED
  BY <1>8, <1>9

-----------------------------------------------------------------------------
(* The deadline task and the end of the coordinator. *)

\* A claim takes the handshake out of "pending" and begins the one reply.
LEMMA ClaimCore ==
    ASSUME NEW s, Core(s), Replies(s), s.ws.handshake_state = "pending",
           NEW task \in Tasks, NEW state \in Undecided, NEW label
    PROVE  LET t == Claim(s, task, state, label) IN
           /\ Core(t) /\ Like(t, s, {"handshake_state", "replies"}, {task})
           /\ t.ws.handshake_state = state /\ t.pc[task] = label
<1> DEFINE one == 1
           a == Set(s, task, label)
           b == Put(a, "handshake_state", state)
           t == Put(b, "replies", one)
<1>1. Core(a) /\ Like(a, s, {}, {task}) /\ a.pc[task] = label
  BY SetCore
<1>2. a.ws.replies + 1 = one
  BY <1>1 DEF Replies, Like, Fields, Plain
<1>3. b.ws.replies = a.ws.replies
  <2>1. IsState(a)
    BY <1>1 DEF Like
  <2> HIDE DEF a
  <2> QED
    BY <2>1, PutLike DEF Like, Fields, Plain, Flags
<1>4. Claim(s, task, state, label) = t
  BY <1>2, <1>3 DEF Claim, Put
<1> HIDE DEF a
<1>5. Fits("handshake_state", state) /\ Fits("replies", one)
  BY DEF Fits, Flags, States
<1> HIDE DEF one
<1>6. Core(b) /\ Like(b, a, {"handshake_state"}, {}) /\ b.ws.handshake_state = state
  BY <1>1, <1>5, PutCore DEF Plain
<1> HIDE DEF b
<1>7. Core(t) /\ Like(t, b, {"replies"}, {})
  BY <1>5, <1>6, PutCore DEF Plain
<1> HIDE DEF t
<1>8. /\ Like(t, s, {"handshake_state", "replies"}, {task})
      /\ t.ws.handshake_state = state /\ t.pc[task] = label
  BY <1>1, <1>6, <1>7 DEF Like, Fields, Plain, Flags
<1> QED
  BY <1>4, <1>7, <1>8

\* The handshake is claimed by the task that sends its response.
LEMMA ClaimSound ==
    ASSUME NEW s, Sound(s), s.ws.handshake_state = "pending",
           NEW task, NEW state \in {"accepting", "rejecting"}, NEW label,
           \/ /\ task = "handler" /\ s.pc.handler = "running"
              /\ \/ state = "accepting" /\ label = "accepting"
                 \/ state = "rejecting" /\ label \in {"rejecting", "refusing"}
           \/ task = "deadline" /\ state = "rejecting" /\ label = "refusing"
    PROVE  Sound(Claim(s, task, state, label))
<1> DEFINE t == Claim(s, task, state, label)
<1>0. task \in Tasks /\ state \in Undecided /\ Core(s) /\ Replies(s)
  BY DEF Tasks, Undecided, Sound
<1>1. /\ Core(t) /\ Like(t, s, {"handshake_state", "replies"}, {task})
      /\ t.ws.handshake_state = state /\ t.pc[task] = label
  BY <1>0, ClaimCore
<1> HIDE DEF t
<1>2. /\ \A f \in Fields \ {"handshake_state", "replies"} : t.ws[f] = s.ws[f]
      /\ \A u \in Tasks \ {"handler", "deadline"} : t.pc[u] = s.pc[u]
      /\ task = "handler" => t.pc.deadline = s.pc.deadline /\ t.pc.handler = label
      /\ task = "deadline" => t.pc.handler = s.pc.handler /\ t.pc.deadline = label
  BY <1>0, <1>1 DEF Like, Tasks
<1>3. Writing(t) /\ Waits(t)
  BY <1>2 DEF Sound, Writing, Waits, Fields, Tasks
<1>4. Awake(t)
  BY <1>0, <1>1, <1>2 DEF Sound, Awake, HandlerAwake, WriterAwake, CoordinatorAwake, Deciding,
                          Fields, Plain, Flags, Tasks
<1>5. Replies(t)
  BY <1>1 DEF Replies
<1>6. Places(t)
  <2>1. (Serving(t) <=> Serving(s)) /\ (Early(t) => Early(s))
    BY <1>2 DEF Serving, Early, Tasks
  <2>2. s.pc.deadline # "refusing" /\ ~Serving(s) /\ ~Early(s)
        /\ s.pc.handler \notin {"accepting", "rejecting", "refusing"}
    BY DEF Sound, Places
  <2> QED
    BY <1>1, <1>2, <2>1, <2>2 DEF Places
<1> QED
  BY <1>1, <1>3, <1>4, <1>5, <1>6 DEF Sound, t

LEMMA HandshakeDeadlineSound ==
    ASSUME NEW s, Sound(s), Deciding(s), s.pc.deadline # "refusing"
    PROVE  Sound(HandshakeDeadline(s))
<1>1. CASE s.ws.handshake_state = "pending"
  BY <1>1, ClaimSound DEF HandshakeDeadline
<1>2. CASE s.ws.handshake_state # "pending"
  <2> DEFINE a == FailHandshake(s)
             b == CancelHandler(a)
             t == Set(b, "deadline", "returned")
  <2>0. HandshakeDeadline(s) = t
    BY <1>2 DEF HandshakeDeadline
  <2>1. /\ Core(a) /\ Wakes(s, a) /\ a.ws.handshake_state = "failed"
        /\ Like(a, s, {"handshake_state", "protocol", "disconnect", "signals"}, {})
    BY FailHandshakeCore DEF Sound
  <2> HIDE DEF a
  <2>2. /\ Core(b) /\ Wakes(a, b) /\ ~Alive(b.pc, "handler") /\ (Waits(a) => Waits(b))
        /\ Like(b, a, {"disconnect", "signals", "ping", "ack", "flushed"}, {"handler"})
    BY <2>1, CancelHandlerCore
  <2> HIDE DEF b
  <2>3. b.pc.handler \notin {"accepting", "rejecting", "refusing"}
    BY <2>2 DEF Alive, Ended
  <2>4. /\ b.ws.handshake_state = "failed" /\ b.ws.active_command = s.ws.active_command
        /\ \A u \in Tasks \ {"handler"} : b.pc[u] = s.pc[u]
    BY <2>1, <2>2 DEF Like, Fields, Plain, Flags
  <2>5. Awake(b) /\ Writing(b) /\ Waits(b)
    <3>1. Waits(a)
      BY <2>1 DEF Sound, Waits, Like, Fields, Tasks
    <3> QED
      BY <2>1, <2>2, <2>4, <3>1 DEF Sound, Awake, Wakes, Writing, Tasks
  <2>6. Replies(b) /\ Places(b)
    <3>1. s.ws.handshake_state # "accepted"
      BY DEF Deciding, Undecided
    <3>2. ~Serving(s) /\ ~Early(s)
      BY <3>1 DEF Sound, Places
    <3>3. ~Serving(b) /\ ~Early(b)
      BY <2>4, <3>2 DEF Serving, Early, Tasks
    <3> QED
      BY <2>3, <2>4, <3>3 DEF Replies, Places
  <2>7. Sound(b)
    BY <2>2, <2>5, <2>6 DEF Sound
  <2> QED
    BY <2>0, <2>7, SetSound
<1> QED
  BY <1>1, <1>2

LEMMA OpenDeadlinesSound ==
    ASSUME NEW s, Sound(s), s.ws.handshake_state # "pending", NEW late
    PROVE  /\ Sound(OpenDeadlines(s, late))
           /\ OpenDeadlines(s, late).ws.handshake_state = s.ws.handshake_state
<1> DEFINE t == IF late \cap {"pong", "idle"} # {} THEN BeginDeadlineClose(s) ELSE s
<1>1. Sound(t) /\ t.ws.handshake_state = s.ws.handshake_state
  <2>1. Closes(s, BeginDeadlineClose(s))
    BY BeginDeadlineCloseCloses DEF Sound
  <2> QED
    BY <2>1, ClosedSound
<1>2. OpenDeadlines(s, late) =
         IF late \cap {"write", "close"} # {} THEN Expire(t) ELSE DeadlineLoops(t)
  BY DEF OpenDeadlines
<1> HIDE DEF t
<1>3. Sound(DeadlineLoops(t)) /\ DeadlineLoops(t).ws.handshake_state = t.ws.handshake_state
  BY <1>1, SetSound DEF DeadlineLoops
<1> QED
  BY <1>1, <1>2, <1>3, ExpireSound

\* Nobody waits for the writer that the finally clause cancels.
LEMMA FinishSound ==
    ASSUME NEW s, Core(s), Writing(s), Waits(s), Places(s), ~Deciding(s),
           s.pc.coordinator \in {"deciding", "lingering"}
    PROVE  /\ Sound(Finish(s)) /\ Finish(s).ws.handshake_state \in {s.ws.handshake_state, "failed"}
<1> DEFINE a == RequestShutdown(s)
           b == CancelHandler(a)
           t == CancelWriter(b)
           p == [task \in Tasks |-> IF task = "coordinator" THEN "returned"
                                    ELSE IF Alive(t.pc, task) THEN "cancelled" ELSE t.pc[task]]
           u == [t EXCEPT !.pc = p]
<1>0. Finish(s) = u
  BY DEF Finish
<1>1. /\ Core(a) /\ Waits(a)
      /\ Like(a, s, Fields \ {"replies", "active_command"}, {"handler"})
      /\ a.ws.handshake_state \in {s.ws.handshake_state, "failed"}
      /\ s.ws.handshake_state = "accepted" => a.ws.handshake_state = "accepted"
      /\ ~Deciding(a)
  BY RequestShutdownCore
<1> HIDE DEF a
<1>2. /\ Core(b) /\ Waits(b)
      /\ Like(b, a, {"disconnect", "signals", "ping", "ack", "flushed"}, {"handler"})
      /\ ~Alive(b.pc, "handler")
  BY <1>1, CancelHandlerCore
<1> HIDE DEF b
<1>3. /\ \A w \in Tasks \ {"handler"} : b.pc[w] = s.pc[w]
      /\ b.ws.active_command = s.ws.active_command
      /\ b.ws.handshake_state = a.ws.handshake_state
  BY <1>1, <1>2 DEF Like, Fields, Plain, Flags
<1>4. \A w \in Waiters : b.ws.ack[w] # "pending"
  BY <1>2, <1>3 DEF Waits, Waiters, Alive, Ended, Tasks
<1>5. /\ Core(t) /\ Waits(t) /\ Writing(t) /\ ~Alive(t.pc, "writer")
      /\ Like(t, b, {"ack", "active_command"}, {"writer"})
      /\ t.pc.writer = "unspawned" <=> b.pc.writer = "unspawned"
  <2>1. Writing(b)
    BY <1>3 DEF Writing, Tasks
  <2> QED
    BY <1>2, <1>4, <2>1, CancelWriterCore
<1>6. /\ \A w \in Tasks \ {"handler", "writer"} : t.pc[w] = s.pc[w]
      /\ ~Alive(t.pc, "handler") /\ t.pc.handler = b.pc.handler
      /\ t.ws.handshake_state = a.ws.handshake_state
      /\ t.pc.writer = "unspawned" <=> s.pc.writer = "unspawned"
      /\ ~Deciding(t)
  BY <1>1, <1>2, <1>3, <1>5 DEF Like, Fields, Plain, Flags, Tasks, Alive, Deciding
<1> HIDE DEF t
<1>7. /\ u.ws = t.ws /\ u.pc = p /\ u = [ws |-> u.ws, pc |-> u.pc]
  <2>1. t = [ws |-> t.ws, pc |-> t.pc]
    BY <1>5 DEF Core, Typed, IsState
  <2> HIDE DEF p
  <2> QED
    BY <2>1
<1>8. /\ p = [w \in Tasks |-> p[w]]
      /\ p.coordinator = "returned" /\ p.handler = t.pc.handler /\ p.writer = t.pc.writer
      /\ \A w \in {"reader", "deadline"} : ~Alive(p, w) /\ (p[w] = t.pc[w] \/ (p[w] = "cancelled" /\ Alive(t.pc, w)))
  BY <1>5, <1>6 DEF Tasks, Alive, Ended
<1> HIDE DEF u, p
<1>9. Core(u)
  <2>1. IsState(u)
    BY <1>5, <1>7, <1>8 DEF Core, Typed, IsState
  <2> QED
    BY <1>5, <1>7, <2>1 DEF Core, Typed, Flushes, Serves, Owned
<1>10. Writing(u) /\ Waits(u)
  <2>1. Writing(u)
    BY <1>5, <1>7, <1>8 DEF Writing
  <2>2. t.ws.ack["coordinator"] = "none"
    BY <1>5, <1>6 DEF Waits, Tasks
  <2> QED
    BY <1>5, <1>7, <1>8, <2>1, <2>2 DEF Waits
<1>11. Awake(u)
  BY <1>5, <1>6, <1>7, <1>8 DEF Awake, HandlerAwake, WriterAwake, CoordinatorAwake, Alive, Ended
<1>12. Replies(u)
  BY <1>6, <1>7 DEF Replies, Deciding, Undecided
<1>13. Places(u)
  <2>1. p.handler \notin {"accepting", "rejecting", "refusing"} /\ p.deadline # "refusing"
    BY <1>6, <1>8 DEF Alive, Ended
  <2>2. Serving(u) => Serving(s)
    BY <1>6, <1>7, <1>8 DEF Serving, Alive, Tasks
  <2>0. ~Early(u)
    BY <1>7, <1>8 DEF Early
  <2>3. Serving(s) => u.ws.handshake_state = "accepted"
    BY <1>1, <1>6, <1>7 DEF Places
  <2> QED
    BY <1>7, <2>0, <2>1, <2>2, <2>3 DEF Places
<1> QED
  BY <1>0, <1>1, <1>6, <1>7, <1>9, <1>10, <1>11, <1>12, <1>13 DEF Sound

-----------------------------------------------------------------------------
(* Every step keeps the invariant. *)

IInv == Sound(Now) /\ input \in 0..MaxInput /\ ops \in 0..MaxOps

\* A failed handshake is never taken for an accepted one.
StaysFailed == ws.handshake_state = "failed" => ws'.handshake_state # "accepted"

LEMMA Became ==
    ASSUME NEW s, Sound(s), Becomes(s)
    PROVE  Sound(Now)' /\ Now' = s /\ ws' = s.ws
<1>1. s = [ws |-> s.ws, pc |-> s.pc]
  BY DEF Sound, Core, Typed, IsState
<1>2. Now' = s
  BY <1>1 DEF Becomes, Now
<1>3. ws' = s.ws
  BY DEF Becomes
<1> QED
  BY <1>2, <1>3

LEMMA ServerShutsDownStep == Sound(Now) /\ ServerShutsDown => Sound(Now)' /\ StaysFailed
<1> SUFFICES ASSUME Sound(Now), ServerShutsDown
             PROVE  Sound(Now)' /\ StaysFailed
  OBVIOUS
<1>1. Becomes(RequestShutdown(Now)) /\ Now.ws = ws
  BY DEF ServerShutsDown, Now
<1>2. /\ Sound(RequestShutdown(Now))
      /\ RequestShutdown(Now).ws.handshake_state \in {ws.handshake_state, "failed"}
  BY <1>1, ShutdownSound
<1> QED
  BY <1>1, <1>2, Became DEF StaysFailed

LEMMA ReaderStep == Sound(Now) /\ Reader => Sound(Now)'
<1> SUFFICES ASSUME Sound(Now), Reader
             PROVE  Sound(Now)'
  OBVIOUS
<1>1. pc.reader # "unspawned" /\ Now.pc.reader = pc.reader
  BY DEF Reader, ReaderReceives, ReaderStarts, Now
<1>2. Now.ws.handshake_state # "pending"
  BY <1>1 DEF Sound, Places, Serving
<1>3. CASE ReaderReceives
  <2>1. PICK frame \in Frames : Becomes(Received(Now, frame))
    BY <1>3 DEF ReaderReceives
  <2> QED
    BY <1>1, <1>2, <2>1, Became, ReceivedSound
<1>4. CASE ReaderStarts
  BY <1>1, <1>4, Became, ReaderLoopsSound DEF ReaderStarts
<1> QED
  BY <1>3, <1>4 DEF Reader

LEMMA WriterStep == Sound(Now) /\ Writer => Sound(Now)'
<1> SUFFICES ASSUME Sound(Now), Writer
             PROVE  Sound(Now)'
  OBVIOUS
<1>1. pc.writer # "unspawned" /\ Now.pc = pc /\ Now.ws = ws
  BY DEF Writer, WriterWakes, WriterFlushes, WriterSendFails, Now
<1>2. Now.ws.handshake_state = "accepted"
  BY <1>1 DEF Sound, Places, Serving
<1>3. CASE WriterWakes /\ pc.writer = "spawned"
  <2>1. Now.ws.active_command = Idle
    BY <1>1, <1>3 DEF Sound, Writing
  <2>2. Becomes(WriterRuns(Now))
    BY <1>3 DEF WriterWakes
  <2>3. Sound(WriterRuns(Now))
    BY <1>1, <1>2, <2>1, WriterRunsSound DEF Sound, Awake
  <2> QED
    BY <2>2, <2>3, Became
<1>4. CASE WriterWakes /\ pc.writer = "waiting"
  <2> DEFINE v == ws.signals \ {"outbox"}
             s == Put(Now, "signals", v)
  <2>1. Becomes(WriterRuns(s))
    BY <1>1, <1>4 DEF WriterWakes, Put
  <2>2. Fits("signals", v)
    <3>1. Fits("signals", ws["signals"])
      BY <1>1 DEF Sound, Core, Typed, Plain
    <3> QED
      BY <3>1 DEF Fits, Flags
  <2>3. Core(s) /\ Like(s, Now, {"signals"}, {}) /\ s.ws.signals = v
    <3>1. Core(Now) /\ "signals" \in Plain
      BY DEF Sound, Plain
    <3> HIDE DEF v
    <3> QED
      BY <2>2, <3>1, PutCore
  <2> HIDE DEF s
  <2>4. /\ s.ws.active_command = Idle /\ s.ws.handshake_state = "accepted"
        /\ HandlerAwake(s) /\ CoordinatorAwake(s) /\ Waits(s) /\ Replies(s) /\ Places(s)
        /\ s.pc.writer # "unspawned"
    <3>1. \A f \in Fields \ {"signals"} : s.ws[f] = Now.ws[f]
      BY <2>3 DEF Like
    <3>2. \A u \in Tasks : s.pc[u] = Now.pc[u]
      BY <2>3 DEF Like
    <3>3. Now.ws.active_command = Idle
      BY <1>1, <1>4 DEF Sound, Writing
    <3>4. s.ws.active_command = Idle /\ s.ws.handshake_state = "accepted"
      BY <1>2, <3>1, <3>3 DEF Fields, Plain
    <3>5. HandlerAwake(s) /\ CoordinatorAwake(s)
      BY <1>1, <2>3, <3>1, <3>2 DEF Sound, Awake, HandlerAwake, CoordinatorAwake, Deciding, Fields,
                                    Plain, Flags, Tasks
    <3>6. Waits(s) /\ Replies(s) /\ Places(s)
      BY <3>1, <3>2 DEF Sound, Waits, Replies, Places, Serving, Early, Fields, Plain, Tasks
    <3>7. s.pc.writer # "unspawned"
      BY <1>1, <3>2 DEF Tasks
    <3> QED
      BY <3>4, <3>5, <3>6, <3>7
  <2> QED
    BY <2>1, <2>3, <2>4, WriterRunsSound, Became
<1>5. CASE WriterFlushes
  <2> DEFINE w == ws.active_command.waiter
             F == ws.flushed \cup ({w} \ {"nobody"})
             V == [u \in Waiters |->
                      IF u \in {w} /\ ws.ack[u] = "pending" THEN "ok" ELSE ws.ack[u]]
             s == Put(Put(Put(Now, "ack", V), "active_command", Idle), "flushed", F)
             x == Put(Now, "flushed", F)
             y == Acknowledge(x, {w}, "ok")
             z == Put(y, "active_command", Idle)
  <2>1. Becomes(WriterRuns(s))
    <3> DEFINE a == Acknowledge(Now, {w}, "ok")
    <3>1. Becomes(WriterRuns([a EXCEPT !.ws.active_command = Idle,
                                       !.ws.flushed = @ \cup ({w} \ {"nobody"})]))
      BY <1>5 DEF WriterFlushes
    <3>2. a = Put(Now, "ack", V)
      BY <1>1 DEF Acknowledge, Put
    <3>3. a.ws.flushed = ws.flushed
      <4>1. IsState(Now) /\ "ack" \in Fields /\ IsAck(V)
        BY DEF Sound, Core, Typed, Fields, IsAck
      <4>2. \A f \in Fields \ {"ack"} : a.ws[f] = Now.ws[f]
        <5> HIDE DEF a, V
        <5> QED
          BY <3>2, <4>1, PutLike DEF Like
      <4> QED
        BY <1>1, <4>2 DEF Fields, Plain, Flags
    <3> HIDE DEF a
    <3>4. [a EXCEPT !.ws.active_command = Idle, !.ws.flushed = @ \cup ({w} \ {"nobody"})]
            = Put(Put(a, "active_command", Idle), "flushed", F)
      BY <3>3 DEF Put
    <3> QED
      BY <3>1, <3>2, <3>4
  <2>2. w \in Waiters /\ Core(Now) /\ Now.ws.ack["nobody"] = "none"
    BY <1>1 DEF Sound, Core, Typed, Command, Idle, Waiters, Waits
  <2>3. Core(x) /\ Like(x, Now, {"flushed"}, {}) /\ x.ws.flushed = F
    <3>1. F \in SUBSET Waiters /\ \A u \in Waiters : Now.ws.ack[u] = "ok" => u \in F
      BY <1>1, <2>2 DEF Core, Typed, Flushes
    <3> HIDE DEF F
    <3> QED
      BY <2>2, <3>1, PutFlushed
  <2>4. x.ws.ack = ws.ack
    BY <1>1, <2>3 DEF Like, Fields
  <2>5. y = Put(x, "ack", V)
    BY <2>4 DEF Acknowledge, Put
  <2> HIDE DEF x
  <2>6. /\ Core(y) /\ Wakes(x, y) /\ Like(y, x, {"ack"}, {})
        /\ y.ws.ack[w] # "pending"
        /\ Waits(x) => Waits(y)
    <3>1. \A u \in Waiters : u \in {w} /\ x.ws.ack[u] = "pending" => u \in x.ws.flushed
      BY <1>1, <2>2, <2>3, <2>4
    <3> HIDE DEF F, V, w
    <3> QED
      BY <2>2, <2>3, <3>1, AcknowledgeCore
  <2>7. s = z
    <3>1. IsState(Now) /\ IsState(x)
      BY <2>2, <2>3 DEF Core, Typed
    <3>2. IsState(Put(Now, "ack", V))
      <4>1. IsAck(V)
        BY DEF IsAck
      <4> HIDE DEF V
      <4> QED
        BY <3>1, <4>1, PutLike DEF Like, Fields
    <3> HIDE DEF V, F
    <3>3. Put(Put(Put(Now, "ack", V), "active_command", Idle), "flushed", F)
          = Put(Put(Put(Now, "ack", V), "flushed", F), "active_command", Idle)
      BY <3>2, PutSwap DEF Fields
    <3>4. Put(Put(Now, "ack", V), "flushed", F) = Put(x, "ack", V)
      BY <3>1, PutSwap DEF Fields, x
    <3> QED
      BY <2>5, <3>3, <3>4
  <2> HIDE DEF y, s
  <2>8. Core(z) /\ Like(z, y, {"active_command"}, {}) /\ z.ws.active_command = Idle
    <3>1. y.ws.active_command = Now.ws.active_command
      BY <2>3, <2>6 DEF Like, Fields
    <3>2. \A u \in Waiters \ {"nobody"} : y.ws.ack[u] = "pending" =>
             Idle.waiter = u \/ \E i \in DOMAIN y.ws.outbox : y.ws.outbox[i].waiter = u
      BY <1>1, <2>6, <3>1 DEF Core, Serves, Owned
    <3> QED
      BY <2>6, <3>2, PutActive
  <2> HIDE DEF z
  <2>9. Like(z, Now, {"flushed", "ack", "active_command"}, {})
    BY <2>3, <2>6, <2>8 DEF Like
  <2>10. Waits(z)
    <3>1. Waits(x)
      BY <2>3, <2>4, <1>1 DEF Sound, Waits, Like, Tasks
    <3> QED
      BY <2>6, <2>8, <3>1 DEF Waits, Like, Fields, Tasks
  <2>11. /\ z.ws.handshake_state = "accepted" /\ HandlerAwake(z) /\ CoordinatorAwake(z)
         /\ Replies(z) /\ Places(z) /\ z.pc.writer # "unspawned"
    <3>1. \A f \in Fields \ {"flushed", "ack", "active_command"} : z.ws[f] = Now.ws[f]
      BY <2>9 DEF Like
    <3>2. \A u \in Tasks : z.pc[u] = Now.pc[u]
      BY <2>9 DEF Like
    <3>3. z.ws.handshake_state = "accepted"
      BY <1>2, <3>1 DEF Fields, Plain
    <3>4. HandlerAwake(z) /\ CoordinatorAwake(z)
      BY <3>1, <3>2 DEF Sound, Awake, HandlerAwake, CoordinatorAwake, Deciding, Fields,
                        Plain, Flags, Tasks
    <3>5. Replies(z) /\ Places(z)
      BY <3>1, <3>2 DEF Sound, Replies, Places, Serving, Early, Fields, Plain, Tasks
    <3>6. z.pc.writer # "unspawned"
      BY <1>1, <3>2 DEF Tasks
    <3> QED
      BY <3>3, <3>4, <3>5, <3>6
  <2> QED
    BY <2>1, <2>7, <2>8, <2>10, <2>11, WriterRunsSound, Became
<1>6. CASE WriterSendFails
  <2> DEFINE w == ws.active_command.waiter
             x == Acknowledge(Now, {w}, "error")
             y == Disconnect(x)
             k == CancelHandler(y)
             z == Put(k, "active_command", Idle)
  <2>1. Becomes(WriterRuns(z))
    BY <1>6 DEF WriterSendFails, Put
  <2>2. Core(Now) /\ Waits(Now)
    BY DEF Sound
  <2> HIDE DEF w
  <2>3. /\ Core(x) /\ Wakes(Now, x) /\ Like(x, Now, {"ack"}, {}) /\ Waits(x)
        /\ \A u \in Waiters : u = w => x.ws.ack[u] # "pending"
    BY <2>2, AcknowledgeCore
  <2> HIDE DEF x
  <2>4. Core(y) /\ Wakes(x, y) /\ Like(y, x, {"disconnect", "signals"}, {})
    BY <2>3, DisconnectCore
  <2> HIDE DEF y
  <2>5. Waits(y)
    BY <2>3, <2>4 DEF Waits, Like, Fields, Tasks
  <2>6. /\ Core(k) /\ Wakes(y, k) /\ Waits(k) /\ ~Alive(k.pc, "handler")
        /\ Like(k, y, {"disconnect", "signals", "ping", "ack", "flushed"}, {"handler"})
        /\ k.pc.handler \in {y.pc.handler, "cancelled"}
        /\ \A u \in Waiters \ {"handler"} : k.ws.ack[u] = y.ws.ack[u]
    BY <2>4, <2>5, CancelHandlerCore
  <2> HIDE DEF k
  <2>7. k.ws.active_command = ws.active_command /\ y.ws.ack = x.ws.ack
    BY <1>1, <2>3, <2>4, <2>6 DEF Like, Fields, Plain, Flags
  <2>8. Core(z) /\ Like(z, k, {"active_command"}, {}) /\ z.ws.active_command = Idle
    <3>1. k.ws.ack["handler"] = "none"
      BY <2>6 DEF Waits, Alive, Ended
    <3>2. \A u \in Waiters : u = w => k.ws.ack[u] # "pending"
      BY <2>3, <2>6, <2>7, <3>1
    <3>3. \A u \in Waiters \ {"nobody"} : k.ws.ack[u] = "pending" =>
             Idle.waiter = u \/ \E i \in DOMAIN k.ws.outbox : k.ws.outbox[i].waiter = u
      BY <2>6, <2>7, <3>2 DEF Core, Serves, Owned, w
    <3> QED
      BY <2>6, <3>3, PutActive
  <2> HIDE DEF z
  <2>9. /\ Like(z, Now, {"disconnect", "signals", "ping", "ack", "flushed", "active_command"},
                   {"handler"})
        /\ z.pc.handler \in {Now.pc.handler, "cancelled"}
    BY <2>3, <2>4, <2>6, <2>8 DEF Like, Tasks
  <2>10. Waits(z) /\ HandlerAwake(z) /\ CoordinatorAwake(z)
    <3>1. /\ \A f \in Fields \ {"active_command"} : z.ws[f] = k.ws[f]
          /\ \A u \in Tasks : z.pc[u] = k.pc[u]
      BY <2>8 DEF Like
    <3>2. HandlerAwake(k) /\ CoordinatorAwake(k)
      BY <2>3, <2>4, <2>6 DEF Wakes, Sound, Awake
    <3> QED
      BY <2>6, <3>1, <3>2 DEF Waits, HandlerAwake, CoordinatorAwake, Deciding, Fields,
                              Plain, Flags, Tasks
  <2>11. z.ws.handshake_state = "accepted" /\ Replies(z) /\ Places(z)
         /\ z.pc.writer # "unspawned"
    <3>1. z.ws.handshake_state = "accepted" /\ z.ws.replies = Now.ws.replies
      BY <1>2, <2>9 DEF Like, Fields, Plain, Flags
    <3>2. \A u \in Tasks \ {"handler"} : z.pc[u] = Now.pc[u]
      BY <2>9 DEF Like
    <3>3. Replies(z)
      BY <3>1 DEF Replies
    <3>4. Places(z)
      BY <1>2, <2>9, <3>1, <3>2 DEF Sound, Places, Early, Tasks
    <3>5. z.pc.writer # "unspawned"
      BY <1>1, <3>2 DEF Tasks
    <3> QED
      BY <3>1, <3>3, <3>4, <3>5
  <2> QED
    BY <2>1, <2>8, <2>10, <2>11, WriterRunsSound, Became
<1> QED
  BY <1>3, <1>4, <1>5, <1>6 DEF Writer, WriterWakes

\* The response has been sent: the coordinator is told what was decided.
LEMMA DecidedSound ==
    ASSUME NEW s, Sound(s), ~Serving(s), NEW task, NEW label, NEW state,
           label \in {"running", "returned"}, state \in {"accepted", "rejected"},
           \/ task = "handler" /\ s.pc.deadline # "refusing" /\ s.ws.ack["handler"] = "none"
           \/ task = "deadline" /\ s.pc.handler \notin {"accepting", "rejecting", "refusing"}
    PROVE  LET t == Signal(Put(Set(s, task, label), "handshake_state", state), "decision")
           IN  Sound(t) /\ t.ws.handshake_state = state
<1> DEFINE a == Set(s, task, label)
           b == Put(a, "handshake_state", state)
           t == Signal(b, "decision")
<1>1. Core(a) /\ Like(a, s, {}, {task}) /\ a.pc[task] = label
  <2>1. Core(s) /\ task \in Tasks
    BY DEF Sound, Tasks
  <2> QED
    BY <2>1, SetCore
<1> HIDE DEF a
<1>2. Core(b) /\ Like(b, a, {"handshake_state"}, {}) /\ b.ws.handshake_state = state
  <2>1. Fits("handshake_state", state)
    BY DEF Fits, Flags, States
  <2> QED
    BY <1>1, <2>1, PutCore DEF Plain
<1> HIDE DEF b
<1>3. /\ Core(t) /\ Like(t, b, {"signals"}, {})
      /\ t.ws.signals = b.ws.signals \cup {"decision"}
  BY <1>2, SignalCore DEF Signals
<1> HIDE DEF t
<1>4. /\ \A f \in Fields \ {"handshake_state", "signals"} : t.ws[f] = s.ws[f]
      /\ \A u \in Tasks \ {task} : t.pc[u] = s.pc[u]
      /\ t.ws.handshake_state = state /\ t.pc[task] = label
      /\ t.ws.signals = s.ws.signals \cup {"decision"}
  BY <1>1, <1>2, <1>3 DEF Like, Fields, Plain, Flags, Tasks
<1>5. Writing(t) /\ Waits(t)
  BY <1>4 DEF Sound, Writing, Waits, Fields, Tasks
<1>6. Awake(t)
  BY <1>4 DEF Sound, Awake, HandlerAwake, WriterAwake, CoordinatorAwake, Fields, Plain, Flags, Tasks
<1>7. Replies(t)
  BY <1>4 DEF Sound, Replies, Tasks
<1>8. Places(t)
  BY <1>4 DEF Sound, Places, Serving, Early, Tasks
<1> QED
  BY <1>3, <1>4, <1>5, <1>6, <1>7, <1>8 DEF Sound, t, b, a

LEMMA DeadlineStep == Sound(Now) /\ Deadline => Sound(Now)' /\ StaysFailed
<1> SUFFICES ASSUME Sound(Now), Deadline
             PROVE  Sound(Now)' /\ StaysFailed
  OBVIOUS
<1>1. Now.pc = pc /\ Now.ws = ws /\ Core(Now)
  BY DEF Now, Sound
<1>2. ASSUME NEW late \in SUBSET Armed(Now), DeadlineWakes(late)
      PROVE  Sound(Now)' /\ StaysFailed
  <2>1. Now.pc.deadline # "refusing"
    BY <1>1, <1>2 DEF DeadlineWakes
  <2>2. CASE ~Deciding(Now)
    <3>1. Becomes(OpenDeadlines(Now, late)) /\ Now.ws.handshake_state # "pending"
      BY <1>2, <2>2 DEF DeadlineWakes, Deciding, Undecided
    <3> QED
      BY <1>1, <3>1, OpenDeadlinesSound, Became DEF StaysFailed
  <2>3. ASSUME Deciding(Now), "handshake" \in late
        PROVE  Sound(Now)'
    <3>1. Becomes(HandshakeDeadline(Now))
      BY <1>2, <2>3 DEF DeadlineWakes
    <3> QED
      BY <2>1, <2>3, <3>1, HandshakeDeadlineSound, Became
  <2>4. ASSUME Deciding(Now), "handshake" \notin late
        PROVE  Sound(Now)'
    <3>1. Becomes(DeadlineLoops(Now))
      BY <1>2, <2>4 DEF DeadlineWakes
    <3>2. Sound(DeadlineLoops(Now))
      BY SetSound DEF DeadlineLoops
    <3> QED
      BY <3>1, <3>2, Became
  <2>5. Deciding(Now) => StaysFailed
    BY <1>1 DEF Deciding, Undecided, StaysFailed
  <2> QED
    BY <2>2, <2>3, <2>4, <2>5
\* The 408 has been sent, or it has not.
<1>3. CASE DeadlineReplied
  <2> DEFINE a == Set(Now, "deadline", "returned")
  <2>1. /\ Core(a) /\ Like(a, Now, {}, {"deadline"}) /\ a.pc.deadline = "returned"
        /\ Sound(a)
    BY <1>1, SetCore, SetSound DEF Tasks
  <2>2. /\ a.ws.handshake_state \in {"rejecting", "failed"}
        /\ a.pc.handler \notin {"accepting", "rejecting", "refusing"}
        /\ ~Serving(a) /\ ~Early(a)
    <3>1. /\ Now.ws.handshake_state \in {"rejecting", "failed"}
          /\ Now.pc.handler \notin {"accepting", "rejecting", "refusing"}
          /\ ~Serving(Now) /\ ~Early(Now)
      BY <1>1, <1>3 DEF DeadlineReplied, Sound, Places
    <3> QED
      BY <2>1, <3>1 DEF Like, Serving, Early, Fields, Plain, Tasks
  <2>3. CASE Becomes(Signal(Put(a, "handshake_state", "rejected"), "decision"))
    <3>1. /\ Now.ws.handshake_state \in {"rejecting", "failed"} /\ ~Serving(Now)
          /\ Now.pc.handler \notin {"accepting", "rejecting", "refusing"}
      BY <1>1, <1>3 DEF DeadlineReplied, Sound, Places
    <3> DEFINE t == Signal(Put(a, "handshake_state", "rejected"), "decision")
    <3>2. Sound(t) /\ t.ws.handshake_state = "rejected"
      BY <3>1, DecidedSound
    <3> HIDE DEF t
    <3> QED
      BY <2>3, <3>2, Became DEF t, StaysFailed
  <2>4. CASE Becomes(Disconnect(FailHandshake(a)))
    <3> DEFINE b == FailHandshake(a)
               t == Disconnect(b)
    <3> HIDE DEF a
    <3>1. /\ Core(b) /\ Wakes(a, b) /\ b.ws.handshake_state = "failed"
          /\ Like(b, a, {"handshake_state", "protocol", "disconnect", "signals"}, {})
      BY <2>1, FailHandshakeCore
    <3> HIDE DEF b
    <3>2. Core(t) /\ Wakes(b, t) /\ Like(t, b, {"disconnect", "signals"}, {})
      BY <3>1, DisconnectCore
    <3> HIDE DEF t
    <3>3. /\ Like(t, a, {"handshake_state", "protocol", "disconnect", "signals"}, {})
          /\ t.ws.handshake_state = "failed"
      BY <3>1, <3>2 DEF Like, Fields, Plain, Flags
    <3>4. Awake(t)
      BY <2>1, <3>1, <3>2 DEF Sound, Awake, Wakes
    <3>5. Writing(t) /\ Waits(t)
      BY <2>1, <3>3 DEF Sound, Writing, Waits, Like, Fields, Tasks
    <3>6. Replies(t) /\ Places(t)
      BY <2>1, <2>2, <3>3 DEF Replies, Places, Serving, Early, Like, Tasks
    <3>7. Sound(t) /\ Becomes(t)
      BY <2>4, <3>2, <3>4, <3>5, <3>6 DEF Sound, b, t
    <3> QED
      BY <3>3, <3>7, Became DEF StaysFailed
  <2> QED
    BY <1>3, <2>3, <2>4 DEF DeadlineReplied, Put
<1> QED
  BY <1>2, <1>3 DEF Deadline

\* The coordinator moves on, once the connection is accepted.
LEMMA SetCoordinatorSound ==
    ASSUME NEW s, Core(s), Writing(s), Awake(s), Replies(s), Places(s),
           s.ws.handshake_state = "accepted", NEW label, label # "deciding",
           s.ws.ack["nobody"] = "none",
           s.ws.ack["handler"] # "none" => s.pc.handler \in {"sending", "pinging", "closing"},
           s.ws.ack["coordinator"] # "none" => label = "closing"
    PROVE  Sound(Set(s, "coordinator", label))
<1> DEFINE t == Set(s, "coordinator", label)
<1>1. Core(t) /\ Like(t, s, {}, {"coordinator"}) /\ t.pc.coordinator = label
  BY SetCore DEF Tasks
<1> HIDE DEF t
<1>2. /\ \A f \in Fields : t.ws[f] = s.ws[f]
      /\ \A u \in Tasks \ {"coordinator"} : t.pc[u] = s.pc[u]
  BY <1>1 DEF Like
<1>3. Writing(t) /\ Waits(t)
  BY <1>1, <1>2 DEF Writing, Waits, Fields, Tasks
<1>4. Awake(t)
  BY <1>1, <1>2 DEF Awake, HandlerAwake, WriterAwake, CoordinatorAwake, Fields, Plain, Flags, Tasks
<1>5. /\ t.ws.handshake_state = s.ws.handshake_state /\ t.ws.replies = s.ws.replies
      /\ t.pc.handler = s.pc.handler /\ t.pc.deadline = s.pc.deadline
      /\ ~Early(t)
  BY <1>1, <1>2 DEF Fields, Plain, Tasks, Early
<1> QED
  BY <1>1, <1>3, <1>4, <1>5, Quietly DEF t

LEMMA CloseAndWaitSound ==
    ASSUME NEW s, Sound(s), s.ws.ack["coordinator"] = "none", s.ws.handshake_state = "accepted"
    PROVE  Sound(CloseAndWait(s))
<1> DEFINE yes == TRUE
           t == Put(s, "close_deadline", yes)
           u == EnqueueAndWait(t, "close", "coordinator")
<1>0. CloseAndWait(s) = IF Full(s) THEN Set(t, "coordinator", "lingering")
                        ELSE Set(u, "coordinator", "closing")
  BY DEF CloseAndWait, Put
<1>1. yes \in BOOLEAN /\ "close_deadline" \in Flags \ {"shutdown", "disconnect"}
  BY DEF Flags
<1> HIDE DEF yes
<1>2. Core(t) /\ Closes(s, t) /\ Like(t, s, {"close_deadline"}, {})
  <2>1. Core(s)
    BY DEF Sound
  <2> QED
    BY <1>1, <2>1, CloseSteps, NoteCore, Zenon
<1> HIDE DEF t
<1>3. Sound(t) /\ t.ws.handshake_state = "accepted" /\ t.ws.ack = s.ws.ack
      /\ t.ws.outbox = s.ws.outbox
  BY <1>2, ClosedSound DEF Like, Fields
<1>4. Sound(Set(t, "coordinator", "lingering"))
  BY <1>3, SetCoordinatorSound DEF Sound, Waits
<1>5. CASE ~Full(s)
  <2>1. /\ Core(u) /\ Wakes(t, u)
        /\ Like(u, t, {"outbox", "signals", "ack", "flushed"}, {})
        /\ \A w \in Waiters \ {"coordinator"} : u.ws.ack[w] = t.ws.ack[w]
    <3>1. ~Full(t)
      BY <1>3, <1>5 DEF Full
    <3> QED
      BY <1>2, <3>1, EnqueueAndWaitCore DEF Events, Waiters
  <2> HIDE DEF u
  <2>2. /\ u.ws.handshake_state = t.ws.handshake_state /\ u.ws.replies = t.ws.replies
        /\ u.ws.active_command = t.ws.active_command
        /\ \A x \in Tasks : u.pc[x] = t.pc[x]
    BY <2>1 DEF Like, Fields, Plain, Flags
  <2>3. Writing(u) /\ Awake(u) /\ Replies(u) /\ Places(u)
    <3>1. Writing(u) /\ Replies(u) /\ Places(u)
      BY <1>3, <2>2 DEF Sound, Writing, Replies, Places, Serving, Early, Tasks
    <3> QED
      BY <1>3, <2>1, <3>1 DEF Sound, Awake, Wakes
  <2>4. /\ u.ws.ack["nobody"] = "none"
        /\ u.ws.ack["handler"] # "none" => u.pc.handler \in {"sending", "pinging", "closing"}
    BY <1>3, <2>1, <2>2 DEF Sound, Waits, Waiters, Tasks
  <2>5. Sound(Set(u, "coordinator", "closing"))
    BY <1>3, <2>1, <2>2, <2>3, <2>4, SetCoordinatorSound
  <2> QED
    BY <1>0, <1>5, <2>5 DEF u
<1> QED
  BY <1>0, <1>4, <1>5

LEMMA CoordinatorStep == Sound(Now) /\ Coordinator => Sound(Now)' /\ StaysFailed
<1> SUFFICES ASSUME Sound(Now), Coordinator
             PROVE  Sound(Now)' /\ StaysFailed
  OBVIOUS
<1>1. Now.pc = pc /\ Now.ws = ws /\ Core(Now)
  BY DEF Now, Sound
<1>2. CASE CoordinatorDecides
  <2> DEFINE v == ws.signals \ {"decision"}
             s == Put(Now, "signals", v)
             t == [s EXCEPT !.pc.coordinator = "joining",
                            !.pc.writer = "spawned", !.pc.reader = "spawned"]
  <2>1. /\ pc.coordinator = "deciding"
        /\ Becomes(IF Deciding(Now) THEN s ELSE IF ws.handshake_state # "accepted" THEN Finish(s) ELSE t)
    BY <1>1, <1>2 DEF CoordinatorDecides, Put
  <2>2. Fits("signals", v)
    <3>1. Fits("signals", ws["signals"])
      BY <1>1 DEF Core, Typed, Plain
    <3> QED
      BY <3>1 DEF Fits, Flags
  <2>3. Core(s) /\ Like(s, Now, {"signals"}, {}) /\ s.ws.signals = v
    <3>1. "signals" \in Plain
      BY DEF Plain
    <3> HIDE DEF v
    <3> QED
      BY <1>1, <2>2, <3>1, PutCore
  <2>4. /\ \A f \in Fields \ {"signals"} : s.ws[f] = ws[f]
        /\ \A u \in Tasks : s.pc[u] = pc[u]
    BY <1>1, <2>3 DEF Like
  <2> HIDE DEF s
  <2>5. Writing(s) /\ HandlerAwake(s) /\ WriterAwake(s) /\ Waits(s) /\ Replies(s) /\ Places(s)
    <3>1. HandlerAwake(s) /\ WriterAwake(s)
      BY <1>1, <2>3, <2>4 DEF Sound, Awake, HandlerAwake, WriterAwake, Fields, Plain, Flags, Tasks
    <3>2. Writing(s) /\ Waits(s) /\ Replies(s) /\ Places(s)
      BY <1>1, <2>4 DEF Sound, Writing, Waits, Replies, Places, Serving, Early, Fields, Plain, Tasks
    <3> QED
      BY <3>1, <3>2
  <2>6. s.ws.handshake_state = ws.handshake_state /\ s.pc.coordinator = "deciding"
    BY <2>1, <2>4 DEF Fields, Plain, Tasks
  <2>7. CASE Deciding(Now)
    <3>1. CoordinatorAwake(s)
      BY <1>1, <2>6, <2>7 DEF CoordinatorAwake, Deciding
    <3>2. Sound(s)
      BY <2>3, <2>5, <3>1 DEF Sound, Awake
    <3> QED
      BY <1>1, <2>1, <2>7, <3>2, Became DEF Deciding, Undecided, StaysFailed
  <2>8. CASE ~Deciding(Now) /\ ws.handshake_state # "accepted"
    <3>1. ~Deciding(s)
      BY <1>1, <2>6, <2>8 DEF Deciding
    <3>2. /\ Sound(Finish(s))
          /\ Finish(s).ws.handshake_state \in {ws.handshake_state, "failed"}
      BY <2>3, <2>5, <2>6, <3>1, FinishSound
    <3> QED
      BY <2>1, <2>8, <3>2, Became DEF StaysFailed
  <2>9. CASE ~Deciding(Now) /\ ws.handshake_state = "accepted"
    <3> DEFINE a == Set(s, "writer", "spawned")
               b == Set(a, "reader", "spawned")
               c == Set(b, "coordinator", "joining")
    <3>1. Core(a) /\ Like(a, s, {}, {"writer"}) /\ a.pc.writer = "spawned"
      BY <2>3, SetCore DEF Tasks
    <3>2. Core(b) /\ Like(b, a, {}, {"reader"})
      <4> HIDE DEF a
      <4> QED
        BY <3>1, SetCore DEF Tasks
    <3>3. Core(c) /\ Like(c, b, {}, {"coordinator"}) /\ c.pc.coordinator = "joining"
      <4> HIDE DEF b
      <4> QED
        BY <3>2, SetCore DEF Tasks
    <3>4. t = c
      BY <2>3 DEF Set, Core, Typed, IsState, Tasks
    <3> HIDE DEF a, b, c, t
    <3>5. /\ Like(c, s, {}, {"writer", "reader", "coordinator"})
          /\ c.pc.writer = "spawned" /\ c.pc.coordinator = "joining"
      BY <3>1, <3>2, <3>3 DEF Like, Tasks
    <3>6. \A f \in Fields : c.ws[f] = s.ws[f]
      BY <3>5 DEF Like
    <3>7. c.pc.handler = s.pc.handler /\ c.pc.deadline = s.pc.deadline
      BY <3>5 DEF Like, Tasks
    <3>8. Writing(c)
      <4>1. s.pc.writer = "unspawned"
        BY <2>5, <2>6 DEF Places, Early
      <4> QED
        BY <2>5, <3>5, <3>6, <4>1 DEF Writing, Fields
    <3>9. Waits(c)
      BY <2>5, <2>6, <3>5, <3>6, <3>7 DEF Waits, Fields
    <3>10. Awake(c)
      BY <2>5, <3>5, <3>6, <3>7 DEF Awake, HandlerAwake, WriterAwake, CoordinatorAwake, Fields, Plain,
                                    Flags
    <3>11. Sound(c)
      <4>1. /\ c.ws.handshake_state = s.ws.handshake_state /\ c.ws.replies = s.ws.replies
            /\ s.ws.handshake_state = "accepted" /\ ~Early(c)
        BY <2>6, <2>9, <3>5, <3>6 DEF Fields, Plain, Early
      <4> QED
        BY <2>5, <3>3, <3>7, <3>8, <3>9, <3>10, <4>1, Quietly DEF c
    <3> QED
      BY <2>1, <2>9, <3>4, <3>11, Became DEF StaysFailed
  <2> QED
    BY <2>7, <2>8, <2>9
<1>3. ASSUME CoordinatorJoins
      PROVE  Sound(Now)'
  <2>1. PICK raises \in BOOLEAN :
           LET t == [Now EXCEPT !.ws.handler_error = @ \/ raises]
           IN  Becomes(IF ~ws.close_sent /\ (t.ws.handler_error \/ ~ws.disconnect)
                       THEN CloseAndWait(t)
                       ELSE Set(t, "coordinator", "lingering"))
    BY <1>3 DEF CoordinatorJoins
  <2> DEFINE e == ws.handler_error \/ raises
             t == Put(Now, "handler_error", e)
  <2>2. Becomes(CloseAndWait(t)) \/ Becomes(Set(t, "coordinator", "lingering"))
    BY <1>1, <2>1 DEF Put
  <2>3. Closes(Now, t)
    <3>1. e \in BOOLEAN /\ "handler_error" \in Flags \ {"shutdown", "disconnect"}
      BY DEF Flags
    <3> HIDE DEF e
    <3> QED
      BY <1>1, <3>1, CloseSteps, Zenon
  <2>4. t.pc.handler = Now.pc.handler /\ t.pc.coordinator = "joining" /\ t.ws.ack = ws.ack
    BY <1>1, <1>3 DEF CoordinatorJoins, Put, Now
  <2> HIDE DEF t
  <2>5. Sound(t)
    BY <2>3, <2>4, ClosedSound
  <2>6. t.ws.ack["coordinator"] = "none"
    BY <2>4, <2>5 DEF Sound, Waits
  <2>7. t.ws.handshake_state = "accepted"
    BY <2>4, <2>5 DEF Sound, Places, Serving
  <2>8. Sound(CloseAndWait(t))
    BY <2>5, <2>6, <2>7, CloseAndWaitSound
  <2>9. Sound(Set(t, "coordinator", "lingering"))
    BY <2>5, <2>6, <2>7, SetCoordinatorSound DEF Sound, Waits
  <2> QED
    BY <2>2, <2>8, <2>9, Became
<1>4. ASSUME CoordinatorAcked
      PROVE  Sound(Now)'
  <2> DEFINE a == Set(Now, "coordinator", "lingering")
             e == a.ws.close_sent \/ ws.ack["coordinator"] = "ok"
             b == Put(a, "close_sent", e)
             v == [b.ws.ack EXCEPT !["coordinator"] = "none"]
             t == Put(b, "ack", v)
  <2>1. Becomes(t) /\ pc.coordinator = "closing"
    BY <1>4 DEF CoordinatorAcked, Put
  <2>2. Core(a) /\ Like(a, Now, {}, {"coordinator"}) /\ a.pc.coordinator = "lingering"
    BY <1>1, SetCore DEF Tasks
  <2>3. Core(b) /\ Like(b, a, {"close_sent"}, {})
    <3>1. e \in BOOLEAN /\ "close_sent" \in Flags \ {"shutdown", "disconnect"}
      <4>1. a.ws["close_sent"] \in BOOLEAN
        BY <2>2 DEF Core, Typed, Fits, Plain, Flags
      <4> QED
        BY <4>1 DEF Flags
    <3> HIDE DEF a, e
    <3> QED
      BY <2>2, <3>1, NoteCore, Zenon
  <2> HIDE DEF a, b, e
  <2>4. IsAck(v) /\ v["coordinator"] = "none" /\ \A w \in Waiters \ {"coordinator"} : v[w] = b.ws.ack[w]
    <3>1. IsAck(b.ws.ack)
      BY <2>3 DEF Core, Typed, IsState
    <3> QED
      BY <3>1 DEF IsAck, Waiters
  <2> HIDE DEF v
  <2>5. Core(t) /\ Like(t, b, {"ack"}, {}) /\ t.ws.ack = v
    <3>1. /\ \A w \in Waiters : v[w] \in Acks
          /\ \A w \in Waiters : v[w] = "ok" => w \in b.ws.flushed
          /\ \A w \in Waiters \ {"nobody"} : v[w] = "pending" => Owned(b, w)
      BY <2>3, <2>4 DEF Core, Typed, Flushes, Serves, Acks
    <3> QED
      BY <2>3, <2>4, <3>1, PutAck
  <2> HIDE DEF t
  <2>6. /\ \A f \in Fields \ {"close_sent", "ack"} : t.ws[f] = ws[f]
        /\ \A u \in Tasks \ {"coordinator"} : t.pc[u] = pc[u]
        /\ t.pc.coordinator = "lingering" /\ b.ws.ack = ws.ack
    BY <1>1, <2>2, <2>3, <2>5 DEF Like, Fields, Plain, Flags, Tasks
  <2>7. Writing(t)
    BY <1>1, <2>6 DEF Sound, Writing, Fields, Tasks
  <2>8. Waits(t)
    BY <1>1, <2>4, <2>5, <2>6 DEF Sound, Waits, Waiters, Tasks
  <2>9. Awake(t)
    BY <1>1, <2>6 DEF Sound, Awake, HandlerAwake, WriterAwake, CoordinatorAwake, Fields, Plain, Flags,
                      Tasks
  <2>10. Sound(t)
    <3>1. /\ t.ws.handshake_state = Now.ws.handshake_state /\ t.ws.replies = Now.ws.replies
          /\ t.pc.handler = Now.pc.handler /\ t.pc.deadline = Now.pc.deadline
          /\ ~Early(t)
      BY <1>1, <2>6 DEF Fields, Plain, Tasks, Early
    <3>2. Now.ws.handshake_state = "accepted"
      BY <1>1, <2>1 DEF Sound, Places, Serving
    <3> QED
      BY <2>5, <2>7, <2>8, <2>9, <3>1, <3>2, Quietly DEF Sound
  <2> QED
    BY <2>1, <2>10, Became
<1>5. ASSUME CoordinatorFinishes
      PROVE  Sound(Now)'
  <2>1. /\ Becomes(Finish(Now)) /\ Now.pc.coordinator = "lingering"
        /\ Now.ws.handshake_state = "accepted"
    BY <1>1, <1>5 DEF CoordinatorFinishes, Sound, Places, Serving
  <2>2. ~Deciding(Now)
    BY <2>1 DEF Deciding, Undecided
  <2> QED
    BY <2>1, <2>2, FinishSound, Became DEF Sound
\* Outside of "deciding" the coordinator of a live connection serves an accepted one.
<1>6. ~CoordinatorDecides => StaysFailed
  BY <1>1 DEF Coordinator, CoordinatorJoins, CoordinatorAcked, CoordinatorFinishes, Sound, Places,
              Serving, StaysFailed
<1> QED
  BY <1>2, <1>3, <1>4, <1>5, <1>6 DEF Coordinator

-----------------------------------------------------------------------------
(* The handler's steps. *)

\* A step of the handler that leaves the handshake alone.
LEMMA HandlerMoves ==
    ASSUME NEW s, Sound(s), NEW t, Core(t), Awake(t), Waits(t),
           Like(t, s, Fields \ {"handshake_state", "replies", "active_command"}, {"handler"}),
           t.pc.handler \notin {"accepting", "rejecting", "refusing", "cancelled"}
    PROVE  Sound(t)
<1>1. /\ t.ws.handshake_state = s.ws.handshake_state /\ t.ws.replies = s.ws.replies
      /\ t.ws.active_command = s.ws.active_command
  BY DEF Like, Fields, Plain, Flags
<1>2. \A u \in Tasks \ {"handler"} : t.pc[u] = s.pc[u]
  BY DEF Like
<1>3. Writing(t) /\ t.pc.deadline = s.pc.deadline
      /\ (Serving(t) => Serving(s)) /\ (Early(t) => Early(s))
  BY <1>1, <1>2 DEF Sound, Writing, Serving, Early, Tasks
<1> QED
  BY <1>1, <1>3, Quietly DEF Sound

LEMMA SetHandlerWakes ==
    ASSUME NEW s, Core(s), NEW label, label # "receiving"
    PROVE  LET t == Set(s, "handler", label) IN
           /\ Core(t) /\ Wakes(s, t) /\ Like(t, s, {}, {"handler"}) /\ t.pc.handler = label
<1> DEFINE t == Set(s, "handler", label)
<1>1. Core(t) /\ Like(t, s, {}, {"handler"}) /\ t.pc.handler = label
  BY SetCore DEF Tasks
<1> HIDE DEF t
<1>2. /\ \A f \in Fields : t.ws[f] = s.ws[f]
      /\ \A u \in Tasks \ {"handler"} : t.pc[u] = s.pc[u]
  BY <1>1 DEF Like
<1>3. Wakes(s, t)
  BY <1>1, <1>2 DEF Wakes, HandlerAwake, WriterAwake, CoordinatorAwake, Deciding, Fields, Plain,
                    Flags, Tasks
<1> QED
  BY <1>1, <1>3 DEF t

\* The handler is answered before it is told: nothing is left of its wait.
LEMMA HandlerDecidesStep == Sound(Now) /\ HandlerDecides => Sound(Now)'
<1> SUFFICES ASSUME Sound(Now), HandlerDecides
             PROVE  Sound(Now)'
  OBVIOUS
<1>1. Now.pc.handler = "running" /\ Now.ws.handshake_state = "pending"
  BY DEF HandlerDecides, Now
<1> DEFINE c == Claim(Now, "handler", "accepting", "accepting")
           t == Put(c, "protocol", "open")
           r == Claim(Now, "handler", "rejecting", "rejecting")
<1>2. Sound(c) /\ Sound(r)
  BY <1>1, ClaimSound
<1>3. c.ws.handshake_state = "accepting"
  BY <1>1, ClaimCore DEF Sound, Tasks, Undecided
<1>4. Becomes(t) \/ Becomes(r)
  BY DEF HandlerDecides, Put
<1> HIDE DEF c, r
<1>5. Closes(c, t)
  BY <1>2, CloseSteps DEF Sound, Protocols
<1> HIDE DEF t
<1>6. Sound(t)
  BY <1>2, <1>3, <1>5, ClosedSound
<1> QED
  BY <1>2, <1>4, <1>6, Became

LEMMA HandlerRepliedStep == Sound(Now) /\ HandlerReplied => Sound(Now)'
<1> SUFFICES ASSUME Sound(Now), HandlerReplied
             PROVE  Sound(Now)'
  OBVIOUS
<1>1. Now.pc = pc /\ Now.ws = ws
  BY DEF Now
<1>2. /\ pc.handler \in {"accepting", "rejecting", "refusing"}
      /\ \E label \in {"running", "returned"}, state \in {"accepted", "rejected"} :
            Becomes(Signal(Put(Set(Now, "handler", label), "handshake_state", state), "decision"))
  BY DEF HandlerReplied, Put
<1>3. /\ ws.handshake_state \in {"accepting", "rejecting"}
      /\ pc.deadline # "refusing" /\ ~Serving(Now)
      /\ ws.ack["handler"] = "none"
  BY <1>1, <1>2 DEF Sound, Places, Waits
<1> QED
  BY <1>1, <1>2, <1>3, DecidedSound, Became

LEMMA HandlerReplyFailsStep == Sound(Now) /\ HandlerReplyFails => Sound(Now)'
<1> SUFFICES ASSUME Sound(Now), HandlerReplyFails
             PROVE  Sound(Now)'
  OBVIOUS
<1>1. Now.pc = pc /\ Now.ws = ws /\ Core(Now)
  BY DEF Now, Sound
<1>2. pc.handler \in {"accepting", "rejecting", "refusing"}
  BY DEF HandlerReplyFails
<1>3. /\ pc.deadline # "refusing" \/ pc.handler = "accepting"
      /\ ws.handshake_state # "pending" /\ ~Serving(Now) /\ ~Early(Now)
      /\ ws.ack["handler"] = "none"
  BY <1>1, <1>2 DEF Sound, Places, Waits
<1> DEFINE a == FailHandshake(Now)
           b == Disconnect(a)
           c == Set(b, "handler", "returned")
           t == Signal(c, "decision")
           u == Set(a, "handler", "running")
<1>4. Becomes(t) \/ Becomes(u)
  BY DEF HandlerReplyFails
<1>5. /\ Core(a) /\ Wakes(Now, a) /\ a.ws.handshake_state = "failed"
      /\ Like(a, Now, {"handshake_state", "protocol", "disconnect", "signals"}, {})
  BY <1>1, FailHandshakeCore
<1> HIDE DEF a
<1>6. Core(b) /\ Wakes(a, b) /\ Like(b, a, {"disconnect", "signals"}, {})
  BY <1>5, DisconnectCore
<1> HIDE DEF b
<1>7. /\ Core(c) /\ Wakes(b, c) /\ Like(c, b, {}, {"handler"}) /\ c.pc.handler = "returned"
  BY <1>6, SetHandlerWakes
<1> HIDE DEF c
<1>8. Core(t) /\ Wakes(c, t) /\ Like(t, c, {"signals"}, {})
  BY <1>7, SignalCore DEF Signals
<1>9. /\ Core(u) /\ Wakes(a, u) /\ Like(u, a, {}, {"handler"}) /\ u.pc.handler = "running"
  BY <1>5, SetHandlerWakes
<1> HIDE DEF t, u
<1>10. \A s \in {t, u} :
         /\ Core(s) /\ Awake(s)
         /\ Like(s, Now, {"handshake_state", "protocol", "disconnect", "signals"}, {"handler"})
         /\ s.ws.handshake_state = "failed" /\ s.pc.handler \in {"running", "returned"}
  <2>1. Awake(t) /\ Awake(u)
    BY <1>5, <1>6, <1>7, <1>8, <1>9 DEF Sound, Awake, Wakes
  <2>2. /\ Like(t, Now, {"handshake_state", "protocol", "disconnect", "signals"}, {"handler"})
        /\ t.ws.handshake_state = "failed" /\ t.pc.handler = "returned"
    BY <1>5, <1>6, <1>7, <1>8 DEF Like, Fields, Plain, Flags, Tasks
  <2>3. /\ Like(u, Now, {"handshake_state", "protocol", "disconnect", "signals"}, {"handler"})
        /\ u.ws.handshake_state = "failed"
    BY <1>5, <1>9 DEF Like, Fields, Plain, Flags, Tasks
  <2> QED
    BY <1>8, <1>9, <2>1, <2>2, <2>3
<1>11. ASSUME NEW s \in {t, u}
       PROVE  Sound(s)
  <2>1. /\ \A f \in {"ack", "active_command"} : s.ws[f] = ws[f]
        /\ \A v \in Tasks \ {"handler"} : s.pc[v] = pc[v]
    BY <1>1, <1>10 DEF Like, Fields, Plain, Flags
  <2>2. Writing(s) /\ Waits(s)
    BY <1>1, <1>3, <2>1 DEF Sound, Writing, Waits, Tasks
  <2>3. Replies(s)
    BY <1>10 DEF Replies
  <2>4. Places(s)
    BY <1>1, <1>3, <1>10, <2>1 DEF Places, Serving, Early, Tasks
  <2> QED
    BY <1>10, <2>2, <2>3, <2>4 DEF Sound
<1> QED
  BY <1>4, <1>11, Became

LEMMA HandlerReceivesStep == Sound(Now) /\ HandlerReceives => Sound(Now)'
<1> SUFFICES ASSUME Sound(Now), HandlerReceives
             PROVE  Sound(Now)'
  OBVIOUS
<1>1. Now.pc = pc /\ Now.ws = ws /\ Core(Now)
  BY DEF Now, Sound
<1> DEFINE v == IF pc.handler = "receiving" THEN ws.signals \ {"inbox"} ELSE ws.signals
           a == Put(Now, "signals", v)
           b == Set(a, "handler", "running")
           n == b.ws.inbox - 1
           c == Put(b, "inbox", n)
           label == IF ws.disconnect THEN "running" ELSE "receiving"
           d == Set(a, "handler", label)
<1>2. /\ pc.handler \in {"running", "receiving"}
      /\ Becomes(IF ws.inbox > 0 THEN c ELSE d)
  BY <1>1 DEF HandlerReceives, Put
<1>3. /\ ws.ack["handler"] = "none"
      /\ ws.signals \subseteq Signals /\ ws.inbox \in 0..MaxInbox
  <2>1. Fits("signals", ws["signals"]) /\ Fits("inbox", ws["inbox"])
    BY <1>1 DEF Core, Typed, Plain
  <2>2. ws.signals \subseteq Signals /\ ws.inbox \in 0..MaxInbox
    BY <2>1 DEF Fits
  <2> QED
    BY <1>1, <1>2, <2>2 DEF Sound, Waits
<1>4. /\ Core(a) /\ Like(a, Now, {"signals"}, {}) /\ a.ws.signals = v
      /\ v \in SUBSET Signals /\ ws.signals \ {"inbox"} \subseteq v
  <2>1. v \in SUBSET Signals /\ ws.signals \ {"inbox"} \subseteq v
    BY <1>3
  <2> HIDE DEF v
  <2>2. Fits("signals", v)
    BY <2>1 DEF Fits, Flags
  <2> QED
    BY <1>1, <2>1, <2>2, PutCore DEF Plain
<1> HIDE DEF a, v
\* Neither the writer nor the coordinator loses its signal.
<1>5. ASSUME NEW t, Like(t, Now, {"signals", "inbox"}, {"handler"}), t.ws.signals = v
      PROVE  WriterAwake(t) /\ CoordinatorAwake(t)
  BY <1>1, <1>4, <1>5 DEF Sound, Awake, WriterAwake, CoordinatorAwake, Deciding, Like, Fields, Plain,
                          Flags, Tasks
<1>6. ASSUME NEW t, Core(t), Like(t, Now, {"signals", "inbox"}, {"handler"}), t.ws.signals = v,
             HandlerAwake(t), t.pc.handler \in {"running", "receiving"}
      PROVE  Sound(t)
  <2>1. t.ws.ack = ws.ack /\ t.pc.coordinator = pc.coordinator
    BY <1>1, <1>6 DEF Like, Fields, Tasks
  <2>2. Waits(t)
    BY <1>1, <1>3, <2>1 DEF Sound, Waits
  <2>3. Like(t, Now, Fields \ {"handshake_state", "replies", "active_command"}, {"handler"})
    BY <1>6 DEF Like, Fields, Plain, Flags
  <2> QED
    BY <1>5, <1>6, <2>2, <2>3, HandlerMoves DEF Awake
<1>7. CASE ws.inbox > 0
  <2>1. Core(b) /\ Like(b, a, {}, {"handler"}) /\ b.pc.handler = "running"
    BY <1>4, SetCore DEF Tasks
  <2> HIDE DEF b
  <2>2. b.ws.inbox = ws.inbox
    BY <1>1, <1>4, <2>1 DEF Like, Fields, Plain, Flags
  <2>3. Fits("inbox", n)
    <3>1. n \in 0..MaxInbox
      BY <1>3, <1>7, <2>2, WebSocketAssumption
    <3> QED
      BY <3>1 DEF Fits, Flags
  <2> HIDE DEF n
  <2>4. Core(c) /\ Like(c, b, {"inbox"}, {})
    BY <2>1, <2>3, PutCore DEF Plain
  <2> HIDE DEF c
  <2>5. /\ Like(c, Now, {"signals", "inbox"}, {"handler"}) /\ c.ws.signals = v
        /\ c.pc.handler = "running"
    BY <1>4, <2>1, <2>4 DEF Like, Fields, Plain, Flags, Tasks
  <2>6. HandlerAwake(c)
    BY <2>5 DEF HandlerAwake
  <2> QED
    BY <1>2, <1>6, <1>7, <2>4, <2>5, <2>6, Became
<1>8. CASE ~(ws.inbox > 0)
  <2>1. label \in {"running", "receiving"} /\ (label = "receiving" => ~ws.disconnect)
    OBVIOUS
  <2> HIDE DEF label
  <2>2. Core(d) /\ Like(d, a, {}, {"handler"}) /\ d.pc.handler = label
    BY <1>4, SetCore DEF Tasks
  <2> HIDE DEF d
  <2>3. Like(d, Now, {"signals", "inbox"}, {"handler"}) /\ d.ws.signals = v
        /\ d.ws.inbox = ws.inbox /\ d.ws.disconnect = ws.disconnect
    BY <1>1, <1>4, <2>2 DEF Like, Fields, Plain, Flags
  <2>4. HandlerAwake(d)
    BY <1>8, <2>1, <2>2, <2>3 DEF HandlerAwake
  <2> QED
    BY <1>2, <1>6, <1>8, <2>1, <2>2, <2>3, <2>4, Became
<1> QED
  BY <1>7, <1>8

\* The caller parks only once its command is queued.
LEMMA ParksSound ==
    ASSUME NEW s, Sound(s), ~Full(s), NEW event \in Events,
           NEW label, label \in {"sending", "pinging", "closing"}, s.pc.handler = "running"
    PROVE  Sound(Set(EnqueueAndWait(s, event, "handler"), "handler", label))
<1> DEFINE q == EnqueueAndWait(s, event, "handler")
           t == Set(q, "handler", label)
<1>1. /\ Core(q) /\ Wakes(s, q)
      /\ Like(q, s, {"outbox", "signals", "ack", "flushed"}, {})
      /\ \A w \in Waiters \ {"handler"} : q.ws.ack[w] = s.ws.ack[w]
  <2>1. Core(s) /\ "handler" \in Waiters
    BY DEF Sound, Waiters
  <2> QED
    BY <2>1, EnqueueAndWaitCore
<1> HIDE DEF q
<1>2. Core(t) /\ Wakes(q, t) /\ Like(t, q, {}, {"handler"}) /\ t.pc.handler = label
  BY <1>1, SetHandlerWakes
<1> HIDE DEF t
<1>3. /\ Like(t, s, Fields \ {"handshake_state", "replies", "active_command"}, {"handler"})
      /\ t.ws.ack = q.ws.ack /\ t.pc.coordinator = s.pc.coordinator
  BY <1>1, <1>2 DEF Like, Fields, Plain, Flags, Tasks
<1>4. Awake(t)
  BY <1>1, <1>2 DEF Sound, Awake, Wakes
<1>5. Waits(t)
  BY <1>1, <1>2, <1>3 DEF Sound, Waits, Waiters
<1> QED
  BY <1>2, <1>3, <1>4, <1>5, HandlerMoves DEF t, q

LEMMA HandlerSendsStep == Sound(Now) /\ HandlerSends => Sound(Now)'
<1> SUFFICES ASSUME Sound(Now), HandlerSends
             PROVE  Sound(Now)'
  OBVIOUS
<1> DEFINE yes == TRUE
           a == Set(EnqueueAndWait(Now, "data", "handler"), "handler", "sending")
           b == Set(EnqueueAndWait(Now, "ping", "handler"), "handler", "pinging")
           t == Put(b, "ping", yes)
<1>1. /\ Now.pc.handler = "running" /\ ~Full(Now) /\ Now.ws.handshake_state = "accepted"
      /\ Becomes(a) \/ Becomes(t)
  BY DEF HandlerSends, RequireOpen, Put, Now
<1>2. Sound(a) /\ Sound(b)
  BY <1>1, ParksSound DEF Events
<1> HIDE DEF a, b
<1>3. Closes(b, t)
  <2>1. Core(b) /\ yes \in BOOLEAN /\ "ping" \in Flags \ {"shutdown", "disconnect"}
    BY <1>2 DEF Sound, Flags
  <2> HIDE DEF yes
  <2> QED
    BY <2>1, CloseSteps, Zenon
<1>4. t.pc.handler = b.pc.handler
  BY DEF Put
<1> HIDE DEF t
<1>5. Sound(t)
  BY <1>2, <1>3, <1>4, ClosedSound
<1> QED
  BY <1>1, <1>2, <1>5, Became

LEMMA HandlerClosesStep == Sound(Now) /\ HandlerCloses => Sound(Now)'
<1> SUFFICES ASSUME Sound(Now), HandlerCloses
             PROVE  Sound(Now)'
  OBVIOUS
<1> DEFINE yes == TRUE
           a == Put(Now, "close_sent", yes)
           t == Put(a, "close_deadline", yes)
           d == Disconnect(t)
           e == Set(EnqueueAndWait(t, "close", "handler"), "handler", "closing")
<1>1. /\ Now.pc.handler = "running" /\ Now.ws.handshake_state = "accepted"
      /\ Becomes(IF Full(Now) THEN d ELSE e)
  BY DEF HandlerCloses, RequireOpen, Put, Now
<1>2. /\ yes \in BOOLEAN /\ "close_sent" \in Flags \ {"shutdown", "disconnect"}
      /\ "close_deadline" \in Flags \ {"shutdown", "disconnect"}
  BY DEF Flags
<1>3. (Full(t) <=> Full(Now)) /\ t.pc.handler = Now.pc.handler
  BY DEF Full, Put, Now, Sound, Core, Typed, IsState, Fields, Plain, Flags
<1> HIDE DEF yes
<1>4. Closes(Now, a)
  <2>1. Core(Now)
    BY DEF Sound
  <2> QED
    BY <1>2, <2>1, CloseSteps, Zenon
<1> HIDE DEF a
<1>5. Closes(a, t)
  <2>1. Core(a)
    BY <1>4 DEF Closes
  <2> QED
    BY <1>2, <2>1, CloseSteps, Zenon
<1> HIDE DEF t
<1>6. Closes(t, d)
  BY <1>5, CloseSteps DEF Closes
<1> HIDE DEF d
<1>7. Closes(Now, t) /\ Closes(Now, d)
  BY <1>4, <1>5, <1>6, ClosesAgain
<1>8. Sound(t) /\ Sound(d)
  BY <1>1, <1>7, ClosedSound
<1>9. ~Full(Now) => Sound(e)
  BY <1>1, <1>3, <1>8, ParksSound DEF Events
<1> HIDE DEF e
<1> QED
  BY <1>1, <1>8, <1>9, Became

\* What collecting an acknowledgement writes, one field at a time.
LEMMA Collects ==
    ASSUME NEW x, NEW side
    PROVE  LET y == Put(x, "ack", [x.ws.ack EXCEPT !["handler"] = "none"])
               z == Put(y, "flushed", y.ws.flushed \ {"handler"})
           IN  [x EXCEPT !.ws.ack["handler"] = "none",
                         !.ws.flushed = @ \ {"handler"},
                         !.ws.ping = @ /\ side]
                 = Put(z, "ping", z.ws.ping /\ side)
BY DEF Put

LEMMA HandlerAckedStep == Sound(Now) /\ HandlerAcked => Sound(Now)' /\ StaysFailed
<1> SUFFICES ASSUME Sound(Now), HandlerAcked
             PROVE  Sound(Now)' /\ StaysFailed
  OBVIOUS
<1>1. Now.pc = pc /\ Now.ws = ws /\ Core(Now)
  BY DEF Now, Sound
<1> DEFINE ok == ws.ack["handler"] = "ok"
           next == IF pc.handler = "closing" /\ ok THEN "close_wait" ELSE "running"
           a == Set(Now, "handler", next)
           v == [a.ws.ack EXCEPT !["handler"] = "none"]
           b == Put(a, "ack", v)
           f == b.ws.flushed \ {"handler"}
           c == Put(b, "flushed", f)
           side == pc.handler = "pinging" => ok
           p == c.ws.ping /\ side
           t == Put(c, "ping", p)
           d == Disconnect(t)
<1>2. Becomes(t) \/ Becomes(d)
  <2> DEFINE m == [a EXCEPT !.ws.ack["handler"] = "none",
                            !.ws.flushed = @ \ {"handler"},
                            !.ws.ping = @ /\ side]
  <2>1. Becomes(IF pc.handler = "closing" /\ ~ok THEN Disconnect(m) ELSE m)
    BY DEF HandlerAcked
  <2>2. m = t
    <3> HIDE DEF a, side
    <3> QED
      BY Collects
  <2> HIDE DEF m, t, ok
  <2>3. CASE pc.handler = "closing" /\ ~ok
    BY <2>1, <2>2, <2>3
  <2>4. CASE ~(pc.handler = "closing" /\ ~ok)
    BY <2>1, <2>2, <2>4
  <2> QED
    BY <2>3, <2>4
<1>3. next \in {"close_wait", "running"}
  OBVIOUS
<1> HIDE DEF next, ok, side
<1>4. Core(a) /\ Wakes(Now, a) /\ Like(a, Now, {}, {"handler"}) /\ a.pc.handler = next
  BY <1>1, <1>3, SetHandlerWakes
<1> HIDE DEF a
<1>5. /\ IsAck(v) /\ v["handler"] = "none"
      /\ \A w \in Waiters \ {"handler"} : v[w] = a.ws.ack[w]
  <2>1. IsAck(a.ws.ack)
    BY <1>4 DEF Core, Typed, IsState
  <2> QED
    BY <2>1 DEF IsAck, Waiters
<1> HIDE DEF v
<1>6. Core(b) /\ Like(b, a, {"ack"}, {}) /\ b.ws.ack = v
  <2>1. /\ \A w \in Waiters : v[w] \in Acks
        /\ \A w \in Waiters : v[w] = "ok" => w \in a.ws.flushed
        /\ \A w \in Waiters \ {"nobody"} : v[w] = "pending" => Owned(a, w)
    BY <1>4, <1>5 DEF Core, Typed, Flushes, Serves, Acks
  <2> QED
    BY <1>4, <1>5, <2>1, PutAck
<1> HIDE DEF b
<1>7. Core(c) /\ Like(c, b, {"flushed"}, {})
  <2>1. f \in SUBSET Waiters /\ \A w \in Waiters : b.ws.ack[w] = "ok" => w \in f
    BY <1>5, <1>6 DEF Core, Typed, Flushes
  <2> HIDE DEF f
  <2> QED
    BY <1>6, <2>1, PutFlushed
<1> HIDE DEF c, f
<1>8. Core(t) /\ Wakes(c, t) /\ Like(t, c, {"ping"}, {})
  <2>1. p \in BOOLEAN /\ "ping" \in Flags \ {"shutdown", "disconnect"}
    BY DEF Flags
  <2> HIDE DEF p
  <2> QED
    BY <1>7, <2>1, NoteCore, Zenon
<1> HIDE DEF t, p
<1>9. /\ Like(t, Now, Fields \ {"handshake_state", "replies", "active_command"}, {"handler"})
      /\ t.pc.handler = next /\ t.ws.ack = v /\ t.pc.coordinator = pc.coordinator
      /\ a.ws.ack = ws.ack
  BY <1>1, <1>4, <1>6, <1>7, <1>8 DEF Like, Fields, Plain, Flags, Tasks
<1>10. Waits(t)
  BY <1>1, <1>5, <1>9 DEF Sound, Waits, Waiters
<1>11. Awake(t)
  <2>1. Wakes(a, c)
    <3>1. Like(c, a, {"ack", "flushed"}, {})
      BY <1>6, <1>7 DEF Like
    <3> QED
      BY <3>1 DEF Wakes, HandlerAwake, WriterAwake, CoordinatorAwake, Like, Fields, Plain, Flags,
                  Tasks, Deciding
  <2> QED
    BY <1>4, <1>8, <2>1 DEF Sound, Awake, Wakes
<1>12. Sound(t)
  BY <1>3, <1>8, <1>9, <1>10, <1>11, HandlerMoves
<1>13. Closes(t, d) /\ d.pc.handler = t.pc.handler
  <2>1. Closes(t, d)
    BY <1>8, CloseSteps
  <2>2. Like(d, t, {"disconnect", "signals"}, {})
    BY <1>8, DisconnectCore
  <2> QED
    BY <2>1, <2>2 DEF Like, Tasks
<1> HIDE DEF d
<1>14. Sound(d) /\ d.ws.handshake_state = t.ws.handshake_state
  BY <1>12, <1>13, ClosedSound
<1>15. t.ws.handshake_state = ws.handshake_state
  BY <1>1, <1>4, <1>6, <1>7, <1>8 DEF Like, Fields, Plain, Flags
<1> QED
  BY <1>2, <1>12, <1>14, <1>15, Became DEF StaysFailed

LEMMA HandlerClosedStep == Sound(Now) /\ HandlerClosed => Sound(Now)' /\ StaysFailed
<1> SUFFICES ASSUME Sound(Now), HandlerClosed
             PROVE  Sound(Now)' /\ StaysFailed
  OBVIOUS
<1>1. Now.pc = pc /\ Now.ws = ws /\ Core(Now) /\ pc.handler = "close_wait"
  BY DEF Now, Sound, HandlerClosed
<1> DEFINE yes == TRUE
           a == Set(Now, "handler", "running")
           t == Put(a, "disconnect", yes)
<1>2. Becomes(t)
  BY DEF HandlerClosed, Put
<1>3. Core(a) /\ Wakes(Now, a) /\ Like(a, Now, {}, {"handler"}) /\ a.pc.handler = "running"
  BY <1>1, SetHandlerWakes
<1> HIDE DEF a
<1>4. Core(t) /\ Like(t, a, {"disconnect"}, {})
  <2>1. Fits("disconnect", yes) /\ "disconnect" \in Plain
    BY DEF Fits, Plain, Flags
  <2> HIDE DEF yes
  <2> QED
    BY <1>3, <2>1, PutCore
<1> HIDE DEF t
<1>5. /\ Like(t, Now, {"disconnect"}, {"handler"}) /\ t.pc.handler = "running"
  BY <1>3, <1>4 DEF Like, Tasks
<1>6. Awake(t)
  BY <1>5 DEF Sound, Awake, HandlerAwake, WriterAwake, CoordinatorAwake, Deciding, Like, Fields,
              Plain, Flags, Tasks
<1>7. Waits(t)
  BY <1>1, <1>5 DEF Sound, Waits, Like, Fields, Tasks
<1>8. Like(t, Now, Fields \ {"handshake_state", "replies", "active_command"}, {"handler"})
  BY <1>5 DEF Like, Fields, Plain, Flags
<1>9. Sound(t)
  BY <1>4, <1>5, <1>6, <1>7, <1>8, HandlerMoves
<1>10. t.ws.handshake_state = ws.handshake_state
  BY <1>1, <1>5 DEF Like, Fields, Plain
<1> QED
  BY <1>2, <1>9, <1>10, Became DEF StaysFailed

LEMMA HandlerEndsStep == Sound(Now) /\ HandlerEnds => Sound(Now)' /\ StaysFailed
<1> SUFFICES ASSUME Sound(Now), HandlerEnds
             PROVE  Sound(Now)' /\ StaysFailed
  OBVIOUS
<1>1. PICK failed \in BOOLEAN :
         LET t == [Now EXCEPT !.ws.handler_error = failed]
         IN  Becomes(IF ws.handshake_state = "pending"
                     THEN Claim(t, "handler", "rejecting", "refusing")
                     ELSE Signal(Set(t, "handler", "returned"), "decision"))
  BY DEF HandlerEnds
<1> DEFINE t == Put(Now, "handler_error", failed)
           c == Claim(t, "handler", "rejecting", "refusing")
           a == Set(t, "handler", "returned")
           d == Signal(a, "decision")
<1>2. /\ Becomes(IF ws.handshake_state = "pending" THEN c ELSE d)
      /\ t.pc.handler = "running" /\ Now.pc.handler = "running"
      /\ t.ws.handshake_state = ws.handshake_state
  BY <1>1 DEF HandlerEnds, Put, Now
<1>3. Closes(Now, t)
  <2>1. Core(Now) /\ "handler_error" \in Flags \ {"shutdown", "disconnect"}
    BY DEF Sound, Flags
  <2> QED
    BY <2>1, CloseSteps, Zenon
<1> HIDE DEF t
<1>4. Sound(t)
  BY <1>2, <1>3, ClosedSound
<1>5. CASE ws.handshake_state = "pending"
  BY <1>2, <1>4, <1>5, ClaimSound, Became DEF StaysFailed
<1>6. CASE ws.handshake_state # "pending"
  <2>1. Core(a) /\ Wakes(t, a) /\ Like(a, t, {}, {"handler"}) /\ a.pc.handler = "returned"
    BY <1>4, SetHandlerWakes DEF Sound
  <2> HIDE DEF a
  <2>2. Core(d) /\ Wakes(a, d) /\ Like(d, a, {"signals"}, {})
    BY <2>1, SignalCore DEF Signals
  <2> HIDE DEF d
  <2>3. Like(d, t, {"signals"}, {"handler"}) /\ d.pc.handler = "returned"
    BY <2>1, <2>2 DEF Like, Tasks
  <2>4. Awake(d)
    BY <1>4, <2>1, <2>2 DEF Sound, Awake, Wakes
  <2>5. Waits(d)
    BY <1>2, <1>4, <2>3 DEF Sound, Waits, Like, Fields, Tasks
  <2>6. Like(d, t, Fields \ {"handshake_state", "replies", "active_command"}, {"handler"})
    BY <2>3 DEF Like, Fields, Plain, Flags
  <2>7. Sound(d)
    BY <1>4, <2>2, <2>3, <2>4, <2>5, <2>6, HandlerMoves
  <2>8. d.ws.handshake_state = ws.handshake_state
    BY <1>2, <2>3 DEF Like, Fields, Plain
  <2> QED
    BY <1>2, <1>6, <2>7, <2>8, Became DEF StaysFailed
<1> QED
  BY <1>5, <1>6

-----------------------------------------------------------------------------
(* The invariant, and the theorems that follow from it. *)

LEMMA IInvInit == Init => IInv
<1> SUFFICES ASSUME Init
             PROVE  IInv
  OBVIOUS
<1>1. Now.ws = ws /\ Now.pc = pc /\ Now = [ws |-> ws, pc |-> pc]
  BY DEF Now
<1>2. IsState(Now)
  <2>1. ws = [f \in Fields |-> ws[f]]
    BY DEF Init, Fields, Plain, Flags
  <2>2. IsAck(ws.ack)
    BY DEF Init, IsAck
  <2>3. pc = [t \in Tasks |-> pc[t]]
    BY DEF Init, Tasks
  <2> QED
    BY <1>1, <2>1, <2>2, <2>3 DEF IsState
<1>3. \A f \in Plain : Fits(f, ws[f])
  <2>1. /\ ws.handshake_state = "pending" /\ ws.protocol = "none" /\ ws.inbox = 0
        /\ ws.signals = {} /\ ws.replies = 0
    BY DEF Init
  <2>2. \A f \in Flags : ws[f] \in BOOLEAN
    <3>1. /\ ws.shutdown = FALSE /\ ws.peer_closed = FALSE /\ ws.close_sent = FALSE
          /\ ws.disconnect = FALSE /\ ws.handler_error = FALSE /\ ws.ping = FALSE
          /\ ws.close_deadline = FALSE
      BY DEF Init
    <3> QED
      BY <3>1, Zenon DEF Flags
  <2>3. 0 \in 0..MaxInbox /\ 0 \in 0..1
    BY WebSocketAssumption
  <2>4. \A f \in Plain \ Flags : Fits(f, ws[f])
    BY <2>1, <2>3 DEF Fits, Plain, Flags, States, Protocols, Undecided
  <2>5. \A f \in Flags : Fits(f, ws[f])
    BY <2>2 DEF Fits, Flags
  <2> QED
    BY <2>4, <2>5
<1>4. Typed(Now)
  <2>1. ws.outbox \in Seq(Command) /\ Len(ws.outbox) <= MaxOutbox
    BY WebSocketAssumption DEF Init
  <2>2. ws.active_command \in Command \cup {Idle} /\ ws.flushed \subseteq Waiters
    BY DEF Init
  <2>3. \A w \in Waiters : ws.ack[w] \in Acks
    BY DEF Init, Acks
  <2> QED
    BY <1>1, <1>2, <1>3, <2>1, <2>2, <2>3 DEF Typed
<1>5. Flushes(Now) /\ Serves(Now) /\ Waits(Now)
  BY <1>1 DEF Init, Flushes, Serves, Waits, Waiters
<1>6. Writing(Now) /\ Awake(Now)
  BY <1>1 DEF Init, Writing, Awake, HandlerAwake, WriterAwake, CoordinatorAwake, Deciding, Undecided
<1>7. Replies(Now) /\ Places(Now)
  BY <1>1 DEF Init, Replies, Places, Serving, Early
<1>8. input \in 0..MaxInput /\ ops \in 0..MaxOps
  BY WebSocketAssumption DEF Init
<1> QED
  BY <1>4, <1>5, <1>6, <1>7, <1>8 DEF IInv, Sound, Core

\* Each bound of the model is counted where it is tested.
LEMMA Counts ==
    ASSUME input \in 0..MaxInput, ops \in 0..MaxOps, Next
    PROVE  input' \in 0..MaxInput /\ ops' \in 0..MaxOps
<1>1. CASE ReaderReceives
  BY <1>1, WebSocketAssumption DEF ReaderReceives
<1>2. CASE HandlerSends
  BY <1>2, WebSocketAssumption DEF HandlerSends
<1>3. CASE ~ReaderReceives /\ ~HandlerSends
  BY <1>3 DEF Next, Handler, HandlerDecides, HandlerReplied, HandlerReplyFails, HandlerReceives,
              HandlerCloses, HandlerAcked, HandlerClosed, HandlerEnds, Writer, WriterWakes,
              WriterFlushes, WriterSendFails, Reader, ReaderStarts, Deadline, DeadlineWakes,
              DeadlineReplied, Coordinator, CoordinatorDecides, CoordinatorJoins,
              CoordinatorAcked, CoordinatorFinishes, ServerShutsDown
<1> QED
  BY <1>1, <1>2, <1>3

LEMMA IInvNext == IInv /\ [Next]_vars => IInv'
<1> SUFFICES ASSUME IInv, [Next]_vars
             PROVE  IInv'
  OBVIOUS
<1>1. CASE Next
  <2>1. Sound(Now)'
    <3>1. Handler => Sound(Now)'
      BY HandlerDecidesStep, HandlerRepliedStep, HandlerReplyFailsStep, HandlerReceivesStep,
         HandlerSendsStep, HandlerClosesStep, HandlerAckedStep, HandlerClosedStep,
         HandlerEndsStep DEF IInv, Handler
    <3> QED
      BY <1>1, <3>1, WriterStep, ReaderStep, DeadlineStep, CoordinatorStep, ServerShutsDownStep
         DEF IInv, Next
  <2> QED
    BY <1>1, <2>1, Counts DEF IInv
<1>2. CASE UNCHANGED vars
  <2>1. Now' = Now
    BY <1>2 DEF vars, Now
  <2> QED
    BY <1>2, <2>1 DEF IInv, vars
<1> QED
  BY <1>1, <1>2

LEMMA IInvHolds == Spec => []IInv
BY IInvInit, IInvNext, PTL DEF Spec

(* TypeOK: the state keeps its types; the inbox and the outbox stay within   *)
(* max_inbound_messages and max_outbound_commands however they are filled,   *)
(* and the writer holds a command exactly while it is sending one            *)
(* (_WebSocketState, _write_websocket).                                      *)
THEOREM WebSocketTypeOK == Spec => []TypeOK
<1>1. IInv => TypeOK
  <2> SUFFICES ASSUME IInv
               PROVE  TypeOK
    OBVIOUS
  <2>1. Now.ws = ws /\ Now.pc = pc /\ Typed(Now) /\ Writing(Now)
    BY DEF IInv, Sound, Core, Now
  <2>2. \A f \in Plain : Fits(f, ws[f])
    BY <2>1 DEF Typed
  <2>3. /\ ws.shutdown \in BOOLEAN /\ ws.peer_closed \in BOOLEAN /\ ws.close_sent \in BOOLEAN
        /\ ws.disconnect \in BOOLEAN /\ ws.handler_error \in BOOLEAN
        /\ ws.ping \in BOOLEAN /\ ws.close_deadline \in BOOLEAN
    BY <2>2 DEF Fits, Plain, Flags
  <2>4. /\ ws.handshake_state \in States /\ ws.protocol \in Protocols
        /\ ws.inbox \in 0..MaxInbox /\ ws.signals \in SUBSET Signals /\ ws.replies \in 0..1
    BY <2>2 DEF Fits, Plain
  <2>5. ws.ack \in [Waiters -> {"none", "pending", "ok", "error"}] /\ DOMAIN pc = Tasks
    BY <2>1 DEF Typed, IsState, IsAck, Acks
  <2>6. (pc.writer = "sending") = (ws.active_command # Idle)
    BY <2>1 DEF Writing
  <2> QED
    BY <2>1, <2>3, <2>4, <2>5, <2>6 DEF IInv, TypeOK, Typed, States, Protocols, Signals
<1> QED
  BY <1>1, IInvHolds, PTL

(* SendMeansFlushed: whoever aborts the writer, and in whatever order the    *)
(* queue and the command in flight are failed, no caller is told of a        *)
(* success that was not flushed (_abort_writer, _send_command).              *)
THEOREM SendMeansFlushedHolds == Spec => []SendMeansFlushed
<1>1. IInv => SendMeansFlushed
  BY DEF IInv, Sound, Core, Flushes, SendMeansFlushed, Now
<1> QED
  BY <1>1, IInvHolds, PTL

(* WaitersAreServed: a caller that waits for an acknowledgement has its      *)
(* command in the outbox or with the writer (_enqueue_and_wait,              *)
(* _fail_outbound): no path clears the one and forgets the other.            *)
THEOREM WaitersAreServedHolds == Spec => []WaitersAreServed
<1>1. IInv => WaitersAreServed
  BY DEF IInv, Sound, Core, Serves, Owned, WaitersAreServed, Now
<1> QED
  BY <1>1, IInvHolds, PTL

(* NoLostWakeup: handler, writer and coordinator never stay parked on a      *)
(* signal whose condition holds (_disconnect, _queue, _fail_handshake).      *)
THEOREM NoLostWakeupHolds == Spec => []NoLostWakeup
<1>1. IInv => NoLostWakeup
  BY DEF IInv, Sound, Awake, HandlerAwake, WriterAwake, CoordinatorAwake, NoLostWakeup, Now
<1> QED
  BY <1>1, IInvHolds, PTL

(* OneReply: accept(), reject(), the finally clause of _run_handler and the  *)
(* handshake deadline begin one HTTP response between them, and no handler   *)
(* is cancelled with its handshake undecided.                                *)
THEOREM OneReplyHolds == Spec => []OneReply
<1>1. IInv => OneReply
  <2> SUFFICES ASSUME IInv
               PROVE  OneReply
    OBVIOUS
  <2>1. Now.ws = ws /\ Now.pc = pc /\ Typed(Now) /\ Replies(Now)
    BY DEF IInv, Sound, Core, Now
  <2>2. ws["replies"] \in 0..1
    BY <2>1 DEF Typed, Fits, Plain
  <2> QED
    BY <2>1, <2>2 DEF Replies, OneReply
<1> QED
  BY <1>1, IInvHolds, PTL

(* FailedIsNotAccepted: once the deadline or a shutdown has failed the       *)
(* handshake, a 101 still on its way makes no connection of it               *)
(* (accept() in WebSocket, _fail_handshake).                                 *)
THEOREM FailedIsNotAcceptedHolds == Spec => FailedIsNotAccepted
<1>1. IInv /\ [Next]_vars => [StaysFailed]_vars
  <2> SUFFICES ASSUME IInv, Next
               PROVE  StaysFailed
    OBVIOUS
  <2>1. Sound(Now) /\ Places(Now) /\ Now.ws = ws /\ Now.pc = pc
    BY DEF IInv, Sound, Now
  \* Neither end of the 101 is there when the handshake has failed.
  <2>2. /\ HandlerDecides \/ HandlerReplied \/ HandlerReplyFails => StaysFailed
        /\ HandlerReceives \/ HandlerSends \/ HandlerCloses => StaysFailed
    BY <2>1 DEF Places, StaysFailed, HandlerDecides, HandlerReplied, HandlerReplyFails,
                HandlerReceives, HandlerSends, HandlerCloses, RequireOpen
  <2>3. Writer \/ Reader => StaysFailed
    BY <2>1 DEF Places, Serving, StaysFailed, Writer, WriterWakes, WriterFlushes,
                WriterSendFails, Reader, ReaderReceives, ReaderStarts
  <2> QED
    BY <2>1, <2>2, <2>3, HandlerAckedStep, HandlerClosedStep, HandlerEndsStep, DeadlineStep,
       CoordinatorStep, ServerShutsDownStep DEF Next, Handler
<1>2. [StaysFailed]_vars =>
         [ws.handshake_state = "failed" => ws.handshake_state' # "accepted"]_vars
  BY DEF StaysFailed
<1> QED
  BY <1>1, <1>2, IInvHolds, PTL DEF Spec, FailedIsNotAccepted
=============================================================================
