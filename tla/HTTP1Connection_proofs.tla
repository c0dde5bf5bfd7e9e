------------------------ MODULE HTTP1Connection_proofs ------------------------
(***************************************************************************)
(* What is proved of the HTTP/1 connections, for every number of           *)
(* connections, peers, routes, frames and limits:                          *)
(*  - they use the channel of route errors as module RouteObserver has it, *)
(*    so that the theorems about that module hold of the server, and every *)
(*    late match is reported exactly once: a task has a report to make     *)
(*    only after it has left its parser, and the reports that are owed and *)
(*    those offered to the channel add up to the late matches;             *)
(*  - the routes resolve as the guide promises, from HTTP1Parts_proofs;    *)
(*  - a request gets the answer it calls for wherever it is cut, and the   *)
(*    bytes behind an upgrade go through the guard.  The inductive         *)
(*    invariant, Answering, says what a task is in each of its stages:     *)
(*    it reads a request that is not whole, runs the promised handler of a *)
(*    whole one, sends an answer the request calls for, or has an upgrade  *)
(*    whose guard has been fed what came behind the head.                  *)
(***************************************************************************)
EXTENDS HTTP1Connection, RouteObserver_proofs, HTTP1Parts_proofs

(* Reporting an event, or having none to report, is a step of the channel. *)
LEMMA ReportIsAStep == ASSUME NEW p, Report(p) PROVE [Next]_vars
  BY DEF Report, Next

(* The steps that leave the channel alone: setting up, and what a          *)
(* connection does before it ends.                                         *)
LEMMA QuietSteps ==
  ASSUME \/ Configure \/ Serve \/ BeginClose
         \/ \E c \in Slot : \/ Accept(c) \/ Receive(c) \/ HandlerReturns(c)
                            \/ ReaderStarts(c) \/ ReaderReceives(c)
  PROVE  UNCHANGED vars
  BY DEF Configure, Serve, BeginClose, Accept, Receive, HandlerReturns,
         ReaderStarts, ReaderReceives

(* Every step of the server is a step of the channel or leaves it alone.   *)
LEMMA ChannelStep == [HTTP1Next]_allvars => [Next]_vars
<1> SUFFICES ASSUME [HTTP1Next]_allvars PROVE [Next]_vars
  OBVIOUS
<1>1. CASE \/ Configure \/ Serve \/ BeginClose
           \/ \E c \in Slot : \/ Accept(c) \/ Receive(c) \/ HandlerReturns(c)
                              \/ ReaderStarts(c) \/ ReaderReceives(c)
  BY <1>1, QuietSteps
<1>2. CASE StopChannel
  BY <1>2 DEF StopChannel, Next
<1>3. CASE Observer
  BY <1>3 DEF Observer, Next
<1>4. ASSUME NEW c \in Slot, Ends(c) PROVE [Next]_vars
  BY <1>4, ReportIsAStep DEF Ends
<1>5. CASE UNCHANGED allvars
  BY <1>5 DEF allvars
<1> QED BY <1>1, <1>2, <1>3, <1>4, <1>5 DEF HTTP1Next

(* So a behaviour of the server is one of the channel.                     *)
LEMMA ChannelBehaves == HTTP1Spec => Spec
<1>1. HTTP1Init => Init
  BY DEF HTTP1Init
<1> QED BY <1>1, ChannelStep, PTL DEF HTTP1Spec, Spec

(* What is proved of the channel holds of the running server: every late   *)
(* match that a connection reports (app.py:804-826) is delivered, dropped  *)
(* and counted, or queued, in order and within the limit, and none is      *)
(* delivered once the channel was stopped.                                 *)
THEOREM ChannelInvariants ==
  HTTP1Spec => /\ []Conservation /\ []Bounded /\ []InOrder
               /\ SilentAfterStop
<1> QED BY ChannelBehaves, ConservationHolds, BoundedHolds, InOrderHolds, SilentAfterStopHolds, PTL

-----------------------------------------------------------------------------
(* What a step makes of the record of a task.  TLAPS has no type for it (a *)
(* wire, a guard), so IsTask states its shape.                             *)

IsTask(p) ==
    /\ p = [pc |-> p.pc, wire |-> p.wire, got |-> p.got, buffer |-> p.buffer,
            parsed |-> p.parsed, reply |-> p.reply, handler |-> p.handler,
            event |-> p.event, guard |-> p.guard]
    /\ p.event \in BOOLEAN /\ p.pc # "free"

\* A task that parses has nothing to report.
Reading(p) == IsTask(p) /\ p.pc = "reading" /\ ~p.event

\* A later stage of task p that owes the same reports.
After(q, p) == IsTask(q) /\ q.event = p.event

(* One field changes, and the task owes what it owed.                      *)
LEMMA SetReply == ASSUME NEW p, NEW x, IsTask(p)
  PROVE  LET q == [p EXCEPT !.reply = x] IN After(q, p) /\ q.pc = p.pc
  BY DEF IsTask, After
LEMMA SetGot == ASSUME NEW p, NEW x, IsTask(p)
  PROVE  LET q == [p EXCEPT !.got = x] IN After(q, p) /\ q.pc = p.pc
  BY DEF IsTask, After
LEMMA SetBuffer == ASSUME NEW p, NEW x, IsTask(p)
  PROVE  LET q == [p EXCEPT !.buffer = x] IN After(q, p) /\ q.pc = p.pc
  BY DEF IsTask, After
LEMMA SetParsed == ASSUME NEW p, NEW x, IsTask(p)
  PROVE  LET q == [p EXCEPT !.parsed = x] IN After(q, p) /\ q.pc = p.pc
  BY DEF IsTask, After
LEMMA SetHandler == ASSUME NEW p, NEW x, IsTask(p)
  PROVE  LET q == [p EXCEPT !.handler = x] IN After(q, p) /\ q.pc = p.pc
  BY DEF IsTask, After
LEMMA SetGuard == ASSUME NEW p, NEW x, IsTask(p)
  PROVE  LET q == [p EXCEPT !.guard = x] IN After(q, p) /\ q.pc = p.pc
  BY DEF IsTask, After
LEMMA SetPc == ASSUME NEW p, NEW x, x # "free", IsTask(p)
  PROVE  LET q == [p EXCEPT !.pc = x] IN After(q, p) /\ q.pc = x
  BY DEF IsTask, After
LEMMA SetEvent == ASSUME NEW p, NEW x \in BOOLEAN, IsTask(p)
  PROVE  LET q == [p EXCEPT !.event = x] IN IsTask(q) /\ q.pc = p.pc
  BY DEF IsTask

(* A new task parses and has nothing to report.                            *)
LEMMA StartIsReading == ASSUME NEW w PROVE Reading(Start(w))
  BY DEF Start, Reading, IsTask, None

(* Sending makes no report.                                                *)
LEMMA SendKeeps ==
  ASSUME NEW p, NEW n, IsTask(p)
  PROVE  After(Send(p, n), p) /\ Send(p, n).pc = "sending"
<1> DEFINE q == [p EXCEPT !.pc = "sending"]
<1>1. After(q, p) /\ q.pc = "sending"
  BY SetPc
<1> HIDE DEF q
<1>2. Send(p, n) = [q EXCEPT !.reply = n]
  BY DEF Send, q
<1> QED BY <1>1, <1>2, SetReply DEF After

(* feed() leaves the task where it is, whatever it makes of the bytes.     *)
LEMMA ParseHeadKeeps ==
  ASSUME NEW p, Reading(p) PROVE Reading(ParseHead(p))
<1> DEFINE q == [p EXCEPT !.parsed = TRUE]
           r == [q EXCEPT !.buffer = @ - p.wire.head]
<1>1. Reading(q)
  BY SetParsed DEF Reading, After
<1>2. Reading(r)
  <2> HIDE DEF q
  <2> QED BY <1>1, SetBuffer DEF Reading, After
<1>3. r = [p EXCEPT !.parsed = TRUE, !.buffer = @ - p.wire.head]
  BY DEF IsTask, Reading
<1>4. Reading(Refuse(p, Verdict(p.wire)))
  BY SetReply DEF Refuse, Reading, After
<1> HIDE DEF r
<1> QED BY <1>2, <1>3, <1>4 DEF ParseHead

(* Nor does parsing.                                                       *)
LEMMA FeedKeeps ==
  ASSUME NEW p, NEW n, Reading(p) PROVE Reading(ParserFeed(p, n))
<1> DEFINE o == [p EXCEPT !.got = @ + n]
           q == [p EXCEPT !.got = @ + n, !.buffer = @ + n]
           t == IF TooLong(q) THEN Refuse(q, 413) ELSE ParseHead(q)
<1>1. Reading(o)
  BY SetGot DEF Reading, After
<1>2. Reading(q)
  <2>1. q = [o EXCEPT !.buffer = p.buffer + n]
    OBVIOUS
  <2> HIDE DEF o, q
  <2> QED BY <1>1, <2>1, SetBuffer DEF Reading, After
<1> HIDE DEF q
<1>3. Reading(t)
  <2>1. Reading(Refuse(q, 413))
    BY <1>2, SetReply DEF Refuse, Reading, After
  <2>2. Reading(ParseHead(q))
    BY <1>2, ParseHeadKeeps
  <2> QED BY <2>1, <2>2
<1> HIDE DEF t
<1>4. Reading(IF Complete(t) /\ t.wire.broken THEN Refuse(t, 400) ELSE t)
  BY <1>3, SetReply DEF Refuse, Reading, After
<1> QED BY <1>4 DEF ParserFeed, t, q

(* What an iteration of the connection loop leads to: the task reads on,   *)
(* is over, or has left the loop.                                          *)
LEMMA ResolveKind ==
  ASSUME NEW t, NEW method, NEW path, NEW late
  PROVE  Resolve(t, method, path, late).kind \in {"handler", "none", "too large", "late"}
  BY DEF Resolve, Found, Allowed, AllowedAt, Late, TooLarge

(* A dispatch leaves the parser; only here can a report come to be owed.   *)
LEMMA DispatchedKeeps ==
  ASSUME NEW p, NEW late, IsTask(p)
  PROVE  IsTask(Dispatched(p, late)) /\ Dispatched(p, late).pc # "reading"
<1> DEFINE result == Resolve(table, p.wire.method, p.wire.path, late)
           h == [p EXCEPT !.pc = "handling"]
           r == [h EXCEPT !.handler = result.handler]
           s == Send(p, 500)
           l == [s EXCEPT !.event = TRUE]
<1> HIDE DEF result
<1>1. IsTask(h) /\ h.pc = "handling"
  BY SetPc DEF After
<1>2. IsTask(r) /\ r.pc = "handling"
  <2> HIDE DEF h
  <2> QED BY <1>1, SetHandler DEF After
<1>3. IsTask(l) /\ l.pc = "sending"
  <2>1. After(s, p) /\ s.pc = "sending"
    BY SendKeeps
  <2>2. IsTask(s)
    BY <2>1 DEF After
  <2> HIDE DEF s
  <2> QED BY <2>1, <2>2, SetEvent
<1>4. \A n : IsTask(Send(p, n)) /\ Send(p, n).pc = "sending"
  BY SendKeeps DEF After
<1>5. r = [p EXCEPT !.pc = "handling", !.handler = result.handler]
  OBVIOUS
<1>6. CASE result.kind = "handler"
  <2>1. Dispatched(p, late) = r
    BY <1>6, <1>5 DEF Dispatched, result
  <2> HIDE DEF r
  <2> QED BY <1>2, <2>1
<1>7. CASE result.kind = "late"
  <2>1. Dispatched(p, late) = l
    BY <1>7 DEF Dispatched, result
  <2> HIDE DEF l
  <2> QED BY <1>3, <2>1
<1>8. CASE result.kind = "none"
  <2>1. Dispatched(p, late) = Send(p, IF result.methods = {} THEN 404 ELSE 405)
    BY <1>8 DEF Dispatched, result
  <2> QED BY <1>4, <2>1
<1>9. CASE result.kind = "too large"
  <2>1. Dispatched(p, late) = Send(p, 414)
    BY <1>9 DEF Dispatched, result
  <2> QED BY <1>4, <2>1
<1> QED BY <1>6, <1>7, <1>8, <1>9, ResolveKind DEF result

(* So does an upgrade.                                                     *)
LEMMA UpgradeKeeps ==
  ASSUME NEW p, NEW q \in UpgradeOutcomes(p), IsTask(p)
  PROVE  IsTask(q) /\ q.pc # "reading"
<1> DEFINE u == [p EXCEPT !.pc = "upgrading"]
<1>1. IsTask(u) /\ u.pc = "upgrading"
  BY SetPc DEF After
<1>2. \A n : IsTask(Send(p, n)) /\ Send(p, n).pc = "sending"
  BY SendKeeps DEF After
<1>3. q = u \/ \E n : q = Send(p, n)
  BY DEF UpgradeOutcomes
<1> HIDE DEF u
<1> QED BY <1>1, <1>2, <1>3

(* The whole of an iteration: a task that still parses owes no report.     *)
LEMMA OutcomesKeep ==
  ASSUME NEW p, NEW q \in Outcomes(p), Reading(p)
  PROVE  q = Free \/ Reading(q) \/ (IsTask(q) /\ q.pc # "reading")
<1>1. \A n : IsTask(Send(p, n)) /\ Send(p, n).pc = "sending"
  BY SendKeeps DEF After, Reading
<1>2. \/ \E n : q = Send(p, n)
      \/ q = Free \/ q = p
      \/ q \in UpgradeOutcomes(p)
      \/ \E late : q = Dispatched(p, late)
  BY DEF Outcomes
<1> QED BY <1>1, <1>2, UpgradeKeeps, DispatchedKeeps DEF Reading

(* The reader of a WebSocket has left the parser.                          *)
LEMMA GuardedKeeps ==
  ASSUME NEW p, NEW n, NEW got, IsTask(p)
  PROVE  /\ After(Guarded(p, n), p) /\ Guarded(p, n).pc # "reading"
         /\ LET q == [Guarded(p, n) EXCEPT !.got = got]
            IN  After(q, p) /\ q.pc # "reading"
<1> DEFINE g == GuardFeed(p.guard, p.wire.frames, n)
           o == [p EXCEPT !.guard = g]
           label == IF g.failed THEN "refused" ELSE "websocket"
           q == [o EXCEPT !.pc = label]
<1> HIDE DEF g
<1>1. After(o, p)
  BY SetGuard
<1>2. After(q, p) /\ q.pc # "reading"
  <2>1. label # "free" /\ label # "reading"
    OBVIOUS
  <2> HIDE DEF o, label
  <2> QED BY <1>1, <2>1, SetPc DEF After
<1>3. Guarded(p, n) = q
  BY DEF Guarded, g
<1> HIDE DEF q
<1> QED BY <1>2, <1>3, SetGot DEF After

-----------------------------------------------------------------------------
(* The shape of all tasks: one that reads has nothing to report.           *)
Proper(p) == p = Free \/ (IsTask(p) /\ (p.pc = "reading" => ~p.event))
Shapes == conn = [c \in Slot |-> conn[c]] /\ \A c \in Slot : Proper(conn[c])

Owes(p) == p.pc # "free" /\ p.event
Owing == {c \in Slot : Owes(conn[c])}

(* Every late match was offered to the channel or is owed by its task: with *)
(* what the channel does with an event (Conservation) that is the property. *)
Reported == timeouts = offered + Cardinality({c \in Live : conn[c].event})

(* The inductive invariant behind OneEventPerTimeout.                      *)
Reports == Shapes /\ Reported

(* Reported counts the tasks that owe a report.                  *)
LEMMA OwingCounts ==
  /\ Reported <=> (timeouts = offered + Cardinality(Owing))
  /\ Reported' <=> (timeouts' = offered' + Cardinality(Owing'))
<1>1. {c \in Live : conn[c].event} = Owing
  BY DEF Live, Busy, Owing, Owes
<1>2. {c \in Live' : conn'[c].event} = Owing'
  BY DEF Live, Busy, Owing, Owes
<1> QED BY <1>1, <1>2 DEF Reported

(* One task changes, and is counted for what it then owes.                 *)
LEMMA OneTaskChanges ==
  ASSUME Shapes, NEW c \in Slot, NEW q, Proper(q), Become(c, q)
  PROVE  Shapes' /\ Owing' = IF Owes(q) THEN Owing \cup {c} ELSE Owing \ {c}
  BY DEF Shapes, Become, Owing

(* How the number of reports that are owed changes with it.                *)
LEMMA OwedCount ==
  ASSUME Shapes, NEW c \in Slot, NEW q, Proper(q), Become(c, q)
  PROVE  /\ Cardinality(Owing) \in Nat
         /\ (Owes(q) <=> Owes(conn[c])) => Cardinality(Owing') = Cardinality(Owing)
         /\ Owes(q) /\ ~Owes(conn[c]) => Cardinality(Owing') = Cardinality(Owing) + 1
         /\ ~Owes(q) /\ Owes(conn[c]) => Cardinality(Owing') = Cardinality(Owing) - 1
<1>1. IsFiniteSet(Owing) /\ Cardinality(Owing) \in Nat
  BY FS_Subset, FS_CardinalityType, HTTP1Assumption DEF Owing
<1>2. c \in Owing <=> Owes(conn[c])
  BY DEF Owing
<1>3. Owing' = IF Owes(q) THEN Owing \cup {c} ELSE Owing \ {c}
  BY OneTaskChanges
<1>4. Cardinality(Owing \cup {c}) = IF c \in Owing THEN Cardinality(Owing)
                                                   ELSE Cardinality(Owing) + 1
  BY <1>1, FS_AddElement
<1>5. Cardinality(Owing \ {c}) = IF c \in Owing THEN Cardinality(Owing) - 1
                                                 ELSE Cardinality(Owing)
  BY <1>1, FS_RemoveElement
<1> QED BY <1>1, <1>2, <1>3, <1>4, <1>5

(* A task that changes and owes what it owed before, while the counters    *)
(* stay.                                                                   *)
LEMMA QuietChange ==
  ASSUME Reports, NEW c \in Slot, NEW q, Proper(q), Become(c, q),
         Owes(q) <=> Owes(conn[c]), timeouts' = timeouts, offered' = offered
  PROVE  Reports'
<1>1. Shapes' /\ Cardinality(Owing') = Cardinality(Owing)
  BY OneTaskChanges, OwedCount DEF Reports
<1> QED BY <1>1, OwingCounts DEF Reports

(* There is no task and no report at the start.                            *)
LEMMA ReportsInit == HTTP1Init => Reports
<1> SUFFICES ASSUME HTTP1Init PROVE Reports
  OBVIOUS
<1>1. Shapes
  BY DEF HTTP1Init, Shapes, Proper
<1>2. Owing = {}
  BY DEF HTTP1Init, Owing, Owes, Free
<1>3. timeouts = 0 /\ offered = 0
  BY DEF HTTP1Init, Init
<1> QED BY <1>1, <1>2, <1>3, FS_EmptySet, OwingCounts DEF Reports

(* A match that is late is counted when the task comes to owe its report.  *)
LEMMA ReceiveKeeps ==
  ASSUME Reports, TypeOK, NEW c \in Slot, Receive(c) PROVE Reports'
<1>0. PICK n \in Cuts(conn[c]) : \E q \in Outcomes(ParserFeed(conn[c], n)) :
        /\ Become(c, q)
        /\ timeouts' = timeouts + (IF q # Free /\ q.event THEN 1 ELSE 0)
  BY DEF Receive
<1>1. PICK q \in Outcomes(ParserFeed(conn[c], n)) :
        /\ Become(c, q)
        /\ timeouts' = timeouts + (IF q # Free /\ q.event THEN 1 ELSE 0)
  BY <1>0
<1>2. Reading(conn[c])
  BY DEF Receive, Reports, Shapes, Proper, Reading, Free
<1>3. Proper(q)
  BY <1>2, FeedKeeps, OutcomesKeep DEF Proper, Reading
<1>4. Owes(q) <=> q # Free /\ q.event
  BY <1>3 DEF Proper, Owes, IsTask, Free
<1>5. ~Owes(conn[c])
  BY <1>2 DEF Reading, Owes
<1>6. Shapes'
  BY <1>1, <1>3, OneTaskChanges DEF Reports
<1>7. offered' = offered
  BY DEF Receive, vars
<1>8. timeouts' = offered' + Cardinality(Owing')
  <2>1. offered \in Nat /\ timeouts = offered + Cardinality(Owing)
    BY OwingCounts, ObserverAssumption DEF Reports, TypeOK
  <2>2. Cardinality(Owing) \in Nat
    BY <1>1, <1>3, OwedCount DEF Reports
  <2>3. CASE Owes(q)
    <3>1. Cardinality(Owing') = Cardinality(Owing) + 1
      BY <1>1, <1>3, <1>5, <2>3, OwedCount DEF Reports
    <3> QED BY <1>1, <1>4, <1>7, <2>1, <2>2, <2>3, <3>1
  <2>4. CASE ~Owes(q)
    <3>1. Cardinality(Owing') = Cardinality(Owing)
      BY <1>1, <1>3, <1>5, <2>4, OwedCount DEF Reports
    <3> QED BY <1>1, <1>4, <1>7, <2>1, <2>2, <2>4, <3>1
  <2> QED BY <2>3, <2>4
<1> QED BY <1>6, <1>8, OwingCounts DEF Reports

(* The finally clause offers the event, and the task owes it no more.      *)
LEMMA EndsKeeps ==
  ASSUME Reports, TypeOK, NEW c \in Slot, Ends(c) PROVE Reports'
<1>1. Become(c, Free) /\ Proper(Free) /\ ~Owes(Free) /\ timeouts' = timeouts
  BY DEF Ends, Proper, Owes, Free
<1>2. CASE ~Owes(conn[c])
  <2>1. offered' = offered
    BY <1>2 DEF Ends, Report, Owes, Busy, vars
  <2> QED BY <1>1, <1>2, <2>1, QuietChange
<1>3. CASE Owes(conn[c])
  <2>1. offered' = offered + 1
    BY <1>3 DEF Ends, Report, Owes, EnqueueFull, Enqueue, EnqueueUnsignalled, Offer
  <2>2. Shapes' /\ Cardinality(Owing) \in Nat /\ Cardinality(Owing') = Cardinality(Owing) - 1
    BY <1>1, <1>3, OneTaskChanges, OwedCount DEF Reports
  <2>3. offered \in Nat /\ timeouts = offered + Cardinality(Owing)
    BY OwingCounts, ObserverAssumption DEF Reports, TypeOK
  <2> QED BY <1>1, <2>1, <2>2, <2>3, OwingCounts DEF Reports
<1> QED BY <1>2, <1>3

(* Every step keeps the count.                                             *)
LEMMA ReportsNext == Reports /\ TypeOK /\ [HTTP1Next]_allvars => Reports'
<1> SUFFICES ASSUME Reports, TypeOK, [HTTP1Next]_allvars PROVE Reports'
  OBVIOUS
<1>1. ASSUME UNCHANGED <<conn, timeouts, offered>> PROVE Reports'
  BY <1>1 DEF Reports, Shapes, Reported, Live, Busy
<1>2. CASE \/ Configure \/ Serve \/ BeginClose \/ StopChannel \/ Observer
           \/ UNCHANGED allvars
  BY <1>1, <1>2 DEF Configure, Serve, BeginClose, StopChannel, Observer, http1, vars,
       allvars, Stop, ObserverRuns, ObserverCancelled
<1>3. ASSUME NEW c \in Slot, Accept(c) PROVE Reports'
  <2>1. PICK w \in Wire : Become(c, Start(w))
    BY <1>3 DEF Accept
  <2>2. Proper(Start(w)) /\ ~Owes(Start(w))
    BY StartIsReading DEF Proper, Owes, Reading
  <2>3. ~Owes(conn[c]) /\ timeouts' = timeouts /\ offered' = offered
    BY <1>3 DEF Accept, Owes, Busy, vars
  <2> QED BY <2>1, <2>2, <2>3, QuietChange
<1>4. ASSUME NEW c \in Slot, HandlerReturns(c) PROVE Reports'
  <2>1. PICK status \in {200, 500} : Become(c, Send(conn[c], status))
    BY <1>4 DEF HandlerReturns
  <2>2. IsTask(conn[c])
    BY <1>4 DEF HandlerReturns, Reports, Shapes, Proper, Free
  <2>3. After(Send(conn[c], status), conn[c]) /\ Send(conn[c], status).pc = "sending"
    BY <2>2, SendKeeps
  <2>4. /\ Proper(Send(conn[c], status))
        /\ Owes(Send(conn[c], status)) <=> Owes(conn[c])
    BY <2>2, <2>3 DEF Proper, Owes, After, IsTask
  <2>5. timeouts' = timeouts /\ offered' = offered
    BY <1>4 DEF HandlerReturns, vars
  <2> QED BY <2>1, <2>4, <2>5, QuietChange
<1>5. ASSUME NEW c \in Slot, NEW q, Become(c, q), IsTask(conn[c]), After(q, conn[c]),
             q.pc # "reading", UNCHANGED <<timeouts, vars>>
      PROVE  Reports'
  <2>1. Proper(q) /\ (Owes(q) <=> Owes(conn[c]))
    BY <1>5 DEF Proper, Owes, After, IsTask
  <2>2. offered' = offered
    BY <1>5 DEF vars
  <2> QED BY <1>5, <2>1, <2>2, QuietChange
<1>6. ASSUME NEW c \in Slot, ReaderStarts(c) PROVE Reports'
  <2>1. IsTask(conn[c])
    BY <1>6 DEF ReaderStarts, Reports, Shapes, Proper, Free
  <2> DEFINE q == Guarded(conn[c], Trailing(conn[c]))
  <2>2. After(q, conn[c]) /\ q.pc # "reading"
    BY <2>1, GuardedKeeps
  <2>3. Become(c, q) /\ UNCHANGED <<timeouts, vars>>
    BY <1>6 DEF ReaderStarts
  <2> HIDE DEF q
  <2> QED BY <1>5, <2>1, <2>2, <2>3
<1>7. ASSUME NEW c \in Slot, ReaderReceives(c) PROVE Reports'
  <2>1. IsTask(conn[c])
    BY <1>7 DEF ReaderReceives, Reports, Shapes, Proper, Free
  <2>2. PICK n : Become(c, [Guarded(conn[c], n) EXCEPT !.got = @ + n])
    BY <1>7 DEF ReaderReceives
  <2> DEFINE q == [Guarded(conn[c], n) EXCEPT !.got = @ + n]
  <2>3. After(q, conn[c]) /\ q.pc # "reading"
    BY <2>1, GuardedKeeps
  <2>4. Become(c, q) /\ UNCHANGED <<timeouts, vars>>
    BY <1>7, <2>2 DEF ReaderReceives
  <2> HIDE DEF q
  <2> QED BY <1>5, <2>1, <2>3, <2>4
<1> QED BY <1>2, <1>3, <1>4, <1>6, <1>7, ReceiveKeeps, EndsKeeps DEF HTTP1Next

(* Every request that failed by a late match is accounted for exactly      *)
(* once, whether its 500 cannot be sent or its task is cancelled while it  *)
(* sends (app.py:804-817), and whatever the channel makes of the event     *)
(* (server.py:186-213).                                                    *)
THEOREM OneEventPerTimeoutHolds == HTTP1Spec => []OneEventPerTimeout
<1>1. HTTP1Spec => []TypeOK
  BY ChannelBehaves, TypeOKHolds, PTL
<1>2. HTTP1Spec => []Conservation
  BY ChannelInvariants, PTL
<1>3. Reports /\ Conservation => OneEventPerTimeout
  BY DEF Reports, Reported, Conservation, OneEventPerTimeout
<1> QED BY <1>1, <1>2, <1>3, ReportsInit, ReportsNext, PTL DEF HTTP1Spec

-----------------------------------------------------------------------------
(* The tables are sound as long as the application registers, and do not   *)
(* change once it serves.                                                  *)
LEMMA TablesHold == HTTP1Spec => []Tables
<1>1. HTTP1Init => Tables
  BY TablesInit DEF HTTP1Init
<1>2. Tables /\ [HTTP1Next]_allvars => Tables'
  <2> SUFFICES ASSUME Tables, [HTTP1Next]_allvars PROVE Tables'
    OBVIOUS
  <2>1. CASE Configure
    BY <2>1, TablesNext DEF Configure
  <2>2. ASSUME UNCHANGED router PROVE Tables'
    BY <2>2 DEF Tables, router
  <2>3. CASE Serve \/ BeginClose \/ StopChannel \/ Observer \/ UNCHANGED allvars
    BY <2>2, <2>3 DEF Serve, BeginClose, StopChannel, Observer, allvars
  <2>4. ASSUME NEW c \in Slot,
               \/ Accept(c) \/ Receive(c) \/ HandlerReturns(c) \/ Ends(c)
               \/ ReaderStarts(c) \/ ReaderReceives(c)
        PROVE  Tables'
    BY <2>2, <2>4 DEF Accept, Receive, HandlerReturns, Ends, ReaderStarts, ReaderReceives
  <2> QED BY <2>1, <2>3, <2>4 DEF HTTP1Next
<1> QED BY <1>1, <1>2, PTL DEF HTTP1Spec

(* Whatever an application registers, a request is resolved as the guide   *)
(* promises, and never to another route, a 404 or a wrong Allow list       *)
(* because a match is late (routing.py:128-260).                           *)
THEOREM RoutesAreSoundHolds == HTTP1Spec => []RoutesAreSound
<1>1. Tables => RoutesAreSound
  BY TablesAreSound DEF RoutesAreSound
<1> QED BY <1>1, TablesHold, PTL

-----------------------------------------------------------------------------
(* A task, field by field.                                                 *)
TaskOf(s, w, g, b, d, r, h, e, x) ==
    [pc |-> s, wire |-> w, got |-> g, buffer |-> b, parsed |-> d, reply |-> r,
     handler |-> h, event |-> e, guard |-> x]

(* The fields of a task are the values it was put together from.           *)
LEMMA TaskFields ==
    ASSUME NEW s, NEW w, NEW g, NEW b, NEW d, NEW r, NEW h, NEW e, NEW x
    PROVE  LET p == TaskOf(s, w, g, b, d, r, h, e, x)
           IN  /\ p.pc = s /\ p.wire = w /\ p.got = g /\ p.buffer = b /\ p.parsed = d
               /\ p.reply = r /\ p.handler = h /\ p.event = e /\ p.guard = x
  BY DEF TaskOf

PutPc(p, v) == [p EXCEPT !.pc = v]
PutGot(p, v) == [p EXCEPT !.got = v]
PutBuffer(p, v) == [p EXCEPT !.buffer = v]
PutParsed(p, v) == [p EXCEPT !.parsed = v]
PutReply(p, v) == [p EXCEPT !.reply = v]
PutHandler(p, v) == [p EXCEPT !.handler = v]
PutEvent(p, v) == [p EXCEPT !.event = v]
PutGuard(p, v) == [p EXCEPT !.guard = v]

(* Setting one field of a task.                                            *)
LEMMA Puts ==
    ASSUME NEW s, NEW w, NEW g, NEW b, NEW d, NEW r, NEW h, NEW e, NEW x, NEW v
    PROVE  LET p == TaskOf(s, w, g, b, d, r, h, e, x)
           IN  /\ PutPc(p, v) = TaskOf(v, w, g, b, d, r, h, e, x)
               /\ PutGot(p, v) = TaskOf(s, w, v, b, d, r, h, e, x)
               /\ PutBuffer(p, v) = TaskOf(s, w, g, v, d, r, h, e, x)
               /\ PutParsed(p, v) = TaskOf(s, w, g, b, v, r, h, e, x)
               /\ PutReply(p, v) = TaskOf(s, w, g, b, d, v, h, e, x)
               /\ PutHandler(p, v) = TaskOf(s, w, g, b, d, r, v, e, x)
               /\ PutEvent(p, v) = TaskOf(s, w, g, b, d, r, h, v, x)
               /\ PutGuard(p, v) = TaskOf(s, w, g, b, d, r, h, e, v)
  BY DEF TaskOf, PutPc, PutGot, PutBuffer, PutParsed, PutReply, PutHandler, PutEvent, PutGuard

(* A task is put together from its fields.                                 *)
LEMMA TaskIs ==
    ASSUME NEW p, IsTask(p)
    PROVE  p = TaskOf(p.pc, p.wire, p.got, p.buffer, p.parsed, p.reply, p.handler, p.event, p.guard)
  BY DEF IsTask, TaskOf

(* A task that sends.                                                      *)
LEMMA SendIs ==
    ASSUME NEW s, NEW w, NEW g, NEW b, NEW d, NEW r, NEW h, NEW e, NEW x, NEW v
    PROVE  Send(TaskOf(s, w, g, b, d, r, h, e, x), v) = TaskOf("sending", w, g, b, d, v, h, e, x)
<1> DEFINE p == TaskOf(s, w, g, b, d, r, h, e, x)
<1>1. PutReply(PutPc(p, "sending"), v) = TaskOf("sending", w, g, b, d, v, h, e, x)
  BY Puts
<1> HIDE DEF p
<1>2. Send(p, v) = PutReply(PutPc(p, "sending"), v)
  BY DEF Send, PutReply, PutPc
<1> QED BY <1>1, <1>2 DEF p

-----------------------------------------------------------------------------
(* What is sent is of the types that HTTP1Assumption gives it.             *)
LEMMA WireIs ==
    ASSUME NEW w \in Wire
    PROVE  /\ w.head \in Nat /\ w.claim \in Nat /\ w.size \in Nat /\ w.broken \in BOOLEAN
           /\ w.verdict \in {0, 400, 413, 414}
           /\ w.upgrade \in {"no", "valid", "unknown", "invalid"}
           /\ w.frames \in Seq(ClientFrame) /\ w.method \in Method /\ w.path \in Path
           /\ w.verdict = 0 \/ w.claim <= MaxBody
           /\ w.upgrade = "valid" =>
                w.size <= w.head + w.claim + Begin(w.frames, Len(w.frames) + 1)
           /\ MaxHeader \in Nat /\ MaxBody \in Nat /\ MaxServed \in Nat
  BY HTTP1Assumption

(* What feed() finds when n bytes of what a peer sends have come: the head *)
(* is not there yet, or refused, or it is read and b bytes are behind it.  *)
Pending(w, n) == (w.head = 0 \/ n < w.head) /\ n <= MaxHeader
Headed(w, n, b) ==
    /\ w.head > 0 /\ w.head <= n /\ w.head <= MaxHeader /\ Verdict(w) = 0 /\ b = n - w.head

(* The task of a connection in each of its stages.                         *)
Reads(p) ==
    /\ p.pc = "reading" /\ p.reply = None /\ p.handler = None /\ ~p.event
    /\ p.guard = NewGuard
    /\ ~p.parsed => p.buffer = p.got /\ Pending(p.wire, p.got)
    /\ p.parsed => Headed(p.wire, p.got, p.buffer) /\ p.buffer < p.wire.claim
Handles(p) ==
    /\ p.pc = "handling" /\ p.reply = None /\ p.guard = NewGuard
    /\ Whole(p.wire) /\ p.got >= p.wire.head + p.wire.claim
    /\ p.wire.upgrade = "no" /\ ~p.wire.broken
    /\ Promise(p.wire.method, p.wire.path) = Found(p.handler)
Sends(p) == p.pc = "sending" /\ p.reply \in Answers(p.wire) /\ p.guard = NewGuard
Upgrades(p) ==
    /\ p.pc = "upgrading" /\ p.reply = None /\ p.guard = NewGuard
    /\ p.wire.upgrade = "valid" /\ p.wire.claim = 0 /\ p.wire.head <= p.got
    /\ p.buffer = p.got - p.wire.head
Listens(p) ==
    /\ p.pc \in {"websocket", "refused"} /\ p.reply = None
    /\ p.wire.upgrade = "valid" /\ p.wire.claim = 0 /\ p.wire.head <= p.got
    /\ Fed(p.guard, p.wire.frames, p.got - p.wire.head)
    /\ (p.pc = "refused") = p.guard.failed

Carries(p) ==
    /\ IsTask(p) /\ p.wire \in Wire /\ p.got \in Nat /\ p.got <= p.wire.size
    /\ p.buffer \in Nat /\ p.parsed \in BOOLEAN /\ p.handler \in Nat
InStage(p) == Reads(p) \/ Handles(p) \/ Sends(p) \/ Upgrades(p) \/ Listens(p)
Orderly(p) == Carries(p) /\ InStage(p)

-----------------------------------------------------------------------------
(* What a chunk makes of a request: it is refused, or more is needed, or   *)
(* the whole of it is there.                                               *)
Fetched(w, n, b, d, r) ==
    \/ r # None /\ r \in Answers(w)
    \/ r = None /\ ~d /\ b = n /\ Pending(w, n)
    \/ r = None /\ d /\ Headed(w, n, b) /\ (b >= w.claim => Whole(w) /\ ~w.broken)

(* What the parser refuses, it refuses with the answer called for.         *)
LEMMA VerdictAnswers ==
    ASSUME NEW w \in Wire, w.head \in 1..w.size, w.head <= MaxHeader, Verdict(w) # 0
    PROVE  Verdict(w) \in Answers(w)
<1>1. HeadArrives(w)
  BY DEF HeadArrives
<1>2. (w.verdict = 0 \/ w.claim <= MaxBody) /\ w.claim \in Nat /\ MaxBody \in Nat
  BY WireIs
<1>3. CASE w.verdict # 0
  BY <1>1, <1>2, <1>3 DEF Verdict, Answers
<1>4. CASE w.verdict = 0
  BY ZenonT(60), <1>1, <1>2, <1>4 DEF Verdict, Answers
<1> QED BY <1>3, <1>4

(* A head that is too long, or never ends, gets 413.                       *)
LEMMA TooLongAnswers ==
    ASSUME NEW w \in Wire, w.size > MaxHeader, ~HeadArrives(w)
    PROVE  413 \in Answers(w)
  BY DEF Answers

(* A whole request that Request() refuses gets 400.                        *)
LEMMA BrokenAnswers ==
    ASSUME NEW w \in Wire, Whole(w), w.broken
    PROVE  400 \in Answers(w)
  BY WireIs DEF Answers, Whole

FeedsTo(q, w, k, h, e, x) ==
    \E b \in Nat : \E d \in BOOLEAN : \E r :
        q = TaskOf("reading", w, k, b, d, r, h, e, x) /\ Fetched(w, k, b, d, r)

(* feed(): the chunk makes the request refused, unfinished or whole.       *)
LEMMA FeedIs ==
    ASSUME NEW w \in Wire, NEW m \in Nat, NEW b \in Nat, NEW d \in BOOLEAN, NEW h, NEW e, NEW x,
           NEW n \in Nat, NEW k, k = m + n, k <= w.size,
           ~d => b = m,
           d => Headed(w, m, b)
    PROVE  FeedsTo(ParserFeed(TaskOf("reading", w, m, b, d, None, h, e, x), n), w, k, h, e, x)
<1> DEFINE p == TaskOf("reading", w, m, b, d, None, h, e, x)
           b1 == b + n
           q == TaskOf("reading", w, k, b1, d, None, h, e, x)
           far == IF w.head = 0 \/ b1 < w.head THEN b1 > MaxHeader ELSE w.head > MaxHeader
           long == TaskOf("reading", w, k, b1, d, 413, h, e, x)
           bad == TaskOf("reading", w, k, b1, d, Verdict(w), h, e, x)
           b2 == b1 - w.head
<1> SUFFICES \E b3 \in Nat : \E d3 \in BOOLEAN : \E r :
               /\ ParserFeed(p, n) = TaskOf("reading", w, k, b3, d3, r, h, e, x)
               /\ Fetched(w, k, b3, d3, r)
  BY DEF FeedsTo
<1>1. w.head \in Nat /\ w.claim \in Nat /\ w.size \in Nat /\ MaxHeader \in Nat /\ MaxBody \in Nat
      /\ w.broken \in BOOLEAN /\ m \in Nat /\ n \in Nat /\ k \in Nat
  BY WireIs
<1>2. PICK yes \in BOOLEAN : yes = TRUE
  OBVIOUS
<1> DEFINE good == TaskOf("reading", w, k, b2, yes, None, h, e, x)
<1>3. [p EXCEPT !.got = @ + n, !.buffer = @ + n] = q
  <2>1. p.got = m /\ p.buffer = b
    BY TaskFields
  <2>2. PutBuffer(PutGot(p, k), b1) = q
    BY Puts
  <2> HIDE DEF p, q
  <2> QED BY <2>1, <2>2 DEF PutBuffer, PutGot
<1>4. /\ q.parsed = d /\ q.buffer = b1 /\ q.wire = w
      /\ long.parsed = d /\ long.reply = 413
      /\ bad.parsed = d
      /\ good.parsed = yes /\ good.buffer = b2 /\ good.wire = w
  BY TaskFields
<1>5. Refuse(q, 413) = long /\ Refuse(q, Verdict(w)) = bad
  <2>1. PutReply(q, 413) = long /\ PutReply(q, Verdict(w)) = bad
    BY Puts
  <2> HIDE DEF q, long, bad
  <2> QED BY <2>1 DEF Refuse, PutReply
<1>6. [q EXCEPT !.parsed = TRUE, !.buffer = @ - w.head] = good
  <2>1. PutBuffer(PutParsed(q, yes), b2) = good
    <3>1. PutParsed(q, yes) = TaskOf("reading", w, k, b1, yes, None, h, e, x)
      BY Puts
    <3>2. PutBuffer(TaskOf("reading", w, k, b1, yes, None, h, e, x), b2) = good
      BY Puts
    <3> HIDE DEF q, good
    <3> QED BY <3>1, <3>2
  <2> HIDE DEF q, good
  <2> QED BY <1>2, <1>4, <2>1 DEF PutBuffer, PutParsed
<1> HIDE DEF p, q, long, bad, good
<1>7. TooLong(q) <=> ~d /\ far
  BY <1>4 DEF TooLong
<1> DEFINE t == IF TooLong(q) THEN long ELSE ParseHead(q)
<1>8. ParserFeed(p, n) = IF Complete(t) /\ t.wire.broken THEN Refuse(t, 400) ELSE t
  BY <1>3, <1>5 DEF ParserFeed
<1>9. ParseHead(q) = IF d \/ w.head = 0 \/ b1 < w.head THEN q
                     ELSE IF Verdict(w) # 0 THEN bad ELSE good
  BY <1>4, <1>5, <1>6 DEF ParseHead
<1> HIDE DEF t
<1>10. CASE ~d /\ far
  <2>1. t = long
    BY <1>7, <1>10 DEF t
  <2>2. ParserFeed(p, n) = long
    BY <1>4, <1>8, <1>10, <2>1 DEF Complete
  <2>3. b1 = k /\ b1 \in Nat
    BY <1>1, <1>10
  <2>4. 413 \in Answers(w)
    <3>1. w.size > MaxHeader
      BY <1>1, <1>10, <2>3
    <3>2. ~HeadArrives(w)
      BY <1>1, <1>10, <2>3 DEF HeadArrives
    <3> QED BY <3>1, <3>2, TooLongAnswers
  <2>5. Fetched(w, k, b1, d, 413)
    BY <2>4 DEF Fetched, None
  <2> QED BY <2>2, <2>3, <2>5 DEF long, p
<1>11. CASE ~d /\ ~far /\ (w.head = 0 \/ b1 < w.head)
  <2>1. t = q
    BY <1>7, <1>9, <1>11 DEF t
  <2>2. ParserFeed(p, n) = q
    BY <1>4, <1>8, <1>11, <2>1 DEF Complete
  <2>3. b1 = k /\ b1 \in Nat
    BY <1>1, <1>11
  <2>4. Fetched(w, k, b1, d, None)
    BY <1>1, <1>11, <2>3 DEF Fetched, Pending
  <2> QED BY <2>2, <2>3, <2>4 DEF q, p
<1>12. CASE ~d /\ ~far /\ ~(w.head = 0 \/ b1 < w.head) /\ Verdict(w) # 0
  <2>1. t = bad
    BY <1>7, <1>9, <1>12 DEF t
  <2>2. ParserFeed(p, n) = bad
    BY <1>4, <1>8, <1>12, <2>1 DEF Complete
  <2>3. b1 = k /\ b1 \in Nat
    BY <1>1, <1>12
  <2>4. Verdict(w) \in Answers(w)
    <3>1. w.head \in 1..w.size /\ w.head <= MaxHeader
      BY <1>1, <1>12, <2>3
    <3> QED BY <1>12, <3>1, VerdictAnswers
  <2>5. Fetched(w, k, b1, d, Verdict(w))
    BY <1>12, <2>4 DEF Fetched, None
  <2> QED BY <2>2, <2>3, <2>5 DEF bad, p
<1>13. ASSUME NEW b3 \in Nat, NEW d3 \in BOOLEAN, d3, Headed(w, k, b3),
              t = TaskOf("reading", w, k, b3, d3, None, h, e, x)
       PROVE  \E b4 \in Nat : \E d4 \in BOOLEAN : \E r :
                 /\ ParserFeed(p, n) = TaskOf("reading", w, k, b4, d4, r, h, e, x)
                 /\ Fetched(w, k, b4, d4, r)
  <2> DEFINE u == TaskOf("reading", w, k, b3, d3, None, h, e, x)
             refused == TaskOf("reading", w, k, b3, d3, 400, h, e, x)
  <2>1. u.parsed = d3 /\ u.buffer = b3 /\ u.wire = w
    BY TaskFields
  <2>2. Refuse(u, 400) = refused
    <3>1. PutReply(u, 400) = refused
      BY Puts
    <3> HIDE DEF u, refused
    <3> QED BY <3>1 DEF Refuse, PutReply
  <2>3. t = u
    BY <1>13
  <2> HIDE DEF u, refused
  <2>4. ParserFeed(p, n) = IF b3 >= w.claim /\ w.broken THEN refused ELSE u
    BY <1>8, <1>13, <2>1, <2>2, <2>3 DEF Complete
  <2>5. b3 >= w.claim => Whole(w)
    <3>1. HeadArrives(w)
      BY <1>1, <1>13 DEF HeadArrives, Headed
    <3>2. w.verdict = 0 /\ w.claim <= MaxBody
      BY <1>1, <1>13, WireIs DEF Headed, Verdict
    <3>3. b3 >= w.claim => w.head + w.claim <= w.size
      BY <1>1, <1>13 DEF Headed
    <3> QED BY <3>1, <3>2, <3>3 DEF Whole
  <2>6. CASE b3 >= w.claim /\ w.broken
    <3>1. 400 \in Answers(w)
      BY <2>5, <2>6, BrokenAnswers
    <3>2. Fetched(w, k, b3, d3, 400)
      BY <3>1 DEF Fetched, None
    <3> QED BY <2>4, <2>6, <3>2 DEF refused
  <2>7. CASE ~(b3 >= w.claim /\ w.broken)
    <3>1. Fetched(w, k, b3, d3, None)
      BY <1>13, <2>5, <2>7 DEF Fetched
    <3> QED BY <2>4, <2>7, <3>1 DEF u
  <2> QED BY <2>6, <2>7
<1>14. CASE d
  <2>1. t = q
    BY <1>7, <1>9, <1>14 DEF t
  <2>2. b1 \in Nat /\ Headed(w, k, b1)
    BY <1>1, <1>14 DEF Headed
  <2> QED BY <1>13, <1>14, <2>1, <2>2 DEF q, p
<1>15. CASE ~d /\ ~far /\ ~(w.head = 0 \/ b1 < w.head) /\ Verdict(w) = 0
  <2>1. t = good
    BY <1>7, <1>9, <1>15 DEF t
  <2>2. b2 \in Nat /\ Headed(w, k, b2)
    BY <1>1, <1>15 DEF Headed
  <2> QED BY <1>2, <1>13, <2>1, <2>2 DEF good, p
<1> QED BY <1>10, <1>11, <1>12, <1>14, <1>15

-----------------------------------------------------------------------------
(* What a whole request is answered with.                                  *)
Routed(w, routed) ==
    /\ 500 \in Answers(w)
    /\ w.size > w.head + w.claim => 400 \in Answers(w)
    /\ routed.kind = "handler" => 200 \in Answers(w)
    /\ routed.kind = "too large" => 414 \in Answers(w)
    /\ routed.kind = "none" => (IF routed.methods = {} THEN 404 ELSE 405) \in Answers(w)

Sent(routed) ==
    CASE routed.kind = "handler" -> {200}
      [] routed.kind = "too large" -> {414}
      [] routed.kind = "none" -> {IF routed.methods = {} THEN 404 ELSE 405}

(* The arms of Answers for a whole request.                                *)
LEMMA AnswersAre ==
    ASSUME NEW w \in Wire, Whole(w), ~w.broken
    PROVE  /\ w.upgrade = "unknown" => Answers(w) = {404}
           /\ w.upgrade = "invalid" => Answers(w) = {400}
           /\ w.upgrade = "valid" /\ w.claim > 0 => Answers(w) = {400}
           /\ w.upgrade = "valid" /\ ~(w.claim > 0) => Answers(w) = {503}
           /\ w.upgrade = "no" =>
                Answers(w) = (IF w.size > w.head + w.claim THEN {400} ELSE {})
                             \cup {500} \cup Sent(Promise(w.method, w.path))
<1>1. HeadArrives(w) /\ w.verdict = 0 /\ ~(w.claim > MaxBody) /\ (w.claim = 0 <=> ~(w.claim > 0))
  BY WireIs DEF Whole
<1> DEFINE sent == Sent(Promise(w.method, w.path))
           more == IF w.size > w.head + w.claim THEN {400} ELSE {}
           u == w.upgrade
           long == w.claim > 0
           short == w.claim = 0
           all == CASE u = "unknown" -> {404}
                    [] u = "invalid" \/ (u = "valid" /\ long) -> {400}
                    [] u = "valid" /\ short -> {503}
                    [] u = "no" -> more \cup {500} \cup sent
<1>2. Answers(w) = all
  BY <1>1 DEF Answers, Sent
<1> HIDE DEF sent
<1>3. /\ u = "unknown" => all = {404}
      /\ u = "invalid" => all = {400}
      /\ u = "valid" /\ long => all = {400}
      /\ u = "valid" /\ ~long => all = {503}
      /\ u = "no" => all = more \cup {500} \cup sent
  <2>0. short <=> ~long
    BY <1>1
  <2> HIDE DEF u, long, short, more
  <2>1. CASE u = "unknown"
    BY <2>1
  <2>2. CASE u = "invalid"
    BY <2>2
  <2>3. CASE u = "valid"
    BY <2>0, <2>3
  <2>4. CASE u = "no"
    BY <2>4
  <2> QED BY <2>1, <2>2, <2>3, <2>4
<1> HIDE DEF all
<1> QED BY <1>2, <1>3 DEF sent

(* The statuses the arms contain.                                          *)
LEMMA WholeAnswers ==
    ASSUME NEW w \in Wire, Whole(w), ~w.broken
    PROVE  /\ w.upgrade = "unknown" => 404 \in Answers(w)
           /\ w.upgrade = "invalid" => 400 \in Answers(w)
           /\ w.upgrade = "valid" /\ w.claim > 0 => 400 \in Answers(w)
           /\ w.upgrade = "valid" /\ ~(w.claim > 0) => 503 \in Answers(w)
           /\ w.upgrade = "no" => Routed(w, Promise(w.method, w.path))
<1> DEFINE routed == Promise(w.method, w.path)
           more == IF w.size > w.head + w.claim THEN {400} ELSE {}
           kind == routed.kind
           status == IF routed.methods = {} THEN 404 ELSE 405
<1>1. w.upgrade = "no" => Answers(w) = more \cup {500} \cup Sent(routed)
  BY AnswersAre
<1>2. /\ kind = "handler" => 200 \in Sent(routed)
      /\ kind = "too large" => 414 \in Sent(routed)
      /\ kind = "none" => status \in Sent(routed)
  <2>1. Sent(routed) = CASE kind = "handler" -> {200}
                         [] kind = "too large" -> {414}
                         [] kind = "none" -> {status}
    BY DEF Sent
  <2> HIDE DEF kind, status, routed
  <2> QED BY ZenonT(60), <2>1
<1>3. w.size > w.head + w.claim => 400 \in more
  OBVIOUS
<1> HIDE DEF more
<1>4. w.upgrade = "no" => Routed(w, routed)
  <2> SUFFICES ASSUME w.upgrade = "no" PROVE Routed(w, routed)
    OBVIOUS
  <2>1. Answers(w) = more \cup {500} \cup Sent(routed)
    BY <1>1
  <2>2. 500 \in Answers(w) /\ (w.size > w.head + w.claim => 400 \in Answers(w))
    BY <1>3, <2>1
  <2>3. /\ kind = "handler" => 200 \in Answers(w)
        /\ kind = "too large" => 414 \in Answers(w)
        /\ kind = "none" => status \in Answers(w)
    <3> HIDE DEF kind, status
    <3> QED BY ZenonT(60), <1>2, <2>1
  <2> HIDE DEF routed
  <2> QED BY <2>2, <2>3 DEF Routed
<1> HIDE DEF routed
<1> QED BY <1>4, AnswersAre DEF routed

(* Every result of resolve() is one of four.                               *)
LEMMA ResolveForm ==
    ASSUME Tables, NEW method \in Method, NEW path \in Path, NEW late
    PROVE  LET result == Resolve(table, method, path, late)
           IN  \/ \E h \in Nat : result = Found(h)
               \/ \E methods : result = Allowed(methods)
               \/ result = Late \/ result = TooLarge
<1> DEFINE x == table.regex
           key == <<method, path>>
           stops == {i \in DOMAIN x : method \in DOMAIN x[i].handlers
                                      /\ (i \in late \/ Matches(table, i, path))}
           s == Lowest(stops)
           result == Resolve(table, method, path, late)
<1>1. PICK A : Holds(table, log, A)
  BY DEF Tables
<1>2. A \subseteq Nat
  BY <1>1, Numbered
<1>3. key \in DOMAIN table.static => table.static[key] \in Nat
  BY <1>1, <1>2 DEF Holds, Statics
<1>4. \A i \in DOMAIN x : \A m \in DOMAIN x[i].handlers : x[i].handlers[m] \in Nat
  BY <1>1, <1>2 DEF Holds, Regexes, Sound, Owns
<1>5. stops # {} => s \in stops
  <2>1. stops \subseteq Nat
    BY <1>1 DEF Holds, Regexes
  <2> HIDE DEF stops
  <2> QED BY <2>1, LeastExists
<1>6. \E methods : AllowedAt(table, method, path, late) = Allowed(methods)
                   \/ AllowedAt(table, method, path, late) = Late
  BY DEF AllowedAt
<1>7. result = IF key \in DOMAIN table.static THEN Found(table.static[key])
               ELSE IF x = <<>> THEN Allowed(StaticMethods(table, path))
               ELSE IF path \in LongPaths THEN TooLarge
               ELSE IF stops = {} THEN AllowedAt(table, method, path, late)
               ELSE IF s \in late THEN Late
               ELSE Found(x[s].handlers[method])
  BY DEF Resolve
<1>8. stops # {} => x[s].handlers[method] \in Nat
  <2>1. stops # {} => s \in DOMAIN x /\ method \in DOMAIN x[s].handlers
    BY <1>5
  <2> HIDE DEF s, stops
  <2> QED BY <1>4, <2>1
<1> HIDE DEF result, s, stops, x, key
<1> QED BY <1>3, <1>6, <1>7, <1>8 DEF result

(* The four results are told apart by their kind.                          *)
LEMMA ResultKinds ==
    ASSUME NEW h, NEW methods
    PROVE  /\ Found(h).kind = "handler" /\ Found(h).handler = h
           /\ Allowed(methods).kind = "none" /\ Allowed(methods).methods = methods
           /\ Late.kind = "late" /\ TooLarge.kind = "too large"
           /\ Found(h) # Late /\ Allowed(methods) # Late /\ TooLarge # Late
  BY DEF Found, Allowed, Late, TooLarge

(* Dispatching a whole request runs the promised handler, or answers with  *)
(* what the promise calls for; a late match makes it a 500.                *)
LEMMA DispatchAnswers ==
    ASSUME Tables, NEW w \in Wire, Whole(w), ~w.broken, w.upgrade = "no",
           NEW late \in SUBSET DOMAIN table.regex,
           NEW g, NEW b, NEW d, NEW h \in Nat, NEW e \in BOOLEAN, NEW x
    PROVE  LET q == Dispatched(TaskOf("reading", w, g, b, d, None, h, e, x), late)
           IN  \/ \E h2 \in Nat : /\ q = TaskOf("handling", w, g, b, d, None, h2, e, x)
                                  /\ Promise(w.method, w.path) = Found(h2)
               \/ \E e2 \in BOOLEAN : \E r \in Answers(w) :
                     q = TaskOf("sending", w, g, b, d, r, h, e2, x)
<1> DEFINE p == TaskOf("reading", w, g, b, d, None, h, e, x)
           result == Resolve(table, w.method, w.path, late)
           routed == Promise(w.method, w.path)
<1>1. w.method \in Method /\ w.path \in Path
  BY WireIs
<1>2. \/ \E h2 \in Nat : result = Found(h2)
      \/ \E methods : result = Allowed(methods)
      \/ result = Late \/ result = TooLarge
  BY <1>1, ResolveForm
<1>3. result # Late => result = routed
  <2>1. PICK A : Holds(table, log, A)
    BY DEF Tables
  <2> QED BY <1>1, <2>1, ResolveIsSound
<1>4. /\ 500 \in Answers(w)
      /\ routed.kind = "too large" => 414 \in Answers(w)
      /\ routed.kind = "none" => (IF routed.methods = {} THEN 404 ELSE 405) \in Answers(w)
  <2>1. Routed(w, routed)
    BY WholeAnswers
  <2> HIDE DEF routed
  <2> QED BY <2>1 DEF Routed
<1>5. Resolve(table, p.wire.method, p.wire.path, late) = result
  <2>1. p.wire = w
    BY TaskFields
  <2> HIDE DEF p
  <2> QED BY <2>1
<1>6. \A v : Send(p, v) = TaskOf("sending", w, g, b, d, v, h, e, x)
  BY SendIs
<1> HIDE DEF routed, result
<1>7. ASSUME NEW h2 \in Nat, result = Found(h2)
      PROVE  /\ Dispatched(p, late) = TaskOf("handling", w, g, b, d, None, h2, e, x)
             /\ routed = Found(h2)
  <2>1. result.kind = "handler" /\ result.handler = h2 /\ result # Late
    BY <1>7, ResultKinds
  <2>2. PutHandler(PutPc(p, "handling"), h2) = TaskOf("handling", w, g, b, d, None, h2, e, x)
    BY Puts
  <2> HIDE DEF p
  <2>3. Dispatched(p, late) = PutHandler(PutPc(p, "handling"), h2)
    <3>2. Dispatched(p, late) = [p EXCEPT !.pc = "handling", !.handler = result.handler]
      BY <1>5, <2>1 DEF Dispatched
    <3>3. [p EXCEPT !.pc = "handling", !.handler = h2] = PutHandler(PutPc(p, "handling"), h2)
      BY DEF PutHandler, PutPc
    <3> QED BY <2>1, <3>2, <3>3
  <2> QED BY <1>3, <1>7, <2>1, <2>2, <2>3
<1>8. ASSUME NEW methods, result = Allowed(methods)
      PROVE  \E r \in Answers(w) : Dispatched(p, late) = Send(p, r)
  <2>1. result.kind = "none" /\ result # Late
    BY <1>8, ResultKinds
  <2>2. Dispatched(p, late) = Send(p, IF result.methods = {} THEN 404 ELSE 405)
    <3> HIDE DEF p
    <3> QED BY <1>5, <2>1 DEF Dispatched
  <2> QED BY ZenonT(60), <1>3, <1>4, <2>1, <2>2
<1>9. ASSUME result = TooLarge PROVE \E r \in Answers(w) : Dispatched(p, late) = Send(p, r)
  <2>1. result.kind = "too large" /\ result # Late
    BY <1>9, ResultKinds
  <2>2. Dispatched(p, late) = Send(p, 414)
    <3> HIDE DEF p
    <3> QED BY <1>5, <2>1 DEF Dispatched
  <2> QED BY <1>3, <1>4, <2>1, <2>2
<1>10. ASSUME result = Late
       PROVE  \E e2 \in BOOLEAN : Dispatched(p, late) = TaskOf("sending", w, g, b, d, 500, h, e2, x)
  <2>1. result.kind = "late"
    BY <1>10, ResultKinds
  <2>2. PICK yes \in BOOLEAN : yes = TRUE
    OBVIOUS
  <2> DEFINE s == TaskOf("sending", w, g, b, d, 500, h, e, x)
  <2>3. PutEvent(s, yes) = TaskOf("sending", w, g, b, d, 500, h, yes, x)
    BY Puts
  <2>4. Send(p, 500) = s
    BY <1>6
  <2> HIDE DEF s, p
  <2>5. Dispatched(p, late) = PutEvent(s, yes)
    BY <1>5, <2>1, <2>2, <2>4 DEF Dispatched, PutEvent
  <2> QED BY <2>3, <2>5
<1> HIDE DEF p
<1>11. ASSUME NEW r \in Answers(w), Dispatched(p, late) = Send(p, r)
       PROVE  Dispatched(p, late) = TaskOf("sending", w, g, b, d, r, h, e, x)
  BY <1>6, <1>11
<1>12. CASE \E h2 \in Nat : result = Found(h2)
  BY <1>7, <1>12 DEF p, routed
<1>13. CASE (\E methods : result = Allowed(methods)) \/ result = TooLarge
  <2>1. PICK r \in Answers(w) : Dispatched(p, late) = Send(p, r)
    BY <1>8, <1>9, <1>13
  <2>2. Dispatched(p, late) = TaskOf("sending", w, g, b, d, r, h, e, x)
    BY <1>11, <2>1
  <2> QED BY <2>2 DEF p
<1>14. CASE result = Late
  BY ZenonT(60), <1>4, <1>10, <1>14 DEF p
<1> QED BY <1>2, <1>12, <1>13, <1>14

-----------------------------------------------------------------------------
(* The stages, in fields.                                                  *)
LEMMA Carried ==
    ASSUME NEW s, s # "free", NEW w \in Wire, NEW g \in Nat, g <= w.size, NEW b \in Nat,
           NEW d \in BOOLEAN, NEW r, NEW h \in Nat, NEW e \in BOOLEAN, NEW x
    PROVE  Carries(TaskOf(s, w, g, b, d, r, h, e, x))
<1> DEFINE p == TaskOf(s, w, g, b, d, r, h, e, x)
<1>1. /\ p.pc = s /\ p.wire = w /\ p.got = g /\ p.buffer = b /\ p.parsed = d
      /\ p.reply = r /\ p.handler = h /\ p.event = e /\ p.guard = x
  BY TaskFields
<1>2. p = [pc |-> p.pc, wire |-> p.wire, got |-> p.got, buffer |-> p.buffer,
           parsed |-> p.parsed, reply |-> p.reply, handler |-> p.handler,
           event |-> p.event, guard |-> p.guard]
  BY <1>1 DEF TaskOf
<1> HIDE DEF p
<1> QED BY <1>1, <1>2 DEF Carries, IsTask, p

(* A task that sends an answer called for.                                 *)
LEMMA SendingIs ==
    ASSUME NEW w \in Wire, NEW g \in Nat, g <= w.size, NEW b \in Nat,
           NEW d \in BOOLEAN, NEW r \in Answers(w), NEW h \in Nat, NEW e \in BOOLEAN
    PROVE  Orderly(TaskOf("sending", w, g, b, d, r, h, e, NewGuard))
<1> DEFINE p == TaskOf("sending", w, g, b, d, r, h, e, NewGuard)
<1>1. Carries(p)
  BY Carried
<1>2. p.pc = "sending" /\ p.wire = w /\ p.reply = r /\ p.guard = NewGuard
  BY TaskFields
<1> HIDE DEF p
<1>3. Sends(p)
  BY <1>2 DEF Sends
<1> QED BY <1>1, <1>3 DEF Orderly, InStage, p

(* A task whose promised handler runs on a whole request.                  *)
LEMMA HandlingIs ==
    ASSUME NEW w \in Wire, NEW g \in Nat, g <= w.size, NEW b \in Nat,
           NEW d \in BOOLEAN, NEW h \in Nat, NEW e \in BOOLEAN,
           Whole(w), g >= w.head + w.claim, w.upgrade = "no", ~w.broken,
           Promise(w.method, w.path) = Found(h)
    PROVE  Orderly(TaskOf("handling", w, g, b, d, None, h, e, NewGuard))
<1> DEFINE p == TaskOf("handling", w, g, b, d, None, h, e, NewGuard)
<1>1. Carries(p)
  BY Carried
<1>2. p.pc = "handling" /\ p.wire = w /\ p.got = g /\ p.reply = None /\ p.handler = h
      /\ p.guard = NewGuard
  BY TaskFields
<1> HIDE DEF p
<1>3. Handles(p)
  BY <1>2 DEF Handles
<1> QED BY <1>1, <1>3 DEF Orderly, InStage, p

(* A task whose upgrade is accepted.                                       *)
LEMMA UpgradingIs ==
    ASSUME NEW w \in Wire, NEW g \in Nat, g <= w.size, NEW b \in Nat,
           NEW d \in BOOLEAN, NEW h \in Nat, NEW e \in BOOLEAN,
           w.upgrade = "valid", w.claim = 0, w.head <= g, b = g - w.head
    PROVE  Orderly(TaskOf("upgrading", w, g, b, d, None, h, e, NewGuard))
<1> DEFINE p == TaskOf("upgrading", w, g, b, d, None, h, e, NewGuard)
<1>1. Carries(p)
  BY Carried
<1>2. p.pc = "upgrading" /\ p.wire = w /\ p.got = g /\ p.buffer = b /\ p.reply = None
      /\ p.guard = NewGuard
  BY TaskFields
<1> HIDE DEF p
<1>3. Upgrades(p)
  BY <1>2 DEF Upgrades
<1> QED BY <1>1, <1>3 DEF Orderly, InStage, p

(* A task whose guard has been fed what came behind the request.           *)
LEMMA ListeningIs ==
    ASSUME NEW w \in Wire, NEW g \in Nat, g <= w.size, NEW b \in Nat,
           NEW d \in BOOLEAN, NEW h \in Nat, NEW e \in BOOLEAN, NEW x,
           w.upgrade = "valid", w.claim = 0, w.head <= g, Fed(x, w.frames, g - w.head),
           NEW s, s = IF x.failed THEN "refused" ELSE "websocket"
    PROVE  Orderly(TaskOf(s, w, g, b, d, None, h, e, x))
<1> DEFINE p == TaskOf(s, w, g, b, d, None, h, e, x)
<1>1. Carries(p)
  BY Carried
<1>2. p.pc = s /\ p.wire = w /\ p.got = g /\ p.reply = None /\ p.guard = x
  BY TaskFields
<1> HIDE DEF p
<1>3. x.failed \in BOOLEAN
  BY DEF Fed, Inside, IsGuard
<1>4. Listens(p)
  BY <1>2, <1>3 DEF Listens
<1> QED BY <1>1, <1>4 DEF Orderly, InStage, p

(* A task that reads a request that is not whole.                          *)
LEMMA ReadingIs ==
    ASSUME NEW w \in Wire, NEW g \in Nat, g <= w.size, NEW b \in Nat,
           NEW d \in BOOLEAN, NEW e \in BOOLEAN, ~e, NEW h, h = None,
           ~d => b = g /\ Pending(w, g),
           d => Headed(w, g, b) /\ b < w.claim
    PROVE  Orderly(TaskOf("reading", w, g, b, d, None, h, e, NewGuard))
<1> DEFINE p == TaskOf("reading", w, g, b, d, None, h, e, NewGuard)
<1>1. Carries(p)
  BY Carried DEF None
<1>2. p.pc = "reading" /\ p.wire = w /\ p.got = g /\ p.buffer = b /\ p.parsed = d
      /\ p.reply = None /\ p.handler = None /\ p.event = e /\ p.guard = NewGuard
  BY TaskFields
<1> HIDE DEF p
<1>3. Reads(p)
  BY <1>2 DEF Reads
<1> QED BY <1>1, <1>3 DEF Orderly, InStage, p

(* _dispatch_websocket of a whole request.                                 *)
LEMMA UpgradeLeads ==
    ASSUME NEW w \in Wire, NEW g \in Nat, g <= w.size, NEW b \in Nat,
           NEW d \in BOOLEAN, NEW h \in Nat, NEW e \in BOOLEAN,
           Whole(w), ~w.broken, w.upgrade # "no", Headed(w, g, b),
           NEW q \in UpgradeOutcomes(TaskOf("reading", w, g, b, d, None, h, e, NewGuard))
    PROVE  Orderly(q)
<1> DEFINE p == TaskOf("reading", w, g, b, d, None, h, e, NewGuard)
           up == TaskOf("upgrading", w, g, b, d, None, h, e, NewGuard)
<1>1. p.wire = w
  BY TaskFields
<1>2. \A v : Send(p, v) = TaskOf("sending", w, g, b, d, v, h, e, NewGuard)
  BY SendIs
<1>3. [p EXCEPT !.pc = "upgrading"] = up
  <2>1. PutPc(p, "upgrading") = up
    BY Puts
  <2> HIDE DEF p, up
  <2> QED BY <2>1 DEF PutPc
<1>4. /\ w.upgrade \in {"no", "valid", "unknown", "invalid"}
      /\ w.claim \in Nat /\ w.head \in Nat
  BY WireIs
<1>5. \A r \in Answers(w) : Orderly(Send(p, r))
  BY <1>2, SendingIs
<1>6. /\ w.upgrade = "unknown" => 404 \in Answers(w)
      /\ w.upgrade = "invalid" => 400 \in Answers(w)
      /\ w.upgrade = "valid" /\ w.claim > 0 => 400 \in Answers(w)
      /\ w.upgrade = "valid" /\ ~(w.claim > 0) => 503 \in Answers(w)
  BY WholeAnswers
<1>7. w.upgrade = "valid" /\ ~(w.claim > 0) => Orderly(up)
  <2> SUFFICES ASSUME w.upgrade = "valid", ~(w.claim > 0) PROVE Orderly(up)
    OBVIOUS
  <2>1. w.claim = 0 /\ w.head <= g /\ b = g - w.head
    BY <1>4 DEF Headed
  <2> QED BY <2>1, UpgradingIs
<1>8. q \in UpgradeOutcomes(p)
  OBVIOUS
<1> HIDE DEF p, up
<1>9. CASE w.upgrade = "unknown"
  <2>1. q = Send(p, 404)
    BY <1>1, <1>8, <1>9 DEF UpgradeOutcomes
  <2> QED BY <1>5, <1>6, <1>9, <2>1
<1>10. CASE w.upgrade = "invalid" \/ (w.upgrade = "valid" /\ w.claim > 0)
  <2>1. q = Send(p, 400)
    BY <1>1, <1>8, <1>10 DEF UpgradeOutcomes
  <2> QED BY <1>5, <1>6, <1>10, <2>1
<1>11. CASE w.upgrade = "valid" /\ ~(w.claim > 0)
  <2>1. q = Send(p, 503) \/ q = up
    BY <1>1, <1>3, <1>8, <1>11 DEF UpgradeOutcomes
  <2> QED BY <1>5, <1>6, <1>7, <1>11, <2>1
<1> QED BY <1>4, <1>9, <1>10, <1>11

(* An iteration of the connection loop after the parser has seen its chunk.*)
LEMMA OutcomesAreOrderly ==
    ASSUME Tables, NEW w \in Wire, NEW g \in Nat, g <= w.size, NEW b \in Nat,
           NEW d \in BOOLEAN, NEW r, NEW h, h = None, NEW e \in BOOLEAN, ~e,
           Fetched(w, g, b, d, r),
           NEW q \in Outcomes(TaskOf("reading", w, g, b, d, r, h, e, NewGuard))
    PROVE  q = Free \/ Orderly(q)
<1> DEFINE p == TaskOf("reading", w, g, b, d, r, h, e, NewGuard)
<1>0. w.head \in Nat /\ w.claim \in Nat /\ w.size \in Nat /\ h \in Nat
  BY WireIs DEF None
<1>1. p.wire = w /\ p.buffer = b /\ p.parsed = d /\ p.reply = r
  BY TaskFields
<1>2. \A v : Send(p, v) = TaskOf("sending", w, g, b, d, v, h, e, NewGuard)
  BY SendIs
<1>3. \A v \in Answers(w) : Orderly(Send(p, v))
  BY <1>0, <1>2, SendingIs
<1>4. q \in Outcomes(p)
  OBVIOUS
<1>5. r = None => p = TaskOf("reading", w, g, b, d, None, h, e, NewGuard)
  OBVIOUS
<1> HIDE DEF p
<1>6. Complete(p) <=> d /\ b >= w.claim
  BY <1>1 DEF Complete
<1>7. CASE r # None
  <2>1. q = Send(p, r)
    BY <1>1, <1>4, <1>7 DEF Outcomes
  <2>2. r \in Answers(w)
    BY <1>7 DEF Fetched
  <2> QED BY <1>3, <2>1, <2>2
<1>8. CASE r = None /\ ~(d /\ b >= w.claim)
  <2>1. q = Free \/ q = p
    BY <1>1, <1>4, <1>6, <1>8 DEF Outcomes
  <2>2. /\ ~d => b = g /\ Pending(w, g)
        /\ d => Headed(w, g, b) /\ b < w.claim
    BY <1>0, <1>8 DEF Fetched
  <2>3. Orderly(p)
    BY <1>5, <1>8, <2>2, ReadingIs
  <2> QED BY <2>1, <2>3
<1>9. CASE r = None /\ d /\ b >= w.claim
  <2>1. Headed(w, g, b) /\ Whole(w) /\ ~w.broken
    BY <1>9 DEF Fetched
  <2>2. g >= w.head + w.claim
    BY <1>0, <1>9, <2>1 DEF Headed
  <2>3. q \in IF w.upgrade # "no" THEN UpgradeOutcomes(p)
              ELSE IF Trailing(p) > 0 THEN {Send(p, 400)}
              ELSE {Dispatched(p, late) : late \in SUBSET DOMAIN table.regex}
    BY <1>1, <1>4, <1>6, <1>9 DEF Outcomes
  <2>4. CASE w.upgrade # "no"
    BY <1>0, <1>5, <1>9, <2>1, <2>3, <2>4, UpgradeLeads
  <2>5. CASE w.upgrade = "no" /\ Trailing(p) > 0
    <3>1. w.size > w.head + w.claim
      BY <1>0, <1>1, <2>1, <2>5 DEF Trailing, Headed
    <3>2. 400 \in Answers(w)
      BY <2>1, <2>5, <3>1, WholeAnswers DEF Routed
    <3> QED BY <1>3, <2>3, <2>5, <3>2
  <2>6. CASE w.upgrade = "no" /\ ~(Trailing(p) > 0)
    <3>1. PICK late \in SUBSET DOMAIN table.regex : q = Dispatched(p, late)
      BY <2>3, <2>6
    <3>2. p = TaskOf("reading", w, g, b, d, None, h, e, NewGuard)
      BY <1>5, <1>9
    <3>3. \/ \E h2 \in Nat : /\ q = TaskOf("handling", w, g, b, d, None, h2, e, NewGuard)
                             /\ Promise(w.method, w.path) = Found(h2)
          \/ \E e2 \in BOOLEAN : \E v \in Answers(w) :
                q = TaskOf("sending", w, g, b, d, v, h, e2, NewGuard)
      BY <1>0, <2>1, <2>6, <3>1, <3>2, DispatchAnswers
    <3> QED BY <1>0, <2>1, <2>2, <2>6, <3>3, HandlingIs, SendingIs
  <2> QED BY <2>4, <2>5, <2>6
<1> QED BY <1>7, <1>8, <1>9

(* recv() returns: the task ends or is in one of its stages.               *)
LEMMA ReceiveLeads ==
    ASSUME Tables, NEW p, Orderly(p), p.pc = "reading", NEW n \in Cuts(p),
           NEW q \in Outcomes(ParserFeed(p, n))
    PROVE  q = Free \/ Orderly(q)
<1> DEFINE w == p.wire
           m == p.got
           b == p.buffer
           d == p.parsed
           e == p.event
           h == p.handler
           k == m + n
<1>1. /\ IsTask(p) /\ w \in Wire /\ m \in Nat /\ m <= w.size /\ b \in Nat /\ d \in BOOLEAN
      /\ e \in BOOLEAN /\ ~e /\ h = None /\ p.reply = None /\ p.guard = NewGuard
      /\ ~d => b = m
      /\ d => Headed(w, m, b)
  BY DEF Orderly, Carries, InStage, Reads, Handles, Sends, Upgrades, Listens, IsTask
<1>2. p = TaskOf("reading", w, m, b, d, None, h, e, NewGuard)
  BY <1>1, TaskIs
<1>3. w.size \in Nat
  BY <1>1, WireIs
<1>4. n \in Nat /\ k \in Nat /\ k <= w.size
  <2>1. n \in 1..Chunk /\ n <= w.size - m /\ Chunk \in Nat
    BY HTTP1Assumption DEF Cuts
  <2> HIDE DEF w, m
  <2> QED BY <1>1, <1>3, <2>1
<1>5. k = m + n
  OBVIOUS
<1> HIDE DEF w, m, b, d, e, h, k
<1> DEFINE t == TaskOf("reading", w, m, b, d, None, h, e, NewGuard)
<1>6. FeedsTo(ParserFeed(t, n), w, k, h, e, NewGuard)
  BY <1>1, <1>4, <1>5, FeedIs
<1>6a. PICK b2 \in Nat : \E d2 \in BOOLEAN : \E r :
        /\ ParserFeed(t, n) = TaskOf("reading", w, k, b2, d2, r, h, e, NewGuard)
        /\ Fetched(w, k, b2, d2, r)
  BY <1>6 DEF FeedsTo
<1>7. PICK d2 \in BOOLEAN : \E r :
        /\ ParserFeed(t, n) = TaskOf("reading", w, k, b2, d2, r, h, e, NewGuard)
        /\ Fetched(w, k, b2, d2, r)
  BY <1>6a
<1>8. PICK r : /\ ParserFeed(t, n) = TaskOf("reading", w, k, b2, d2, r, h, e, NewGuard)
               /\ Fetched(w, k, b2, d2, r)
  BY <1>7
<1>9. q \in Outcomes(TaskOf("reading", w, k, b2, d2, r, h, e, NewGuard))
  BY <1>2, <1>8
<1> QED BY <1>1, <1>4, <1>8, <1>9, OutcomesAreOrderly
-----------------------------------------------------------------------------
(* The steps of the other stages.                                          *)
LEMMA StartIsOrderly == ASSUME NEW w \in Wire PROVE Orderly(Start(w))
<1>1. PICK no \in BOOLEAN : no = FALSE
  OBVIOUS
<1>2. Start(w) = TaskOf("reading", w, 0, 0, no, None, None, no, NewGuard)
  BY <1>1 DEF Start, TaskOf
<1>3. w.head \in Nat /\ w.size \in Nat /\ MaxHeader \in Nat
  BY WireIs
<1>4. 0 <= w.size /\ Pending(w, 0)
  BY <1>3 DEF Pending
<1> QED BY <1>1, <1>2, <1>4, ReadingIs

(* The handler was the promised one, and the request has no upgrade.       *)
LEMMA HandlerLeads ==
    ASSUME NEW p, Orderly(p), p.pc = "handling", NEW status \in {200, 500}
    PROVE  Orderly(Send(p, status))
<1> DEFINE w == p.wire
           m == p.got
           b == p.buffer
           d == p.parsed
           e == p.event
           h == p.handler
           routed == Promise(w.method, w.path)
<1>1. /\ IsTask(p) /\ w \in Wire /\ m \in Nat /\ m <= w.size /\ b \in Nat /\ d \in BOOLEAN
      /\ e \in BOOLEAN /\ h \in Nat /\ p.reply = None /\ p.guard = NewGuard
      /\ Whole(w) /\ ~w.broken /\ w.upgrade = "no" /\ routed = Found(h)
  BY DEF Orderly, Carries, InStage, Reads, Handles, Sends, Upgrades, Listens, IsTask
<1>2. p = TaskOf("handling", w, m, b, d, None, h, e, NewGuard)
  BY <1>1, TaskIs
<1> HIDE DEF w, m, b, d, e, h
<1>3. Routed(w, routed)
  BY <1>1, WholeAnswers
<1> HIDE DEF routed
<1>4. status \in Answers(w)
  <2>1. routed.kind = "handler"
    BY ZenonT(60), <1>1, ResultKinds
  <2> QED BY <1>3, <2>1 DEF Routed
<1>5. Send(p, status) = TaskOf("sending", w, m, b, d, status, h, e, NewGuard)
  BY <1>2, SendIs
<1> QED BY <1>1, <1>4, <1>5, SendingIs

(* The reader feeds its guard, field by field.                             *)
LEMMA GuardedIs ==
    ASSUME NEW s, NEW w, NEW m, NEW b, NEW d, NEW r, NEW h, NEW e, NEW y, NEW n,
           NEW x, x = GuardFeed(y, w.frames, n),
           NEW v, v = IF x.failed THEN "refused" ELSE "websocket"
    PROVE  Guarded(TaskOf(s, w, m, b, d, r, h, e, y), n) = TaskOf(v, w, m, b, d, r, h, e, x)
<1> DEFINE p == TaskOf(s, w, m, b, d, r, h, e, y)
<1>1. p.wire = w /\ p.guard = y
  BY TaskFields
<1>2. PutPc(PutGuard(p, x), v) = TaskOf(v, w, m, b, d, r, h, e, x)
  <2>1. PutGuard(p, x) = TaskOf(s, w, m, b, d, r, h, e, x)
    BY Puts
  <2>2. PutPc(TaskOf(s, w, m, b, d, r, h, e, x), v) = TaskOf(v, w, m, b, d, r, h, e, x)
    BY Puts
  <2> HIDE DEF p
  <2> QED BY <2>1, <2>2
<1> HIDE DEF p
<1>3. Guarded(p, n) = PutPc(PutGuard(p, x), v)
  BY <1>1 DEF Guarded, PutPc, PutGuard
<1> QED BY <1>2, <1>3 DEF p

(* The bytes a valid upgrade may still send are those of its frames.       *)
LEMMA FramesCover ==
    ASSUME NEW w \in Wire, w.upgrade = "valid", w.claim = 0,
           NEW m \in Nat, m <= w.size, w.head <= m
    PROVE  m - w.head \in Nat /\ m - w.head <= Begin(w.frames, Len(w.frames) + 1)
<1>1. /\ w.size <= w.head + w.claim + Begin(w.frames, Len(w.frames) + 1)
      /\ w.head \in Nat /\ w.claim \in Nat /\ w.size \in Nat /\ w.frames \in Seq(ClientFrame)
  BY WireIs
<1>2. Len(w.frames) \in Nat
  BY <1>1
<1>3. Begin(w.frames, Len(w.frames) + 1) \in Nat
  BY <1>1, <1>2, BeginSteps
<1> DEFINE end == Begin(w.frames, Len(w.frames) + 1)
<1> HIDE DEF end
<1>4. end \in Nat /\ w.size <= w.head + w.claim + end
  BY <1>1, <1>3 DEF end
<1>5. m - w.head \in Nat /\ m - w.head <= end
  BY <1>1, <1>4
<1> QED BY <1>5 DEF end

(* The trailing data of the upgrade are the first bytes of the frames.     *)
LEMMA ReaderStartLeads ==
    ASSUME NEW p, Orderly(p), p.pc = "upgrading"
    PROVE  Orderly(Guarded(p, Trailing(p)))
<1> DEFINE w == p.wire
           m == p.got
           b == p.buffer
           d == p.parsed
           e == p.event
           h == p.handler
<1>1. /\ IsTask(p) /\ w \in Wire /\ m \in Nat /\ m <= w.size /\ b \in Nat /\ d \in BOOLEAN
      /\ e \in BOOLEAN /\ h \in Nat /\ p.reply = None /\ p.guard = NewGuard
      /\ w.upgrade = "valid" /\ w.claim = 0 /\ w.head <= m /\ b = m - w.head
  BY DEF Orderly, Carries, InStage, Reads, Handles, Sends, Upgrades, Listens, IsTask
<1>2. p = TaskOf("upgrading", w, m, b, d, None, h, e, NewGuard)
  BY <1>1, TaskIs
<1>3. Trailing(p) = b - w.claim
  BY DEF Trailing
<1> HIDE DEF w, m, b, d, e, h
<1> DEFINE n == m - w.head
           x == GuardFeed(NewGuard, w.frames, n)
           v == IF x.failed THEN "refused" ELSE "websocket"
<1>4. Trailing(p) = n
  BY <1>1, <1>3
<1>5. n \in Nat /\ 0 + n = n /\ n <= Begin(w.frames, Len(w.frames) + 1)
  BY <1>1, FramesCover
<1>6. w.frames \in Seq(ClientFrame)
  BY <1>1, WireIs
<1> HIDE DEF n
<1>7. Fed(x, w.frames, n)
  <2>1. Fed(NewGuard, w.frames, 0) /\ ~NewGuard.failed
    BY <1>6, NewGuardIsFed
  <2>2. 0 \in Nat /\ 0 + n <= Begin(w.frames, Len(w.frames) + 1)
    BY <1>5
  <2>3. Fed(GuardFeed(NewGuard, w.frames, n), w.frames, 0 + n)
    BY <1>5, <1>6, <2>1, <2>2, GuardFed
  <2> QED BY <1>5, <2>3
<1>8. Guarded(p, n) = TaskOf(v, w, m, b, d, None, h, e, x)
  <2>1. Guarded(TaskOf("upgrading", w, m, b, d, None, h, e, NewGuard), n)
            = TaskOf(v, w, m, b, d, None, h, e, x)
    BY GuardedIs
  <2> QED BY <1>2, <2>1
<1> HIDE DEF x
<1>9. Orderly(TaskOf(v, w, m, b, d, None, h, e, x))
  <2>1. Fed(x, w.frames, m - w.head)
    BY <1>7 DEF n
  <2> HIDE DEF v
  <2>2. v = IF x.failed THEN "refused" ELSE "websocket"
    BY DEF v
  <2> QED BY <1>1, <2>1, <2>2, ListeningIs
<1> QED BY <1>4, <1>8, <1>9

(* A chunk of frames, cut anywhere.                                        *)
LEMMA ReaderReceiveLeads ==
    ASSUME NEW p, Orderly(p), p.pc = "websocket", NEW n \in Cuts(p)
    PROVE  Orderly([Guarded(p, n) EXCEPT !.got = @ + n])
<1> DEFINE w == p.wire
           m == p.got
           b == p.buffer
           d == p.parsed
           e == p.event
           h == p.handler
           y == p.guard
           k == m - w.head
           to == m + n
<1>1. /\ IsTask(p) /\ w \in Wire /\ m \in Nat /\ m <= w.size /\ b \in Nat /\ d \in BOOLEAN
      /\ e \in BOOLEAN /\ h \in Nat /\ p.reply = None
      /\ w.upgrade = "valid" /\ w.claim = 0 /\ w.head <= m
      /\ Fed(y, w.frames, k) /\ ~y.failed
  BY DEF Orderly, Carries, InStage, Reads, Handles, Sends, Upgrades, Listens, IsTask
<1>2. p = TaskOf("websocket", w, m, b, d, None, h, e, y)
  BY <1>1, TaskIs
<1>3. w.size \in Nat /\ w.head \in Nat /\ w.frames \in Seq(ClientFrame)
  BY <1>1, WireIs
<1>4. n \in Nat /\ to \in Nat /\ to <= w.size /\ w.head <= to
  <2>1. n \in 1..Chunk /\ n <= w.size - m /\ Chunk \in Nat
    BY HTTP1Assumption DEF Cuts
  <2> HIDE DEF w, m
  <2> QED BY <1>1, <1>3, <2>1
<1> HIDE DEF w, m, b, d, e, h, y
<1> DEFINE x == GuardFeed(y, w.frames, n)
           v == IF x.failed THEN "refused" ELSE "websocket"
<1>5. k \in Nat /\ k + n = to - w.head
  BY <1>1, <1>3, <1>4
<1>6. to - w.head <= Begin(w.frames, Len(w.frames) + 1)
  <2> HIDE DEF to
  <2> QED BY <1>1, <1>4, FramesCover
<1>7. Fed(x, w.frames, to - w.head)
  <2> HIDE DEF k, to
  <2>1. Fed(GuardFeed(y, w.frames, n), w.frames, k + n)
    BY <1>1, <1>3, <1>4, <1>5, <1>6, GuardFed
  <2> QED BY <1>5, <2>1
<1>8. Guarded(p, n) = TaskOf(v, w, m, b, d, None, h, e, x)
  <2>1. Guarded(TaskOf("websocket", w, m, b, d, None, h, e, y), n)
            = TaskOf(v, w, m, b, d, None, h, e, x)
    BY GuardedIs
  <2> QED BY <1>2, <2>1
<1> HIDE DEF x
<1> DEFINE t == TaskOf(v, w, m, b, d, None, h, e, x)
           q == TaskOf(v, w, to, b, d, None, h, e, x)
<1>9. [t EXCEPT !.got = @ + n] = q
  <2>1. PutGot(t, to) = q
    BY Puts
  <2>2. t.got = m
    BY TaskFields
  <2> HIDE DEF t, q
  <2> QED BY <2>1, <2>2 DEF PutGot
<1>10. Orderly(q)
  <2> HIDE DEF v, to
  <2>1. v = IF x.failed THEN "refused" ELSE "websocket"
    BY DEF v
  <2> QED BY <1>1, <1>4, <1>7, <2>1, ListeningIs
<1> HIDE DEF t, q
<1>11. [Guarded(p, n) EXCEPT !.got = @ + n] = [t EXCEPT !.got = @ + n]
  BY <1>8 DEF t
<1> QED BY <1>9, <1>10, <1>11
-----------------------------------------------------------------------------
(* The inductive invariant: every task is in one of its stages, the server *)
(* accepts only once the routes no longer change, and a match that was     *)
(* late and a task that still reads are two of the connections accepted.   *)
Readers == {c \in Slot : conn[c].pc = "reading"}
Counted ==
    /\ accepted_connections \in Nat /\ accepted_connections <= MaxServed
    /\ timeouts \in Nat /\ timeouts + Cardinality(Readers) <= accepted_connections
Placed(c) == conn[c] = Free \/ Orderly(conn[c])
Answering ==
    /\ mode \in {"setup", "serving", "closed"}
    /\ mode = "setup" => \A c \in Slot : conn[c] = Free
    /\ conn = [c \in Slot |-> conn[c]]
    /\ \A c \in Slot : Placed(c)
    /\ Counted

(* What the routes promise does not change with a connection.              *)
LEMMA SameRoutes ==
    ASSUME log' = log
    PROVE  /\ \A w : Answers(w)' = Answers(w)
           /\ \A m, x : Promise(m, x)' = Promise(m, x)
<1>1. \A m, x : Promise(m, x)' = Promise(m, x)
  BY DEF Promise, Accepted
<1> QED BY <1>1 DEF Answers

(* A task placed before a step that keeps the log is placed after it.      *)
LEMMA PlacedAgain ==
    ASSUME log' = log, NEW c \in Slot, NEW q, q = Free \/ Orderly(q), conn'[c] = q
    PROVE  Placed(c)'
  BY SameRoutes DEF Placed, Orderly, InStage, Handles, Sends, Reads, Upgrades, Listens

(* One task changes, and every task has a place.                           *)
LEMMA TaskPlaced ==
    ASSUME Answering, log' = log, NEW c \in Slot, NEW q, q = Free \/ Orderly(q), Become(c, q)
    PROVE  conn' = [d \in Slot |-> conn'[d]] /\ conn'[c] = q /\ \A d \in Slot : Placed(d)'
<1>1. /\ conn' = [d \in Slot |-> conn'[d]] /\ conn'[c] = q
      /\ \A d \in Slot : d # c => conn'[d] = conn[d]
  BY DEF Answering, Become
<1>2. ASSUME NEW d \in Slot, d # c PROVE Placed(d)'
  <2>1. conn'[d] = conn[d] /\ (conn[d] = Free \/ Orderly(conn[d]))
    BY <1>1, <1>2 DEF Answering, Placed
  <2> QED BY <2>1, PlacedAgain
<1> QED BY <1>1, <1>2, PlacedAgain

(* How the number of readers changes with a task.                          *)
LEMMA ReaderCount ==
    ASSUME Answering, NEW c \in Slot, NEW q, Become(c, q)
    PROVE  /\ Cardinality(Readers) \in Nat /\ Cardinality(Readers') \in Nat
           /\ Cardinality(Readers') <= Cardinality(Readers) + 1
           /\ q.pc # "reading" => Cardinality(Readers') <= Cardinality(Readers)
           /\ conn[c].pc = "reading" => Cardinality(Readers') <= Cardinality(Readers)
           /\ conn[c].pc = "reading" /\ q.pc # "reading"
                => Cardinality(Readers') + 1 <= Cardinality(Readers)
<1>1. IsFiniteSet(Readers) /\ Cardinality(Readers) \in Nat
  BY FS_Subset, FS_CardinalityType, HTTP1Assumption DEF Readers
<1>2. c \in Readers <=> conn[c].pc = "reading"
  BY DEF Readers
<1>3. Readers' = IF q.pc = "reading" THEN Readers \cup {c} ELSE Readers \ {c}
  BY DEF Readers, Become, Answering
<1>4. Cardinality(Readers \cup {c}) = IF c \in Readers THEN Cardinality(Readers)
                                                       ELSE Cardinality(Readers) + 1
  BY <1>1, FS_AddElement
<1>5. Cardinality(Readers \ {c}) = IF c \in Readers THEN Cardinality(Readers) - 1
                                                    ELSE Cardinality(Readers)
  BY <1>1, FS_RemoveElement
<1>6. c \in Readers => Cardinality(Readers) # 0
  BY <1>1, FS_EmptySet
<1> QED BY <1>1, <1>2, <1>3, <1>4, <1>5, <1>6

(* No connection and no route at the start.                                *)
LEMMA AnsweringInit == HTTP1Init => Answering
<1> SUFFICES ASSUME HTTP1Init PROVE Answering
  OBVIOUS
<1>1. Readers = {}
  BY DEF HTTP1Init, Readers, Free
<1>2. Counted
  BY <1>1, FS_EmptySet, HTTP1Assumption DEF HTTP1Init, Counted
<1> QED BY <1>2 DEF HTTP1Init, Answering, Placed

(* A task that does not start to read, and is counted as before.           *)
LEMMA TaskMoves ==
    ASSUME Answering, NEW c \in Slot, Busy(c), NEW q, q = Free \/ Orderly(q), q.pc # "reading",
           Become(c, q), UNCHANGED <<mode, accepted_connections, timeouts, router>>
    PROVE  Answering'
<1>1. log' = log /\ UNCHANGED <<mode, accepted_connections, timeouts>>
  BY DEF router
<1>2. mode # "setup"
  BY DEF Answering, Busy, Free
<1>3. conn' = [d \in Slot |-> conn'[d]] /\ \A d \in Slot : Placed(d)'
  BY <1>1, TaskPlaced
<1>4. Counted'
  <2>1. /\ Cardinality(Readers) \in Nat /\ Cardinality(Readers') \in Nat
        /\ Cardinality(Readers') <= Cardinality(Readers)
    BY ReaderCount
  <2>2. Counted
    BY DEF Answering
  <2> QED BY <1>1, <2>1, <2>2 DEF Counted
<1> QED BY <1>1, <1>2, <1>3, <1>4 DEF Answering
(* A connection is accepted only once the routes are fixed.                *)
LEMMA AcceptKeeps == ASSUME Answering, NEW c \in Slot, Accept(c) PROVE Answering'
<1>1. PICK w \in Wire : Become(c, Start(w))
  BY DEF Accept
<1>2. /\ mode = "serving" /\ mode' = mode /\ timeouts' = timeouts /\ log' = log
      /\ accepted_connections < MaxServed /\ accepted_connections' = accepted_connections + 1
  BY DEF Accept, router
<1>3. Orderly(Start(w))
  BY StartIsOrderly
<1> DEFINE q == Start(w)
<1>4. Become(c, q)
  BY <1>1
<1> HIDE DEF q
<1>5. conn' = [d \in Slot |-> conn'[d]] /\ \A d \in Slot : Placed(d)'
  BY <1>2, <1>3, <1>4, TaskPlaced DEF q
<1>6. Counted'
  <2>1. /\ Cardinality(Readers) \in Nat /\ Cardinality(Readers') \in Nat
        /\ Cardinality(Readers') <= Cardinality(Readers) + 1
    BY <1>4, ReaderCount
  <2>2. Counted /\ MaxServed \in Nat
    BY HTTP1Assumption DEF Answering
  <2> QED BY <1>2, <2>1, <2>2 DEF Counted
<1> QED BY <1>2, <1>5, <1>6 DEF Answering

(* The match of a request can be late once, and its task then reads no     *)
(* more.                                                                   *)
LEMMA ReceiveAnswers ==
    ASSUME Answering, Tables, NEW c \in Slot, Receive(c) PROVE Answering'
<1>0. PICK n \in Cuts(conn[c]) : \E q \in Outcomes(ParserFeed(conn[c], n)) :
        /\ Become(c, q)
        /\ timeouts' = timeouts + (IF q # Free /\ q.event THEN 1 ELSE 0)
  BY DEF Receive
<1>1. PICK q \in Outcomes(ParserFeed(conn[c], n)) :
        /\ Become(c, q)
        /\ timeouts' = timeouts + (IF q # Free /\ q.event THEN 1 ELSE 0)
  BY <1>0
<1>2. /\ conn[c].pc = "reading" /\ mode' = mode /\ log' = log
      /\ accepted_connections' = accepted_connections
  BY DEF Receive, router
<1>3. mode # "setup" /\ Orderly(conn[c])
  BY <1>2 DEF Answering, Placed, Free
<1>4. q = Free \/ Orderly(q)
  BY <1>2, <1>3, ReceiveLeads
<1>5. conn' = [d \in Slot |-> conn'[d]] /\ \A d \in Slot : Placed(d)'
  BY <1>1, <1>2, <1>4, TaskPlaced
<1>6. q # Free /\ q.event => q.pc # "reading"
  BY <1>4 DEF Orderly, InStage, Reads, Handles, Sends, Upgrades, Listens
<1>7. Counted'
  <2>1. /\ Cardinality(Readers) \in Nat /\ Cardinality(Readers') \in Nat
        /\ Cardinality(Readers') <= Cardinality(Readers)
        /\ q.pc # "reading" => Cardinality(Readers') + 1 <= Cardinality(Readers)
    BY <1>1, <1>2, ReaderCount
  <2>2. Counted
    BY DEF Answering
  <2>3. CASE q # Free /\ q.event
    <3>1. timeouts' = timeouts + 1
      BY <1>1, <2>3
    <3> QED BY <1>2, <1>6, <2>1, <2>2, <2>3, <3>1 DEF Counted
  <2>4. CASE ~(q # Free /\ q.event)
    <3>1. timeouts' = timeouts + 0
      BY <1>1, <2>4
    <3> QED BY <1>2, <2>1, <2>2, <3>1 DEF Counted
  <2> QED BY <2>3, <2>4
<1> QED BY <1>2, <1>3, <1>5, <1>7 DEF Answering

(* Every step keeps the invariant.                                         *)
LEMMA AnsweringNext == Answering /\ Tables /\ [HTTP1Next]_allvars => Answering'
<1> SUFFICES ASSUME Answering, Tables, [HTTP1Next]_allvars PROVE Answering'
  OBVIOUS
<1>1. ASSUME log' = log, UNCHANGED <<conn, accepted_connections, timeouts>>,
             mode' \in {"setup", "serving", "closed"}, mode' = "setup" => mode = "setup"
      PROVE  Answering'
  <2>1. \A c \in Slot : Placed(c)'
    BY <1>1, PlacedAgain DEF Answering, Placed
  <2>2. Counted'
    BY <1>1 DEF Answering, Counted, Readers
  <2> QED BY <1>1, <2>1, <2>2 DEF Answering
<1>2. CASE Configure
  <2>1. mode = "setup" /\ UNCHANGED <<mode, conn, accepted_connections, timeouts>>
    BY <1>2 DEF Configure, http1
  <2>2. \A c \in Slot : Placed(c)'
    BY <2>1 DEF Answering, Placed
  <2>3. Counted'
    BY <2>1 DEF Answering, Counted, Readers
  <2> QED BY <2>1, <2>2, <2>3 DEF Answering
<1>3. CASE Serve \/ BeginClose
  BY <1>1, <1>3 DEF Serve, BeginClose, router
<1>4. CASE StopChannel \/ Observer \/ UNCHANGED allvars
  <2>1. log' = log /\ UNCHANGED <<mode, conn, accepted_connections, timeouts>>
    BY <1>4 DEF StopChannel, Observer, allvars, http1, router
  <2> QED BY <1>1, <2>1 DEF Answering
<1>5. ASSUME NEW c \in Slot, HandlerReturns(c) PROVE Answering'
  <2>1. PICK status \in {200, 500} : Become(c, Send(conn[c], status))
    BY <1>5 DEF HandlerReturns
  <2>2. Busy(c) /\ Orderly(conn[c]) /\ conn[c].pc = "handling"
        /\ UNCHANGED <<mode, accepted_connections, timeouts, router>>
    BY <1>5 DEF HandlerReturns, Answering, Placed, Busy, Free
  <2> DEFINE q == Send(conn[c], status)
  <2>3. Orderly(q)
    BY <2>2, HandlerLeads
  <2>4. q.pc # "reading"
    BY <2>2, SendKeeps DEF Orderly, Carries
  <2>5. Become(c, q)
    BY <2>1
  <2> HIDE DEF q
  <2> QED BY <2>2, <2>3, <2>4, <2>5, TaskMoves
<1>6. ASSUME NEW c \in Slot, Ends(c) PROVE Answering'
  <2>1. Busy(c) /\ Become(c, Free) /\ Free.pc # "reading"
        /\ UNCHANGED <<mode, accepted_connections, timeouts, router>>
    BY <1>6 DEF Ends, Free
  <2> QED BY <2>1, TaskMoves
<1>7. ASSUME NEW c \in Slot, ReaderStarts(c) PROVE Answering'
  <2> DEFINE q == Guarded(conn[c], Trailing(conn[c]))
  <2>1. Busy(c) /\ Orderly(conn[c]) /\ conn[c].pc = "upgrading" /\ Become(c, q)
        /\ UNCHANGED <<mode, accepted_connections, timeouts, router>>
    BY <1>7 DEF ReaderStarts, Answering, Placed, Busy, Free
  <2>2. Orderly(q)
    BY <2>1, ReaderStartLeads
  <2>3. q.pc # "reading"
    BY <2>1, GuardedKeeps DEF Orderly, Carries
  <2> HIDE DEF q
  <2> QED BY <2>1, <2>2, <2>3, TaskMoves
<1>8. ASSUME NEW c \in Slot, ReaderReceives(c) PROVE Answering'
  <2>1. PICK n \in Cuts(conn[c]) : Become(c, [Guarded(conn[c], n) EXCEPT !.got = @ + n])
    BY <1>8 DEF ReaderReceives
  <2> DEFINE q == [Guarded(conn[c], n) EXCEPT !.got = @ + n]
  <2>2. Busy(c) /\ Orderly(conn[c]) /\ conn[c].pc = "websocket" /\ Become(c, q)
        /\ UNCHANGED <<mode, accepted_connections, timeouts, router>>
    BY <1>8, <2>1 DEF ReaderReceives, Answering, Placed, Busy, Free
  <2>3. Orderly(q)
    BY <2>2, ReaderReceiveLeads
  <2>4. q.pc # "reading"
    BY <2>2, GuardedKeeps DEF Orderly, Carries
  <2> HIDE DEF q
  <2> QED BY <2>2, <2>3, <2>4, TaskMoves
<1> QED BY <1>2, <1>3, <1>4, <1>5, <1>6, <1>7, <1>8, AcceptKeeps, ReceiveAnswers DEF HTTP1Next

(* The invariant holds throughout.                                         *)
LEMMA AnsweringHolds == HTTP1Spec => []Answering
  BY AnsweringInit, AnsweringNext, TablesHold, PTL DEF HTTP1Spec

(* Where the network cuts the bytes decides nothing: the answer is the one *)
(* the whole request calls for, the handler that runs is the one the       *)
(* routes promise, and only once the whole request is there, and no task   *)
(* goes on to read from a peer that waits for its answer (server.py:51-84).*)
THEOREM AnswersMatchRequestHolds == HTTP1Spec => []AnswersMatchRequest
<1>1. ASSUME NEW p, Orderly(p)
      PROVE  LET w == p.wire
             IN  /\ p.reply # None => p.reply \in Answers(w)
                 /\ p.pc = "handling" => /\ Whole(w) /\ p.got >= w.head + w.claim
                                         /\ Promise(w.method, w.path) = Found(p.handler)
                 /\ p.pc = "reading" =>
                       /\ w.head > 0 /\ p.got >= w.head =>
                             HeadArrives(w) /\ w.verdict = 0 /\ w.claim <= MaxBody
                                 /\ p.got < w.head + w.claim
                       /\ p.got <= MaxHeader \/ HeadArrives(w)
  <2> DEFINE w == p.wire
             m == p.got
  <2>1. /\ w.head \in Nat /\ w.claim \in Nat /\ w.size \in Nat /\ MaxHeader \in Nat
        /\ MaxBody \in Nat /\ m \in Nat /\ m <= w.size
    BY <1>1, WireIs DEF Orderly, Carries
  <2>2. p.reply # None => p.reply \in Answers(w)
    BY <1>1 DEF Orderly, InStage, Reads, Handles, Sends, Upgrades, Listens
  <2>3. p.pc = "handling" => /\ Whole(w) /\ m >= w.head + w.claim
                             /\ Promise(w.method, w.path) = Found(p.handler)
    BY <1>1 DEF Orderly, InStage, Reads, Handles, Sends, Upgrades, Listens
  <2>4. p.pc = "reading" => \/ Pending(w, m)
                            \/ Headed(w, m, p.buffer) /\ p.buffer < w.claim
    BY <1>1 DEF Orderly, InStage, Reads, Handles, Sends, Upgrades, Listens
  <2>5. \A b : Headed(w, m, b) => HeadArrives(w) /\ w.verdict = 0 /\ w.claim <= MaxBody
                                   /\ b = m - w.head
    BY <2>1 DEF Headed, HeadArrives, Verdict
  <2> HIDE DEF w, m
  <2>6. Pending(w, m) => m <= MaxHeader /\ ~(w.head > 0 /\ m >= w.head)
    BY <2>1 DEF Pending
  <2>7. Headed(w, m, p.buffer) /\ p.buffer < w.claim => m < w.head + w.claim
    BY <2>1, <2>5
  <2> QED BY <2>2, <2>3, <2>4, <2>5, <2>6, <2>7 DEF w, m
<1>2. Answering => AnswersMatchRequest
  <2> SUFFICES ASSUME Answering, NEW c \in Live PROVE Orderly(conn[c])
    BY <1>1 DEF AnswersMatchRequest
  <2> QED BY DEF Answering, Placed, Live, Busy, Free
<1> QED BY <1>2, AnsweringHolds, PTL

(* Every byte behind the request of an upgrade goes through the guard once *)
(* and in order, wherever it was cut, and a refused frame ends the stream  *)
(* exactly when its header is complete (app.py:782-789, websocket.py:182). *)
THEOREM FramesSurviveUpgradeHolds == HTTP1Spec => []FramesSurviveUpgrade
<1>1. ASSUME NEW p, Orderly(p), p.pc \in {"websocket", "refused"}
      PROVE  /\ GuardHolds(p.guard, p.wire.frames, p.got - p.wire.head)
             /\ (p.pc = "refused") = p.guard.failed
  <2>1. /\ Fed(p.guard, p.wire.frames, p.got - p.wire.head)
        /\ (p.pc = "refused") = p.guard.failed
        /\ p.wire \in Wire /\ p.got \in Nat /\ p.wire.head <= p.got
    BY <1>1 DEF Orderly, Carries, InStage, Reads, Handles, Sends, Upgrades, Listens
  <2>2. p.wire.head \in Nat /\ p.wire.frames \in Seq(ClientFrame)
    BY <2>1, WireIs
  <2>3. p.got - p.wire.head \in Nat
    BY <2>1, <2>2
  <2> QED BY <2>1, <2>2, <2>3, FedMeans
<1>2. Answering => FramesSurviveUpgrade
  <2> SUFFICES ASSUME Answering, NEW c \in Live PROVE Orderly(conn[c])
    BY <1>1 DEF FramesSurviveUpgrade
  <2> QED BY DEF Answering, Placed, Live, Busy, Free
<1> QED BY <1>2, AnsweringHolds, PTL

(* Every promise is one of three, so every answer is a status.             *)
Status == {200, 400, 404, 405, 413, 414, 500, 503}

LEMMA PromiseForm ==
    ASSUME Tables, NEW method, NEW path
    PROVE  Promise(method, path).kind \in {"handler", "too large", "none"}
<1>1. PICK A : Holds(table, log, A)
  BY DEF Tables
<1>2. \/ \E h : Promise(method, path) = Found(h)
      \/ Promise(method, path) = TooLarge
      \/ \E methods : Promise(method, path) = Allowed(methods)
  BY <1>1, PromiseIs
<1> QED BY <1>2, ResultKinds

(* Every answer is a status the server sends.                              *)
LEMMA AnswersAreTyped ==
    ASSUME Tables, NEW w \in Wire PROVE Answers(w) \subseteq Status
<1> DEFINE routed == Promise(w.method, w.path)
<1>1. /\ w.verdict \in {0, 400, 413, 414} /\ w.upgrade \in {"no", "valid", "unknown", "invalid"}
      /\ w.claim \in Nat
  BY WireIs
<1>2. CASE ~Whole(w)
  BY <1>1, <1>2 DEF Answers, Status
<1>3. CASE Whole(w) /\ w.broken
  BY <1>1, <1>3 DEF Answers, Status
<1>4. CASE Whole(w) /\ ~w.broken
  <2>1. Sent(routed) \subseteq Status
    <3> DEFINE kind == routed.kind
               status == IF routed.methods = {} THEN 404 ELSE 405
    <3>1. kind \in {"handler", "too large", "none"}
      BY PromiseForm
    <3>2. Sent(routed) = CASE kind = "handler" -> {200}
                           [] kind = "too large" -> {414}
                           [] kind = "none" -> {status}
      BY DEF Sent
    <3>3. status \in {404, 405}
      OBVIOUS
    <3> HIDE DEF kind, status
    <3> DEFINE sent == Sent(routed)
    <3> HIDE DEF sent
    <3>4. sent = {200} \/ sent = {414} \/ sent = {status}
      <4>1. sent = CASE kind = "handler" -> {200}
                     [] kind = "too large" -> {414}
                     [] kind = "none" -> {status}
        BY <3>2 DEF sent
      <4> DEFINE one == {status}
      <4> HIDE DEF one
      <4>2. sent = CASE kind = "handler" -> {200}
                     [] kind = "too large" -> {414}
                     [] kind = "none" -> one
        BY <4>1 DEF one
      <4>3. kind = "handler" => sent = {200}
        BY <4>2
      <4>4. kind = "too large" => sent = {414}
        BY <4>2
      <4>5. kind = "none" => sent = one
        BY <4>2
      <4> QED BY <3>1, <4>3, <4>4, <4>5 DEF one
    <3>5. sent \subseteq Status
      BY <3>3, <3>4 DEF Status
    <3> QED BY <3>5 DEF sent
  <2> HIDE DEF routed
  <2>2. w.upgrade = "no" => Answers(w) = (IF w.size > w.head + w.claim THEN {400} ELSE {})
                                         \cup {500} \cup Sent(routed)
    BY <1>4, AnswersAre DEF routed
  <2>3. CASE w.upgrade = "no"
    BY <2>1, <2>2, <2>3 DEF Status
  <2>4. CASE w.upgrade # "no"
    <3>1. Answers(w) \in {{404}, {400}, {503}}
      BY <1>1, <1>4, <2>4, AnswersAre
    <3> QED BY <3>1 DEF Status
  <2> QED BY <2>3, <2>4
<1> QED BY <1>2, <1>3, <1>4

(* What a task in its stage is.                                            *)
Guards == [at : Nat \ {0}, header : Nat, length : Nat, remaining : Nat, left : {0},
           collected : {0}, forwarded : Nat, failed : BOOLEAN]

(* A guard between two chunks is typed.                                    *)
LEMMA GuardsAre ==
    ASSUME NEW g, IsGuard(g), g.left = 0, g.collected = 0 PROVE g \in Guards
  BY DEF IsGuard, GuardOf, Guards

(* A task in its stage is typed.                                           *)
LEMMA TasksAreTyped ==
    ASSUME Tables, NEW p, Orderly(p) PROVE p \in Connection
<1>1. /\ p = [pc |-> p.pc, wire |-> p.wire, got |-> p.got, buffer |-> p.buffer,
              parsed |-> p.parsed, reply |-> p.reply, handler |-> p.handler,
              event |-> p.event, guard |-> p.guard]
      /\ p.event \in BOOLEAN /\ p.wire \in Wire /\ p.got \in Nat /\ p.buffer \in Nat
      /\ p.parsed \in BOOLEAN /\ p.handler \in Nat
  BY DEF Orderly, Carries, IsTask
<1>2. p.pc \in {"reading", "handling", "sending", "upgrading", "websocket", "refused"}
  BY DEF Orderly, InStage, Reads, Handles, Sends, Upgrades, Listens
<1>3. p.reply \in {None, 200, 400, 404, 405, 413, 414, 500, 503}
  <2>1. p.reply = None \/ p.reply \in Answers(p.wire)
    BY DEF Orderly, InStage, Reads, Handles, Sends, Upgrades, Listens
  <2>2. Answers(p.wire) \subseteq Status
    BY <1>1, AnswersAreTyped
  <2> QED BY <2>1, <2>2 DEF Status
<1>4. p.guard \in Guards
  <2>1. p.guard = NewGuard \/ \E k : Fed(p.guard, p.wire.frames, k)
    BY DEF Orderly, InStage, Reads, Handles, Sends, Upgrades, Listens
  <2>2. NewGuard \in Guards
    BY DEF NewGuard, Guards
  <2>3. ASSUME NEW k, Fed(p.guard, p.wire.frames, k) PROVE p.guard \in Guards
    BY <2>3, GuardsAre DEF Fed, Inside
  <2> QED BY <2>1, <2>2, <2>3
<1> QED BY <1>1, <1>2, <1>3, <1>4 DEF Connection, Guards

(* The types of the state: lengths are numbers, a status is one the server *)
(* sends, and at most every connection accepted had a late match.          *)
THEOREM HTTP1TypeOKHolds == HTTP1Spec => []HTTP1TypeOK
<1>1. Answering /\ Tables => HTTP1TypeOK
  <2> SUFFICES ASSUME Answering, Tables PROVE HTTP1TypeOK
    OBVIOUS
  <2>1. \A c \in Live : conn[c] \in Connection
    BY TasksAreTyped DEF Answering, Placed, Live, Busy, Free
  <2>2. Cardinality(Readers) \in Nat
    BY FS_Subset, FS_CardinalityType, HTTP1Assumption DEF Readers
  <2>3. accepted_connections \in 0..MaxServed /\ timeouts \in 0..accepted_connections
    BY <2>2, HTTP1Assumption DEF Answering, Counted
  <2> QED BY <2>1, <2>3 DEF Answering, HTTP1TypeOK
<1> QED BY <1>1, AnsweringHolds, TablesHold, PTL
=============================================================================
