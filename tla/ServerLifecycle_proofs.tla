----------------------- MODULE ServerLifecycle_proofs -----------------------
(***************************************************************************)
(* What ServerHandle owns, for any number of connections and close()       *)
(* threads, either protocol, with or without a wakeup channel, and any     *)
(* number of failures: no open stream is lost, none is in both tables, and *)
(* together they stay within max_connections.                              *)
(*                                                                         *)
(* Only CapacityBound needs a fact about control: the listener tests the   *)
(* count before it suspends in accept() and uses the result afterwards, so *)
(* the invariant says that while it is in accept() there is room.  The     *)
(* types of the rest of the state follow in four parts that build on it.   *)
(*                                                                         *)
(* Three more results are about the end of the server: close errors are    *)
(* kept for streams that are still owned, and for each whose close is      *)
(* pending; once the instance is released, every resource is closed; and   *)
(* no connection is registered after the first finalization attempt.       *)
(***************************************************************************)
EXTENDS ServerLifecycle, FiniteSetTheorems, SequenceTheorems, TLAPS

(* The types the argument needs, of the streams and of the tasks.          *)
StreamTypes ==
    /\ connections \subseteq Conn /\ closing \subseteq Conn
    /\ stream \in [Conn -> {"none", "open", "closed"}]
TaskTypes ==
    /\ pending \subseteq Task /\ owned \subseteq Task
    /\ task \in [Task -> {"none", "created", "ready", "live", "done"}]
    /\ stack \in Seq(Frame)

(* The two tables hold each accepted stream that is not closed, once.      *)
Streams ==
    /\ OwnedOnce /\ NoStreamLeak
    /\ \A c \in connections \union closing : stream[c] # "none"

(* The listener may come back from accept() with a stream only if there is *)
(* room for it.                                                            *)
Accepting == lpc = "accept" /\ task[Listener] \in {"ready", "live"}
Slots ==
    /\ CapacityBound
    /\ Accepting => OwnedCount < MaxConnections

Tables == StreamTypes /\ Streams /\ Slots
IInv == Tables /\ TaskTypes

-----------------------------------------------------------------------------
(* Sets and counts.                                                        *)

LEMMA Counts ==
  ASSUME NEW S, S \subseteq Conn
  PROVE IsFiniteSet(S) /\ Cardinality(S) \in Nat
  BY LifecycleAssumption, FS_Subset, FS_CardinalityType DEF LifecycleAssumption

LEMMA Removing ==
  ASSUME NEW S, S \subseteq Conn, NEW c
  PROVE Cardinality(S \ {c}) = IF c \in S THEN Cardinality(S) - 1 ELSE Cardinality(S)
  BY Counts, FS_RemoveElement

LEMMA Adding ==
  ASSUME NEW S, S \subseteq Conn, NEW c
  PROVE Cardinality(S \union {c}) = IF c \in S THEN Cardinality(S) ELSE Cardinality(S) + 1
  BY Counts, FS_AddElement

(* A stream that ends leaves its tables, or moves from one to the other.   *)
LEMMA EndKeeps ==
  ASSUME Tables, NEW c \in Conn, NEW ok \in BOOLEAN, CloseOrRetain(c, ok),
         connections' = connections \/ connections' = connections \ {c},
         Accepting' => Accepting
  PROVE Tables'
<1>0. StreamTypes /\ Streams /\ Slots
  BY DEF Tables
<1>1. stream' = [stream EXCEPT ![c] = IF ok THEN "closed" ELSE stream[c]]
      /\ (~ok => stream[c] = "open")
  BY DEF CloseOrRetain, MayEnd
<1>2. ~ok => c \in connections \/ c \in closing
  BY <1>0, <1>1 DEF Streams, NoStreamLeak
<1>3. closing' = IF ok THEN closing \ {c}
                 ELSE IF c \in connections' THEN closing ELSE closing \union {c}
  BY DEF CloseOrRetain, Retained
<1>4. StreamTypes'
  BY <1>0, <1>1, <1>3 DEF StreamTypes
<1>5. Streams'
  <2>1. OwnedOnce'
    BY <1>0, <1>3 DEF Streams, OwnedOnce
  <2>2. NoStreamLeak'
    BY <1>0, <1>1, <1>3 DEF StreamTypes, Streams, NoStreamLeak
  <2>3. \A d \in connections' \union closing' : stream'[d] # "none"
    BY <1>0, <1>1, <1>2, <1>3 DEF StreamTypes, Streams
  <2> QED
    BY <2>1, <2>2, <2>3 DEF Streams
<1>6. /\ OwnedCount \in Nat /\ OwnedCount' \in Nat
      /\ OwnedCount' <= OwnedCount
  <2>1. PICK m \in Nat, n \in Nat, m1 \in Nat, n1 \in Nat :
           /\ m = Cardinality(connections) /\ n = Cardinality(closing)
           /\ m1 = Cardinality(connections') /\ n1 = Cardinality(closing')
    BY <1>0, <1>4, Counts DEF StreamTypes
  <2>2. m1 <= m
    BY <1>0, <2>1, Removing DEF StreamTypes
  <2>3. m1 + n1 <= m + n
    <3>1. CASE ok
      <4>1. n1 <= n
        BY <1>0, <1>3, <2>1, <3>1, Removing DEF StreamTypes
      <4> QED
        BY <2>2, <4>1
    <3>2. CASE ~ok /\ closing' = closing
      BY <2>1, <2>2, <3>2
    <3>3. CASE ~ok /\ closing' # closing
      <4>1. c \notin connections' /\ c \notin closing /\ closing' = closing \union {c}
        BY <1>3, <3>3
      <4>2. connections' = connections \ {c} /\ c \in connections
        BY <1>2, <3>3, <4>1
      <4>3. m1 = m - 1
        BY <1>0, <2>1, <4>2, Removing DEF StreamTypes
      <4>4. n1 = n + 1
        BY <1>0, <2>1, <4>1, Adding DEF StreamTypes
      <4> QED
        BY <4>3, <4>4
    <3> QED
      BY <3>1, <3>2, <3>3
  <2> QED
    BY <2>1, <2>3 DEF OwnedCount
<1>7. Slots'
  <2>1. MaxConnections \in Nat
    BY LifecycleAssumption DEF LifecycleAssumption
  <2> QED
    BY <1>0, <1>6, <2>1 DEF Slots, CapacityBound, OwnedCount
<1> QED
  BY <1>4, <1>5, <1>7 DEF Tables

-----------------------------------------------------------------------------
(* The call stack.                                                         *)

LEMMA NothingLeft == <<>> \in Seq(Frame)
  OBVIOUS

LEMMA Pushed ==
  ASSUME NEW f \in Frame, NEW s \in Seq(Frame)
  PROVE <<f>> \in Seq(Frame) /\ <<f>> \o s \in Seq(Frame)
  OBVIOUS

LEMMA PushedTwice ==
  ASSUME NEW f \in Frame, NEW g \in Frame, NEW s \in Seq(Frame)
  PROVE <<f, g>> \o s \in Seq(Frame)
  OBVIOUS

LEMMA NewFrames ==
  ASSUME NEW cur \in Caller, NEW owner \in BOOLEAN, NEW prev \in Nat
  PROVE /\ FinishFrame(cur, owner) \in Frame
        /\ ConnFinishedFrame(cur, prev) \in Frame
        /\ ListenerFailedFrame(cur) \in Frame
        /\ UpdateFrame(cur) \in Frame
  BY DEF Frame, FinishFrame, ConnFinishedFrame, ListenerFailedFrame, UpdateFrame,
         Caller

LEMMA TopTyped ==
  ASSUME stack \in Seq(Frame), stack # <<>>
  PROVE Top \in Frame /\ Below \in Seq(Frame)
  BY DEF Top, Below

LEMMA GotoTyped ==
  ASSUME stack \in Seq(Frame), stack # <<>>,
         NEW phase \in {"start", "retry", "cancels", "conns", "tasks", "tail"},
         NEW todo \in SUBSET Task, Goto(phase, todo)
  PROVE stack' \in Seq(Frame)
<1>1. [Top EXCEPT !.phase = phase, !.todo = todo] \in Frame
  BY TopTyped DEF Frame
<1> QED
  BY <1>1, TopTyped, Pushed DEF Goto

LEMMA ReportTyped ==
  ASSUME NEW ok \in BOOLEAN, NEW nok \in BOOLEAN, NEW cur \in Caller,
         NEW below \in Seq(Frame), ReportCloseFailure(ok, nok, cur, below)
  PROVE stack' \in Seq(Frame)
<1>1. FinishFrame(cur, FALSE) \in Frame
  BY NewFrames
<1>2. <<FinishFrame(cur, FALSE)>> \o below \in Seq(Frame)
  BY <1>1, Pushed
<1>3. stack' = <<FinishFrame(cur, FALSE)>> \o below \/ stack' = below
  BY DEF ReportCloseFailure
<1> QED
  BY <1>2, <1>3

-----------------------------------------------------------------------------
(* Steps that leave the tables alone, and steps that accept a stream.      *)

LEMMA Quiet ==
  ASSUME Tables, UNCHANGED <<connections, closing, stream>>,
         Accepting' => Accepting
  PROVE Tables'
  BY DEF Tables, StreamTypes, Streams, OwnedOnce, NoStreamLeak, Slots, CapacityBound, OwnedCount

LEMMA GrowKeeps ==
  ASSUME Tables, Accepting, NEW c \in Conn, stream[c] = "none",
         stream' = [stream EXCEPT ![c] = "open"],
         \/ connections' = connections \union {c} /\ closing' = closing
         \/ connections' = connections /\ closing' = closing \union {c},
         ~Accepting'
  PROVE Tables'
<1>0. StreamTypes /\ Streams /\ Slots
  BY DEF Tables
<1>1. StreamTypes'
  BY <1>0 DEF StreamTypes
<1>2. c \notin connections /\ c \notin closing
  BY <1>0 DEF Streams
<1>3. Streams'
  BY <1>0, <1>2 DEF StreamTypes, Streams, OwnedOnce, NoStreamLeak
<1>4. /\ Cardinality(connections) \in Nat /\ Cardinality(closing) \in Nat
      /\ Cardinality(connections \union {c}) = Cardinality(connections) + 1
      /\ Cardinality(closing \union {c}) = Cardinality(closing) + 1
  BY <1>0, <1>2, Counts, Adding DEF StreamTypes
<1>5. Cardinality(connections') + Cardinality(closing') <= MaxConnections
  <2>1. MaxConnections \in Nat
    BY LifecycleAssumption DEF LifecycleAssumption
  <2>2. Cardinality(connections) + Cardinality(closing) < MaxConnections
    BY <1>0 DEF Slots, OwnedCount
  <2> QED
    BY <1>4, <2>1, <2>2
<1> QED
  BY <1>1, <1>3, <1>5 DEF Tables, Slots, CapacityBound

(* An accepted stream that is closed at once is in neither table.          *)
LEMMA RefusedKeeps ==
  ASSUME Tables, NEW c \in Conn, stream[c] = "none",
         stream' = [stream EXCEPT ![c] = "closed"],
         UNCHANGED <<connections, closing>>,
         Accepting' => Accepting
  PROVE Tables'
<1>1. c \notin connections /\ c \notin closing
  BY DEF Tables, Streams
<1> QED
  BY <1>1 DEF Tables, StreamTypes, Streams, OwnedOnce, NoStreamLeak, Slots,
              CapacityBound, OwnedCount

-----------------------------------------------------------------------------
(* The listener's steps.                                                   *)

USE DEF flagVars, doneVars, ownVars, listenVars, kernelVars

LEMMA Names ==
  /\ Listener \in Task /\ Watcher \in Task /\ Observer \in Task
  /\ Watcher # Listener /\ Observer # Listener
  /\ Task \subseteq Caller /\ UserTask \in Caller /\ Nobody \in Caller
  /\ \A c \in Conn : /\ ConnTask(c) \in Task /\ Child(c) \in Task
                     /\ ConnTask(c) # Listener /\ Child(c) # Listener
                     /\ ConnTask(c)[2] = c
  /\ \A t \in Task : t[1] = "conn" => t[2] \in Conn /\ t = ConnTask(t[2])
  BY DEF Task, Caller, Listener, Watcher, Observer, UserTask, Nobody, ConnTask, Child

LEMMA ListenerStepKeeps ==
  ASSUME IInv, ListenerStep
  PROVE IInv'
<1>0. Tables /\ TaskTypes
  BY DEF IInv
<1>1. ASSUME ListenerTop
      PROVE IInv'
  <2>1. CASE lpc' = "accept"
    <3>1. OwnedCount < MaxConnections
      <4>1. OwnedCount \in Nat /\ MaxConnections \in Nat /\ ~AtCapacity
        BY <1>0, <1>1, <2>1, Counts, LifecycleAssumption
        DEF Tables, StreamTypes, OwnedCount, LifecycleAssumption, ListenerTop
      <4> QED
        BY <4>1 DEF AtCapacity
    <3>2. Tables'
      BY <1>0, <1>1, <3>1
      DEF ListenerTop, Tables, StreamTypes, Streams, OwnedOnce, NoStreamLeak, Slots,
          CapacityBound, OwnedCount
    <3> QED
      BY <1>0, <1>1, <3>2 DEF ListenerTop, IInv, TaskTypes
  <2>2. CASE lpc' # "accept"
    BY <1>0, <1>1, <2>2, Quiet DEF ListenerTop, Accepting, IInv, TaskTypes
  <2> QED
    BY <2>1, <2>2
<1>2. ASSUME ListenerCapacityWake \/ ListenerExits
      PROVE IInv'
  <2>1. ~Accepting'
    BY <1>0, <1>2, Names DEF ListenerCapacityWake, ListenerExits, Accepting, TaskTypes
  <2> QED
    BY <1>0, <1>2, <2>1, Quiet DEF ListenerCapacityWake, ListenerExits, IInv, TaskTypes
<1>3. ASSUME ListenerAcceptError
      PROVE IInv'
  <2>1. ~Accepting'
    BY <1>0, <1>3, Names DEF ListenerAcceptError, Accepting, TaskTypes
  <2>2. stack' \in Seq(Frame)
    <3>1. ListenerFailedFrame(Listener) \in Frame
      BY Names, NewFrames
    <3> QED
      BY <1>3, <3>1 DEF ListenerAcceptError
  <2> QED
    BY <1>0, <1>3, <2>1, <2>2, Quiet DEF ListenerAcceptError, IInv, TaskTypes
<1>4. ASSUME NEW c \in Conn, ListenerSetupFailed(c)
      PROVE IInv'
  <2>1. ~Accepting' /\ Accepting
    BY <1>0, <1>4, Names DEF ListenerSetupFailed, ListenerRuns, Accepting, TaskTypes
  <2>2. Tables'
    BY <1>0, <1>4, <2>1, GrowKeeps DEF ListenerSetupFailed
  <2>3. stack' \in Seq(Frame)
    <3>1. PICK nok \in BOOLEAN : ReportCloseFailure(FALSE, nok, Listener, <<>>)
      BY <1>4 DEF ListenerSetupFailed
    <3> QED
      BY <3>1, Names, NothingLeft, ReportTyped
  <2> QED
    BY <1>0, <1>4, <2>2, <2>3 DEF ListenerSetupFailed, IInv, TaskTypes
<1>5. ASSUME NEW c \in Conn, ListenerRefuses(c)
      PROVE IInv'
  <2>1. Accepting
    BY <1>5 DEF ListenerRefuses, ListenerRuns, Accepting
  <2>2. PICK ok \in BOOLEAN, nok \in BOOLEAN :
           /\ ReportCloseFailure(ok, nok, Listener, <<>>)
           /\ stream' = [stream EXCEPT ![c] = IF ok THEN "closed" ELSE "open"]
           /\ closing' = IF ok THEN closing ELSE closing \union {c}
           /\ IF ok THEN lpc' = "top" /\ UNCHANGED task
                    ELSE task' = [task EXCEPT ![Listener] = "done"] /\ UNCHANGED lpc
    BY <1>5 DEF ListenerRefuses
  <2>3. stream[c] = "none" /\ connections' = connections
    BY <1>5 DEF ListenerRefuses
  <2>4. ~Accepting'
    BY <1>0, <2>2, Names DEF Accepting, TaskTypes
  <2>5. Tables'
    <3>1. CASE ok
      BY <1>0, <2>2, <2>3, <2>4, <3>1, RefusedKeeps
    <3>2. CASE ~ok
      BY <1>0, <2>1, <2>2, <2>3, <2>4, <3>2, GrowKeeps
    <3> QED
      BY <3>1, <3>2
  <2>6. stack' \in Seq(Frame)
    BY <2>2, Names, NothingLeft, ReportTyped
  <2>7. task' \in [Task -> {"none", "created", "ready", "live", "done"}]
    BY <1>0, <2>2 DEF TaskTypes
  <2> QED
    BY <1>0, <1>5, <2>5, <2>6, <2>7 DEF ListenerRefuses, IInv, TaskTypes
<1>6. ASSUME NEW c \in Conn, ListenerRegisters(c)
      PROVE IInv'
  <2>1. ~Accepting' /\ Accepting
    BY <1>6 DEF ListenerRegisters, ListenerRuns, Accepting
  <2>2. Tables'
    BY <1>0, <1>6, <2>1, GrowKeeps DEF ListenerRegisters
  <2> QED
    BY <1>0, <1>6, <2>2, Names DEF ListenerRegisters, IInv, TaskTypes
<1>7. ASSUME NEW c \in Conn, ListenerForkFails(c)
      PROVE IInv'
  <2>1. PICK cok \in BOOLEAN, ok \in BOOLEAN, nok \in BOOLEAN :
           /\ task' = [task EXCEPT ![Listener] = "done",
                                   ![ConnTask(c)] = IF cok THEN "done" ELSE "created"]
           /\ owned' = IF cok THEN owned ELSE owned \union {ConnTask(c)}
           /\ pending' = IF cok THEN pending ELSE pending \union {ConnTask(c)}
           /\ stream' = [stream EXCEPT ![c] = IF ok THEN "closed" ELSE "open"]
           /\ closing' = IF ok THEN closing ELSE closing \union {c}
           /\ ReportCloseFailure(ok, nok, Listener, <<ListenerFailedFrame(Listener)>>)
    BY <1>7 DEF ListenerForkFails
  <2>2. stream[c] = "none" /\ connections' = connections /\ Accepting
    BY <1>7 DEF ListenerForkFails, ListenerRuns, Accepting
  <2>3. ~Accepting'
    BY <1>0, <2>1, Names DEF Accepting, TaskTypes
  <2>4. Tables'
    <3>1. CASE ok
      BY <1>0, <2>1, <2>2, <2>3, <3>1, RefusedKeeps
    <3>2. CASE ~ok
      BY <1>0, <2>1, <2>2, <2>3, <3>2, GrowKeeps
    <3> QED
      BY <3>1, <3>2
  <2>5. stack' \in Seq(Frame)
    <3>1. <<ListenerFailedFrame(Listener)>> \in Seq(Frame)
      BY Names, NewFrames
    <3> QED
      BY <2>1, <3>1, Names, ReportTyped
  <2>6. /\ task' \in [Task -> {"none", "created", "ready", "live", "done"}]
        /\ owned' \subseteq Task /\ pending' \subseteq Task
    BY <1>0, <2>1, Names DEF TaskTypes
  <2> QED
    BY <2>4, <2>5, <2>6 DEF IInv, TaskTypes
<1> QED
  BY <1>1, <1>2, <1>3, <1>4, <1>5, <1>6, <1>7 DEF ListenerStep

-----------------------------------------------------------------------------
(* The end of a connection, wherever it is run from.                       *)

LEMMA EndConnectionKeeps ==
  ASSUME IInv, NEW c \in Conn, NEW ok \in BOOLEAN, NEW cok \in BOOLEAN,
         EndConnection(c, ok, cok), lpc' = lpc
  PROVE /\ Tables'
        /\ pending' \subseteq Task /\ owned' \subseteq Task
        /\ task' \in [Task -> {"none", "created", "ready", "live", "done"}]
<1>0. Tables /\ TaskTypes
  BY DEF IInv
<1>1. PICK kept \in {"none", "created", "ready", "live", "done"} :
         task' = [task EXCEPT ![ConnTask(c)] = "done", ![Child(c)] = kept]
  BY <1>0, Names DEF EndConnection, TaskTypes
<1>2. task' \in [Task -> {"none", "created", "ready", "live", "done"}]
      /\ task'[Listener] = task[Listener]
  BY <1>0, <1>1, Names DEF TaskTypes
<1>3. pending' \subseteq Task /\ owned' \subseteq Task
  BY <1>0, Names DEF EndConnection, TaskTypes
<1>4. CloseOrRetain(c, ok) /\ connections' = connections \ {c}
  BY DEF EndConnection
<1>5. Accepting' => Accepting
  BY <1>2 DEF Accepting
<1>6. Tables'
  BY <1>0, <1>4, <1>5, EndKeeps
<1> QED
  BY <1>2, <1>3, <1>6

LEMMA CountTyped ==
  ASSUME Tables
  PROVE OwnedCount \in Nat
  BY Counts DEF Tables, StreamTypes, OwnedCount

-----------------------------------------------------------------------------
(* The connections' steps.                                                 *)

LEMMA ConnStepKeeps ==
  ASSUME IInv, NEW c \in Conn, ConnStep(c)
  PROVE IInv'
<1>0. Tables /\ TaskTypes
  BY DEF IInv
<1>1. ASSUME RegisterGraceful(c) \/ OpenWebSocket(c) \/ SayGoaway(c)
      PROVE IInv'
  <2>1. PICK kept \in {"none", "created", "ready", "live", "done"} :
           task' = [task EXCEPT ![Child(c)] = kept]
    BY <1>0, <1>1, Names DEF RegisterGraceful, OpenWebSocket, SayGoaway, TaskTypes
  <2>2. task' \in [Task -> {"none", "created", "ready", "live", "done"}]
        /\ task'[Listener] = task[Listener]
    BY <1>0, <2>1, Names DEF TaskTypes
  <2>3. pending' \subseteq Task /\ owned' \subseteq Task
    <3>1. Child(c) \in Task /\ pending \subseteq Task /\ owned \subseteq Task
      BY <1>0, Names DEF TaskTypes
    <3>2. CASE RegisterGraceful(c)
      BY <3>1, <3>2 DEF RegisterGraceful
    <3>3. CASE OpenWebSocket(c)
      BY <3>1, <3>3 DEF OpenWebSocket
    <3>4. CASE SayGoaway(c)
      BY <3>1, <3>4 DEF SayGoaway
    <3> QED
      BY <1>1, <3>2, <3>3, <3>4
  <2>4. UNCHANGED <<connections, closing, stream, lpc, stack>>
    BY <1>1 DEF RegisterGraceful, OpenWebSocket, SayGoaway
  <2>5. Tables'
    BY <1>0, <2>2, <2>4, Quiet DEF Accepting
  <2> QED
    BY <1>0, <2>2, <2>3, <2>4, <2>5 DEF IInv, TaskTypes
<1>2. ASSUME ForceClose(c)
      PROVE IInv'
  <2>1. PICK ok \in BOOLEAN, nok \in BOOLEAN :
           CloseOrRetain(c, ok) /\ ReportCloseFailure(ok, nok, Child(c), <<>>)
    BY <1>2 DEF ForceClose
  <2>2. UNCHANGED <<connections, pending, owned, task, lpc>>
    BY <1>2 DEF ForceClose
  <2>3. Tables'
    BY <1>0, <2>1, <2>2, EndKeeps DEF Accepting
  <2>4. stack' \in Seq(Frame)
    BY <2>1, Names, NothingLeft, ReportTyped
  <2> QED
    BY <1>0, <2>2, <2>3, <2>4 DEF IInv, TaskTypes
<1>3. ASSUME ConnEnds(c)
      PROVE IInv'
  <2>1. PICK ok \in BOOLEAN, cok \in BOOLEAN, nok \in BOOLEAN :
           /\ EndConnection(c, ok, cok)
           /\ ReportCloseFailure(ok, nok, ConnTask(c),
                                 <<ConnFinishedFrame(ConnTask(c), OwnedCount)>>)
    BY <1>3 DEF ConnEnds
  <2>2. lpc' = lpc
    BY <1>3 DEF ConnEnds
  <2>3. /\ Tables' /\ pending' \subseteq Task /\ owned' \subseteq Task
        /\ task' \in [Task -> {"none", "created", "ready", "live", "done"}]
    BY <2>1, <2>2, EndConnectionKeeps
  <2>4. ConnFinishedFrame(ConnTask(c), OwnedCount) \in Frame
    BY <1>0, Names, NewFrames, CountTyped
  <2>5. <<ConnFinishedFrame(ConnTask(c), OwnedCount)>> \in Seq(Frame)
    BY <2>4
  <2>6. stack' \in Seq(Frame)
    BY <2>1, <2>5, Names, ReportTyped
  <2> QED
    BY <2>3, <2>6 DEF IInv, TaskTypes
<1> QED
  BY <1>1, <1>2, <1>3 DEF ConnStep

-----------------------------------------------------------------------------
(* Cancelling a task runs that task's "finally" inside the call.           *)

LEMMA CancelKeeps ==
  ASSUME IInv, stack # <<>>, NEW t \in Task, NEW todo \in SUBSET Task,
         Cancel(t, todo), CancelUnchanged
  PROVE IInv'
<1>0. Tables /\ TaskTypes /\ Top \in Frame /\ Below \in Seq(Frame)
  BY TopTyped DEF IInv, TaskTypes
<1>1. lpc' = lpc
  BY DEF CancelUnchanged
<1>2. CASE CancelFails(t, todo)
  <2>1. [Top EXCEPT !.todo = todo, !.tried = @ \union {t}] \in Frame
    BY <1>0 DEF Frame
  <2>2. stack' \in Seq(Frame)
    BY <1>0, <1>2, <2>1, Pushed DEF CancelFails
  <2>3. UNCHANGED <<connections, closing, stream, owned, task>>
        /\ pending' = pending \union {t}
    BY <1>2 DEF CancelFails
  <2>4. Tables'
    BY <1>0, <1>1, <2>3, Quiet DEF Accepting
  <2> QED
    BY <1>0, <2>2, <2>3, <2>4 DEF IInv, TaskTypes
<1>3. CASE CancelSucceeds(t, todo)
  <2> DEFINE frame == [Top EXCEPT !.todo = todo, !.tried = @ \union {t}, !.busy = t]
  <2>1. frame \in Frame
    BY <1>0, Names DEF Frame
  <2>2. CASE task[t] = "live" /\ t[1] = "conn"
    <3>1. PICK ok \in BOOLEAN, cok \in BOOLEAN, nok \in BOOLEAN :
             /\ EndConnection(t[2], ok, cok)
             /\ ReportCloseFailure(ok, nok, t,
                                   <<ConnFinishedFrame(t, OwnedCount), frame>> \o Below)
      BY <1>3, <2>2 DEF CancelSucceeds
    <3>2. /\ Tables' /\ pending' \subseteq Task /\ owned' \subseteq Task
          /\ task' \in [Task -> {"none", "created", "ready", "live", "done"}]
      BY <1>1, <2>2, <3>1, Names, EndConnectionKeeps
    <3>3. ConnFinishedFrame(t, OwnedCount) \in Frame
      BY <1>0, Names, NewFrames, CountTyped
    <3>4. <<ConnFinishedFrame(t, OwnedCount), frame>> \o Below \in Seq(Frame)
      <4> HIDE DEF frame
      <4> QED
        BY <1>0, <2>1, <3>3
    <3>5. stack' \in Seq(Frame)
      BY <3>1, <3>4, Names, ReportTyped
    <3> QED
      BY <3>2, <3>5 DEF IInv, TaskTypes
  <2>3. CASE ~(task[t] = "live" /\ t[1] = "conn")
    <3>1. /\ UNCHANGED <<connections, closing, pending, stream>>
          /\ task' = [task EXCEPT ![t] = "done"]
          /\ owned' = owned \/ owned' = owned \ {t}
          /\ \/ stack' = <<FinishFrame(Watcher, FALSE), frame>> \o Below
             \/ stack' = <<frame>> \o Below
      BY <1>3, <2>3 DEF CancelSucceeds
    <3>2. stack' \in Seq(Frame)
      <4>1. FinishFrame(Watcher, FALSE) \in Frame
        BY Names, NewFrames
      <4>2. /\ <<frame>> \o Below \in Seq(Frame)
            /\ <<FinishFrame(Watcher, FALSE), frame>> \o Below \in Seq(Frame)
        <5> HIDE DEF frame
        <5> QED
          BY <1>0, <2>1, <4>1, Pushed, PushedTwice
      <4> HIDE DEF frame
      <4> QED
        BY <3>1, <4>2
    <3>3. task' \in [Task -> {"none", "created", "ready", "live", "done"}]
          /\ owned' \subseteq Task
      BY <1>0, <3>1 DEF TaskTypes
    <3>4. Accepting' => Accepting
      BY <1>0, <1>1, <3>1, Names DEF Accepting, TaskTypes
    <3>5. Tables'
      BY <1>0, <3>1, <3>4, Quiet
    <3> QED
      BY <1>0, <3>1, <3>2, <3>3, <3>5 DEF IInv, TaskTypes
  <2> QED
    BY <2>2, <2>3
<1> QED
  BY <1>2, <1>3 DEF Cancel

-----------------------------------------------------------------------------
(* The synchronous steps.                                                  *)

(* A step that touches neither a table nor a task, but the stack.          *)
LEMMA StackKeeps ==
  ASSUME IInv, UNCHANGED <<connections, closing, pending, owned, stream, task, lpc>>,
         stack' \in Seq(Frame)
  PROVE IInv'
<1>1. Tables'
  BY Quiet DEF IInv, Accepting
<1> QED
  BY <1>1 DEF IInv, TaskTypes

LEMMA RetryClosesKeeps ==
  ASSUME IInv, FinishRetryCloses
  PROVE IInv'
<1>0. Tables /\ TaskTypes
  BY DEF IInv
<1>1. stack # <<>> /\ UNCHANGED <<connections, pending, owned, task, lpc>>
  BY DEF FinishRetryCloses, InFinish
<1>2. PICK bad \in SUBSET {c \in closing : stream[c] = "open"} :
         /\ stream' = [c \in Conn |-> IF c \in closing \ bad THEN "closed" ELSE stream[c]]
         /\ closing' = bad
  BY DEF FinishRetryCloses
<1>3. StreamTypes'
  BY <1>0, <1>1, <1>2 DEF Tables, StreamTypes
<1>4. Streams'
  BY <1>0, <1>1, <1>2 DEF Tables, StreamTypes, Streams, OwnedOnce, NoStreamLeak
<1>5. Slots'
  <2>1. bad \subseteq closing /\ closing \subseteq Conn
    BY <1>0, <1>2 DEF Tables, StreamTypes
  <2>2. PICK m \in Nat, n \in Nat, k \in Nat :
           m = Cardinality(connections) /\ n = Cardinality(closing) /\ k = Cardinality(bad)
    BY <1>0, <2>1, Counts DEF Tables, StreamTypes
  <2>3. k <= n
    BY <2>1, <2>2, Counts, FS_Subset
  <2>4. MaxConnections \in Nat
    BY LifecycleAssumption DEF LifecycleAssumption
  <2> QED
    BY <1>0, <1>1, <1>2, <2>2, <2>3, <2>4
    DEF Tables, Slots, CapacityBound, OwnedCount, Accepting
<1>6. stack' \in Seq(Frame)
  BY <1>0, <1>1, GotoTyped DEF FinishRetryCloses, TaskTypes
<1> QED
  BY <1>0, <1>1, <1>3, <1>4, <1>5, <1>6 DEF IInv, Tables, TaskTypes

LEMMA FinishConnKeeps ==
  ASSUME IInv, FinishConn
  PROVE IInv'
<1>0. Tables /\ TaskTypes /\ stack # <<>> /\ Top \in Frame
  BY TopTyped DEF IInv, TaskTypes, FinishConn, InFinish
<1>1. UNCHANGED <<pending, owned, task, lpc>>
  BY DEF FinishConn
<1>2. PICK c \in Conn, ok \in BOOLEAN :
         /\ \/ connections' = connections \ {c} /\ CloseOrRetain(c, ok)
            \/ UNCHANGED <<connections, closing, stream>>
         /\ Goto("conns", Top.todo \ {ConnTask(c)})
  BY DEF FinishConn
<1>3. Tables'
  BY <1>0, <1>1, <1>2, EndKeeps, Quiet DEF Accepting
<1>4. stack' \in Seq(Frame)
  <2>1. Top.todo \ {ConnTask(c)} \in SUBSET Task
    BY <1>0 DEF Frame
  <2> QED
    BY <1>0, <1>2, <2>1, GotoTyped DEF TaskTypes
<1> QED
  BY <1>0, <1>1, <1>3, <1>4 DEF IInv, TaskTypes

LEMMA SyncStepKeeps ==
  ASSUME IInv, SyncStep
  PROVE IInv'
<1>0. Tables /\ TaskTypes /\ stack # <<>> /\ Top \in Frame /\ Below \in Seq(Frame)
  <2>1. stack # <<>>
    BY DEF SyncStep, FinishStart, FinishRetryCloses, FinishRetryCancel,
           FinishRetryCancelsDone, CancelReturns, FinishCancelConn, FinishConn,
           FinishConnsDone, FinishCancelTask, FinishTasksDone, FinishTail, Update,
           ConnFinished, ListenerFailed, InFinish
  <2> QED
    BY <2>1, TopTyped DEF IInv, TaskTypes
<1>1. Top.todo \subseteq Task /\ Top.cur \in Caller
  BY <1>0 DEF Frame
<1>2. ASSUME FinishStart PROVE IInv'
  <2>1. stack' \in Seq(Frame)
    <3>1. stack' = Below \/ Goto("retry", {})
      BY <1>2 DEF FinishStart
    <3> QED
      BY <1>0, <3>1, GotoTyped DEF TaskTypes
  <2> QED
    BY <1>2, <2>1, StackKeeps DEF FinishStart
<1>3. ASSUME FinishRetryCancel PROVE IInv'
  <2>1. PICK t \in Top.todo : Cancel(t, Top.todo \ {t})
    BY <1>3 DEF FinishRetryCancel
  <2>2. t \in Task /\ Top.todo \ {t} \in SUBSET Task
    BY <1>1, <2>1
  <2> QED
    BY <1>0, <1>3, <2>1, <2>2, CancelKeeps DEF FinishRetryCancel
<1>4. ASSUME FinishRetryCancelsDone PROVE IInv'
  <2>1. {ConnTask(c) : c \in connections} \in SUBSET Task
    BY <1>0, Names DEF Tables, StreamTypes
  <2>2. stack' \in Seq(Frame)
    BY <1>0, <1>4, <2>1, GotoTyped DEF FinishRetryCancelsDone, TaskTypes
  <2> QED
    BY <1>4, <2>2, StackKeeps DEF FinishRetryCancelsDone
<1>5. ASSUME CancelReturns PROVE IInv'
  <2>1. /\ UNCHANGED <<connections, closing, owned, stream, task, lpc>>
        /\ pending' = pending \ {Top.busy}
        /\ stack' = <<[Top EXCEPT !.busy = Nobody]>> \o Below
    BY <1>5 DEF CancelReturns, NoLongerPending
  <2>2. [Top EXCEPT !.busy = Nobody] \in Frame
    BY <1>0, Names DEF Frame
  <2>3. stack' \in Seq(Frame)
    BY <1>0, <2>1, <2>2, Pushed
  <2>4. Tables'
    BY <1>0, <2>1, Quiet DEF Accepting
  <2> QED
    BY <1>0, <2>1, <2>3, <2>4 DEF IInv, TaskTypes
<1>6. ASSUME FinishCancelConn PROVE IInv'
  <2>1. PICK t \in NextConn : Cancel(t, Top.todo)
    BY <1>6 DEF FinishCancelConn
  <2>2. t \in Task
    BY <1>1, <2>1 DEF NextConn
  <2> QED
    BY <1>0, <1>1, <1>6, <2>1, <2>2, CancelKeeps DEF FinishCancelConn
<1>7. ASSUME FinishConnsDone PROVE IInv'
  <2>1. owned \in SUBSET Task /\ {} \in SUBSET Task
    BY <1>0 DEF TaskTypes
  <2>2. stack' \in Seq(Frame)
    BY <1>0, <1>7, <2>1, GotoTyped DEF FinishConnsDone, TaskTypes
  <2> QED
    BY <1>7, <2>2, StackKeeps DEF FinishConnsDone
<1>8. ASSUME FinishCancelTask PROVE IInv'
  <2>1. PICK t \in Top.todo :
           \/ Cancel(t, Top.todo \ {t})
           \/ /\ Goto("tasks", Top.todo \ {t})
              /\ UNCHANGED <<connections, closing, pending, owned, stream, task>>
    BY <1>8 DEF FinishCancelTask
  <2>2. t \in Task /\ Top.todo \ {t} \in SUBSET Task
    BY <1>1, <2>1
  <2>3. CASE Cancel(t, Top.todo \ {t})
    BY <1>0, <1>8, <2>2, <2>3, CancelKeeps DEF FinishCancelTask
  <2>4. CASE ~Cancel(t, Top.todo \ {t})
    <3>1. stack' \in Seq(Frame)
      BY <1>0, <2>1, <2>2, <2>4, GotoTyped DEF TaskTypes
    <3>2. lpc' = lpc
      BY <1>8 DEF FinishCancelTask, CancelUnchanged
    <3> QED
      BY <2>1, <2>4, <3>1, <3>2, StackKeeps
  <2> QED
    BY <2>3, <2>4
<1>9. ASSUME FinishTasksDone PROVE IInv'
  <2>1. stack' \in Seq(Frame)
    BY <1>0, <1>9, GotoTyped DEF FinishTasksDone, TaskTypes
  <2> QED
    BY <1>9, <2>1, StackKeeps DEF FinishTasksDone
<1>10. ASSUME FinishTail \/ Update PROVE IInv'
  <2>1. UpdateFrame(Top.cur) \in Frame
    BY <1>1, NewFrames
  <2>2. stack' \in Seq(Frame)
    BY <1>0, <1>10, <2>1, Pushed DEF FinishTail, Update
  <2> QED
    BY <1>10, <2>2, StackKeeps DEF FinishTail, Update
<1>11. ASSUME ConnFinished PROVE IInv'
  <2>1. UpdateFrame(Top.cur) \in Frame /\ ListenerFailedFrame(Top.cur) \in Frame
    BY <1>1, NewFrames
  <2>2. PICK ok \in BOOLEAN :
           stack' = (IF ok THEN <<>> ELSE <<ListenerFailedFrame(Top.cur)>>)
                      \o <<UpdateFrame(Top.cur)>> \o Below
    BY <1>11 DEF ConnFinished
  <2>3. (IF ok THEN <<>> ELSE <<ListenerFailedFrame(Top.cur)>>) \in Seq(Frame)
    BY <2>1
  <2>4. stack' \in Seq(Frame)
    BY <1>0, <2>1, <2>2, <2>3
  <2> QED
    BY <1>11, <2>4, StackKeeps DEF ConnFinished
<1>12. ASSUME ListenerFailed PROVE IInv'
  <2>1. FinishFrame(Top.cur, FALSE) \in Frame
    BY <1>1, NewFrames
  <2>2. stack' = Below \/ stack' = <<FinishFrame(Top.cur, FALSE)>> \o Below
    BY <1>12 DEF ListenerFailed
  <2>3. stack' \in Seq(Frame)
    BY <1>0, <2>1, <2>2, Pushed
  <2> QED
    BY <1>12, <2>3, StackKeeps DEF ListenerFailed
<1> QED
  BY <1>2, <1>3, <1>4, <1>5, <1>6, <1>7, <1>8, <1>9, <1>10, <1>11, <1>12,
     RetryClosesKeeps, FinishConnKeeps DEF SyncStep

-----------------------------------------------------------------------------
(* The invariant holds initially and is kept by every step.                *)

LEMMA InitEstablishes ==
  ASSUME Init
  PROVE IInv
<1>1. Cardinality({}) = 0
  BY FS_EmptySet
<1>2. connections = {} /\ closing = {} /\ pending = {} /\ stack = <<>> /\ lpc = "top"
      /\ stream = [c \in Conn |-> "none"]
  BY DEF Init
<1>3. owned \subseteq Task
  BY Names DEF Init
<1>4. task \in [Task -> {"none", "created", "ready", "live", "done"}]
  BY DEF Init
<1>5. StreamTypes /\ Streams
  BY <1>2 DEF StreamTypes, Streams, OwnedOnce, NoStreamLeak
<1>6. Slots
  BY <1>1, <1>2, LifecycleAssumption
  DEF Slots, CapacityBound, Accepting, LifecycleAssumption
<1> QED
  BY <1>2, <1>3, <1>4, <1>5, <1>6, NothingLeft DEF IInv, Tables, TaskTypes

LEMMA OtherStepsKeep ==
  ASSUME IInv,
         \/ \E t \in Task : StartTask(t)
         \/ ObserverEnds \/ WatcherWakes
         \/ \E t \in Task \union {UserTask} : CloseFromTask(t)
         \/ RuntimeStops \/ Finalize
         \/ \E k \in Closer : CloserStep(k)
  PROVE IInv'
<1>0. Tables /\ TaskTypes
  BY DEF IInv
<1>1. ASSUME NEW t \in Task, StartTask(t) PROVE IInv'
  <2>1. /\ UNCHANGED <<connections, closing, pending, owned, stream, lpc, stack>>
        /\ task[t] = "ready" /\ task' = [task EXCEPT ![t] = "live"]
    BY <1>1 DEF StartTask
  <2>2. Accepting' => Accepting
    BY <1>0, <2>1 DEF Accepting, TaskTypes
  <2>3. Tables'
    BY <1>0, <2>1, <2>2, Quiet
  <2> QED
    BY <1>0, <2>1, <2>3 DEF IInv, TaskTypes
<1>2. ASSUME ObserverEnds \/ WatcherWakes PROVE IInv'
  <2>1. PICK t \in Task : task' = [task EXCEPT ![t] = "done"]
    BY <1>2, Names DEF ObserverEnds, WatcherWakes
  <2>2. UNCHANGED <<connections, closing, pending, owned, stream, lpc>>
    BY <1>2 DEF ObserverEnds, WatcherWakes
  <2>3. stack' \in Seq(Frame)
    <3>1. FinishFrame(Watcher, FALSE) \in Frame
      BY Names, NewFrames
    <3> QED
      BY <1>0, <1>2, <3>1, NothingLeft, Pushed
      DEF ObserverEnds, WatcherWakes, WatcherFinally, TaskTypes
  <2>4. Accepting' => Accepting
    BY <1>0, <2>1, <2>2 DEF Accepting, TaskTypes
  <2>5. Tables'
    BY <1>0, <2>2, <2>4, Quiet
  <2> QED
    BY <1>0, <2>1, <2>2, <2>3, <2>5 DEF IInv, TaskTypes
<1>3. ASSUME NEW t \in Task \union {UserTask}, CloseFromTask(t) PROVE IInv'
  <2>1. FinishFrame(t, FALSE) \in Frame
    BY Names, NewFrames
  <2>2. stack' \in Seq(Frame)
    BY <1>3, <2>1, NothingLeft, Pushed DEF CloseFromTask
  <2> QED
    BY <1>3, <2>2, StackKeeps DEF CloseFromTask
<1>4. ASSUME RuntimeStops PROVE IInv'
  BY <1>0, <1>4, StackKeeps DEF RuntimeStops, TaskTypes
<1>5. ASSUME Finalize PROVE IInv'
  <2>1. FinishFrame(Nobody, TRUE) \in Frame
    BY Names, NewFrames
  <2>2. stack' \in Seq(Frame)
    BY <1>5, <2>1, NothingLeft, Pushed DEF Finalize
  <2> QED
    BY <1>5, <2>2, StackKeeps DEF Finalize
<1>6. ASSUME NEW k \in Closer, CloserStep(k) PROVE IInv'
  BY <1>0, <1>6, StackKeeps DEF CloserStep, TaskTypes
<1> QED
  BY <1>1, <1>2, <1>3, <1>4, <1>5, <1>6

LEMMA StepKeeps ==
  ASSUME IInv, [Next]_vars
  PROVE IInv'
<1>1. CASE UNCHANGED vars
  BY <1>1, StackKeeps DEF vars, IInv, TaskTypes
<1>2. CASE Next
  BY <1>2, SyncStepKeeps, ListenerStepKeeps, ConnStepKeeps, OtherStepsKeep DEF Next
<1> QED
  BY <1>1, <1>2

LEMMA Invariance == Spec => []IInv
<1>1. Init => IInv
  BY InitEstablishes
<1>2. IInv /\ [Next]_vars => IInv'
  BY StepKeeps
<1> QED
  BY <1>1, <1>2, PTL DEF Spec

-----------------------------------------------------------------------------
(* The types of everything else.                                           *)

Flags ==
    /\ closeRequested \in BOOLEAN /\ notified \in BOOLEAN
    /\ finAttempted \in BOOLEAN /\ finished \in BOOLEAN /\ released \in BOOLEAN
    /\ listenerResumed \in BOOLEAN /\ capSignal \in BOOLEAN /\ woken \in BOOLEAN
    /\ listenerClosed \in BOOLEAN /\ wakeupClosed \in BOOLEAN
    /\ wakeSignal \in BOOLEAN

LEMMA ReportFlags ==
  ASSUME Flags, NEW ok \in BOOLEAN, NEW nok \in BOOLEAN, NEW cur, NEW below,
         ReportCloseFailure(ok, nok, cur, below)
  PROVE closeRequested' \in BOOLEAN /\ notified' \in BOOLEAN /\ wakeSignal' \in BOOLEAN
  BY DEF Flags, ReportCloseFailure

(* A step that changes no flag but those of ReportCloseFailure.            *)
LEMMA OtherFlags ==
  ASSUME Flags, closeRequested' \in BOOLEAN, notified' \in BOOLEAN,
         wakeSignal' \in BOOLEAN,
         UNCHANGED <<finAttempted, finished, released, listenerResumed, capSignal,
                     woken, listenerClosed, wakeupClosed>>
  PROVE Flags'
  BY DEF Flags

LEMMA FlagsKept ==
  ASSUME Flags, [Next]_vars
  PROVE Flags'
<1>1. CASE UNCHANGED vars
  BY <1>1 DEF Flags, vars
<1>2. ASSUME ListenerStep PROVE Flags'
  <2>1. CASE ListenerTop
    BY <2>1 DEF Flags, ListenerTop
  <2>2. CASE ListenerCapacityWake
    BY <2>2 DEF Flags, ListenerCapacityWake
  <2>3. CASE ListenerExits
    BY <2>3 DEF Flags, ListenerExits
  <2>4. CASE ListenerAcceptError
    BY <2>4 DEF Flags, ListenerAcceptError
  <2>5. ASSUME NEW c \in Conn, ListenerSetupFailed(c) PROVE Flags'
    BY <2>5, ReportFlags, OtherFlags DEF ListenerSetupFailed
  <2>6. ASSUME NEW c \in Conn, ListenerRefuses(c) PROVE Flags'
    BY <2>6, ReportFlags, OtherFlags DEF ListenerRefuses
  <2>7. ASSUME NEW c \in Conn, ListenerRegisters(c) PROVE Flags'
    BY <2>7 DEF Flags, ListenerRegisters
  <2>8. ASSUME NEW c \in Conn, ListenerForkFails(c) PROVE Flags'
    BY <2>8, ReportFlags, OtherFlags DEF ListenerForkFails
  <2> QED
    BY <1>2, <2>1, <2>2, <2>3, <2>4, <2>5, <2>6, <2>7, <2>8 DEF ListenerStep
<1>3. ASSUME NEW c \in Conn, ConnStep(c) PROVE Flags'
  <2>1. CASE RegisterGraceful(c)
    BY <2>1 DEF Flags, RegisterGraceful
  <2>2. CASE OpenWebSocket(c)
    BY <2>2 DEF Flags, OpenWebSocket
  <2>3. CASE ForceClose(c)
    BY <2>3, ReportFlags, OtherFlags DEF ForceClose
  <2>4. CASE SayGoaway(c)
    BY <2>4 DEF Flags, SayGoaway
  <2>5. CASE ConnEnds(c)
    BY <2>5, ReportFlags, OtherFlags DEF ConnEnds
  <2> QED
    BY <1>3, <2>1, <2>2, <2>3, <2>4, <2>5 DEF ConnStep
<1>4. ASSUME NEW k \in Closer, CloserStep(k) PROVE Flags'
  <2>0. UNCHANGED <<finished, released, listenerResumed, capSignal, woken, listenerClosed,
                    wakeupClosed>>
    BY <1>4 DEF CloserStep, doneVars, listenVars
  <2>1. CASE CloseCall(k)
    BY <2>0, <2>1 DEF Flags, CloseCall
  <2>2. CASE CloseFlag(k)
    BY <2>0, <2>2 DEF Flags, CloseFlag
  <2>3. CASE CloseTest(k)
    BY <2>0, <2>3 DEF Flags, CloseTest
  <2>4. CASE CloseNotify(k)
    BY <2>0, <2>4 DEF Flags, CloseNotify
  <2>5. CASE CloseMark(k)
    BY <2>0, <2>5 DEF Flags, CloseMark
  <2> QED
    BY <1>4, <2>1, <2>2, <2>3, <2>4, <2>5 DEF CloserStep
<1>5. ASSUME NEW t \in Task \union {UserTask}, CloseFromTask(t) PROVE Flags'
  BY <1>5 DEF Flags, CloseFromTask
<1>6. ASSUME NEW t \in Task, StartTask(t) PROVE Flags'
  BY <1>6 DEF Flags, StartTask
<1>7. CASE ObserverEnds
  BY <1>7 DEF Flags, ObserverEnds
<1>8. CASE WatcherWakes
  BY <1>8 DEF Flags, WatcherWakes
<1>9. CASE RuntimeStops
  BY <1>9 DEF Flags, RuntimeStops
<1>10. CASE Finalize
  BY <1>10 DEF Flags, Finalize
<1>11. ASSUME SyncStep PROVE Flags'
  <2>1. ASSUME NEW t, NEW todo, Cancel(t, todo), CancelUnchanged PROVE Flags'
    <3>1. CASE CancelFails(t, todo)
      BY <2>1, <3>1 DEF Flags, CancelFails, CancelUnchanged
    <3>2. CASE CancelSucceeds(t, todo) /\ task[t] = "live" /\ t[1] = "conn"
      BY <2>1, <3>2, ReportFlags, OtherFlags DEF CancelSucceeds, CancelUnchanged
    <3>3. CASE CancelSucceeds(t, todo) /\ ~(task[t] = "live" /\ t[1] = "conn")
      BY <2>1, <3>3 DEF Flags, CancelSucceeds, CancelUnchanged
    <3> QED
      BY <2>1, <3>1, <3>2, <3>3 DEF Cancel
  <2>2. CASE FinishRetryCancel
    BY <2>1, <2>2 DEF FinishRetryCancel
  <2>3. CASE FinishCancelConn
    BY <2>1, <2>3 DEF FinishCancelConn
  <2>4. CASE FinishCancelTask
    <3>1. PICK t : \/ Cancel(t, Top.todo \ {t})
                   \/ UNCHANGED <<flagVars, doneVars, wakeSignal>>
      BY <2>4 DEF FinishCancelTask
    <3>2. CancelUnchanged
      BY <2>4 DEF FinishCancelTask
    <3> QED
      BY <2>1, <3>1, <3>2 DEF Flags, CancelUnchanged
  <2>5. CASE FinishStart
    BY <2>5 DEF Flags, FinishStart
  <2>6. CASE FinishTail
    BY <2>6 DEF Flags, FinishTail
  <2>7. CASE FinishRetryCloses
    BY <2>7 DEF Flags, FinishRetryCloses
  <2>8. CASE FinishRetryCancelsDone
    BY <2>8 DEF Flags, FinishRetryCancelsDone
  <2>9. CASE CancelReturns
    BY <2>9 DEF Flags, CancelReturns
  <2>10. CASE FinishConn
    BY <2>10 DEF Flags, FinishConn
  <2>11. CASE FinishConnsDone
    BY <2>11 DEF Flags, FinishConnsDone
  <2>12. CASE FinishTasksDone
    BY <2>12 DEF Flags, FinishTasksDone
  <2>13. CASE Update
    BY <2>13 DEF Flags, Update, UpdateFinished, AllReleased
  <2>14. CASE ConnFinished
    BY <2>14 DEF Flags, ConnFinished
  <2>15. CASE ListenerFailed
    BY <2>15 DEF Flags, ListenerFailed
  <2> QED
    BY <1>11, <2>2, <2>3, <2>4, <2>5, <2>6, <2>7, <2>8, <2>9, <2>10, <2>11, <2>12,
       <2>13, <2>14, <2>15 DEF SyncStep
<1> QED
  BY <1>1, <1>2, <1>3, <1>4, <1>5, <1>6, <1>7, <1>8, <1>9, <1>10, <1>11 DEF Next

LEMMA OutcomesKept ==
  ASSUME faults \in 0..MaxFaults
  PROVE /\ \A a : Outcomes(<<a>>) => faults' \in 0..MaxFaults
        /\ \A a, b : Outcomes(<<a, b>>) => faults' \in 0..MaxFaults
        /\ \A a, b, c : Outcomes(<<a, b, c>>) => faults' \in 0..MaxFaults
        /\ \A a, b, c, d : Outcomes(<<a, b, c, d>>) => faults' \in 0..MaxFaults
        /\ \A S \in SUBSET Conn :
              Outcomes([c \in S |-> FALSE]) => faults' \in 0..MaxFaults
<1>1. ASSUME NEW s, IsFiniteSet(DOMAIN s), Outcomes(s)
      PROVE faults' \in 0..MaxFaults
  <2>1. PICK n : /\ n = Cardinality({i \in DOMAIN s : ~s[i]})
                 /\ faults + n <= MaxFaults /\ faults' = faults + n
    BY <1>1 DEF Outcomes
  <2>2. n \in Nat
    BY <1>1, <2>1, FS_Subset, FS_CardinalityType
  <2> QED
    BY <2>1, <2>2, LifecycleAssumption DEF LifecycleAssumption
<1>2. \A n \in Nat : IsFiniteSet(1..n)
  BY FS_Interval
<1>3. /\ \A a : DOMAIN <<a>> = 1..1
      /\ \A a, b : DOMAIN <<a, b>> = 1..2
      /\ \A a, b, c : DOMAIN <<a, b, c>> = 1..3
      /\ \A a, b, c, d : DOMAIN <<a, b, c, d>> = 1..4
  OBVIOUS
<1>4. \A S \in SUBSET Conn : IsFiniteSet(DOMAIN [c \in S |-> FALSE])
  BY Counts
<1> QED
  BY <1>1, <1>2, <1>3, <1>4

LEMMA FaultsKept ==
  ASSUME IInv, faults \in 0..MaxFaults, [Next]_vars
  PROVE faults' \in 0..MaxFaults
<1>1. CASE UNCHANGED vars
  BY <1>1 DEF vars
<1>2. ASSUME ListenerStep PROVE faults' \in 0..MaxFaults
  <2>1. CASE ListenerTop \/ ListenerCapacityWake \/ ListenerExits
    BY <2>1 DEF ListenerTop, ListenerCapacityWake, ListenerExits
  <2>2. CASE ListenerAcceptError
    BY <2>2, OutcomesKept DEF ListenerAcceptError
  <2>3. ASSUME NEW c \in Conn, ListenerSetupFailed(c) PROVE faults' \in 0..MaxFaults
    BY <2>3, OutcomesKept DEF ListenerSetupFailed
  <2>4. ASSUME NEW c \in Conn, ListenerRefuses(c) PROVE faults' \in 0..MaxFaults
    BY <2>4, OutcomesKept DEF ListenerRefuses
  <2>5. ASSUME NEW c \in Conn, ListenerRegisters(c) PROVE faults' \in 0..MaxFaults
    BY <2>5 DEF ListenerRegisters
  <2>6. ASSUME NEW c \in Conn, ListenerForkFails(c) PROVE faults' \in 0..MaxFaults
    BY <2>6, OutcomesKept DEF ListenerForkFails
  <2> QED
    BY <1>2, <2>1, <2>2, <2>3, <2>4, <2>5, <2>6 DEF ListenerStep
<1>3. ASSUME NEW c \in Conn, ConnStep(c) PROVE faults' \in 0..MaxFaults
  <2>1. CASE RegisterGraceful(c) \/ OpenWebSocket(c)
    BY <2>1 DEF RegisterGraceful, OpenWebSocket
  <2>2. CASE ForceClose(c)
    BY <2>2, OutcomesKept DEF ForceClose
  <2>3. CASE SayGoaway(c)
    BY <2>3, OutcomesKept DEF SayGoaway
  <2>4. CASE ConnEnds(c)
    BY <2>4, OutcomesKept DEF ConnEnds
  <2> QED
    BY <1>3, <2>1, <2>2, <2>3, <2>4 DEF ConnStep
<1>4. ASSUME NEW k \in Closer, CloserStep(k) PROVE faults' \in 0..MaxFaults
  BY <1>4, OutcomesKept
  DEF CloserStep, CloseCall, CloseFlag, CloseTest, CloseNotify, CloseMark
<1>5. ASSUME NEW t \in Task \union {UserTask}, CloseFromTask(t)
      PROVE faults' \in 0..MaxFaults
  BY <1>5 DEF CloseFromTask
<1>6. ASSUME NEW t \in Task, StartTask(t) PROVE faults' \in 0..MaxFaults
  BY <1>6 DEF StartTask
<1>7. CASE ObserverEnds \/ WatcherWakes \/ RuntimeStops \/ Finalize
  BY <1>7 DEF ObserverEnds, WatcherWakes, RuntimeStops, Finalize
<1>8. ASSUME SyncStep PROVE faults' \in 0..MaxFaults
  <2>1. ASSUME NEW t, NEW todo, Cancel(t, todo) PROVE faults' \in 0..MaxFaults
    <3>1. CASE CancelFails(t, todo)
      BY <3>1, OutcomesKept DEF CancelFails
    <3>2. CASE CancelSucceeds(t, todo) /\ task[t] = "live" /\ t[1] = "conn"
      <4>1. \E ok, cok, nok \in BOOLEAN : Outcomes(<<ok, cok, nok>>)
        BY <3>2 DEF CancelSucceeds
      <4> QED
        BY <4>1, OutcomesKept
    <3>3. CASE CancelSucceeds(t, todo) /\ ~(task[t] = "live" /\ t[1] = "conn")
      BY <3>3 DEF CancelSucceeds
    <3> QED
      BY <2>1, <3>1, <3>2, <3>3 DEF Cancel
  <2>2. CASE FinishRetryCancel \/ FinishCancelConn \/ FinishCancelTask
    BY <2>1, <2>2 DEF FinishRetryCancel, FinishCancelConn, FinishCancelTask
  <2>3. CASE FinishStart
    BY <2>3, OutcomesKept DEF FinishStart
  <2>4. CASE FinishRetryCloses
    <3>1. \E S \in SUBSET closing : Outcomes([c \in S |-> FALSE])
      BY <2>4 DEF FinishRetryCloses
    <3>2. closing \subseteq Conn
      BY DEF IInv, Tables, StreamTypes
    <3> QED
      BY <3>1, <3>2, OutcomesKept
  <2>5. CASE FinishRetryCancelsDone \/ CancelReturns \/ FinishConnsDone
             \/ FinishTasksDone \/ Update
    BY <2>5 DEF FinishRetryCancelsDone, CancelReturns, FinishConnsDone,
                FinishTasksDone, Update
  <2>6. CASE FinishConn
    <3>1. \E a, b : Outcomes(<<a, b>>)
      BY <2>6 DEF FinishConn
    <3> QED
      BY <3>1, OutcomesKept
  <2>7. CASE FinishTail
    BY <2>7, OutcomesKept DEF FinishTail
  <2>8. CASE ConnFinished
    BY <2>8, OutcomesKept DEF ConnFinished
  <2>9. CASE ListenerFailed
    <3>1. \E a : Outcomes(<<a>>)
      BY <2>9 DEF ListenerFailed
    <3> QED
      BY <3>1, OutcomesKept
  <2> QED
    BY <1>8, <2>2, <2>3, <2>4, <2>5, <2>6, <2>7, <2>8, <2>9 DEF SyncStep
<1> QED
  BY <1>1, <1>2, <1>3, <1>4, <1>5, <1>6, <1>7, <1>8 DEF Next

(* The tables of connections and tasks that IInv does not mention.         *)
Records ==
    /\ errConn \subseteq Conn /\ wsStates \subseteq Conn
    /\ closers \subseteq Conn /\ shut \subseteq Conn /\ cancelled \subseteq Task

LEMMA RecordsKept ==
  ASSUME IInv, Records, [Next]_vars
  PROVE Records'
<1>0. closing \subseteq Conn /\ TaskTypes
  BY DEF IInv, Tables, StreamTypes
<1>1. CASE UNCHANGED vars
  BY <1>1 DEF Records, vars
<1>2. ASSUME ListenerStep PROVE Records'
  <2>1. CASE ListenerTop \/ ListenerCapacityWake \/ ListenerExits \/ ListenerAcceptError
    BY <2>1 DEF Records, ListenerTop, ListenerCapacityWake, ListenerExits,
                ListenerAcceptError
  <2>2. ASSUME NEW c \in Conn, ListenerSetupFailed(c) PROVE Records'
    BY <2>2 DEF Records, ListenerSetupFailed
  <2>3. ASSUME NEW c \in Conn, ListenerRefuses(c) PROVE Records'
    BY <2>3 DEF Records, ListenerRefuses
  <2>4. ASSUME NEW c \in Conn, ListenerRegisters(c) PROVE Records'
    BY <2>4 DEF Records, ListenerRegisters
  <2>5. ASSUME NEW c \in Conn, ListenerForkFails(c) PROVE Records'
    BY <2>5 DEF Records, ListenerForkFails
  <2> QED
    BY <1>2, <2>1, <2>2, <2>3, <2>4, <2>5 DEF ListenerStep
<1>3. ASSUME NEW c \in Conn, NEW ok \in BOOLEAN, NEW cok \in BOOLEAN,
             EndConnection(c, ok, cok), UNCHANGED <<cancelled, shut>>
      PROVE Records'
  BY <1>3 DEF Records, EndConnection, CloseOrRetain, WsStatesWithout
<1>4. ASSUME NEW c \in Conn, ConnStep(c) PROVE Records'
  <2>1. CASE RegisterGraceful(c)
    BY <2>1 DEF Records, RegisterGraceful
  <2>2. CASE OpenWebSocket(c)
    BY <2>2 DEF Records, OpenWebSocket
  <2>3. CASE ForceClose(c)
    BY <2>3 DEF Records, ForceClose, CloseOrRetain
  <2>4. CASE SayGoaway(c)
    BY <2>4 DEF Records, SayGoaway
  <2>5. CASE ConnEnds(c)
    BY <1>3, <2>5 DEF ConnEnds
  <2> QED
    BY <1>4, <2>1, <2>2, <2>3, <2>4, <2>5 DEF ConnStep
<1>5. ASSUME NEW k \in Closer, CloserStep(k) PROVE Records'
  BY <1>5 DEF Records, CloserStep
<1>6. ASSUME NEW t \in Task \union {UserTask}, CloseFromTask(t) PROVE Records'
  <2>1. t[1] = "conn" => t[2] \in Conn
    BY <1>6, Names DEF UserTask
  <2> QED
    BY <1>6, <2>1 DEF Records, CloseFromTask
<1>7. ASSUME NEW t \in Task, StartTask(t) PROVE Records'
  BY <1>7 DEF Records, StartTask
<1>8. CASE ObserverEnds \/ WatcherWakes \/ RuntimeStops \/ Finalize
  BY <1>8 DEF Records, ObserverEnds, WatcherWakes, RuntimeStops, Finalize
<1>9. ASSUME SyncStep PROVE Records'
  <2>1. ASSUME NEW t \in Task, NEW todo, Cancel(t, todo), CancelUnchanged
        PROVE Records'
    <3>1. CASE CancelFails(t, todo)
      BY <2>1, <3>1 DEF Records, CancelFails, CancelUnchanged
    <3>2. CASE CancelSucceeds(t, todo) /\ task[t] = "live" /\ t[1] = "conn"
      <4>1. PICK ok \in BOOLEAN, cok \in BOOLEAN : EndConnection(t[2], ok, cok)
        BY <3>2 DEF CancelSucceeds
      <4> QED
        BY <1>3, <2>1, <3>2, <4>1, Names DEF CancelSucceeds, CancelUnchanged
    <3>3. CASE CancelSucceeds(t, todo) /\ ~(task[t] = "live" /\ t[1] = "conn")
      BY <2>1, <3>3 DEF Records, CancelSucceeds, CancelUnchanged
    <3> QED
      BY <2>1, <3>1, <3>2, <3>3 DEF Cancel
  <2>2. InFinish("cancels") \/ InFinish("conns") \/ InFinish("tasks") => Top.todo \subseteq Task
    BY <1>0, TopTyped DEF TaskTypes, Frame, InFinish
  <2>3. CASE FinishRetryCancel
    BY <2>1, <2>2, <2>3 DEF FinishRetryCancel
  <2>4. CASE FinishCancelConn
    BY <2>1, <2>2, <2>4 DEF FinishCancelConn, NextConn
  <2>5. CASE FinishCancelTask
    <3>1. PICK t \in Task :
             \/ \E todo : Cancel(t, todo)
             \/ UNCHANGED ownVars
      BY <2>2, <2>5 DEF FinishCancelTask
    <3>2. CancelUnchanged
      BY <2>5 DEF FinishCancelTask
    <3> QED
      BY <2>1, <3>1, <3>2 DEF Records, CancelUnchanged
  <2>6. CASE FinishStart
    BY <2>6 DEF Records, FinishStart
  <2>7. CASE FinishRetryCloses
    <3>1. PICK bad \in SUBSET closing : errConn' = (errConn \ closing) \union bad
      BY <2>7 DEF FinishRetryCloses, RetriedErrors
    <3> QED
      BY <1>0, <2>7, <3>1 DEF Records, FinishRetryCloses
  <2>8. CASE FinishRetryCancelsDone \/ FinishConnsDone \/ FinishTasksDone \/ FinishTail
    BY <2>8 DEF Records, FinishRetryCancelsDone, FinishConnsDone, FinishTasksDone,
                FinishTail
  <2>9. CASE CancelReturns
    <3>1. Top.busy \in Task
      BY <1>0, <2>9, TopTyped DEF CancelReturns, TaskTypes, Frame
    <3> QED
      BY <2>9, <3>1 DEF Records, CancelReturns
  <2>10. CASE FinishConn
    <3>1. PICK c \in Conn, ok \in BOOLEAN :
             /\ shut' \subseteq shut \union {c}
             /\ CloseOrRetain(c, ok) \/ errConn' = errConn
      BY <2>10 DEF FinishConn
    <3> QED
      BY <2>10, <3>1 DEF Records, FinishConn, CloseOrRetain
  <2>11. CASE Update
    BY <2>11 DEF Records, Update, UpdateFinished
  <2>12. CASE ConnFinished
    BY <2>12 DEF Records, ConnFinished
  <2>13. CASE ListenerFailed
    BY <2>13 DEF Records, ListenerFailed
  <2> QED
    BY <1>9, <2>3, <2>4, <2>5, <2>6, <2>7, <2>8, <2>9, <2>10, <2>11, <2>12, <2>13
    DEF SyncStep
<1> QED
  BY <1>1, <1>2, <1>4, <1>5, <1>6, <1>7, <1>8, <1>9 DEF Next

(* Where the listener, the runtime and the close() threads are.            *)
Waiting ==
    /\ lpc \in {"top", "capwait", "accept"} /\ capWaiting \in BOOLEAN
    /\ capWaiting <=> lpc = "capwait" /\ task[Listener] = "live"
Places ==
    /\ runtime \in {"running", "stopped"}
    /\ cpc \in [Closer -> {"idle", "flag", "test", "notify", "mark"}]

LEMMA PlacesKept ==
  ASSUME Places, [Next]_vars
  PROVE Places'
<1>1. CASE UNCHANGED vars
  BY <1>1 DEF Places, vars
<1>2. ASSUME UNCHANGED <<runtime, cpc>> PROVE Places'
  BY <1>2 DEF Places
<1>3. ASSUME ListenerStep PROVE Places'
  BY <1>2, <1>3 DEF ListenerStep, ListenerTop, ListenerCapacityWake, ListenerExits,
     ListenerAcceptError, ListenerSetupFailed, ListenerRefuses, ListenerRegisters,
     ListenerForkFails
<1>4. ASSUME NEW c \in Conn, ConnStep(c) PROVE Places'
  BY <1>2, <1>4 DEF ConnStep, RegisterGraceful, OpenWebSocket, ForceClose, SayGoaway,
     ConnEnds
<1>5. ASSUME NEW k \in Closer, CloserStep(k) PROVE Places'
  <2>1. runtime' = runtime
    BY <1>5 DEF CloserStep
  <2>2. PICK to \in {"idle", "flag", "test", "notify", "mark"} :
           cpc' = [cpc EXCEPT ![k] = to]
    BY <1>5 DEF CloserStep, CloseCall, CloseFlag, CloseTest, CloseNotify, CloseMark, At
  <2> QED
    BY <2>1, <2>2 DEF Places
<1>6. ASSUME NEW t \in Task \union {UserTask}, CloseFromTask(t) PROVE Places'
  BY <1>2, <1>6 DEF CloseFromTask
<1>7. ASSUME NEW t \in Task, StartTask(t) PROVE Places'
  BY <1>2, <1>7 DEF StartTask
<1>8. CASE ObserverEnds \/ WatcherWakes \/ Finalize
  BY <1>2, <1>8 DEF ObserverEnds, WatcherWakes, Finalize
<1>9. CASE RuntimeStops
  BY <1>9 DEF Places, RuntimeStops
<1>10. ASSUME SyncStep PROVE Places'
  BY <1>2, <1>10 DEF SyncStep, FinishStart, FinishRetryCloses, FinishRetryCancel,
     FinishRetryCancelsDone, CancelReturns, FinishCancelConn, FinishConn,
     FinishConnsDone, FinishCancelTask, FinishTasksDone, FinishTail, Update,
     ConnFinished, ListenerFailed, CancelUnchanged
<1> QED
  BY <1>1, <1>3, <1>4, <1>5, <1>6, <1>7, <1>8, <1>9, <1>10 DEF Next

LEMMA WaitingKept ==
  ASSUME IInv, Waiting, [Next]_vars
  PROVE Waiting'
<1>0. TaskTypes
  BY DEF IInv
<1>1. ASSUME UNCHANGED <<lpc, capWaiting>>, task'[Listener] = task[Listener]
      PROVE Waiting'
  BY <1>1 DEF Waiting
<1>2. CASE UNCHANGED vars
  BY <1>1, <1>2 DEF vars
<1>3. ASSUME ListenerStep PROVE Waiting'
  <2>1. CASE ListenerTop
    BY <1>0, <2>1, Names DEF Waiting, ListenerTop, TaskTypes
  <2>2. CASE ListenerCapacityWake
    BY <2>2 DEF Waiting, ListenerCapacityWake
  <2>3. CASE ListenerExits
    BY <2>3 DEF Waiting, ListenerExits
  <2>4. CASE ListenerAcceptError
    BY <2>4 DEF Waiting, ListenerAcceptError
  <2>5. ASSUME NEW c \in Conn, ListenerSetupFailed(c) PROVE Waiting'
    BY <2>5 DEF Waiting, ListenerSetupFailed
  <2>6. ASSUME NEW c \in Conn, ListenerRefuses(c) PROVE Waiting'
    <3>1. lpc' \in {"top", "accept"} /\ UNCHANGED capWaiting /\ lpc = "accept"
      BY <2>6 DEF ListenerRefuses
    <3> QED
      BY <3>1 DEF Waiting
  <2>7. ASSUME NEW c \in Conn, ListenerRegisters(c) PROVE Waiting'
    BY <2>7 DEF Waiting, ListenerRegisters
  <2>8. ASSUME NEW c \in Conn, ListenerForkFails(c) PROVE Waiting'
    BY <2>8 DEF Waiting, ListenerForkFails
  <2> QED
    BY <1>3, <2>1, <2>2, <2>3, <2>4, <2>5, <2>6, <2>7, <2>8 DEF ListenerStep
<1>4. ASSUME NEW c \in Conn, NEW ok, NEW cok, EndConnection(c, ok, cok)
      PROVE task'[Listener] = task[Listener]
  BY <1>0, <1>4, Names DEF EndConnection, TaskTypes
<1>5. ASSUME NEW c \in Conn, ConnStep(c) PROVE Waiting'
  <2>1. UNCHANGED <<lpc, capWaiting>>
    BY <1>5 DEF ConnStep, RegisterGraceful, OpenWebSocket, ForceClose, SayGoaway, ConnEnds
  <2>2. task'[Listener] = task[Listener]
    <3>1. CASE ConnEnds(c)
      BY <1>4, <3>1 DEF ConnEnds
    <3>2. CASE ~ConnEnds(c)
      <4>1. task' = task \/ \E x : task' = [task EXCEPT ![Child(c)] = x]
        BY <1>5, <3>2 DEF ConnStep, RegisterGraceful, OpenWebSocket, ForceClose, SayGoaway
      <4> QED
        BY <1>0, <4>1, Names DEF TaskTypes
    <3> QED
      BY <3>1, <3>2
  <2> QED
    BY <1>1, <2>1, <2>2
<1>6. ASSUME NEW k \in Closer, CloserStep(k) PROVE Waiting'
  BY <1>1, <1>6 DEF CloserStep
<1>7. ASSUME NEW t \in Task \union {UserTask}, CloseFromTask(t) PROVE Waiting'
  BY <1>1, <1>7 DEF CloseFromTask
<1>8. ASSUME NEW t \in Task, StartTask(t) PROVE Waiting'
  <2>1. UNCHANGED <<lpc, capWaiting>> /\ t # Listener
        /\ task' = [task EXCEPT ![t] = "live"]
    BY <1>8 DEF StartTask
  <2> QED
    BY <1>0, <1>1, <2>1, Names DEF TaskTypes
<1>9. CASE ObserverEnds \/ WatcherWakes
  <2>1. UNCHANGED <<lpc, capWaiting>>
        /\ \E t \in {Observer, Watcher} : task' = [task EXCEPT ![t] = "done"]
    BY <1>9 DEF ObserverEnds, WatcherWakes
  <2> QED
    BY <1>0, <1>1, <2>1, Names DEF TaskTypes
<1>10. CASE RuntimeStops \/ Finalize
  BY <1>1, <1>10 DEF RuntimeStops, Finalize
<1>11. ASSUME SyncStep PROVE Waiting'
  <2>1. ASSUME NEW t \in Task, NEW todo, Cancel(t, todo), CancelUnchanged PROVE Waiting'
    <3>1. lpc' = lpc
      BY <2>1 DEF CancelUnchanged
    <3>2. CASE CancelFails(t, todo)
      BY <1>1, <3>1, <3>2 DEF CancelFails
    <3>3. CASE CancelSucceeds(t, todo) /\ task[t] = "live" /\ t[1] = "conn"
      <4>1. task'[Listener] = task[Listener] /\ t # Listener
        BY <1>4, <3>3, Names DEF CancelSucceeds
      <4>2. capWaiting' = (capWaiting /\ ~(t = Listener /\ task[t] = "live"))
        BY <3>3 DEF CancelSucceeds, CapacityWaitAfter
      <4> QED
        BY <3>1, <4>1, <4>2 DEF Waiting
    <3>4. CASE CancelSucceeds(t, todo) /\ ~(task[t] = "live" /\ t[1] = "conn")
      <4>1. task' = [task EXCEPT ![t] = "done"]
        BY <3>4 DEF CancelSucceeds
      <4>2. capWaiting' = (capWaiting /\ ~(t = Listener /\ task[t] = "live"))
        BY <3>4 DEF CancelSucceeds, CapacityWaitAfter
      <4>3. CASE t = Listener
        BY <1>0, <3>1, <4>1, <4>2, <4>3 DEF Waiting, TaskTypes
      <4>4. CASE t # Listener
        BY <1>0, <3>1, <4>1, <4>2, <4>4, Names DEF Waiting, TaskTypes
      <4> QED
        BY <4>3, <4>4
    <3> QED
      BY <2>1, <3>2, <3>3, <3>4 DEF Cancel
  <2>2. InFinish("cancels") \/ InFinish("conns") \/ InFinish("tasks") => Top.todo \subseteq Task
    BY <1>0, TopTyped DEF TaskTypes, Frame, InFinish
  <2>3. CASE FinishRetryCancel
    BY <2>1, <2>2, <2>3 DEF FinishRetryCancel
  <2>4. CASE FinishCancelConn
    BY <2>1, <2>2, <2>4 DEF FinishCancelConn, NextConn
  <2>5. CASE FinishCancelTask
    <3>1. PICK t \in Task :
             \/ \E todo : Cancel(t, todo)
             \/ UNCHANGED <<capWaiting, task>>
      BY <2>2, <2>5 DEF FinishCancelTask
    <3>2. CancelUnchanged
      BY <2>5 DEF FinishCancelTask
    <3> QED
      BY <1>1, <2>1, <3>1, <3>2 DEF CancelUnchanged
  <2>6. CASE ~FinishRetryCancel /\ ~FinishCancelConn /\ ~FinishCancelTask
    <3>1. UNCHANGED <<lpc, capWaiting, task>>
      BY <1>11, <2>6 DEF SyncStep, FinishStart, FinishRetryCloses,
         FinishRetryCancelsDone, CancelReturns, FinishConn, FinishConnsDone,
         FinishTasksDone, FinishTail, Update, ConnFinished, ListenerFailed
    <3> QED
      BY <1>1, <3>1
  <2> QED
    BY <2>3, <2>4, <2>5, <2>6
<1> QED
  BY <1>2, <1>3, <1>5, <1>6, <1>7, <1>8, <1>9, <1>10, <1>11 DEF Next

-----------------------------------------------------------------------------
(* The types of the handle's state, among them that _capacity_waiting is   *)
(* true exactly while the listener is parked in _wait_for_capacity         *)
(* (server.py:313-317), its cancellation included.                         *)
THEOREM TypeOKHolds == Spec => []TypeOK
<1> DEFINE Inv == /\ IInv /\ Flags /\ Records /\ Waiting /\ Places
                  /\ faults \in 0..MaxFaults
<1>1. Init => Inv
  <2> SUFFICES ASSUME Init PROVE Inv
    OBVIOUS
  <2>1. Flags /\ Records /\ Places
    BY DEF Init, Flags, Records, Places
  <2>2. Waiting
    BY DEF Init, Waiting
  <2>3. faults \in 0..MaxFaults
    BY LifecycleAssumption DEF Init, LifecycleAssumption
  <2> QED
    BY <2>1, <2>2, <2>3, InitEstablishes
<1>2. Inv /\ [Next]_vars => Inv'
  BY StepKeeps, FlagsKept, RecordsKept, WaitingKept, PlacesKept, FaultsKept
<1>3. Inv => TypeOK
  <2> SUFFICES ASSUME Inv PROVE TypeOK
    OBVIOUS
  <2>1. capWaiting = (lpc = "capwait" /\ task[Listener] = "live")
    BY DEF Waiting
  <2> QED
    BY <2>1 DEF IInv, Tables, StreamTypes, TaskTypes, Flags, Records, Waiting, Places,
                TypeOK
<1> QED
  BY <1>1, <1>2, <1>3, PTL DEF Spec

(* server.py:306 adds the sizes of _connections and _closing_connections   *)
(* to get the number of owned connections: no stream is ever in both.      *)
THEOREM OwnedOnceHolds == Spec => []OwnedOnce
<1>1. IInv => OwnedOnce
  BY DEF IInv, Tables, Streams
<1> QED
  BY <1>1, Invariance, PTL

(* Whatever failed, and wherever the failure was handled, an accepted      *)
(* stream that is still open is in a table that _finish_close walks.       *)
THEOREM NoStreamLeakHolds == Spec => []NoStreamLeak
<1>1. IInv => NoStreamLeak
  BY DEF IInv, Tables, Streams
<1> QED
  BY <1>1, Invariance, PTL

(* max_connections holds for the streams owned, failed closes included,    *)
(* although app.py:680 tests the count before accept() suspends.           *)
THEOREM CapacityBoundHolds == Spec => []CapacityBound
<1>1. IInv => CapacityBound
  BY DEF IInv, Tables, Slots
<1> QED
  BY <1>1, Invariance, PTL
-----------------------------------------------------------------------------
(* What a step may do to the tables, and what is never undone: the two     *)
(* lemmas from which the remaining safety properties follow.               *)

(* A stream arrives: it is registered, taken over by the table of failed   *)
(* closes with its error, or closed at once.                               *)
Arrives(c) ==
    /\ ~listenerClosed /\ stream[c] = "none"
    /\ \/ /\ ~closeRequested /\ stream' = [stream EXCEPT ![c] = "open"]
          /\ connections' = connections \union {c}
          /\ UNCHANGED <<closing, errConn>>
       \/ /\ stream' = [stream EXCEPT ![c] = "open"]
          /\ closing' = closing \union {c} /\ errConn' = errConn \union {c}
          /\ UNCHANGED connections
       \/ /\ stream' = [stream EXCEPT ![c] = "closed"]
          /\ UNCHANGED <<connections, closing, errConn>>

(* A stream ends, with the entry of its connection or without.             *)
Leaves(c, ok) ==
    /\ CloseOrRetain(c, ok)
    /\ connections' = connections \/ connections' = connections \ {c}

(* The retained streams are tried once more.                               *)
Retried(bad) ==
    /\ stream' = [c \in Conn |-> IF c \in closing \ bad THEN "closed" ELSE stream[c]]
    /\ closing' = bad /\ errConn' = (errConn \ closing) \union bad
    /\ UNCHANGED connections

(* Nothing is left, and the errors are forgotten.                          *)
Cleared ==
    /\ connections = {} /\ closing = {} /\ errConn' = {}
    /\ UNCHANGED <<connections, closing, stream>>

TableStep ==
    \/ UNCHANGED <<connections, closing, errConn, stream>>
    \/ \E c \in Conn : Arrives(c)
    \/ \E c \in Conn, ok \in BOOLEAN : Leaves(c, ok)
    \/ \E bad \in SUBSET closing : Retried(bad)
    \/ Cleared

LEMMA TablesMove ==
  ASSUME IInv, [Next]_vars
  PROVE TableStep
<1>0. TaskTypes
  BY DEF IInv
<1>1. CASE UNCHANGED vars
  BY <1>1 DEF TableStep, vars
<1>2. ASSUME ListenerStep PROVE TableStep
  <2>1. CASE ListenerTop \/ ListenerCapacityWake \/ ListenerExits \/ ListenerAcceptError
    BY <2>1 DEF TableStep, ListenerTop, ListenerCapacityWake, ListenerExits,
                ListenerAcceptError
  <2>2. ASSUME NEW c \in Conn, ListenerSetupFailed(c) PROVE TableStep
    BY <2>2 DEF TableStep, Arrives, ListenerSetupFailed
  <2>3. ASSUME NEW c \in Conn, ListenerRefuses(c) PROVE TableStep
    <3>1. PICK ok \in BOOLEAN :
             /\ stream' = [stream EXCEPT ![c] = IF ok THEN "closed" ELSE "open"]
             /\ closing' = IF ok THEN closing ELSE closing \union {c}
             /\ errConn' = IF ok THEN errConn ELSE errConn \union {c}
      BY <2>3 DEF ListenerRefuses
    <3>2. Arrives(c)
      BY <2>3, <3>1 DEF ListenerRefuses, Arrives
    <3> QED
      BY <3>2 DEF TableStep
  <2>4. ASSUME NEW c \in Conn, ListenerRegisters(c) PROVE TableStep
    BY <2>4 DEF TableStep, Arrives, ListenerRegisters, Admits
  <2>5. ASSUME NEW c \in Conn, ListenerForkFails(c) PROVE TableStep
    <3>1. PICK ok \in BOOLEAN :
             /\ stream' = [stream EXCEPT ![c] = IF ok THEN "closed" ELSE "open"]
             /\ closing' = IF ok THEN closing ELSE closing \union {c}
             /\ errConn' = IF ok THEN errConn ELSE errConn \union {c}
      BY <2>5 DEF ListenerForkFails
    <3>2. Arrives(c)
      BY <2>5, <3>1 DEF ListenerForkFails, Arrives
    <3> QED
      BY <3>2 DEF TableStep
  <2> QED
    BY <1>2, <2>1, <2>2, <2>3, <2>4, <2>5 DEF ListenerStep
<1>3. ASSUME NEW c \in Conn, NEW ok \in BOOLEAN, NEW cok \in BOOLEAN,
             EndConnection(c, ok, cok)
      PROVE TableStep
  <2>1. Leaves(c, ok)
    BY <1>3 DEF Leaves, EndConnection
  <2> QED
    BY <2>1 DEF TableStep
<1>4. ASSUME NEW c \in Conn, ConnStep(c) PROVE TableStep
  <2>1. CASE RegisterGraceful(c) \/ OpenWebSocket(c) \/ SayGoaway(c)
    BY <2>1 DEF TableStep, RegisterGraceful, OpenWebSocket, SayGoaway
  <2>2. CASE ForceClose(c)
    <3>1. \E ok \in BOOLEAN : Leaves(c, ok)
      BY <2>2 DEF ForceClose, Leaves
    <3> QED
      BY <3>1 DEF TableStep
  <2>3. CASE ConnEnds(c)
    BY <1>3, <2>3 DEF ConnEnds
  <2> QED
    BY <1>4, <2>1, <2>2, <2>3 DEF ConnStep
<1>5. ASSUME NEW k \in Closer, CloserStep(k) PROVE TableStep
  BY <1>5 DEF TableStep, CloserStep
<1>6. ASSUME NEW t, CloseFromTask(t) \/ StartTask(t) PROVE TableStep
  BY <1>6 DEF TableStep, CloseFromTask, StartTask
<1>7. CASE ObserverEnds \/ WatcherWakes \/ RuntimeStops \/ Finalize
  BY <1>7 DEF TableStep, ObserverEnds, WatcherWakes, RuntimeStops, Finalize
<1>8. ASSUME SyncStep PROVE TableStep
  <2>1. ASSUME NEW t \in Task, NEW todo, Cancel(t, todo) PROVE TableStep
    <3>1. CASE CancelFails(t, todo)
      BY <3>1 DEF TableStep, CancelFails
    <3>2. CASE CancelSucceeds(t, todo) /\ task[t] = "live" /\ t[1] = "conn"
      <4>1. PICK ok \in BOOLEAN, cok \in BOOLEAN : EndConnection(t[2], ok, cok)
        BY <3>2 DEF CancelSucceeds
      <4> QED
        BY <1>3, <3>2, <4>1, Names
    <3>3. CASE CancelSucceeds(t, todo) /\ ~(task[t] = "live" /\ t[1] = "conn")
      BY <3>3 DEF TableStep, CancelSucceeds
    <3> QED
      BY <2>1, <3>1, <3>2, <3>3 DEF Cancel
  <2>2. InFinish("cancels") \/ InFinish("conns") \/ InFinish("tasks") => Top.todo \subseteq Task
    BY <1>0, TopTyped DEF TaskTypes, Frame, InFinish
  <2>3. CASE FinishRetryCancel \/ FinishCancelConn
    BY <2>1, <2>2, <2>3 DEF FinishRetryCancel, FinishCancelConn, NextConn
  <2>4. CASE FinishCancelTask
    <3>1. PICK t \in Task :
             \/ \E todo : Cancel(t, todo)
             \/ UNCHANGED <<ownVars, stream>>
      BY <2>2, <2>4 DEF FinishCancelTask
    <3> QED
      BY <2>1, <3>1 DEF TableStep
  <2>5. CASE FinishStart \/ FinishRetryCancelsDone \/ CancelReturns \/ FinishConnsDone
             \/ FinishTasksDone \/ FinishTail \/ ConnFinished \/ ListenerFailed
    BY <2>5 DEF TableStep, FinishStart, FinishRetryCancelsDone, CancelReturns,
                FinishConnsDone, FinishTasksDone, FinishTail, ConnFinished, ListenerFailed
  <2>6. CASE FinishRetryCloses
    <3>1. \E bad \in SUBSET closing : Retried(bad)
      BY <2>6 DEF FinishRetryCloses, RetriedErrors, Retried
    <3> QED
      BY <3>1 DEF TableStep
  <2>7. CASE FinishConn
    <3>1. \/ \E c \in Conn, ok \in BOOLEAN : Leaves(c, ok)
          \/ UNCHANGED <<connections, closing, errConn, stream>>
      BY <2>7 DEF FinishConn, Leaves
    <3> QED
      BY <3>1 DEF TableStep
  <2>8. CASE Update
    BY <2>8 DEF TableStep, Cleared, Update, UpdateFinished, AllReleased
  <2> QED
    BY <1>8, <2>3, <2>4, <2>5, <2>6, <2>7, <2>8 DEF SyncStep
<1> QED
  BY <1>1, <1>2, <1>4, <1>5, <1>6, <1>7, <1>8 DEF Next

(* Requests and closed kernel resources are never taken back; the callback *)
(* runs only once everything is released.                                  *)
Latches ==
    /\ closeRequested => closeRequested'
    /\ listenerClosed => listenerClosed'
    /\ wakeupClosed => wakeupClosed'
    /\ finAttempted' => finAttempted \/ closeRequested'
    /\ released' => released \/ AllReleased

LEMMA LatchesHold ==
  ASSUME Flags, [Next]_vars
  PROVE Latches
<1>1. ASSUME UNCHANGED <<finAttempted, released, listenerClosed, wakeupClosed>>,
             closeRequested => closeRequested'
      PROVE Latches
  BY <1>1 DEF Latches
<1>2. CASE UNCHANGED vars
  BY <1>1, <1>2 DEF vars
<1>3. ASSUME ListenerStep PROVE Latches
  <2>1. CASE ListenerTop \/ ListenerCapacityWake \/ ListenerExits \/ ListenerAcceptError
    BY <1>1, <2>1 DEF ListenerTop, ListenerCapacityWake, ListenerExits, ListenerAcceptError
  <2>2. ASSUME NEW c \in Conn, ListenerSetupFailed(c) PROVE Latches
    BY <1>1, <2>2 DEF ListenerSetupFailed, ReportCloseFailure
  <2>3. ASSUME NEW c \in Conn, ListenerRefuses(c) PROVE Latches
    BY <1>1, <2>3 DEF ListenerRefuses, ReportCloseFailure
  <2>4. ASSUME NEW c \in Conn, ListenerRegisters(c) PROVE Latches
    BY <1>1, <2>4 DEF ListenerRegisters
  <2>5. ASSUME NEW c \in Conn, ListenerForkFails(c) PROVE Latches
    BY <1>1, <2>5 DEF ListenerForkFails, ReportCloseFailure
  <2> QED
    BY <1>3, <2>1, <2>2, <2>3, <2>4, <2>5 DEF ListenerStep
<1>4. ASSUME NEW c \in Conn, ConnStep(c) PROVE Latches
  BY <1>1, <1>4 DEF ConnStep, RegisterGraceful, OpenWebSocket, ForceClose, SayGoaway,
     ConnEnds, ReportCloseFailure
<1>5. ASSUME NEW k \in Closer, CloserStep(k) PROVE Latches
  BY <1>1, <1>5 DEF CloserStep, CloseCall, CloseFlag, CloseTest, CloseNotify, CloseMark
<1>6. ASSUME NEW t, CloseFromTask(t) PROVE Latches
  BY <1>6 DEF Latches, CloseFromTask
<1>7. ASSUME NEW t, StartTask(t) PROVE Latches
  BY <1>1, <1>7 DEF StartTask
<1>8. CASE ObserverEnds \/ WatcherWakes \/ RuntimeStops \/ Finalize
  BY <1>1, <1>8 DEF ObserverEnds, WatcherWakes, RuntimeStops, Finalize
<1>9. ASSUME SyncStep PROVE Latches
  <2>1. ASSUME NEW t, NEW todo, Cancel(t, todo), CancelUnchanged PROVE Latches
    BY <1>1, <2>1 DEF Cancel, CancelFails, CancelSucceeds, CancelUnchanged,
                      ReportCloseFailure
  <2>2. CASE FinishRetryCancel \/ FinishCancelConn
    BY <2>1, <2>2 DEF FinishRetryCancel, FinishCancelConn
  <2>3. CASE FinishCancelTask
    <3>1. CancelUnchanged /\ ((\E t, todo : Cancel(t, todo)) \/ UNCHANGED <<flagVars, doneVars>>)
      BY <2>3 DEF FinishCancelTask
    <3> QED
      BY <1>1, <2>1, <3>1 DEF CancelUnchanged
  <2>4. CASE FinishStart
    BY <2>4 DEF Latches, FinishStart
  <2>5. CASE FinishTail
    BY <2>5 DEF Latches, FinishTail
  <2>6. CASE Update
    BY <2>6 DEF Latches, Update, UpdateFinished
  <2>7. CASE FinishRetryCloses \/ FinishRetryCancelsDone \/ CancelReturns \/ FinishConn
             \/ FinishConnsDone \/ FinishTasksDone \/ ConnFinished \/ ListenerFailed
    BY <1>1, <2>7 DEF FinishRetryCloses, FinishRetryCancelsDone, CancelReturns, FinishConn,
                FinishConnsDone, FinishTasksDone, ConnFinished, ListenerFailed
  <2> QED
    BY <1>9, <2>2, <2>3, <2>4, <2>5, <2>6, <2>7 DEF SyncStep
<1> QED
  BY <1>2, <1>3, <1>4, <1>5, <1>6, <1>7, <1>8, <1>9 DEF Next

(* A request comes with the first finalization attempt, or before it.      *)
Requested == finAttempted => closeRequested

LEMMA FlagsInvariance == Spec => [](IInv /\ Flags /\ Requested)
<1>1. Init => IInv /\ Flags /\ Requested
  BY InitEstablishes DEF Init, Flags, Requested
<1>2. IInv /\ Flags /\ Requested /\ [Next]_vars => (IInv /\ Flags /\ Requested)'
  <2> SUFFICES ASSUME IInv, Flags, Requested, [Next]_vars
               PROVE  IInv' /\ Flags' /\ Requested'
    OBVIOUS
  <2>1. Requested'
    BY LatchesHold DEF Latches, Requested
  <2> QED
    BY <2>1, StepKeeps, FlagsKept
<1> QED
  BY <1>1, <1>2, PTL DEF Spec

(* cleanup_errors reports exactly the streams whose close has failed and   *)
(* that are still owned (server.py, ServerHandle.cleanup_errors): no error *)
(* outlives its stream, and no retained stream is without one, whichever   *)
(* of the close, the retry and the end of the connection task came first.  *)
THEOREM ErrorsAreOwnedHolds == Spec => []ErrorsAreOwned
<1>1. Init => ErrorsAreOwned
  BY DEF Init, ErrorsAreOwned
<1>2. IInv /\ ErrorsAreOwned /\ [Next]_vars => ErrorsAreOwned'
  <2> SUFFICES ASSUME IInv, ErrorsAreOwned, [Next]_vars
               PROVE  ErrorsAreOwned'
    OBVIOUS
  <2>1. CASE UNCHANGED <<connections, closing, errConn, stream>>
    BY <2>1 DEF ErrorsAreOwned
  <2>2. CASE \E c \in Conn : Arrives(c)
    BY <2>2 DEF ErrorsAreOwned, Arrives
  <2>3. CASE \E c \in Conn, ok \in BOOLEAN : Leaves(c, ok)
    <3>1. PICK c \in Conn, ok \in BOOLEAN : Leaves(c, ok)
      BY <2>3
    <3> QED
      BY <3>1 DEF ErrorsAreOwned, Leaves, CloseOrRetain, Retained
  <2>4. CASE \E bad \in SUBSET closing : Retried(bad)
    BY <2>4 DEF ErrorsAreOwned, Retried
  <2>5. CASE Cleared
    BY <2>5 DEF ErrorsAreOwned, Cleared
  <2> QED
    BY <2>1, <2>2, <2>3, <2>4, <2>5, TablesMove DEF TableStep
<1> QED
  BY <1>1, <1>2, Invariance, PTL DEF Spec

(* on_finalized frees the application instance: by then listener, wakeup   *)
(* channel and every accepted stream are closed, and no later step opens   *)
(* one (server.py, _update_finished), although the tasks of the invocation *)
(* may still run and a retry may still be in progress.                     *)
THEOREM ReleasedMeansClosedHolds == Spec => []ReleasedMeansClosed
<1>1. Init => ReleasedMeansClosed
  BY DEF Init, ReleasedMeansClosed
<1>2. /\ IInv /\ Flags /\ Requested /\ ReleasedMeansClosed /\ [Next]_vars
      => ReleasedMeansClosed'
  <2> SUFFICES ASSUME IInv, Flags, ReleasedMeansClosed, [Next]_vars, released'
               PROVE  /\ listenerClosed' /\ (HasWakeup => wakeupClosed')
                      /\ \A c \in Conn : stream'[c] # "open"
    BY DEF ReleasedMeansClosed
  <2>1. Latches /\ TableStep
    BY LatchesHold, TablesMove
  <2>2. /\ listenerClosed /\ (HasWakeup => wakeupClosed)
        /\ \A c \in Conn : stream[c] # "open"
    <3>1. CASE released
      BY <3>1 DEF ReleasedMeansClosed
    <3>2. CASE AllReleased
      BY <3>2 DEF AllReleased, IInv, Tables, Streams, NoStreamLeak
    <3> QED
      BY <2>1, <3>1, <3>2 DEF Latches
  <2>3. \A c \in Conn : stream'[c] # "open"
    <3>1. stream \in [Conn -> {"none", "open", "closed"}]
      BY DEF IInv, Tables, StreamTypes
    <3>2. ~ \E c \in Conn : Arrives(c)
      BY <2>2 DEF Arrives
    <3>3. CASE \E c \in Conn, ok \in BOOLEAN : Leaves(c, ok)
      BY <2>2, <3>1, <3>3 DEF Leaves, CloseOrRetain
    <3>4. CASE \E bad \in SUBSET closing : Retried(bad)
      BY <2>2, <3>1, <3>4 DEF Retried
    <3>5. CASE stream' = stream
      BY <2>2, <3>5
    <3> QED
      BY <2>1, <3>2, <3>3, <3>4, <3>5 DEF TableStep, Cleared
  <2> QED
    BY <2>1, <2>2, <2>3 DEF Latches
<1> QED
  BY <1>1, <1>2, FlagsInvariance, PTL DEF Spec

(* Once a finalization attempt began no stream becomes a connection: the   *)
(* listener that comes back from accept() finds the request (app.py,       *)
(* _accept_loop), whoever began the attempt.                               *)
THEOREM NoRegistrationAfterFinalizationHolds == Spec => NoRegistrationAfterFinalization
<1>1. IInv /\ Flags /\ Requested /\ [Next]_vars
         => [finAttempted => connections' \subseteq connections]_vars
  <2> SUFFICES ASSUME IInv, Requested, [Next]_vars, finAttempted
               PROVE  connections' \subseteq connections
    OBVIOUS
  <2>1. closeRequested
    BY DEF Requested
  <2> QED
    BY <2>1, TablesMove DEF TableStep, Arrives, Leaves, Retried, Cleared
<1> QED
  BY <1>1, FlagsInvariance, PTL DEF Spec, NoRegistrationAfterFinalization
=============================================================================
