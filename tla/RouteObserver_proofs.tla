------------------------ MODULE RouteObserver_proofs ------------------------
(***************************************************************************)
(* The safety properties of RouteObserver for every queue limit and every  *)
(* number of events.  The inductive invariant is the conjunction of the    *)
(* checked ones with two facts they lean on: a stopped channel is empty,   *)
(* and no event in the channel is newer than the last one offered.         *)
(***************************************************************************)
EXTENDS RouteObserver, SequenceTheorems, TLAPS

StoppedIsEmpty == ~accepting => events = <<>>
NoneFromTheFuture == \A e \in accepted : e <= offered

All == delivered \o events
Ordered(q) == \A i \in DOMAIN q : /\ q[i] \in accepted
                                  /\ \A j \in DOMAIN q : i < j => q[i] < q[j]

Counts == TypeOK /\ Conservation /\ Bounded /\ StoppedIsEmpty

(* The counters and the queue limit, step by step (server.py:186-229).     *)
LEMMA CountsInit == Init => Counts
<1> SUFFICES ASSUME Init PROVE Counts
  OBVIOUS
<1> USE ObserverAssumption DEF ObserverAssumption, Init
<1>1. TypeOK
  <2>1. events \in Seq(1..MaxOffers) /\ delivered \in Seq(1..MaxOffers)
    OBVIOUS
  <2>2. dropped \in Nat /\ failures \in Nat /\ offered \in 0..MaxOffers
    OBVIOUS
  <2>3. accepting \in BOOLEAN /\ signal \in BOOLEAN
    OBVIOUS
  <2>4. task \in {"ready", "waiting", "done"} /\ accepted \subseteq 1..MaxOffers
    OBVIOUS
  <2> QED
  BY <2>1, <2>2, <2>3, <2>4 DEF TypeOK
<1>2. Conservation
  BY DEF Conservation
<1>3. Bounded
  BY DEF Bounded
<1>4. StoppedIsEmpty
  BY DEF StoppedIsEmpty
<1> QED
  BY <1>1, <1>2, <1>3, <1>4 DEF Counts

LEMMA CountsNext == Counts /\ [Next]_vars => Counts'
<1> SUFFICES ASSUME Counts, [Next]_vars PROVE Counts'
  OBVIOUS
<1> USE ObserverAssumption
    DEF ObserverAssumption, Counts, TypeOK, Conservation, Bounded, StoppedIsEmpty
<1>1. CASE EnqueueFull
  BY <1>1 DEF EnqueueFull, Offer, Full
<1>2. CASE Enqueue
  <2>1. /\ events' \in Seq(1..MaxOffers) /\ Len(events') = Len(events) + 1
        /\ offered' = offered + 1 /\ offered' \in 0..MaxOffers
    BY <1>2 DEF Enqueue, Offer
  <2>2. accepted' \subseteq 1..MaxOffers
    <3>1. offered + 1 \in 1..MaxOffers
      BY <2>1
    <3>2. accepted' = accepted \union {offered + 1} /\ accepted \subseteq 1..MaxOffers
      BY <1>2 DEF Enqueue
    <3> HIDE DEF Counts, TypeOK, Conservation, Bounded, StoppedIsEmpty
    <3> QED
      BY <3>1, <3>2
  <2>3. UNCHANGED <<accepting, dropped, failures, task, delivered>>
    BY <1>2 DEF Enqueue
  <2>4. signal' \in BOOLEAN
    BY <1>2 DEF Enqueue
  <2>5. Len(events) < MaxEvents /\ accepting
    BY <1>2 DEF Enqueue, Full
  <2>6. TypeOK'
    BY <2>1, <2>2, <2>3, <2>4
  <2> QED
    BY <2>1, <2>3, <2>5, <2>6
<1>3. CASE EnqueueUnsignalled
  <2>1. events' = events
    <3>1. Append(events, offered + 1) \in Seq(Int)
      BY <1>3
    <3>2. events' = SubSeq(Append(events, offered + 1), 1, Len(events))
      BY <1>3 DEF EnqueueUnsignalled, WithoutNewest
    <3> QED
      BY <3>1, <3>2
  <2> QED
    BY <1>3, <2>1 DEF EnqueueUnsignalled, Offer, Full
<1>4. CASE Stop
  <2>1. dropped' = dropped + Len(events) /\ events' = <<>> /\ accepting' = FALSE
    BY <1>4 DEF Stop
  <2>2. signal' \in BOOLEAN
    BY <1>4 DEF Stop
  <2>3. UNCHANGED <<failures, task, offered, accepted, delivered>>
    BY <1>4 DEF Stop
  <2>4. TypeOK'
    <3>1. events' \in Seq(1..MaxOffers) /\ dropped' \in Nat
      BY <2>1
    <3>2. accepting' \in BOOLEAN
      BY <2>1
    <3> QED
      BY <3>1, <3>2, <2>2, <2>3
  <2> QED
    BY <2>1, <2>3, <2>4
<1>5. CASE ObserverRuns
  <2>1. CASE accepting
    <3>1. events' = <<>> /\ delivered' = delivered \o events
      BY <1>5, <2>1 DEF ObserverRuns
    <3>2. failures' \in Nat
      BY <1>5, <2>1 DEF ObserverRuns
    <3> QED
      BY <1>5, <2>1, <3>1, <3>2 DEF ObserverRuns
  <2>2. CASE ~accepting
    BY <1>5, <2>2 DEF ObserverRuns
  <2> QED
    BY <2>1, <2>2
<1>6. CASE ObserverCancelled
  BY <1>6 DEF ObserverCancelled
<1>7. CASE UNCHANGED vars
  BY <1>7 DEF vars
<1> QED
  BY <1>1, <1>2, <1>3, <1>4, <1>5, <1>6, <1>7 DEF Next

(* The state keeps its types.                                              *)
THEOREM TypeOKHolds == Spec => []TypeOK
<1>1. Counts => TypeOK
  BY DEF Counts
<1> QED
  BY <1>1, CountsInit, CountsNext, PTL DEF Spec

(* dropped_route_error_events counts every event that is neither delivered *)
(* nor queued, on every path of enqueue and stop (server.py:186-213).      *)
THEOREM ConservationHolds == Spec => []Conservation
<1>1. Counts => Conservation
  BY DEF Counts
<1> QED
  BY <1>1, CountsInit, CountsNext, PTL DEF Spec

(* The queue never exceeds max_route_error_events (server.py:187).         *)
THEOREM BoundedHolds == Spec => []Bounded
<1>1. Counts => Bounded
  BY DEF Counts
<1> QED
  BY <1>1, CountsInit, CountsNext, PTL DEF Spec

(* A stopped channel calls nobody: stop() emptied the queue, and enqueue() *)
(* refuses from then on (server.py:187, 204-229).                          *)
THEOREM SilentAfterStopHolds == Spec => SilentAfterStop
<1>1. Counts /\ [Next]_vars =>
        [~accepting => delivered' = delivered /\ events' = <<>>]_vars
  <2> SUFFICES ASSUME Counts, Next, ~accepting
               PROVE delivered' = delivered /\ events' = <<>>
    BY DEF vars
  <2>1. events = <<>>
    BY DEF Counts, StoppedIsEmpty
  <2> QED
    BY <2>1 DEF Next, EnqueueFull, Enqueue, EnqueueUnsignalled, Full, Stop,
                ObserverRuns, ObserverCancelled
<1> QED
  BY <1>1, CountsInit, CountsNext, PTL DEF Spec, SilentAfterStop

-----------------------------------------------------------------------------
(* The order.  Queue and deliveries together form one sequence; a step     *)
(* appends the newest event to it, keeps it, or cuts the queue off.        *)
Sorted == Ordered(All) /\ NoneFromTheFuture

LEMMA AllIsASeq ==
  ASSUME TypeOK
  PROVE /\ All \in Seq(1..MaxOffers)
        /\ Len(All) = Len(delivered) + Len(events)
        /\ \A i \in 1..Len(delivered) : All[i] = delivered[i]
  BY DEF TypeOK, All

LEMMA AllSteps ==
  ASSUME Counts, [Next]_vars
  PROVE \/ All' = Append(All, offered + 1) /\ offered' = offered + 1
             /\ accepted' = accepted \union {offered + 1}
        \/ All' = All /\ offered' >= offered /\ accepted' = accepted
        \/ All' = delivered /\ UNCHANGED <<offered, accepted>>
<1> USE ObserverAssumption DEF ObserverAssumption, Counts, TypeOK
<1>1. CASE Enqueue
  <2>1. All' = delivered \o Append(events, offered + 1)
    BY <1>1 DEF Enqueue, All
  <2>2. All' = Append(All, offered + 1)
    <3>1. /\ delivered \in Seq(Int) /\ events \in Seq(Int) /\ <<offered + 1>> \in Seq(Int)
          /\ Append(events, offered + 1) = events \o <<offered + 1>>
          /\ Append(All, offered + 1) = All \o <<offered + 1>>
      BY DEF All
    <3>2. (delivered \o events) \o <<offered + 1>>
            = delivered \o (events \o <<offered + 1>>)
      BY <3>1, ConcatAssociative
    <3> QED
      BY <2>1, <3>1, <3>2 DEF All
  <2> QED
    BY <1>1, <2>2 DEF Enqueue, Offer
<1>2. CASE EnqueueUnsignalled
  <2>1. events' = events
    <3>1. Append(events, offered + 1) \in Seq(Int)
      OBVIOUS
    <3>2. events' = SubSeq(Append(events, offered + 1), 1, Len(events))
      BY <1>2 DEF EnqueueUnsignalled, WithoutNewest
    <3> QED
      BY <3>1, <3>2
  <2>2. All' = All
    BY <1>2, <2>1 DEF EnqueueUnsignalled, All
  <2>3. offered' >= offered /\ accepted' = accepted
    BY <1>2 DEF EnqueueUnsignalled, Offer
  <2> QED
    BY <2>2, <2>3
<1>3. CASE Stop
  BY <1>3, ConcatEmptySeq DEF Stop, All
<1>4. CASE ObserverRuns /\ accepting
  <2>1. events' = <<>> /\ delivered' = delivered \o events
    BY <1>4 DEF ObserverRuns
  <2>2. All' = All
    BY <2>1, ConcatEmptySeq DEF All
  <2> QED
    BY <1>4, <2>2 DEF ObserverRuns
<1>5. CASE EnqueueFull \/ (ObserverRuns /\ ~accepting) \/ ObserverCancelled
             \/ UNCHANGED vars
  <2>1. delivered' = delivered /\ events' = events
    BY <1>5 DEF EnqueueFull, ObserverRuns, ObserverCancelled, vars
  <2>2. offered' >= offered /\ accepted' = accepted
    BY <1>5 DEF EnqueueFull, Offer, ObserverRuns, ObserverCancelled, vars
  <2>3. All' = All
    BY <2>1 DEF All
  <2> QED
    BY <2>2, <2>3
<1> QED
  BY <1>1, <1>2, <1>3, <1>4, <1>5 DEF Next

LEMMA SortedInit == Init => Sorted
  BY DEF Init, Sorted, Ordered, NoneFromTheFuture, All

LEMMA SortedNext == Counts /\ Sorted /\ [Next]_vars => Sorted'
<1> SUFFICES ASSUME Counts, Sorted, [Next]_vars PROVE Sorted'
  OBVIOUS
<1> USE ObserverAssumption DEF ObserverAssumption
<1>1. TypeOK
  BY DEF Counts
<1>2. All \in Seq(1..MaxOffers) /\ DOMAIN All = 1..Len(All) /\ Len(All) \in Nat
  BY <1>1, AllIsASeq
<1>3. offered \in Nat /\ accepted \subseteq Nat
  BY <1>1 DEF TypeOK
<1>4. CASE /\ All' = Append(All, offered + 1) /\ offered' = offered + 1
           /\ accepted' = accepted \union {offered + 1}
  <2>1. \A i \in 1..Len(All) : All[i] \in accepted /\ All[i] < offered + 1
    BY <1>2, <1>3 DEF Sorted, Ordered, NoneFromTheFuture
  <2>2. /\ DOMAIN All' = 1..(Len(All) + 1)
        /\ All'[Len(All) + 1] = offered + 1
        /\ \A i \in 1..Len(All) : All'[i] = All[i]
    BY <1>2, <1>3, <1>4
  <2>3. \A i, j \in 1..Len(All) : i < j => All[i] < All[j]
    BY <1>2 DEF Sorted, Ordered
  <2>4. \A i \in DOMAIN All' : All'[i] \in accepted'
    BY <1>2, <1>4, <2>1, <2>2
  <2>5. \A i, j \in DOMAIN All' : i < j => All'[i] < All'[j]
    BY <1>2, <1>3, <2>1, <2>2, <2>3
  <2>6. NoneFromTheFuture'
    BY <1>3, <1>4 DEF Sorted, NoneFromTheFuture
  <2> QED
    BY <2>4, <2>5, <2>6 DEF Sorted, Ordered
<1>5. CASE All' = All /\ offered' >= offered /\ accepted' = accepted
  <2>1. offered' \in Nat
    BY CountsNext DEF Counts, TypeOK
  <2> QED
    BY <1>3, <1>5, <2>1 DEF Sorted, Ordered, NoneFromTheFuture
<1>6. CASE All' = delivered /\ UNCHANGED <<offered, accepted>>
  <2>1. /\ Len(delivered) \in Nat /\ Len(delivered) <= Len(All)
        /\ DOMAIN delivered = 1..Len(delivered)
        /\ \A i \in 1..Len(delivered) : delivered[i] = All[i]
    BY <1>1, AllIsASeq DEF TypeOK
  <2>2. \A i \in DOMAIN delivered : i \in DOMAIN All /\ delivered[i] = All[i]
    BY <1>2, <2>1
  <2> HIDE DEF All
  <2> QED
    BY <1>6, <2>2 DEF Sorted, Ordered, NoneFromTheFuture
<1> QED
  BY <1>4, <1>5, <1>6, AllSteps

(* The callback sees accepted events only, each once and in the order they *)
(* were offered, and the error path of enqueue() removes its own event     *)
(* (server.py:190-201, 220-225).                                           *)
THEOREM InOrderHolds == Spec => []InOrder
<1>1. Sorted => InOrder
  BY DEF Sorted, Ordered, InOrder, All
<1> QED
  BY <1>1, CountsInit, CountsNext, SortedInit, SortedNext, PTL DEF Spec
=============================================================================
