---------------------------- MODULE RouteObserver ----------------------------
(***************************************************************************)
(* RouteObserverChannel and run_route_observer (server.py): connection     *)
(* tasks report regex timeouts into a bounded queue, one observer task     *)
(* hands them to the application's callback, shutdown stops the channel.   *)
(*                                                                         *)
(* All of it runs on the scheduler thread, so an enqueue, a stop and one   *)
(* stretch of the observer between two waits are one action each.  Events  *)
(* are numbered in the order they are offered; at most MaxOffers are.      *)
(***************************************************************************)
EXTENDS Integers, Sequences, FiniteSets

CONSTANTS MaxEvents,  \* ServerConfig.max_route_error_events
          MaxOffers   \* bound on the events of a behaviour

ASSUME ObserverAssumption == MaxEvents \in Nat \ {0} /\ MaxOffers \in Nat

VARIABLES
    events,     \* the deque, oldest first
    accepting,
    dropped,    \* dropped_route_error_events
    failures,   \* route_observer_failures
    task,       \* the observer task: "ready", "waiting" or "done"
    signal,     \* signal 31 is set on the observer task
    offered,    \* history: events offered so far
    accepted,   \* history: those for which enqueue returned True
    delivered   \* history: what the callback was called with, in order

vars == <<events, accepting, dropped, failures, task, signal,
          offered, accepted, delivered>>

Queued == {events[i] : i \in DOMAIN events}

Init ==
    /\ events = <<>> /\ accepting = TRUE
    /\ dropped = 0 /\ failures = 0
    /\ task = "ready" /\ signal = FALSE
    /\ offered = 0 /\ accepted = {} /\ delivered = <<>>

-----------------------------------------------------------------------------
Offer == offered < MaxOffers /\ offered' = offered + 1

(* The limit, and the error path that takes the event out again.           *)
Full == ~accepting \/ Len(events) >= MaxEvents
KeptAnyway(q) == q                        \* mutant: nobody is signalled for it
WithoutNewest(q) == SubSeq(q, 1, Len(q) - 1)

(* enqueue returns False at the limit or after stop().                     *)
EnqueueFull ==
    /\ Offer /\ Full
    /\ dropped' = dropped + 1
    /\ UNCHANGED <<events, accepting, failures, task, signal, accepted, delivered>>

(* enqueue puts the event in the queue and signals the observer.           *)
Enqueue ==
    /\ Offer /\ ~Full
    /\ task # "done"
    /\ events' = Append(events, offered + 1)
    /\ signal' = TRUE
    /\ accepted' = accepted \union {offered + 1}
    /\ UNCHANGED <<accepting, dropped, failures, task, delivered>>

(* The observer task is gone, or the signal cannot be sent: the event is   *)
(* taken out again.                                                        *)
EnqueueUnsignalled ==
    /\ Offer /\ ~Full
    /\ events' = WithoutNewest(Append(events, offered + 1))
    /\ dropped' = dropped + 1
    /\ UNCHANGED <<accepting, failures, task, signal, accepted, delivered>>

(* stop(), run by every _finish_close: what is queued counts as dropped.   *)
(* The signal that lets the observer see it may fail.                      *)
Stop ==
    /\ accepting' = FALSE
    /\ dropped' = dropped + Len(events)
    /\ events' = <<>>
    /\ signal' \in {signal, task # "done"}
    /\ UNCHANGED <<failures, task, offered, accepted, delivered>>

(* The observer runs from its start, or from a signal, to its next wait:   *)
(* it drains the queue, counting the callbacks that raise, and parks, or   *)
(* ends once the channel was stopped.                                      *)
ObserverRuns ==
    /\ task = "ready" \/ (task = "waiting" /\ signal)
    /\ IF accepting
       THEN /\ delivered' = delivered \o events
            /\ events' = <<>>
            /\ \E n \in 0..Len(events) : failures' = failures + n
            /\ task' = "waiting"
       ELSE task' = "done" /\ UNCHANGED <<delivered, failures, events>>
    /\ signal' = (signal /\ task = "ready")
    /\ UNCHANGED <<accepting, dropped, offered, accepted>>

(* Owner-thread finalization cancels the task; it stopped the channel      *)
(* before.                                                                 *)
ObserverCancelled ==
    /\ ~accepting /\ task # "done"
    /\ task' = "done"
    /\ UNCHANGED <<events, accepting, dropped, failures, signal,
                   offered, accepted, delivered>>

Next == \/ EnqueueFull \/ Enqueue \/ EnqueueUnsignalled
        \/ Stop \/ ObserverRuns \/ ObserverCancelled

Spec == Init /\ [][Next]_vars

-----------------------------------------------------------------------------
(* The types of the state.                                                 *)
TypeOK ==
    /\ events \in Seq(1..MaxOffers) /\ delivered \in Seq(1..MaxOffers)
    /\ accepting \in BOOLEAN /\ signal \in BOOLEAN
    /\ dropped \in Nat /\ failures \in Nat
    /\ task \in {"ready", "waiting", "done"}
    /\ offered \in 0..MaxOffers /\ accepted \subseteq 1..MaxOffers

(* dropped_route_error_events tells the truth: every event offered was     *)
(* delivered, is queued or is counted as dropped, exactly one of them, on  *)
(* every path of enqueue() and stop() (server.py:186-213).                 *)
Conservation == offered = Len(delivered) + Len(events) + dropped

(* The queue keeps its bound (max_route_error_events).                     *)
Bounded == Len(events) <= MaxEvents

(* The callback sees accepted events only, in the order they were offered  *)
(* and each at most once: the error path removes its own event.            *)
InOrder ==
    LET all == delivered \o events
    IN  \A i \in DOMAIN all :
            /\ all[i] \in accepted
            /\ \A j \in DOMAIN all : i < j => all[i] < all[j]

(* No event waits in the queue for ever: whatever the interleaving of      *)
(* signals and drains, the observer comes round, or stop() drops it.       *)
AcceptedIsHandled == \A e \in 1..MaxOffers : e \in Queued ~> e \notin Queued

(* A channel that was stopped stays empty and silent: no callback runs     *)
(* after the shutdown began.                                               *)
SilentAfterStop == [][~accepting => delivered' = delivered /\ events' = <<>>]_vars
=============================================================================
