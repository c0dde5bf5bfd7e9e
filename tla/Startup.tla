------------------------------ MODULE Startup ------------------------------
(***************************************************************************)
(* SmallServer.listen and serve (app.py) up to the running handle, with    *)
(* the rollback of a failed start, the cleanup transactions it leaves      *)
(* behind (errors.py) and the threads that retry them, on one application  *)
(* that several threads try to start.                                      *)
(*                                                                         *)
(* Each call of listen acquires, in order, the invocation, the listener,   *)
(* the wakeup channel, the handle and the tasks.  Every acquisition and    *)
(* every close may fail, at most MaxFaults times in a behaviour.  A        *)
(* finalization cancels the close watcher, whose "finally" is a            *)
(* finalization inside it: a step of its own, because it may free the      *)
(* instance before the outer one fails to cancel another task.             *)
(***************************************************************************)
EXTENDS Integers, FiniteSets

CONSTANTS Call,      \* calls of listen() or serve()
          NoCall,
          Retrier,   \* threads that call retry_cleanup() on an error
          HasWakeup, \* does the kernel offer a wakeup channel?
          MaxFaults  \* bound on failing kernel and runtime calls

ASSUME StartupAssumption ==
    NoCall \notin Call /\ HasWakeup \in BOOLEAN /\ MaxFaults \in Nat

(* What the kernel holds open; and the cancellations that failed and that  *)
(* the handle owes (_pending_task_cancellations).                          *)
Kernel == {"listener", "wakeup"}
Res == Kernel \union {"tasks"}

VARIABLES
    active,   \* _active_invocation: free, or a call's marker or handle
    pc,       \* where each call is
    res,      \* res[k][x]: resource x of call k is "none", "open" or "closed"
    txn,      \* the actions of the error's _CleanupTransaction
    watching, \* the close watcher of call k has not run its "finally" yet
    callback, \* the error still holds on_cleanup_complete
    rpc, rof, \* where each retrier is, and in whose error
    faults

vars == <<active, pc, res, txn, watching, callback, rpc, rof, faults>>
retrierVars == <<rpc, rof>>

Free == [kind |-> "free", call |-> NoCall]
Marker(k) == [kind |-> "marker", call |-> k]
Handle(k) == [kind |-> "handle", call |-> k]

Opened(k) == {x \in Res : res[k][x] = "open"}

Init ==
    /\ active = Free
    /\ pc = [k \in Call |-> "idle"]
    /\ res = [k \in Call |-> [x \in Res |-> "none"]]
    /\ txn = [k \in Call |-> {}]
    /\ watching = [k \in Call |-> FALSE]
    /\ callback = [k \in Call |-> FALSE]
    /\ rpc = [r \in Retrier |-> "idle"]
    /\ rof = [r \in Retrier |-> NoCall]
    /\ faults = 0

-----------------------------------------------------------------------------
Fail(n) == faults + n <= MaxFaults /\ faults' = faults + n

Step(k, from, to) == pc[k] = from /\ pc' = [pc EXCEPT ![k] = to]

(* _release_invocation(expected): only the expected owner is taken out.    *)
NeverReleased(expected) == active            \* mutant: the owner stays
Released(expected) == IF active = expected THEN Free ELSE active

(* An attempt to close everything open, and to cancel every task: the ones *)
(* in bad fail.                                                            *)
Closed(rk, bad) ==
    [x \in Res |-> CASE x \in bad -> "open"
                     [] x \notin bad /\ rk[x] = "open" -> "closed"
                     [] OTHER -> rk[x]]

(* _reserve_invocation: the instance is free, or listen raises.            *)
ReserveAnyway(k) == TRUE                     \* mutant: the marker is overwritten
MayReserve(k) == active = Free

Reserve(k) ==
    /\ \/ Step(k, "idle", "open") /\ MayReserve(k) /\ active' = Marker(k)
       \/ Step(k, "idle", "raised") /\ ~MayReserve(k) /\ UNCHANGED active
    /\ UNCHANGED <<res, txn, watching, callback, retrierVars, faults>>

(* The start failed and its rollback ran: rk are the resources before it.  *)
(* With nothing left the marker goes and listen raises the primary error;  *)
(* otherwise it raises a ServerStartupError that owns what is left.  n are *)
(* the failures that brought us here.                                      *)
RollBack(k, rk, n) ==
    \E bad \in SUBSET {x \in Res : rk[x] = "open"} :
        /\ Fail(n + Cardinality(bad))
        /\ res' = [res EXCEPT ![k] = Closed(rk, bad)]
        /\ txn' = [txn EXCEPT ![k] = bad]
        /\ callback' = [callback EXCEPT ![k] = bad # {}]
        /\ active' = IF bad = {} THEN Released(Marker(k)) ELSE active
        /\ pc' = [pc EXCEPT ![k] = IF bad = {} THEN "raised" ELSE "failed"]

(* open_listener: nothing was opened, or the socket was and its setup      *)
(* failed.                                                                 *)
OpenListener(k) ==
    /\ pc[k] = "open"
    /\ \/ /\ Step(k, "open", "wake")
          /\ res' = [res EXCEPT ![k]["listener"] = "open"]
          /\ UNCHANGED <<active, txn, callback, faults>>
       \/ \E s \in {"none", "open"} : RollBack(k, [res[k] EXCEPT !["listener"] = s], 1)
    /\ UNCHANGED <<watching, retrierVars>>

(* create_wakeup_channel: unsupported, or created and valid; or it failed, *)
(* before or after the kernel made a channel.                              *)
CreateWakeup(k) ==
    /\ pc[k] = "wake"
    /\ \/ /\ Step(k, "wake", "handle")
          /\ res' = IF HasWakeup THEN [res EXCEPT ![k]["wakeup"] = "open"] ELSE res
          /\ UNCHANGED <<active, txn, callback, faults>>
       \/ \E s \in {"none", "open"} :
            HasWakeup /\ RollBack(k, [res[k] EXCEPT !["wakeup"] = s], 1)
    /\ UNCHANGED <<watching, retrierVars>>

(* The handle is built and replaces the marker; building it may raise.     *)
BuildHandle(k) ==
    /\ pc[k] = "handle"
    /\ \/ /\ Step(k, "handle", "fork")
          /\ active = Marker(k) /\ active' = Handle(k)
          /\ UNCHANGED <<res, txn, callback, faults>>
       \/ RollBack(k, res[k], 1)
    /\ UNCHANGED <<watching, retrierVars>>

-----------------------------------------------------------------------------
(* One _finish_close of k's handle: close what the kernel has open, cancel *)
(* the tasks, bad fails.  When nothing is left _update_finished runs the   *)
(* handle's on_finalized, which releases the instance.                     *)
FinishedWhenTried(k, bad) == TRUE            \* mutant: released by the attempt
FinishedWhenClosed(k, bad) == bad = {}

Finish(k, rk, bad) ==
    /\ bad \subseteq {"tasks"} \union {x \in Kernel : rk[x] = "open"}
    /\ res' = [res EXCEPT ![k] = Closed(rk, bad)]
    /\ active' = IF FinishedWhenClosed(k, bad) THEN Released(Handle(k)) ELSE active

(* Tasks are made and forked, or that fails and _abort_startup finishes    *)
(* the handle; an incomplete abort is owned by the error.                  *)
ForkTasks(k) ==
    /\ pc[k] = "fork"
    /\ \/ /\ Step(k, "fork", "serving")
          /\ watching' = [watching EXCEPT ![k] = HasWakeup]
          /\ UNCHANGED <<active, res, txn, faults>>
       \/ \E bad \in SUBSET Res :
            /\ Fail(1 + Cardinality(bad))
            /\ Finish(k, res[k], bad)
            /\ txn' = [txn EXCEPT ![k] = IF bad = {} THEN {} ELSE {"server"}]
            /\ pc' = [pc EXCEPT ![k] = IF bad = {} THEN "raised" ELSE "failed"]
            /\ UNCHANGED watching
    /\ UNCHANGED <<callback, retrierVars>>

(* The running server is finalized: by one of its tasks, by its caller,    *)
(* who holds the handle and may call again, or by a blocking listen(),     *)
(* which hands an unfinished handle to a ServerFinalizationError or        *)
(* ServerStartupError.                                                     *)
FinalizeServer(k) ==
    /\ pc[k] = "serving"
    /\ \E bad \in SUBSET Res :
         /\ Fail(Cardinality(bad))
         /\ Finish(k, res[k], bad)
         /\ \/ bad = {} /\ Step(k, "serving", "done") /\ UNCHANGED txn
            \/ bad # {} /\ UNCHANGED <<pc, txn>>
            \/ /\ bad # {} /\ Step(k, "serving", "failed")
               /\ txn' = [txn EXCEPT ![k] = {"server"}]
    /\ UNCHANGED <<watching, callback, retrierVars>>

(* The close watcher's "finally": close() woke it, or a finalization is    *)
(* cancelling it.  What it frees stays free if the finalization around it  *)
(* then fails to cancel the tasks after it.                                *)
BeingFinalized(k) ==
    \/ pc[k] = "serving"
    \/ \E r \in Retrier : rpc[r] = "retrying" /\ rof[r] = k /\ "server" \in txn[k]

WatcherFinally(k) ==
    /\ watching[k] /\ watching' = [watching EXCEPT ![k] = FALSE]
    /\ BeingFinalized(k)
    /\ \E bad \in SUBSET Res : Fail(Cardinality(bad)) /\ Finish(k, res[k], bad)
    /\ UNCHANGED <<pc, txn, callback, retrierVars>>

-----------------------------------------------------------------------------
(* _ServerCleanupError.retry_cleanup on thread r.                          *)

RStep(r, from, to) == rpc[r] = from /\ rpc' = [rpc EXCEPT ![r] = to]

(* _CleanupTransaction.retry under its lock: an action that succeeds is    *)
(* dropped.  The action of a handle transaction finalizes the handle.      *)
FailedDropped(acts, bad) == {}               \* mutant: failed actions are dropped
StillOwed(acts, bad) ==
    IF "server" \in acts THEN (IF bad = {} THEN {} ELSE acts) ELSE acts \cap bad

(* The lock is held by one thread for all of its retry.                    *)
BeginRetry(r, k) ==
    /\ RStep(r, "idle", "retrying")
    /\ pc[k] = "failed"
    /\ \A q \in Retrier : rpc[q] = "retrying" => rof[q] # k
    /\ rof' = [rof EXCEPT ![r] = k]
    /\ UNCHANGED <<active, pc, res, txn, watching, callback, faults>>

RetryActions(r, k) ==
    /\ RStep(r, "retrying", "retried") /\ rof[r] = k
    /\ \E bad \in SUBSET Res :
         /\ Fail(Cardinality(bad))
         /\ IF "server" \in txn[k]
            THEN Finish(k, res[k], bad)
            ELSE /\ bad \subseteq txn[k]
                 /\ res' = [res EXCEPT ![k] =
                       [x \in Res |-> IF x \in txn[k] \ bad THEN "closed" ELSE @[x]]]
                 /\ UNCHANGED active
         /\ txn' = [txn EXCEPT ![k] = StillOwed(txn[k], bad)]
    /\ UNCHANGED <<pc, watching, callback, rof>>

(* complete is read in a second critical section.                          *)
ReadComplete(r) ==
    /\ RStep(r, "retried", IF txn[rof[r]] = {} THEN "notify" ELSE "idle")
    /\ UNCHANGED <<active, pc, res, txn, watching, callback, rof, faults>>

(* _notify_cleanup_complete: the first thread takes the callback under the *)
(* completion lock and runs it after the lock is free again.               *)
TakeCallback(r) ==
    /\ RStep(r, "notify", IF callback[rof[r]] THEN "run" ELSE "true")
    /\ callback' = [callback EXCEPT ![rof[r]] = FALSE]
    /\ UNCHANGED <<active, pc, res, txn, watching, rof, faults>>

CallbackLost(k) == active                    \* mutant: the callback releases nothing
CallbackReleases(k) == Released(Marker(k))

RunCallback(r) ==
    /\ RStep(r, "run", "true")
    /\ active' = CallbackReleases(rof[r])
    /\ UNCHANGED <<pc, res, txn, watching, callback, rof, faults>>

(* The thread goes on with the result True.                                *)
RetryReturns(r) ==
    /\ RStep(r, "true", "idle")
    /\ UNCHANGED <<active, pc, res, txn, watching, callback, rof, faults>>

Start(k) == OpenListener(k) \/ CreateWakeup(k) \/ BuildHandle(k) \/ ForkTasks(k)
GoOn(r) == ReadComplete(r) \/ TakeCallback(r) \/ RunCallback(r) \/ RetryReturns(r)

Next == \/ \E k \in Call : Reserve(k) \/ Start(k) \/ FinalizeServer(k) \/ WatcherFinally(k)
        \/ \E r \in Retrier : \/ GoOn(r)
                              \/ \E k \in Call : BeginRetry(r, k) \/ RetryActions(r, k)

Spec == Init /\ [][Next]_vars

(* A thread inside listen() or retry_cleanup() goes on; an error that owns *)
(* something is retried again and again, as guide/errors-observability.md  *)
(* asks (and its destructor does once); a server's owner finalizes it.     *)
Fairness ==
    /\ \A k \in Call : /\ WF_vars(Start(k)) /\ WF_vars(FinalizeServer(k))
                       /\ SF_vars(\E r \in Retrier : BeginRetry(r, k))
    /\ \A r \in Retrier : WF_vars(GoOn(r)) /\ WF_vars(\E k \in Call : RetryActions(r, k))

FairSpec == Spec /\ Fairness

-----------------------------------------------------------------------------
Pcs == {"idle", "open", "wake", "handle", "fork", "serving", "failed", "raised", "done"}
Actives == {Free} \union {Marker(k) : k \in Call} \union {Handle(k) : k \in Call}

Stages(kind) == IF kind = "marker" THEN {"open", "wake", "handle", "failed"}
                ELSE {"fork", "serving", "failed"}

(* The types of the state; the owner is a call in a stage of its kind.     *)
TypeOK ==
    /\ active \in Actives
    /\ active # Free => pc[active.call] \in Stages(active.kind)
    /\ pc \in [Call -> Pcs]
    /\ res \in [Call -> [Res -> {"none", "open", "closed"}]]
    /\ txn \in [Call -> SUBSET (Res \union {"server"})]
    /\ watching \in [Call -> BOOLEAN] /\ callback \in [Call -> BOOLEAN]
    /\ rpc \in [Retrier -> {"idle", "retrying", "retried", "notify", "run", "true"}]
    /\ rof \in [Retrier -> Call \union {NoCall}]
    /\ faults \in 0..MaxFaults

(* A call whose listener or wakeup channel is still open has the instance, *)
(* so no second invocation starts beside them (app.py:213-232), however    *)
(* the finalizations nested and failed.  (It need not have it while it     *)
(* still owes the cancellation of a task.)                                 *)
HeldWhileOwned == \A k \in Call : Opened(k) \intersect Kernel # {} => active.call = k

(* A call that ended by an error left nothing open that the error's        *)
(* transaction does not close (errors.py:22-72): nothing is orphaned by    *)
(* the third acquisition failing, or by one of two rollback closes; and a  *)
(* cancellation that failed is still owed after the instance went free.    *)
NothingOrphaned ==
    \A k \in Call : pc[k] \in {"raised", "failed", "done"} =>
        "server" \in txn[k] \/ Opened(k) \subseteq txn[k]

(* The instance has one owner of kernel resources at a time, over all      *)
(* calls, nested finalizations and errors (guide/runtime-lifecycle.md:7).  *)
Owner == INSTANCE ExclusiveOwner WITH
    holder <- active.call,
    open <- {e \in Call \X Kernel : res[e[1]][e[2]] = "open"},
    Resource <- Kernel
OwnerSpec == Owner!Spec

(* Retrying a failed start's cleanup frees the instance in the end: the    *)
(* marker is not lost between the transaction and its callback, whichever  *)
(* threads retry (errors.py:102-122).                                      *)
FailedStartIsReleased == \A k \in Call : pc[k] = "failed" ~> active.call # k

(* errors-observability: retry_cleanup() returned True, so the resources   *)
(* and the ownership of the instance are gone and a new listener may start.*)
TrueMeansReleased == \A r \in Retrier : rpc[r] = "true" => active.call # rof[r]
=============================================================================
