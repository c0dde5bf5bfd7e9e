--------------------------- MODULE Startup_proofs ---------------------------
(***************************************************************************)
(* The ownership of the application instance, for any calls of listen(),   *)
(* any threads that retry cleanups and any number of failures.             *)
(*                                                                         *)
(* The checked properties are not inductive: whether a close that succeeds *)
(* may free the instance depends on where the call is, on what its error   *)
(* still owes and on retriers between two critical sections.  Stages says  *)
(* so for the calls, Notified for the retriers.                            *)
(***************************************************************************)
EXTENDS Startup, FiniteSetTheorems, TLAPS

(* Where a retrier may be.                                                 *)
RetrierPcs == {"idle", "retrying", "retried", "notify", "run", "true"}

(* What call k owns in each stage, and who has the instance meanwhile.  A  *)
(* handle with nothing left but tasks to cancel may have given it away.    *)
StageOf(k) ==
    /\ pc[k] \in {"open", "wake", "handle"} => active = Marker(k)
    /\ pc[k] = "fork" => active = Handle(k)
    /\ pc[k] = "serving" => active = Handle(k) \/ Opened(k) \intersect Kernel = {}
    /\ pc[k] \in {"idle", "raised", "done"} => Opened(k) = {}
    /\ pc[k] = "failed" =>
         \/ /\ "server" \in txn[k]
            /\ active = Handle(k) \/ Opened(k) \intersect Kernel = {}
         \/ /\ Opened(k) = txn[k]
            /\ txn[k] # {} => active = Marker(k)
    /\ pc[k] = "open" => Opened(k) = {}

(* A retrier that is not idle works on a failed start; one that is about   *)
(* to run the callback, on one whose transaction is complete.              *)
Notified(r) ==
    /\ rpc[r] \in {"retrying", "retried", "notify", "run", "true"} =>
         rof[r] \in Call /\ pc[rof[r]] = "failed"
    /\ rpc[r] \in {"notify", "run"} => txn[rof[r]] = {}

Typed ==
    /\ active \in Actives
    /\ pc \in [Call -> Pcs]
    /\ res \in [Call -> [Res -> {"none", "open", "closed"}]]
    /\ txn \in [Call -> SUBSET (Res \union {"server"})]
    /\ watching \in [Call -> BOOLEAN] /\ callback \in [Call -> BOOLEAN]
    /\ rpc \in [Retrier -> RetrierPcs]
    /\ rof \in [Retrier -> Call \union {NoCall}]
    /\ faults \in 0..MaxFaults

IInv ==
    /\ Typed
    /\ active # Free => pc[active.call] \in Stages(active.kind)
    /\ \A k \in Call : StageOf(k)
    /\ \A r \in Retrier : Notified(r)

LEMMA InitInv == Init => IInv
  BY StartupAssumption
     DEF StartupAssumption, Init, IInv, Typed, StageOf, Notified, Opened, Res,
         Kernel, Actives, Pcs, RetrierPcs, Free

LEMMA SubsetsCount ==
  ASSUME NEW bad, bad \subseteq Res
  PROVE Cardinality(bad) \in Nat
<1>1. /\ IsFiniteSet({"listener"}) /\ IsFiniteSet({"wakeup"}) /\ IsFiniteSet({"tasks"})
  BY FS_Singleton
<1>2. IsFiniteSet({"listener"} \union {"wakeup"})
  BY <1>1, FS_Union
<1>3. IsFiniteSet(({"listener"} \union {"wakeup"}) \union {"tasks"})
  BY <1>1, <1>2, FS_Union
<1>4. IsFiniteSet(Res)
  <2>1. Res = ({"listener"} \union {"wakeup"}) \union {"tasks"}
    BY DEF Res, Kernel
  <2> QED
    BY <1>3, <2>1
<1> QED
  BY <1>4, FS_Subset, FS_CardinalityType

LEMMA FaultsCount ==
  ASSUME Typed, NEW n \in Nat, Fail(n)
  PROVE faults' \in 0..MaxFaults
  BY StartupAssumption DEF StartupAssumption, Typed, Fail

(* An attempt leaves open exactly what fails.                              *)
LEMMA ClosedLeavesBad ==
  ASSUME NEW rk \in [Res -> {"none", "open", "closed"}],
         NEW bad, bad \subseteq Res
  PROVE /\ Closed(rk, bad) \in [Res -> {"none", "open", "closed"}]
        /\ {x \in Res : Closed(rk, bad)[x] = "open"} = bad
  BY DEF Closed

(* A step of call k, or for it, leaves the stages of the other calls: they *)
(* own nothing while k, or nobody, has the instance.                       *)
LEMMA OthersKeep ==
  ASSUME IInv, NEW k \in Call, NEW j \in Call, j # k,
         pc'[j] = pc[j], res'[j] = res[j], txn'[j] = txn[j],
         active' = active \/ active \in {Free, Marker(k), Handle(k)}
  PROVE StageOf(j)'
<1>1. StageOf(j)
  BY DEF IInv
<1>2. Opened(j)' = Opened(j)
  BY DEF Opened
<1>3. CASE active' = active
  BY <1>1, <1>2, <1>3 DEF StageOf, Marker, Handle
<1>4. CASE active \in {Free, Marker(k), Handle(k)}
  <2>1. active # Marker(j) /\ active # Handle(j)
    BY <1>4, StartupAssumption DEF StartupAssumption, Free, Marker, Handle
  <2> QED
    BY <1>1, <1>2, <2>1 DEF StageOf
<1> QED
  BY <1>3, <1>4

(* A failed start stays failed and what it repaid stays repaid, so every   *)
(* retrier stays where it may be.                                          *)
LEMMA RetriersKeep ==
  ASSUME IInv, rpc' = rpc, rof' = rof,
         \A j \in Call : pc[j] = "failed" =>
             pc'[j] = "failed" /\ (txn[j] = {} => txn'[j] = {})
  PROVE \A r \in Retrier : Notified(r)'
  BY DEF IInv, Notified

(* The instance's owner is in a stage of its kind.                         *)
LEMMA OwnerKeeps ==
  ASSUME IInv, NEW k \in Call,
         \A j \in Call : j # k => pc'[j] = pc[j],
         \/ active' = Free
         \/ active' = active /\ (active # Free => active.call # k)
         \/ active' = Marker(k) /\ pc'[k] \in Stages("marker")
         \/ active' = Handle(k) /\ pc'[k] \in Stages("handle")
  PROVE active' # Free => pc'[active'.call] \in Stages(active'.kind)
<1>1. active \in Actives
  BY DEF IInv, Typed
<1> QED
  BY <1>1 DEF IInv, Actives, Marker, Handle

-----------------------------------------------------------------------------
(* A roll-back frees the instance or leaves an error that owns exactly     *)
(* what is still open.                                                     *)
LEMMA RollBackKeeps ==
  ASSUME IInv, NEW k \in Call, pc[k] \in {"open", "wake", "handle"},
         NEW rk \in [Res -> {"none", "open", "closed"}],
         RollBack(k, rk, 1), UNCHANGED <<watching, retrierVars>>
  PROVE IInv'
<1> PICK bad \in SUBSET {x \in Res : rk[x] = "open"} :
        /\ Fail(1 + Cardinality(bad))
        /\ res' = [res EXCEPT ![k] = Closed(rk, bad)]
        /\ txn' = [txn EXCEPT ![k] = bad]
        /\ callback' = [callback EXCEPT ![k] = bad # {}]
        /\ active' = IF bad = {} THEN Released(Marker(k)) ELSE active
        /\ pc' = [pc EXCEPT ![k] = IF bad = {} THEN "raised" ELSE "failed"]
  BY DEF RollBack
<1>0. Typed /\ active = Marker(k)
  BY DEF IInv, StageOf
<1>1. /\ Closed(rk, bad) \in [Res -> {"none", "open", "closed"}]
      /\ {x \in Res : Closed(rk, bad)[x] = "open"} = bad
  BY ClosedLeavesBad
<1>2. faults' \in 0..MaxFaults
  BY <1>0, SubsetsCount, FaultsCount
<1>3. active' = IF bad = {} THEN Free ELSE Marker(k)
  BY <1>0 DEF Released
<1>4. Typed'
  BY <1>0, <1>1, <1>2, <1>3 DEF Typed, Actives, Pcs, retrierVars
<1>5. Opened(k)' = bad /\ txn'[k] = bad
  BY <1>0, <1>1 DEF Opened, Typed
<1>6. pc'[k] = IF bad = {} THEN "raised" ELSE "failed"
  BY <1>0 DEF Typed
<1>7. StageOf(k)'
  BY <1>3, <1>5, <1>6 DEF StageOf, Marker
<1>8. \A j \in Call : j # k => StageOf(j)'
  BY <1>0, OthersKeep DEF Typed
<1>9. \A r \in Retrier : Notified(r)'
  BY <1>0, RetriersKeep DEF Typed, retrierVars
<1>10. active' # Free => pc'[active'.call] \in Stages(active'.kind)
  BY <1>0, <1>3, <1>6, OwnerKeeps DEF Typed, Stages
<1> QED
  BY <1>4, <1>7, <1>8, <1>9, <1>10 DEF IInv

(* One _finish_close leaves open what failed; whoever has the instance, k  *)
(* has nothing of the kernel open unless its handle has it.                *)
LEMMA FinishLeavesBad ==
  ASSUME Typed, NEW k \in Call, active = Handle(k) \/ Opened(k) \intersect Kernel = {},
         NEW bad, Finish(k, res[k], bad)
  PROVE /\ bad \subseteq Res
        /\ res' \in [Call -> [Res -> {"none", "open", "closed"}]]
        /\ \A j \in Call : j # k => res'[j] = res[j]
        /\ Opened(k)' = bad
        /\ active' = IF bad = {} /\ active = Handle(k) THEN Free ELSE active
        /\ active' = Handle(k) \/ Opened(k)' \intersect Kernel = {}
<1>1. /\ bad \subseteq {"tasks"} \union (Opened(k) \intersect Kernel)
      /\ bad \subseteq Res
      /\ res' = [res EXCEPT ![k] = Closed(res[k], bad)]
      /\ active' = IF bad = {} THEN Released(Handle(k)) ELSE active
  BY DEF Finish, FinishedWhenClosed, Opened, Res
<1>2. /\ Closed(res[k], bad) \in [Res -> {"none", "open", "closed"}]
      /\ {x \in Res : Closed(res[k], bad)[x] = "open"} = bad
  <2>1. res[k] \in [Res -> {"none", "open", "closed"}]
    BY DEF Typed
  <2> QED
    BY <1>1, <2>1, ClosedLeavesBad
<1>3. Opened(k)' = bad
  BY <1>1, <1>2 DEF Opened, Typed
<1>4. active' = IF bad = {} /\ active = Handle(k) THEN Free ELSE active
  BY <1>1 DEF Released
<1>5. active' = Handle(k) \/ Opened(k)' \intersect Kernel = {}
  <2>1. CASE active = Handle(k)
    BY <1>3, <1>4, <2>1
  <2>2. CASE Opened(k) \intersect Kernel = {}
    BY <1>1, <1>3, <2>2 DEF Kernel
  <2> QED
    BY <2>1, <2>2
<1> QED
  BY <1>1, <1>2, <1>3, <1>4, <1>5 DEF Typed

(* A finalization of k, by its caller, its watcher, an aborted start or a  *)
(* retry: either nothing is left, or a handle or its error still owns the  *)
(* rest.                                                                   *)
LEMMA FinalizationKeeps ==
  ASSUME IInv, NEW k \in Call,
         active = Handle(k) \/ Opened(k) \intersect Kernel = {},
         NEW bad, Finish(k, res[k], bad), faults' \in 0..MaxFaults,
         watching' \in [Call -> BOOLEAN], callback' = callback,
         rpc' \in [Retrier -> RetrierPcs],
         rof' \in [Retrier -> Call \union {NoCall}],
         NEW stage, pc' = [pc EXCEPT ![k] = stage],
         pc[k] \in {"fork", "serving"} \/ (pc[k] = "failed" /\ stage = "failed"),
         NEW owed \in SUBSET (Res \union {"server"}), txn' = [txn EXCEPT ![k] = owed],
         \/ stage = "serving"
         \/ stage = "failed" /\ "server" \in owed
         \/ stage = "failed" /\ bad = {} /\ owed = {}
         \/ stage \in {"raised", "done"} /\ bad = {}
  PROVE /\ Typed'
        /\ \A j \in Call : StageOf(j)'
        /\ active' # Free => pc'[active'.call] \in Stages(active'.kind)
<1>0. Typed
  BY DEF IInv
<1>1. /\ bad \subseteq Res
      /\ res' \in [Call -> [Res -> {"none", "open", "closed"}]]
      /\ \A j \in Call : j # k => res'[j] = res[j]
      /\ Opened(k)' = bad
      /\ active' = IF bad = {} /\ active = Handle(k) THEN Free ELSE active
      /\ active' = Handle(k) \/ Opened(k)' \intersect Kernel = {}
  BY <1>0, FinishLeavesBad
<1>2. Typed'
  BY <1>0, <1>1 DEF Typed, Actives, Pcs
<1>3. pc'[k] = stage /\ txn'[k] = owed
  BY <1>0 DEF Typed
<1>4. StageOf(k)'
  BY <1>1, <1>3 DEF StageOf
<1>5. \A j \in Call : j # k => StageOf(j)'
  <2>1. active' = active \/ active = Handle(k)
    BY <1>1
  <2> QED
    BY <1>0, <1>1, <2>1, OthersKeep DEF Typed
<1>6. active' # Free => pc'[active'.call] \in Stages(active'.kind)
  <2>1. CASE active = Handle(k)
    BY <1>0, <1>1, <1>3, <2>1, OwnerKeeps DEF Typed, Stages
  <2>2. CASE active = Marker(k)
    <3>1. pc[k] = "failed"
      BY <2>2 DEF IInv, Marker, Free, Stages
    <3>2. active' = Marker(k) /\ pc'[k] \in Stages("marker")
      BY <1>1, <1>3, <2>2, <3>1 DEF Marker, Handle, Stages
    <3> QED
      BY <1>0, <3>2, OwnerKeeps DEF Typed
  <2>3. CASE active # Handle(k) /\ active # Marker(k)
    <3>1. active' = active /\ (active # Free => active.call # k)
      BY <1>0, <1>1, <2>3 DEF Typed, Actives, Marker, Handle
    <3> QED
      BY <1>0, <3>1, OwnerKeeps DEF Typed
  <2> QED
    BY <2>1, <2>2, <2>3
<1> QED
  BY <1>2, <1>4, <1>5, <1>6

-----------------------------------------------------------------------------
(* Every step of a call of listen() keeps the invariant.                   *)
LEMMA CallKeeps ==
  ASSUME IInv, NEW k \in Call, Reserve(k) \/ Start(k) \/ FinalizeServer(k)
  PROVE IInv'
<1>0. Typed /\ StageOf(k)
  BY DEF IInv
<1>1. CASE Reserve(k)
  <2>1. CASE Step(k, "idle", "open") /\ MayReserve(k) /\ active' = Marker(k)
    <3>1. /\ pc' = [pc EXCEPT ![k] = "open"] /\ active = Free
          /\ pc[k] = "idle" /\ active' = Marker(k)
          /\ UNCHANGED <<res, txn, watching, callback, rpc, rof, faults>>
      BY <1>1, <2>1 DEF Reserve, Step, MayReserve, retrierVars
    <3>2. Typed'
      BY <1>0, <3>1 DEF Typed, Actives, Pcs
    <3>3. StageOf(k)'
      BY <1>0, <3>1 DEF Typed, StageOf, Opened
    <3>4. \A j \in Call : j # k => StageOf(j)'
      BY <1>0, <3>1, OthersKeep DEF Typed
    <3>5. \A r \in Retrier : Notified(r)'
      BY <1>0, <3>1, RetriersKeep DEF Typed
    <3>6. active' # Free => pc'[active'.call] \in Stages(active'.kind)
      BY <1>0, <3>1, OwnerKeeps DEF Typed, Stages
    <3> QED
      BY <3>2, <3>3, <3>4, <3>5, <3>6 DEF IInv
  <2>2. CASE Step(k, "idle", "raised") /\ UNCHANGED active /\ active # Free
    <3>1. /\ pc' = [pc EXCEPT ![k] = "raised"] /\ pc[k] = "idle"
          /\ UNCHANGED <<active, res, txn, watching, callback, rpc, rof, faults>>
      BY <1>1, <2>2 DEF Reserve, Step, retrierVars
    <3>2. Typed'
      BY <1>0, <3>1 DEF Typed, Actives, Pcs
    <3>3. StageOf(k)'
      BY <1>0, <3>1 DEF Typed, StageOf, Opened
    <3>4. \A j \in Call : j # k => StageOf(j)'
      BY <1>0, <3>1, OthersKeep DEF Typed
    <3>5. \A r \in Retrier : Notified(r)'
      BY <1>0, <3>1, RetriersKeep DEF Typed
    <3>6. active # Free => active.call # k
      BY <3>1 DEF IInv, Typed, Actives, Stages, Marker, Handle
    <3>7. active' # Free => pc'[active'.call] \in Stages(active'.kind)
      BY <1>0, <3>1, <3>6, OwnerKeeps DEF Typed
    <3> QED
      BY <3>2, <3>3, <3>4, <3>5, <3>7 DEF IInv
  <2> QED
    BY <1>1, <2>1, <2>2 DEF Reserve, MayReserve
<1>2. CASE OpenListener(k)
  <2>0. pc[k] = "open" /\ UNCHANGED <<watching, retrierVars>>
    BY <1>2 DEF OpenListener
  <2>1. CASE Step(k, "open", "wake")
             /\ res' = [res EXCEPT ![k]["listener"] = "open"]
             /\ UNCHANGED <<active, txn, callback, faults>>
    <3>1. /\ pc' = [pc EXCEPT ![k] = "wake"] /\ pc[k] = "open"
          /\ res' = [res EXCEPT ![k]["listener"] = "open"]
          /\ UNCHANGED <<active, txn, watching, callback, rpc, rof, faults>>
      BY <2>0, <2>1 DEF Step, retrierVars
    <3>2. Typed'
      BY <1>0, <3>1 DEF Typed, Actives, Pcs, Res, Kernel
    <3>3. StageOf(k)'
      BY <1>0, <3>1 DEF Typed, StageOf, Opened
    <3>4. \A j \in Call : j # k => StageOf(j)'
      BY <1>0, <3>1, OthersKeep DEF Typed
    <3>5. \A r \in Retrier : Notified(r)'
      BY <1>0, <3>1, RetriersKeep DEF Typed
    <3>6. active' # Free => pc'[active'.call] \in Stages(active'.kind)
      BY <1>0, <3>1, OwnerKeeps DEF Typed, StageOf, Stages
    <3> QED
      BY <3>2, <3>3, <3>4, <3>5, <3>6 DEF IInv
  <2>2. ASSUME NEW s \in {"none", "open"},
               RollBack(k, [res[k] EXCEPT !["listener"] = s], 1)
        PROVE IInv'
    <3>1. [res[k] EXCEPT !["listener"] = s] \in [Res -> {"none", "open", "closed"}]
      BY <1>0 DEF Typed
    <3> QED
      BY <2>0, <2>2, <3>1, RollBackKeeps
  <2> QED
    BY <1>2, <2>1, <2>2 DEF OpenListener
<1>3. CASE CreateWakeup(k)
  <2>0. pc[k] = "wake" /\ UNCHANGED <<watching, retrierVars>>
    BY <1>3 DEF CreateWakeup
  <2>1. CASE Step(k, "wake", "handle")
             /\ res' = (IF HasWakeup THEN [res EXCEPT ![k]["wakeup"] = "open"] ELSE res)
             /\ UNCHANGED <<active, txn, callback, faults>>
    <3>1. /\ pc' = [pc EXCEPT ![k] = "handle"] /\ pc[k] = "wake"
          /\ res' = IF HasWakeup THEN [res EXCEPT ![k]["wakeup"] = "open"] ELSE res
          /\ UNCHANGED <<active, txn, watching, callback, rpc, rof, faults>>
      BY <2>0, <2>1 DEF Step, retrierVars
    <3>2. Typed'
      BY <1>0, <3>1 DEF Typed, Actives, Pcs, Res, Kernel
    <3>3. StageOf(k)'
      BY <1>0, <3>1 DEF Typed, StageOf, Opened
    <3>4. \A j \in Call : j # k => StageOf(j)'
      BY <1>0, <3>1, OthersKeep DEF Typed
    <3>5. \A r \in Retrier : Notified(r)'
      BY <1>0, <3>1, RetriersKeep DEF Typed
    <3>6. active' # Free => pc'[active'.call] \in Stages(active'.kind)
      BY <1>0, <3>1, OwnerKeeps DEF Typed, StageOf, Stages
    <3> QED
      BY <3>2, <3>3, <3>4, <3>5, <3>6 DEF IInv
  <2>2. ASSUME NEW s \in {"none", "open"},
               RollBack(k, [res[k] EXCEPT !["wakeup"] = s], 1)
        PROVE IInv'
    <3>1. [res[k] EXCEPT !["wakeup"] = s] \in [Res -> {"none", "open", "closed"}]
      BY <1>0 DEF Typed
    <3> QED
      BY <2>0, <2>2, <3>1, RollBackKeeps
  <2> QED
    BY <1>3, <2>1, <2>2 DEF CreateWakeup
<1>4. CASE BuildHandle(k)
  <2>0. pc[k] = "handle" /\ UNCHANGED <<watching, retrierVars>>
    BY <1>4 DEF BuildHandle
  <2>1. CASE Step(k, "handle", "fork") /\ active' = Handle(k)
             /\ UNCHANGED <<res, txn, callback, faults>>
    <3>1. /\ pc' = [pc EXCEPT ![k] = "fork"] /\ pc[k] = "handle" /\ active' = Handle(k)
          /\ active = Marker(k)
          /\ UNCHANGED <<res, txn, watching, callback, rpc, rof, faults>>
      BY <1>0, <2>0, <2>1 DEF Step, retrierVars, StageOf
    <3>2. Typed'
      BY <1>0, <3>1 DEF Typed, Actives, Pcs
    <3>3. StageOf(k)'
      BY <1>0, <3>1 DEF Typed, StageOf, Opened
    <3>4. \A j \in Call : j # k => StageOf(j)'
      BY <1>0, <3>1, OthersKeep DEF Typed
    <3>5. \A r \in Retrier : Notified(r)'
      BY <1>0, <3>1, RetriersKeep DEF Typed
    <3>6. active' # Free => pc'[active'.call] \in Stages(active'.kind)
      BY <1>0, <3>1, OwnerKeeps DEF Typed, Stages
    <3> QED
      BY <3>2, <3>3, <3>4, <3>5, <3>6 DEF IInv
  <2>2. CASE RollBack(k, res[k], 1)
    <3>1. res[k] \in [Res -> {"none", "open", "closed"}]
      BY <1>0 DEF Typed
    <3> QED
      BY <2>0, <2>2, <3>1, RollBackKeeps
  <2> QED
    BY <1>4, <2>1, <2>2 DEF BuildHandle
<1>5. CASE ForkTasks(k)
  <2>0. pc[k] = "fork" /\ active = Handle(k) /\ UNCHANGED <<callback, rpc, rof>>
    BY <1>0, <1>5 DEF ForkTasks, StageOf, retrierVars
  <2>1. CASE Step(k, "fork", "serving")
             /\ watching' = [watching EXCEPT ![k] = HasWakeup]
             /\ UNCHANGED <<active, res, txn, faults>>
    <3>1. /\ pc' = [pc EXCEPT ![k] = "serving"] /\ pc[k] = "fork"
          /\ watching' = [watching EXCEPT ![k] = HasWakeup]
          /\ UNCHANGED <<active, res, txn, callback, rpc, rof, faults>>
      BY <2>0, <2>1 DEF Step
    <3>2. Typed'
      BY <1>0, <3>1, StartupAssumption DEF Typed, Actives, Pcs, StartupAssumption
    <3>3. StageOf(k)'
      BY <1>0, <2>0, <3>1 DEF Typed, StageOf
    <3>4. \A j \in Call : j # k => StageOf(j)'
      BY <1>0, <3>1, OthersKeep DEF Typed
    <3>5. \A r \in Retrier : Notified(r)'
      BY <1>0, <3>1, RetriersKeep DEF Typed
    <3>6. active' # Free => pc'[active'.call] \in Stages(active'.kind)
      BY <1>0, <2>0, <3>1, OwnerKeeps DEF Typed, Stages
    <3> QED
      BY <3>2, <3>3, <3>4, <3>5, <3>6 DEF IInv
  <2>2. ASSUME NEW bad \in SUBSET Res,
               Fail(1 + Cardinality(bad)),
               Finish(k, res[k], bad),
               txn' = [txn EXCEPT ![k] = IF bad = {} THEN {} ELSE {"server"}],
               pc' = [pc EXCEPT ![k] = IF bad = {} THEN "raised" ELSE "failed"],
               UNCHANGED watching
        PROVE IInv'
    <3>1. faults' \in 0..MaxFaults
      BY <1>0, <2>2, SubsetsCount, FaultsCount
    <3>2. /\ rof' \in [Retrier -> Call \union {NoCall}]
          /\ watching' \in [Call -> BOOLEAN] /\ callback' = callback
          /\ rpc' \in [Retrier -> RetrierPcs]
      BY <1>0, <2>0, <2>2 DEF Typed
    <3>3. /\ Typed'
          /\ \A j \in Call : StageOf(j)'
          /\ active' # Free => pc'[active'.call] \in Stages(active'.kind)
      <4>1. Finish(k, res[k], bad)
        BY <2>2
      <4>2. CASE bad = {}
        <5>1. pc' = [pc EXCEPT ![k] = "raised"] /\ txn' = [txn EXCEPT ![k] = {}]
          BY <2>2, <4>2
        <5>2. {} \in SUBSET (Res \union {"server"})
          OBVIOUS
        <5> QED
          BY <2>0, <3>1, <3>2, <4>1, <4>2, <5>1, <5>2, FinalizationKeeps
      <4>3. CASE bad # {}
        <5>1. pc' = [pc EXCEPT ![k] = "failed"] /\ txn' = [txn EXCEPT ![k] = {"server"}]
          BY <2>2, <4>3
        <5>2. "server" \in {"server"} /\ {"server"} \in SUBSET (Res \union {"server"})
          OBVIOUS
        <5> QED
          BY <2>0, <3>1, <3>2, <4>1, <5>1, <5>2, FinalizationKeeps
      <4> QED
        BY <4>2, <4>3
    <3>4. \A r \in Retrier : Notified(r)'
      BY <1>0, <2>0, <2>2, RetriersKeep DEF Typed
    <3> QED
      BY <3>3, <3>4 DEF IInv
  <2> QED
    BY <1>5, <2>1, <2>2 DEF ForkTasks
<1>6. CASE FinalizeServer(k)
  <2>0. /\ pc[k] = "serving" /\ UNCHANGED <<watching, callback, rpc, rof>>
        /\ active = Handle(k) \/ Opened(k) \intersect Kernel = {}
    BY <1>0, <1>6 DEF FinalizeServer, StageOf, retrierVars
  <2> PICK bad \in SUBSET Res :
         /\ Fail(Cardinality(bad))
         /\ Finish(k, res[k], bad)
         /\ \/ bad = {} /\ Step(k, "serving", "done") /\ UNCHANGED txn
            \/ bad # {} /\ UNCHANGED <<pc, txn>>
            \/ /\ bad # {} /\ Step(k, "serving", "failed")
               /\ txn' = [txn EXCEPT ![k] = {"server"}]
    BY <1>6 DEF FinalizeServer
  <2>1. faults' \in 0..MaxFaults
    BY <1>0, SubsetsCount, FaultsCount
  <2>2. /\ rof' \in [Retrier -> Call \union {NoCall}]
        /\ watching' \in [Call -> BOOLEAN] /\ callback' = callback
        /\ rpc' \in [Retrier -> RetrierPcs]
    BY <1>0, <2>0 DEF Typed
  <2>3. /\ Typed'
        /\ \A j \in Call : StageOf(j)'
        /\ active' # Free => pc'[active'.call] \in Stages(active'.kind)
    <3>0. txn[k] \in SUBSET (Res \union {"server"})
      BY <1>0 DEF Typed
    <3>1. CASE bad = {} /\ Step(k, "serving", "done") /\ UNCHANGED txn
      <4>1. pc' = [pc EXCEPT ![k] = "done"] /\ txn' = [txn EXCEPT ![k] = txn[k]]
        BY <1>0, <3>1 DEF Step, Typed
      <4> QED
        BY <2>0, <2>1, <2>2, <3>0, <3>1, <4>1, FinalizationKeeps
    <3>2. CASE bad # {} /\ UNCHANGED <<pc, txn>>
      <4>1. pc' = [pc EXCEPT ![k] = "serving"] /\ txn' = [txn EXCEPT ![k] = txn[k]]
        BY <1>0, <2>0, <3>2 DEF Typed
      <4> QED
        BY <2>0, <2>1, <2>2, <3>0, <4>1, FinalizationKeeps
    <3>3. CASE /\ bad # {} /\ Step(k, "serving", "failed")
               /\ txn' = [txn EXCEPT ![k] = {"server"}]
      <4>1. pc' = [pc EXCEPT ![k] = "failed"]
            /\ "server" \in {"server"} /\ {"server"} \in SUBSET (Res \union {"server"})
        BY <3>3 DEF Step
      <4> QED
        BY <2>0, <2>1, <2>2, <3>3, <4>1, FinalizationKeeps
    <3> QED
      BY <3>1, <3>2, <3>3
  <2>4. \A r \in Retrier : Notified(r)'
    BY <1>0, <2>0, RetriersKeep DEF Typed, Step
  <2> QED
    BY <2>3, <2>4 DEF IInv
<1> QED
  BY <1>1, <1>2, <1>3, <1>4, <1>5, <1>6 DEF Start

(* The close watcher's nested finalization leaves the call where it is.    *)
LEMMA WatcherKeeps ==
  ASSUME IInv, NEW k \in Call, WatcherFinally(k)
  PROVE IInv'
<1>0. Typed /\ StageOf(k)
  BY DEF IInv
<1>1. /\ UNCHANGED <<pc, txn, callback, rpc, rof>>
      /\ watching' = [watching EXCEPT ![k] = FALSE]
  BY DEF WatcherFinally, retrierVars
<1>2. \/ pc[k] = "serving"
      \/ pc[k] = "failed" /\ "server" \in txn[k]
  BY DEF WatcherFinally, BeingFinalized, IInv, Notified
<1>3. active = Handle(k) \/ Opened(k) \intersect Kernel = {}
  <2>1. "server" \in txn[k] => Opened(k) # txn[k]
    BY DEF Opened, Res, Kernel
  <2> QED
    BY <1>0, <1>2, <2>1 DEF StageOf
<1> PICK bad \in SUBSET Res : Fail(Cardinality(bad)) /\ Finish(k, res[k], bad)
  BY DEF WatcherFinally
<1>4. /\ faults' \in 0..MaxFaults
      /\ watching' \in [Call -> BOOLEAN] /\ callback' = callback
      /\ rpc' \in [Retrier -> RetrierPcs]
      /\ rof' \in [Retrier -> Call \union {NoCall}]
  BY <1>0, <1>1, SubsetsCount, FaultsCount DEF Typed
<1>5. /\ pc' = [pc EXCEPT ![k] = pc[k]] /\ txn' = [txn EXCEPT ![k] = txn[k]]
      /\ txn[k] \in SUBSET (Res \union {"server"})
  BY <1>0, <1>1 DEF Typed
<1>6. /\ Typed'
      /\ \A j \in Call : StageOf(j)'
      /\ active' # Free => pc'[active'.call] \in Stages(active'.kind)
  BY <1>2, <1>3, <1>4, <1>5, FinalizationKeeps
<1>7. \A r \in Retrier : Notified(r)'
  BY <1>1, RetriersKeep
<1> QED
  BY <1>6, <1>7 DEF IInv

(* Every step of a thread that retries keeps it.                           *)
LEMMA BeginKeeps ==
  ASSUME IInv, NEW r \in Retrier, NEW k \in Call, BeginRetry(r, k)
  PROVE IInv'
<1>0. Typed
  BY DEF IInv
<1>1. /\ rpc' = [rpc EXCEPT ![r] = "retrying"] /\ rof' = [rof EXCEPT ![r] = k]
      /\ pc[k] = "failed"
      /\ UNCHANGED <<active, pc, res, txn, watching, callback, faults>>
  BY DEF BeginRetry, RStep
<1>2. Typed'
  BY <1>0, <1>1 DEF Typed, RetrierPcs
<1>3. \A q \in Retrier : Notified(q)'
  BY <1>0, <1>1 DEF IInv, Typed, Notified
<1>4. \A j \in Call : StageOf(j)'
  BY <1>1 DEF IInv, StageOf, Opened, Marker, Handle
<1> QED
  BY <1>1, <1>2, <1>3, <1>4 DEF IInv

LEMMA RetryKeeps ==
  ASSUME IInv, NEW r \in Retrier, NEW k \in Call, RetryActions(r, k)
  PROVE IInv'
<1>0. Typed /\ StageOf(k)
  BY DEF IInv
<1>1. /\ rpc[r] = "retrying" /\ rpc' = [rpc EXCEPT ![r] = "retried"]
      /\ pc[k] = "failed" /\ rof[r] = k
      /\ UNCHANGED <<pc, watching, callback, rof>>
  BY DEF RetryActions, RStep, IInv, Notified
<1> PICK bad \in SUBSET Res :
         /\ Fail(Cardinality(bad))
         /\ IF "server" \in txn[k]
            THEN Finish(k, res[k], bad)
            ELSE /\ bad \subseteq txn[k]
                 /\ res' = [res EXCEPT ![k] =
                       [x \in Res |-> IF x \in txn[k] \ bad THEN "closed" ELSE @[x]]]
                 /\ UNCHANGED active
         /\ txn' = [txn EXCEPT ![k] = StillOwed(txn[k], bad)]
  BY DEF RetryActions
<1>2. faults' \in 0..MaxFaults
  BY <1>0, SubsetsCount, FaultsCount
<1>3. rof' \in [Retrier -> Call \union {NoCall}]
      /\ rpc' \in [Retrier -> RetrierPcs]
  BY <1>0, <1>1 DEF Typed, RetrierPcs
<1>4. \A q \in Retrier : Notified(q)'
  <2>1. \A j \in Call : txn[j] = {} => txn'[j] = {}
    BY <1>0 DEF Typed, StillOwed
  <2>2. ASSUME NEW q \in Retrier, q # r PROVE Notified(q)'
    BY <1>0, <1>1, <2>1, <2>2 DEF IInv, Typed, Notified
  <2>3. Notified(r)'
    BY <1>0, <1>1 DEF Typed, Notified
  <2> QED
    BY <2>2, <2>3
<1>5. CASE "server" \in txn[k]
  <2>0. callback' = callback /\ watching' \in [Call -> BOOLEAN]
    BY <1>0, <1>1 DEF Typed
  <2>1. /\ active = Handle(k) \/ Opened(k) \intersect Kernel = {}
        /\ Finish(k, res[k], bad)
    <3>1. Opened(k) # txn[k]
      BY <1>5 DEF Opened, Res, Kernel
    <3> QED
      BY <1>0, <1>1, <1>5, <3>1 DEF StageOf
  <2>2. pc' = [pc EXCEPT ![k] = "failed"]
    BY <1>0, <1>1 DEF Typed
  <2>3. txn' = [txn EXCEPT ![k] = IF bad = {} THEN {} ELSE txn[k]]
        /\ txn[k] \in SUBSET (Res \union {"server"})
    BY <1>0, <1>5 DEF Typed, StillOwed
  <2>4. /\ Typed'
        /\ \A j \in Call : StageOf(j)'
        /\ active' # Free => pc'[active'.call] \in Stages(active'.kind)
    <3>1. CASE bad = {}
      <4>1. txn' = [txn EXCEPT ![k] = {}] /\ {} \in SUBSET (Res \union {"server"})
        BY <2>3, <3>1
      <4> QED
        BY <1>1, <1>2, <1>3, <2>0, <2>1, <2>2, <3>1, <4>1, FinalizationKeeps
    <3>2. CASE bad # {}
      <4>1. txn' = [txn EXCEPT ![k] = txn[k]]
        BY <2>3, <3>2
      <4> QED
        BY <1>1, <1>2, <1>3, <1>5, <2>0, <2>1, <2>2, <2>3, <4>1, FinalizationKeeps
    <3> QED
      BY <3>1, <3>2
  <2> QED
    BY <1>4, <2>4 DEF IInv
<1>6. CASE "server" \notin txn[k]
  <2>1. Opened(k) = txn[k] /\ (txn[k] # {} => active = Marker(k)) /\ active' = active
    BY <1>0, <1>1, <1>6 DEF StageOf
  <2>2. /\ bad \subseteq txn[k] /\ txn[k] \in SUBSET Res
        /\ res' = [res EXCEPT ![k] =
              [x \in Res |-> IF x \in txn[k] \ bad THEN "closed" ELSE @[x]]]
        /\ txn' = [txn EXCEPT ![k] = bad]
    <3>1. bad \subseteq txn[k] /\ txn[k] \in SUBSET Res
      BY <1>0, <1>6 DEF Typed
    <3>2. StillOwed(txn[k], bad) = bad
      BY <1>6, <3>1 DEF StillOwed
    <3> QED
      BY <1>6, <3>1, <3>2
  <2>3. Typed'
    BY <1>0, <1>1, <1>2, <1>3, <2>1, <2>2 DEF Typed
  <2>4. Opened(k)' = bad /\ txn'[k] = bad
    BY <1>0, <2>1, <2>2 DEF Opened, Typed
  <2>5. StageOf(k)'
    BY <1>1, <2>1, <2>2, <2>4 DEF StageOf, Marker
  <2>6. \A j \in Call : j # k => StageOf(j)'
    BY <1>0, <1>1, <2>1, <2>2, OthersKeep DEF Typed
  <2>7. active' # Free => pc'[active'.call] \in Stages(active'.kind)
    BY <1>1, <2>1 DEF IInv
  <2> QED
    BY <1>4, <2>3, <2>5, <2>6, <2>7 DEF IInv
<1> QED
  BY <1>5, <1>6

LEMMA GoOnKeeps ==
  ASSUME IInv, NEW r \in Retrier, GoOn(r)
  PROVE IInv'
<1>0. Typed /\ Notified(r)
  BY DEF IInv
<1>1. /\ UNCHANGED <<pc, res, txn, watching, rof, faults>>
      /\ rpc' \in [Retrier -> RetrierPcs]
      /\ \A q \in Retrier : q # r => rpc'[q] = rpc[q]
  BY <1>0 DEF GoOn, ReadComplete, TakeCallback, RunCallback, RetryReturns, RStep,
              Typed, RetrierPcs
<1>2. \A j \in Call : Opened(j)' = Opened(j)
  BY <1>1 DEF Opened
<1>3. \A q \in Retrier : q # r => Notified(q)'
  BY <1>1 DEF IInv, Notified
<1>4. CASE ReadComplete(r) \/ TakeCallback(r) \/ RetryReturns(r)
  <2>1. active' = active /\ callback' \in [Call -> BOOLEAN]
    BY <1>0, <1>4 DEF ReadComplete, TakeCallback, RetryReturns, Typed
  <2>2. Notified(r)'
    BY <1>0, <1>1, <1>4
       DEF ReadComplete, TakeCallback, RetryReturns, RStep, Notified, Typed
  <2>3. Typed'
    BY <1>0, <1>1, <2>1 DEF Typed
  <2>4. \A j \in Call : StageOf(j)'
    BY <1>1, <1>2, <2>1 DEF IInv, StageOf, Marker, Handle
  <2>5. active' # Free => pc'[active'.call] \in Stages(active'.kind)
    BY <1>1, <2>1 DEF IInv
  <2> QED
    BY <1>3, <2>2, <2>3, <2>4, <2>5 DEF IInv
<1>5. CASE RunCallback(r)
  <2>0. /\ rpc[r] = "run" /\ rpc' = [rpc EXCEPT ![r] = "true"]
        /\ callback' = callback
        /\ active' = IF active = Marker(rof[r]) THEN Free ELSE active
    BY <1>5 DEF RunCallback, RStep, CallbackReleases, Released
  <2>1. rof[r] \in Call /\ pc[rof[r]] = "failed" /\ txn[rof[r]] = {}
    BY <1>0, <2>0 DEF Notified
  <2> PICK k \in Call : k = rof[r]
    BY <2>1
  <2>2. Notified(r)'
    BY <1>0, <1>1, <2>0, <2>1 DEF Notified, Typed
  <2>3. Typed'
    BY <1>0, <1>1, <2>0 DEF Typed, Actives
  <2>4. StageOf(k)'
    <3>1. StageOf(k)
      BY <2>1 DEF IInv
    <3> QED
      BY <1>1, <1>2, <2>1, <3>1 DEF StageOf
  <2>5. \A j \in Call : j # k => StageOf(j)'
    BY <1>1, <2>0, <2>1, OthersKeep
  <2>6. active' # Free => pc'[active'.call] \in Stages(active'.kind)
    BY <1>1, <2>0 DEF IInv
  <2>7. \A j \in Call : StageOf(j)'
    BY <2>4, <2>5
  <2>8. \A q \in Retrier : Notified(q)'
    BY <1>3, <2>2
  <2> QED
    BY <2>3, <2>6, <2>7, <2>8 DEF IInv
<1> QED
  BY <1>4, <1>5 DEF GoOn

LEMMA NextInv == IInv /\ [Next]_vars => IInv'
<1>1. ASSUME IInv, UNCHANGED vars PROVE IInv'
  BY <1>1 DEF vars, retrierVars, IInv, Typed, StageOf, Notified, Opened,
              Marker, Handle
<1> QED
  BY <1>1, CallKeeps, WatcherKeeps, BeginKeeps, RetryKeeps, GoOnKeeps DEF Next

LEMMA InvHolds == Spec => []IInv
  BY InitInv, NextInv, PTL DEF Spec

-----------------------------------------------------------------------------
(* The state keeps its types, and an owner is in a stage of its kind.      *)
THEOREM TypeOKHolds == Spec => []TypeOK
<1>1. IInv => TypeOK
  BY DEF IInv, Typed, TypeOK, RetrierPcs
<1> QED
  BY <1>1, InvHolds, PTL

(* A listener or wakeup channel left open by a start, a rollback or a      *)
(* finalization that failed belongs to the call that has the instance, in  *)
(* whatever order the watcher's nested finalization and the one around it  *)
(* closed things and failed (app.py:213-232, server.py:495-526).           *)
LEMMA InvHeld == IInv => HeldWhileOwned
<1> SUFFICES ASSUME IInv, NEW k \in Call, Opened(k) \intersect Kernel # {}
             PROVE active.call = k
  BY DEF HeldWhileOwned
<1>1. StageOf(k) /\ pc[k] \in Pcs
  BY DEF IInv, Typed
<1>2. active \in {Marker(k), Handle(k)}
  BY <1>1 DEF StageOf, Pcs
<1> QED
  BY <1>2 DEF Marker, Handle

THEOREM HeldWhileOwnedHolds == Spec => []HeldWhileOwned
  BY InvHeld, InvHolds, PTL

(* No error path forgets a resource: what a failed start or a failed       *)
(* finalization leaves open is owed by the transaction of its error        *)
(* (errors.py:22-72).                                                      *)
THEOREM NothingOrphanedHolds == Spec => []NothingOrphaned
<1>1. IInv => NothingOrphaned
  BY DEF IInv, StageOf, NothingOrphaned
<1> QED
  BY <1>1, InvHolds, PTL

(* The instance changes hands through "free" only.                         *)
LEMMA HandOver ==
  ASSUME IInv, Next
  PROVE \/ active'.call = active.call
        \/ active = Free /\ \E k \in Call : active' = Marker(k) /\ res' = res
        \/ active' = Free
<1> USE DEF Marker, Handle, Released
<1>1. ASSUME NEW k \in Call, Reserve(k)
      PROVE active' = active \/ (active = Free /\ active' = Marker(k) /\ res' = res)
  BY <1>1 DEF Reserve, MayReserve
<1>2. ASSUME NEW k \in Call, NEW rk, RollBack(k, rk, 1)
      PROVE active' = active \/ active' = Free
  BY <1>2 DEF RollBack
<1>3. ASSUME NEW k \in Call, NEW rk, NEW bad, Finish(k, rk, bad)
      PROVE active' = active \/ active' = Free
  BY <1>3 DEF Finish
<1>4. ASSUME NEW k \in Call, Start(k)
      PROVE active'.call = active.call \/ active' = Free
  BY <1>2, <1>3, <1>4 DEF Start, OpenListener, CreateWakeup, BuildHandle, ForkTasks
<1>5. ASSUME NEW k \in Call, FinalizeServer(k) \/ WatcherFinally(k)
      PROVE active' = active \/ active' = Free
  BY <1>3, <1>5 DEF FinalizeServer, WatcherFinally
<1>6. ASSUME NEW r \in Retrier, NEW k \in Call, BeginRetry(r, k) \/ RetryActions(r, k)
      PROVE active' = active \/ active' = Free
  BY <1>3, <1>6 DEF BeginRetry, RetryActions
<1>7. ASSUME NEW r \in Retrier, GoOn(r)
      PROVE active' = active \/ active' = Free
  BY <1>7 DEF GoOn, ReadComplete, TakeCallback, RunCallback, RetryReturns,
              CallbackReleases
<1> QED
  BY <1>1, <1>4, <1>5, <1>6, <1>7 DEF Next

(* A step of the start-up is a step of the owner, or none.                 *)
LEMMA OwnerStep ==
  ASSUME IInv, IInv', [Next]_vars
  PROVE [Owner!Next]_<<active.call, {e \in Call \X Kernel : res[e[1]][e[2]] = "open"}>>
<1> DEFINE Pairs == {e \in Call \X Kernel : res[e[1]][e[2]] = "open"}
<1>0. NoCall \notin Call /\ active \in Actives /\ active' \in Actives
  BY StartupAssumption DEF StartupAssumption, IInv, Typed
<1>1. /\ Pairs \subseteq {active.call} \X Kernel
      /\ active = Free => Pairs = {}
  BY <1>0, InvHeld DEF HeldWhileOwned, Opened, Res, Free
<1>2. /\ Pairs' \subseteq {active'.call} \X Kernel
      /\ active' = Free => Pairs' = {}
  <2>1. HeldWhileOwned'
    BY InvHeld, PTL
  <2> QED
    BY <1>0, <2>1 DEF HeldWhileOwned, Opened, Res, Free
<1>3. CASE UNCHANGED vars
  BY <1>3 DEF vars
<1>4. CASE Next
  <2>1. CASE active'.call = active.call /\ active # Free
    <3>1. active.call \in Call
      BY <1>0, <2>1 DEF Actives, Marker, Handle
    <3> QED
      BY <1>2, <2>1, <3>1 DEF Owner!Next, Owner!Use
  <2>2. CASE active = Free /\ active' = Free
    BY <1>1, <1>2, <2>2
  <2>3. ASSUME NEW k \in Call, active = Free, active' = Marker(k), res' = res
        PROVE Owner!Take(k)
    BY <2>3 DEF Owner!Take, Free, Marker
  <2>4. CASE active # Free /\ active' = Free
    <3>1. active.call \in Call /\ active'.call = NoCall
      BY <1>0, <2>4 DEF Actives, Marker, Handle, Free
    <3> QED
      BY <1>2, <2>4, <3>1 DEF Owner!Next, Owner!Leave
  <2>5. active = Free /\ active'.call = active.call => active' = Free
    BY <1>0 DEF Actives, Marker, Handle, Free
  <2> QED
    BY <1>4, <2>1, <2>2, <2>3, <2>4, <2>5, HandOver DEF Owner!Next
<1> QED
  BY <1>3, <1>4

LEMMA OwnerInit == Init => Owner!Init
  BY DEF Init, Owner!Init, Free, Kernel, Res

(* Startup with rollbacks, nested finalizations, errors and retries        *)
(* implements ExclusiveOwner: the instance is taken and left with nothing  *)
(* of the kernel open, and while somebody has it only that call's listener *)
(* and wakeup channel are open (app.py:213-232, 490-647).                  *)
THEOREM OwnerSpecHolds == Spec => OwnerSpec
<1>1. IInv /\ IInv' /\ [Next]_vars =>
        [Owner!Next]_<<active.call, {e \in Call \X Kernel : res[e[1]][e[2]] = "open"}>>
  BY OwnerStep
<1> QED
  BY <1>1, InvHolds, OwnerInit, PTL DEF Spec, OwnerSpec, Owner!Spec
=============================================================================
