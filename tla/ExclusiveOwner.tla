--------------------------- MODULE ExclusiveOwner ---------------------------
(***************************************************************************)
(* What a SmallServer promises about its kernel resources, whatever fails: *)
(* one invocation at a time holds the instance, only the holder has open   *)
(* resources, and it lets the instance go with the last of them closed.    *)
(* guide/runtime-lifecycle.md:7 states it for the application; Startup is  *)
(* shown to implement it.                                                  *)
(***************************************************************************)
CONSTANTS Call, Resource,
          NoCall   \* no member of Call

VARIABLES holder,  \* the invocation that has the instance
          open     \* pairs <<call, resource>> that are open

TypeInvariant == /\ holder \in Call \union {NoCall}
                 /\ open \subseteq Call \X Resource

Init == holder \in Call \union {NoCall} /\ open \subseteq {holder} \X Resource
          /\ (holder = NoCall => open = {})

Take(k) == holder = NoCall /\ holder' = k /\ open' = open

Use(k) == /\ holder = k /\ holder' = k
          /\ open' \subseteq {k} \X Resource

Leave(k) == holder = k /\ holder' = NoCall /\ open' = {}

Next == \E k \in Call : Take(k) \/ Use(k) \/ Leave(k)

Spec == Init /\ [][Next]_<<holder, open>>
=============================================================================
