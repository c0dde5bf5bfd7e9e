------------------------------- MODULE Router -------------------------------
(***************************************************************************)
(* Router (routing.py): the static and regex route tables, the two         *)
(* registrations, and resolve() with its matching deadlines, which is an   *)
(* operator because it neither suspends nor changes the tables.            *)
(*                                                                         *)
(* A registration is a record [kind, at, methods]: "static" at a path or   *)
(* "regex" at a pattern, its methods as normalize_methods leaves them.  A  *)
(* log is the sequence of registrations an application makes, and the      *)
(* number of a registration in the log stands for its handler.             *)
(***************************************************************************)
EXTENDS Naturals, Sequences, FiniteSets

CONSTANTS Method, Path, Pattern,
          Matched,    \* the paths each pattern matches in full
          LongPaths,  \* the paths above max_path_bytes
          MaxRoutes,  \* RegexRouteConfig.max_routes
          MaxLog      \* bound on the registrations of a behaviour

ASSUME RouterAssumption ==
    /\ Matched \in [Pattern -> SUBSET Path]
    /\ LongPaths \subseteq Path
    /\ MaxRoutes \in Nat /\ MaxLog \in Nat

VARIABLES table,  \* _static and _regex
          log       \* history: every registration tried

router == <<table, log>>

Registration ==
    LET methods == (SUBSET Method) \ {{}}
    IN  [kind : {"static"}, at : Path, methods : methods]
            \cup [kind : {"regex"}, at : Pattern, methods : methods]

-----------------------------------------------------------------------------
(* Registration.  A refused one raises and leaves the table as it was.     *)

Handlers(keys, h) == [k \in keys |-> h]
Joined(f, g) == [k \in DOMAIN f \cup DOMAIN g |-> IF k \in DOMAIN f THEN f[k] ELSE g[k]]

\* static: from <<method, path>> to handler; regex: in the order of lookup.
EmptyTable == [static |-> <<>>, regex |-> <<>>]

AddStatic(t, path, methods, h) ==
    IF \E m \in methods : <<m, path>> \in DOMAIN t.static THEN t
    ELSE [t EXCEPT !.static = Joined(@, Handlers(methods \X {path}, h))]

AddRegex(t, pattern, methods, h) ==
    LET known == {i \in DOMAIN t.regex : t.regex[i].pattern = pattern}
    IN  IF known # {}
        THEN LET i == CHOOSE i \in known : TRUE
             IN  IF methods \cap DOMAIN t.regex[i].handlers # {} THEN t
                 ELSE [t EXCEPT !.regex[i].handlers = Joined(@, Handlers(methods, h))]
        ELSE IF Len(t.regex) >= MaxRoutes THEN t
        ELSE [t EXCEPT !.regex = Append(@, [pattern |-> pattern,
                                           handlers |-> Handlers(methods, h)])]

Add(t, r, h) ==
    IF r.kind = "static" THEN AddStatic(t, r.at, r.methods, h)
                         ELSE AddRegex(t, r.at, r.methods, h)

RouterInit == table = EmptyTable /\ log = <<>>

Register ==
    /\ Len(log) < MaxLog
    /\ \E r \in Registration :
          /\ table' = Add(table, r, Len(log) + 1)
          /\ log' = Append(log, r)

-----------------------------------------------------------------------------
(* resolve().  "late" is the set of regex routes whose match does not      *)
(* finish, because of match_timeout or because total_match_timeout is      *)
(* spent when their turn comes.                                            *)

Found(h) == [kind |-> "handler", handler |-> h]
Allowed(methods) == [kind |-> "none", methods |-> methods]
Late == [kind |-> "late"]
TooLarge == [kind |-> "too large"]

Matches(t, i, path) == path \in Matched[t.regex[i].pattern]
StaticMethods(t, path) == {m \in Method : <<m, path>> \in DOMAIN t.static}
Lowest(S) == CHOOSE i \in S : \A j \in S : i <= j

\* No route has the method: what the path allows.  The routes of the method
\* have been tried, and did not match.
AllowedAnyway(t, method, path, late) ==     \* mutant: a late route is passed over
    Allowed(StaticMethods(t, path)
        \cup UNION {DOMAIN t.regex[i].handlers :
                       i \in {j \in DOMAIN t.regex \ late : Matches(t, j, path)}})
AllowedAt(t, method, path, late) ==
    LET others == {i \in DOMAIN t.regex : method \notin DOMAIN t.regex[i].handlers}
    IN  IF others \cap late # {} THEN Late
        ELSE Allowed(StaticMethods(t, path)
                \cup UNION {DOMAIN t.regex[i].handlers :
                               i \in {j \in others : Matches(t, j, path)}})

Resolve(t, method, path, late) ==
    IF <<method, path>> \in DOMAIN t.static THEN Found(t.static[<<method, path>>])
    ELSE IF t.regex = <<>> THEN Allowed(StaticMethods(t, path))
    ELSE IF path \in LongPaths THEN TooLarge
    ELSE LET stops == {i \in DOMAIN t.regex :
                          /\ method \in DOMAIN t.regex[i].handlers
                          /\ i \in late \/ Matches(t, i, path)}
         IN  IF stops = {} THEN AllowedAt(t, method, path, late)
             ELSE IF Lowest(stops) \in late THEN Late
             ELSE Found(t.regex[Lowest(stops)].handlers[method])

-----------------------------------------------------------------------------
(* What the guide promises, over the log instead of the tables.            *)

\* Two registrations name one target with a method in common.
Clash(r, s) == r.kind = s.kind /\ r.at = s.at /\ r.methods \cap s.methods # {}

\* The registrations that succeed: no earlier one clashes, and a new pattern
\* finds fewer than max_routes before it.
Accepted ==
    CHOOSE A \in SUBSET DOMAIN log : \A i \in DOMAIN log :
        LET before == {j \in A : j < i}
            patterns == {log[j].at : j \in {k \in before : log[k].kind = "regex"}}
        IN  i \in A <=>
              /\ \A j \in before : ~Clash(log[i], log[j])
              /\ log[i].kind = "regex" /\ log[i].at \notin patterns
                     => Cardinality(patterns) < MaxRoutes

\* guide/routing.md: static routes take precedence, then patterns in the order
\* of their first registration; otherwise Allow lists what the path has.
Promise(method, path) ==
    LET A == Accepted
        Applies(i) == IF log[i].kind = "static" THEN log[i].at = path
                                                ELSE path \in Matched[log[i].at]
        fits == {i \in A : Applies(i) /\ method \in log[i].methods}
        exact == {i \in fits : log[i].kind = "static"}
        Place(i) == Lowest({j \in A : log[j].kind = "regex" /\ log[j].at = log[i].at})
    IN  IF exact # {} THEN Found(Lowest(exact))
        ELSE IF path \in LongPaths /\ \E i \in A : log[i].kind = "regex" THEN TooLarge
        ELSE IF fits # {} THEN Found(CHOOSE i \in fits : \A j \in fits : Place(i) <= Place(j))
        ELSE Allowed(UNION {log[i].methods : i \in {j \in A : Applies(j)}})

\* RoutingIsSound: whatever an application registers, in whatever order, with
\* registrations refused in between, a request gets the promised handler, 404
\* or truthful 405; a late match makes it fail, and never go to another route,
\* to a 404 or to an Allow list that lacks a method.
RoutingIsSound ==
    \A method \in Method, path \in Path, late \in SUBSET DOMAIN table.regex :
        LET result == Resolve(table, method, path, late)
        IN  IF result = Late
            THEN late # {} /\ path \notin LongPaths /\ <<method, path>> \notin DOMAIN table.static
            ELSE result = Promise(method, path)
=============================================================================
