------------------------------ MODULE MCHTTP1 ------------------------------
(* HTTP1Connection for TLC: two methods, four paths, three patterns, and   *)
(* one kind of peer for each way through the parser.                       *)
EXTENDS HTTP1Connection

CONSTANTS G, P, a, b, d, l, p1, p2, p3, c1, c2

MCMatched == [p \in {p1, p2, p3} |-> CASE p = p1 -> {a, b} [] p = p2 -> {b} [] p = p3 -> {a}]

MCServed ==
    {<<[kind |-> "static", at |-> a, methods |-> {G}],
       [kind |-> "regex", at |-> p1, methods |-> {P}]>>}

Frame(header, payload, refused) ==
    [header |-> header, payload |-> payload, refused |-> refused]

MCFrame == {Frame(6, 0, FALSE), Frame(8, 2, FALSE),
            Frame(2, 1, TRUE), Frame(6, 1, TRUE)}

Plain(head, verdict, claim, size, method, path) ==
    [head |-> head, verdict |-> verdict, claim |-> claim, size |-> size,
     broken |-> FALSE, upgrade |-> "no", frames |-> <<>>, method |-> method, path |-> path]

Upgrade(result, frames) ==
    [head |-> 2, verdict |-> 0, claim |-> 0, size |-> 2 + Begin(frames, Len(frames) + 1),
     broken |-> FALSE, upgrade |-> result, frames |-> frames, method |-> G, path |-> a]

MCWire ==
    {Plain(3, 0, 0, 3, G, a),        \* static route, head at its limit
     Plain(2, 0, 2, 4, P, a),        \* regex route, body at its limit
     Plain(2, 0, 1, 5, P, a),        \* more bytes than the request
     Plain(2, 0, 0, 2, G, b),        \* 405, or a late match
     Plain(2, 0, 0, 2, G, d),        \* 404, or a late match
     Plain(3, 0, 0, 3, P, l),        \* 414
     Plain(4, 0, 0, 4, G, a),        \* head too long
     Plain(0, 0, 0, 4, G, a),        \* no end of the head
     Plain(2, 0, 3, 3, P, a),        \* body too long
     Plain(2, 400, 0, 3, G, a),      \* malformed head
     Plain(2, 0, 2, 3, P, a),        \* the body never arrives
     [Plain(2, 0, 1, 3, P, a) EXCEPT !.broken = TRUE],
     Upgrade("unknown", <<>>),
     Upgrade("valid", <<Frame(8, 2, FALSE), Frame(6, 0, FALSE)>>),
     Upgrade("valid", <<Frame(6, 1, TRUE)>>),
     Upgrade("valid", <<Frame(2, 1, TRUE)>>)}
=============================================================================
