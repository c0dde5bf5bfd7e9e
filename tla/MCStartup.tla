----------------------------- MODULE MCStartup -----------------------------
(* Two calls of listen() on one application, two cleanup threads.          *)
EXTENDS Startup

CONSTANTS k1, k2, r1, r2

MCCall == {k1, k2}
MCRetrier == {r1, r2}
=============================================================================
