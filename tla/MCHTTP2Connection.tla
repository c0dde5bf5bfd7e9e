-------------------------- MODULE MCHTTP2Connection --------------------------
(* Two request streams, three chunks of input, timeouts of two ticks.      *)
EXTENDS HTTP2Connection

CONSTANTS s1, s2

MCStream == {s1, s2}
=============================================================================
