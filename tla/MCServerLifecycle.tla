------------------------- MODULE MCServerLifecycle -------------------------
EXTENDS ServerLifecycle

CONSTANTS c1, c2, k1

MCConn1 == {c1}
MCConn2 == {c1, c2}
MCCloser0 == {}
MCCloser1 == {k1}

=============================================================================
