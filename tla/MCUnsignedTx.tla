---------------------------- MODULE MCUnsignedTx ----------------------------
EXTENDS UnsignedTx
CONSTANTS i1, d1, o1, o2, h1, h2
MCInputIds == {i1}
MCDataIds == {d1}
MCOutputIds == {o1, o2}
MCHandles == {h1, h2}
=============================================================================
