---------------------------- MODULE MCHandlerPool ----------------------------
EXTENDS HandlerPool

CONSTANTS c1, c2, c3, t1, t2
=============================================================================
