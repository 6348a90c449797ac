------------------------------ MODULE MCClient ------------------------------
(* Client for TLC: two threads of one client, a sequence space of three.  *)
EXTENDS Client

CONSTANTS t1, t2
MCThreads == {t1, t2}
MCHelloSizes == {1, 3}
MCRequestSizes == {0, 3}
MCResultSizes == {2, 3}
MCErrorSizes == {1, 3}
=============================================================================
