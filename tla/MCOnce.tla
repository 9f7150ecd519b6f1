------------------------------- MODULE MCOnce -------------------------------
(* Once for TLC: three threads that call runOnce() again and again.        *)
EXTENDS Once, TLC

CONSTANTS t1, t2, t3

Three == {t1, t2, t3}

=============================================================================
