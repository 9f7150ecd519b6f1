------------------------------ MODULE MCMutex ------------------------------
(* Mutex for TLC.                                                          *)
EXTENDS Mutex, TLC

CONSTANTS t1, t2

Two == {t1, t2}

=============================================================================
