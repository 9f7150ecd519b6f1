---------------------------- MODULE MCExecutor ----------------------------
(* Executor for TLC.                                                       *)
EXTENDS Executor, TLC

CONSTANTS t1, t2, e1, e2, e3

(* Two requests one way, and one back.                                     *)
BothWaysRequester == (e1 :> t1) @@ (e2 :> t1) @@ (e3 :> t2)
BothWaysTarget == (e1 :> t2) @@ (e2 :> t2) @@ (e3 :> t1)

=============================================================================
