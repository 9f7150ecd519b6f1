---------------------------- MODULE MCAsyncPipe ----------------------------
(* Instances of AsyncPipe for TLC.                                         *)
EXTENDS AsyncPipe

(* Where the pieces of a write end: one piece; two, the first of which a   *)
(* read can split; and three, with an empty one between.                   *)
SmallWrites == {<<2>>, <<2, 3>>, <<1, 1, 2>>}
(* A read of a byte, one with room to spare, and one that wants more than  *)
(* most writes have.                                                       *)
SmallReads == {<<1, 1>>, <<1, 2>>, <<3, 4>>}
=============================================================================
