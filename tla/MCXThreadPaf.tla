--------------------------- MODULE MCXThreadPaf ---------------------------
(* XThreadPaf for TLC.                                                     *)
EXTENDS XThreadPaf

CONSTANTS c1, c2, c3

=============================================================================
