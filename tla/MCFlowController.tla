-------------------------- MODULE MCFlowController --------------------------
(* FlowController for TLC: two senders, small and large messages, and a    *)
(* window that may shrink to less than one large message.                  *)
EXTENDS FlowController, TLC

CONSTANTS p1, p2

TwoSenders == {p1, p2}
SmallLarge == {1, 4}
Varying    == {2, 6}
=============================================================================
