---------------------------- MODULE MCRpcEmbargo ----------------------------
(* RpcEmbargo for TLC: bob has two promises and two objects, alice one.    *)
(* Alice calls through the first of bob's promises.                        *)
EXTENDS RpcEmbargo

CONSTANTS alice, bob

TwoVats == {alice, bob}
Bob2 == [v \in TwoVats |-> IF v = bob THEN 2 ELSE 1]

Calls3 == <<alice, Hook("promise", 1)>> :> 3

=============================================================================
