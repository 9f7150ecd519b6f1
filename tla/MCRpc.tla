------------------------------- MODULE MCRpc -------------------------------
(* Rpc for TLC: alice asks questions of bob, and bob some of alice.        *)
EXTENDS Rpc

CONSTANTS alice, bob, o1, o2

TwoVats == {alice, bob}

OneEach == [v \in TwoVats |-> {o1}]
Bob2Objects == [v \in TwoVats |-> IF v = alice THEN {o1} ELSE {o1, o2}]

Alice2 == [v \in TwoVats |-> IF v = alice THEN 2 ELSE 0]
Alice3 == [v \in TwoVats |-> IF v = alice THEN 3 ELSE 0]
Alice2Bob1 == [v \in TwoVats |-> IF v = alice THEN 2 ELSE 1]

=============================================================================
