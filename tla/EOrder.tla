------------------------------- MODULE EOrder -------------------------------
(***************************************************************************)
(* What a capability promises its holder ("E-order"): calls made through   *)
(* one reference arrive at the object behind it in the order in which they *)
(* were made, none twice and none skipped, whatever happens to the path in *)
(* the meantime.  Nothing is said about calls through different            *)
(* references, nor about how many calls arrive together.                   *)
(***************************************************************************)
EXTENDS Naturals, Sequences

CONSTANT References

VARIABLES
  issued,      \* issued[r]: how many calls were made through r
  arrived      \* arrived[r]: the numbers of those that arrived, oldest first

Init ==
  /\ issued = [r \in References |-> 0]
  /\ arrived = [r \in References |-> <<>>]

Issue(r) ==
  /\ issued' = [issued EXCEPT ![r] = @ + 1]
  /\ UNCHANGED arrived

(* The calls 1 .. n of a reference, in order.                              *)
FirstCalls(n) == [k \in 1 .. n |-> k]

(* More calls arrive, of one or of several references.                     *)
Arrive ==
  /\ \A r \in References :
       \E n \in Len(arrived[r]) .. issued'[r] : arrived'[r] = FirstCalls(n)
  /\ DOMAIN arrived' = References

(* A call through a local path arrives in the step that makes it.          *)
IssueAndArrive(r) ==
  /\ issued' = [issued EXCEPT ![r] = @ + 1]
  /\ Arrive

Next ==
  \/ \E r \in References : Issue(r) \/ IssueAndArrive(r)
  \/ UNCHANGED issued /\ Arrive

Spec == Init /\ [][Next]_<<issued, arrived>>

=============================================================================
