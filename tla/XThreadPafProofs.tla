-------------------------- MODULE XThreadPafProofs --------------------------
(***************************************************************************)
(* XThreadPaf for any set of calls: the shared object is deleted once, and *)
(* only when nobody can reach it, and one call takes effect.  StatesMean,  *)
(* with the types, is the inductive invariant.                             *)
(***************************************************************************)
EXTENDS XThreadPaf, TLAPS

Inv == TypeOK /\ StatesMean

LEMMA InitInv == Init => Inv
<1> SUFFICES ASSUME Init PROVE Inv
  OBVIOUS
<1>1. TypeOK
  BY DEF Init, TypeOK
<1>2. StatesMean
  BY DEF Init, StatesMean, InScope, Locked
<1> QED BY <1>1, <1>2 DEF Inv

(* A scope's steps: FulfillScope().                                        *)
LEMMA ScopeInv ==
  ASSUME Inv, NEW c \in Scopes, Scope(c)
  PROVE  Inv'
<1> USE DEF Inv, TypeOK, StatesMean, InScope, Locked
<1>1. CASE Enter(c)
  BY <1>1 DEF Enter, TakePointer
<1>2. CASE EnterLate(c)
  BY <1>2 DEF EnterLate
<1>3. CASE Claim(c)
  BY <1>3 DEF Claim
<1>4. CASE ClaimFails(c)
  BY <1>4 DEF ClaimFails, DeleteCanceled
<1>5. CASE Fill(c)
  BY <1>5 DEF Fill
<1>6. CASE Add(c)
  BY <1>6 DEF Add
<1>7. CASE Store(c)
  BY <1>7 DEF Store
<1> QED BY <1>1, <1>2, <1>3, <1>4, <1>5, <1>6, <1>7 DEF Scope

(* The waiting thread's steps: dispatchAll(), destroy(), disconnect().     *)
LEMMA WaiterInv ==
  ASSUME Inv, Destroying \/ Dispatch \/ Drop \/ Exit \/ Disconnect
  PROVE  Inv'
<1> USE DEF Inv, TypeOK, StatesMean, InScope, Locked
<1>1. CASE CancelWaiting
  BY <1>1 DEF CancelWaiting
<1>2. CASE CancelFails
  BY <1>2 DEF CancelFails
<1>3. CASE AwaitFulfilled
  <2>1. /\ waiter' = "gone" /\ fulfilled' = FALSE
        /\ UNCHANGED <<state, target, pc, loop, result, ready, race>>
    BY <1>3 DEF AwaitFulfilled
  <2>2. TypeOK'
    <3>1. deleted' = deleted \/ deleted' = deleted + 1
      BY <1>3 DEF AwaitFulfilled
    <3>2. deleted' \in Nat
      BY <3>1
    <3> QED BY <2>1, <3>2
  <2>3. CASE race
    BY <2>1, <2>2, <2>3
  <2>4. CASE ~race
    <3>1. deleted = 0 /\ deleted' = 1
      BY <1>3, <2>4 DEF AwaitFulfilled, Settled, RemoveThrows
    <3> QED BY <1>3, <2>1, <2>2, <2>4, <3>1 DEF AwaitFulfilled, Settled
  <2> QED BY <2>3, <2>4
<1>4. CASE Dispatch
  BY <1>4 DEF Dispatch
<1>5. CASE Drop
  BY <1>5 DEF Drop
<1>6. CASE Exit
  BY <1>6 DEF Exit
<1>7. CASE Disconnect
  BY <1>7 DEF Disconnect
<1> QED BY <1>1, <1>2, <1>3, <1>4, <1>5, <1>6, <1>7 DEF Destroying

LEMMA Invariance == Spec => []Inv
<1>1. Inv /\ [Next]_vars => Inv'
  <2> SUFFICES ASSUME Inv, [Next]_vars PROVE Inv'
    OBVIOUS
  <2>1. CASE UNCHANGED vars
    BY <2>1 DEF Inv, TypeOK, StatesMean, InScope, Locked, vars
  <2> QED BY <2>1, ScopeInv, WaiterInv DEF Next
<1> QED BY InitInv, <1>1, PTL DEF Spec

(* The meaning that XThreadPafControl::State gives to the states holds     *)
(* throughout, whatever the calls of fulfill() and reject(), the           *)
(* destruction of the fulfiller and of the promise, and the loop's exit.   *)
THEOREM StatesKeepMeaning == Spec => []StatesMean
<1>1. Inv => StatesMean
  BY DEF Inv
<1> QED BY Invariance, <1>1, PTL

(* The XThreadPaf is deleted at most once, by whichever side destroy() and *)
(* FulfillScope() settle on, and nobody holds a pointer to it then, as     *)
(* long as disconnect() does not race a FulfillScope for the list.         *)
THEOREM ObjectDeletedLast == Spec => []DeletedLast
<1>1. Inv => DeletedLast
  BY DEF Inv, TypeOK, StatesMean, DeletedLast, Reachable, InScope, Locked
<1> QED BY Invariance, <1>1, PTL

(* At most one call of fulfill() or reject() has the object, which it      *)
(* found waiting or canceled, and the promise is ready only with a result. *)
THEOREM OneCallTakesEffect == Spec => []OneResult
<1>1. StatesMean => OneResult
  BY DEF StatesMean, OneResult
<1> QED BY <1>1, StatesKeepMeaning, PTL

=============================================================================
