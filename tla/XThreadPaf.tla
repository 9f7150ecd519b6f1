----------------------------- MODULE XThreadPaf -----------------------------
(***************************************************************************)
(* newPromiseAndCrossThreadFulfiller() (kj/async.c++, kj/async-inl.h): a   *)
(* promise that one thread waits for and that others fulfil, without a     *)
(* lock until there is a result to hand over.  The XThreadPaf object is    *)
(* shared by both sides; who deletes it is settled by `state'.             *)
(*                                                                         *)
(* A call is fulfill() or reject(), of any thread, or the destructor of    *)
(* the fulfiller; each of them is one FulfillScope.                        *)
(***************************************************************************)
EXTENDS Naturals, FiniteSets

CONSTANTS
  Calls,        \* the calls of fulfill() and reject()
  Destructor    \* the scope of ~XThreadFulfiller()

ASSUME PafAssumption == Destructor \notin Calls

Scopes == Calls \cup {Destructor}

VARIABLES
  state,        \* control->state
  target,       \* the fulfiller's pointer is not null
  pc,           \* pc[c]: where scope c is
  waiter,       \* where the thread that owns the promise is
  loop,         \* that thread's executor has its event loop
  fulfilled,    \* the object is on the executor's list
  result,       \* the scope whose result is in the object, as a set
  ready,        \* the promise has become ready
  deleted,      \* how often the object was deleted
  race          \* two threads used the list of the executor at once

vars == <<state, target, pc, waiter, loop, fulfilled, result, ready, deleted, race>>

Init ==
  /\ state = "WAITING" /\ target = TRUE
  /\ pc = [c \in Scopes |-> "new"]
  /\ waiter = "holding" /\ loop = TRUE
  /\ fulfilled = FALSE /\ result = {} /\ ready = FALSE
  /\ deleted = 0 /\ race = FALSE

-----------------------------------------------------------------------------
(* FulfillScope.                                                           *)

InScope(c) == pc[c] \in {"claim", "fill", "publish", "store"}

(* A scope has the executor's lock.                                        *)
Locked == \E c \in Scopes : pc[c] = "store"

(* The fulfiller is destroyed when nobody is in a call, and then not used. *)
CanEnter(c) ==
  IF c = Destructor THEN \A d \in Calls : ~InScope(d) ELSE pc[Destructor] = "new"

(* The constructor takes the pointer ...                                   *)
TakePointer(c) == target /\ target' = FALSE

Enter(c) ==
  /\ pc[c] = "new" /\ CanEnter(c)
  /\ TakePointer(c)
  /\ pc' = [pc EXCEPT ![c] = "claim"]
  /\ UNCHANGED <<state, waiter, loop, fulfilled, result, ready, deleted, race>>

EnterLate(c) ==
  /\ pc[c] = "new" /\ CanEnter(c)
  /\ ~target
  /\ pc' = [pc EXCEPT ![c] = "done"]
  /\ UNCHANGED <<state, target, waiter, loop, fulfilled, result, ready, deleted, race>>

(* ... and moves WAITING to FULFILLING, or else deletes the object, ...    *)
Claim(c) ==
  /\ pc[c] = "claim" /\ state = "WAITING"
  /\ state' = "FULFILLING"
  /\ pc' = [pc EXCEPT ![c] = "fill"]
  /\ UNCHANGED <<target, waiter, loop, fulfilled, result, ready, deleted, race>>

(* Mutant: the object is left to the waiting thread.                       *)
DeleteCanceled_not == UNCHANGED deleted

DeleteCanceled == deleted' = deleted + 1

ClaimFails(c) ==
  /\ pc[c] = "claim" /\ state # "WAITING"
  /\ DeleteCanceled
  /\ pc' = [pc EXCEPT ![c] = "done"]
  /\ UNCHANGED <<state, target, waiter, loop, fulfilled, result, ready, race>>

(* ... the call stores its result, ...                                     *)
Fill(c) ==
  /\ pc[c] = "fill"
  /\ result' = {c}
  /\ pc' = [pc EXCEPT ![c] = "publish"]
  /\ UNCHANGED <<state, target, waiter, loop, fulfilled, ready, deleted, race>>

(* ... and the destructor, under the executor's lock, puts the object on   *)
(* the list, whether or not there is still a loop, ...                     *)
Add(c) ==
  /\ pc[c] = "publish"
  /\ fulfilled' = TRUE
  /\ pc' = [pc EXCEPT ![c] = "store"]
  /\ race' = (race \/ waiter = "disconnect")
  /\ UNCHANGED <<state, target, waiter, loop, result, ready, deleted>>

(* ... and then says so.                                                   *)
Store(c) ==
  /\ pc[c] = "store"
  /\ state' = "FULFILLED"
  /\ pc' = [pc EXCEPT ![c] = "done"]
  /\ UNCHANGED <<target, waiter, loop, fulfilled, result, ready, deleted, race>>

-----------------------------------------------------------------------------
(* The waiting thread.                                                     *)

(* dispatchAll(), under the lock.                                          *)
Dispatch ==
  /\ waiter = "holding" /\ loop /\ fulfilled /\ ~Locked
  /\ fulfilled' = FALSE
  /\ state' = "DISPATCHED"
  /\ ready' = TRUE
  /\ UNCHANGED <<target, pc, waiter, loop, result, deleted, race>>

(* destroy() looks at the state, ...                                       *)
Drop ==
  /\ waiter = "holding"
  /\ \/ state = "DISPATCHED" /\ waiter' = "gone" /\ deleted' = deleted + 1
     \/ state # "DISPATCHED" /\ waiter' = "exchange" /\ UNCHANGED deleted
  /\ UNCHANGED <<state, target, pc, loop, fulfilled, result, ready, race>>

(* ... moves WAITING to CANCELED, ...                                      *)
CancelWaiting ==
  /\ waiter = "exchange" /\ state = "WAITING"
  /\ state' = "CANCELED"
  /\ waiter' = "gone"
  /\ UNCHANGED <<target, pc, loop, fulfilled, result, ready, deleted, race>>

CancelFails ==
  /\ waiter = "exchange" /\ state # "WAITING"
  /\ waiter' = "wait"
  /\ UNCHANGED <<state, target, pc, loop, fulfilled, result, ready, deleted, race>>

(* Mutant: the waiting thread deletes an object that is being filled in.   *)
Settled_any == TRUE

(* Mutant: it waits for a dispatch, which its own loop would have to do.   *)
Settled_dispatched == state = "DISPATCHED"

(* ... or waits for the fulfilling thread to have finished.                *)
Settled == state \in {"FULFILLED", "DISPATCHED"}

(* List::remove() throws if the object is on no list, and then nobody will *)
(* delete it.                                                              *)
RemoveThrows == state = "FULFILLED" /\ ~fulfilled

AwaitFulfilled ==
  /\ waiter = "wait" /\ Settled /\ ~Locked
  /\ fulfilled' = FALSE
  /\ deleted' = IF RemoveThrows THEN deleted ELSE deleted + 1
  /\ waiter' = "gone"
  /\ UNCHANGED <<state, target, pc, loop, result, ready, race>>

(* disconnect(): the loop goes away although its promise is still held,    *)
(* first under the lock, ...                                               *)
Exit ==
  /\ waiter = "holding" /\ loop /\ ~Locked
  /\ loop' = FALSE
  /\ waiter' = "disconnect"
  /\ UNCHANGED <<state, target, pc, fulfilled, result, ready, deleted, race>>

(* ... and then the list is emptied without it, perhaps between Add and    *)
(* Store of a scope.  (In the middle of Add it would throw, and end the    *)
(* program.)  All that can be done with the promise is to destroy it.      *)
Disconnect ==
  /\ waiter = "disconnect"
  /\ state' = IF fulfilled THEN "DISPATCHED" ELSE state
  /\ fulfilled' = FALSE
  /\ waiter' = "holding"
  /\ UNCHANGED <<target, pc, loop, result, ready, deleted, race>>

-----------------------------------------------------------------------------

Scope(c) == Enter(c) \/ EnterLate(c) \/ Claim(c) \/ ClaimFails(c) \/ Fill(c) \/ Add(c) \/ Store(c)

Destroying == CancelWaiting \/ CancelFails \/ AwaitFulfilled

Next ==
  \/ \E c \in Scopes : Scope(c)
  \/ Destroying \/ Dispatch \/ Drop \/ Exit \/ Disconnect

Spec == Init /\ [][Next]_vars

(* Threads in the middle of an operation go on, the waiting thread's loop  *)
(* runs, and the fulfiller is dropped in the end.                          *)
FairSpec ==
  /\ Spec
  /\ \A c \in Scopes : WF_vars(InScope(c) /\ Scope(c))
  /\ WF_vars(Scope(Destructor))
  /\ WF_vars(Destroying) /\ WF_vars(Dispatch) /\ WF_vars(Disconnect)

-----------------------------------------------------------------------------
(* Properties.                                                             *)

(* The values that XThreadPafControl::State, the places in FulfillScope()   *)
(* and destroy() and the list's membership can have.                       *)
TypeOK ==
  /\ state \in {"WAITING", "FULFILLING", "FULFILLED", "DISPATCHED", "CANCELED"}
  /\ pc \in [Scopes -> {"new", "claim", "fill", "publish", "store", "done"}]
  /\ waiter \in {"holding", "disconnect", "exchange", "wait", "gone"}
  /\ target \in BOOLEAN /\ loop \in BOOLEAN /\ fulfilled \in BOOLEAN
  /\ ready \in BOOLEAN /\ race \in BOOLEAN
  /\ result \subseteq Scopes /\ deleted \in Nat

(* Somebody holds a pointer to the object that it may follow.              *)
Reachable ==
  \/ target \/ fulfilled \/ waiter # "gone"
  \/ \E c \in Scopes : InScope(c)

(* The object is deleted at most once, and nobody can reach it then: not   *)
(* the fulfiller, not the executor's list, not the waiting thread; unless  *)
(* a scope raced disconnect() for the list.                                *)
DeletedLast == race \/ (deleted <= 1 /\ (deleted = 1 => ~Reachable))

(* Only one call gets hold of the object, it finds it waiting or canceled  *)
(* (the assertion of FulfillScope()), and a promise that is ready has a    *)
(* result.                                                                 *)
OneResult ==
  /\ \A c, d \in Scopes : InScope(c) /\ InScope(d) => c = d
  /\ \A c \in Scopes : pc[c] = "claim" => state \in {"WAITING", "CANCELED"}
  /\ ready => result # {}

(* What the states mean (async-inl.h, XThreadPafControl::State): who may   *)
(* use the object, and who is to delete it, as long as disconnect() has    *)
(* not raced a scope.  It implies the two above.                           *)
StatesMean ==
  /\ \A c, d \in Scopes : InScope(c) /\ InScope(d) => c = d
  /\ \A c \in Scopes :
       /\ InScope(c) => ~target
       /\ pc[c] = "claim" => state \in {"WAITING", "CANCELED"}
       /\ pc[c] \in {"publish", "store"} => result # {}
  /\ fulfilled \/ ready => result # {}
  /\ race => ~target /\ \A c \in Scopes : pc[c] \notin {"claim", "fill", "publish"}
  /\ race \/
       /\ \A c \in Scopes :
            /\ pc[c] \in {"fill", "publish", "store"} => state = "FULFILLING"
            /\ pc[c] = "store" => fulfilled /\ waiter # "disconnect"
       /\ state = "WAITING" =>
            /\ ~fulfilled /\ deleted = 0 /\ waiter \notin {"wait", "gone"}
            /\ target \/ \E c \in Scopes : InScope(c)
       /\ state = "FULFILLING" =>
            ~target /\ (fulfilled => Locked) /\ deleted = 0 /\ waiter # "gone"
       /\ state \in {"FULFILLED", "DISPATCHED"} =>
            ~target /\ result # {} /\ deleted = IF waiter = "gone" THEN 1 ELSE 0
       /\ state = "FULFILLED" => (fulfilled <=> waiter # "gone")
       /\ state = "DISPATCHED" => ~fulfilled
       /\ state = "CANCELED" =>
            /\ waiter = "gone" /\ ~fulfilled
            /\ deleted = IF target \/ \E c \in Scopes : InScope(c) THEN 0 ELSE 1

(* Once both sides are gone, the object has been deleted, or destroy() has *)
(* thrown because a scope raced disconnect().                              *)
NoLeak == waiter = "gone" /\ ~target ~> deleted = 1 \/ race

(* Dropping the promise does not block for ever.                           *)
DropReturns == waiter = "exchange" ~> waiter = "gone"

(* disconnect() has the lists to itself once it has cleared `loop', as its *)
(* comment says.                                                           *)
NoListRace == ~race

=============================================================================
