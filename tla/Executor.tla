------------------------------ MODULE Executor ------------------------------
(***************************************************************************)
(* kj::Executor (kj/async.c++): a thread asks the event loop of another    *)
(* one to run a function (executeAsync, executeSync).  executeAsync gives  *)
(* it a promise for the result, which it may drop at any time: that        *)
(* cancels the function, and blocks until the other thread will not touch  *)
(* the request again.                                                      *)
(*                                                                         *)
(* A request is an XThreadEvent.  Every thread here has an event loop and  *)
(* an executor.  The executor's mutex is the one of module Mutex, so what  *)
(* is done under one lock is one step here.                                *)
(*                                                                         *)
(* The application's code runs between the events of a loop, in the        *)
(* functions a loop runs for others, and in the destructors of the         *)
(* promises those return.  Wherever it runs, it may make requests and drop *)
(* promises: a thread is a stack of calls.                                 *)
(***************************************************************************)
EXTENDS Naturals, FiniteSets, Sequences, SequencesExt

CONSTANTS
  Threads, Events,
  Requester, Target,   \* Requester[e], Target[e]: the two threads of request e
  Sync,                \* the requests made with executeSync()
  Exits,               \* the threads whose event loop may be destroyed
  BusyPoll             \* whether loops also poll while their queue is not empty

ASSUME ExecutorAssumption ==
  /\ IsFiniteSet(Threads) /\ IsFiniteSet(Events)
  /\ Requester \in [Events -> Threads] /\ Target \in [Events -> Threads]
  /\ \A e \in Events : Requester[e] # Target[e]
  /\ Sync \subseteq Events
  /\ Exits \subseteq Threads /\ BusyPoll \in BOOLEAN

VARIABLES
  event,        \* event[e]: the XThreadEvent
  start,        \* start[t]: the start list of t's executor
  queue,        \* queue[t]: the events armed in t's loop, in firing order
  thread,       \* thread[t]: the calls of thread t, the innermost first
  loop,         \* loop[t]: the executor of t still has its event loop
  waitingForCancel,
  unannounced,  \* events set DONE without the lock, until it is next released
  failed        \* "assertion"; "linked": an event was destroyed while on a
                \* list; "touched": a thread used what was the other one's

vars == <<event, start, queue, thread, loop, waitingForCancel, unannounced, failed>>

(* list: where targetLink is, of the lists executing and cancel, or start. *)
(* promiseNode "pending", "ready": the promise the function returned.      *)
(* reply: linked in the replies of the requester; ready: the requester's   *)
(* promise was fulfilled.  promise "absent": not requested yet; "held":    *)
(* the requester can drop it; "dropped": it does; "freed": destroyed.      *)
NewEvent ==
  [state |-> "UNUSED", list |-> "none", promiseNode |-> "none",
   reply |-> FALSE, result |-> "none", ready |-> FALSE, promise |-> "absent"]

(* A call: how far it is, and the events it is about.                      *)
Call(place, on) == [at |-> place, on |-> on]

Init ==
  /\ event = [e \in Events |-> NewEvent]
  /\ start = [t \in Threads |-> <<>>]
  /\ queue = [t \in Threads |-> <<>>]
  /\ thread = [t \in Threads |-> <<Call("idle", {})>>]
  /\ loop = [t \in Threads |-> TRUE]
  /\ waitingForCancel = [t \in Threads |-> FALSE]
  /\ unannounced = {}
  /\ failed = "no"

(* Nothing is said of what happens after a failure.                        *)
At(t, place) == failed = "no" /\ Head(thread[t]).at = place

On(t) == CHOOSE e \in Head(thread[t]).on : TRUE

Goto(t, place) == thread' = [thread EXCEPT ![t][1].at = place]

Begin(t, place, on) == thread' = [thread EXCEPT ![t] = <<Call(place, on)>> \o @]

Return(t) == thread' = [thread EXCEPT ![t] = Tail(@)]

(* The application's code runs: between two events, in a function, or in   *)
(* the destructor of a promise that a function returned.                   *)
Application(t) == \E place \in {"idle", "execute", "get", "node"} : At(t, place)

Without(s, gone) == SelectSeq(s, LAMBDA e : e \notin gone)

OnList(t, list) == {e \in Events : Target[e] = t /\ event[e].list = list}

Replies(t) == {e \in Events : Requester[e] = t /\ event[e].reply}

isDone(e) == event[e].state = "DONE"

Armed(e) == e \in ToSet(queue[Target[e]])

Disarm(gone) == queue' = [t \in Threads |-> Without(queue[t], gone)]

-----------------------------------------------------------------------------
(* Making a request.                                                       *)

(* executeAsync() and executeSync() call getLoop(), which throws when the  *)
(* loop is gone, ...                                                       *)
Execute(e) ==
  LET t == Requester[e]
  IN  /\ Application(t) /\ loop[t]
      /\ event[e].promise = "absent"
      /\ loop[Target[e]]
      /\ event' = [event EXCEPT ![e].promise = "held"]
      /\ Begin(t, "send", {e})
      /\ UNCHANGED <<start, queue, loop, waitingForCancel, unannounced, failed>>

(* ... and then Executor::send() takes the lock.                           *)
Send(t) ==
  LET e == On(t)
  IN  /\ At(t, "send")
      /\ \/ /\ loop[Target[e]]
            /\ event' = [event EXCEPT ![e].state = "QUEUED", ![e].list = "start"]
            /\ start' = [start EXCEPT ![Target[e]] = Append(@, e)]
         \/ /\ ~loop[Target[e]]
            /\ event' = [event EXCEPT ![e].state = "DONE", ![e].result = "disconnected"]
            /\ UNCHANGED start
      /\ IF e \in Sync THEN Goto(t, "awaitDone") ELSE Return(t)
      /\ UNCHANGED <<queue, loop, waitingForCancel, unannounced, failed>>

-----------------------------------------------------------------------------
(* Serving requests.                                                       *)

(* Mutant: an event is acknowledged at once, whatever it runs.             *)
Outside_none(t) == {}

(* The cancelled events whose promise node has to be destroyed, outside    *)
(* the lock.                                                               *)
Outside(t) == {e \in OnList(t, "cancel") : event[e].promiseNode # "none"}

(* dispatchCancels() empties the cancel list; the events that have no      *)
(* promise node are done.                                                  *)
dispatchCancels(t) ==
  [e \in Events |->
     IF e \notin OnList(t, "cancel") THEN event[e]
     ELSE [event[e] EXCEPT !.list = "none", !.state = IF e \in Outside(t) THEN @ ELSE "DONE"]]

(* Its caller goes on at `next', after processAsyncCancellations().        *)
ThenProcess(t, next) ==
  LET calls == [thread[t] EXCEPT ![1].at = next]
  IN  thread' = [thread EXCEPT ![t] =
        IF Outside(t) = {} THEN calls ELSE <<Call("process", Outside(t))>> \o calls]

(* Mutant: a reply does not end the wait.                                  *)
isDispatchNeeded_requests(t) == start[t] # <<>> \/ OnList(t, "cancel") # {}

isDispatchNeeded(t) == start[t] # <<>> \/ OnList(t, "cancel") # {} \/ Replies(t) # {}

(* Executor::wait() and poll(): dispatchAll() under the lock.              *)
dispatchAll(t) ==
  /\ At(t, "idle") /\ loop[t]
  /\ isDispatchNeeded(t)
  /\ event' = [e \in Events |->
       IF e \in ToSet(start[t]) THEN [event[e] EXCEPT !.list = "executing", !.state = "EXECUTING"]
       ELSE IF e \in Replies(t) THEN [dispatchCancels(t)[e] EXCEPT !.reply = FALSE, !.ready = TRUE]
       ELSE dispatchCancels(t)[e]]
  /\ queue' = [queue EXCEPT ![t] = @ \o start[t]]
  /\ start' = [start EXCEPT ![t] = <<>>]
  /\ ThenProcess(t, "idle")
  /\ UNCHANGED <<loop, waitingForCancel, unannounced, failed>>

(* The loop has nothing to fire and waits; ...                             *)
Wait(t) == queue[t] = <<>> /\ dispatchAll(t)

(* ... or polls between two events, because of busyPollInterval.           *)
Poll(t) == BusyPoll /\ queue[t] # <<>> /\ dispatchAll(t)

(* processAsyncCancellations(): without the lock, the promise nodes are    *)
(* destroyed, ...                                                          *)
Destroy(t, e) ==
  /\ At(t, "process")
  /\ e \in Head(thread[t]).on /\ event[e].promiseNode # "none"
  /\ event' = [event EXCEPT ![e].promiseNode = "none"]
  /\ Begin(t, "node", {e})
  /\ UNCHANGED <<start, queue, loop, waitingForCancel, unannounced, failed>>

Destroyed(t) ==
  /\ At(t, "node")
  /\ Disarm({On(t)})
  /\ Return(t)
  /\ UNCHANGED <<event, start, loop, waitingForCancel, unannounced, failed>>

(* ... and the events are done, under the lock again.                      *)
Acknowledge(t) ==
  /\ At(t, "process")
  /\ \A e \in Head(thread[t]).on : event[e].promiseNode = "none"
  /\ event' = [e \in Events |-> IF e \in Head(thread[t]).on
                THEN [event[e] EXCEPT !.state = "DONE"] ELSE event[e]]
  /\ Return(t)
  /\ UNCHANGED <<start, queue, loop, waitingForCancel, unannounced, failed>>

(* EventLoop::turn() takes the next event off the queue to fire() it.      *)
Turn(e) ==
  /\ At(Target[e], "idle") /\ loop[Target[e]]
  /\ queue[Target[e]] # <<>> /\ Head(queue[Target[e]]) = e
  /\ Disarm({e})
  /\ UNCHANGED <<start, loop, waitingForCancel, unannounced>>

(* The first time, it calls the function.                                  *)
FireExecutes(e) ==
  /\ Turn(e)
  /\ ~isDone(e) /\ event[e].promiseNode = "none"
  /\ Begin(Target[e], "execute", {e})
  /\ UNCHANGED <<event, failed>>

(* The second time, it takes the result of the promise and destroys it.    *)
FireGets(e) ==
  /\ Turn(e)
  /\ ~isDone(e) /\ event[e].promiseNode = "ready"
  /\ event' = [event EXCEPT ![e].promiseNode = "none", ![e].result = "value"]
  /\ Begin(Target[e], "get", {e})
  /\ UNCHANGED failed

(* An event that is DONE belongs to the requester, which may be destroying *)
(* it: what firing it does is undefined, and the model stops.              *)
FireDone(e) ==
  /\ Turn(e)
  /\ isDone(e)
  /\ failed' = "touched"
  /\ UNCHANGED <<event, thread>>

(* The function has returned a value or an exception, or the promise is    *)
(* destroyed: ...                                                          *)
Fired(t) ==
  /\ At(t, "execute") \/ At(t, "get")
  /\ ~isDone(On(t))
  /\ event' = [event EXCEPT ![On(t)].result = "value"]
  /\ Goto(t, "reply")
  /\ UNCHANGED <<start, queue, loop, waitingForCancel, unannounced, failed>>

(* ... or it has returned a promise, ...                                   *)
FiredPromises(t) ==
  /\ At(t, "execute")
  /\ ~isDone(On(t))
  /\ event' = [event EXCEPT ![On(t)].promiseNode = "pending"]
  /\ Return(t)
  /\ UNCHANGED <<start, queue, loop, waitingForCancel, unannounced, failed>>

(* ... or a promise was dropped on the way, and ensureDoneOrCanceled() has *)
(* let this event be destroyed: fire() goes on with it all the same, and   *)
(* done(), should it find it, fails an assertion.                          *)
FiredDone(t) ==
  /\ At(t, "execute") \/ At(t, "get")
  /\ isDone(On(t))
  /\ failed' = "touched"
  /\ UNCHANGED <<event, start, queue, thread, loop, waitingForCancel, unannounced>>

(* That promise resolves, which arms the event depth first, or breadth     *)
(* first if the promise was ready from the beginning.                      *)
NodeReady(e) ==
  /\ At(Target[e], "idle") /\ loop[Target[e]]
  /\ event[e].promiseNode = "pending"
  /\ event' = [event EXCEPT ![e].promiseNode = "ready"]
  /\ \E q \in {<<e>> \o queue[Target[e]], Append(queue[Target[e]], e)} :
       queue' = [queue EXCEPT ![Target[e]] = q]
  /\ UNCHANGED <<start, thread, loop, waitingForCancel, unannounced, failed>>

(* done() calls sendReply(), under the requester's lock.  It aborts when   *)
(* the requester's loop is gone.                                           *)
sendReply(e) == [event[e] EXCEPT !.reply = e \notin Sync]

ReplyFails(e) == e \notin Sync /\ ~loop[Requester[e]]

Reply(t) ==
  /\ At(t, "reply")
  /\ event' = [event EXCEPT ![On(t)] = sendReply(On(t))]
  /\ failed' = IF ReplyFails(On(t)) THEN "assertion" ELSE failed
  /\ Goto(t, "finish")
  /\ UNCHANGED <<start, queue, loop, waitingForCancel, unannounced>>

(* Then it sets the state, under the target's lock.                        *)
Finish(t) ==
  /\ At(t, "finish")
  /\ event' = [event EXCEPT ![On(t)].state = "DONE", ![On(t)].list = "none"]
  /\ failed' = IF event[On(t)].state \in {"EXECUTING", "CANCELING"} THEN failed ELSE "assertion"
  /\ Return(t)
  /\ UNCHANGED <<start, queue, loop, waitingForCancel, unannounced>>

-----------------------------------------------------------------------------
(* Dropping the promise: ensureDoneOrCanceled().                           *)

(* The unlocked look at the state.                                         *)
Drop(e) ==
  LET t == Requester[e]
  IN  /\ Application(t)
      /\ event[e].promise = "held"
      /\ event' = [event EXCEPT ![e].promise = "dropped"]
      /\ Begin(t, IF isDone(e) THEN "unlink" ELSE "cancel", {e})
      /\ UNCHANGED <<start, queue, loop, waitingForCancel, unannounced, failed>>

(* Mutant: the event stays on the start list.                              *)
CancelQueued_keep(t, e) ==
  /\ event' = [event EXCEPT ![e].list = "none", ![e].state = "DONE"]
  /\ Goto(t, "unlink")
  /\ UNCHANGED start

CancelQueued(t, e) ==
  /\ event' = [event EXCEPT ![e].list = "none", ![e].state = "DONE"]
  /\ start' = [start EXCEPT ![Target[e]] = Without(@, {e})]
  /\ Goto(t, "unlink")

(* Mutant: the requester does not wait for the target.                     *)
CancelExecuting_leave(t, e) ==
  /\ event' = [event EXCEPT ![e].list = "cancel", ![e].state = "CANCELING"]
  /\ Goto(t, "unlink")
  /\ UNCHANGED start

CancelExecuting(t, e) ==
  /\ event' = [event EXCEPT ![e].list = "cancel", ![e].state = "CANCELING"]
  /\ Goto(t, "self")
  /\ UNCHANGED start

(* Under the target's lock.                                                *)
Cancel(t) ==
  LET e == On(t)
  IN  /\ At(t, "cancel")
      /\ \/ ~loop[Target[e]] /\ Goto(t, "awaitDead") /\ UNCHANGED <<event, start>>
         \/ loop[Target[e]] /\ event[e].state = "QUEUED" /\ CancelQueued(t, e)
         \/ loop[Target[e]] /\ event[e].state = "EXECUTING" /\ CancelExecuting(t, e)
         \/ /\ loop[Target[e]] /\ event[e].state = "DONE"
            /\ Goto(t, "unlink") /\ UNCHANGED <<event, start>>
      /\ UNCHANGED <<queue, loop, waitingForCancel, unannounced, failed>>

(* Mutant: a thread that waits does not serve cancellations.               *)
ServeSelf_deaf(t) ==
  /\ At(t, "self")
  /\ waitingForCancel' = [waitingForCancel EXCEPT ![t] = TRUE]
  /\ Goto(t, "await")
  /\ UNCHANGED <<event, start, queue, loop, unannounced, failed>>

(* The body of the while loop.  Under its own lock, the thread says that   *)
(* it waits, and serves the cancellations asked of itself.                 *)
ServeSelf(t) ==
  /\ At(t, "self")
  /\ waitingForCancel' = [waitingForCancel EXCEPT ![t] = TRUE]
  /\ event' = dispatchCancels(t)
  /\ ThenProcess(t, "await")
  /\ UNCHANGED <<start, queue, loop, unannounced, failed>>

(* The end of a conditional wait on the target's mutex, whose predicate is *)
(* evaluated again when the mutex is released, and then the loop's test.   *)
AwaitEnds(t) ==
  \/ /\ At(t, "await")
     /\ isDone(On(t)) \/ waitingForCancel[Target[On(t)]]
     /\ Goto(t, IF isDone(On(t)) THEN "leave" ELSE "self")
     /\ UNCHANGED <<event, start, queue, loop, waitingForCancel, unannounced, failed>>
  \/ /\ At(t, "awaitDone") \/ At(t, "awaitDead")
     /\ isDone(On(t))
     /\ Goto(t, IF At(t, "awaitDone") THEN "unlink" ELSE "free")
     /\ UNCHANGED <<event, start, queue, loop, waitingForCancel, unannounced, failed>>

Await(t) == Head(thread[t]).on \cap unannounced = {} /\ AwaitEnds(t)

(* The predicate is also evaluated when the wait begins.                   *)
AwaitBegins(t) == Head(thread[t]).on \cap unannounced # {} /\ AwaitEnds(t)

(* On the way out of the loop, under the thread's own lock.                *)
Leave(t) ==
  /\ At(t, "leave")
  /\ waitingForCancel' = [waitingForCancel EXCEPT ![t] = FALSE]
  /\ event' = dispatchCancels(t)
  /\ ThenProcess(t, "unlink")
  /\ UNCHANGED <<start, queue, loop, unannounced, failed>>

(* The reply is taken off the list and the event destroyed.  ~Event()      *)
(* unlinks one that is armed from the queue of the target, which may be    *)
(* using it: nothing orders the two, and the model stops.                  *)
Unlink(t) ==
  /\ At(t, "unlink")
  /\ event' = [event EXCEPT ![On(t)] = [@ EXCEPT !.reply = FALSE, !.promise = "freed"]]
  /\ failed' = IF Armed(On(t)) THEN "touched" ELSE failed
  /\ Return(t)
  /\ UNCHANGED <<start, queue, loop, waitingForCancel, unannounced>>

(* When the target's loop was gone, ensureDoneOrCanceled() has returned    *)
(* from the middle, and ~ListLink() crashes if the reply is on the list.   *)
Free(t) ==
  /\ At(t, "free")
  /\ event' = [event EXCEPT ![On(t)].promise = "freed"]
  /\ failed' = IF event[On(t)].reply THEN "linked"
               ELSE IF Armed(On(t)) THEN "touched" ELSE failed
  /\ Return(t)
  /\ UNCHANGED <<start, queue, loop, waitingForCancel, unannounced>>

-----------------------------------------------------------------------------
(* The end of an event loop: ~EventLoop() and disconnect().  The           *)
(* application has dropped the promises of that thread before.             *)

Exit(t) ==
  /\ At(t, "idle") /\ t \in Exits /\ loop[t]
  /\ \A e \in Events : Requester[e] = t => event[e].promise # "held"
  /\ loop' = [loop EXCEPT ![t] = FALSE]
  /\ Goto(t, "disconnect")
  /\ UNCHANGED <<event, start, queue, waitingForCancel, unannounced, failed>>

(* The requester of an event that was queued or runs gets an exception ... *)
Disconnect(t, e) ==
  /\ At(t, "disconnect")
  /\ \/ e \in OnList(t, "start")
     \/ OnList(t, "start") = {} /\ e \in OnList(t, "executing")
  /\ event' = [event EXCEPT ![e] =
       [sendReply(e) EXCEPT !.list = "none", !.promiseNode = "none", !.result = "disconnected"]]
  /\ start' = [start EXCEPT ![t] = Without(@, {e})]
  /\ failed' = IF ReplyFails(e) THEN "assertion" ELSE failed
  /\ Begin(t, "disconnectDone", {e})
  /\ UNCHANGED <<queue, loop, waitingForCancel, unannounced>>

(* ... and then it is done, without the lock.                              *)
DisconnectDone(t) ==
  /\ At(t, "disconnectDone")
  /\ event' = [event EXCEPT ![On(t)].state = "DONE"]
  /\ unannounced' = unannounced \cup {On(t)}
  /\ Return(t)
  /\ UNCHANGED <<start, queue, loop, waitingForCancel, failed>>

(* One that its requester waits to see cancelled is done.                  *)
DisconnectCancel(t, e) ==
  /\ At(t, "disconnect")
  /\ OnList(t, "start") \cup OnList(t, "executing") = {}
  /\ e \in OnList(t, "cancel")
  /\ event' = [event EXCEPT ![e] =
       [@ EXCEPT !.list = "none", !.promiseNode = "none", !.state = "DONE"]]
  /\ unannounced' = unannounced \cup {e}
  /\ UNCHANGED <<start, queue, thread, loop, waitingForCancel, failed>>

(* Taking and releasing the lock makes the waiters of t's mutex look again.*)
Announced(t) == {e \in unannounced : Target[e] # t}

(* The lock is taken and released on the way out.  ~EventLoop() then       *)
(* expects its queue to be empty, and otherwise unlinks what it holds.     *)
DisconnectEnd(t) ==
  /\ At(t, "disconnect")
  /\ \A list \in {"start", "executing", "cancel"} : OnList(t, list) = {}
  /\ unannounced' = Announced(t)
  /\ Goto(t, "queue")
  /\ UNCHANGED <<event, start, queue, loop, waitingForCancel, failed>>

EndQueue(t) ==
  /\ At(t, "queue")
  /\ failed' = IF queue[t] = <<>> THEN failed ELSE "touched"
  /\ Goto(t, "gone")
  /\ UNCHANGED <<event, start, queue, loop, waitingForCancel, unannounced>>

-----------------------------------------------------------------------------

(* What thread t does once it has begun something.                         *)
Continue(t) ==
  \/ Send(t) \/ Destroyed(t) \/ Acknowledge(t)
  \/ Fired(t) \/ FiredPromises(t) \/ FiredDone(t) \/ Reply(t) \/ Finish(t)
  \/ Cancel(t) \/ ServeSelf(t) \/ Await(t) \/ Leave(t) \/ Unlink(t) \/ Free(t)
  \/ \E e \in Events : Destroy(t, e) \/ Disconnect(t, e) \/ DisconnectCancel(t, e)
  \/ DisconnectDone(t) \/ DisconnectEnd(t) \/ EndQueue(t)

Fire(e) == FireExecutes(e) \/ FireGets(e) \/ FireDone(e)

Next ==
  \/ \E t \in Threads : Continue(t) \/ AwaitBegins(t) \/ Wait(t) \/ Poll(t) \/ Exit(t)
  \/ \E e \in Events : Execute(e) \/ Fire(e) \/ NodeReady(e) \/ Drop(e)

Spec == Init /\ [][Next]_vars

(* Threads are scheduled, loops fire the events of their queue and wait    *)
(* for more, and the promises that the functions return resolve.           *)
FairSpec ==
  /\ Spec
  /\ \A t \in Threads : WF_vars(Continue(t)) /\ WF_vars(Wait(t))
  /\ \A e \in Events : WF_vars(Fire(e)) /\ WF_vars(NodeReady(e))

-----------------------------------------------------------------------------
(* Properties.                                                             *)

(* The target thread is in a call about e.                                 *)
InHand(e) == \E i \in DOMAIN thread[Target[e]] : e \in thread[Target[e]][i].on

(* The target thread is in processAsyncCancellations() or disconnect() and *)
(* has taken e off its list.                                               *)
TakenOff(e) ==
  \E i \in DOMAIN thread[Target[e]] :
    /\ e \in thread[Target[e]][i].on
    /\ thread[Target[e]][i].at \in {"process", "disconnectDone"}

(* The state of an event tells which list it is on, as disconnect()        *)
(* asserts and the cancelling thread relies on to remove it, except while  *)
(* the target thread works on it outside the lock.                         *)
ListsAgree ==
  \A e \in Events :
    LET x == Target[e]
        s == event[e].state
    IN  /\ Len(SelectSeq(start[x], LAMBDA f : f = e)) = IF event[e].list = "start" THEN 1 ELSE 0
        /\ event[e].list = "start" => s = "QUEUED"
        /\ event[e].list = "executing" => s = "EXECUTING"
        /\ event[e].list = "cancel" => s = "CANCELING"
        /\ s \in {"QUEUED", "EXECUTING", "CANCELING"} /\ ~TakenOff(e) => event[e].list # "none"

(* done() finds the event in a state it expects, and sendReply() does not  *)
(* have to abort, since a thread that cancels waits for DONE before it     *)
(* leaves its loop.  The exception is an event that has become DONE while  *)
(* fire() was at work on it, which DoneIsNotTouched rules out.             *)
NoAssertionFails == failed # "assertion"

(* Once the state is DONE, which allows the requester to destroy the       *)
(* event, it is on none of the target's lists, no promise node of the      *)
(* target refers to it, and the target is not about to acknowledge it or   *)
(* to reply; it is not destroyed before, and its promise is ready only     *)
(* with a result.  Nothing is said of the target's queue, and of a         *)
(* function that still runs: see DoneIsNotTouched.                         *)
DoneIsReleased ==
  \A e \in Events :
    /\ isDone(e) =>
         /\ event[e].list = "none" /\ event[e].promiseNode = "none"
         /\ ~TakenOff(e)
         /\ \A place \in {"reply", "finish"} :
              At(Target[e], place) => e \notin Head(thread[Target[e]]).on
    /\ event[e].promise = "freed" => isDone(e)
    /\ event[e].ready => event[e].result # "none"

(* An event is off the list of replies when it is destroyed, as ~ListLink()*)
(* insists.                                                                *)
ReplyIsUnlinked == failed # "linked"

(* What setDoneState() asks of its callers: an event that is DONE belongs  *)
(* to the requester.  The target thread does not have it in its queue, to  *)
(* be fired, and is not inside a call that goes on to use it.              *)
DoneIsNotTouched == \A e \in Events : isDone(e) => ~Armed(e) /\ ~InHand(e)

(* The requester is inside executeAsync(), executeSync() or the destructor *)
(* of the promise.                                                         *)
InCall(e) == \E i \in DOMAIN thread[Requester[e]] : e \in thread[Requester[e]][i].on

Blocked(t) ==
  Head(thread[t]).at \in {"cancel", "self", "await", "awaitDone", "awaitDead"}

(* While a thread is in executeSync() its loop does not run: a thread that *)
(* is itself blocked cannot serve it, and waits for it in vain.            *)
SyncDeadlock == \E t \in Threads : At(t, "awaitDone") /\ Blocked(Target[On(t)])

(* Dropping a promise, making a request and waiting in executeSync() all   *)
(* return, wherever the application does it, although threads may wait for *)
(* one another to cancel something and the thread waited for may exit; the *)
(* exception is a cycle through an executeSync().                          *)
BlockedReturns ==
  \A e \in Events : InCall(e) ~> (~InCall(e) \/ failed # "no" \/ []SyncDeadlock)

(* A request that reached the start list of a loop is answered, with a     *)
(* value or because the loop has exited, unless it is dropped (or both     *)
(* threads are blocked as above).                                          *)
QueuedIsAnswered ==
  \A e \in Events \ Sync :
    event[e].state = "QUEUED" ~>
      (event[e].ready \/ event[e].promise = "freed" \/ failed # "no" \/ []SyncDeadlock)

=============================================================================
