--------------------------- MODULE FlowController ---------------------------
(***************************************************************************)
(* The stream flow controllers of c++/src/capnp/rpc.c++: what send(), an   *)
(* ack, a failed ack, waitAllAcked() and the destructor do to the blocked  *)
(* senders and to the bytes in flight.                                     *)
(*                                                                         *)
(* WindowFlowController asks a WindowGetter for the window whenever it     *)
(* needs it: any value of Windows (one value for the fixed window).        *)
(* AdaptiveFlowController computes its own, and otherwise does the same;   *)
(* how it arrives at the window is left out here.                          *)
(*                                                                         *)
(* A sender is a task of the application that awaits the promise of one    *)
(* send() before it calls the next, the way streaming calls are used.      *)
(* KJ runs one callback at a time, so each callback is one step.           *)
(***************************************************************************)
EXTENDS Integers, FiniteSets

CONSTANTS
    Senders,
    Sizes,          \* sizes of messages, in bytes
    Windows,        \* what getWindow() may return
    MaxWindow,      \* the largest of them
    MaxSends        \* bound: messages sent in a behaviour

ASSUME FlowAssumption ==
    /\ IsFiniteSet(Senders)
    /\ Sizes \subseteq Nat \ {0}
    /\ MaxWindow \in Nat \ {0}
    /\ Windows \subseteq 1 .. MaxWindow
    /\ MaxSends \in Nat

VARIABLES
    state,          \* "running", or the "exception" of the first failed ack
    blockedSends,   \* the senders whose promise is still pending
    inFlight,
    maxMessageSize,
    tasks,          \* the acks still expected: <<number of the message, size>>
    sent,           \* number of messages sent
    wait            \* the promise of waitAllAcked(), and the controller's end

vars == <<state, blockedSends, inFlight, maxMessageSize, tasks, sent, wait>>

\* "none": not called.  "emptyFulfiller": the promise of emptyFulfiller.
\* "onEmpty": that of tasks.onEmpty().  "done": resolved, which destroys the
\* controller attached to it.  "dropped": destroyed without having resolved.
Waits == {"none", "emptyFulfiller", "onEmpty", "done", "dropped"}

\* The fields have their types.
TypeOK ==
    /\ state \in {"running", "exception"}
    /\ blockedSends \subseteq Senders
    /\ inFlight \in Nat
    /\ maxMessageSize \in Nat
    /\ tasks \subseteq (1 .. MaxSends) \X Sizes
    /\ sent \in 0 .. MaxSends
    /\ wait \in Waits

Init ==
    /\ state = "running"
    /\ blockedSends = {}
    /\ inFlight = 0
    /\ maxMessageSize = 0
    /\ tasks = {}
    /\ sent = 0
    /\ wait = "none"

Alive == wait \notin {"done", "dropped"}

\* Mutant: the window is extended by two messages.
isReady_twice(bytes, largest, window) ==
    bytes <= window + largest + largest

isReady(bytes, largest, window) ==
    \/ bytes <= largest
    \/ bytes < window + largest

larger(a, b) == IF a > b THEN a ELSE b

\* send(): the message leaves at once, only the promise may resolve late.
Send(p, size, window) ==
    /\ wait = "none"
    /\ p \notin blockedSends
    /\ sent < MaxSends
    /\ sent' = sent + 1
    /\ maxMessageSize' = larger(size, maxMessageSize)
    /\ inFlight' = inFlight + size
    /\ tasks' = tasks \cup {<<sent + 1, size>>}
    /\ blockedSends' = IF state = "running" /\ ~isReady(inFlight', maxMessageSize', window)
                       THEN blockedSends \cup {p}
                       ELSE blockedSends
    /\ UNCHANGED <<state, wait>>

\* message->send() throws: send() has only noted the size of the message.
SendThrows(p, size) ==
    /\ wait = "none"
    /\ p \notin blockedSends
    /\ maxMessageSize' = larger(size, maxMessageSize)
    /\ UNCHANGED <<state, blockedSends, inFlight, tasks, sent, wait>>

\* What becomes of the promise of waitAllAcked() when a task leaves the set.
Emptied(w, remaining) ==
    IF w = "onEmpty" /\ remaining = {} THEN "done" ELSE w

\* Mutant: emptyFulfiller is fulfilled as soon as there is room.
Ack_earlyEmpty(t, window) ==
    /\ Alive
    /\ tasks' = tasks \ {t}
    /\ inFlight' = inFlight - t[2]
    /\ LET released == state = "running" /\ isReady(inFlight', maxMessageSize, window)
       IN  /\ blockedSends' = IF released THEN {} ELSE blockedSends
           /\ wait' = IF released /\ wait = "emptyFulfiller"
                      THEN "done"
                      ELSE Emptied(wait, tasks')
    /\ UNCHANGED <<state, maxMessageSize, sent>>

\* Mutant: emptyFulfiller is only looked at when senders were released.
Ack_onlyIfBlocked(t, window) ==
    /\ Alive
    /\ tasks' = tasks \ {t}
    /\ inFlight' = inFlight - t[2]
    /\ blockedSends' = IF state = "running" /\ isReady(inFlight', maxMessageSize, window)
                       THEN {}
                       ELSE blockedSends
    /\ wait' = IF /\ state = "running" /\ blockedSends # {}
                  /\ wait = "emptyFulfiller" /\ inFlight' = 0
               THEN Emptied("onEmpty", tasks')
               ELSE Emptied(wait, tasks')
    /\ UNCHANGED <<state, maxMessageSize, sent>>

\* An ack arrives.  In the running state it releases the blocked senders if
\* there is room now, and the wait for an empty set if nothing is in flight.
Ack(t, window) ==
    /\ Alive
    /\ tasks' = tasks \ {t}
    /\ inFlight' = inFlight - t[2]
    /\ blockedSends' = IF state = "running" /\ isReady(inFlight', maxMessageSize, window)
                       THEN {}
                       ELSE blockedSends
    /\ wait' = IF state = "running" /\ wait = "emptyFulfiller" /\ inFlight' = 0
               THEN Emptied("onEmpty", tasks')
               ELSE Emptied(wait, tasks')
    /\ UNCHANGED <<state, maxMessageSize, sent>>

\* Mutant: the senders that are blocked when an ack fails are forgotten.
AckFails_keepBlocked(t) ==
    /\ Alive
    /\ tasks' = tasks \ {t}
    /\ wait' = Emptied(wait, tasks')
    /\ state' = "exception"
    /\ UNCHANGED <<blockedSends, inFlight, maxMessageSize, sent>>

\* An ack rejects: the continuation that subtracts the size does not run;
\* taskFailed() rejects the blocked senders and every later one.
AckFails(t) ==
    /\ Alive
    /\ tasks' = tasks \ {t}
    /\ wait' = Emptied(wait, tasks')
    /\ state' = "exception"
    /\ blockedSends' = {}
    /\ UNCHANGED <<inFlight, maxMessageSize, sent>>

\* waitAllAcked(): the controller was given up by its client, which waits for
\* it in the background and keeps it alive until then.
WaitAllAcked ==
    /\ wait = "none"
    /\ wait' = IF state = "running" /\ blockedSends # {}
               THEN "emptyFulfiller"
               ELSE Emptied("onEmpty", tasks)
    /\ UNCHANGED <<state, blockedSends, inFlight, maxMessageSize, tasks, sent>>

\* The destructor, when the connection is gone: pending promises of send()
\* are fulfilled, the tasks are cancelled.
Destroy ==
    /\ Alive
    /\ wait' = "dropped"
    /\ blockedSends' = {}
    /\ tasks' = {}
    /\ UNCHANGED <<state, inFlight, maxMessageSize, sent>>

Answer == \E t \in tasks : AckFails(t) \/ \E w \in Windows : Ack(t, w)

Next ==
    \/ \E p \in Senders, size \in Sizes, w \in Windows : Send(p, size, w)
    \/ \E p \in Senders, size \in Sizes : SendThrows(p, size)
    \/ Answer
    \/ WaitAllAcked
    \/ Destroy

Spec == Init /\ [][Next]_vars

\* The peer answers every call in the end, be it with an exception.
FairSpec == Spec /\ WF_vars(Answer)

-----------------------------------------------------------------------------

\* Backpressure works: while the stream is healthy the bytes in flight exceed
\* the window by less than one message, and by at most one more for each
\* sender that is now blocked, although each of them only learns of the full
\* window after its message has left.
StreamBounded ==
    Alive /\ state = "running" =>
        inFlight < MaxWindow + maxMessageSize + Cardinality(blockedSends) * maxMessageSize

\* waitAllAcked() does not resolve, and so cancel calls by destroying the
\* controller, before the last ack has come.
WaitNotEarly ==
    wait = "done" => tasks = {}

\* Every send() resolves, with success or with the stream's exception.
SendsResolve ==
    \A p \in Senders : p \in blockedSends ~> p \notin blockedSends

\* On a stream without failures waitAllAcked() resolves.  It does so after a
\* failure, too, unless it waits for emptyFulfiller when the ack fails.
HealthyWaitEnds ==
    /\ wait = "onEmpty" ~> ~Alive
    /\ wait = "emptyFulfiller" ~> ~Alive \/ state = "exception"

\* waitAllAcked() resolves: all the acks passed to send() finish, and the
\* promise to wait for them does too.
WaitEnds ==
    wait \in {"emptyFulfiller", "onEmpty"} ~> ~Alive

=============================================================================
