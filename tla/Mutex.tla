------------------------------- MODULE Mutex -------------------------------
(***************************************************************************)
(* kj::_::Mutex, the futex implementation of c++/src/kj/mutex.c++: a       *)
(* reader/writer lock with timeouts, and conditional waits in which the    *)
(* unlocking thread evaluates the predicate of every waiter and hands the  *)
(* locked mutex over to the first one that is ready.                       *)
(*                                                                         *)
(* One step is one atomic operation on a futex word, or one futex system   *)
(* call. Between two steps of a thread any other thread may run. Code that *)
(* touches only what the lock protects (the waiter list, the predicates)   *)
(* is part of the step before or after it.                                 *)
(***************************************************************************)
EXTENDS Naturals, Sequences, FiniteSets

CONSTANT Threads

ASSUME ThreadsAssumption == IsFiniteSet(Threads)

VARIABLES
    futex,      \* the word: exclusive held, exclusive requested, reader count
    waiters,    \* the linked list waitersHead .. waitersTail
    waiter,     \* the Waiter object on the stack of each thread
    pc,         \* where each thread is in lock(), unlock() or wait()
    state,      \* the local variable `state` of lock() and unlock()
    timed,      \* TRUE iff the thread's lock() has a timeout
    caller,     \* who called lock() / unlock(): the application, or wait()
    next,       \* position in the list of `nextWaiter` in unlock()
    target      \* the waiter whose futex unlock() is about to wake

vars == <<futex, waiters, waiter, pc, state, timed, caller, next, target>>

Word == [held : BOOLEAN, requested : BOOLEAN, shared : Nat]

Zero == [held |-> FALSE, requested |-> FALSE, shared |-> 0]

\* A free lock that a writer has asked for: the value EXCLUSIVE_REQUESTED.
RequestedOnly == [held |-> FALSE, requested |-> TRUE, shared |-> 0]

\* What check() of a waiter's predicate yields on the guarded data as it is.
Outcome == {"false", "true", "throws"}

Waiter == [futex : {0, 1}, hasTimeout : BOOLEAN, exception : BOOLEAN,
           predicate : Outcome]

NoWaiter == [futex |-> 0, hasTimeout |-> FALSE, exception |-> FALSE,
             predicate |-> "false"]

Labels ==
    {"idle", "owner", "reader",
     "lockX", "request", "sleepX", "asleepX",
     "sleepS", "asleepS", "reloadS", "timeoutS",
     "walk", "wakeOne", "release", "clear", "wakeAll",
     "cvSleep", "cvAsleep", "cvTimeout", "cvCheck"}

\* The word, the list and the threads' variables have their types; in
\* particular the reader count that lock() and unlock() move never underflows.
TypeOK ==
    /\ futex \in Word
    /\ waiters \in Seq(Threads)
    /\ waiter \in [Threads -> Waiter]
    /\ pc \in [Threads -> Labels]
    /\ state \in [Threads -> Word]
    /\ timed \in [Threads -> BOOLEAN]
    /\ caller \in [Threads -> {"app", "wait"}]
    /\ next \in [Threads -> Nat \ {0}]
    /\ target \in [Threads -> Threads]

Init ==
    /\ futex = Zero
    /\ waiters = <<>>
    /\ waiter = [t \in Threads |-> NoWaiter]
    /\ pc = [t \in Threads |-> "idle"]
    /\ state = [t \in Threads |-> Zero]
    /\ timed = [t \in Threads |-> FALSE]
    /\ caller = [t \in Threads |-> "app"]
    /\ next = [t \in Threads |-> 1]
    /\ target = [t \in Threads |-> t]

Goto(t, label) == pc' = [pc EXCEPT ![t] = label]

\* removeWaiter(): the entry of t is unlinked, the order of the others stays.
Without(list, t) ==
    LET k == CHOOSE i \in 1..Len(list) : list[i] = t
    IN  [i \in 1..(Len(list) - 1) |-> IF i < k THEN list[i] ELSE list[i + 1]]

-----------------------------------------------------------------------------
(* lock(EXCLUSIVE, timeout)                                                *)

\* The application calls lock(EXCLUSIVE), with or without a timeout.
LockExclusive(t, timeout) ==
    /\ pc[t] = "idle"
    /\ Goto(t, "lockX")
    /\ timed' = [timed EXCEPT ![t] = timeout]
    /\ UNCHANGED <<futex, waiters, waiter, state, caller, next, target>>

\* The thread has the lock: lock() returns to the application, or to wait(),
\* which unlinks its waiter and then returns to the application.
Acquired(t) ==
    /\ Goto(t, "owner")
    /\ IF caller[t] = "wait"
       THEN /\ waiters' = Without(waiters, t)
            /\ waiter' = [waiter EXCEPT ![t] = NoWaiter]
            /\ caller' = [caller EXCEPT ![t] = "app"]
       ELSE UNCHANGED <<waiters, waiter, caller>>

\* Mutant: the readers are not looked at.
TryExclusive_overReaders(t) ==
    /\ pc[t] = "lockX" /\ ~futex.held
    /\ futex' = [futex EXCEPT !.held = TRUE]
    /\ Acquired(t)
    /\ timed' = [timed EXCEPT ![t] = FALSE]
    /\ UNCHANGED <<state, next, target>>

\* Compare-exchange 0 -> EXCLUSIVE_HELD; when it fails `state` is the word.
TryExclusive(t) ==
    /\ pc[t] = "lockX"
    /\ \/ /\ futex = Zero
          /\ futex' = [Zero EXCEPT !.held = TRUE]
          /\ Acquired(t)
          /\ timed' = [timed EXCEPT ![t] = FALSE]
          /\ UNCHANGED <<state, next, target>>
       \/ /\ futex # Zero
          /\ state' = [state EXCEPT ![t] = futex]
          /\ Goto(t, IF futex.requested THEN "sleepX" ELSE "request")
          /\ UNCHANGED <<futex, waiters, waiter, timed, caller, next, target>>

\* Compare-exchange state -> state | EXCLUSIVE_REQUESTED, or start over.
SetRequested(t) ==
    /\ pc[t] = "request"
    /\ IF futex = state[t]
       THEN /\ futex' = [futex EXCEPT !.requested = TRUE]
            /\ state' = [state EXCEPT ![t] = futex']
            /\ Goto(t, "sleepX")
       ELSE /\ state' = [state EXCEPT ![t] = Zero]
            /\ Goto(t, "lockX")
            /\ UNCHANGED futex
    /\ UNCHANGED <<waiters, waiter, timed, caller, next, target>>

\* FUTEX_WAIT: sleep if the word is still the one that was seen.
SleepExclusive(t) ==
    /\ pc[t] = "sleepX"
    /\ Goto(t, IF futex = state[t] THEN "asleepX" ELSE "lockX")
    /\ state' = [state EXCEPT ![t] = Zero]
    /\ UNCHANGED <<futex, waiters, waiter, timed, caller, next, target>>

\* FUTEX_WAIT fails with ETIMEDOUT: lock() returns false. The request bit stays.
TimeoutExclusive(t) ==
    /\ pc[t] = "asleepX" /\ timed[t]
    /\ Goto(t, "idle")
    /\ timed' = [timed EXCEPT ![t] = FALSE]
    /\ UNCHANGED <<futex, waiters, waiter, state, caller, next, target>>

-----------------------------------------------------------------------------
(* lock(SHARED, timeout)                                                   *)

\* The reader adds itself to the count first and looks at the result.
LockShared(t, timeout) ==
    /\ pc[t] = "idle"
    /\ futex' = [futex EXCEPT !.shared = @ + 1]
    /\ IF futex.held
       THEN /\ Goto(t, "sleepS")
            /\ state' = [state EXCEPT ![t] = futex']
            /\ timed' = [timed EXCEPT ![t] = timeout]
       ELSE /\ Goto(t, "reader")
            /\ UNCHANGED <<state, timed>>
    /\ UNCHANGED <<waiters, waiter, caller, next, target>>

SleepShared(t) ==
    /\ pc[t] = "sleepS"
    /\ Goto(t, IF futex = state[t] THEN "asleepS" ELSE "reloadS")
    /\ state' = [state EXCEPT ![t] = Zero]
    /\ UNCHANGED <<futex, waiters, waiter, timed, caller, next, target>>

ReloadShared(t) ==
    /\ pc[t] = "reloadS"
    /\ IF futex.held
       THEN /\ Goto(t, "sleepS")
            /\ state' = [state EXCEPT ![t] = futex]
            /\ UNCHANGED timed
       ELSE /\ Goto(t, "reader")
            /\ timed' = [timed EXCEPT ![t] = FALSE]
            /\ UNCHANGED state
    /\ UNCHANGED <<futex, waiters, waiter, caller, next, target>>

TimeoutShared(t) ==
    /\ pc[t] = "asleepS" /\ timed[t]
    /\ Goto(t, "timeoutS")
    /\ timed' = [timed EXCEPT ![t] = FALSE]
    /\ UNCHANGED <<futex, waiters, waiter, state, caller, next, target>>

-----------------------------------------------------------------------------
(* unlock(SHARED), and the same steps for a reader that timed out          *)

\* Subtract one; the last reader clears a request bit that nobody owns.
DropShared(t) ==
    /\ pc[t] \in {"reader", "timeoutS"}
    /\ futex' = [futex EXCEPT !.shared = @ - 1]
    /\ Goto(t, IF futex' = RequestedOnly THEN "clear" ELSE "idle")
    /\ UNCHANGED <<waiters, waiter, state, timed, caller, next, target>>

\* Mutant: the bit is cleared without waking the writers that set it.
ClearRequested_noWake(t) ==
    /\ pc[t] = "clear"
    /\ futex' = IF futex = RequestedOnly THEN Zero ELSE futex
    /\ Goto(t, "idle")
    /\ UNCHANGED <<waiters, waiter, state, timed, caller, next, target>>

ClearRequested(t) ==
    /\ pc[t] = "clear"
    /\ IF futex = RequestedOnly
       THEN futex' = Zero /\ Goto(t, "wakeAll")
       ELSE UNCHANGED futex /\ Goto(t, "idle")
    /\ UNCHANGED <<waiters, waiter, state, timed, caller, next, target>>

-----------------------------------------------------------------------------
(* unlock(EXCLUSIVE, waiterToSkip)                                         *)

\* Where unlock() returns to.
Return(t) == IF caller[t] = "wait" THEN "cvSleep" ELSE "idle"

\* Mutant: the conditional waiters are not looked at.
UnlockExclusive_noWalk(t) ==
    /\ pc[t] = "owner"
    /\ Goto(t, "release")
    /\ UNCHANGED <<futex, waiters, waiter, state, timed, caller, next, target>>

UnlockExclusive(t) ==
    /\ pc[t] = "owner"
    /\ Goto(t, "walk")
    /\ next' = [next EXCEPT ![t] = 1]
    /\ UNCHANGED <<futex, waiters, waiter, state, timed, caller, target>>

\* Mutant: the predicate is not evaluated.
Ready_always(w) == TRUE

\* checkPredicate(): a predicate that throws counts as ready, its exception is
\* kept for the waiting thread, and it is not run again.
Ready(w) == waiter[w].exception \/ waiter[w].predicate # "false"

Throws(w) == waiter[w].exception \/ waiter[w].predicate = "throws"

\* One turn of the loop over the waiters. The lock is given to a ready waiter
\* unless that thread has timed out and set its own futex already.
WalkWaiters(t) ==
    /\ pc[t] = "walk"
    /\ \/ /\ next[t] > Len(waiters)
          /\ Goto(t, "release")
          /\ next' = [next EXCEPT ![t] = 1]
          /\ UNCHANGED <<waiter, target>>
       \/ /\ next[t] <= Len(waiters)
          /\ LET w == waiters[next[t]]
                 skip == caller[t] = "wait" /\ w = t
                 cas == ~waiter[w].hasTimeout \/ waiter[w].futex = 0
             IN \/ /\ skip \/ ~Ready(w)
                   /\ next' = [next EXCEPT ![t] = @ + 1]
                   /\ UNCHANGED <<waiter, pc, target>>
                \/ /\ ~skip /\ Ready(w) /\ ~cas
                   /\ waiter' = [waiter EXCEPT ![w].exception = Throws(w)]
                   /\ next' = [next EXCEPT ![t] = @ + 1]
                   /\ UNCHANGED <<pc, target>>
                \/ /\ ~skip /\ Ready(w) /\ cas
                   /\ waiter' = [waiter EXCEPT ![w] =
                                    [@ EXCEPT !.exception = Throws(w), !.futex = 1]]
                   /\ target' = [target EXCEPT ![t] = w]
                   /\ next' = [next EXCEPT ![t] = 1]
                   /\ Goto(t, "wakeOne")
    /\ UNCHANGED <<futex, waiters, state, timed, caller>>

\* FUTEX_WAKE on the futex of the waiter that now owns the lock.
WakeWaiter(t) ==
    /\ pc[t] = "wakeOne"
    /\ pc' = [u \in Threads |->
                IF u = t THEN Return(t)
                ELSE IF u = target[t] /\ pc[u] = "cvAsleep" THEN "cvCheck"
                ELSE pc[u]]
    /\ target' = [target EXCEPT ![t] = t]
    /\ UNCHANGED <<futex, waiters, waiter, state, timed, caller, next>>

\* Mutant: only writers are thought to wait.
ReleaseExclusive_writersOnly(t) ==
    /\ pc[t] = "release"
    /\ futex' = [futex EXCEPT !.held = FALSE, !.requested = FALSE]
    /\ Goto(t, IF futex.requested THEN "wakeAll" ELSE Return(t))
    /\ UNCHANGED <<waiters, waiter, state, timed, caller, next, target>>

\* Nobody took the lock over: clear both bits; wake everybody if anyone waits.
ReleaseExclusive(t) ==
    /\ pc[t] = "release"
    /\ futex' = [futex EXCEPT !.held = FALSE, !.requested = FALSE]
    /\ Goto(t, IF futex.requested \/ futex.shared > 0 THEN "wakeAll"
               ELSE Return(t))
    /\ UNCHANGED <<waiters, waiter, state, timed, caller, next, target>>

\* FUTEX_WAKE of all the threads asleep on the mutex word.
WakeAll(t) ==
    /\ pc[t] = "wakeAll"
    /\ pc' = [u \in Threads |->
                CASE u = t -> Return(t)
                  [] u # t /\ pc[u] = "asleepX" -> "lockX"
                  [] u # t /\ pc[u] = "asleepS" -> "reloadS"
                  [] OTHER -> pc[u]]
    /\ UNCHANGED <<futex, waiters, waiter, state, timed, caller, next, target>>

-----------------------------------------------------------------------------
(* wait(predicate, timeout)                                                *)

\* The owner calls wait(), links a waiter, and its predicate is false. (If the
\* predicate is true or throws, wait() unlinks the waiter and returns at once.)
Wait(t, timeout) ==
    /\ pc[t] = "owner"
    /\ waiters' = Append(waiters, t)
    /\ waiter' = [waiter EXCEPT ![t] = [NoWaiter EXCEPT !.hasTimeout = timeout]]
    /\ caller' = [caller EXCEPT ![t] = "wait"]
    /\ next' = [next EXCEPT ![t] = 1]
    /\ Goto(t, "walk")
    /\ UNCHANGED <<futex, state, timed, target>>

\* FUTEX_WAIT_BITSET on the waiter's own futex, expecting 0.
SleepWaiter(t) ==
    /\ pc[t] = "cvSleep"
    /\ Goto(t, IF waiter[t].futex = 0 THEN "cvAsleep" ELSE "cvCheck")
    /\ UNCHANGED <<futex, waiters, waiter, state, timed, caller, next, target>>

TimeoutWaiter(t) ==
    /\ pc[t] = "cvAsleep" /\ waiter[t].hasTimeout
    /\ Goto(t, "cvTimeout")
    /\ UNCHANGED <<futex, waiters, waiter, state, timed, caller, next, target>>

\* Mutant: a hand-over that came together with the timeout is overlooked.
TakeDestiny_store(t) ==
    /\ pc[t] = "cvTimeout"
    /\ waiter' = [waiter EXCEPT ![t].futex = 1]
    /\ Goto(t, "lockX")
    /\ UNCHANGED <<futex, waiters, state, timed, caller, next, target>>

\* After ETIMEDOUT: compare-exchange 0 -> 1 on the own futex. Success means that
\* nobody will hand the lock over, so the thread locks the mutex itself.
TakeDestiny(t) ==
    /\ pc[t] = "cvTimeout"
    /\ IF waiter[t].futex = 0
       THEN /\ waiter' = [waiter EXCEPT ![t].futex = 1]
            /\ Goto(t, "lockX")
       ELSE /\ Goto(t, "cvCheck")
            /\ UNCHANGED waiter
    /\ UNCHANGED <<futex, waiters, state, timed, caller, next, target>>

\* FUTEX_WAIT returned: either the lock was handed over, or sleep again.
CheckWaiter(t) ==
    /\ pc[t] = "cvCheck"
    /\ IF waiter[t].futex = 1
       THEN Acquired(t)
       ELSE Goto(t, "cvSleep") /\ UNCHANGED <<waiters, waiter, caller>>
    /\ UNCHANGED <<futex, state, timed, next, target>>

-----------------------------------------------------------------------------
(* The environment: guarded data and the kernel                            *)

\* The owner changes the guarded data, and with it what some waiting thread's
\* predicate evaluates to.
Mutate(t, w, outcome) ==
    /\ pc[t] = "owner"
    /\ \E i \in 1..Len(waiters) : waiters[i] = w
    /\ waiter' = [waiter EXCEPT ![w].predicate = outcome]
    /\ UNCHANGED <<futex, waiters, pc, state, timed, caller, next, target>>

\* FUTEX_WAIT may return without a wake, a signal or a timeout.
SpuriousWake(t) ==
    /\ \/ pc[t] = "asleepX" /\ Goto(t, "lockX")
       \/ pc[t] = "asleepS" /\ Goto(t, "reloadS")
       \/ pc[t] = "cvAsleep" /\ Goto(t, "cvCheck")
    /\ UNCHANGED <<futex, waiters, waiter, state, timed, caller, next, target>>

\* The steps that a thread takes once it runs, without a choice by the caller.
Step(t) ==
    \/ TryExclusive(t) \/ SetRequested(t) \/ SleepExclusive(t)
    \/ SleepShared(t) \/ ReloadShared(t)
    \/ DropShared(t) \/ ClearRequested(t)
    \/ WalkWaiters(t) \/ WakeWaiter(t) \/ ReleaseExclusive(t) \/ WakeAll(t)
    \/ SleepWaiter(t) \/ TakeDestiny(t) \/ CheckWaiter(t)

Timeout(t) == TimeoutExclusive(t) \/ TimeoutShared(t) \/ TimeoutWaiter(t)

Next ==
    \E t \in Threads :
        \/ \E b \in BOOLEAN :
              LockExclusive(t, b) \/ LockShared(t, b) \/ Wait(t, b)
        \/ UnlockExclusive(t)
        \/ \E w \in Threads, o \in Outcome : Mutate(t, w, o)
        \/ Step(t)
        \/ Timeout(t)
        \/ SpuriousWake(t)

Spec == Init /\ [][Next]_vars

\* A thread that can run runs, the application releases what it locked, and a
\* sleep with a timeout does not outlast the timeout. Wakes nobody asked for
\* and calls into the mutex are left to chance.
Fairness ==
    \A t \in Threads : /\ WF_vars(Step(t))
                       /\ WF_vars(UnlockExclusive(t))
                       /\ WF_vars(Timeout(t))

FairSpec == Spec /\ Fairness

-----------------------------------------------------------------------------
(* Properties                                                              *)

\* The lock was handed to t, which has not noticed it yet.
Transferred(t) ==
    /\ pc[t] \in {"wakeOne", "wakeAll", "cvSleep", "cvAsleep", "cvTimeout", "cvCheck"}
    /\ waiter[t].futex = 1

\* t is responsible for the exclusive lock.
Holds(t) == pc[t] \in {"owner", "walk", "release"} \/ Transferred(t)

\* The lock is held by one thread exclusively, or by readers, or by nobody; a
\* handed-over lock counts as held by the waiter from the moment unlock() sets
\* the waiter's futex, also when the waiter's timeout expires at that moment.
MutualExclusion ==
    \A t, u \in Threads :
        Holds(t) /\ (Holds(u) \/ pc[u] = "reader") => t = u

\* wait() returns through a hand-over only if the predicate is true of the data
\* as it is then, or it threw: "may in fact evaluate false, but only if the
\* timeout was reached" (mutex.h, when()).
ReturnsReady ==
    \A t \in Threads :
        Transferred(t) => waiter[t].exception \/ waiter[t].predicate = "true"

\* unlock() leaves no ready waiter behind: while nobody holds the lock
\* exclusively, a linked waiter has a false predicate, unless it has timed out
\* and is on its way to lock the mutex itself. Readers need not look at the
\* list, "since under a shared lock the state couldn't have changed".
NoReadyWaiterLeft ==
    ~futex.held =>
        \A i \in 1..Len(waiters) :
            waiter[waiters[i]].predicate # "false" => waiter[waiters[i]].futex = 1

\* No wake-up is lost. A thread asleep on the mutex word is accounted for in the
\* word, or somebody is about to wake it; the same for a waiter asleep on its
\* own futex after the lock was handed to it.
NoLostWakeup ==
    \A t \in Threads :
        /\ pc[t] = "asleepX" =>
              \/ futex.requested /\ (futex.held \/ futex.shared > 0)
              \/ \E u \in Threads : pc[u] = "wakeAll"
              \/ futex.requested /\ \E u \in Threads : pc[u] = "clear"
        /\ pc[t] = "asleepS" =>
              futex.held \/ \E u \in Threads : pc[u] = "wakeAll"
        /\ pc[t] = "cvAsleep" /\ waiter[t].futex = 1 =>
              \E u \in Threads : pc[u] = "wakeOne" /\ target[u] = t

\* A thread that was handed the lock comes back from wait() with it.
HandoverArrives ==
    \A t \in Threads : Transferred(t) ~> pc[t] = "owner"

\* A reader that waits on a lock no writer holds any more gets it, unless its
\* timeout expires first: no writer can overtake it once it is counted.
ReadersAdmitted ==
    \A t \in Threads :
        pc[t] \in {"sleepS", "asleepS", "reloadS"} /\ ~futex.held
            ~> pc[t] \in {"reader", "timeoutS"}

\* When the lock is free and a writer sleeps on it, somebody takes the lock or
\* the writer gives up: a free lock is never slept on for ever.
FreeLockTaken ==
    \A t \in Threads :
        pc[t] = "asleepX" /\ futex = Zero
            ~> pc[t] = "idle" \/ \E u \in Threads : pc[u] \in {"owner", "reader"}

=============================================================================
