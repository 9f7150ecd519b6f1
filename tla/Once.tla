-------------------------------- MODULE Once --------------------------------
(***************************************************************************)
(* kj::_::Once, the futex implementation of c++/src/kj/mutex.c++: several  *)
(* threads call runOnce(), one of them runs the initializer, the others    *)
(* sleep until it is done, or has thrown and another one must try.         *)
(*                                                                         *)
(* A step is one atomic operation on the word or one futex system call.    *)
(* The weak compare-exchange of the waiters may fail for no reason; such a *)
(* failure changes nothing and is a stuttering step.                       *)
(***************************************************************************)
EXTENDS Naturals

CONSTANT Threads

VARIABLES
    futex,      \* the word
    pc,         \* where each thread is in runOnce()
    state,      \* the local variable `state` of runOnce()
    done        \* history: initializers that succeeded since the last reset()

vars == <<futex, pc, state, done>>

State == {"UNINITIALIZED", "INITIALIZING", "INITIALIZING_WITH_WAITERS", "INITIALIZED"}

\* The word and the threads' variables have their types.
TypeOK ==
    /\ futex \in State
    /\ pc \in [Threads -> {"idle", "start", "run", "wake",
                           "look", "sleep", "asleep", "load"}]
    /\ state \in [Threads -> State]
    /\ done \in Nat

Init ==
    /\ futex = "UNINITIALIZED"
    /\ pc = [t \in Threads |-> "idle"]
    /\ state = [t \in Threads |-> "UNINITIALIZED"]
    /\ done = 0

Goto(t, label) == pc' = [pc EXCEPT ![t] = label]

Saw(t, value) == state' = [state EXCEPT ![t] = value]

RunOnce(t) ==
    /\ pc[t] = "idle"
    /\ Goto(t, "start")
    /\ UNCHANGED <<futex, state, done>>

\* Compare-exchange UNINITIALIZED -> INITIALIZING decides who initializes.
TryInit(t) ==
    /\ pc[t] = "start"
    /\ IF futex = "UNINITIALIZED"
       THEN futex' = "INITIALIZING" /\ Goto(t, "run") /\ UNCHANGED state
       ELSE Goto(t, "look") /\ Saw(t, futex) /\ UNCHANGED futex
    /\ UNCHANGED done

\* init.run() returned, or threw: publish the outcome and see who waits.
Publish(t, outcome) ==
    /\ pc[t] = "run"
    /\ futex' = outcome
    /\ Goto(t, IF futex = "INITIALIZING_WITH_WAITERS" THEN "wake" ELSE "idle")
    /\ UNCHANGED state

Succeed(t) == Publish(t, "INITIALIZED") /\ done' = done + 1

\* Mutant: an initializer that throws does not wake the threads that wait.
Throw_noWake(t) ==
    /\ pc[t] = "run"
    /\ futex' = "UNINITIALIZED"
    /\ Goto(t, "idle")
    /\ UNCHANGED <<state, done>>

Throw(t) == Publish(t, "UNINITIALIZED") /\ UNCHANGED done

\* FUTEX_WAKE of everybody asleep on the word; runOnce() returns or throws.
Wake(t) ==
    /\ pc[t] = "wake"
    /\ pc' = [u \in Threads |-> IF u = t THEN "idle"
                                ELSE IF pc[u] = "asleep" THEN "load"
                                ELSE pc[u]]
    /\ UNCHANGED <<futex, state, done>>

\* Mutant: the waiter leaves when the word changed under it.
Look_leave(t) ==
    /\ pc[t] = "look"
    /\ \/ /\ state[t] = "INITIALIZED" \/ futex # "INITIALIZING"
          /\ Goto(t, "idle") /\ Saw(t, "UNINITIALIZED")
          /\ UNCHANGED futex
       \/ /\ state[t] = "INITIALIZING" /\ futex = "INITIALIZING"
          /\ futex' = "INITIALIZING_WITH_WAITERS"
          /\ Goto(t, "sleep") /\ UNCHANGED state
       \/ /\ state[t] = "INITIALIZING_WITH_WAITERS"
          /\ Goto(t, "sleep") /\ UNCHANGED <<futex, state>>
    /\ UNCHANGED done

\* One turn of the waiter's loop: return, or announce itself, or go to sleep. The
\* release build sleeps on any other value, too; FUTEX_WAIT then returns at once.
Look(t) ==
    /\ pc[t] = "look"
    /\ \/ /\ state[t] = "INITIALIZED"
          /\ Goto(t, "idle") /\ Saw(t, "UNINITIALIZED")
          /\ UNCHANGED futex
       \/ /\ state[t] = "INITIALIZING" /\ futex = "INITIALIZING"
          /\ futex' = "INITIALIZING_WITH_WAITERS"
          /\ Goto(t, "sleep") /\ UNCHANGED state
       \/ /\ state[t] = "INITIALIZING" /\ futex # "INITIALIZING"
          /\ Saw(t, futex)
          /\ UNCHANGED <<futex, pc>>
       \/ /\ state[t] \in {"INITIALIZING_WITH_WAITERS", "UNINITIALIZED"}
          /\ Goto(t, "sleep") /\ UNCHANGED <<futex, state>>
    /\ UNCHANGED done

\* FUTEX_WAIT expecting INITIALIZING_WITH_WAITERS.
Sleep(t) ==
    /\ pc[t] = "sleep"
    /\ Goto(t, IF futex = "INITIALIZING_WITH_WAITERS" THEN "asleep" ELSE "load")
    /\ UNCHANGED <<futex, state, done>>

SpuriousWake(t) ==
    /\ pc[t] = "asleep"
    /\ Goto(t, "load")
    /\ UNCHANGED <<futex, state, done>>

\* Mutant: whoever wakes up and is not told INITIALIZED takes over without
\* competing for it.
Load_takeOver(t) ==
    /\ pc[t] = "load"
    /\ Goto(t, IF futex = "UNINITIALIZED" THEN "run" ELSE "look")
    /\ Saw(t, futex)
    /\ UNCHANGED <<futex, done>>

\* Load the word: start over if the initializer gave up.
Load(t) ==
    /\ pc[t] = "load"
    /\ Goto(t, IF futex = "UNINITIALIZED" THEN "start" ELSE "look")
    /\ Saw(t, futex)
    /\ UNCHANGED <<futex, done>>

\* reset(); its caller makes sure that no thread is inside runOnce().
Reset ==
    /\ \A t \in Threads : pc[t] = "idle"
    /\ futex = "INITIALIZED"
    /\ futex' = "UNINITIALIZED"
    /\ done' = 0
    /\ UNCHANGED <<pc, state>>

Step(t) ==
    \/ TryInit(t) \/ Succeed(t) \/ Throw(t) \/ Wake(t)
    \/ Look(t) \/ Sleep(t) \/ Load(t)

Next == Reset \/ \E t \in Threads : RunOnce(t) \/ Step(t) \/ SpuriousWake(t)

Spec == Init /\ [][Next]_vars

\* Threads run and initializers come to an end, with or without success. Calls
\* and resets are up to the application.
FairSpec == Spec /\ \A t \in Threads : WF_vars(Step(t))

-----------------------------------------------------------------------------
\* Between two resets at most one initializer succeeds, and none runs while
\* another one does or after one has succeeded.
ExactlyOnce ==
    /\ done <= 1
    /\ \A t, u \in Threads : pc[t] = "run" => done = 0 /\ (pc[u] = "run" => t = u)

\* runOnce() returns to a thread that has not run the initializer itself only
\* when an initializer has succeeded.
ReturnsInitialized ==
    [][\A t \in Threads : pc[t] = "look" /\ pc'[t] = "idle" => done = 1]_vars

\* Whoever waits for an initializer stops waiting when it has succeeded or
\* thrown: "Someone was waiting for us to finish."
WaiterReleased ==
    \A t \in Threads : pc[t] = "asleep" ~> pc[t] # "asleep"

\* The assertion in the loop of a waiting thread: a value of `state` other than
\* INITIALIZED and INITIALIZING is INITIALIZING_WITH_WAITERS.
WaiterAssertion ==
    \A t \in Threads : pc[t] = "look" => state[t] # "UNINITIALIZED"

=============================================================================
