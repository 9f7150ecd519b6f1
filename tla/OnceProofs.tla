----------------------------- MODULE OnceProofs -----------------------------
(***************************************************************************)
(* Proofs about Once for any set of threads.                               *)
(***************************************************************************)
EXTENDS Once, TLAPS

\* The word says whether an initializer runs, and whether one has succeeded.
WordOK ==
    /\ \A t \in Threads :
          pc[t] = "run" => futex \in {"INITIALIZING", "INITIALIZING_WITH_WAITERS"}
    /\ \A t, u \in Threads : pc[t] = "run" /\ pc[u] = "run" => t = u
    /\ IF futex = "INITIALIZED" THEN done = 1 ELSE done = 0

\* A thread in the loop that has seen INITIALIZED has seen the latest value.
SeenOK ==
    \A t \in Threads :
        pc[t] = "look" /\ state[t] = "INITIALIZED" => futex = "INITIALIZED"

Inv == TypeOK /\ WordOK /\ SeenOK

\* A fresh Once is in agreement with its word.
LEMMA InitInv == Init => Inv
BY DEF Init, Inv, TypeOK, State, WordOK, SeenOK

\* Every step keeps the word in agreement with the threads.
LEMMA StepInv == Inv /\ [Next]_vars => Inv'
<1> SUFFICES ASSUME Inv, [Next]_vars PROVE Inv'
  OBVIOUS
<1> USE DEF Inv, TypeOK, State, WordOK, SeenOK, Goto, Saw
<1>1. CASE Reset
  BY <1>1 DEF Reset
<1>2. ASSUME NEW t \in Threads, RunOnce(t) PROVE Inv'
  BY <1>2 DEF RunOnce
<1>3. ASSUME NEW t \in Threads, TryInit(t) PROVE Inv'
  BY <1>3 DEF TryInit
<1>4. ASSUME NEW t \in Threads, Succeed(t) PROVE Inv'
  BY <1>4 DEF Succeed, Publish
<1>5. ASSUME NEW t \in Threads, Throw(t) PROVE Inv'
  BY <1>5 DEF Throw, Publish
<1>6. ASSUME NEW t \in Threads, Wake(t) PROVE Inv'
  BY <1>6 DEF Wake
<1>7. ASSUME NEW t \in Threads, Look(t) PROVE Inv'
  BY <1>7 DEF Look
<1>8. ASSUME NEW t \in Threads, Sleep(t) \/ SpuriousWake(t) PROVE Inv'
  BY <1>8 DEF Sleep, SpuriousWake
<1>9. ASSUME NEW t \in Threads, Load(t) PROVE Inv'
  BY <1>9 DEF Load
<1>10. CASE UNCHANGED vars
  BY <1>10 DEF vars
<1> QED
  BY <1>1, <1>2, <1>3, <1>4, <1>5, <1>6, <1>7, <1>8, <1>9, <1>10 DEF Next, Step

\* So the word agrees with the threads for ever.
LEMMA Invariance == Spec => []Inv
  BY InitInv, StepInv, PTL DEF Spec

\* For any number of callers of runOnce(), at most one initializer succeeds
\* between two resets, and none runs beside or after it.
THEOREM RunsExactlyOnce == Spec => []ExactlyOnce
<1>1. Inv => ExactlyOnce
  BY DEF Inv, WordOK, ExactlyOnce
<1> QED
  BY <1>1, Invariance, PTL

\* A thread that waited in runOnce() returns only after an initializer succeeded.
THEOREM WaitersSeeSuccess == Spec => ReturnsInitialized
<1> DEFINE A == \A t \in Threads : pc[t] = "look" /\ pc'[t] = "idle" => done = 1
<1>1. Inv /\ [Next]_vars => [A]_vars
  <2> SUFFICES ASSUME Inv, [Next]_vars, NEW t \in Threads,
                      pc[t] = "look", pc'[t] = "idle"
               PROVE  done = 1
    BY DEF vars
  <2> USE DEF Inv, TypeOK, Goto, Saw
  <2>1. CASE Reset
    BY <2>1 DEF Reset
  <2>2. ASSUME NEW u \in Threads, RunOnce(u) \/ TryInit(u) \/ SpuriousWake(u)
        PROVE  FALSE
    BY <2>2 DEF RunOnce, TryInit, SpuriousWake
  <2>3. ASSUME NEW u \in Threads, Succeed(u) \/ Throw(u) \/ Wake(u) PROVE FALSE
    BY <2>3 DEF Succeed, Throw, Publish, Wake
  <2>4. ASSUME NEW u \in Threads, Sleep(u) \/ Load(u) PROVE FALSE
    BY <2>4 DEF Sleep, Load
  <2>5. ASSUME NEW u \in Threads, Look(u) PROVE done = 1
    BY <2>5 DEF Look, SeenOK, WordOK
  <2>6. CASE UNCHANGED vars
    BY <2>6 DEF vars
  <2> QED BY <2>1, <2>2, <2>3, <2>4, <2>5, <2>6 DEF Next, Step
<1> QED
  BY <1>1, Invariance, PTL DEF Spec, ReturnsInitialized

=============================================================================
