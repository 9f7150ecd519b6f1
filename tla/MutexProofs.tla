---------------------------- MODULE MutexProofs ----------------------------
(***************************************************************************)
(* Proofs about Mutex for any finite set of threads.                       *)
(***************************************************************************)
EXTENDS Mutex, FiniteSetTheorems, TLAPS

\* t has added itself to the reader count of the word.
Counted(t) == pc[t] \in {"reader", "sleepS", "asleepS", "reloadS", "timeoutS"}

\* The waiter of t is in the list.
Linked(t) == \E i \in 1..Len(waiters) : waiters[i] = t

InLockX(t) == pc[t] \in {"lockX", "request", "sleepX", "asleepX"}

InWait(t) == pc[t] \in {"cvSleep", "cvAsleep", "cvTimeout", "cvCheck"}

\* The list holds the waiter of every thread inside wait(), once.
ListOK ==
    /\ \A i, j \in 1..Len(waiters) : waiters[i] = waiters[j] => i = j
    /\ \A t \in Threads : caller[t] = "wait" <=> Linked(t)

\* Where a thread may be inside wait(), and what its waiter's futex says there.
WaiterAt(t) ==
    /\ caller[t] = "wait" =>
          /\ \/ InLockX(t) \/ InWait(t)
             \/ pc[t] \in {"walk", "release", "wakeOne", "wakeAll"}
          /\ ~timed[t]
    /\ InWait(t) => caller[t] = "wait"
    /\ caller[t] = "app" => waiter[t].futex = 0
    /\ pc[t] \in {"walk", "release"} => waiter[t].futex = 0
    /\ caller[t] = "wait" /\ InLockX(t) =>
          waiter[t].futex = 1 /\ waiter[t].hasTimeout
    /\ pc[t] = "cvTimeout" => waiter[t].hasTimeout
    /\ timed[t] => InLockX(t) \/ pc[t] \in {"sleepS", "asleepS", "reloadS"}

WaiterOK == \A t \in Threads : WaiterAt(t)

\* The word counts the readers, and those that wait to be one.
CountOK == futex.shared = Cardinality({t \in Threads : Counted(t)})

\* The held bit says whether somebody holds the lock exclusively.
OwnerOK ==
    /\ \A t, u \in Threads : Holds(t) /\ Holds(u) => t = u
    /\ futex.held <=> \E t \in Threads : Holds(t)
    /\ \A t \in Threads : pc[t] = "reader" => ~futex.held

IInv == TypeOK /\ ListOK /\ WaiterOK /\ CountOK /\ OwnerOK

\* No waiter comes before the first one.
LEMMA NoneBelowFirst == \A n : \A i \in 1..n : ~(i < 1)
  OBVIOUS

\* removeWaiter() on a list without repetitions removes t and nothing else.
LEMMA WithoutFacts ==
    ASSUME NEW list \in Seq(Threads), NEW t \in Threads,
           \A i, j \in 1..Len(list) : list[i] = list[j] => i = j,
           \E i \in 1..Len(list) : list[i] = t
    PROVE  /\ Without(list, t) \in Seq(Threads)
           /\ Len(Without(list, t)) = Len(list) - 1
           /\ \A i, j \in 1..Len(Without(list, t)) :
                 Without(list, t)[i] = Without(list, t)[j] => i = j
           /\ \A i \in 1..Len(Without(list, t)) : Without(list, t)[i] # t
           /\ \A i \in 1..Len(Without(list, t)) :
                 \E j \in 1..Len(list) : Without(list, t)[i] = list[j]
           /\ \A j \in 1..Len(list) : list[j] # t =>
                 \E i \in 1..Len(Without(list, t)) : Without(list, t)[i] = list[j]
<1> DEFINE k == CHOOSE i \in 1..Len(list) : list[i] = t
           r == [i \in 1..(Len(list) - 1) |->
                    IF i < k THEN list[i] ELSE list[i + 1]]
<1>1. k \in 1..Len(list) /\ list[k] = t
  BY Zenon
<1>2. Len(list) \in Nat /\ Len(list) - 1 \in Nat
  BY <1>1
<1> HIDE DEF k
<1>3. r \in Seq(Threads) /\ Len(r) = Len(list) - 1
  BY <1>1, <1>2
<1>4. \A i, j \in 1..Len(r) : r[i] = r[j] => i = j
  BY <1>1, <1>2, <1>3
<1>5. \A i \in 1..Len(r) : r[i] # t
  BY <1>1, <1>2, <1>3
<1>6. \A i \in 1..Len(r) : \E j \in 1..Len(list) : r[i] = list[j]
  BY <1>1, <1>2, <1>3
<1>7. ASSUME NEW j \in 1..Len(list), list[j] # t
      PROVE  \E i \in 1..Len(r) : r[i] = list[j]
  <2>1. CASE j < k
    <3>1. j \in 1..Len(r) /\ r[j] = list[j]
      BY <1>1, <1>2, <1>3, <2>1
    <3> QED BY <3>1, Zenon
  <2>2. CASE j > k
    <3>1. j - 1 \in 1..Len(r) /\ r[j - 1] = list[j]
      BY <1>1, <1>2, <1>3, <2>2
    <3> QED BY <3>1, Zenon
  <2>3. j < k \/ j > k
    BY <1>1, <1>2, <1>7
  <2> QED BY <2>1, <2>2, <2>3, Zenon
<1>8. Without(list, t) = r
  BY Zenon DEF Without, k
<1> HIDE DEF r
<1> QED
  BY <1>3, <1>4, <1>5, <1>6, <1>7, <1>8, SMTT(40)

\* A new mutex satisfies the invariant.
LEMMA InitInv == Init => IInv
<1> SUFFICES ASSUME Init PROVE IInv
  BY Zenon
<1> USE DEF Init
<1>1. TypeOK
  BY DEF TypeOK, Word, Zero, Waiter, NoWaiter, Outcome, Labels
<1>2. ListOK
  BY DEF ListOK, Linked
<1>3. WaiterOK
  BY Zenon DEF WaiterOK, WaiterAt, InLockX, InWait, NoWaiter
<1>4. CountOK
  <2>1. {t \in Threads : Counted(t)} = {}
    BY Zenon DEF Counted
  <2> QED BY <2>1, FS_EmptySet, Zenon DEF CountOK, Zero
<1>5. OwnerOK
  BY Zenon DEF OwnerOK, Holds, Transferred, Zero
<1> QED
  BY <1>1, <1>2, <1>3, <1>4, <1>5, Zenon DEF IInv

\* A thread counted in the word makes the count positive.
LEMMA CountedPositive ==
    ASSUME CountOK, NEW t \in Threads, Counted(t)
    PROVE  futex.shared \in Nat \ {0}
<1> DEFINE C == {u \in Threads : Counted(u)}
<1>1. IsFiniteSet(C) /\ t \in C
  BY ThreadsAssumption, FS_Subset, Zenon
<1>2. Cardinality(C) \in Nat /\ Cardinality(C) # 0
  BY <1>1, FS_CardinalityType, FS_EmptySet, Zenon
<1> QED
  BY <1>2, Zenon DEF CountOK

\* The operations on the word and on the waiters keep the types.
LEMMA WordFacts ==
    ASSUME NEW w \in Word
    PROVE  /\ Zero \in Word
           /\ [Zero EXCEPT !.held = TRUE] \in Word
           /\ [w EXCEPT !.shared = @ + 1] \in Word
           /\ [w EXCEPT !.requested = TRUE] \in Word
           /\ [w EXCEPT !.held = FALSE, !.requested = FALSE] \in Word
           /\ w.shared \in Nat \ {0} => [w EXCEPT !.shared = @ - 1] \in Word
<1>1. Zero \in Word /\ [Zero EXCEPT !.held = TRUE] \in Word
  BY Zenon DEF Word, Zero
<1>2. [w EXCEPT !.shared = @ + 1] \in Word
  BY DEF Word
<1>3. [w EXCEPT !.requested = TRUE] \in Word
  BY Zenon DEF Word
<1>4. [w EXCEPT !.held = FALSE, !.requested = FALSE] \in Word
  BY Zenon DEF Word
<1>5. w.shared \in Nat \ {0} => [w EXCEPT !.shared = @ - 1] \in Word
  BY DEF Word
<1> QED
  BY <1>1, <1>2, <1>3, <1>4, <1>5, Zenon

\* The updates of a Waiter keep its type.
LEMMA WaiterFacts ==
    ASSUME NEW f \in [Threads -> Waiter], NEW t \in Threads
    PROVE  /\ f[t].exception \in BOOLEAN
           /\ [f EXCEPT ![t] = NoWaiter] \in [Threads -> Waiter]
           /\ [f EXCEPT ![t].futex = 1] \in [Threads -> Waiter]
           /\ \A o \in Outcome : [f EXCEPT ![t].predicate = o] \in [Threads -> Waiter]
           /\ \A b \in BOOLEAN :
                 /\ [f EXCEPT ![t] = [NoWaiter EXCEPT !.hasTimeout = b]]
                       \in [Threads -> Waiter]
                 /\ [f EXCEPT ![t].exception = b] \in [Threads -> Waiter]
                 /\ [f EXCEPT ![t] = [@ EXCEPT !.exception = b, !.futex = 1]]
                       \in [Threads -> Waiter]
<1>1. f[t].exception \in BOOLEAN
  BY Zenon DEF Waiter
<1>2. [f EXCEPT ![t] = NoWaiter] \in [Threads -> Waiter]
  BY Zenon DEF Waiter, NoWaiter, Outcome
<1>3. [f EXCEPT ![t].futex = 1] \in [Threads -> Waiter]
  BY Zenon DEF Waiter
<1>4. ASSUME NEW o \in Outcome
      PROVE  [f EXCEPT ![t].predicate = o] \in [Threads -> Waiter]
  BY Zenon DEF Waiter
<1>5. ASSUME NEW b \in BOOLEAN
      PROVE  [f EXCEPT ![t] = [NoWaiter EXCEPT !.hasTimeout = b]]
                \in [Threads -> Waiter]
  BY Zenon DEF Waiter, NoWaiter, Outcome
<1>6. ASSUME NEW b \in BOOLEAN
      PROVE  [f EXCEPT ![t].exception = b] \in [Threads -> Waiter]
  BY Zenon DEF Waiter
<1>7. ASSUME NEW b \in BOOLEAN
      PROVE  [f EXCEPT ![t] = [@ EXCEPT !.exception = b, !.futex = 1]]
                \in [Threads -> Waiter]
  BY Zenon DEF Waiter
<1> QED
  BY <1>1, <1>2, <1>3, <1>4, <1>5, <1>6, <1>7, Zenon

\* A jump to a label keeps the type of pc.
LEMMA GotoType ==
    ASSUME pc \in [Threads -> Labels], NEW t \in Threads, NEW l \in Labels, Goto(t, l)
    PROVE  pc' \in [Threads -> Labels]
BY Zenon DEF Goto

\* Coming back with the lock keeps the types of what wait() changes then.
LEMMA AcquiredType ==
    ASSUME TypeOK, ListOK, NEW t \in Threads, Acquired(t)
    PROVE  /\ waiters' \in Seq(Threads)
           /\ waiter' \in [Threads -> Waiter]
           /\ caller' \in [Threads -> {"app", "wait"}]
           /\ pc' \in [Threads -> Labels]
<1>1. pc' \in [Threads -> Labels]
  BY GotoType, Zenon DEF TypeOK, Acquired, Labels
<1>2. CASE caller[t] = "wait"
  <2>1. Without(waiters, t) \in Seq(Threads)
    BY <1>2, WithoutFacts, Zenon DEF ListOK, Linked, TypeOK
  <2>a. waiter \in [Threads -> Waiter]
    BY Zenon DEF TypeOK
  <2>b. waiter' = [waiter EXCEPT ![t] = NoWaiter]
    BY <1>2, Zenon DEF Acquired
  <2>2. waiter' \in [Threads -> Waiter]
    BY <2>a, <2>b, WaiterFacts, Zenon
  <2>3. caller' \in [Threads -> {"app", "wait"}]
    BY <1>2, Zenon DEF Acquired, TypeOK
  <2> QED BY <1>1, <1>2, <2>1, <2>2, <2>3, Zenon DEF Acquired
<1>3. CASE caller[t] # "wait"
  BY <1>1, <1>3, Zenon DEF Acquired, TypeOK
<1> QED
  BY <1>2, <1>3, Zenon

\* Every step keeps the types.
LEMMA TypeStep == IInv /\ Next => TypeOK'
<1> SUFFICES ASSUME IInv, NEW t \in Threads,
                    \/ \E b \in BOOLEAN :
                          LockExclusive(t, b) \/ LockShared(t, b) \/ Wait(t, b)
                    \/ UnlockExclusive(t)
                    \/ \E w \in Threads, o \in Outcome : Mutate(t, w, o)
                    \/ Step(t) \/ Timeout(t) \/ SpuriousWake(t)
             PROVE  TypeOK'
  BY Zenon DEF Next
<1>a. TypeOK /\ ListOK
  BY Zenon DEF IInv
<1>f. futex \in Word
  BY <1>a, Zenon DEF TypeOK
<1>w. waiter \in [Threads -> Waiter]
  BY <1>a, Zenon DEF TypeOK
<1>p. ASSUME NEW l \in Labels, Goto(t, l) PROVE pc' \in [Threads -> Labels]
  BY <1>a, <1>p, GotoType, Zenon DEF TypeOK
<1>s. ASSUME NEW w \in Word, state' = [state EXCEPT ![t] = w]
      PROVE  state' \in [Threads -> Word]
  BY <1>a, <1>s, Zenon DEF TypeOK
<1>b. ASSUME NEW b \in BOOLEAN, timed' = [timed EXCEPT ![t] = b]
      PROVE  timed' \in [Threads -> BOOLEAN]
  BY <1>a, <1>b, Zenon DEF TypeOK
<1>n. ASSUME NEW n \in Nat \ {0}, next' = [next EXCEPT ![t] = n]
      PROVE  next' \in [Threads -> Nat \ {0}]
  BY <1>a, <1>n, Zenon DEF TypeOK
<1>1. ASSUME NEW b \in BOOLEAN, LockExclusive(t, b) PROVE TypeOK'
  <2>1. pc' \in [Threads -> Labels]
    BY <1>1, <1>p, Zenon DEF LockExclusive, Labels
  <2> QED BY <1>1, <1>a, <1>b, <2>1, Zenon DEF LockExclusive, TypeOK
<1>2. ASSUME NEW b \in BOOLEAN, LockShared(t, b) PROVE TypeOK'
  <2>1. pc' \in [Threads -> Labels]
    BY <1>2, <1>p, Zenon DEF LockShared, Labels
  <2>2. futex' \in Word
    BY <1>2, <1>f, WordFacts, Zenon DEF LockShared
  <2>3. state' \in [Threads -> Word] /\ timed' \in [Threads -> BOOLEAN]
    BY <1>2, <1>a, <1>b, <1>s, <2>2, Zenon DEF LockShared, TypeOK
  <2> QED BY <1>2, <1>a, <2>1, <2>2, <2>3, Zenon DEF LockShared, TypeOK
<1>3. ASSUME NEW b \in BOOLEAN, Wait(t, b) PROVE TypeOK'
  <2>1. pc' \in [Threads -> Labels]
    BY <1>3, <1>p, Zenon DEF Wait, Labels
  <2>2. waiter' \in [Threads -> Waiter]
    BY <1>3, <1>w, WaiterFacts, Zenon DEF Wait
  <2>3. waiters' \in Seq(Threads) /\ caller' \in [Threads -> {"app", "wait"}]
    BY <1>3, <1>a, SMTT(40) DEF Wait, TypeOK
  <2> QED BY <1>3, <1>a, <1>n, <2>1, <2>2, <2>3, SMTT(40) DEF Wait, TypeOK
<1>4. ASSUME UnlockExclusive(t) PROVE TypeOK'
  <2>1. pc' \in [Threads -> Labels]
    BY <1>4, <1>p, Zenon DEF UnlockExclusive, Labels
  <2> QED BY <1>4, <1>a, <1>n, <2>1, SMTT(40) DEF UnlockExclusive, TypeOK
<1>5. ASSUME NEW w \in Threads, NEW o \in Outcome, Mutate(t, w, o) PROVE TypeOK'
  <2>1. waiter' \in [Threads -> Waiter]
    BY <1>5, <1>w, WaiterFacts, Zenon DEF Mutate
  <2> QED BY <1>5, <1>a, <2>1, Zenon DEF Mutate, TypeOK
<1>6. ASSUME TryExclusive(t) PROVE TypeOK'
  <2>1. CASE futex = Zero
    <3>1. futex' \in Word
      BY <1>6, <1>f, <2>1, WordFacts, Zenon DEF TryExclusive
    <3>2. Acquired(t)
      BY <1>6, <2>1, Zenon DEF TryExclusive
    <3> QED BY <1>6, <1>a, <1>b, <2>1, <3>1, <3>2, AcquiredType, Zenon
            DEF TryExclusive, TypeOK
  <2>2. CASE futex # Zero
    <3>1. pc' \in [Threads -> Labels]
      BY <1>6, <1>p, <2>2, Zenon DEF TryExclusive, Labels
    <3> QED BY <1>6, <1>a, <1>f, <1>s, <2>2, <3>1, ZenonT(40) DEF TryExclusive, TypeOK
  <2> QED BY <2>1, <2>2, Zenon
<1>7. ASSUME SetRequested(t) PROVE TypeOK'
  <2>1. pc' \in [Threads -> Labels]
    BY <1>7, <1>p, Zenon DEF SetRequested, Labels
  <2>2. futex' \in Word
    BY <1>7, <1>f, WordFacts, Zenon DEF SetRequested
  <2>3. state' \in [Threads -> Word]
    BY <1>7, <1>f, <1>s, <2>2, WordFacts, Zenon DEF SetRequested
  <2> QED BY <1>7, <1>a, <2>1, <2>2, <2>3, Zenon DEF SetRequested, TypeOK
<1>8. ASSUME SleepExclusive(t) PROVE TypeOK'
  <2>1. pc' \in [Threads -> Labels]
    BY <1>8, <1>p, Zenon DEF SleepExclusive, Labels
  <2> QED BY <1>8, <1>a, <1>f, <1>s, <2>1, WordFacts, Zenon DEF SleepExclusive, TypeOK
<1>9. ASSUME SleepShared(t) PROVE TypeOK'
  <2>1. pc' \in [Threads -> Labels]
    BY <1>9, <1>p, Zenon DEF SleepShared, Labels
  <2> QED BY <1>9, <1>a, <1>f, <1>s, <2>1, WordFacts, Zenon DEF SleepShared, TypeOK
<1>10. ASSUME ReloadShared(t) PROVE TypeOK'
  <2>1. pc' \in [Threads -> Labels]
    BY <1>10, <1>p, Zenon DEF ReloadShared, Labels
  <2>2. state' \in [Threads -> Word] /\ timed' \in [Threads -> BOOLEAN]
    BY <1>10, <1>a, <1>b, <1>f, <1>s, Zenon DEF ReloadShared, TypeOK
  <2> QED BY <1>10, <1>a, <2>1, <2>2, Zenon DEF ReloadShared, TypeOK
<1>11. ASSUME DropShared(t) PROVE TypeOK'
  <2>1. pc' \in [Threads -> Labels]
    BY <1>11, <1>p, Zenon DEF DropShared, Labels
  <2>2. futex.shared \in Nat \ {0}
    BY <1>11, CountedPositive, Zenon DEF DropShared, Counted, IInv
  <2>3. futex' \in Word
    BY <1>11, <1>f, <2>2, WordFacts, Zenon DEF DropShared
  <2> QED BY <1>11, <1>a, <2>1, <2>3, Zenon DEF DropShared, TypeOK
<1>12. ASSUME ClearRequested(t) PROVE TypeOK'
  <2>1. pc' \in [Threads -> Labels]
    BY <1>12, <1>p, Zenon DEF ClearRequested, Labels
  <2>2. futex' \in Word
    BY <1>12, <1>f, WordFacts, Zenon DEF ClearRequested
  <2> QED BY <1>12, <1>a, <2>1, <2>2, Zenon DEF ClearRequested, TypeOK
<1>13. ASSUME ReleaseExclusive(t) PROVE TypeOK'
  <2>1. pc' \in [Threads -> Labels]
    BY <1>13, <1>p, Zenon DEF ReleaseExclusive, Return, Labels
  <2>2. futex' \in Word
    BY <1>13, <1>f, WordFacts, Zenon DEF ReleaseExclusive
  <2> QED BY <1>13, <1>a, <2>1, <2>2, Zenon DEF ReleaseExclusive, TypeOK
<1>14. ASSUME WalkWaiters(t) PROVE TypeOK'
  <2>1. pc' \in [Threads -> Labels]
    BY <1>14, <1>a, <1>p, Zenon DEF WalkWaiters, Labels, TypeOK
  <2>2. next' \in [Threads -> Nat \ {0}]
    <3>1. \/ next' = [next EXCEPT ![t] = 1]
          \/ next' = [next EXCEPT ![t] = @ + 1]
      BY <1>14, Zenon DEF WalkWaiters
    <3>2. next \in [Threads -> Nat \ {0}]
      BY <1>a, Zenon DEF TypeOK
    <3> QED BY <3>1, <3>2
  <2>3. ASSUME next[t] <= Len(waiters) PROVE waiters[next[t]] \in Threads
    BY <1>a, <2>3 DEF TypeOK
  <2>4. target' \in [Threads -> Threads]
    BY <1>14, <1>a, <2>3, Zenon DEF WalkWaiters, TypeOK
  <2>5. ASSUME NEW w \in Threads PROVE Throws(w) \in BOOLEAN
    BY <1>w, WaiterFacts, Zenon DEF Throws
  <2>6. waiter' \in [Threads -> Waiter]
    <3> DEFINE w == waiters[next[t]]
    <3>1. CASE next[t] <= Len(waiters)
      <4>1. w \in Threads /\ Throws(w) \in BOOLEAN
        BY <2>3, <2>5, <3>1, Zenon
      <4>2. /\ [waiter EXCEPT ![w].exception = Throws(w)] \in [Threads -> Waiter]
            /\ [waiter EXCEPT ![w] = [@ EXCEPT !.exception = Throws(w), !.futex = 1]]
                  \in [Threads -> Waiter]
        BY <1>w, <4>1, WaiterFacts, Zenon
      <4> QED BY <1>14, <1>w, <4>2, Zenon DEF WalkWaiters
    <3>2. CASE ~(next[t] <= Len(waiters))
      BY <1>14, <1>w, <3>2, Zenon DEF WalkWaiters
    <3> QED BY <3>1, <3>2, Zenon
  <2> QED BY <1>14, <1>a, <2>1, <2>2, <2>4, <2>6, Zenon DEF WalkWaiters, TypeOK
<1>15. ASSUME WakeWaiter(t) PROVE TypeOK'
  BY <1>15, <1>a, Zenon DEF WakeWaiter, Return, Labels, TypeOK
<1>16. ASSUME WakeAll(t) PROVE TypeOK'
  <2>1. pc' \in [Threads -> Labels]
    BY <1>16, <1>a, Zenon DEF WakeAll, Return, Labels, TypeOK
  <2> QED BY <1>16, <1>a, <2>1, Zenon DEF WakeAll, TypeOK
<1>17. ASSUME SleepWaiter(t) PROVE TypeOK'
  <2>1. pc' \in [Threads -> Labels]
    BY <1>17, <1>p, Zenon DEF SleepWaiter, Labels
  <2> QED BY <1>17, <1>a, <2>1, Zenon DEF SleepWaiter, TypeOK
<1>18. ASSUME TakeDestiny(t) PROVE TypeOK'
  <2>1. pc' \in [Threads -> Labels]
    BY <1>18, <1>p, Zenon DEF TakeDestiny, Labels
  <2>2. waiter' \in [Threads -> Waiter]
    <3>1. waiter' = waiter \/ waiter' = [waiter EXCEPT ![t].futex = 1]
      BY <1>18, Zenon DEF TakeDestiny
    <3>2. [waiter EXCEPT ![t].futex = 1] \in [Threads -> Waiter]
      BY <1>w, WaiterFacts, Zenon
    <3> QED BY <1>w, <3>1, <3>2, Zenon
  <2> QED BY <1>18, <1>a, <2>1, <2>2, Zenon DEF TakeDestiny, TypeOK
<1>19. ASSUME CheckWaiter(t) PROVE TypeOK'
  <2>1. CASE waiter[t].futex = 1
    BY <1>19, <1>a, <2>1, AcquiredType, Zenon DEF CheckWaiter, TypeOK
  <2>2. CASE waiter[t].futex # 1
    <3>1. pc' \in [Threads -> Labels]
      BY <1>19, <1>p, <2>2, Zenon DEF CheckWaiter, Labels
    <3> QED BY <1>19, <1>a, <2>2, <3>1, Zenon DEF CheckWaiter, TypeOK
  <2> QED BY <2>1, <2>2, Zenon
<1>20. ASSUME Timeout(t) \/ SpuriousWake(t) PROVE TypeOK'
  <2>1. pc' \in [Threads -> Labels]
    BY <1>20, <1>p, Zenon DEF Timeout, TimeoutExclusive, TimeoutShared, TimeoutWaiter,
                       SpuriousWake, Labels
  <2> QED BY <1>20, <1>a, <1>b, <2>1, Zenon
          DEF Timeout, TimeoutExclusive, TimeoutShared, TimeoutWaiter,
              SpuriousWake, TypeOK
<1> QED
  BY <1>1, <1>2, <1>3, <1>4, <1>5, <1>6, <1>7, <1>8, <1>9, <1>10, <1>11, <1>12,
     <1>13, <1>14, <1>15, <1>16, <1>17, <1>18, <1>19, <1>20, ZenonT(40) DEF Step

\* Every step keeps the list of waiters in agreement with the callers.
LEMMA ListStep == IInv /\ Next => ListOK'
<1> SUFFICES ASSUME IInv, NEW t \in Threads,
                    \/ \E b \in BOOLEAN :
                          LockExclusive(t, b) \/ LockShared(t, b) \/ Wait(t, b)
                    \/ UnlockExclusive(t)
                    \/ \E w \in Threads, o \in Outcome : Mutate(t, w, o)
                    \/ Step(t) \/ Timeout(t) \/ SpuriousWake(t)
             PROVE  ListOK'
  BY Zenon DEF Next
<1>a. ListOK /\ waiters \in Seq(Threads) /\ caller \in [Threads -> {"app", "wait"}]
  BY Zenon DEF IInv, TypeOK
<1>1. CASE UNCHANGED <<waiters, caller>>
  BY <1>1, <1>a, Zenon DEF ListOK, Linked
<1>2. CASE Acquired(t)
  <2>1. CASE caller[t] = "wait"
    <3> DEFINE r == Without(waiters, t)
    <3>1. waiters' = r /\ caller' = [caller EXCEPT ![t] = "app"]
      BY <1>2, <2>1, Zenon DEF Acquired
    <3>2. /\ \A i, j \in 1..Len(r) : r[i] = r[j] => i = j
          /\ \A i \in 1..Len(r) : r[i] # t
          /\ \A i \in 1..Len(r) : \E j \in 1..Len(waiters) : r[i] = waiters[j]
          /\ \A j \in 1..Len(waiters) : waiters[j] # t =>
                \E i \in 1..Len(r) : r[i] = waiters[j]
      BY <1>a, <2>1, WithoutFacts, Zenon DEF ListOK, Linked
    <3> HIDE DEF r
    <3>3. \A u \in Threads : Linked(u)' <=> Linked(u) /\ u # t
      BY <3>1, <3>2, SMTT(40) DEF Linked
    <3> QED BY <1>a, <3>1, <3>2, <3>3, Zenon DEF ListOK
  <2>2. CASE caller[t] # "wait"
    BY <1>1, <1>2, <2>2, Zenon DEF Acquired
  <2> QED BY <2>1, <2>2, Zenon
<1>3. ASSUME NEW b \in BOOLEAN, Wait(t, b) PROVE ListOK'
  <2>1. ~Linked(t)
    BY <1>3, <1>a, Zenon DEF Wait, IInv, WaiterOK, WaiterAt, ListOK, InLockX, InWait
  <2>2. waiters' = Append(waiters, t) /\ caller' = [caller EXCEPT ![t] = "wait"]
    BY <1>3, Zenon DEF Wait
  <2>3. /\ Len(waiters') = Len(waiters) + 1
        /\ Len(waiters) \in Nat
        /\ waiters'[Len(waiters) + 1] = t
        /\ \A i \in 1..Len(waiters) : waiters'[i] = waiters[i]
    BY <1>a, <2>2, SMTT(40)
  <2>4. \A u \in Threads : Linked(u)' <=> Linked(u) \/ u = t
    BY <2>3 DEF Linked
  <2>5. \A i, j \in 1..Len(waiters') : waiters'[i] = waiters'[j] => i = j
    BY <1>a, <2>1, <2>3, SMTT(40) DEF ListOK, Linked
  <2> QED BY <1>a, <2>2, <2>4, <2>5, Zenon DEF ListOK
<1>4. ASSUME Step(t) PROVE UNCHANGED <<waiters, caller>> \/ Acquired(t)
  BY <1>4, Zenon DEF Step, TryExclusive, SetRequested, SleepExclusive, SleepShared,
     ReloadShared, DropShared, ClearRequested, WalkWaiters, WakeWaiter,
     ReleaseExclusive, WakeAll, SleepWaiter, TakeDestiny, CheckWaiter
<1> QED
  BY <1>1, <1>2, <1>3, <1>4, Zenon
  DEF LockExclusive, LockShared, UnlockExclusive, Mutate, Timeout,
      TimeoutExclusive, TimeoutShared, TimeoutWaiter, SpuriousWake

\* The waiter that unlock() looks at belongs to a thread inside wait().
LEMMA NextWaiter ==
    ASSUME IInv, NEW t \in Threads, next[t] <= Len(waiters)
    PROVE  waiters[next[t]] \in Threads /\ caller[waiters[next[t]]] = "wait"
<1>1. waiters \in Seq(Threads) /\ next[t] \in Nat \ {0}
  BY Zenon DEF IInv, TypeOK
<1>2. next[t] \in 1..Len(waiters)
  BY <1>1
<1>3. waiters[next[t]] \in Threads
  BY <1>1, <1>2
<1>4. Linked(waiters[next[t]])
  BY <1>2, Zenon DEF Linked
<1> QED
  BY <1>3, <1>4, Zenon DEF IInv, ListOK

\* Every step keeps the waiters' futexes in agreement with the program counters.
LEMMA WaiterStep == IInv /\ Next => WaiterOK'
<1> SUFFICES ASSUME IInv, NEW t \in Threads,
                    \/ \E b \in BOOLEAN :
                          LockExclusive(t, b) \/ LockShared(t, b) \/ Wait(t, b)
                    \/ UnlockExclusive(t)
                    \/ \E w \in Threads, o \in Outcome : Mutate(t, w, o)
                    \/ Step(t) \/ Timeout(t) \/ SpuriousWake(t),
                    NEW u \in Threads
             PROVE  WaiterAt(u)'
  BY Zenon DEF Next, WaiterOK
<1>a. WaiterAt(t) /\ WaiterAt(u)
  BY Zenon DEF IInv, WaiterOK
<1>b. /\ pc \in [Threads -> Labels]
      /\ timed \in [Threads -> BOOLEAN]
      /\ caller \in [Threads -> {"app", "wait"}]
      /\ waiter \in [Threads -> Waiter]
  BY Zenon DEF IInv, TypeOK
<1> USE <1>a, <1>b DEF WaiterAt, InLockX, InWait, Goto
<1>1. ASSUME NEW b \in BOOLEAN, LockExclusive(t, b) PROVE WaiterAt(u)'
  BY <1>1, Zenon DEF LockExclusive
<1>2. ASSUME NEW b \in BOOLEAN, LockShared(t, b) PROVE WaiterAt(u)'
  BY <1>2, ZenonT(40) DEF LockShared
<1>3. ASSUME NEW b \in BOOLEAN, Wait(t, b) PROVE WaiterAt(u)'
  BY <1>3, Zenon DEF Wait, NoWaiter
<1>4. ASSUME UnlockExclusive(t) PROVE WaiterAt(u)'
  BY <1>4, Zenon DEF UnlockExclusive
<1>5. ASSUME NEW w \in Threads, NEW o \in Outcome, Mutate(t, w, o) PROVE WaiterAt(u)'
  BY <1>5, Zenon DEF Mutate, Waiter
<1>6. ASSUME TryExclusive(t) PROVE WaiterAt(u)'
  BY <1>6, SMTT(40) DEF TryExclusive, Acquired, NoWaiter
<1>7. ASSUME SetRequested(t) \/ SleepExclusive(t) PROVE WaiterAt(u)'
  BY <1>7, SMTT(40) DEF SetRequested, SleepExclusive
<1>8. ASSUME SleepShared(t) \/ ReloadShared(t) PROVE WaiterAt(u)'
  BY <1>8 DEF SleepShared, ReloadShared
<1>9. ASSUME DropShared(t) \/ ClearRequested(t) PROVE WaiterAt(u)'
  BY <1>9, ZenonT(40) DEF DropShared, ClearRequested
<1>10. ASSUME ReleaseExclusive(t) PROVE WaiterAt(u)'
  BY <1>10, Zenon DEF ReleaseExclusive, Return
<1>11. ASSUME WakeWaiter(t) \/ WakeAll(t) PROVE WaiterAt(u)'
  BY <1>11, SMTT(40) DEF WakeWaiter, WakeAll, Return
<1>12. ASSUME SleepWaiter(t) \/ TakeDestiny(t) PROVE WaiterAt(u)'
  BY <1>12, SMTT(40) DEF SleepWaiter, TakeDestiny, Waiter
<1>13. ASSUME CheckWaiter(t) PROVE WaiterAt(u)'
  BY <1>13, SMTT(40) DEF CheckWaiter, Acquired, NoWaiter
<1>14. ASSUME Timeout(t) \/ SpuriousWake(t) PROVE WaiterAt(u)'
  BY <1>14, SMTT(40) DEF Timeout, TimeoutExclusive, TimeoutShared, TimeoutWaiter, SpuriousWake
<1>15. ASSUME WalkWaiters(t) PROVE WaiterAt(u)'
  <2> DEFINE w == waiters[next[t]]
  <2>1. pc[t] = "walk" /\ UNCHANGED <<timed, caller>>
    BY <1>15, Zenon DEF WalkWaiters
  <2>2. CASE /\ pc' \in {pc, [pc EXCEPT ![t] = "release"]}
             /\ waiter' \in {waiter, [waiter EXCEPT ![w].exception = Throws(w)]}
    BY <2>1, <2>2, SMTT(40) DEF Waiter
  <2>3. CASE /\ next[t] <= Len(waiters)
             /\ ~(caller[t] = "wait" /\ w = t)
             /\ pc' = [pc EXCEPT ![t] = "wakeOne"]
             /\ waiter' = [waiter EXCEPT ![w] =
                              [@ EXCEPT !.exception = Throws(w), !.futex = 1]]
    <3>1. w \in Threads /\ caller[w] = "wait"
      BY <2>3, NextWaiter, Zenon
    <3>2. caller[w] = "wait" /\ w # t
      BY <2>3, <3>1, Zenon
    <3>3. pc[w] \notin {"walk", "release"}
      BY <2>1, <3>1, <3>2, Zenon DEF IInv, OwnerOK, Holds
    <3>4. /\ waiter'[w].futex = 1
          /\ waiter'[w].hasTimeout = waiter[w].hasTimeout
          /\ u # w => waiter'[u] = waiter[u]
      BY <2>3, <3>1, ZenonT(40) DEF Waiter
    <3> HIDE DEF w
    <3> QED BY <2>1, <2>3, <3>2, <3>3, <3>4, Zenon
  <2> QED BY <1>15, <2>1, <2>2, <2>3, Zenon DEF WalkWaiters
<1> QED
  BY <1>1, <1>2, <1>3, <1>4, <1>5, <1>6, <1>7, <1>8, <1>9, <1>10, <1>11, <1>12,
     <1>13, <1>14, <1>15, ZenonT(40) DEF Step

\* Every step keeps the reader count of the word exact.
LEMMA CountStep == IInv /\ Next => CountOK'
<1> SUFFICES ASSUME IInv, NEW t \in Threads,
                    \/ \E b \in BOOLEAN :
                          LockExclusive(t, b) \/ LockShared(t, b) \/ Wait(t, b)
                    \/ UnlockExclusive(t)
                    \/ \E w \in Threads, o \in Outcome : Mutate(t, w, o)
                    \/ Step(t) \/ Timeout(t) \/ SpuriousWake(t)
             PROVE  CountOK'
  BY Zenon DEF Next
<1> DEFINE C == {u \in Threads : Counted(u)}
<1>a. futex \in Word /\ pc \in [Threads -> Labels] /\ CountOK
  BY Zenon DEF IInv, TypeOK
<1>b. IsFiniteSet(C) /\ Cardinality(C) \in Nat
  BY ThreadsAssumption, FS_Subset, FS_CardinalityType, Zenon
<1>1. CASE futex'.shared = futex.shared /\ \A u \in Threads : Counted(u)' <=> Counted(u)
  <2>1. C' = C
    BY <1>1, Zenon
  <2> QED BY <1>1, <1>a, <2>1, Zenon DEF CountOK
<1>2. CASE /\ futex'.shared = futex.shared + 1
           /\ ~Counted(t)
           /\ \A u \in Threads : Counted(u)' <=> Counted(u) \/ u = t
  <2>1. C' = C \cup {t} /\ t \notin C
    BY <1>2, Zenon
  <2> QED BY <1>2, <1>a, <1>b, <2>1, FS_AddElement, Zenon DEF CountOK
<1>3. CASE /\ futex'.shared = futex.shared - 1
           /\ Counted(t)
           /\ \A u \in Threads : Counted(u)' <=> Counted(u) /\ u # t
  <2>1. C' = C \ {t} /\ t \in C
    BY <1>3, Zenon
  <2> QED BY <1>3, <1>a, <1>b, <2>1, FS_RemoveElement, ZenonT(40) DEF CountOK
<1>4. ASSUME NEW b \in BOOLEAN, LockExclusive(t, b) \/ Wait(t, b) PROVE CountOK'
  BY <1>4, <1>1, <1>a, Zenon DEF LockExclusive, Wait, Goto, Counted
<1>5. ASSUME NEW b \in BOOLEAN, LockShared(t, b) PROVE CountOK'
  <2>1. futex'.shared = futex.shared + 1
    BY <1>5, <1>a, Zenon DEF LockShared, Word
  <2> QED BY <1>5, <1>2, <1>a, <2>1, Zenon DEF LockShared, Goto, Counted
<1>6. ASSUME DropShared(t) PROVE CountOK'
  <2>1. futex'.shared = futex.shared - 1
    BY <1>6, <1>a, Zenon DEF DropShared, Word
  <2>2. \A u \in Threads : Counted(u)' <=> Counted(u) /\ u # t
    BY <1>6, <1>a, Zenon DEF DropShared, Goto, Counted
  <2> QED BY <1>6, <1>3, <2>1, <2>2, Zenon DEF DropShared, Counted
<1>7. ASSUME \/ UnlockExclusive(t) \/ Timeout(t) \/ SpuriousWake(t)
             \/ \E w \in Threads, o \in Outcome : Mutate(t, w, o)
      PROVE  CountOK'
  BY <1>7, <1>1, <1>a, Zenon
  DEF UnlockExclusive, Mutate, SpuriousWake, Timeout, TimeoutExclusive,
      TimeoutShared, TimeoutWaiter, Goto, Counted
<1>8. ASSUME TryExclusive(t) \/ SetRequested(t) \/ SleepExclusive(t) PROVE CountOK'
  <2>1. futex'.shared = futex.shared
    BY <1>8, <1>a, Zenon DEF TryExclusive, SetRequested, SleepExclusive, Word, Zero
  <2>2. \A u \in Threads : Counted(u)' <=> Counted(u)
    BY <1>8, <1>a, Zenon
    DEF TryExclusive, SetRequested, SleepExclusive, Acquired, Goto, Counted
  <2> QED BY <1>1, <2>1, <2>2, Zenon
<1>9. ASSUME SleepShared(t) \/ ReloadShared(t) PROVE CountOK'
  BY <1>9, <1>1, <1>a, Zenon DEF SleepShared, ReloadShared, Goto, Counted
<1>10. ASSUME ClearRequested(t) \/ ReleaseExclusive(t) PROVE CountOK'
  <2>a. ASSUME ClearRequested(t) PROVE futex'.shared = futex.shared
    BY <2>a DEF ClearRequested, Zero, RequestedOnly
  <2>b. ASSUME ReleaseExclusive(t) PROVE futex'.shared = futex.shared
    BY <1>a, <2>b, Zenon DEF ReleaseExclusive, Word
  <2>1. futex'.shared = futex.shared
    BY <1>10, <2>a, <2>b, Zenon
  <2>2. \A u \in Threads : Counted(u)' <=> Counted(u)
    BY <1>10, <1>a, Zenon DEF ClearRequested, ReleaseExclusive, Return, Goto, Counted
  <2> QED BY <1>1, <2>1, <2>2, Zenon
<1>11. ASSUME WalkWaiters(t) \/ WakeWaiter(t) \/ WakeAll(t) PROVE CountOK'
  <2>1. futex'.shared = futex.shared
    BY <1>11, Zenon DEF WalkWaiters, WakeWaiter, WakeAll
  <2>2. \A u \in Threads : Counted(u)' <=> Counted(u)
    BY <1>11, <1>a, Zenon DEF WalkWaiters, WakeWaiter, WakeAll, Return, Goto, Counted
  <2> QED BY <1>1, <2>1, <2>2, Zenon
<1>12. ASSUME SleepWaiter(t) \/ TakeDestiny(t) \/ CheckWaiter(t) PROVE CountOK'
  <2>1. futex'.shared = futex.shared
    BY <1>12, Zenon DEF SleepWaiter, TakeDestiny, CheckWaiter
  <2>2. \A u \in Threads : Counted(u)' <=> Counted(u)
    BY <1>12, <1>a, ZenonT(40) DEF SleepWaiter, TakeDestiny, CheckWaiter, Acquired, Goto, Counted
  <2> QED BY <1>1, <2>1, <2>2, Zenon
<1> QED
  BY <1>4, <1>5, <1>6, <1>7, <1>8, <1>9, <1>10, <1>11, <1>12, Zenon DEF Step

\* Every step keeps the held bit, and at most one holder.
LEMMA OwnerStep == IInv /\ Next => OwnerOK'
<1> SUFFICES ASSUME IInv, NEW t \in Threads,
                    \/ \E b \in BOOLEAN :
                          LockExclusive(t, b) \/ LockShared(t, b) \/ Wait(t, b)
                    \/ UnlockExclusive(t)
                    \/ \E w \in Threads, o \in Outcome : Mutate(t, w, o)
                    \/ Step(t) \/ Timeout(t) \/ SpuriousWake(t)
             PROVE  OwnerOK'
  BY Zenon DEF Next
<1>a. /\ futex \in Word
      /\ pc \in [Threads -> Labels]
      /\ caller \in [Threads -> {"app", "wait"}]
      /\ waiter \in [Threads -> Waiter]
      /\ OwnerOK /\ WaiterOK /\ ListOK
  BY Zenon DEF IInv, TypeOK
<1>1. CASE /\ futex'.held <=> futex.held
           /\ \A u \in Threads : Holds(u)' <=> Holds(u)
           /\ \A u \in Threads : pc'[u] = "reader" => pc[u] = "reader" \/ ~futex.held
  BY <1>1, <1>a, Zenon DEF OwnerOK
<1>2. ASSUME NEW b \in BOOLEAN, LockExclusive(t, b) \/ Wait(t, b) PROVE OwnerOK'
  <2>1. \A u \in Threads : Holds(u)' <=> Holds(u)
    BY <1>2, <1>a, Zenon DEF LockExclusive, Wait, Goto, Holds, Transferred, NoWaiter
  <2> QED BY <1>2, <1>1, <1>a, <2>1, Zenon DEF LockExclusive, Wait, Goto
<1>3. ASSUME NEW b \in BOOLEAN, LockShared(t, b) PROVE OwnerOK'
  <2>1. futex'.held = futex.held
    BY <1>3, <1>a, Zenon DEF LockShared, Word
  <2>2. \A u \in Threads : Holds(u)' <=> Holds(u)
    BY <1>3, <1>a DEF LockShared, Goto, Holds, Transferred
  <2> QED BY <1>3, <1>1, <1>a, <2>1, <2>2, Zenon DEF LockShared, Goto
<1>4. ASSUME DropShared(t) PROVE OwnerOK'
  <2>1. futex'.held = futex.held
    BY <1>4, <1>a, Zenon DEF DropShared, Word
  <2>2. \A u \in Threads : Holds(u)' <=> Holds(u)
    BY <1>4, <1>a, Zenon DEF DropShared, Goto, Holds, Transferred
  <2> QED BY <1>4, <1>1, <1>a, <2>1, <2>2, Zenon DEF DropShared, Goto
<1>5. ASSUME UnlockExclusive(t) \/ Timeout(t) \/ SpuriousWake(t) PROVE OwnerOK'
  <2>1. \A u \in Threads : Holds(u)' <=> Holds(u)
    BY <1>5, <1>a, SMTT(40)
    DEF UnlockExclusive, SpuriousWake, Timeout, TimeoutExclusive,
        TimeoutShared, TimeoutWaiter, Goto, Holds, Transferred
  <2> QED BY <1>5, <1>1, <1>a, <2>1, ZenonT(40)
          DEF UnlockExclusive, SpuriousWake, Timeout, TimeoutExclusive,
              TimeoutShared, TimeoutWaiter, Goto
<1>6. ASSUME NEW w \in Threads, NEW o \in Outcome, Mutate(t, w, o) PROVE OwnerOK'
  <2>1. \A u \in Threads : Holds(u)' <=> Holds(u)
    BY <1>6, <1>a, Zenon DEF Mutate, Holds, Transferred, Waiter
  <2> QED BY <1>6, <1>1, <2>1, Zenon DEF Mutate
<1>7. CASE /\ futex'.held
           /\ \A u \in Threads : ~Holds(u)
           /\ \A u \in Threads : Holds(u)' <=> u = t
           /\ \A u \in Threads : pc'[u] # "reader"
  BY <1>7, Zenon DEF OwnerOK
<1>8. ASSUME TryExclusive(t) PROVE OwnerOK'
  <2>1. CASE futex = Zero
    <3>1. futex'.held /\ ~futex.held /\ futex.shared = 0 /\ Acquired(t)
      BY <1>8, <1>a, <2>1, Zenon DEF TryExclusive, Zero
    <3>2. \A u \in Threads : ~Holds(u)
      BY <1>a, <3>1, Zenon DEF OwnerOK
    <3>3. \A u \in Threads : pc[u] # "reader"
      BY <3>1, CountedPositive, Zenon DEF IInv, Counted
    <3>4. \A u \in Threads : Holds(u)' <=> u = t
      BY <1>a, <3>1, <3>2, Zenon DEF Acquired, Goto, Holds, Transferred, NoWaiter
    <3>5. \A u \in Threads : pc'[u] # "reader"
      BY <1>a, <3>1, <3>3, Zenon DEF Acquired, Goto
    <3> QED BY <1>7, <3>1, <3>2, <3>4, <3>5, Zenon
  <2>2. CASE futex # Zero
    <3>1. \A u \in Threads : Holds(u)' <=> Holds(u)
      BY <1>8, <1>a, <2>2, Zenon DEF TryExclusive, Goto, Holds, Transferred
    <3> QED BY <1>8, <1>1, <1>a, <2>2, <3>1, Zenon DEF TryExclusive, Goto
  <2> QED BY <2>1, <2>2, Zenon
<1>9. ASSUME SetRequested(t) \/ SleepExclusive(t) PROVE OwnerOK'
  <2>1. futex'.held = futex.held
    BY <1>9, <1>a, Zenon DEF SetRequested, SleepExclusive, Word
  <2>2. \A u \in Threads : Holds(u)' <=> Holds(u)
    BY <1>9, <1>a, ZenonT(40) DEF SetRequested, SleepExclusive, Goto, Holds, Transferred
  <2> QED BY <1>9, <1>1, <1>a, <2>1, <2>2, Zenon DEF SetRequested, SleepExclusive, Goto
<1>10. ASSUME SleepShared(t) \/ ReloadShared(t) PROVE OwnerOK'
  <2>1. \A u \in Threads : Holds(u)' <=> Holds(u)
    BY <1>10, <1>a DEF SleepShared, ReloadShared, Goto, Holds, Transferred
  <2> QED BY <1>10, <1>1, <1>a, <2>1, Zenon DEF SleepShared, ReloadShared, Goto
<1>11. ASSUME ClearRequested(t) PROVE OwnerOK'
  <2>a. futex = RequestedOnly => ~futex.held /\ ~futex'.held
    BY <1>11 DEF ClearRequested, Zero, RequestedOnly
  <2>b. futex # RequestedOnly => futex' = futex
    BY <1>11, Zenon DEF ClearRequested
  <2>1. futex'.held <=> futex.held
    BY <2>a, <2>b, Zenon
  <2>2. caller[t] # "wait"
    BY <1>11, <1>a, Zenon DEF ClearRequested, WaiterOK, WaiterAt, InLockX, InWait
  <2>3. \A u \in Threads : Holds(u)' <=> Holds(u)
    BY <1>11, <1>a, <2>2, SMTT(40)
    DEF ClearRequested, Goto, Holds, Transferred, WaiterOK, WaiterAt
  <2> QED BY <1>11, <1>1, <1>a, <2>1, <2>3, Zenon DEF ClearRequested, Goto
<1>12. ASSUME ReleaseExclusive(t) PROVE OwnerOK'
  <2>1. futex'.held = FALSE
    BY <1>12, <1>a, Zenon DEF ReleaseExclusive, Word
  <2>2. Holds(t) /\ waiter[t].futex = 0
    BY <1>12, <1>a, Zenon DEF ReleaseExclusive, Holds, WaiterOK, WaiterAt
  <2>3. \A u \in Threads : ~Holds(u)'
    BY <1>12, <1>a, <2>2, SMTT(40)
    DEF ReleaseExclusive, Return, Goto, Holds, Transferred, OwnerOK
  <2> QED BY <2>1, <2>3, Zenon DEF OwnerOK
<1>13. ASSUME WalkWaiters(t) PROVE OwnerOK'
  <2> DEFINE w == waiters[next[t]]
  <2>1. pc[t] = "walk" /\ UNCHANGED <<futex, caller>> /\ waiter[t].futex = 0 /\ Holds(t)
    BY <1>13, <1>a, Zenon DEF WalkWaiters, WaiterOK, WaiterAt, Holds
  <2>2. CASE /\ pc' \in {pc, [pc EXCEPT ![t] = "release"]}
             /\ waiter' \in {waiter, [waiter EXCEPT ![w].exception = Throws(w)]}
    <3>1. \A u \in Threads : waiter'[u].futex = waiter[u].futex
      BY <1>a, <2>2 DEF Waiter
    <3>2. \A u \in Threads : Holds(u)' <=> Holds(u)
      BY <1>a, <2>1, <2>2, <3>1, Zenon DEF Holds, Transferred
    <3> QED BY <1>1, <1>a, <2>1, <2>2, <3>2, Zenon
  <2>3. CASE /\ next[t] <= Len(waiters)
             /\ ~(caller[t] = "wait" /\ w = t)
             /\ ~waiter[w].hasTimeout \/ waiter[w].futex = 0
             /\ pc' = [pc EXCEPT ![t] = "wakeOne"]
             /\ waiter' = [waiter EXCEPT ![w] =
                              [@ EXCEPT !.exception = Throws(w), !.futex = 1]]
    <3>1. w \in Threads /\ caller[w] = "wait"
      BY <2>3, NextWaiter, Zenon
    <3>2. caller[w] = "wait" /\ w # t
      BY <2>3, <3>1, Zenon
    <3>3. ~Holds(w)
      BY <1>a, <2>1, <3>1, <3>2, ZenonT(40) DEF OwnerOK
    <3>4. pc[w] \in {"wakeOne", "wakeAll", "cvSleep", "cvAsleep", "cvTimeout", "cvCheck"}
      <4>1. ~InLockX(w)
        BY <1>a, <2>3, <3>1, <3>2, SMTT(40) DEF WaiterOK, WaiterAt
      <4> QED BY <1>a, <3>1, <3>2, <3>3, <4>1, ZenonT(40)
              DEF WaiterOK, WaiterAt, InLockX, InWait, Holds
    <3>5. /\ waiter'[w].futex = 1
          /\ \A u \in Threads : u # w => waiter'[u] = waiter[u]
      BY <1>a, <2>3, <3>1, Zenon DEF Waiter
    <3> HIDE DEF w
    <3>6. \A u \in Threads : Holds(u)' <=> u = w
      BY <1>a, <2>1, <2>3, <3>1, <3>2, <3>4, <3>5, SMTT(40) DEF Holds, Transferred, OwnerOK
    <3>7. \A u \in Threads : pc'[u] # "reader"
      BY <1>a, <2>1, <2>3, Zenon DEF OwnerOK
    <3> QED BY <1>a, <2>1, <3>1, <3>6, <3>7, Zenon DEF OwnerOK
  <2> QED BY <1>13, <2>1, <2>2, <2>3, Zenon DEF WalkWaiters, Goto
<1>14. ASSUME WakeWaiter(t) \/ WakeAll(t) PROVE OwnerOK'
  <2>1. \A u \in Threads : Holds(u)' <=> Holds(u)
    BY <1>14, <1>a, SMTT(40)
    DEF WakeWaiter, WakeAll, Return, Holds, Transferred, WaiterOK, WaiterAt
  <2> QED BY <1>14, <1>1, <1>a, <2>1, Zenon DEF WakeWaiter, WakeAll, Return
<1>15. ASSUME SleepWaiter(t) \/ TakeDestiny(t) PROVE OwnerOK'
  <2>1. \A u \in Threads : Holds(u)' <=> Holds(u)
    BY <1>15, <1>a, SMTT(40) DEF SleepWaiter, TakeDestiny, Goto, Holds, Transferred, Waiter
  <2> QED BY <1>15, <1>1, <1>a, <2>1, Zenon DEF SleepWaiter, TakeDestiny, Goto
<1>16. ASSUME CheckWaiter(t) PROVE OwnerOK'
  <2>1. \A u \in Threads : Holds(u)' <=> Holds(u)
    BY <1>16, <1>a, ZenonT(40) DEF CheckWaiter, Acquired, Goto, Holds, Transferred, NoWaiter
  <2> QED BY <1>16, <1>1, <1>a, <2>1, Zenon DEF CheckWaiter, Acquired, Goto
<1> QED
  BY <1>2, <1>3, <1>4, <1>5, <1>6, <1>8, <1>9, <1>10, <1>11, <1>12, <1>13, <1>14,
     <1>15, <1>16, Zenon DEF Step

\* The inductive invariant holds in every reachable state.
THEOREM InductiveInvariant == Spec => []IInv
<1>1. IInv /\ [Next]_vars => IInv'
  <2> SUFFICES ASSUME IInv, [Next]_vars PROVE IInv'
    BY Zenon
  <2>1. CASE Next
    BY <2>1, TypeStep, ListStep, WaiterStep, CountStep, OwnerStep, Zenon DEF IInv
  <2>2. CASE UNCHANGED vars
    <3>1. TypeOK' /\ ListOK'
      BY <2>2, Zenon DEF vars, IInv, TypeOK, ListOK, Linked
    <3>2. WaiterOK'
      BY <2>2, Zenon DEF vars, IInv, WaiterOK, WaiterAt, Linked, InLockX, InWait
    <3>3. CountOK'
      BY <2>2, Zenon DEF vars, IInv, CountOK, Counted
    <3>4. OwnerOK'
      BY <2>2, Zenon DEF vars, IInv, OwnerOK, Holds, Transferred
    <3> QED BY <3>1, <3>2, <3>3, <3>4, Zenon DEF IInv
  <2> QED BY <2>1, <2>2, Zenon
<1> QED
  BY InitInv, <1>1, PTL DEF Spec

\* The variables keep their types; in particular the reader count that lock()
\* and unlock() maintain with separate atomic operations never goes below zero.
THEOREM TypeCorrect == Spec => []TypeOK
<1>1. IInv => TypeOK
  BY Zenon DEF IInv
<1> QED
  BY <1>1, InductiveInvariant, PTL

\* Mutual exclusion of lock(), unlock() and wait(), for any number of threads:
\* one exclusive holder, a thread to which unlock() has just handed the lock
\* included, and no reader beside it.
THEOREM MutexIsExclusive == Spec => []MutualExclusion
<1>1. IInv => MutualExclusion
  BY Zenon DEF IInv, OwnerOK, MutualExclusion
<1> QED
  BY <1>1, InductiveInvariant, PTL

\* What a thread saw before it went to sleep on the word still stands, or
\* somebody is on the way to wake it.
WakeAt(t) ==
    /\ pc[t] = "request" => state[t] # Zero /\ ~state[t].requested
    /\ pc[t] = "sleepX" => state[t].requested
    /\ pc[t] = "sleepS" => state[t].held
    /\ pc[t] = "asleepX" => futex.requested \/ \E u \in Threads : pc[u] = "wakeAll"
    /\ pc[t] = "asleepS" => futex.held \/ \E u \in Threads : pc[u] = "wakeAll"
    /\ pc[t] = "cvAsleep" /\ waiter[t].futex = 1 =>
          \E u \in Threads : pc[u] = "wakeOne" /\ target[u] = t

RequestOK ==
    futex.requested => \/ futex.held \/ futex.shared > 0
                       \/ \E u \in Threads : pc[u] = "clear"

WakeOK == RequestOK /\ \A t \in Threads : WakeAt(t)

\* The word of a free lock with a request.
LEMMA OnlyRequested ==
    ASSUME NEW w \in Word, w.requested, ~w.held, ~(w.shared > 0)
    PROVE  w = RequestedOnly
<1>1. w = [held |-> w.held, requested |-> w.requested, shared |-> w.shared]
  BY Zenon DEF Word
<1>2. w.held = FALSE /\ w.requested = TRUE /\ w.shared = 0
  BY DEF Word
<1> QED
  BY <1>1, <1>2, Zenon DEF RequestedOnly

\* A request bit that nobody is about to clear belongs to a lock that is taken.
LEMMA RequestStep == IInv /\ WakeOK /\ Next => RequestOK'
<1> SUFFICES ASSUME IInv, WakeOK, NEW t \in Threads,
                    \/ \E b \in BOOLEAN :
                          LockExclusive(t, b) \/ LockShared(t, b) \/ Wait(t, b)
                    \/ UnlockExclusive(t)
                    \/ \E w \in Threads, o \in Outcome : Mutate(t, w, o)
                    \/ Step(t) \/ Timeout(t) \/ SpuriousWake(t)
             PROVE  RequestOK'
  BY Zenon DEF Next
<1>a. futex \in Word /\ pc \in [Threads -> Labels] /\ RequestOK /\ WakeAt(t)
  BY Zenon DEF IInv, TypeOK, WakeOK
<1>1. CASE futex' = futex /\ \A u \in Threads : pc[u] = "clear" => pc'[u] = "clear"
  BY <1>1, <1>a, Zenon DEF RequestOK
<1>2. ASSUME NEW b \in BOOLEAN, LockExclusive(t, b) \/ Wait(t, b) PROVE RequestOK'
  BY <1>2, <1>1, <1>a, Zenon DEF LockExclusive, Wait, Goto
<1>3. ASSUME NEW b \in BOOLEAN, LockShared(t, b) PROVE RequestOK'
  <2>1. futex'.shared > 0
    BY <1>3, <1>a DEF LockShared, Word
  <2> QED BY <2>1, Zenon DEF RequestOK
<1>4. ASSUME \/ UnlockExclusive(t) \/ Timeout(t) \/ SpuriousWake(t)
             \/ \E w \in Threads, o \in Outcome : Mutate(t, w, o)
      PROVE  RequestOK'
  BY <1>4, <1>1, <1>a, Zenon
  DEF UnlockExclusive, Mutate, SpuriousWake, Timeout, TimeoutExclusive,
      TimeoutShared, TimeoutWaiter, Goto
<1>5. ASSUME TryExclusive(t) PROVE RequestOK'
  <2>1. CASE futex = Zero
    BY <1>5, <2>1, Zenon DEF TryExclusive, Zero, RequestOK
  <2>2. CASE futex # Zero
    BY <1>5, <1>1, <1>a, <2>2, Zenon DEF TryExclusive, Goto
  <2> QED BY <2>1, <2>2, Zenon
<1>6. ASSUME SetRequested(t) PROVE RequestOK'
  <2>1. CASE futex = state[t]
    <3>1. futex # Zero /\ ~futex.requested
      BY <1>6, <1>a, <2>1, Zenon DEF SetRequested, WakeAt
    <3>2. futex.held \/ futex.shared > 0
      BY <1>a, <3>1 DEF Word, Zero
    <3>3. futex'.held = futex.held /\ futex'.shared = futex.shared
      BY <1>6, <1>a, <2>1, Zenon DEF SetRequested, Word
    <3> QED BY <3>2, <3>3, Zenon DEF RequestOK
  <2>2. CASE futex # state[t]
    BY <1>6, <1>1, <1>a, <2>2, Zenon DEF SetRequested, Goto
  <2> QED BY <2>1, <2>2, Zenon
<1>7. ASSUME SleepExclusive(t) \/ SleepShared(t) \/ ReloadShared(t) PROVE RequestOK'
  BY <1>7, <1>1, <1>a, Zenon DEF SleepExclusive, SleepShared, ReloadShared, Goto
<1>8. ASSUME DropShared(t) PROVE RequestOK'
  <2>1. futex.shared \in Nat \ {0}
    BY <1>8, CountedPositive, Zenon DEF DropShared, Counted, IInv
  <2>2. futex' \in Word
    BY <1>8, <1>a, <2>1, WordFacts, Zenon DEF DropShared
  <2>3. futex' = RequestedOnly => pc'[t] = "clear"
    BY <1>8, <1>a, Zenon DEF DropShared, Goto
  <2>4. futex'.requested /\ ~futex'.held /\ ~(futex'.shared > 0) =>
           futex' = RequestedOnly
    BY <2>2, OnlyRequested, Zenon
  <2> QED BY <2>3, <2>4, Zenon DEF RequestOK
<1>9. ASSUME ClearRequested(t) PROVE RequestOK'
  <2>1. CASE futex = RequestedOnly
    BY <1>9, <2>1 DEF ClearRequested, Zero, RequestOK
  <2>2. CASE futex # RequestedOnly
    <3>1. futex.requested => futex.held \/ futex.shared > 0
      BY <1>a, <2>2, OnlyRequested, Zenon
    <3> QED BY <1>9, <2>2, <3>1, Zenon DEF ClearRequested, RequestOK
  <2> QED BY <2>1, <2>2, Zenon
<1>10. ASSUME ReleaseExclusive(t) PROVE RequestOK'
  <2>1. futex'.requested = FALSE
    BY <1>10, <1>a, Zenon DEF ReleaseExclusive, Word
  <2> QED BY <2>1, Zenon DEF RequestOK
<1>11. ASSUME WalkWaiters(t) \/ WakeWaiter(t) \/ WakeAll(t) PROVE RequestOK'
  BY <1>11, <1>1, <1>a, Zenon DEF WalkWaiters, WakeWaiter, WakeAll, Return, Goto
<1>12. ASSUME SleepWaiter(t) \/ TakeDestiny(t) \/ CheckWaiter(t) PROVE RequestOK'
  BY <1>12, <1>1, <1>a, Zenon DEF SleepWaiter, TakeDestiny, CheckWaiter, Acquired, Goto
<1> QED
  BY <1>2, <1>3, <1>4, <1>5, <1>6, <1>7, <1>8, <1>9, <1>10, <1>11, <1>12, Zenon DEF Step

\* Every step keeps the promise to wake whoever sleeps.
LEMMA WakeStep == IInv /\ WakeOK /\ Next => \A u \in Threads : WakeAt(u)'
<1> SUFFICES ASSUME IInv, WakeOK, NEW t \in Threads,
                    \/ \E b \in BOOLEAN :
                          LockExclusive(t, b) \/ LockShared(t, b) \/ Wait(t, b)
                    \/ UnlockExclusive(t)
                    \/ \E w \in Threads, o \in Outcome : Mutate(t, w, o)
                    \/ Step(t) \/ Timeout(t) \/ SpuriousWake(t),
                    NEW u \in Threads
             PROVE  WakeAt(u)'
  BY Zenon DEF Next
<1>a. /\ futex \in Word
      /\ pc \in [Threads -> Labels]
      /\ state \in [Threads -> Word]
      /\ waiter \in [Threads -> Waiter]
      /\ target \in [Threads -> Threads]
  BY Zenon DEF IInv, TypeOK
<1>b. WakeAt(t) /\ WakeAt(u)
  BY Zenon DEF WakeOK
<1> DEFINE Waking == \E v \in Threads : pc[v] = "wakeAll"
           Telling == \E v \in Threads : pc[v] = "wakeOne" /\ target[v] = u
<1>1. ASSUME NEW b \in BOOLEAN, LockExclusive(t, b) \/ Wait(t, b) PROVE WakeAt(u)'
  <2>1. (Waking => Waking') /\ (Telling => Telling')
    BY <1>1, <1>a, Zenon DEF LockExclusive, Wait, Goto
  <2> QED BY <1>1, <1>a, <1>b, <2>1, SMTT(40) DEF LockExclusive, Wait, Goto, WakeAt, NoWaiter
<1>2. ASSUME NEW b \in BOOLEAN, LockShared(t, b) PROVE WakeAt(u)'
  <2>1. (Waking => Waking') /\ (Telling => Telling')
    BY <1>2, <1>a, Zenon DEF LockShared, Goto
  <2>2. futex'.held = futex.held /\ futex'.requested = futex.requested
    BY <1>2, <1>a, Zenon DEF LockShared, Word
  <2>3. u # t => WakeAt(u)'
    BY <1>2, <1>a, <1>b, <2>1, <2>2, SMTT(40) DEF LockShared, Goto, WakeAt
  <2>4. u = t => WakeAt(u)'
    BY <1>2, <1>a, <2>2, ZenonT(40) DEF LockShared, Goto, WakeAt
  <2> QED BY <2>3, <2>4, Zenon
<1>3. ASSUME UnlockExclusive(t) \/ Timeout(t) \/ SpuriousWake(t) PROVE WakeAt(u)'
  <2>1. (Waking => Waking') /\ (Telling => Telling')
    BY <1>3, <1>a, Zenon
    DEF UnlockExclusive, SpuriousWake, Timeout, TimeoutExclusive,
        TimeoutShared, TimeoutWaiter, Goto
  <2> QED BY <1>3, <1>a, <1>b, <2>1, SMTT(40)
          DEF UnlockExclusive, SpuriousWake, Timeout, TimeoutExclusive,
              TimeoutShared, TimeoutWaiter, Goto, WakeAt
<1>4. ASSUME NEW w \in Threads, NEW o \in Outcome, Mutate(t, w, o) PROVE WakeAt(u)'
  <2>1. waiter'[u].futex = waiter[u].futex
    BY <1>4, <1>a, Zenon DEF Mutate, Waiter
  <2> QED BY <1>4, <1>b, <2>1, Zenon DEF Mutate, WakeAt
<1>5. ASSUME TryExclusive(t) PROVE WakeAt(u)'
  <2>1. (Waking => Waking') /\ (Telling => Telling')
    BY <1>5, <1>a, Zenon DEF TryExclusive, Acquired, Goto
  <2>2. CASE futex = Zero
    <3>1. futex'.held /\ ~futex.requested /\ Acquired(t)
      BY <1>5, <2>2, Zenon DEF TryExclusive, Zero
    <3>2. UNCHANGED <<state, target>>
      BY <1>5, <2>2, Zenon DEF TryExclusive
    <3> QED BY <1>a, <1>b, <2>1, <3>1, <3>2, Zenon DEF Acquired, Goto, WakeAt, NoWaiter
  <2>3. CASE futex # Zero
    BY <1>5, <1>a, <1>b, <2>1, <2>3, SMTT(40) DEF TryExclusive, Goto, WakeAt
  <2> QED BY <2>2, <2>3, Zenon
<1>6. ASSUME SetRequested(t) PROVE WakeAt(u)'
  <2>1. (Waking => Waking') /\ (Telling => Telling')
    BY <1>6, <1>a, Zenon DEF SetRequested, Goto
  <2>2. futex'.held = futex.held /\ (futex.requested => futex'.requested)
    BY <1>6, <1>a, Zenon DEF SetRequested, Word
  <2>3. u # t => WakeAt(u)'
    BY <1>6, <1>a, <1>b, <2>1, <2>2, SMTT(40) DEF SetRequested, Goto, WakeAt
  <2>4. futex = state[t] => futex'.requested
    BY <1>6, <1>a, ZenonT(40) DEF SetRequested, Word
  <2>5. u = t => WakeAt(u)'
    BY <1>6, <1>a, <2>4, Zenon DEF SetRequested, Goto, WakeAt
  <2> QED BY <2>3, <2>5, Zenon
<1>7. ASSUME SleepExclusive(t) \/ SleepShared(t) \/ ReloadShared(t) PROVE WakeAt(u)'
  <2>1. (Waking => Waking') /\ (Telling => Telling')
    BY <1>7, <1>a, Zenon DEF SleepExclusive, SleepShared, ReloadShared, Goto
  <2> QED BY <1>7, <1>a, <1>b, <2>1, SMTT(40)
          DEF SleepExclusive, SleepShared, ReloadShared, Goto, WakeAt
<1>8. ASSUME DropShared(t) PROVE WakeAt(u)'
  <2>1. (Waking => Waking') /\ (Telling => Telling')
    BY <1>8, <1>a, Zenon DEF DropShared, Goto
  <2>2. futex'.held = futex.held /\ futex'.requested = futex.requested
    BY <1>8, <1>a, Zenon DEF DropShared, Word
  <2> QED BY <1>8, <1>a, <1>b, <2>1, <2>2, Zenon DEF DropShared, Goto, WakeAt
<1>9. ASSUME ClearRequested(t) PROVE WakeAt(u)'
  <2>1. Telling => Telling'
    BY <1>9, <1>a, Zenon DEF ClearRequested, Goto
  <2>2. CASE futex = RequestedOnly
    <3>1. Waking' /\ ~futex.held
      BY <1>9, <1>a, <2>2, Zenon DEF ClearRequested, Goto, RequestedOnly
    <3> QED BY <1>9, <1>a, <1>b, <2>1, <2>2, <3>1, ZenonT(40) DEF ClearRequested, Goto, WakeAt
  <2>3. CASE futex # RequestedOnly
    <3>1. Waking => Waking'
      BY <1>9, <1>a, <2>3, Zenon DEF ClearRequested, Goto
    <3> QED BY <1>9, <1>a, <1>b, <2>1, <2>3, <3>1, SMTT(40) DEF ClearRequested, Goto, WakeAt
  <2> QED BY <2>2, <2>3, Zenon
<1>10. ASSUME ReleaseExclusive(t) PROVE WakeAt(u)'
  <2>1. Telling => Telling'
    BY <1>10, <1>a, Zenon DEF ReleaseExclusive, Goto
  <2>2. Waking => Waking'
    BY <1>10, <1>a, Zenon DEF ReleaseExclusive, Goto
  <2>3. pc[u] = "asleepX" => Waking'
    BY <1>10, <1>a, <1>b, <2>2, Zenon DEF ReleaseExclusive, Goto, WakeAt
  <2>4. pc[u] = "asleepS" => futex.shared \in Nat \ {0}
    BY CountedPositive, Zenon DEF Counted, IInv
  <2>5. pc[u] = "asleepS" => Waking'
    BY <1>10, <1>a, <2>4, SMTT(40) DEF ReleaseExclusive, Goto
  <2> QED BY <1>10, <1>a, <1>b, <2>1, <2>3, <2>5, Zenon
          DEF ReleaseExclusive, Return, Goto, WakeAt
<1>11. ASSUME WalkWaiters(t) PROVE WakeAt(u)'
  <2> DEFINE w == waiters[next[t]]
  <2>1. pc[t] = "walk" /\ UNCHANGED <<futex, state>>
    BY <1>11, Zenon DEF WalkWaiters
  <2>2. CASE /\ pc' \in {pc, [pc EXCEPT ![t] = "release"]}
             /\ waiter' \in {waiter, [waiter EXCEPT ![w].exception = Throws(w)]}
             /\ UNCHANGED target
    <3>1. waiter'[u].futex = waiter[u].futex
      BY <1>a, <2>2 DEF Waiter
    <3>2. (Waking => Waking') /\ (Telling => Telling')
      BY <1>a, <2>1, <2>2, Zenon
    <3> QED BY <1>a, <1>b, <2>1, <2>2, <3>1, <3>2, SMTT(40) DEF WakeAt
  <2>3. CASE /\ next[t] <= Len(waiters)
             /\ pc' = [pc EXCEPT ![t] = "wakeOne"]
             /\ waiter' = [waiter EXCEPT ![w] =
                              [@ EXCEPT !.exception = Throws(w), !.futex = 1]]
             /\ target' = [target EXCEPT ![t] = w]
    <3>1. (Waking => Waking') /\ (Telling => Telling')
      BY <1>a, <2>1, <2>3, Zenon
    <3>2. u # w => waiter'[u].futex = waiter[u].futex
      BY <1>a, <2>3, Zenon DEF Waiter
    <3>3. u = w => Telling'
      BY <1>a, <2>3, Zenon
    <3> HIDE DEF w
    <3> QED BY <1>a, <1>b, <2>1, <2>3, <3>1, <3>2, <3>3, Zenon DEF WakeAt
  <2> QED BY <1>11, <2>1, <2>2, <2>3, Zenon DEF WalkWaiters, Goto
<1>12. ASSUME WakeWaiter(t) PROVE WakeAt(u)'
  <2>1. Waking => Waking'
    BY <1>12, <1>a, Zenon DEF WakeWaiter
  <2>2. Telling /\ target[t] # u => Telling'
    BY <1>12, <1>a, Zenon DEF WakeWaiter
  <2> QED BY <1>12, <1>a, <1>b, <2>1, <2>2, Zenon DEF WakeWaiter, Return, WakeAt
<1>13. ASSUME WakeAll(t) PROVE WakeAt(u)'
  <2>1. Telling => Telling'
    BY <1>13, <1>a, Zenon DEF WakeAll
  <2> QED BY <1>13, <1>a, <1>b, <2>1, Zenon DEF WakeAll, Return, WakeAt
<1>14. ASSUME SleepWaiter(t) PROVE WakeAt(u)'
  <2>1. (Waking => Waking') /\ (Telling => Telling')
    BY <1>14, <1>a, Zenon DEF SleepWaiter, Goto
  <2> QED BY <1>14, <1>a, <1>b, <2>1, SMTT(40) DEF SleepWaiter, Goto, WakeAt
<1>15. ASSUME TakeDestiny(t) PROVE WakeAt(u)'
  <2>1. (Waking => Waking') /\ (Telling => Telling')
    BY <1>15, <1>a, Zenon DEF TakeDestiny, Goto
  <2> QED BY <1>15, <1>a, <1>b, <2>1, SMTT(40) DEF TakeDestiny, Goto, WakeAt
<1>16. ASSUME CheckWaiter(t) PROVE WakeAt(u)'
  <2>1. (Waking => Waking') /\ (Telling => Telling')
    BY <1>16, <1>a, Zenon DEF CheckWaiter, Acquired, Goto
  <2> QED BY <1>16, <1>a, <1>b, <2>1, SMTT(40) DEF CheckWaiter, Acquired, Goto, WakeAt, NoWaiter
<1> QED
  BY <1>1, <1>2, <1>3, <1>4, <1>5, <1>6, <1>7, <1>8, <1>9, <1>10, <1>11, <1>12,
     <1>13, <1>14, <1>15, <1>16, ZenonT(40) DEF Step

\* No wake-up is lost in lock(), unlock() and wait(), for any number of threads.
THEOREM NoWakeupLost == Spec => []NoLostWakeup
<1>1. Init => WakeOK
  BY DEF Init, WakeOK, RequestOK, WakeAt, Zero
<1>2. IInv /\ WakeOK /\ [Next]_vars => WakeOK'
  <2> SUFFICES ASSUME IInv, WakeOK, [Next]_vars PROVE WakeOK'
    BY Zenon
  <2>1. CASE Next
    BY <2>1, RequestStep, WakeStep, Zenon DEF WakeOK
  <2>2. CASE UNCHANGED vars
    BY <2>2, ZenonT(40) DEF vars, WakeOK, RequestOK, WakeAt
  <2> QED BY <2>1, <2>2, Zenon
<1>3. WakeOK => NoLostWakeup
  BY Zenon DEF WakeOK, RequestOK, WakeAt, NoLostWakeup
<1> QED
  BY InductiveInvariant, <1>1, <1>2, <1>3, PTL DEF Spec

-----------------------------------------------------------------------------
(* The conditional waiters                                                 *)

\* A handed-over lock keeps its waiter ready: the hand-over needs a predicate
\* that is true or threw, and until the waiter has noticed it nobody is the
\* owner, who alone could change the guarded data.
LEMMA ReadyStep == IInv /\ ReturnsReady /\ Next => ReturnsReady'
<1> SUFFICES ASSUME IInv, ReturnsReady, NEW t \in Threads,
                    \/ \E b \in BOOLEAN :
                          LockExclusive(t, b) \/ LockShared(t, b) \/ Wait(t, b)
                    \/ UnlockExclusive(t)
                    \/ \E w \in Threads, o \in Outcome : Mutate(t, w, o)
                    \/ Step(t) \/ Timeout(t) \/ SpuriousWake(t),
                    NEW u \in Threads, Transferred(u)'
             PROVE  waiter'[u].exception \/ waiter'[u].predicate = "true"
  BY Zenon DEF Next, ReturnsReady
<1>a. /\ pc \in [Threads -> Labels]
      /\ caller \in [Threads -> {"app", "wait"}]
      /\ waiter \in [Threads -> Waiter]
      /\ WaiterAt(t) /\ WaiterAt(u)
  BY Zenon DEF IInv, TypeOK, WaiterOK
<1>b. Transferred(u) => waiter[u].exception \/ waiter[u].predicate = "true"
  BY ZenonT(40) DEF ReturnsReady
<1>1. CASE Transferred(u) /\ waiter'[u] = waiter[u]
  BY <1>1, <1>b, Zenon
<1> USE DEF Goto, Transferred
<1>2. ASSUME NEW b \in BOOLEAN, LockExclusive(t, b) \/ LockShared(t, b)
      PROVE  Transferred(u) /\ waiter'[u] = waiter[u]
  BY <1>2, <1>a, ZenonT(40) DEF LockExclusive, LockShared
<1>3. ASSUME NEW b \in BOOLEAN, Wait(t, b)
      PROVE  Transferred(u) /\ waiter'[u] = waiter[u]
  BY <1>3, <1>a, Zenon DEF Wait, NoWaiter
<1>4. ASSUME UnlockExclusive(t) \/ Timeout(t) \/ SpuriousWake(t)
      PROVE  Transferred(u) /\ waiter'[u] = waiter[u]
  BY <1>4, <1>a, SMTT(30)
  DEF UnlockExclusive, SpuriousWake, Timeout, TimeoutExclusive, TimeoutShared,
      TimeoutWaiter
<1>5. ASSUME NEW w \in Threads, NEW o \in Outcome, Mutate(t, w, o) PROVE FALSE
  <2>1. waiter'[u].futex = waiter[u].futex
    BY <1>5, <1>a, Zenon DEF Mutate, Waiter
  <2>2. Holds(t) /\ Holds(u) /\ pc[t] # pc[u]
    BY <1>5, <2>1, Zenon DEF Mutate, Holds
  <2> QED BY <2>2, Zenon DEF IInv, OwnerOK
<1>6. ASSUME TryExclusive(t) PROVE Transferred(u) /\ waiter'[u] = waiter[u]
  BY <1>6, <1>a, ZenonT(40) DEF TryExclusive, Acquired
<1>7. ASSUME SetRequested(t) \/ SleepExclusive(t) \/ SleepShared(t) \/ ReloadShared(t)
      PROVE  Transferred(u) /\ waiter'[u] = waiter[u]
  BY <1>7, <1>a, ZenonT(40) DEF SetRequested, SleepExclusive, SleepShared, ReloadShared
<1>8. ASSUME DropShared(t) \/ ClearRequested(t)
      PROVE  Transferred(u) /\ waiter'[u] = waiter[u]
  BY <1>8, <1>a, SMTT(40) DEF DropShared, ClearRequested, WaiterAt, InLockX, InWait
<1>9. ASSUME ReleaseExclusive(t) PROVE Transferred(u) /\ waiter'[u] = waiter[u]
  BY <1>9, <1>a, SMTT(40) DEF ReleaseExclusive, Return, WaiterAt
<1>10. ASSUME WakeWaiter(t) \/ WakeAll(t)
       PROVE  Transferred(u) /\ waiter'[u] = waiter[u]
  BY <1>10, <1>a, SMTT(40) DEF WakeWaiter, WakeAll, Return, WaiterAt
<1>11. ASSUME SleepWaiter(t) \/ TakeDestiny(t)
       PROVE  Transferred(u) /\ waiter'[u] = waiter[u]
  BY <1>11, <1>a, Zenon DEF SleepWaiter, TakeDestiny
<1>12. ASSUME CheckWaiter(t) PROVE Transferred(u) /\ waiter'[u] = waiter[u]
  BY <1>12, <1>a, Zenon DEF CheckWaiter, Acquired
<1>13. ASSUME WalkWaiters(t)
       PROVE  waiter'[u].exception \/ waiter'[u].predicate = "true"
  <2> DEFINE w == waiters[next[t]]
  <2>1. pc[t] = "walk" /\ waiter[t].futex = 0
    BY <1>13, <1>a, Zenon DEF WalkWaiters, WaiterAt
  <2>2. CASE /\ pc' \in {pc, [pc EXCEPT ![t] = "release"]}
             /\ waiter' \in {waiter, [waiter EXCEPT ![w].exception = Throws(w)]}
    <3>1. /\ waiter'[u].futex = waiter[u].futex
          /\ waiter'[u].predicate = waiter[u].predicate
          /\ waiter[u].exception => waiter'[u].exception
      BY <1>a, <2>2, SMTT(40) DEF Waiter, Throws
    <3>2. Transferred(u)
      BY <1>a, <2>1, <2>2, <3>1, Zenon
    <3> QED BY <1>b, <3>1, <3>2, Zenon
  <2>3. CASE /\ next[t] <= Len(waiters)
             /\ Ready(w)
             /\ pc' = [pc EXCEPT ![t] = "wakeOne"]
             /\ waiter' = [waiter EXCEPT ![w] =
                              [@ EXCEPT !.exception = Throws(w), !.futex = 1]]
    <3>1. w \in Threads
      BY <2>3, NextWaiter, Zenon
    <3>2. waiter'[w].exception = Throws(w) /\ waiter'[w].predicate = waiter[w].predicate
      BY <1>a, <2>3, <3>1, ZenonT(40) DEF Waiter
    <3>3. waiter[w].predicate \in {"false", "true", "throws"}
      BY <1>a, <3>1, Zenon DEF Waiter, Outcome
    <3>4. waiter'[w].exception \/ waiter'[w].predicate = "true"
      BY <2>3, <3>2, <3>3, Zenon DEF Ready, Throws
    <3>5. u # w => waiter'[u] = waiter[u] /\ Transferred(u)
      BY <1>a, <2>1, <2>3, <3>1, SMTT(40)
    <3> HIDE DEF w
    <3> QED BY <1>b, <3>4, <3>5, Zenon
  <2> QED BY <1>13, <2>1, <2>2, <2>3, Zenon DEF WalkWaiters
<1> QED
  BY <1>1, <1>2, <1>3, <1>4, <1>5, <1>6, <1>7, <1>8, <1>9, <1>10, <1>11, <1>12,
     <1>13, ZenonT(40) DEF Step

\* wait() comes back through a hand-over only with a predicate that is true of
\* the guarded data, or that threw, for any number of threads.
THEOREM HandoverIsReady == Spec => []ReturnsReady
<1>1. Init => ReturnsReady
  BY ZenonT(40) DEF Init, ReturnsReady, Transferred
<1>2. IInv /\ ReturnsReady /\ [Next]_vars => ReturnsReady'
  <2>1. IInv /\ ReturnsReady /\ UNCHANGED vars => ReturnsReady'
    BY Zenon DEF vars, ReturnsReady, Transferred
  <2> QED BY <2>1, ReadyStep, Zenon
<1> QED
  BY InductiveInvariant, <1>1, <1>2, PTL DEF Spec

\* unlock() need not hand the lock to w: its predicate is false, or w has timed
\* out, or has been given the lock already.
Passed(w) == waiter[w].predicate # "false" => waiter[w].futex = 1

\* What NoReadyWaiterLeft rests on: the walk leaves no ready waiter behind it,
\* and the waiter that it skips, the walking thread's own, has a predicate that
\* was false when wait() began, which nobody could change since.
WalkAt(t) ==
    /\ pc[t] = "walk" =>
          \A i \in 1..Len(waiters) : i < next[t] => Passed(waiters[i])
    /\ pc[t] = "walk" /\ caller[t] = "wait" => waiter[t].predicate = "false"
    /\ pc[t] = "release" => \A i \in 1..Len(waiters) : Passed(waiters[i])

WalkOK ==
    /\ \A t \in Threads : WalkAt(t)
    /\ ~futex.held => \A i \in 1..Len(waiters) : Passed(waiters[i])

\* A step that moves no thread into the walk, takes no bit of the word away and
\* makes no waiter ready leaves no ready waiter behind.
LEMMA WalkKept ==
    ASSUME WalkOK, UNCHANGED <<waiters, caller>>,
           futex'.held <=> futex.held,
           \A u \in Threads : pc'[u] \in {"walk", "release"} =>
                                 pc'[u] = pc[u] /\ next'[u] = next[u],
           \A u \in Threads : waiter'[u].predicate = waiter[u].predicate,
           \A u \in Threads : waiter[u].futex = 1 => waiter'[u].futex = 1,
           waiters \in Seq(Threads)
    PROVE  WalkOK'
<1>1. \A u \in Threads : Passed(u) => Passed(u)'
  BY Zenon DEF Passed
<1>2. \A i \in 1..Len(waiters) : waiters[i] \in Threads
  OBVIOUS
<1>3. \A i \in 1..Len(waiters) : Passed(waiters[i]) => Passed(waiters[i])'
  BY <1>1, <1>2, ZenonT(40) DEF Passed
<1>4. ASSUME NEW u \in Threads PROVE WalkAt(u)'
  BY <1>3, SMTT(40) DEF WalkOK, WalkAt
<1>5. ~futex'.held => \A i \in 1..Len(waiters') : Passed(waiters[i])'
  BY <1>3, Zenon DEF WalkOK
<1> QED BY <1>4, <1>5, Zenon DEF WalkOK

\* Every step leaves no ready waiter behind the walk, and none when it ends.
LEMMA WalkStep == IInv /\ IInv' /\ WalkOK /\ Next => WalkOK'
<1> SUFFICES ASSUME IInv, IInv', WalkOK, NEW t \in Threads,
                    \/ \E b \in BOOLEAN :
                          LockExclusive(t, b) \/ LockShared(t, b) \/ Wait(t, b)
                    \/ UnlockExclusive(t)
                    \/ \E w \in Threads, o \in Outcome : Mutate(t, w, o)
                    \/ Step(t) \/ Timeout(t) \/ SpuriousWake(t)
             PROVE  WalkOK'
  BY Zenon DEF Next
<1>a. /\ futex \in Word
      /\ pc \in [Threads -> Labels]
      /\ waiters \in Seq(Threads)
      /\ waiter \in [Threads -> Waiter]
      /\ next \in [Threads -> Nat \ {0}]
      /\ OwnerOK
  BY Zenon DEF IInv, TypeOK
<1>b. OwnerOK' /\ pc' \in [Threads -> Labels]
  BY Zenon DEF IInv, TypeOK
<1>1. CASE /\ UNCHANGED <<waiters, caller>>
           /\ futex'.held <=> futex.held
           /\ \A u \in Threads : pc'[u] \in {"walk", "release"} =>
                                    pc'[u] = pc[u] /\ next'[u] = next[u]
           /\ \A u \in Threads : waiter'[u].predicate = waiter[u].predicate
           /\ \A u \in Threads : waiter[u].futex = 1 => waiter'[u].futex = 1
  BY <1>1, <1>a, WalkKept, ZenonT(40)
<1>2. CASE pc'[t] = "owner"
  <2>1. Holds(t)' /\ futex'.held
    BY <1>2, <1>b, Zenon DEF Holds, OwnerOK
  <2>2. ASSUME NEW u \in Threads PROVE pc'[u] \notin {"walk", "release"}
    BY <1>2, <1>b, <2>1, Zenon DEF OwnerOK, Holds
  <2> QED BY <2>1, <2>2, Zenon DEF WalkOK, WalkAt
<1>3. ASSUME NEW b \in BOOLEAN, LockExclusive(t, b) PROVE WalkOK'
  BY <1>1, <1>3, <1>a, Zenon DEF LockExclusive, Goto
<1>4. ASSUME NEW b \in BOOLEAN, LockShared(t, b) PROVE WalkOK'
  <2>1. futex'.held = futex.held
    BY <1>4, <1>a, Zenon DEF LockShared, Word
  <2> QED BY <1>1, <1>4, <1>a, <2>1, Zenon DEF LockShared, Goto
<1>5. ASSUME pc[t] = "owner", pc'[t] = "walk", next'[t] = 1,
             caller'[t] = "wait" => waiter'[t].predicate = "false"
      PROVE  WalkOK'
  <2>1. Holds(t)' /\ futex'.held
    BY <1>5, <1>b, Zenon DEF Holds, OwnerOK
  <2>2. ASSUME NEW u \in Threads, u # t PROVE pc'[u] \notin {"walk", "release"}
    BY <1>b, <2>1, <2>2, Zenon DEF OwnerOK, Holds
  <2>3. \A i \in 1..Len(waiters') : ~(i < next'[t])
    BY <1>5, NoneBelowFirst, Zenon
  <2>4. WalkAt(t)'
    BY <1>5, <2>3, Zenon DEF WalkAt
  <2> QED BY <2>1, <2>2, <2>4, Zenon DEF WalkOK, WalkAt
<1>6. ASSUME NEW b \in BOOLEAN, Wait(t, b) PROVE WalkOK'
  <2>1. pc[t] = "owner" /\ pc'[t] = "walk" /\ next'[t] = 1
    BY <1>6, <1>a, Zenon DEF Wait, Goto
  <2>2. waiter'[t].predicate = "false"
    BY <1>6, <1>a, Zenon DEF Wait, NoWaiter
  <2> QED BY <1>5, <2>1, <2>2, Zenon
<1>7. ASSUME UnlockExclusive(t) PROVE WalkOK'
  <2>1. pc[t] = "owner" /\ pc'[t] = "walk" /\ next'[t] = 1
    BY <1>7, <1>a, Zenon DEF UnlockExclusive, Goto
  <2>2. caller'[t] # "wait"
    BY <1>7, Zenon DEF UnlockExclusive, IInv, WaiterOK, WaiterAt, InLockX, InWait
  <2> QED BY <1>5, <2>1, <2>2, Zenon
<1>8. ASSUME NEW w \in Threads, NEW o \in Outcome, Mutate(t, w, o) PROVE WalkOK'
  BY <1>2, <1>8, Zenon DEF Mutate
<1>9. ASSUME Timeout(t) \/ SpuriousWake(t) PROVE WalkOK'
  BY <1>1, <1>9, <1>a, Zenon
  DEF SpuriousWake, Timeout, TimeoutExclusive, TimeoutShared, TimeoutWaiter, Goto
<1>10. ASSUME TryExclusive(t) PROVE WalkOK'
  <2>1. CASE futex = Zero
    BY <1>2, <1>10, <1>a, <2>1, Zenon DEF TryExclusive, Acquired, Goto
  <2>2. CASE futex # Zero
    BY <1>1, <1>10, <1>a, <2>2, Zenon DEF TryExclusive, Goto
  <2> QED BY <2>1, <2>2, Zenon
<1>11. ASSUME SetRequested(t) PROVE WalkOK'
  <2>1. futex'.held = futex.held
    BY <1>11, <1>a, Zenon DEF SetRequested, Word
  <2> QED BY <1>1, <1>11, <1>a, <2>1, Zenon DEF SetRequested, Goto
<1>12. ASSUME SleepExclusive(t) \/ SleepShared(t) \/ ReloadShared(t) PROVE WalkOK'
  BY <1>1, <1>12, <1>a, Zenon DEF SleepExclusive, SleepShared, ReloadShared, Goto
<1>13. ASSUME DropShared(t) PROVE WalkOK'
  <2>1. futex'.held = futex.held
    BY <1>13, <1>a, Zenon DEF DropShared, Word
  <2> QED BY <1>1, <1>13, <1>a, <2>1, Zenon DEF DropShared, Goto
<1>14. ASSUME ClearRequested(t) PROVE WalkOK'
  <2>1. futex'.held <=> futex.held
    BY <1>14 DEF ClearRequested, Zero, RequestedOnly
  <2> QED BY <1>1, <1>14, <1>a, <2>1, Zenon DEF ClearRequested, Goto
<1>15. ASSUME WakeWaiter(t) \/ WakeAll(t) PROVE WalkOK'
  BY <1>1, <1>15, <1>a, Zenon DEF WakeWaiter, WakeAll, Return
<1>16. ASSUME SleepWaiter(t) PROVE WalkOK'
  BY <1>1, <1>16, <1>a, Zenon DEF SleepWaiter, Goto
<1>17. ASSUME TakeDestiny(t) PROVE WalkOK'
  <2>1. ASSUME NEW u \in Threads
        PROVE  /\ waiter'[u].predicate = waiter[u].predicate
               /\ waiter[u].futex = 1 => waiter'[u].futex = 1
    <3>1. CASE waiter' = waiter
      BY <3>1, Zenon
    <3>2. CASE waiter' = [waiter EXCEPT ![t].futex = 1]
      BY <1>a, <3>2, Zenon DEF Waiter
    <3> QED BY <1>17, <3>1, <3>2, Zenon DEF TakeDestiny
  <2> QED BY <1>1, <1>17, <1>a, <2>1, Zenon DEF TakeDestiny, Goto
<1>18. ASSUME CheckWaiter(t) PROVE WalkOK'
  <2>1. CASE waiter[t].futex = 1
    BY <1>2, <1>18, <1>a, <2>1, Zenon DEF CheckWaiter, Acquired, Goto
  <2>2. CASE waiter[t].futex # 1
    BY <1>1, <1>18, <1>a, <2>2, Zenon DEF CheckWaiter, Goto
  <2> QED BY <2>1, <2>2, Zenon
<1>19. ASSUME ReleaseExclusive(t) PROVE WalkOK'
  <2>1. \A i \in 1..Len(waiters) : Passed(waiters[i])
    BY <1>19, Zenon DEF ReleaseExclusive, WalkOK, WalkAt
  <2>2. \A i \in 1..Len(waiters') : Passed(waiters[i])'
    BY <1>19, <2>1, Zenon DEF ReleaseExclusive, Passed
  <2>3. ASSUME NEW u \in Threads PROVE pc'[u] \notin {"walk", "release"}
    <3>1. u # t => pc[u] \notin {"walk", "release"}
      BY <1>19, <1>a, Zenon DEF ReleaseExclusive, OwnerOK, Holds
    <3> QED BY <1>19, <1>a, <3>1, Zenon DEF ReleaseExclusive, Return, Goto
  <2> QED BY <2>2, <2>3, Zenon DEF WalkOK, WalkAt
<1>20. ASSUME WalkWaiters(t) PROVE WalkOK'
  <2> DEFINE w == waiters[next[t]]
  <2>1. /\ pc[t] = "walk" /\ UNCHANGED <<futex, waiters, caller>>
        /\ Holds(t) /\ futex.held
    BY <1>20, <1>a, Zenon DEF WalkWaiters, Holds, OwnerOK
  <2>2. ASSUME NEW u \in Threads, u # t PROVE pc[u] \notin {"walk", "release"}
    BY <1>a, <2>1, <2>2, Zenon DEF OwnerOK, Holds
  <2>3. WalkAt(t)
    BY Zenon DEF WalkOK
  <2>4. ASSUME NEW u \in Threads, u # t,
               \/ pc' = pc
               \/ \E l \in {"release", "wakeOne"} : pc' = [pc EXCEPT ![t] = l]
        PROVE  WalkAt(u)'
    BY <1>a, <2>2, <2>4, Zenon DEF WalkAt
  <2>5. CASE next[t] > Len(waiters)
    <3>1. pc' = [pc EXCEPT ![t] = "release"] /\ UNCHANGED waiter
      BY <1>20, <2>5, <1>a, SMTT(40) DEF WalkWaiters, Goto
    <3>2. \A i \in 1..Len(waiters) : i < next[t]
      BY <1>a, <2>5, SMTT(40)
    <3>3. \A i \in 1..Len(waiters) : Passed(waiters[i])
      BY <2>1, <2>3, <3>2, Zenon DEF WalkAt
    <3>4. WalkAt(t)'
      BY <1>a, <2>1, <3>1, <3>3, Zenon DEF WalkAt, Passed
    <3> QED BY <2>1, <2>4, <3>1, <3>4, Zenon DEF WalkOK
  <2>6. CASE /\ next[t] <= Len(waiters)
             /\ pc' = pc /\ next' = [next EXCEPT ![t] = @ + 1]
             /\ waiter' \in {waiter, [waiter EXCEPT ![w].exception = Throws(w)]}
             /\ Passed(w)
    <3>1. ASSUME NEW u \in Threads
          PROVE  /\ waiter'[u].predicate = waiter[u].predicate
                 /\ waiter'[u].futex = waiter[u].futex
      <4>1. CASE waiter' = waiter
        BY <4>1, Zenon
      <4>2. CASE waiter' = [waiter EXCEPT ![w].exception = Throws(w)]
        BY <1>a, <4>2, Zenon DEF Waiter
      <4> QED BY <2>6, <4>1, <4>2, Zenon
    <3>2. \A i \in 1..Len(waiters) : i < next'[t] => i < next[t] \/ i = next[t]
      BY <1>a, <2>6, SMTT(40)
    <3>3. \A i \in 1..Len(waiters) : i < next'[t] => Passed(waiters[i])
      BY <2>1, <2>3, <2>6, <3>2, Zenon DEF WalkAt
    <3>4. \A i \in 1..Len(waiters) : waiters[i] \in Threads
      BY <1>a, SMTT(40)
    <3>5. \A i \in 1..Len(waiters) : i < next'[t] => Passed(waiters[i])'
      BY <2>1, <3>1, <3>3, <3>4, Zenon DEF Passed
    <3>6. WalkAt(t)'
      BY <2>1, <2>3, <2>6, <3>1, <3>5, Zenon DEF WalkAt
    <3> QED BY <2>1, <2>4, <2>6, <3>6, Zenon DEF WalkOK
  <2>7. CASE pc' = [pc EXCEPT ![t] = "wakeOne"]
    <3>1. WalkAt(t)'
      BY <1>a, <2>7, Zenon DEF WalkAt
    <3> QED BY <2>1, <2>4, <2>7, <3>1, Zenon DEF WalkOK
  <2>8. ASSUME next[t] <= Len(waiters), (caller[t] = "wait" /\ w = t) \/ ~Ready(w)
        PROVE  Passed(w)
    BY <2>1, <2>3, <2>8, ZenonT(40) DEF WalkAt, Passed, Ready
  <2>9. ASSUME next[t] <= Len(waiters), ~(~waiter[w].hasTimeout \/ waiter[w].futex = 0)
        PROVE  Passed(w)
    <3>1. w \in Threads
      BY <2>9, NextWaiter, Zenon
    <3>2. waiter[w].futex \in {0, 1}
      BY <1>a, <3>1, Zenon DEF Waiter
    <3> QED BY <2>9, <3>2, Zenon DEF Passed
  <2>10. next[t] > Len(waiters) \/ next[t] <= Len(waiters)
    BY <1>a
  <2> QED BY <1>20, <2>5, <2>6, <2>7, <2>8, <2>9, <2>10, ZenonT(40) DEF WalkWaiters, Goto
<1> QED
  BY <1>3, <1>4, <1>6, <1>7, <1>8, <1>9, <1>10, <1>11, <1>12, <1>13, <1>14, <1>15,
     <1>16, <1>17, <1>18, <1>19, <1>20, ZenonT(40) DEF Step

\* unlock() leaves no ready waiter behind, for any number of threads: while the
\* lock is not held exclusively every linked waiter has a false predicate, or has
\* timed out and will take the lock itself.
THEOREM NoReadyWaiterForgotten == Spec => []NoReadyWaiterLeft
<1>1. Init => WalkOK
  BY DEF Init, WalkOK, WalkAt
<1>2. IInv /\ IInv' /\ WalkOK /\ [Next]_vars => WalkOK'
  <2>1. WalkOK /\ UNCHANGED vars => WalkOK'
    BY Zenon DEF vars, WalkOK, WalkAt, Passed
  <2> QED BY <2>1, WalkStep, Zenon
<1>3. WalkOK => NoReadyWaiterLeft
  BY Zenon DEF WalkOK, Passed, NoReadyWaiterLeft
<1> QED
  BY InductiveInvariant, <1>1, <1>2, <1>3, PTL DEF Spec

=============================================================================
