------------------------ MODULE FlowControllerProofs ------------------------
(***************************************************************************)
(* StreamBounded and WaitNotEarly for any number of senders, any sizes of  *)
(* messages and any window: the bytes in flight exceed the window by less  *)
(* than a message, plus a message for each sender that is blocked, and     *)
(* waitAllAcked() resolves only when no ack is outstanding.                *)
(***************************************************************************)
EXTENDS FlowController, FiniteSetTheorems, TLAPS

\* What StreamBounded needs besides itself: the types of the counters, but
\* not that inFlight stays positive, which rests on the sum of the sizes.
Bounded ==
    /\ blockedSends \subseteq Senders
    /\ inFlight \in Int
    /\ maxMessageSize \in Nat
    /\ tasks \subseteq (1 .. MaxSends) \X Sizes
    /\ sent \in Nat
    /\ StreamBounded

\* The allowance of the blocked senders grows with the largest message.
LEMMA Monotone ==
    ASSUME NEW b \in Nat, NEW m \in Nat, NEW n \in Nat, m <= n
    PROVE  /\ b * m \in Nat
           /\ b * m <= b * n
           /\ (b + 1) * n = b * n + n
  BY SMT

\* A set of blocked senders is finite, so it has a size.
LEMMA BlockedFinite ==
    ASSUME NEW S, S \subseteq Senders
    PROVE  IsFiniteSet(S) /\ Cardinality(S) \in Nat
  BY FlowAssumption, FS_Subset, FS_CardinalityType

\* send() adds at most one message over the bound, and then blocks its sender.
LEMMA SendBounded ==
    ASSUME Bounded, NEW p \in Senders, NEW size \in Sizes, NEW w \in Windows,
           Send(p, size, w)
    PROVE  Bounded'
  <1> DEFINE b == Cardinality(blockedSends)
             m == maxMessageSize
             n == maxMessageSize'
  <1>1. size \in Nat /\ w \in Nat /\ w <= MaxWindow /\ MaxWindow \in Nat \ {0}
    BY FlowAssumption
  <1>2. /\ n \in Nat /\ m \in Nat
        /\ m <= n /\ size <= n
    BY <1>1 DEF Send, Bounded, larger
  <1>3. /\ blockedSends' \subseteq Senders
        /\ inFlight' \in Int /\ inFlight' = inFlight + size
        /\ sent' \in Nat
    BY <1>1 DEF Send, Bounded
  <1>4. tasks' \subseteq (1 .. MaxSends) \X Sizes
    <2>1. sent + 1 \in 1 .. MaxSends
      BY FlowAssumption DEF Send, Bounded
    <2> QED BY <2>1 DEF Send, Bounded
  <1>5. IsFiniteSet(blockedSends) /\ b \in Nat
    BY BlockedFinite DEF Bounded
  <1>6. SUFFICES ASSUME Alive', state' = "running"
                 PROVE  inFlight' < MaxWindow + n + Cardinality(blockedSends') * n
    BY <1>2, <1>3, <1>4 DEF Bounded, StreamBounded
  <1>7. state = "running" /\ Alive
    BY <1>6 DEF Send, Alive
  <1>8. inFlight < MaxWindow + m + b * m
    BY <1>7 DEF Bounded, StreamBounded
  <1>9. b * m \in Nat /\ b * n \in Nat /\ b * m <= b * n /\ (b + 1) * n = b * n + n
    <2>1. b * m \in Nat /\ b * m <= b * n /\ (b + 1) * n = b * n + n
      BY <1>2, <1>5, Monotone
    <2>2. b * n \in Nat
      BY <1>2, <1>5, Monotone
    <2> QED BY <2>1, <2>2
  <1>10. CASE isReady(inFlight', n, w)
    <2>1. blockedSends' = blockedSends
      BY <1>10 DEF Send
    <2>2. inFlight' < MaxWindow + n
      BY <1>1, <1>2, <1>3, <1>10 DEF isReady
    <2> HIDE DEF b, m, n
    <2>3. inFlight' < MaxWindow + n + b * n
      BY <1>1, <1>2, <1>3, <1>9, <2>2
    <2> QED BY <2>1, <2>3 DEF b, n
  <1>11. CASE ~isReady(inFlight', n, w)
    <2>1. blockedSends' = blockedSends \cup {p} /\ p \notin blockedSends
      BY <1>7, <1>11 DEF Send
    <2>2. Cardinality(blockedSends') = b + 1
      BY <2>1, <1>5, FS_AddElement
    <2> HIDE DEF b, m, n
    <2>3. inFlight' < MaxWindow + n + (b + 1) * n
      <3>1. inFlight \in Int
        BY DEF Bounded
      <3> QED BY <1>1, <1>2, <1>3, <1>8, <1>9, <3>1
    <2> QED BY <2>2, <2>3 DEF n
  <1> QED BY <1>10, <1>11

\* An ack only takes bytes away; when it releases the senders there is room.
LEMMA AckBounded ==
    ASSUME Bounded, NEW t \in tasks, NEW w \in Windows, Ack(t, w)
    PROVE  Bounded'
  <1>1. w \in Nat /\ w <= MaxWindow /\ MaxWindow \in Nat \ {0}
    BY FlowAssumption
  <1>2. t[2] \in Nat
    BY FlowAssumption DEF Bounded
  <1>3. /\ blockedSends' \subseteq Senders
        /\ inFlight' \in Int /\ inFlight' <= inFlight
        /\ maxMessageSize' = maxMessageSize
        /\ tasks' \subseteq (1 .. MaxSends) \X Sizes
        /\ sent' \in Nat
    BY <1>2 DEF Ack, Bounded
  <1>4. SUFFICES ASSUME Alive', state' = "running"
                 PROVE  inFlight' < MaxWindow + maxMessageSize
                                    + Cardinality(blockedSends') * maxMessageSize
    BY <1>3 DEF Bounded, StreamBounded
  <1>5. state = "running" /\ Alive
    BY <1>4 DEF Ack
  <1>6. CASE isReady(inFlight', maxMessageSize, w)
    <2>1. blockedSends' = {}
      BY <1>5, <1>6 DEF Ack
    <2>2. Cardinality(blockedSends') = 0
      BY <2>1, FS_EmptySet
    <2>3. maxMessageSize \in Nat
      BY DEF Bounded
    <2> QED BY <1>1, <1>3, <1>6, <2>2, <2>3 DEF isReady
  <1>7. CASE ~isReady(inFlight', maxMessageSize, w)
    <2> DEFINE allowance == Cardinality(blockedSends) * maxMessageSize
    <2>1. blockedSends' = blockedSends
      BY <1>7 DEF Ack
    <2>2. inFlight < MaxWindow + maxMessageSize + allowance
      BY <1>5 DEF Bounded, StreamBounded
    <2>3. allowance \in Nat /\ maxMessageSize \in Nat /\ inFlight \in Int
      <3>1. maxMessageSize \in Nat /\ inFlight \in Int
        BY DEF Bounded
      <3>2. Cardinality(blockedSends) \in Nat
        BY BlockedFinite DEF Bounded
      <3> QED BY <3>1, <3>2, Monotone
    <2>4. allowance = Cardinality(blockedSends') * maxMessageSize
      BY <2>1
    <2> HIDE DEF allowance
    <2>5. inFlight' < MaxWindow + maxMessageSize + allowance
      BY <1>1, <1>3, <2>2, <2>3
    <2> QED BY <2>4, <2>5
  <1> QED BY <1>6, <1>7

\* A send() that throws may still raise the largest size, and so the bound.
LEMMA SendThrowsBounded ==
    ASSUME Bounded, NEW p \in Senders, NEW size \in Sizes, SendThrows(p, size)
    PROVE  Bounded'
  <1> DEFINE b == Cardinality(blockedSends)
             m == maxMessageSize
             n == maxMessageSize'
  <1>1. size \in Nat /\ MaxWindow \in Nat
    BY FlowAssumption
  <1>2. n \in Nat /\ m \in Nat /\ m <= n /\ inFlight \in Int
    BY <1>1 DEF SendThrows, Bounded, larger
  <1>3. b \in Nat
    BY BlockedFinite DEF Bounded
  <1>4. b * m \in Nat /\ b * n \in Nat /\ b * m <= b * n
    <2>1. b * m \in Nat /\ b * m <= b * n
      BY <1>2, <1>3, Monotone
    <2>2. b * n \in Nat
      BY <1>2, <1>3, Monotone
    <2> QED BY <2>1, <2>2
  <1>5. ASSUME Alive, state = "running"
        PROVE  inFlight < MaxWindow + n + b * n
    <2>1. inFlight < MaxWindow + m + b * m
      BY <1>5 DEF Bounded, StreamBounded
    <2> HIDE DEF b, m, n
    <2> QED BY <1>1, <1>2, <1>4, <2>1
  <1>6. StreamBounded'
    BY <1>5 DEF SendThrows, StreamBounded, Alive
  <1> QED BY <1>2, <1>6 DEF SendThrows, Bounded

\* Every step of the controller keeps the bound.
LEMMA NextBounded ==
    ASSUME Bounded, [Next]_vars
    PROVE  Bounded'
  <1>1. CASE \E p \in Senders, size \in Sizes, w \in Windows : Send(p, size, w)
    BY <1>1, SendBounded
  <1>2. CASE \E p \in Senders, size \in Sizes : SendThrows(p, size)
    BY <1>2, SendThrowsBounded
  <1>3. CASE \E t \in tasks, w \in Windows : Ack(t, w)
    BY <1>3, AckBounded
  <1>4. CASE \E t \in tasks : AckFails(t)
    BY <1>4 DEF AckFails, Bounded, StreamBounded
  <1>5. CASE WaitAllAcked
    BY <1>5 DEF WaitAllAcked, Bounded, StreamBounded, Alive
  <1>6. CASE Destroy
    BY <1>6 DEF Destroy, Bounded, StreamBounded, Alive
  <1>7. CASE UNCHANGED vars
    BY <1>7 DEF vars, Bounded, StreamBounded, Alive
  <1> QED
    BY <1>1, <1>2, <1>3, <1>4, <1>5, <1>6, <1>7 DEF Next, Answer

\* The bytes of a stream in flight are bounded by the window, the largest
\* message and the number of blocked senders, for any number of senders and
\* messages and whatever the window does below MaxWindow: send() and its
\* continuation apply the backpressure they promise.
THEOREM StreamIsBounded == Spec => []StreamBounded
  <1>1. Init => Bounded
    <2> SUFFICES ASSUME Init PROVE Bounded
      OBVIOUS
    <2>1. Cardinality(blockedSends) = 0 /\ MaxWindow \in Nat \ {0}
      BY FS_EmptySet, FlowAssumption DEF Init
    <2> QED BY <2>1 DEF Init, Bounded, StreamBounded
  <1>2. Bounded /\ [Next]_vars => Bounded'
    BY NextBounded
  <1>3. Bounded => StreamBounded
    BY DEF Bounded
  <1> QED BY <1>1, <1>2, <1>3, PTL DEF Spec

\* waitAllAcked() never resolves while an ack is outstanding: neither the way
\* through emptyFulfiller nor the one through tasks.onEmpty() gives up the
\* controller, and with it the calls in its task set, before the last answer.
THEOREM WaitIsNotEarly == Spec => []WaitNotEarly
  <1>1. Init => WaitNotEarly
    BY Zenon DEF Init, WaitNotEarly
  <1>2. WaitNotEarly /\ [Next]_vars => WaitNotEarly'
    <2> SUFFICES ASSUME WaitNotEarly, [Next]_vars
                 PROVE  WaitNotEarly'
      BY Zenon
    <2> USE DEF WaitNotEarly, Emptied, Alive
    <2>1. ASSUME NEW p \in Senders, NEW size \in Sizes, NEW w \in Windows,
                 Send(p, size, w)
          PROVE  WaitNotEarly'
      BY <2>1, Zenon DEF Send
    <2>2. ASSUME NEW p \in Senders, NEW size \in Sizes, SendThrows(p, size)
          PROVE  WaitNotEarly'
      BY <2>2, Zenon DEF SendThrows
    <2>3. ASSUME NEW t \in tasks, NEW w \in Windows, Ack(t, w)
          PROVE  WaitNotEarly'
      BY <2>3, Zenon DEF Ack
    <2>4. ASSUME NEW t \in tasks, AckFails(t)
          PROVE  WaitNotEarly'
      BY <2>4, Zenon DEF AckFails
    <2>5. CASE WaitAllAcked
      BY <2>5, Zenon DEF WaitAllAcked
    <2>6. CASE Destroy
      BY <2>6, Zenon DEF Destroy
    <2>7. CASE UNCHANGED vars
      BY <2>7, Zenon DEF vars
    <2> QED
      BY <2>1, <2>2, <2>3, <2>4, <2>5, <2>6, <2>7, Zenon DEF Next, Answer
  <1> QED BY <1>1, <1>2, PTL DEF Spec

=============================================================================
