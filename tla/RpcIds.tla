------------------------------- MODULE RpcIds -------------------------------
(***************************************************************************)
(* Question ids: what one vat's questions, the peer's answers to them and  *)
(* the messages about them have to do with each other (Half), for tables   *)
(* and sequences of messages in general.  One lemma for each thing a vat   *)
(* does to its questions, and each thing its peer does to the answers, says*)
(* that Half is kept; RpcProofs applies them to the actions of Rpc.        *)
(***************************************************************************)
EXTENDS ExportTable, TLAPS

-----------------------------------------------------------------------------
(* What messages say about ids.                                            *)

Asks(m) == m.type \in {"bootstrap", "call"}

(* A question whose Return is awaited.                                     *)
Wants(m) == m.type = "bootstrap" \/ (m.type = "call" /\ ~m.onlyPromisePipeline)

Finishes(m, q, n) == m.type = "finish" /\ m.id = q /\ m.call = n

Returns(m, q) == m.type = "return" /\ m.id = q

(* m names the id q and means call n by it.                                *)
Mentions(m, q, n) ==
  \/ (Asks(m) \/ m.type = "finish") /\ m.id = q /\ m.call = n
  \/ /\ m.type = "call" /\ m.target.kind = "promisedAnswer"
     /\ m.target.id = q /\ m.target.call = n

-----------------------------------------------------------------------------
(* The questions qs of one vat, the peer's answers ans, the messages out   *)
(* from the one to the other and the messages in that come back.  The vat  *)
(* has asked next questions, hc of them for their pipeline only.           *)

(* An answer's call is the call of the question of its id, or earlier.     *)
KnownCalls(qs, ans, next) ==
  /\ \A q \in DOMAIN qs : q \in Nat /\ qs[q].call \in Nat /\ qs[q].call < next
  /\ \A q \in DOMAIN ans : q \in Nat /\ ans[q].call \in Nat /\ ans[q].call < next
  /\ \A q \in DOMAIN ans : q \in DOMAIN qs => ans[q].call <= qs[q].call

(* So is the call of a mention.                                            *)
MentionsKnown(qs, out, next) ==
  \A i \in DOMAIN out : \A q, n \in Nat : Mentions(out[i], q, n) =>
    n < next /\ (q \in DOMAIN qs => n <= qs[q].call)

(* An id is mentioned for one call after the other.                        *)
MentionsInOrder(out) ==
  \A i, j \in DOMAIN out : \A q, n, k \in Nat :
    i < j /\ Mentions(out[i], q, n) /\ Mentions(out[j], q, k) => n <= k

(* No mention is late, and one that is early comes after the Finish of the *)
(* answer that has the id.                                                 *)
AnswersInTime(ans, out) ==
  \A q \in DOMAIN ans : \A j \in DOMAIN out : \A n \in Nat : Mentions(out[j], q, n) =>
    /\ ans[q].call <= n
    /\ ans[q].call < n => \E i \in DOMAIN out : i < j /\ Finishes(out[i], q, ans[q].call)

(* An answer that its question has let go of, or has not been told to      *)
(* finish, has a Finish on its way.                                        *)
FinishDue(qs, ans, out) ==
  \A q \in DOMAIN ans :
    /\ ~isHigh(q)
    /\ \/ q \notin DOMAIN qs
       \/ qs[q].call # ans[q].call
       \/ ~qs[q].selfRef /\ ans[q].callContext # "finished"
    => \E i \in DOMAIN out : Finishes(out[i], q, ans[q].call)

(* High ids are never used again, and nobody waits for their Returns.      *)
HighIds(qs, ans, out, hc) ==
  /\ \A i \in DOMAIN out : \A q, n \in Nat : Mentions(out[i], q, n) /\ isHigh(q) =>
       /\ q < HighBit + hc
       /\ q \in DOMAIN qs => qs[q].call = n
       /\ q \in DOMAIN ans => ans[q].call = n
       /\ \A j \in DOMAIN out : \A k \in Nat : Mentions(out[j], q, k) => k = n
  /\ \A q \in DOMAIN ans :
       /\ ans[q].onlyPromisePipeline <=> isHigh(q)
       /\ isHigh(q) => q < HighBit + hc /\ (q \in DOMAIN qs => qs[q].call = ans[q].call)
  /\ \A q \in DOMAIN qs : isHigh(q) =>
       q < HighBit + hc /\ ~qs[q].isAwaitingReturn /\ ~qs[q].skipFinish
  /\ \A i \in DOMAIN out : Asks(out[i]) => (Wants(out[i]) <=> ~isHigh(out[i].id))

(* A Return on its way is the only one for its question, which waits.      *)
ReturnsExpected(qs, ans, in) ==
  \A i \in DOMAIN in : \A q \in Nat : Returns(in[i], q) =>
    /\ q \in DOMAIN qs /\ qs[q].call = in[i].call /\ qs[q].isAwaitingReturn
    /\ \A j \in DOMAIN in : Returns(in[j], q) => i = j
    /\ in[i].noFinishNeeded /\ q \in DOMAIN ans => ans[q].call # in[i].call

(* So does the question of a call that will return, ...                    *)
RunningExpected(qs, ans, out, in) ==
  \A q \in DOMAIN ans : ans[q].callContext # "none" /\ ~ans[q].onlyPromisePipeline =>
    /\ q \in DOMAIN qs /\ qs[q].call = ans[q].call /\ qs[q].isAwaitingReturn
    /\ \A i \in DOMAIN in : ~Returns(in[i], q)
    /\ \A i \in DOMAIN out : ~(Wants(out[i]) /\ out[i].id = q)

(* ... and the question whose message is still on its way.                 *)
AsksExpected(qs, out, in) ==
  \A i \in DOMAIN out : \A q \in Nat : Wants(out[i]) /\ out[i].id = q =>
    /\ q \in DOMAIN qs /\ qs[q].call = out[i].call /\ qs[q].isAwaitingReturn
    /\ \A j \in DOMAIN in : ~Returns(in[j], q)
    /\ \A j \in DOMAIN out : Wants(out[j]) /\ out[j].id = q => i = j
    /\ ~qs[q].selfRef => \E j \in DOMAIN out : i < j /\ Finishes(out[j], q, out[i].call)

(* A question is skipped by Finish only if its answer has gone.            *)
FinishSkipped(qs, ans) ==
  \A q \in DOMAIN qs :
    /\ qs[q].isAwaitingReturn \/ qs[q].selfRef
    /\ qs[q].skipFinish => /\ ~qs[q].isAwaitingReturn
                           /\ q \in DOMAIN ans => ans[q].call # qs[q].call

Half(qs, ans, out, in, next, hc) ==
  /\ next \in Nat /\ hc \in Nat
  /\ KnownCalls(qs, ans, next)
  /\ MentionsKnown(qs, out, next)
  /\ MentionsInOrder(out)
  /\ AnswersInTime(ans, out)
  /\ FinishDue(qs, ans, out)
  /\ HighIds(qs, ans, out, hc)
  /\ ReturnsExpected(qs, ans, in)
  /\ RunningExpected(qs, ans, out, in)
  /\ AsksExpected(qs, out, in)
  /\ FinishSkipped(qs, ans)

(* How tables and sequences of messages change.                            *)

Set(table, after, id, entry) ==
  /\ DOMAIN after = DOMAIN table \cup {id}
  /\ after[id] = entry
  /\ \A x \in DOMAIN table : x # id => after[x] = table[x]

Removed(table, after, id) ==
  /\ DOMAIN after = DOMAIN table \ {id}
  /\ \A x \in DOMAIN after : after[x] = table[x]

Longer(s, after, m) ==
  \E k \in Nat : /\ DOMAIN s = 1 .. k /\ DOMAIN after = 1 .. k + 1
                 /\ after[k + 1] = m /\ \A i \in 1 .. k : after[i] = s[i]

Shorter(s, after) ==
  \E k \in Nat : /\ DOMAIN s = 1 .. k + 1 /\ DOMAIN after = 1 .. k
                 /\ \A i \in 1 .. k : after[i] = s[i + 1]

-----------------------------------------------------------------------------
(* Questions are asked.                                                    *)

\* A question is asked under an id that is free: bootstrap() and send().
LEMMA AskHalf ==
  ASSUME NEW qs, NEW ans, NEW out, NEW in, NEW next, NEW hc, Half(qs, ans, out, in, next, hc),
         NEW q \in Nat, q \notin DOMAIN qs, ~isHigh(q),
         NEW e, e.call = next, e.isAwaitingReturn, e.selfRef, ~e.skipFinish,
         NEW m, Asks(m), Wants(m), m.id = q, m.call = next,
         \A t, n \in Nat : Mentions(m, t, n) =>
           (t = q /\ n = next) \/ (t \in DOMAIN qs /\ n = qs[t].call),
         NEW qs2, Set(qs, qs2, q, e), NEW out2, Longer(out, out2, m)
  PROVE  Half(qs2, ans, out2, in, next + 1, hc)
<1>1. next \in Nat /\ hc \in Nat
  BY Zenon DEF Half
<1>known. KnownCalls(qs, ans, next)  BY Zenon DEF Half
<1>mentions. MentionsKnown(qs, out, next)  BY Zenon DEF Half
<1>order. MentionsInOrder(out)  BY Zenon DEF Half
<1>inTime. AnswersInTime(ans, out)  BY Zenon DEF Half
<1>due. FinishDue(qs, ans, out)  BY Zenon DEF Half
<1>high. HighIds(qs, ans, out, hc)  BY Zenon DEF Half
<1>returns. ReturnsExpected(qs, ans, in)  BY Zenon DEF Half
<1>running. RunningExpected(qs, ans, out, in)  BY Zenon DEF Half
<1>asks. AsksExpected(qs, out, in)  BY Zenon DEF Half
<1>skipped. FinishSkipped(qs, ans)  BY Zenon DEF Half
<1>2. PICK z \in Nat : /\ \A i : i \in DOMAIN out2 <=> i \in DOMAIN out \/ i = z
                       /\ \A i \in DOMAIN out : i \in Nat /\ i < z /\ out2[i] = out[i]
                       /\ out2[z] = m
  BY DEF Longer
<1>3. /\ \A x : x \in DOMAIN qs2 <=> x \in DOMAIN qs \/ x = q
      /\ qs2[q] = e
      /\ \A x \in DOMAIN qs : x # q /\ qs2[x] = qs[x]
  BY Zenon DEF Set
<1>4. KnownCalls(qs2, ans, next + 1)
  BY <1>1, <1>known, <1>3 DEF KnownCalls
<1>5. MentionsKnown(qs2, out2, next + 1)
  BY <1>1, <1>known, <1>mentions, <1>2, <1>3 DEF KnownCalls, MentionsKnown
<1>6. MentionsInOrder(out2)
  BY <1>1, <1>known, <1>mentions, <1>order, <1>2 DEF KnownCalls, MentionsKnown, MentionsInOrder
<1>7. AnswersInTime(ans, out2)
  BY <1>1, <1>known, <1>inTime, <1>due, <1>high, <1>2
     DEF KnownCalls, AnswersInTime, FinishDue, HighIds
<1>8. FinishDue(qs2, ans, out2)
  BY <1>1, <1>known, <1>due, <1>2, <1>3, Zenon DEF KnownCalls, FinishDue
<1>9. HighIds(qs2, ans, out2, hc)
  BY <1>1, <1>known, <1>high, <1>2, <1>3, SMTT(40) DEF KnownCalls, HighIds
<1>10. ReturnsExpected(qs2, ans, in)
  BY <1>1, <1>returns, <1>3 DEF ReturnsExpected
<1>11. RunningExpected(qs2, ans, out2, in)
  BY <1>1, <1>running, <1>2, <1>3 DEF RunningExpected
<1>12. AsksExpected(qs2, out2, in)
  BY <1>1, <1>returns, <1>asks, <1>2, <1>3 DEF AsksExpected, ReturnsExpected
<1>13. FinishSkipped(qs2, ans)
  BY <1>1, <1>skipped, <1>3 DEF FinishSkipped
<1> QED BY <1>1, <1>4, <1>5, <1>6, <1>7, <1>8, <1>9, <1>10, <1>11, <1>12, <1>13 DEF Half

\* sendForPipeline() asks a question under a new high id.
LEMMA AskHighHalf ==
  ASSUME NEW qs, NEW ans, NEW out, NEW in, NEW next, NEW hc, Half(qs, ans, out, in, next, hc),
         NEW q \in Nat, q = HighBit + hc, HighBit \in Nat,
         NEW e, e.call = next, ~e.isAwaitingReturn, e.selfRef, ~e.skipFinish,
         NEW m, Asks(m), ~Wants(m), m.id = q, m.call = next,
         \A t, n \in Nat : Mentions(m, t, n) =>
           (t = q /\ n = next) \/ (t \in DOMAIN qs /\ n = qs[t].call),
         NEW qs2, Set(qs, qs2, q, e), NEW out2, Longer(out, out2, m)
  PROVE  Half(qs2, ans, out2, in, next + 1, hc + 1)
<1>1. next \in Nat /\ hc \in Nat
  BY Zenon DEF Half
<1>known. KnownCalls(qs, ans, next)  BY Zenon DEF Half
<1>mentions. MentionsKnown(qs, out, next)  BY Zenon DEF Half
<1>order. MentionsInOrder(out)  BY Zenon DEF Half
<1>inTime. AnswersInTime(ans, out)  BY Zenon DEF Half
<1>due. FinishDue(qs, ans, out)  BY Zenon DEF Half
<1>high. HighIds(qs, ans, out, hc)  BY Zenon DEF Half
<1>returns. ReturnsExpected(qs, ans, in)  BY Zenon DEF Half
<1>running. RunningExpected(qs, ans, out, in)  BY Zenon DEF Half
<1>asks. AsksExpected(qs, out, in)  BY Zenon DEF Half
<1>skipped. FinishSkipped(qs, ans)  BY Zenon DEF Half
<1>2. PICK z \in Nat : /\ \A i : i \in DOMAIN out2 <=> i \in DOMAIN out \/ i = z
                       /\ \A i \in DOMAIN out : i \in Nat /\ i < z /\ out2[i] = out[i]
                       /\ out2[z] = m
  BY SMTT(40) DEF Longer
<1>3. isHigh(q) /\ q \notin DOMAIN qs /\ q \notin DOMAIN ans
  BY <1>1, <1>high DEF HighIds, isHigh
<1>4. \A i \in DOMAIN out : \A n \in Nat : ~Mentions(out[i], q, n)
  BY <1>1, <1>high, <1>3 DEF HighIds
<1>5. /\ \A x : x \in DOMAIN qs2 <=> x \in DOMAIN qs \/ x = q
      /\ qs2[q] = e
      /\ \A x \in DOMAIN qs : x # q /\ qs2[x] = qs[x]
  BY <1>3, Zenon DEF Set
<1>6. KnownCalls(qs2, ans, next + 1)
  BY <1>1, <1>known, <1>3, <1>4, <1>5 DEF KnownCalls
<1>7. MentionsKnown(qs2, out2, next + 1)
  BY <1>1, <1>known, <1>mentions, <1>2, <1>3, <1>4, <1>5, SMTT(40) DEF KnownCalls, MentionsKnown
<1>8. MentionsInOrder(out2)
  BY <1>1, <1>known, <1>mentions, <1>order, <1>2, SMTT(40) DEF KnownCalls, MentionsKnown, MentionsInOrder
<1>9. AnswersInTime(ans, out2)
  <2>1. ASSUME NEW t \in DOMAIN ans, NEW n \in Nat, Mentions(m, t, n)
        PROVE  t \in DOMAIN qs /\ n = qs[t].call
    BY <1>1, <1>known, <1>3, <2>1, Zenon DEF KnownCalls
  <2> QED BY <1>1, <1>known, <1>inTime, <1>due, <1>high, <1>2, <2>1
             DEF KnownCalls, AnswersInTime, FinishDue, HighIds
<1>10. FinishDue(qs2, ans, out2)
  BY <1>1, <1>known, <1>due, <1>2, <1>3, <1>4, <1>5, Zenon DEF KnownCalls, FinishDue
<1>11. HighIds(qs2, ans, out2, hc + 1)
  BY <1>1, <1>known, <1>high, <1>2, <1>3, <1>4, <1>5, SMTT(40) DEF KnownCalls, HighIds
<1>12. ReturnsExpected(qs2, ans, in)
  BY <1>1, <1>returns, <1>3, <1>4, <1>5 DEF ReturnsExpected
<1>13. RunningExpected(qs2, ans, out2, in)
  BY <1>1, <1>running, <1>2, <1>3, <1>4, <1>5, SMTT(40) DEF RunningExpected
<1>14. AsksExpected(qs2, out2, in)
  BY <1>1, <1>returns, <1>asks, <1>2, <1>3, <1>4, <1>5 DEF AsksExpected, ReturnsExpected
<1>15. FinishSkipped(qs2, ans)
  BY <1>skipped, <1>5, Zenon DEF FinishSkipped
<1> QED BY <1>1, <1>6, <1>7, <1>8, <1>9, <1>10, <1>11, <1>12, <1>13, <1>14, <1>15 DEF Half

\* The send() of a call throws: the question is rejected, and needs no Finish.
LEMMA RejectHalf ==
  ASSUME NEW qs, NEW ans, NEW out, NEW in, NEW next, NEW hc, Half(qs, ans, out, in, next, hc),
         NEW q \in Nat, q \notin DOMAIN qs, ~isHigh(q),
         NEW e, e.call = next, ~e.isAwaitingReturn, e.selfRef, e.skipFinish,
         NEW qs2, Set(qs, qs2, q, e)
  PROVE  Half(qs2, ans, out, in, next + 1, hc)
<1>1. next \in Nat /\ hc \in Nat
  BY Zenon DEF Half
<1>known. KnownCalls(qs, ans, next)  BY Zenon DEF Half
<1>mentions. MentionsKnown(qs, out, next)  BY Zenon DEF Half
<1>order. MentionsInOrder(out)  BY Zenon DEF Half
<1>inTime. AnswersInTime(ans, out)  BY Zenon DEF Half
<1>due. FinishDue(qs, ans, out)  BY Zenon DEF Half
<1>high. HighIds(qs, ans, out, hc)  BY Zenon DEF Half
<1>returns. ReturnsExpected(qs, ans, in)  BY Zenon DEF Half
<1>running. RunningExpected(qs, ans, out, in)  BY Zenon DEF Half
<1>asks. AsksExpected(qs, out, in)  BY Zenon DEF Half
<1>skipped. FinishSkipped(qs, ans)  BY Zenon DEF Half
<1>2. /\ \A x : x \in DOMAIN qs2 <=> x \in DOMAIN qs \/ x = q
      /\ qs2[q] = e
      /\ \A x \in DOMAIN qs : x # q /\ qs2[x] = qs[x]
  BY Zenon DEF Set
<1>3. KnownCalls(qs2, ans, next + 1)
  BY <1>1, <1>known, <1>2 DEF KnownCalls
<1>4. MentionsKnown(qs2, out, next + 1)
  BY <1>1, <1>known, <1>mentions, <1>2 DEF KnownCalls, MentionsKnown
<1>5. FinishDue(qs2, ans, out)
  BY <1>1, <1>known, <1>due, <1>2, Zenon DEF KnownCalls, FinishDue
<1>6. HighIds(qs2, ans, out, hc)
  BY <1>1, <1>known, <1>high, <1>2 DEF KnownCalls, HighIds
<1>7. ReturnsExpected(qs2, ans, in)
  BY <1>1, <1>returns, <1>2 DEF ReturnsExpected
<1>8. RunningExpected(qs2, ans, out, in)
  BY <1>1, <1>running, <1>2, Zenon DEF RunningExpected
<1>9. AsksExpected(qs2, out, in)
  BY <1>1, <1>asks, <1>2 DEF AsksExpected
<1>10. FinishSkipped(qs2, ans)
  BY <1>1, <1>known, <1>skipped, <1>2 DEF KnownCalls, FinishSkipped
<1> QED BY <1>1, <1>order, <1>inTime, <1>3, <1>4, <1>5, <1>6, <1>7, <1>8, <1>9, <1>10 DEF Half

\* A question is forgotten at once, with its id.
LEMMA SkipHalf ==
  ASSUME NEW qs, NEW ans, NEW out, NEW in, NEW next, NEW hc, Half(qs, ans, out, in, next, hc),
         NEW hc2 \in Nat, hc <= hc2, HighBit \in Nat
  PROVE  Half(qs, ans, out, in, next + 1, hc2)
<1>1. next \in Nat /\ hc \in Nat
  BY Zenon DEF Half
<1>known. KnownCalls(qs, ans, next)  BY Zenon DEF Half
<1>mentions. MentionsKnown(qs, out, next)  BY Zenon DEF Half
<1>order. MentionsInOrder(out)  BY Zenon DEF Half
<1>inTime. AnswersInTime(ans, out)  BY Zenon DEF Half
<1>due. FinishDue(qs, ans, out)  BY Zenon DEF Half
<1>high. HighIds(qs, ans, out, hc)  BY Zenon DEF Half
<1>returns. ReturnsExpected(qs, ans, in)  BY Zenon DEF Half
<1>running. RunningExpected(qs, ans, out, in)  BY Zenon DEF Half
<1>asks. AsksExpected(qs, out, in)  BY Zenon DEF Half
<1>skipped. FinishSkipped(qs, ans)  BY Zenon DEF Half
<1>2. KnownCalls(qs, ans, next + 1)
  BY <1>1, <1>known DEF KnownCalls
<1>3. MentionsKnown(qs, out, next + 1)
  BY <1>1, <1>mentions, SMTT(40) DEF MentionsKnown
<1>4. HighIds(qs, ans, out, hc2)
  BY <1>1, <1>known, <1>high DEF KnownCalls, HighIds
<1> QED BY <1>1, <1>order, <1>inTime, <1>due, <1>returns, <1>running, <1>asks, <1>skipped, <1>2,
           <1>3, <1>4 DEF Half

-----------------------------------------------------------------------------
(* Questions are dropped, and return.                                      *)

\* A question that waits is dropped: it stays, and a Finish goes out.
LEMMA CancelHalf ==
  ASSUME NEW qs, NEW ans, NEW out, NEW in, NEW next, NEW hc, Half(qs, ans, out, in, next, hc),
         NEW q \in DOMAIN qs, qs[q].isAwaitingReturn,
         NEW e, e.call = qs[q].call, e.isAwaitingReturn, ~e.selfRef,
         e.skipFinish = qs[q].skipFinish,
         NEW m, m.type = "finish", m.id = q, m.call = qs[q].call,
         NEW qs2, Set(qs, qs2, q, e), NEW out2, Longer(out, out2, m)
  PROVE  Half(qs2, ans, out2, in, next, hc)
<1>1. next \in Nat /\ hc \in Nat
  BY Zenon DEF Half
<1>known. KnownCalls(qs, ans, next)  BY Zenon DEF Half
<1>mentions. MentionsKnown(qs, out, next)  BY Zenon DEF Half
<1>order. MentionsInOrder(out)  BY Zenon DEF Half
<1>inTime. AnswersInTime(ans, out)  BY Zenon DEF Half
<1>due. FinishDue(qs, ans, out)  BY Zenon DEF Half
<1>high. HighIds(qs, ans, out, hc)  BY Zenon DEF Half
<1>returns. ReturnsExpected(qs, ans, in)  BY Zenon DEF Half
<1>running. RunningExpected(qs, ans, out, in)  BY Zenon DEF Half
<1>asks. AsksExpected(qs, out, in)  BY Zenon DEF Half
<1>skipped. FinishSkipped(qs, ans)  BY Zenon DEF Half
<1>2. PICK z \in Nat : /\ \A i : i \in DOMAIN out2 <=> i \in DOMAIN out \/ i = z
                       /\ \A i \in DOMAIN out : i \in Nat /\ i < z /\ out2[i] = out[i]
                       /\ out2[z] = m
  BY DEF Longer
<1>3. /\ \A x : x \in DOMAIN qs2 <=> x \in DOMAIN qs \/ x = q
      /\ qs2[q] = e
      /\ \A x \in DOMAIN qs : x # q => qs2[x] = qs[x]
  BY Zenon DEF Set
<1>4. /\ ~Asks(m) /\ ~Wants(m) /\ Finishes(m, q, qs[q].call)
      /\ \A t, n \in Nat : Mentions(m, t, n) => t = q /\ n = qs[q].call
  BY Zenon DEF Asks, Wants, Finishes, Mentions
<1>5. ~isHigh(q) /\ ~e.skipFinish
  BY <1>1, <1>high, <1>skipped, Zenon DEF HighIds, FinishSkipped
<1>6. KnownCalls(qs2, ans, next)
  BY <1>1, <1>known, <1>3, <1>4, <1>5, ZenonT(40) DEF KnownCalls
<1>7. MentionsKnown(qs2, out2, next)
  BY <1>1, <1>known, <1>mentions, <1>2, <1>3, <1>4, <1>5 DEF KnownCalls, MentionsKnown
<1>8. MentionsInOrder(out2)
  BY <1>mentions, <1>order, <1>2, <1>4, SMTT(40) DEF MentionsKnown, MentionsInOrder
<1>9. AnswersInTime(ans, out2)
  BY <1>1, <1>known, <1>inTime, <1>due, <1>high, <1>2, <1>4, <1>5, SMTT(40)
     DEF KnownCalls, AnswersInTime, FinishDue, HighIds
<1>10. FinishDue(qs2, ans, out2)
  BY <1>1, <1>known, <1>due, <1>2, <1>3, <1>4, <1>5, SMTT(40) DEF KnownCalls, FinishDue
<1>11. HighIds(qs2, ans, out2, hc)
  BY <1>1, <1>known, <1>high, <1>2, <1>3, <1>4, <1>5, SMTT(40) DEF KnownCalls, HighIds
<1>12. ReturnsExpected(qs2, ans, in)
  BY <1>1, <1>returns, <1>3, <1>4, <1>5, SMTT(40) DEF ReturnsExpected
<1>13. RunningExpected(qs2, ans, out2, in)
  BY <1>1, <1>running, <1>2, <1>3, <1>4, <1>5, SMTT(40) DEF RunningExpected
<1>14. AsksExpected(qs2, out2, in)
  BY <1>1, <1>asks, <1>2, <1>3, <1>4, <1>5, SMTT(40) DEF AsksExpected
<1>15. FinishSkipped(qs2, ans)
  BY <1>1, <1>skipped, <1>3, <1>4, <1>5 DEF FinishSkipped
<1> QED BY <1>1, <1>6, <1>7, <1>8, <1>9, <1>10, <1>11, <1>12, <1>13, <1>14, <1>15, Zenon DEF Half

\* A question that has returned is dropped, and a Finish goes out.
LEMMA DropHalf ==
  ASSUME NEW qs, NEW ans, NEW out, NEW in, NEW next, NEW hc, Half(qs, ans, out, in, next, hc),
         NEW q \in DOMAIN qs, ~qs[q].isAwaitingReturn,
         NEW m, m.type = "finish", m.id = q, m.call = qs[q].call,
         NEW qs2, Removed(qs, qs2, q), NEW out2, Longer(out, out2, m)
  PROVE  Half(qs2, ans, out2, in, next, hc)
<1>1. next \in Nat /\ hc \in Nat
  BY Zenon DEF Half
<1>known. KnownCalls(qs, ans, next)  BY Zenon DEF Half
<1>mentions. MentionsKnown(qs, out, next)  BY Zenon DEF Half
<1>order. MentionsInOrder(out)  BY Zenon DEF Half
<1>inTime. AnswersInTime(ans, out)  BY Zenon DEF Half
<1>due. FinishDue(qs, ans, out)  BY Zenon DEF Half
<1>high. HighIds(qs, ans, out, hc)  BY Zenon DEF Half
<1>returns. ReturnsExpected(qs, ans, in)  BY Zenon DEF Half
<1>running. RunningExpected(qs, ans, out, in)  BY Zenon DEF Half
<1>asks. AsksExpected(qs, out, in)  BY Zenon DEF Half
<1>skipped. FinishSkipped(qs, ans)  BY Zenon DEF Half
<1>2. PICK z \in Nat : /\ \A i : i \in DOMAIN out2 <=> i \in DOMAIN out \/ i = z
                       /\ \A i \in DOMAIN out : i \in Nat /\ i < z /\ out2[i] = out[i]
                       /\ out2[z] = m
  BY DEF Longer
<1>3. /\ \A x : x \in DOMAIN qs2 <=> x \in DOMAIN qs /\ x # q
      /\ \A x \in DOMAIN qs2 : qs2[x] = qs[x]
  BY Zenon DEF Removed
<1>4. /\ ~Asks(m) /\ ~Wants(m) /\ Finishes(m, q, qs[q].call)
      /\ \A t, n \in Nat : Mentions(m, t, n) => t = q /\ n = qs[q].call
  BY Zenon DEF Asks, Wants, Finishes, Mentions
<1>5. KnownCalls(qs2, ans, next)
  BY <1>1, <1>known, <1>3, <1>4, Zenon DEF KnownCalls
<1>6. MentionsKnown(qs2, out2, next)
  BY <1>1, <1>known, <1>mentions, <1>2, <1>3, <1>4, ZenonT(40) DEF KnownCalls, MentionsKnown
<1>7. MentionsInOrder(out2)
  BY <1>mentions, <1>order, <1>2, <1>4 DEF MentionsKnown, MentionsInOrder
<1>8. AnswersInTime(ans, out2)
  BY <1>1, <1>known, <1>inTime, <1>due, <1>high, <1>2, <1>4
     DEF KnownCalls, AnswersInTime, FinishDue, HighIds
<1>9. FinishDue(qs2, ans, out2)
  BY <1>1, <1>known, <1>due, <1>2, <1>3, <1>4, SMTT(40) DEF KnownCalls, FinishDue
<1>10. HighIds(qs2, ans, out2, hc)
  BY <1>1, <1>known, <1>high, <1>2, <1>3, <1>4, SMTT(40) DEF KnownCalls, HighIds
<1>11. ReturnsExpected(qs2, ans, in)
  BY <1>1, <1>returns, <1>3, <1>4, SMTT(40) DEF ReturnsExpected
<1>12. RunningExpected(qs2, ans, out2, in)
  BY <1>1, <1>running, <1>2, <1>3, <1>4, SMTT(40) DEF RunningExpected
<1>13. AsksExpected(qs2, out2, in)
  BY <1>1, <1>asks, <1>2, <1>3, <1>4 DEF AsksExpected
<1>14. FinishSkipped(qs2, ans)
  BY <1>1, <1>skipped, <1>3, <1>4, Zenon DEF FinishSkipped
<1> QED BY <1>1, <1>5, <1>6, <1>7, <1>8, <1>9, <1>10, <1>11, <1>12, <1>13, <1>14, Zenon DEF Half

\* A question that needs no Finish is dropped.
LEMMA ForgetHalf ==
  ASSUME NEW qs, NEW ans, NEW out, NEW in, NEW next, NEW hc, Half(qs, ans, out, in, next, hc),
         NEW q \in DOMAIN qs, ~qs[q].isAwaitingReturn, qs[q].skipFinish,
         NEW qs2, Removed(qs, qs2, q)
  PROVE  Half(qs2, ans, out, in, next, hc)
<1>1. next \in Nat /\ hc \in Nat
  BY Zenon DEF Half
<1>known. KnownCalls(qs, ans, next)  BY Zenon DEF Half
<1>mentions. MentionsKnown(qs, out, next)  BY Zenon DEF Half
<1>order. MentionsInOrder(out)  BY Zenon DEF Half
<1>inTime. AnswersInTime(ans, out)  BY Zenon DEF Half
<1>due. FinishDue(qs, ans, out)  BY Zenon DEF Half
<1>high. HighIds(qs, ans, out, hc)  BY Zenon DEF Half
<1>returns. ReturnsExpected(qs, ans, in)  BY Zenon DEF Half
<1>running. RunningExpected(qs, ans, out, in)  BY Zenon DEF Half
<1>asks. AsksExpected(qs, out, in)  BY Zenon DEF Half
<1>skipped. FinishSkipped(qs, ans)  BY Zenon DEF Half
<1>2. /\ \A x : x \in DOMAIN qs2 <=> x \in DOMAIN qs /\ x # q
      /\ \A x \in DOMAIN qs2 : qs2[x] = qs[x]
  BY Zenon DEF Removed
<1>3. KnownCalls(qs2, ans, next)
  BY <1>1, <1>known, <1>2, Zenon DEF KnownCalls
<1>4. MentionsKnown(qs2, out, next)
  BY <1>1, <1>known, <1>mentions, <1>2, Zenon DEF KnownCalls, MentionsKnown
<1>5. FinishDue(qs2, ans, out)
  BY <1>1, <1>known, <1>due, <1>skipped, <1>2, Zenon DEF KnownCalls, FinishDue, FinishSkipped
<1>6. HighIds(qs2, ans, out, hc)
  BY <1>1, <1>known, <1>high, <1>2 DEF KnownCalls, HighIds
<1>7. ReturnsExpected(qs2, ans, in)
  BY <1>1, <1>returns, <1>2, ZenonT(40) DEF ReturnsExpected
<1>8. RunningExpected(qs2, ans, out, in)
  BY <1>1, <1>running, <1>2, Zenon DEF RunningExpected
<1>9. AsksExpected(qs2, out, in)
  BY <1>1, <1>asks, <1>2 DEF AsksExpected
<1>10. FinishSkipped(qs2, ans)
  BY <1>1, <1>skipped, <1>2, Zenon DEF FinishSkipped
<1> QED BY <1>1, <1>order, <1>inTime, <1>3, <1>4, <1>5, <1>6, <1>7, <1>8, <1>9, <1>10, Zenon
           DEF Half

\* The Return for a question that was dropped comes in, and the question goes.
LEMMA ReturnedHalf ==
  ASSUME NEW qs, NEW ans, NEW out, NEW in, NEW next, NEW hc, Half(qs, ans, out, in, next, hc),
         NEW q \in DOMAIN qs, ~qs[q].selfRef, Returns(in[1], q),
         NEW qs2, Removed(qs, qs2, q), NEW in2, Shorter(in, in2)
  PROVE  Half(qs2, ans, out, in2, next, hc)
<1>1. next \in Nat /\ hc \in Nat
  BY Zenon DEF Half
<1>known. KnownCalls(qs, ans, next)  BY Zenon DEF Half
<1>mentions. MentionsKnown(qs, out, next)  BY Zenon DEF Half
<1>order. MentionsInOrder(out)  BY Zenon DEF Half
<1>inTime. AnswersInTime(ans, out)  BY Zenon DEF Half
<1>due. FinishDue(qs, ans, out)  BY Zenon DEF Half
<1>high. HighIds(qs, ans, out, hc)  BY Zenon DEF Half
<1>returns. ReturnsExpected(qs, ans, in)  BY Zenon DEF Half
<1>running. RunningExpected(qs, ans, out, in)  BY Zenon DEF Half
<1>asks. AsksExpected(qs, out, in)  BY Zenon DEF Half
<1>skipped. FinishSkipped(qs, ans)  BY Zenon DEF Half
<1>2. /\ \A x : x \in DOMAIN qs2 <=> x \in DOMAIN qs /\ x # q
      /\ \A x \in DOMAIN qs2 : qs2[x] = qs[x]
  BY Zenon DEF Removed
<1>3. /\ \A i \in DOMAIN in2 : i \in Nat /\ 1 <= i /\ i + 1 \in DOMAIN in /\ in2[i] = in[i + 1]
      /\ \A i \in DOMAIN in : i = 1 \/ (i - 1 \in DOMAIN in2 /\ in2[i - 1] = in[i])
      /\ \A i \in DOMAIN in : i \in Nat /\ 1 <= i
      /\ 1 \in DOMAIN in
  BY DEF Shorter
<1>4. q \in Nat /\ qs[q].isAwaitingReturn /\ ~isHigh(q)
  BY <1>1, <1>known, <1>high, <1>returns, <1>3, Zenon DEF KnownCalls, ReturnsExpected, HighIds
<1>5. KnownCalls(qs2, ans, next)
  BY <1>1, <1>known, <1>2, <1>4, Zenon DEF KnownCalls
<1>6. MentionsKnown(qs2, out, next)
  BY <1>mentions, <1>2, Zenon DEF MentionsKnown
<1>7. FinishDue(qs2, ans, out)
  BY <1>due, <1>high, <1>running, <1>2, <1>3, SMTT(40) DEF FinishDue, RunningExpected, HighIds
<1>8. HighIds(qs2, ans, out, hc)
  BY <1>1, <1>known, <1>high, <1>2, <1>4 DEF KnownCalls, HighIds
<1>9. ReturnsExpected(qs2, ans, in2)
  <2>1. ASSUME NEW i \in DOMAIN in2, NEW x \in Nat, Returns(in2[i], x)
        PROVE  /\ x # q /\ x \in DOMAIN qs /\ qs[x].call = in2[i].call
               /\ qs[x].isAwaitingReturn
               /\ \A j \in DOMAIN in2 : Returns(in2[j], x) => i = j
               /\ in2[i].noFinishNeeded /\ x \in DOMAIN ans => ans[x].call # in2[i].call
    <3>1. i \in Nat /\ i + 1 \in DOMAIN in /\ in2[i] = in[i + 1] /\ i + 1 # 1
      BY <1>3
    <3>2. Returns(in[i + 1], x)
      BY <2>1, <3>1, Zenon
    <3>3. \A j \in DOMAIN in : Returns(in[j], x) => i + 1 = j
      BY <1>1, <1>returns, <3>1, <3>2, Zenon DEF ReturnsExpected
    <3>4. ASSUME NEW j \in DOMAIN in2, Returns(in2[j], x) PROVE i = j
      BY <1>3, <3>1, <3>3, <3>4
    <3>5. x # q
      BY <1>3, <3>1, <3>3, Zenon
    <3> QED BY <1>1, <1>returns, <3>1, <3>2, <3>4, <3>5 DEF ReturnsExpected
  <2> QED BY <1>2, <2>1, ZenonT(40) DEF ReturnsExpected
<1>10. RunningExpected(qs2, ans, out, in2)
  BY <1>running, <1>2, <1>3, SMTT(40) DEF RunningExpected
<1>11. AsksExpected(qs2, out, in2)
  BY <1>1, <1>asks, <1>2, <1>3, <1>4 DEF AsksExpected
<1>12. FinishSkipped(qs2, ans)
  BY <1>1, <1>skipped, <1>2, <1>4, Zenon DEF FinishSkipped
<1> QED BY <1>1, <1>order, <1>inTime, <1>5, <1>6, <1>7, <1>8, <1>9, <1>10, <1>11, <1>12, Zenon
           DEF Half

\* The Return for a question comes in, and may say that no Finish is needed.
LEMMA ReturnHalf ==
  ASSUME NEW qs, NEW ans, NEW out, NEW in, NEW next, NEW hc, Half(qs, ans, out, in, next, hc),
         NEW q \in DOMAIN qs, qs[q].selfRef, Returns(in[1], q),
         NEW e, e.call = qs[q].call, ~e.isAwaitingReturn, e.selfRef,
         e.skipFinish = in[1].noFinishNeeded,
         NEW qs2, Set(qs, qs2, q, e), NEW in2, Shorter(in, in2)
  PROVE  Half(qs2, ans, out, in2, next, hc)
<1>1. next \in Nat /\ hc \in Nat
  BY Zenon DEF Half
<1>known. KnownCalls(qs, ans, next)  BY Zenon DEF Half
<1>mentions. MentionsKnown(qs, out, next)  BY Zenon DEF Half
<1>order. MentionsInOrder(out)  BY Zenon DEF Half
<1>inTime. AnswersInTime(ans, out)  BY Zenon DEF Half
<1>due. FinishDue(qs, ans, out)  BY Zenon DEF Half
<1>high. HighIds(qs, ans, out, hc)  BY Zenon DEF Half
<1>returns. ReturnsExpected(qs, ans, in)  BY Zenon DEF Half
<1>running. RunningExpected(qs, ans, out, in)  BY Zenon DEF Half
<1>asks. AsksExpected(qs, out, in)  BY Zenon DEF Half
<1>skipped. FinishSkipped(qs, ans)  BY Zenon DEF Half
<1>2. /\ \A x : x \in DOMAIN qs2 <=> x \in DOMAIN qs \/ x = q
      /\ qs2[q] = e
      /\ \A x \in DOMAIN qs : x # q => qs2[x] = qs[x]
  BY Zenon DEF Set
<1>3. /\ \A i \in DOMAIN in2 : i \in Nat /\ 1 <= i /\ i + 1 \in DOMAIN in /\ in2[i] = in[i + 1]
      /\ \A i \in DOMAIN in : i = 1 \/ (i - 1 \in DOMAIN in2 /\ in2[i - 1] = in[i])
      /\ \A i \in DOMAIN in : i \in Nat /\ 1 <= i
      /\ 1 \in DOMAIN in
  BY DEF Shorter
<1>4. q \in Nat /\ qs[q].isAwaitingReturn /\ ~isHigh(q)
  BY <1>1, <1>known, <1>high, <1>returns, <1>3, Zenon DEF KnownCalls, ReturnsExpected, HighIds
<1>5. KnownCalls(qs2, ans, next)
  BY <1>1, <1>known, <1>2, <1>4, ZenonT(40) DEF KnownCalls
<1>6. MentionsKnown(qs2, out, next)
  BY <1>1, <1>known, <1>mentions, <1>2, Zenon DEF MentionsKnown
<1>7. FinishDue(qs2, ans, out)
  BY <1>1, <1>known, <1>due, <1>2, <1>4, Zenon DEF KnownCalls, FinishDue
<1>8. HighIds(qs2, ans, out, hc)
  BY <1>1, <1>known, <1>high, <1>2, <1>4, SMTT(40) DEF KnownCalls, HighIds
<1>9. ReturnsExpected(qs2, ans, in2)
  <2>1. ASSUME NEW i \in DOMAIN in2, NEW x \in Nat, Returns(in2[i], x)
        PROVE  /\ x # q /\ x \in DOMAIN qs /\ qs[x].call = in2[i].call
               /\ qs[x].isAwaitingReturn
               /\ \A j \in DOMAIN in2 : Returns(in2[j], x) => i = j
               /\ in2[i].noFinishNeeded /\ x \in DOMAIN ans => ans[x].call # in2[i].call
    <3>1. i \in Nat /\ i + 1 \in DOMAIN in /\ in2[i] = in[i + 1] /\ i + 1 # 1
      BY <1>3
    <3>2. Returns(in[i + 1], x)
      BY <2>1, <3>1, Zenon
    <3>3. \A j \in DOMAIN in : Returns(in[j], x) => i + 1 = j
      BY <1>1, <1>returns, <3>1, <3>2, Zenon DEF ReturnsExpected
    <3>4. ASSUME NEW j \in DOMAIN in2, Returns(in2[j], x) PROVE i = j
      BY <1>3, <3>1, <3>3, <3>4
    <3>5. x # q
      BY <1>3, <3>1, <3>3, Zenon
    <3> QED BY <1>1, <1>returns, <3>1, <3>2, <3>4, <3>5, SMTT(40) DEF ReturnsExpected
  <2> QED BY <1>2, <2>1, SMTT(40) DEF ReturnsExpected
<1>10. RunningExpected(qs2, ans, out, in2)
  BY <1>running, <1>2, <1>3, SMTT(40) DEF RunningExpected
<1>11. AsksExpected(qs2, out, in2)
  BY <1>asks, <1>2, <1>3, SMTT(40) DEF AsksExpected
<1>12. FinishSkipped(qs2, ans)
  BY <1>1, <1>returns, <1>skipped, <1>2, <1>3, <1>4 DEF ReturnsExpected, FinishSkipped
<1> QED BY <1>1, <1>order, <1>inTime, <1>5, <1>6, <1>7, <1>8, <1>9, <1>10, <1>11, <1>12, Zenon
           DEF Half

-----------------------------------------------------------------------------
(* Messages that say nothing about the questions.                          *)

\* The vat that asks sends something else: a Return or a Release.
LEMMA SayHalf ==
  ASSUME NEW qs, NEW ans, NEW out, NEW in, NEW next, NEW hc, Half(qs, ans, out, in, next, hc),
         NEW m, ~Asks(m), m.type # "finish", NEW out2, Longer(out, out2, m)
  PROVE  Half(qs, ans, out2, in, next, hc)
<1>1. next \in Nat /\ hc \in Nat
  BY Zenon DEF Half
<1>known. KnownCalls(qs, ans, next)  BY Zenon DEF Half
<1>mentions. MentionsKnown(qs, out, next)  BY Zenon DEF Half
<1>order. MentionsInOrder(out)  BY Zenon DEF Half
<1>inTime. AnswersInTime(ans, out)  BY Zenon DEF Half
<1>due. FinishDue(qs, ans, out)  BY Zenon DEF Half
<1>high. HighIds(qs, ans, out, hc)  BY Zenon DEF Half
<1>returns. ReturnsExpected(qs, ans, in)  BY Zenon DEF Half
<1>running. RunningExpected(qs, ans, out, in)  BY Zenon DEF Half
<1>asks. AsksExpected(qs, out, in)  BY Zenon DEF Half
<1>skipped. FinishSkipped(qs, ans)  BY Zenon DEF Half
<1>2. PICK z \in Nat : /\ \A i : i \in DOMAIN out2 <=> i \in DOMAIN out \/ i = z
                       /\ \A i \in DOMAIN out : i \in Nat /\ i < z /\ out2[i] = out[i]
                       /\ out2[z] = m
  BY DEF Longer
<1>3. /\ ~Wants(m) /\ \A t, n \in Nat : ~Mentions(m, t, n)
  BY Zenon DEF Asks, Wants, Mentions
<1>4. MentionsKnown(qs, out2, next)
  BY <1>1, <1>mentions, <1>2, <1>3, Zenon DEF MentionsKnown
<1>5. MentionsInOrder(out2)
  BY <1>1, <1>order, <1>2, <1>3, Zenon DEF MentionsInOrder
<1>6. AnswersInTime(ans, out2)
  <2>1. ASSUME NEW j \in DOMAIN out2, NEW q \in Nat, NEW n \in Nat, Mentions(out2[j], q, n)
        PROVE  j \in DOMAIN out /\ out2[j] = out[j]
    BY <1>2, <1>3, <2>1, Zenon
  <2> QED BY <1>1, <1>known, <1>inTime, <1>2, <2>1, Zenon DEF AnswersInTime, KnownCalls
<1>7. FinishDue(qs, ans, out2)
  BY <1>due, <1>2, Zenon DEF FinishDue
<1>8. HighIds(qs, ans, out2, hc)
  BY <1>1, <1>high, <1>2, <1>3, SMTT(40) DEF HighIds
<1>9. RunningExpected(qs, ans, out2, in)
  BY <1>1, <1>running, <1>2, <1>3, SMTT(40) DEF RunningExpected
<1>10. AsksExpected(qs, out2, in)
  BY <1>1, <1>asks, <1>2, <1>3 DEF AsksExpected
<1> QED BY <1>1, <1>known, <1>returns, <1>skipped, <1>4, <1>5, <1>6, <1>7, <1>8, <1>9, <1>10, Zenon
           DEF Half

\* The peer sends something else than a Return.
LEMMA ReplyHalf ==
  ASSUME NEW qs, NEW ans, NEW out, NEW in, NEW next, NEW hc, Half(qs, ans, out, in, next, hc),
         NEW m, m.type # "return", NEW in2, Longer(in, in2, m)
  PROVE  Half(qs, ans, out, in2, next, hc)
<1>1. next \in Nat /\ hc \in Nat
  BY Zenon DEF Half
<1>known. KnownCalls(qs, ans, next)  BY Zenon DEF Half
<1>mentions. MentionsKnown(qs, out, next)  BY Zenon DEF Half
<1>order. MentionsInOrder(out)  BY Zenon DEF Half
<1>inTime. AnswersInTime(ans, out)  BY Zenon DEF Half
<1>due. FinishDue(qs, ans, out)  BY Zenon DEF Half
<1>high. HighIds(qs, ans, out, hc)  BY Zenon DEF Half
<1>returns. ReturnsExpected(qs, ans, in)  BY Zenon DEF Half
<1>running. RunningExpected(qs, ans, out, in)  BY Zenon DEF Half
<1>asks. AsksExpected(qs, out, in)  BY Zenon DEF Half
<1>skipped. FinishSkipped(qs, ans)  BY Zenon DEF Half
<1>2. PICK z \in Nat : /\ \A i : i \in DOMAIN in2 <=> i \in DOMAIN in \/ i = z
                       /\ \A i \in DOMAIN in : i \in Nat /\ i < z /\ in2[i] = in[i]
                       /\ in2[z] = m
  BY SMTT(40) DEF Longer
<1>3. \A t : ~Returns(m, t)
  BY Zenon DEF Returns
<1>4. ReturnsExpected(qs, ans, in2)
  BY <1>1, <1>returns, <1>2, <1>3 DEF ReturnsExpected
<1>5. RunningExpected(qs, ans, out, in2)
  BY <1>1, <1>running, <1>2, <1>3, Zenon DEF RunningExpected
<1>6. AsksExpected(qs, out, in2)
  BY <1>1, <1>asks, <1>2, <1>3, ZenonT(40) DEF AsksExpected
<1> QED BY <1>1, <1>known, <1>mentions, <1>order, <1>inTime, <1>due, <1>high, <1>skipped, <1>4,
           <1>5, <1>6, Zenon DEF Half

\* The peer receives something that is neither a question nor a Finish.
LEMMA HearHalf ==
  ASSUME NEW qs, NEW ans, NEW out, NEW in, NEW next, NEW hc, Half(qs, ans, out, in, next, hc),
         ~Asks(out[1]), out[1].type # "finish", NEW out2, Shorter(out, out2)
  PROVE  Half(qs, ans, out2, in, next, hc)
<1>1. next \in Nat /\ hc \in Nat
  BY Zenon DEF Half
<1>known. KnownCalls(qs, ans, next)  BY Zenon DEF Half
<1>mentions. MentionsKnown(qs, out, next)  BY Zenon DEF Half
<1>order. MentionsInOrder(out)  BY Zenon DEF Half
<1>inTime. AnswersInTime(ans, out)  BY Zenon DEF Half
<1>due. FinishDue(qs, ans, out)  BY Zenon DEF Half
<1>high. HighIds(qs, ans, out, hc)  BY Zenon DEF Half
<1>returns. ReturnsExpected(qs, ans, in)  BY Zenon DEF Half
<1>running. RunningExpected(qs, ans, out, in)  BY Zenon DEF Half
<1>asks. AsksExpected(qs, out, in)  BY Zenon DEF Half
<1>skipped. FinishSkipped(qs, ans)  BY Zenon DEF Half
<1>2. /\ \A i \in DOMAIN out2 : i \in Nat /\ 1 <= i /\ i + 1 \in DOMAIN out /\ out2[i] = out[i + 1]
      /\ \A i \in DOMAIN out : i = 1 \/ (i - 1 \in DOMAIN out2 /\ out2[i - 1] = out[i])
      /\ \A i \in DOMAIN out : i \in Nat /\ 1 <= i
      /\ 1 \in DOMAIN out
  BY DEF Shorter
<1>3. \A t, n : ~Finishes(out[1], t, n)
  BY Zenon DEF Finishes
<1>4. MentionsKnown(qs, out2, next)
  BY <1>1, <1>mentions, <1>2, <1>3, Zenon DEF MentionsKnown
<1>5. MentionsInOrder(out2)
  BY <1>1, <1>order, <1>2, <1>3, SMTT(40) DEF MentionsInOrder
<1>6. AnswersInTime(ans, out2)
  BY <1>1, <1>inTime, <1>2, <1>3 DEF AnswersInTime
<1>7. FinishDue(qs, ans, out2)
  BY <1>due, <1>2, <1>3, Zenon DEF FinishDue
<1>8. HighIds(qs, ans, out2, hc)
  BY <1>1, <1>high, <1>2, <1>3, SMTT(40) DEF HighIds
<1>9. RunningExpected(qs, ans, out2, in)
  BY <1>1, <1>running, <1>2, <1>3, SMTT(40) DEF RunningExpected
<1>10. AsksExpected(qs, out2, in)
  BY <1>1, <1>asks, <1>2, <1>3 DEF AsksExpected
<1> QED BY <1>1, <1>known, <1>returns, <1>skipped, <1>4, <1>5, <1>6, <1>7, <1>8, <1>9, <1>10, Zenon
           DEF Half

\* The vat that asks receives something, and if only to forget it.
LEMMA ReadHalf ==
  ASSUME NEW qs, NEW ans, NEW out, NEW in, NEW next, NEW hc, Half(qs, ans, out, in, next, hc),
         NEW in2, Shorter(in, in2)
  PROVE  Half(qs, ans, out, in2, next, hc)
<1>1. next \in Nat /\ hc \in Nat
  BY Zenon DEF Half
<1>known. KnownCalls(qs, ans, next)  BY Zenon DEF Half
<1>mentions. MentionsKnown(qs, out, next)  BY Zenon DEF Half
<1>order. MentionsInOrder(out)  BY Zenon DEF Half
<1>inTime. AnswersInTime(ans, out)  BY Zenon DEF Half
<1>due. FinishDue(qs, ans, out)  BY Zenon DEF Half
<1>high. HighIds(qs, ans, out, hc)  BY Zenon DEF Half
<1>returns. ReturnsExpected(qs, ans, in)  BY Zenon DEF Half
<1>running. RunningExpected(qs, ans, out, in)  BY Zenon DEF Half
<1>asks. AsksExpected(qs, out, in)  BY Zenon DEF Half
<1>skipped. FinishSkipped(qs, ans)  BY Zenon DEF Half
<1>2. /\ \A i \in DOMAIN in2 : i \in Nat /\ 1 <= i /\ i + 1 \in DOMAIN in /\ in2[i] = in[i + 1]
      /\ \A i \in DOMAIN in : i = 1 \/ (i - 1 \in DOMAIN in2 /\ in2[i - 1] = in[i])
      /\ \A i \in DOMAIN in : i \in Nat /\ 1 <= i
      /\ 1 \in DOMAIN in
  BY SMTT(40) DEF Shorter
<1>3. ReturnsExpected(qs, ans, in2)
  BY <1>1, <1>returns, <1>2, SMTT(40) DEF ReturnsExpected
<1>4. RunningExpected(qs, ans, out, in2)
  BY <1>1, <1>running, <1>2, SMTT(40) DEF RunningExpected
<1>5. AsksExpected(qs, out, in2)
  BY <1>1, <1>asks, <1>2 DEF AsksExpected
<1> QED BY <1>1, <1>known, <1>mentions, <1>order, <1>inTime, <1>due, <1>high, <1>skipped, <1>3,
           <1>4, <1>5, Zenon DEF Half

-----------------------------------------------------------------------------
(* Answers return and are forgotten.                                       *)

\* An answer is forgotten.
LEMMA GoneHalf ==
  ASSUME NEW qs, NEW ans, NEW out, NEW in, NEW next, NEW hc, Half(qs, ans, out, in, next, hc),
         NEW a, NEW ans2, Removed(ans, ans2, a)
  PROVE  Half(qs, ans2, out, in, next, hc)
<1>1. next \in Nat /\ hc \in Nat
  BY Zenon DEF Half
<1>known. KnownCalls(qs, ans, next)  BY Zenon DEF Half
<1>mentions. MentionsKnown(qs, out, next)  BY Zenon DEF Half
<1>order. MentionsInOrder(out)  BY Zenon DEF Half
<1>inTime. AnswersInTime(ans, out)  BY Zenon DEF Half
<1>due. FinishDue(qs, ans, out)  BY Zenon DEF Half
<1>high. HighIds(qs, ans, out, hc)  BY Zenon DEF Half
<1>returns. ReturnsExpected(qs, ans, in)  BY Zenon DEF Half
<1>running. RunningExpected(qs, ans, out, in)  BY Zenon DEF Half
<1>asks. AsksExpected(qs, out, in)  BY Zenon DEF Half
<1>skipped. FinishSkipped(qs, ans)  BY Zenon DEF Half
<1>2. /\ \A x : x \in DOMAIN ans2 <=> x \in DOMAIN ans /\ x # a
      /\ \A x \in DOMAIN ans2 : ans2[x] = ans[x]
  BY Zenon DEF Removed
<1>3. KnownCalls(qs, ans2, next)
  BY <1>1, <1>known, <1>2, Zenon DEF KnownCalls
<1>4. AnswersInTime(ans2, out)
  BY <1>1, <1>inTime, <1>2, Zenon DEF AnswersInTime
<1>5. FinishDue(qs, ans2, out)
  BY <1>due, <1>2, Zenon DEF FinishDue
<1>6. HighIds(qs, ans2, out, hc)
  BY <1>1, <1>high, <1>2, SMTT(40) DEF HighIds
<1>7. ReturnsExpected(qs, ans2, in)
  BY <1>1, <1>returns, <1>2 DEF ReturnsExpected
<1>8. RunningExpected(qs, ans2, out, in)
  BY <1>1, <1>running, <1>2, Zenon DEF RunningExpected
<1>9. FinishSkipped(qs, ans2)
  BY <1>1, <1>skipped, <1>2, Zenon DEF FinishSkipped
<1> QED BY <1>1, <1>mentions, <1>order, <1>asks, <1>3, <1>4, <1>5, <1>6, <1>7, <1>8, <1>9, Zenon
           DEF Half

\* A call returns, and its answer waits for the Finish.
LEMMA AnswerHalf ==
  ASSUME NEW qs, NEW ans, NEW out, NEW in, NEW next, NEW hc, Half(qs, ans, out, in, next, hc),
         NEW a \in DOMAIN ans, ans[a].callContext = "running", ~ans[a].onlyPromisePipeline,
         NEW e, e.call = ans[a].call, e.callContext = "none", ~e.onlyPromisePipeline,
         NEW m, m.type = "return", m.id = a, m.call = ans[a].call, ~m.noFinishNeeded,
         NEW ans2, Set(ans, ans2, a, e), NEW in2, Longer(in, in2, m)
  PROVE  Half(qs, ans2, out, in2, next, hc)
<1>1. next \in Nat /\ hc \in Nat
  BY Zenon DEF Half
<1>known. KnownCalls(qs, ans, next)  BY Zenon DEF Half
<1>mentions. MentionsKnown(qs, out, next)  BY Zenon DEF Half
<1>order. MentionsInOrder(out)  BY Zenon DEF Half
<1>inTime. AnswersInTime(ans, out)  BY Zenon DEF Half
<1>due. FinishDue(qs, ans, out)  BY Zenon DEF Half
<1>high. HighIds(qs, ans, out, hc)  BY Zenon DEF Half
<1>returns. ReturnsExpected(qs, ans, in)  BY Zenon DEF Half
<1>running. RunningExpected(qs, ans, out, in)  BY Zenon DEF Half
<1>asks. AsksExpected(qs, out, in)  BY Zenon DEF Half
<1>skipped. FinishSkipped(qs, ans)  BY Zenon DEF Half
<1>2. PICK z \in Nat : /\ \A i : i \in DOMAIN in2 <=> i \in DOMAIN in \/ i = z
                       /\ \A i \in DOMAIN in : i \in Nat /\ i < z /\ in2[i] = in[i]
                       /\ in2[z] = m
  BY DEF Longer
<1>3. /\ \A x : x \in DOMAIN ans2 <=> x \in DOMAIN ans \/ x = a
      /\ ans2[a] = e
      /\ \A x \in DOMAIN ans : x # a => ans2[x] = ans[x]
  BY Zenon DEF Set
<1>4. /\ Returns(m, a) /\ \A t : Returns(m, t) => t = a
  BY Zenon DEF Returns
<1>5. KnownCalls(qs, ans2, next)
  BY <1>known, <1>3, SMTT(40) DEF KnownCalls
<1>6. AnswersInTime(ans2, out)
  BY <1>inTime, <1>3, SMTT(40) DEF AnswersInTime
<1>7. FinishDue(qs, ans2, out)
  BY <1>due, <1>3, SMTT(40) DEF FinishDue
<1>8. HighIds(qs, ans2, out, hc)
  BY <1>high, <1>3, SMTT(40) DEF HighIds
<1>9. ReturnsExpected(qs, ans2, in2)
  BY <1>returns, <1>running, <1>2, <1>3, <1>4, SMTT(40) DEF ReturnsExpected, RunningExpected
<1>10. RunningExpected(qs, ans2, out, in2)
  BY <1>running, <1>2, <1>3, <1>4, SMTT(40) DEF RunningExpected
<1>11. AsksExpected(qs, out, in2)
  BY <1>running, <1>asks, <1>2, <1>4, SMTT(40) DEF AsksExpected, RunningExpected
<1>12. FinishSkipped(qs, ans2)
  BY <1>1, <1>skipped, <1>3, <1>4 DEF FinishSkipped
<1> QED BY <1>1, <1>mentions, <1>order, <1>5, <1>6, <1>7, <1>8, <1>9, <1>10, <1>11, <1>12, Zenon
           DEF Half

\* A call returns, and its answer is forgotten.
LEMMA LastHalf ==
  ASSUME NEW qs, NEW ans, NEW out, NEW in, NEW next, NEW hc, Half(qs, ans, out, in, next, hc),
         NEW a \in DOMAIN ans, ans[a].callContext # "none", ~ans[a].onlyPromisePipeline,
         NEW m, m.type = "return", m.id = a, m.call = ans[a].call,
         NEW ans2, Removed(ans, ans2, a), NEW in2, Longer(in, in2, m)
  PROVE  Half(qs, ans2, out, in2, next, hc)
<1>1. next \in Nat /\ hc \in Nat
  BY Zenon DEF Half
<1>known. KnownCalls(qs, ans, next)  BY Zenon DEF Half
<1>mentions. MentionsKnown(qs, out, next)  BY Zenon DEF Half
<1>order. MentionsInOrder(out)  BY Zenon DEF Half
<1>inTime. AnswersInTime(ans, out)  BY Zenon DEF Half
<1>due. FinishDue(qs, ans, out)  BY Zenon DEF Half
<1>high. HighIds(qs, ans, out, hc)  BY Zenon DEF Half
<1>returns. ReturnsExpected(qs, ans, in)  BY Zenon DEF Half
<1>running. RunningExpected(qs, ans, out, in)  BY Zenon DEF Half
<1>asks. AsksExpected(qs, out, in)  BY Zenon DEF Half
<1>skipped. FinishSkipped(qs, ans)  BY Zenon DEF Half
<1>2. PICK z \in Nat : /\ \A i : i \in DOMAIN in2 <=> i \in DOMAIN in \/ i = z
                       /\ \A i \in DOMAIN in : i \in Nat /\ i < z /\ in2[i] = in[i]
                       /\ in2[z] = m
  BY DEF Longer
<1>3. /\ \A x : x \in DOMAIN ans2 <=> x \in DOMAIN ans /\ x # a
      /\ \A x \in DOMAIN ans2 : ans2[x] = ans[x]
  BY Zenon DEF Removed
<1>4. /\ Returns(m, a) /\ \A t : Returns(m, t) => t = a
  BY Zenon DEF Returns
<1>5. KnownCalls(qs, ans2, next)
  BY <1>1, <1>known, <1>3, <1>4, Zenon DEF KnownCalls
<1>6. AnswersInTime(ans2, out)
  BY <1>1, <1>inTime, <1>3, <1>4, Zenon DEF AnswersInTime
<1>7. FinishDue(qs, ans2, out)
  BY <1>due, <1>3, Zenon DEF FinishDue
<1>8. HighIds(qs, ans2, out, hc)
  BY <1>high, <1>3, SMTT(40) DEF HighIds
<1>9. ReturnsExpected(qs, ans2, in2)
  BY <1>returns, <1>running, <1>2, <1>3, <1>4, SMTT(40) DEF ReturnsExpected, RunningExpected
<1>10. RunningExpected(qs, ans2, out, in2)
  BY <1>running, <1>2, <1>3, <1>4, SMTT(40) DEF RunningExpected
<1>11. AsksExpected(qs, out, in2)
  BY <1>1, <1>running, <1>asks, <1>2, <1>4 DEF AsksExpected, RunningExpected
<1>12. FinishSkipped(qs, ans2)
  BY <1>1, <1>skipped, <1>3, <1>4, Zenon DEF FinishSkipped
<1> QED BY <1>1, <1>mentions, <1>order, <1>5, <1>6, <1>7, <1>8, <1>9, <1>10, <1>11, <1>12, Zenon
           DEF Half

-----------------------------------------------------------------------------
(* Questions and Finishes arrive.                                          *)

\* A question arrives under an id no answer has, and gets one.
LEMMA HearAskHalf ==
  ASSUME NEW qs, NEW ans, NEW out, NEW in, NEW next, NEW hc, Half(qs, ans, out, in, next, hc),
         Asks(out[1]), NEW q \in Nat, out[1].id = q, out[1].call \in Nat, q \notin DOMAIN ans,
         NEW e, e.call = out[1].call, e.callContext = "running",
         e.onlyPromisePipeline <=> ~Wants(out[1]),
         NEW ans2, Set(ans, ans2, q, e), NEW out2, Shorter(out, out2)
  PROVE  Half(qs, ans2, out2, in, next, hc)
<1>1. next \in Nat /\ hc \in Nat
  BY Zenon DEF Half
<1>known. KnownCalls(qs, ans, next)  BY Zenon DEF Half
<1>mentions. MentionsKnown(qs, out, next)  BY Zenon DEF Half
<1>order. MentionsInOrder(out)  BY Zenon DEF Half
<1>inTime. AnswersInTime(ans, out)  BY Zenon DEF Half
<1>due. FinishDue(qs, ans, out)  BY Zenon DEF Half
<1>high. HighIds(qs, ans, out, hc)  BY Zenon DEF Half
<1>returns. ReturnsExpected(qs, ans, in)  BY Zenon DEF Half
<1>running. RunningExpected(qs, ans, out, in)  BY Zenon DEF Half
<1>asks. AsksExpected(qs, out, in)  BY Zenon DEF Half
<1>skipped. FinishSkipped(qs, ans)  BY Zenon DEF Half
<1>2. /\ \A i \in DOMAIN out2 : i \in Nat /\ 1 <= i /\ i + 1 \in DOMAIN out /\ out2[i] = out[i + 1]
      /\ \A i \in DOMAIN out : i = 1 \/ (i - 1 \in DOMAIN out2 /\ out2[i - 1] = out[i])
      /\ \A i \in DOMAIN out : i \in Nat /\ 1 <= i
      /\ 1 \in DOMAIN out
  BY SMTT(40) DEF Shorter
<1>3. /\ \A x : x \in DOMAIN ans2 <=> x \in DOMAIN ans \/ x = q
      /\ ans2[q] = e
      /\ \A x \in DOMAIN ans : x # q /\ ans2[x] = ans[x]
  BY Zenon DEF Set
<1>4. /\ Mentions(out[1], q, out[1].call)
      /\ \A t, n : ~Finishes(out[1], t, n)
  BY Zenon DEF Mentions, Asks, Finishes
<1>5. ~Wants(out[1]) <=> isHigh(q)
  BY <1>1, <1>high, <1>2, Zenon DEF HighIds
<1>6. ASSUME ~isHigh(q)
      PROVE  /\ q \in DOMAIN qs /\ qs[q].call = out[1].call /\ qs[q].isAwaitingReturn
             /\ \A j \in DOMAIN in : ~Returns(in[j], q)
             /\ \A j \in DOMAIN out : Wants(out[j]) /\ out[j].id = q => 1 = j
             /\ ~qs[q].selfRef => \E j \in DOMAIN out : 1 < j /\ Finishes(out[j], q, out[1].call)
  BY <1>1, <1>asks, <1>2, <1>5, <1>6, Zenon DEF AsksExpected
<1>7. out[1].call < next /\ (q \in DOMAIN qs => out[1].call <= qs[q].call)
  BY <1>mentions, <1>2, <1>4, ZenonT(40) DEF MentionsKnown
<1>8. ASSUME isHigh(q)
      PROVE  /\ q < HighBit + hc
             /\ q \in DOMAIN qs => /\ qs[q].call = out[1].call /\ ~qs[q].isAwaitingReturn
                                   /\ ~qs[q].skipFinish
             /\ \A j \in DOMAIN out : \A k \in Nat : Mentions(out[j], q, k) => k = out[1].call
  BY <1>high, <1>2, <1>4, <1>8, SMTT(40) DEF HighIds
<1>9. KnownCalls(qs, ans2, next)
  BY <1>1, <1>known, <1>3, <1>7 DEF KnownCalls
<1>10. MentionsKnown(qs, out2, next)
  BY <1>1, <1>mentions, <1>2, Zenon DEF MentionsKnown
<1>11. MentionsInOrder(out2)
  BY <1>1, <1>order, <1>2, SMTT(40) DEF MentionsInOrder
<1>12. AnswersInTime(ans2, out2)
  <2> SUFFICES ASSUME NEW x \in DOMAIN ans2, NEW j \in DOMAIN out2, NEW n \in Nat,
                      Mentions(out2[j], x, n)
               PROVE  /\ ans2[x].call <= n
                      /\ ans2[x].call < n =>
                           \E i \in DOMAIN out2 : i < j /\ Finishes(out2[i], x, ans2[x].call)
    BY Zenon DEF AnswersInTime
  <2>1. j + 1 \in DOMAIN out /\ Mentions(out[j + 1], x, n) /\ j \in Nat /\ 1 < j + 1
    BY <1>2, SMTT(40)
  <2>2. CASE x = q
    <3>1. out[1].call <= n
      BY <1>1, <1>order, <1>2, <1>4, <2>1, <2>2, ZenonT(40) DEF MentionsInOrder
    <3>2. q \in DOMAIN qs => n <= qs[q].call
      BY <1>1, <1>mentions, <2>1, <2>2, Zenon DEF MentionsKnown
    <3> QED BY <1>3, <1>6, <1>8, <2>1, <2>2, <3>1, <3>2
  <2>3. CASE x # q
    <3>1. x \in DOMAIN ans /\ ans2[x] = ans[x]
      BY <1>3, <2>3, Zenon
    <3>2. /\ ans[x].call <= n
          /\ ans[x].call < n => \E i \in DOMAIN out : i < j + 1 /\ Finishes(out[i], x, ans[x].call)
      BY <1>1, <1>inTime, <2>1, <3>1, Zenon DEF AnswersInTime
    <3> QED BY <1>2, <1>4, <2>1, <3>1, <3>2
  <2> QED BY <2>2, <2>3, Zenon
<1>13. FinishDue(qs, ans2, out2)
  <2> SUFFICES ASSUME NEW x \in DOMAIN ans2, ~isHigh(x),
                      \/ x \notin DOMAIN qs
                      \/ qs[x].call # ans2[x].call
                      \/ ~qs[x].selfRef /\ ans2[x].callContext # "finished"
               PROVE  \E i \in DOMAIN out : i # 1 /\ Finishes(out[i], x, ans2[x].call)
    BY <1>2, ZenonT(40) DEF FinishDue
  <2>1. CASE x = q
    BY <1>3, <1>6, <2>1, SMTT(40)
  <2>2. CASE x # q
    BY <1>due, <1>3, <1>4, <2>2, SMTT(40) DEF FinishDue
  <2> QED BY <2>1, <2>2, Zenon
<1>14. HighIds(qs, ans2, out2, hc)
  BY <1>high, <1>2, <1>3, <1>8, SMTT(40) DEF HighIds
<1>15. ReturnsExpected(qs, ans2, in)
  BY <1>returns, <1>3, <1>6, <1>8, SMTT(40) DEF ReturnsExpected
<1>16. RunningExpected(qs, ans2, out2, in)
  BY <1>running, <1>2, <1>3, <1>5, <1>6, SMTT(40) DEF RunningExpected
<1>17. AsksExpected(qs, out2, in)
  BY <1>asks, <1>2, SMTT(40) DEF AsksExpected
<1>18. FinishSkipped(qs, ans2)
  BY <1>1, <1>skipped, <1>3, <1>6, <1>8 DEF FinishSkipped
<1> QED BY <1>1, <1>9, <1>10, <1>11, <1>12, <1>13, <1>14, <1>15, <1>16, <1>17, <1>18, Zenon DEF Half

\* A Finish arrives: the answer is forgotten, if there still is one.
LEMMA HearFinishHalf ==
  ASSUME NEW qs, NEW ans, NEW out, NEW in, NEW next, NEW hc, Half(qs, ans, out, in, next, hc),
         out[1].type = "finish", NEW q \in Nat, out[1].id = q, out[1].call \in Nat,
         NEW ans2, Removed(ans, ans2, q), NEW out2, Shorter(out, out2)
  PROVE  Half(qs, ans2, out2, in, next, hc)
<1>1. next \in Nat /\ hc \in Nat
  BY Zenon DEF Half
<1>known. KnownCalls(qs, ans, next)  BY Zenon DEF Half
<1>mentions. MentionsKnown(qs, out, next)  BY Zenon DEF Half
<1>order. MentionsInOrder(out)  BY Zenon DEF Half
<1>inTime. AnswersInTime(ans, out)  BY Zenon DEF Half
<1>due. FinishDue(qs, ans, out)  BY Zenon DEF Half
<1>high. HighIds(qs, ans, out, hc)  BY Zenon DEF Half
<1>returns. ReturnsExpected(qs, ans, in)  BY Zenon DEF Half
<1>running. RunningExpected(qs, ans, out, in)  BY Zenon DEF Half
<1>asks. AsksExpected(qs, out, in)  BY Zenon DEF Half
<1>skipped. FinishSkipped(qs, ans)  BY ZenonT(40) DEF Half
<1>2. /\ \A i \in DOMAIN out2 : i \in Nat /\ 1 <= i /\ i + 1 \in DOMAIN out /\ out2[i] = out[i + 1]
      /\ \A i \in DOMAIN out : i = 1 \/ (i - 1 \in DOMAIN out2 /\ out2[i - 1] = out[i])
      /\ \A i \in DOMAIN out : i \in Nat /\ 1 <= i
      /\ 1 \in DOMAIN out
  BY SMTT(40) DEF Shorter
<1>3. /\ \A x : x \in DOMAIN ans2 <=> x \in DOMAIN ans /\ x # q
      /\ \A x \in DOMAIN ans2 : ans2[x] = ans[x]
  BY Zenon DEF Removed
<1>4. Mentions(out[1], q, out[1].call) /\ ~Asks(out[1]) /\ \A t, n : Finishes(out[1], t, n) => t = q
  BY Zenon DEF Mentions, Asks, Finishes
<1>5. KnownCalls(qs, ans2, next)
  BY <1>1, <1>known, <1>3, Zenon DEF KnownCalls
<1>6. MentionsKnown(qs, out2, next)
  BY <1>1, <1>mentions, <1>2, Zenon DEF MentionsKnown
<1>7. MentionsInOrder(out2)
  BY <1>order, <1>2, SMTT(40) DEF MentionsInOrder
<1>8. AnswersInTime(ans2, out2)
  <2> SUFFICES ASSUME NEW x \in DOMAIN ans2, NEW j \in DOMAIN out2, NEW n \in Nat,
                      Mentions(out2[j], x, n)
               PROVE  /\ ans2[x].call <= n
                      /\ ans2[x].call < n =>
                           \E i \in DOMAIN out2 : i < j /\ Finishes(out2[i], x, ans2[x].call)
    BY ZenonT(40) DEF AnswersInTime
  <2>1. j + 1 \in DOMAIN out /\ Mentions(out[j + 1], x, n) /\ j \in Nat /\ 1 < j + 1
    BY <1>2
  <2>2. x # q /\ x \in DOMAIN ans /\ ans2[x] = ans[x]
    BY <1>3, Zenon
  <2>3. /\ ans[x].call <= n
        /\ ans[x].call < n => \E i \in DOMAIN out : i < j + 1 /\ Finishes(out[i], x, ans[x].call)
    BY <1>inTime, <2>1, <2>2, Zenon DEF AnswersInTime
  <2> QED BY <1>2, <1>4, <2>1, <2>2, <2>3
<1>9. FinishDue(qs, ans2, out2)
  BY <1>due, <1>2, <1>3, <1>4, ZenonT(40) DEF FinishDue
<1>10. HighIds(qs, ans2, out2, hc)
  BY <1>high, <1>2, <1>3, SMTT(40) DEF HighIds
<1>11. ReturnsExpected(qs, ans2, in)
  BY <1>returns, <1>3, SMTT(40) DEF ReturnsExpected
<1>12. RunningExpected(qs, ans2, out2, in)
  BY <1>running, <1>2, <1>3, SMTT(40) DEF RunningExpected
<1>13. AsksExpected(qs, out2, in)
  BY <1>asks, <1>2 DEF AsksExpected
<1>14. FinishSkipped(qs, ans2)
  BY <1>1, <1>skipped, <1>3, Zenon DEF FinishSkipped
<1> QED BY <1>1, <1>5, <1>6, <1>7, <1>8, <1>9, <1>10, <1>11, <1>12, <1>13, <1>14, Zenon DEF Half

\* A Finish arrives for a call that still runs and is cancelled.
LEMMA HearCancelHalf ==
  ASSUME NEW qs, NEW ans, NEW out, NEW in, NEW next, NEW hc, Half(qs, ans, out, in, next, hc),
         out[1].type = "finish", NEW q \in Nat, out[1].id = q, out[1].call \in Nat,
         q \in DOMAIN ans, ans[q].callContext # "none",
         NEW e, e.call = ans[q].call, e.callContext = "finished",
         e.onlyPromisePipeline <=> ans[q].onlyPromisePipeline,
         NEW ans2, Set(ans, ans2, q, e), NEW out2, Shorter(out, out2)
  PROVE  Half(qs, ans2, out2, in, next, hc)
<1>1. next \in Nat /\ hc \in Nat
  BY Zenon DEF Half
<1>known. KnownCalls(qs, ans, next)  BY Zenon DEF Half
<1>mentions. MentionsKnown(qs, out, next)  BY Zenon DEF Half
<1>order. MentionsInOrder(out)  BY Zenon DEF Half
<1>inTime. AnswersInTime(ans, out)  BY Zenon DEF Half
<1>due. FinishDue(qs, ans, out)  BY Zenon DEF Half
<1>high. HighIds(qs, ans, out, hc)  BY Zenon DEF Half
<1>returns. ReturnsExpected(qs, ans, in)  BY Zenon DEF Half
<1>running. RunningExpected(qs, ans, out, in)  BY Zenon DEF Half
<1>asks. AsksExpected(qs, out, in)  BY Zenon DEF Half
<1>skipped. FinishSkipped(qs, ans)  BY ZenonT(40) DEF Half
<1>2. /\ \A i \in DOMAIN out2 : i \in Nat /\ 1 <= i /\ i + 1 \in DOMAIN out /\ out2[i] = out[i + 1]
      /\ \A i \in DOMAIN out : i = 1 \/ (i - 1 \in DOMAIN out2 /\ out2[i - 1] = out[i])
      /\ \A i \in DOMAIN out : i \in Nat /\ 1 <= i
      /\ 1 \in DOMAIN out
  BY SMTT(40) DEF Shorter
<1>3. /\ \A x : x \in DOMAIN ans2 <=> x \in DOMAIN ans \/ x = q
      /\ ans2[q] = e
      /\ \A x \in DOMAIN ans : x # q => ans2[x] = ans[x]
  BY Zenon DEF Set
<1>4. Mentions(out[1], q, out[1].call) /\ ~Asks(out[1]) /\ \A t, n : Finishes(out[1], t, n) => t = q
  BY Zenon DEF Mentions, Asks, Finishes
<1>5. ans[q].onlyPromisePipeline <=> isHigh(q)
  BY <1>1, <1>high, Zenon DEF HighIds
<1>6. ASSUME ~isHigh(q)
      PROVE  /\ q \in DOMAIN qs /\ qs[q].call = ans[q].call /\ qs[q].isAwaitingReturn
             /\ \A i \in DOMAIN in : ~Returns(in[i], q)
             /\ \A i \in DOMAIN out : ~(Wants(out[i]) /\ out[i].id = q)
  BY <1>1, <1>running, <1>5, <1>6, Zenon DEF RunningExpected
<1>7. ASSUME NEW j \in DOMAIN out, NEW n \in Nat, Mentions(out[j], q, n)
      PROVE  ans[q].call = n
  <2>1. CASE isHigh(q)
    BY <1>high, <1>7, <2>1, SMTT(40) DEF HighIds
  <2>2. CASE ~isHigh(q)
    <3>1. ans[q].call <= n
      BY <1>1, <1>inTime, <1>7, Zenon DEF AnswersInTime
    <3>2. n <= qs[q].call
      BY <1>1, <1>mentions, <1>6, <1>7, <2>2, Zenon DEF MentionsKnown
    <3> QED BY <1>1, <1>known, <1>6, <2>2, <3>1, <3>2, SMTT(40) DEF KnownCalls
  <2> QED BY <2>1, <2>2, ZenonT(40)
<1>8. KnownCalls(qs, ans2, next)
  BY <1>1, <1>known, <1>3, Zenon DEF KnownCalls
<1>9. MentionsKnown(qs, out2, next)
  BY <1>1, <1>mentions, <1>2, Zenon DEF MentionsKnown
<1>10. MentionsInOrder(out2)
  BY <1>order, <1>2 DEF MentionsInOrder
<1>11. AnswersInTime(ans2, out2)
  <2> SUFFICES ASSUME NEW x \in DOMAIN ans2, NEW j \in DOMAIN out2, NEW n \in Nat,
                      Mentions(out2[j], x, n)
               PROVE  /\ ans2[x].call <= n
                      /\ ans2[x].call < n =>
                           \E i \in DOMAIN out2 : i < j /\ Finishes(out2[i], x, ans2[x].call)
    BY Zenon DEF AnswersInTime
  <2>1. j + 1 \in DOMAIN out /\ Mentions(out[j + 1], x, n) /\ j \in Nat /\ 1 < j + 1
    BY <1>2, SMTT(40)
  <2>2. CASE x = q
    BY <1>3, <1>7, <2>1, <2>2, SMTT(40)
  <2>3. CASE x # q
    <3>1. x \in DOMAIN ans /\ ans2[x] = ans[x]
      BY <1>3, <2>3, Zenon
    <3>2. /\ ans[x].call <= n
          /\ ans[x].call < n => \E i \in DOMAIN out : i < j + 1 /\ Finishes(out[i], x, ans[x].call)
      BY <1>1, <1>inTime, <2>1, <3>1, Zenon DEF AnswersInTime
    <3> QED BY <1>2, <1>4, <2>1, <2>3, <3>1, <3>2
  <2> QED BY <2>2, <2>3, Zenon
<1>12. FinishDue(qs, ans2, out2)
  <2> SUFFICES ASSUME NEW x \in DOMAIN ans2, ~isHigh(x),
                      \/ x \notin DOMAIN qs
                      \/ qs[x].call # ans2[x].call
                      \/ ~qs[x].selfRef /\ ans2[x].callContext # "finished"
               PROVE  \E i \in DOMAIN out : i # 1 /\ Finishes(out[i], x, ans2[x].call)
    BY <1>2, Zenon DEF FinishDue
  <2>1. x # q
    BY <1>3, <1>6, ZenonT(40)
  <2> QED BY <1>1, <1>due, <1>3, <1>4, <2>1, Zenon DEF FinishDue
<1>13. HighIds(qs, ans2, out2, hc)
  BY <1>1, <1>high, <1>2, <1>3, SMTT(40) DEF HighIds
<1>14. ReturnsExpected(qs, ans2, in)
  BY <1>returns, <1>3, SMTT(40) DEF ReturnsExpected
<1>15. RunningExpected(qs, ans2, out2, in)
  BY <1>running, <1>2, <1>3, SMTT(40) DEF RunningExpected
<1>16. AsksExpected(qs, out2, in)
  BY <1>1, <1>asks, <1>2, SMTT(40) DEF AsksExpected
<1>17. FinishSkipped(qs, ans2)
  BY <1>1, <1>skipped, <1>3 DEF FinishSkipped
<1> QED BY <1>1, <1>8, <1>9, <1>10, <1>11, <1>12, <1>13, <1>14, <1>15, <1>16, <1>17, Zenon DEF Half

=============================================================================
