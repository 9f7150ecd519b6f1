----------------------------- MODULE RpcProofs -----------------------------
(***************************************************************************)
(* Rpc for any number of calls, any objects and any flow limit.            *)
(*                                                                         *)
(* The ids: what one vat's questions, the peer's answers to them and the   *)
(* messages about them have to do with each other (Half) is an inductive   *)
(* invariant while both vats are connected.  RpcIds states it and shows it *)
(* preserved for tables and sequences of messages in general; this module  *)
(* shows that each action of Rpc does to them only what those lemmas allow.*)
(***************************************************************************)
EXTENDS Rpc, RpcIds, TLAPS

-----------------------------------------------------------------------------
(* Tables and streams of messages.                                         *)

\* Put() sets an entry of a table.
LEMMA PutSets ==
  ASSUME NEW table, NEW id, NEW entry
  PROVE  Set(table, Put(table, id, entry), id, entry)
BY Zenon DEF Set, Put

\* Erase() removes one.
LEMMA EraseRemoves ==
  ASSUME NEW table, NEW id
  PROVE  Removed(table, Erase(table, id), id)
BY Zenon DEF Removed, Erase, Restrict

\* An update in place sets an entry.
LEMMA ExceptSets ==
  ASSUME NEW table, NEW id \in DOMAIN table, NEW entry
  PROVE  Set(table, [table EXCEPT ![id] = entry], id, entry)
BY Zenon DEF Set

Stream(s) == \E M : s \in Seq(M)

\* A message is sent.
LEMMA SendExtends ==
  ASSUME NEW s, Stream(s), NEW m
  PROVE  Stream(s \o <<m>> \o <<>>) /\ Longer(s, s \o <<m>> \o <<>>, m)
<1>1. PICK M : s \in Seq(M)
  BY Zenon DEF Stream
<1>2. PICK N : N = M \cup {m}
  BY Zenon
<1>3. s \in Seq(N) /\ <<m>> \in Seq(N) /\ m \in N
  BY <1>1, <1>2
<1>4. PICK t : t = s \o <<m>>
  BY Zenon
<1>5. t \in Seq(N) /\ Len(t) = Len(s) + 1 /\ t[Len(s) + 1] = m /\ Len(s) \in Nat
      /\ \A i \in 1 .. Len(s) : t[i] = s[i]
  BY <1>3, <1>4
<1>6. t \o <<>> = t
  BY <1>5
<1> QED BY <1>3, <1>4, <1>5, <1>6 DEF Stream, Longer

\* Nothing is sent.
LEMMA SilenceKeeps ==
  ASSUME NEW s, Stream(s)
  PROVE  s \o <<>> \o <<>> = s
<1>1. PICK M : s \in Seq(M)
  BY Zenon DEF Stream
<1> QED BY <1>1

\* A message is received.
LEMMA ReceiveShortens ==
  ASSUME NEW s, Stream(s), s # <<>>
  PROVE  /\ Stream(Tail(s)) /\ Shorter(s, Tail(s)) /\ Head(s) = s[1]
         /\ 1 \in DOMAIN s
<1>1. PICK M : s \in Seq(M)
  BY Zenon DEF Stream
<1>2. Len(s) \in Nat /\ Len(s) > 0 /\ DOMAIN s = 1 .. Len(s)
  BY <1>1
<1>3. PICK k : k = Len(s) - 1
  BY Zenon
<1>4. k \in Nat /\ Len(s) = k + 1
  BY <1>2, <1>3
<1>5. /\ Tail(s) \in Seq(M) /\ Len(Tail(s)) = k /\ DOMAIN Tail(s) = 1 .. k
      /\ \A i \in 1 .. k : Tail(s)[i] = s[i + 1]
  BY <1>1, <1>2, <1>4
<1> QED BY <1>1, <1>2, <1>4, <1>5 DEF Stream, Shorter

-----------------------------------------------------------------------------
(* What the helpers of the handlers do to a vat's state.                   *)

Fields == {"connected", "idle", "failed", "questions", "answers", "exports", "imports",
           "highCounter", "callWordsInFlight", "flowWaiter"}

State(s) == s = [f \in Fields |-> s[f]]

(* They leave the questions and the answers alone.                         *)
Core(s, t) ==
  /\ State(t)
  /\ t.connected = s.connected /\ t.questions = s.questions /\ t.answers = s.answers
  /\ t.highCounter = s.highCounter /\ t.callWordsInFlight = s.callWordsInFlight
  /\ t.flowWaiter = s.flowWaiter

\* One helper after the other.
LEMMA CoreTransitive ==
  ASSUME NEW s, NEW t, NEW u, Core(s, t), Core(t, u) PROVE Core(s, u)
BY Zenon DEF Core

\* checkIfBecameIdle() only sets idle.
LEMMA CheckCore == ASSUME NEW s, State(s) PROVE Core(s, checkIfBecameIdle(s))
BY Zenon DEF State, Fields, Core, checkIfBecameIdle

\* A failed check leaves the tables as they are.
LEMMA FailCore == ASSUME NEW s, State(s) PROVE Core(s, Fail(s))
BY Zenon DEF State, Fields, Core, Fail

\* So does a change of the exports.
LEMMA ExportsCore == ASSUME NEW s, State(s), NEW table PROVE Core(s, [s EXCEPT !.exports = table])
BY Zenon DEF State, Fields, Core

\* writeDescriptor() writes the exports.
LEMMA WriteCore == ASSUME NEW s, State(s), NEW cap PROVE Core(s, writeDescriptor(s, cap))
BY Zenon DEF State, Fields, Core, writeDescriptor

\* Receiving a capability writes the imports.
LEMMA ReceiveCore == ASSUME NEW s, State(s), NEW desc PROVE Core(s, receiveCap(s, desc))
BY Zenon DEF State, Fields, Core, receiveCap

\* releaseExport() writes the exports.
LEMMA ReleaseCore ==
  ASSUME NEW s, State(s), NEW id, NEW count PROVE Core(s, releaseExport(s, id, count))
<1>1. CASE id \notin DOMAIN s.exports \/ count > s.exports[id].refcount
  BY <1>1, FailCore, Zenon DEF releaseExport
<1>2. CASE /\ ~(id \notin DOMAIN s.exports \/ count > s.exports[id].refcount)
           /\ count = s.exports[id].refcount
  <2>1. PICK t : t = [s EXCEPT !.exports = Erase(@, id)]
    BY Zenon
  <2>2. Core(s, t)
    BY <2>1, ExportsCore, Zenon
  <2>3. Core(t, checkIfBecameIdle(t))
    BY <2>2, CheckCore, Zenon DEF Core
  <2> QED BY <1>2, <2>1, <2>2, <2>3, CoreTransitive, Zenon DEF releaseExport
<1>3. CASE /\ ~(id \notin DOMAIN s.exports \/ count > s.exports[id].refcount)
           /\ count # s.exports[id].refcount
  <2>1. releaseExport(s, id, count) = [s EXCEPT !.exports[id].refcount = @ - count]
    BY <1>3, Zenon DEF releaseExport
  <2> QED BY <2>1, Zenon DEF State, Fields, Core
<1> QED BY <1>1, <1>2, <1>3, Zenon

\* So do the releases of a handler.
LEMMA ReleasesCore ==
  ASSUME NEW s, State(s), NEW ids PROVE Core(s, releaseExports(s, ids))
<1>1. Core(s, s)
  BY Zenon DEF Core
<1> QED BY <1>1, ReleaseCore, Zenon DEF releaseExports

-----------------------------------------------------------------------------
(* The invariant of the ids.                                               *)

(* Messages are of the six types, ...                                      *)
Types == {"bootstrap", "call", "return", "finish", "release", "abort"}

Typed(s) == Stream(s) /\ \A i \in DOMAIN s : s[i].type \in Types

(* ... and their ids are numbers.                                          *)
MessageOK(m) ==
  /\ m.type \in Types
  /\ Asks(m) \/ m.type \in {"return", "finish"} => m.id \in Nat /\ m.call \in Nat
  /\ m.type = "call" /\ m.target.kind = "promisedAnswer" =>
       m.target.id \in Nat /\ m.target.call \in Nat

Wire(s) == Stream(s) /\ \A i \in DOMAIN s : MessageOK(s[i])

(* Ids are reused, so that few are enough.                                 *)
LowIds(qs, next) == \A q \in DOMAIN qs : ~isHigh(q) => q < next

(* Table entries are records.                                              *)
QuestionFields == {"call", "isAwaitingReturn", "selfRef", "skipFinish"}
AnswerFields == {"call", "callContext", "onlyPromisePipeline", "resultExports"}

Entries(table, fields) == \A x \in DOMAIN table : DOMAIN table[x] = fields

Tables(s) == Entries(s.questions, QuestionFields) /\ Entries(s.answers, AnswerFields)

Shapes ==
  /\ DOMAIN conn = Vats /\ \A v \in Vats : State(conn[v]) /\ Tables(conn[v])
  /\ DOMAIN chan = Vats /\ \A v \in Vats : Typed(chan[v])
  /\ asked \in [Vats -> Nat]

Halves ==
  \A v \in Vats :
    /\ Half(conn[v].questions, conn[Peer(v)].answers, chan[Peer(v)], chan[v],
            asked[v], conn[v].highCounter)
    /\ LowIds(conn[v].questions, asked[v])
    /\ Wire(chan[v])

IdInv == Shapes /\ (Connected => Halves)

\* There are two vats, each the other's peer.
LEMMA Peers ==
  ASSUME NEW v \in Vats
  PROVE  Peer(v) \in Vats /\ Peer(v) # v /\ Peer(Peer(v)) = v /\ Vats = {v, Peer(v)}
<1>1. \E w \in Vats : w # v
  BY RpcAssumption, Zenon DEF RpcAssumption
<1>2. Peer(v) \in Vats /\ Peer(v) # v
  BY <1>1, Zenon DEF Peer
<1>3. Vats = {v, Peer(v)}
  BY <1>2, RpcAssumption DEF RpcAssumption
<1>4. Peer(Peer(v)) \in Vats /\ Peer(Peer(v)) # Peer(v)
  BY <1>2, Zenon DEF Peer
<1> QED BY <1>2, <1>3, <1>4, Zenon

\* An entry is set.
LEMMA SetEntries ==
  ASSUME NEW table, NEW fields, Entries(table, fields), NEW id, NEW entry, DOMAIN entry = fields,
         NEW after, Set(table, after, id, entry)
  PROVE  Entries(after, fields)
BY Zenon DEF Entries, Set

\* An entry is removed.
LEMMA RemovedEntries ==
  ASSUME NEW table, NEW fields, Entries(table, fields), NEW id, NEW after, Removed(table, after, id)
  PROVE  Entries(after, fields)
BY Zenon DEF Entries, Removed

\* No message, or one, or one stream after another.
LEMMA TypedStreams ==
  /\ Typed(<<>>)
  /\ \A m : m.type \in Types => Typed(<<m>>)
  /\ \A s, t : Typed(s) /\ Typed(t) => Typed(s \o t)
<1>1. Typed(<<>>)
  <2>1. <<>> \in Seq({}) /\ DOMAIN <<>> = {}
    OBVIOUS
  <2> QED BY <2>1, Zenon DEF Typed, Stream
<1>2. ASSUME NEW m, m.type \in Types PROVE Typed(<<m>>)
  <2>1. <<m>> \in Seq({m}) /\ DOMAIN <<m>> = {1} /\ <<m>>[1] = m
    OBVIOUS
  <2> QED BY <1>2, <2>1, Zenon DEF Typed, Stream
<1>3. ASSUME NEW s, NEW t, Typed(s), Typed(t) PROVE Typed(s \o t)
  <2>1. PICK M, N : s \in Seq(M) /\ t \in Seq(N)
    BY <1>3, Zenon DEF Typed, Stream
  <2>2. PICK L : L = M \cup N
    BY Zenon
  <2>3. s \in Seq(L) /\ t \in Seq(L)
    BY <2>1, <2>2
  <2>4. PICK u : u = s \o t
    BY Zenon
  <2>5. /\ u \in Seq(L)
        /\ \A i \in DOMAIN u : (i \in DOMAIN s /\ u[i] = s[i])
                               \/ (i - Len(s) \in DOMAIN t /\ u[i] = t[i - Len(s)])
    BY <2>3, <2>4
  <2> QED BY <1>3, <2>4, <2>5, Zenon DEF Typed, Stream
<1> QED BY <1>1, <1>2, <1>3, Zenon

\* taskFailed() says farewell with an Abort.
LEMMA TypedFarewell == ASSUME NEW s PROVE Typed(Farewell(s))
<1>1. AbortMsg.type \in Types
  BY Zenon DEF AbortMsg, Types
<1> QED BY <1>1, TypedStreams, Zenon DEF Farewell

\* disconnect() is the end of the connection.
LEMMA DisconnectEnds ==
  ASSUME NEW s, State(s), Tables(s)
  PROVE  State(disconnect(s)) /\ Tables(disconnect(s)) /\ ~disconnect(s).connected
<1>1. PICK t : t = disconnect(s)
  BY Zenon
<1>2. /\ State(t) /\ ~t.connected /\ t.questions = Empty
      /\ t.answers = [a \in DOMAIN s.answers |->
           [s.answers[a] EXCEPT !.callContext = IF @ = "running" THEN "finished" ELSE @]]
  BY <1>1, Zenon DEF State, Fields, disconnect
<1>3. Entries(t.answers, AnswerFields)
  BY <1>2, Zenon DEF Entries, Tables
<1>4. Entries(t.questions, QuestionFields)
  BY <1>2, Zenon DEF Entries, Empty
<1> QED BY <1>1, <1>2, <1>3, <1>4, Zenon DEF Tables

\* What a step of vat v has to establish: the two halves it is part of.
LEMMA StepInv ==
  ASSUME IdInv, NEW v \in Vats, NEW p, p = Peer(v), NEW s, State(s), Tables(s), NEW msgs, NEW input,
         Become(v, s, msgs, input), Typed(msgs), Typed(input),
         asked' \in [Vats -> Nat], asked'[p] = asked[p],
         s.connected => conn[v].connected,
         Connected /\ Halves /\ ~s.failed =>
           /\ Half(s.questions, conn[p].answers, chan[p] \o msgs \o <<>>, input,
                   asked'[v], s.highCounter)
           /\ Half(conn[p].questions, s.answers, input, chan[p] \o msgs \o <<>>,
                   asked[p], conn[p].highCounter)
           /\ LowIds(s.questions, asked'[v])
           /\ Wire(input) /\ Wire(chan[p] \o msgs \o <<>>)
  PROVE  IdInv'
<1>1. p \in Vats /\ p # v /\ Peer(p) = v /\ Vats = {v, p}
  BY Peers, Zenon
<1>2. PICK t : t = IF s.failed /\ s.connected THEN disconnect(s) ELSE s
  BY Zenon
<1>3. conn' = [conn EXCEPT ![v] = t]
  BY <1>2, Zenon DEF Become
<1>4. DOMAIN conn = Vats /\ State(conn[p]) /\ Tables(conn[p])
  BY <1>1, Zenon DEF IdInv, Shapes
<1>5. DOMAIN conn' = Vats /\ conn'[v] = t /\ conn'[p] = conn[p]
  BY <1>1, <1>3, <1>4, Zenon
<1>6. State(t) /\ Tables(t) /\ (t.connected => t = s /\ ~s.failed /\ s.connected)
  BY <1>2, DisconnectEnds, Zenon
<1>7. DOMAIN chan' = Vats /\ chan'[v] = input
      /\ chan'[p] = chan[p] \o msgs \o (IF s.failed /\ s.connected THEN Farewell(s) ELSE <<>>)
  BY <1>1, Zenon DEF Become
<1>8. Shapes'
  <2>1. Typed(chan[p])
    BY <1>1, Zenon DEF IdInv, Shapes
  <2>2. Typed(chan'[p])
    BY <1>7, <2>1, TypedStreams, TypedFarewell, Zenon
  <2> QED BY <1>1, <1>4, <1>5, <1>6, <1>7, <2>2, Zenon DEF Shapes
<1>9. ASSUME Connected' PROVE Halves'
  <2>1. t.connected /\ conn[p].connected
    BY <1>1, <1>5, <1>9, Zenon DEF Connected
  <2>2. Connected
    BY <1>1, <1>6, <2>1, Zenon DEF Connected
  <2>3. chan'[p] = chan[p] \o msgs \o <<>>
    BY <1>6, <1>7, <2>1, Zenon
  <2>4. /\ Half(s.questions, conn[p].answers, chan'[p], input, asked'[v], s.highCounter)
        /\ Half(conn[p].questions, s.answers, input, chan'[p], asked[p], conn[p].highCounter)
        /\ LowIds(s.questions, asked'[v])
        /\ Wire(input) /\ Wire(chan'[p])
    BY <1>6, <2>1, <2>2, <2>3, Zenon DEF IdInv
  <2>5. LowIds(conn[p].questions, asked[p])
    BY <1>1, <2>2, Zenon DEF IdInv, Halves
  <2>6. /\ conn'[v] = s /\ conn'[p] = conn[p] /\ chan'[v] = input /\ asked'[p] = asked[p]
        /\ Peer(v) = p /\ Peer(p) = v /\ \A u \in Vats : u = v \/ u = p
    BY <1>1, <1>5, <1>6, <1>7, <2>1, Zenon
  <2> QED BY <2>4, <2>5, <2>6, Zenon DEF Halves
<1> QED BY <1>8, <1>9, Zenon DEF IdInv

-----------------------------------------------------------------------------
(* The caller's steps.                                                     *)

\* A step finds the two halves vat v is part of.
LEMMA TwoHalves ==
  ASSUME Halves, NEW v \in Vats, NEW p, p = Peer(v)
  PROVE  /\ Half(conn[v].questions, conn[p].answers, chan[p], chan[v], asked[v], conn[v].highCounter)
         /\ Half(conn[p].questions, conn[v].answers, chan[v], chan[p], asked[p], conn[p].highCounter)
         /\ LowIds(conn[v].questions, asked[v])
         /\ Wire(chan[v]) /\ Wire(chan[p])
BY Peers, Zenon DEF Halves

\* What vat v says and what is on its way to v is typed.
LEMMA TypedStep ==
  ASSUME IdInv, NEW v \in Vats, NEW m, m.type \in Types PROVE Typed(<<m>>) /\ Typed(chan[v])
BY TypedStreams, Zenon DEF IdInv, Shapes

\* A message is sent on the wire.
LEMMA WireSend ==
  ASSUME NEW s, Wire(s), NEW m, MessageOK(m)
  PROVE  Wire(s \o <<m>> \o <<>>) /\ Longer(s, s \o <<m>> \o <<>>, m)
<1>1. PICK t : t = s \o <<m>> \o <<>>
  BY Zenon
<1>2. Stream(t) /\ Longer(s, t, m)
  BY <1>1, SendExtends, Zenon DEF Wire
<1>3. ASSUME NEW i \in DOMAIN t PROVE (i \in DOMAIN s /\ t[i] = s[i]) \/ t[i] = m
  BY <1>2 DEF Longer
<1> QED BY <1>1, <1>2, <1>3, Zenon DEF Wire

\* Or nothing is.
LEMMA WireSilence ==
  ASSUME NEW s, Wire(s) PROVE s \o <<>> \o <<>> = s
BY SilenceKeeps, Zenon DEF Wire

\* A message is taken from the wire.
LEMMA WireTail ==
  ASSUME NEW s, Wire(s), s # <<>>
  PROVE  /\ Wire(Tail(s)) /\ Shorter(s, Tail(s)) /\ Head(s) = s[1] /\ MessageOK(s[1])
<1>1. /\ Stream(Tail(s)) /\ Shorter(s, Tail(s)) /\ Head(s) = s[1] /\ 1 \in DOMAIN s
  BY ReceiveShortens, Zenon DEF Wire
<1>2. PICK t : t = Tail(s)
  BY Zenon
<1>3. ASSUME NEW i \in DOMAIN t PROVE i + 1 \in DOMAIN s /\ t[i] = s[i + 1]
  BY <1>1, <1>2, SMTT(40) DEF Shorter
<1> QED BY <1>1, <1>2, <1>3, Zenon DEF Wire

(* NextId() is a free id, and no higher than need be.                      *)
NextIdIsFree ==
  \A table : \A n \in Nat :
    /\ \A q \in DOMAIN table : q \in Nat /\ (~isHigh(q) => q < n)
    /\ n < HighBit
    => NextId(table) \in Nat /\ NextId(table) \notin DOMAIN table /\ NextId(table) <= n

\* A vat that may ask has a free id.
LEMMA FreeId ==
  ASSUME NextIdIsFree, IdInv, NEW v \in Vats, MayAsk(v), Connected, Halves
  PROVE  /\ NextId(conn[v].questions) \in Nat
         /\ NextId(conn[v].questions) \notin DOMAIN conn[v].questions
         /\ ~isHigh(NextId(conn[v].questions))
         /\ NextId(conn[v].questions) <= asked[v]
<1>1. asked[v] \in Nat /\ asked[v] < HighBit /\ HighBit \in Nat
  BY RpcAssumption, HighBitAssumption DEF RpcAssumption, MayAsk, IdInv, Shapes
<1>2. KnownCalls(conn[v].questions, conn[Peer(v)].answers, asked[v])
  BY Zenon DEF Halves, Half
<1>3. \A q \in DOMAIN conn[v].questions : q \in Nat /\ (~isHigh(q) => q < asked[v])
  BY <1>2, Zenon DEF Halves, LowIds, KnownCalls
<1>4. /\ NextId(conn[v].questions) \in Nat
      /\ NextId(conn[v].questions) \notin DOMAIN conn[v].questions
      /\ NextId(conn[v].questions) <= asked[v]
  BY <1>1, <1>3, Zenon DEF NextIdIsFree
<1> QED BY <1>1, <1>4, SMTT(40) DEF isHigh

\* Vat v has asked one question more.
LEMMA AskCounts ==
  ASSUME IdInv, NEW v \in Vats, NEW p, p = Peer(v), Ask(v)
  PROVE  /\ asked' \in [Vats -> Nat] /\ asked'[p] = asked[p]
         /\ asked'[v] = asked[v] + 1 /\ asked[v] \in Nat
BY Peers DEF IdInv, Shapes, Ask

\* What a question that is put on the wire may mention.
LEMMA AskMentions ==
  ASSUME NEW m, Asks(m), NEW s, NEW q, m.id = q, NEW n, m.call = n,
         m.type = "call" => m.target \in Targets(s)
  PROVE  \A t, k \in Nat : Mentions(m, t, k) =>
           (t = q /\ k = n) \/ (t \in DOMAIN s.questions /\ k = s.questions[t].call)
<1> SUFFICES ASSUME NEW t \in Nat, NEW k \in Nat, Mentions(m, t, k)
             PROVE  (t = q /\ k = n) \/ (t \in DOMAIN s.questions /\ k = s.questions[t].call)
  BY Zenon
<1>1. CASE m.id = t /\ m.call = k
  BY <1>1, Zenon
<1>2. CASE /\ m.type = "call" /\ m.target.kind = "promisedAnswer"
           /\ m.target.id = t /\ m.target.call = k
  <2>1. ASSUME NEW id PROVE m.target # ImportedCap(s, id)
    BY <1>2 DEF ImportedCap
  <2>2. PICK i \in DOMAIN s.questions : m.target = PromisedAnswer(s, i)
    BY <1>2, <2>1, Zenon DEF Targets
  <2> QED BY <1>2, <2>2 DEF PromisedAnswer
<1> QED BY <1>1, <1>2, Zenon DEF Mentions

\* A question goes out under a free id: bootstrap() and send().
LEMMA AskInv ==
  ASSUME NextIdIsFree, IdInv, NEW v \in Vats, MayAsk(v), Ask(v), NEW s, State(s), NEW m,
         Does(v, s, <<m>>), s.connected = conn[v].connected,
         s.questions = Put(conn[v].questions, NextId(conn[v].questions), NewQuestion(asked[v], TRUE)),
         s.answers = conn[v].answers, s.highCounter = conn[v].highCounter,
         Asks(m), Wants(m), m.id = NextId(conn[v].questions), m.call = asked[v],
         m.type = "call" => m.target \in Targets(conn[v])
  PROVE  IdInv'
<1>1. PICK p : p = Peer(v)
  BY Zenon
<1>2. /\ asked' \in [Vats -> Nat] /\ asked'[p] = asked[p]
      /\ asked'[v] = asked[v] + 1 /\ asked[v] \in Nat
  BY <1>1, AskCounts, Zenon
<1>3. ASSUME Connected, Halves
      PROVE  /\ Half(s.questions, conn[p].answers, chan[p] \o <<m>> \o <<>>, chan[v],
                     asked'[v], s.highCounter)
             /\ Half(conn[p].questions, s.answers, chan[v], chan[p] \o <<m>> \o <<>>,
                     asked[p], conn[p].highCounter)
             /\ LowIds(s.questions, asked'[v])
             /\ Wire(chan[v]) /\ Wire(chan[p] \o <<m>> \o <<>>)
  <2>1. PICK q, qs, e, n : /\ q = NextId(conn[v].questions) /\ qs = conn[v].questions
                           /\ n = asked[v] /\ e = NewQuestion(n, TRUE)
    BY Zenon
  <2>2. /\ Half(qs, conn[p].answers, chan[p], chan[v], n, conn[v].highCounter)
        /\ Half(conn[p].questions, conn[v].answers, chan[v], chan[p], asked[p], conn[p].highCounter)
        /\ LowIds(qs, n)
        /\ Wire(chan[v]) /\ Wire(chan[p])
    BY <1>1, <1>3, <2>1, TwoHalves, Zenon
  <2>3. q \in Nat /\ q \notin DOMAIN qs /\ ~isHigh(q) /\ q <= n /\ n \in Nat
    BY <1>2, <1>3, <2>1, FreeId, Zenon
  <2>4. \A t, k \in Nat : Mentions(m, t, k) =>
          (t = q /\ k = n) \/ (t \in DOMAIN qs /\ k = qs[t].call)
    BY <2>1, AskMentions, SMTT(40)
  <2>5. MessageOK(m)
    <3>1. \A t \in DOMAIN qs : t \in Nat /\ qs[t].call \in Nat
      BY <2>2, Zenon DEF Half, KnownCalls
    <3>2. ASSUME m.type = "call", m.target.kind = "promisedAnswer"
          PROVE  m.target.id \in Nat /\ m.target.call \in Nat
      <4>1. PICK i \in DOMAIN qs : m.target = PromisedAnswer(conn[v], i)
        BY <2>1, <3>2 DEF Targets, ImportedCap
      <4> QED BY <2>1, <3>1, <4>1, SMTT(40) DEF PromisedAnswer
    <3> QED BY <2>1, <2>3, <3>2, Zenon DEF MessageOK, Asks, Types
  <2>6. PICK c : c = chan[p] \o <<m>> \o <<>>
    BY Zenon
  <2>7. Wire(c) /\ Longer(chan[p], c, m)
    BY <2>2, <2>5, <2>6, WireSend, Zenon
  <2>8. Set(qs, s.questions, q, e)
    BY <2>1, PutSets, Zenon
  <2>9. /\ e.call = n /\ e.isAwaitingReturn /\ e.selfRef /\ ~e.skipFinish
        /\ m.id = q /\ m.call = n
    BY <2>1, Zenon DEF NewQuestion
  <2>10. Half(s.questions, conn[p].answers, c, chan[v], n + 1, conn[v].highCounter)
    BY <2>2, <2>3, <2>4, <2>7, <2>8, <2>9, AskHalf, ZenonT(40)
  <2>11. m.type # "return"
    BY Zenon DEF Asks
  <2>12. Half(conn[p].questions, conn[v].answers, chan[v], c, asked[p], conn[p].highCounter)
    BY <2>2, <2>7, <2>11, ReplyHalf, Zenon
  <2>13. LowIds(s.questions, n + 1)
    <3> SUFFICES ASSUME NEW x \in DOMAIN s.questions, ~isHigh(x) PROVE x < n + 1
      BY Zenon DEF LowIds
    <3>1. x = q \/ x \in DOMAIN qs
      BY <2>8, Zenon DEF Set
    <3>2. x \in DOMAIN qs => x \in Nat /\ x < n
      <4>1. KnownCalls(qs, conn[p].answers, n)
        BY <2>2, Zenon DEF Half
      <4> QED BY <2>2, <4>1, Zenon DEF LowIds, KnownCalls
    <3> QED BY <2>3, <3>1, <3>2
  <2> QED BY <1>2, <2>1, <2>2, <2>6, <2>7, <2>10, <2>12, <2>13, Zenon
<1>4. Become(v, s, <<m>>, chan[v])
  BY Zenon DEF Does
<1>5. Tables(s)
  <2>1. Tables(conn[v])
    BY Zenon DEF IdInv, Shapes
  <2>2. DOMAIN NewQuestion(asked[v], TRUE) = QuestionFields
    BY Zenon DEF NewQuestion, QuestionFields
  <2> QED BY <2>1, <2>2, PutSets, SetEntries, Zenon DEF Tables
<1>6. Typed(<<m>>) /\ Typed(chan[v])
  BY TypedStep DEF Types, Asks
<1> QED BY <1>1, <1>2, <1>3, <1>4, <1>5, <1>6, StepInv, Zenon

\* bootstrap().
LEMMA BootstrapInv ==
  ASSUME NextIdIsFree, IdInv, NEW v \in Vats, Bootstrap(v) PROVE IdInv'
<1>1. PICK c, q : c = conn[v] /\ q = NextId(c.questions)
  BY Zenon
<1>2. PICK s : s = [c EXCEPT !.idle = FALSE,
                             !.questions = Put(@, q, NewQuestion(asked[v], TRUE))]
  BY Zenon
<1>3. MayAsk(v) /\ Ask(v) /\ Does(v, s, <<BootstrapMsg(q, asked[v])>>)
  BY <1>1, <1>2, Zenon DEF Bootstrap
<1>4. State(c)
  BY <1>1, Zenon DEF IdInv, Shapes
<1>5. /\ State(s) /\ s.connected = c.connected /\ s.answers = c.answers
      /\ s.questions = Put(c.questions, q, NewQuestion(asked[v], TRUE))
      /\ s.highCounter = c.highCounter
  BY <1>2, <1>4, Zenon DEF State, Fields
<1>6. PICK m : m = BootstrapMsg(q, asked[v])
  BY Zenon
<1>7. Asks(m) /\ Wants(m) /\ m.id = q /\ m.call = asked[v] /\ m.type # "call"
  BY <1>6, Zenon DEF Asks, Wants, BootstrapMsg
<1> QED BY <1>1, <1>3, <1>5, <1>6, <1>7, AskInv, Zenon

\* setupSend() allocates a question.
LEMMA SetupSend ==
  ASSUME NEW v \in Vats, State(conn[v]), NEW cap
  PROVE  /\ State(setupSend(v, cap)) /\ setupSend(v, cap).connected = conn[v].connected
         /\ setupSend(v, cap).answers = conn[v].answers
         /\ setupSend(v, cap).highCounter = conn[v].highCounter
         /\ setupSend(v, cap).questions =
              Put(conn[v].questions, NextId(conn[v].questions), NewQuestion(asked[v], TRUE))
<1>1. PICK t : t = writeDescriptor(conn[v], cap)
  BY Zenon
<1>2. Core(conn[v], t)
  BY <1>1, WriteCore, Zenon
<1>3. setupSend(v, cap)
        = [t EXCEPT !.questions = Put(@, NextId(@), NewQuestion(asked[v], TRUE))]
  BY <1>1, Zenon DEF setupSend
<1> QED BY <1>2, <1>3, ZenonT(40) DEF Core, State, Fields

\* RpcRequest::send().
LEMMA SendInv ==
  ASSUME NextIdIsFree, IdInv, NEW v \in Vats, NEW target \in Targets(conn[v]), NEW cap,
         Send(v, target, cap)
  PROVE  IdInv'
<1>1. State(conn[v])
  BY Zenon DEF IdInv, Shapes
<1>2. PICK s, q : s = setupSend(v, cap) /\ q = NextId(conn[v].questions)
  BY Zenon
<1>3. PICK m : m = CallMsg(q, asked[v], target, Descriptor(conn[v], cap), FALSE)
  BY Zenon
<1>4. MayAsk(v) /\ Ask(v) /\ Does(v, s, <<m>>)
  BY <1>2, <1>3, Zenon DEF Send
<1>5. Asks(m) /\ Wants(m) /\ m.id = q /\ m.call = asked[v] /\ m.target \in Targets(conn[v])
  BY <1>3, Zenon DEF Asks, Wants, CallMsg
<1> QED BY <1>1, <1>2, <1>4, <1>5, SetupSend, AskInv, Zenon

\* A step that sends nothing and leaves the answers alone.
LEMMA QuietInv ==
  ASSUME IdInv, NEW v \in Vats, NEW p, p = Peer(v), NEW s, State(s), Does(v, s, <<>>),
         Entries(s.questions, QuestionFields),
         asked' \in [Vats -> Nat], asked'[p] = asked[p],
         s.connected = conn[v].connected, s.answers = conn[v].answers,
         Connected /\ Halves =>
           /\ Half(s.questions, conn[p].answers, chan[p], chan[v], asked'[v], s.highCounter)
           /\ LowIds(s.questions, asked'[v])
  PROVE  IdInv'
<1>1. Become(v, s, <<>>, chan[v])
  BY Zenon DEF Does
<1>2. ASSUME Connected, Halves
      PROVE  /\ Half(s.questions, conn[p].answers, chan[p] \o <<>> \o <<>>, chan[v],
                     asked'[v], s.highCounter)
             /\ Half(conn[p].questions, s.answers, chan[v], chan[p] \o <<>> \o <<>>,
                     asked[p], conn[p].highCounter)
             /\ LowIds(s.questions, asked'[v])
             /\ Wire(chan[v]) /\ Wire(chan[p] \o <<>> \o <<>>)
  <2>1. /\ Half(conn[p].questions, conn[v].answers, chan[v], chan[p], asked[p], conn[p].highCounter)
        /\ Wire(chan[v]) /\ Wire(chan[p])
    BY <1>2, TwoHalves, Zenon
  <2>2. chan[p] \o <<>> \o <<>> = chan[p]
    BY <2>1, WireSilence, Zenon
  <2> QED BY <1>2, <2>1, <2>2, Zenon
<1>3. Tables(s)
  BY Zenon DEF Tables, IdInv, Shapes
<1>4. Typed(<<>>) /\ Typed(chan[v])
  BY TypedStreams, Zenon DEF IdInv, Shapes
<1> QED BY <1>1, <1>2, <1>3, <1>4, StepInv, Zenon

(* setupSend(), and the question is rejected because the send threw.       *)
Reject(v, cap) ==
  [setupSend(v, cap) EXCEPT !.questions[NextId(conn[v].questions)] =
     [@ EXCEPT !.isAwaitingReturn = FALSE, !.skipFinish = TRUE]]

(* A question is added that waits for nothing and gets no Finish.          *)
Burnt(qs, after, q, n) ==
  \E e : /\ Set(qs, after, q, e) /\ e.call = n
        /\ ~e.isAwaitingReturn /\ e.selfRef /\ e.skipFinish /\ DOMAIN e = QuestionFields

\* The question will be dropped without a Finish.
LEMMA RejectedQuestion ==
  ASSUME NEW v \in Vats, State(conn[v]), NEW cap,
         NEW q, q = NextId(conn[v].questions), NEW t, t = Reject(v, cap)
  PROVE  /\ State(t) /\ t.connected = conn[v].connected /\ t.answers = conn[v].answers
         /\ t.highCounter = conn[v].highCounter
         /\ Burnt(conn[v].questions, t.questions, q, asked[v])
<1>1. PICK s, new : s = setupSend(v, cap) /\ new = NewQuestion(asked[v], TRUE)
  BY Zenon
<1>2. /\ State(s) /\ s.connected = conn[v].connected /\ s.answers = conn[v].answers
      /\ s.highCounter = conn[v].highCounter
      /\ s.questions = Put(conn[v].questions, q, new)
  BY <1>1, SetupSend, Zenon
<1>3. PICK e : e = [new EXCEPT !.isAwaitingReturn = FALSE, !.skipFinish = TRUE]
  BY Zenon
<1>4. /\ e.call = asked[v] /\ ~e.isAwaitingReturn /\ e.selfRef /\ e.skipFinish
      /\ DOMAIN e = QuestionFields
  BY <1>1, <1>3, Zenon DEF NewQuestion, QuestionFields
<1>5. Set(conn[v].questions, s.questions, q, new)
  BY <1>2, PutSets, Zenon
<1>6. /\ State(t) /\ t.connected = s.connected /\ t.answers = s.answers
      /\ t.highCounter = s.highCounter
      /\ t.questions = [s.questions EXCEPT ![q] =
                          [@ EXCEPT !.isAwaitingReturn = FALSE, !.skipFinish = TRUE]]
  BY <1>1, <1>2, Zenon DEF State, Fields, Reject
<1>7. Set(conn[v].questions, t.questions, q, e)
  BY <1>3, <1>5, <1>6, Zenon DEF Set
<1> QED BY <1>2, <1>4, <1>6, <1>7, Zenon DEF Burnt

\* It takes its number all the same.
LEMMA RejectedHalf ==
  ASSUME NextIdIsFree, IdInv, NEW v \in Vats, NEW p, p = Peer(v), MayAsk(v), Connected, Halves,
         NEW q, q = NextId(conn[v].questions), NEW qs2,
         Burnt(conn[v].questions, qs2, q, asked[v])
  PROVE  /\ Half(qs2, conn[p].answers, chan[p], chan[v], asked[v] + 1, conn[v].highCounter)
         /\ LowIds(qs2, asked[v] + 1)
<1>1. q \in Nat /\ q \notin DOMAIN conn[v].questions /\ ~isHigh(q) /\ q <= asked[v]
  BY FreeId, Zenon
<1>2. /\ Half(conn[v].questions, conn[p].answers, chan[p], chan[v], asked[v], conn[v].highCounter)
      /\ LowIds(conn[v].questions, asked[v])
  BY TwoHalves, Zenon
<1> PICK e : /\ Set(conn[v].questions, qs2, q, e) /\ e.call = asked[v]
             /\ ~e.isAwaitingReturn /\ e.selfRef /\ e.skipFinish
  BY Zenon DEF Burnt
<1>3. Half(qs2, conn[p].answers, chan[p], chan[v], asked[v] + 1, conn[v].highCounter)
  BY <1>1, <1>2, RejectHalf, ZenonT(40)
<1>4. ASSUME NEW x \in DOMAIN qs2, ~isHigh(x) PROVE x < asked[v] + 1
  <2>1. x = q \/ x \in DOMAIN conn[v].questions
    BY Zenon DEF Set
  <2>2. asked[v] \in Nat /\ KnownCalls(conn[v].questions, conn[p].answers, asked[v])
    BY <1>2, Zenon DEF Half
  <2>3. x \in DOMAIN conn[v].questions => x \in Nat /\ x < asked[v]
    BY <1>2, <1>4, <2>2, Zenon DEF LowIds, KnownCalls
  <2> QED BY <1>1, <2>1, <2>2, <2>3, SMTT(40)
<1> QED BY <1>3, <1>4, Zenon DEF LowIds

\* A send that threw.
LEMMA SendThrowsInv ==
  ASSUME NextIdIsFree, IdInv, NEW v \in Vats, NEW cap, SendThrows(v, cap) PROVE IdInv'
<1>1. PICK p, q, ids : /\ p = Peer(v) /\ q = NextId(conn[v].questions)
                       /\ ids = ExportsOf(Descriptor(conn[v], cap))
  BY Zenon
<1>2. PICK t, u : t = Reject(v, cap) /\ u = releaseExports(t, ids)
  BY Zenon
<1>3. MayAsk(v) /\ Ask(v) /\ Does(v, u, <<>>)
  BY <1>1, <1>2, Zenon DEF SendThrows, Reject
<1>4. State(conn[v]) /\ Entries(conn[v].questions, QuestionFields)
  BY Zenon DEF IdInv, Shapes, Tables
<1>5. /\ State(t) /\ t.connected = conn[v].connected /\ t.answers = conn[v].answers
      /\ t.highCounter = conn[v].highCounter
      /\ Burnt(conn[v].questions, t.questions, q, asked[v])
  BY <1>1, <1>2, <1>4, RejectedQuestion, ZenonT(40)
<1>6. /\ State(u) /\ u.connected = conn[v].connected /\ u.answers = conn[v].answers
      /\ u.questions = t.questions /\ u.highCounter = conn[v].highCounter
  BY <1>2, <1>5, ReleasesCore DEF Core
<1>7. asked' \in [Vats -> Nat] /\ asked'[p] = asked[p] /\ asked'[v] = asked[v] + 1
  BY <1>1, <1>3, AskCounts, Zenon
<1>8. ASSUME Connected, Halves
      PROVE  /\ Half(u.questions, conn[p].answers, chan[p], chan[v], asked'[v], u.highCounter)
             /\ LowIds(u.questions, asked'[v])
  <2>1. /\ Half(t.questions, conn[p].answers, chan[p], chan[v], asked[v] + 1, conn[v].highCounter)
        /\ LowIds(t.questions, asked[v] + 1)
    BY <1>1, <1>3, <1>5, <1>8, RejectedHalf, ZenonT(40)
  <2> QED BY <1>6, <1>7, <2>1, Zenon
<1>9. Entries(u.questions, QuestionFields)
  BY <1>4, <1>5, <1>6, SetEntries, Zenon DEF Burnt
<1> QED BY <1>1, <1>3, <1>6, <1>7, <1>8, <1>9, QuietInv, Zenon

\* DropQuestionRef() forgets a question that waits for nothing.
LEMMA DropRefCore ==
  ASSUME NEW s, State(s), NEW q, ~s.questions[q].isAwaitingReturn
  PROVE  /\ State(DropQuestionRef(s, q)) /\ DropQuestionRef(s, q).connected = s.connected
         /\ DropQuestionRef(s, q).answers = s.answers
         /\ DropQuestionRef(s, q).highCounter = s.highCounter
         /\ Removed(s.questions, DropQuestionRef(s, q).questions, q)
<1>1. PICK t : t = [s EXCEPT !.questions = Erase(@, q)]
  BY Zenon
<1>2. /\ State(t) /\ t.connected = s.connected /\ t.answers = s.answers
      /\ t.highCounter = s.highCounter /\ t.questions = Erase(s.questions, q)
  BY <1>1, Zenon DEF State, Fields
<1>3. PICK u : u = checkIfBecameIdle(t)
  BY Zenon
<1>4. Core(t, u)
  BY <1>2, <1>3, CheckCore, Zenon
<1>5. DropQuestionRef(s, q) = u
  BY <1>1, <1>3, Zenon DEF DropQuestionRef
<1>6. Removed(s.questions, t.questions, q)
  BY <1>2, EraseRemoves, Zenon
<1> QED BY <1>2, <1>4, <1>5, <1>6, Zenon DEF Core

\* A streaming call whose send threw: the question goes at once.
LEMMA SendStreamingThrowsInv ==
  ASSUME NextIdIsFree, IdInv, NEW v \in Vats, NEW cap, SendStreamingThrows(v, cap) PROVE IdInv'
<1>1. PICK p, q : p = Peer(v) /\ q = NextId(conn[v].questions)
  BY Zenon
<1>2. PICK t, u : t = Reject(v, cap) /\ u = DropQuestionRef(t, q)
  BY Zenon
<1>3. MayAsk(v) /\ Ask(v) /\ Does(v, u, <<>>)
  BY <1>1, <1>2, Zenon DEF SendStreamingThrows, Reject
<1>4. State(conn[v]) /\ Entries(conn[v].questions, QuestionFields)
  BY Zenon DEF IdInv, Shapes, Tables
<1>5. /\ State(t) /\ t.connected = conn[v].connected /\ t.answers = conn[v].answers
      /\ t.highCounter = conn[v].highCounter
      /\ Burnt(conn[v].questions, t.questions, q, asked[v])
  BY <1>1, <1>2, <1>4, RejectedQuestion, ZenonT(40)
<1>6. q \in DOMAIN t.questions /\ ~t.questions[q].isAwaitingReturn /\ t.questions[q].skipFinish
  BY <1>5, Zenon DEF Burnt, Set
<1>7. /\ State(u) /\ u.connected = conn[v].connected /\ u.answers = conn[v].answers
      /\ Removed(t.questions, u.questions, q) /\ u.highCounter = conn[v].highCounter
  BY <1>2, <1>5, <1>6, DropRefCore, ZenonT(40)
<1>8. asked' \in [Vats -> Nat] /\ asked'[p] = asked[p] /\ asked'[v] = asked[v] + 1
  BY <1>1, <1>3, AskCounts, Zenon
<1>9. ASSUME Connected, Halves
      PROVE  /\ Half(u.questions, conn[p].answers, chan[p], chan[v], asked'[v], u.highCounter)
             /\ LowIds(u.questions, asked'[v])
  <2>1. /\ Half(t.questions, conn[p].answers, chan[p], chan[v], asked[v] + 1, conn[v].highCounter)
        /\ LowIds(t.questions, asked[v] + 1)
    BY <1>1, <1>3, <1>5, <1>9, RejectedHalf, ZenonT(40)
  <2>2. Half(u.questions, conn[p].answers, chan[p], chan[v], asked[v] + 1, conn[v].highCounter)
    BY <1>6, <1>7, <2>1, ForgetHalf, Zenon
  <2>3. LowIds(u.questions, asked[v] + 1)
    BY <1>7, <2>1, Zenon DEF LowIds, Removed
  <2> QED BY <1>7, <1>8, <2>2, <2>3, Zenon
<1>10. Entries(u.questions, QuestionFields)
  <2>1. Entries(t.questions, QuestionFields)
    BY <1>4, <1>5, SetEntries, Zenon DEF Burnt
  <2> QED BY <1>7, <2>1, RemovedEntries, Zenon
<1> QED BY <1>1, <1>3, <1>7, <1>8, <1>9, <1>10, QuietInv, Zenon

\* sendForPipeline(): a high id that was never used goes out.
LEMMA SendForPipelineInv ==
  ASSUME IdInv, NEW v \in Vats, NEW target \in Targets(conn[v]), NEW cap,
         SendForPipeline(v, target, cap)
  PROVE  IdInv'
<1>1. PICK c, w, p, n, h : /\ c = conn[v] /\ w = writeDescriptor(c, cap) /\ p = Peer(v)
                           /\ n = asked[v] /\ h = c.highCounter
  BY Zenon
<1>2. State(c) /\ Core(c, w)
  BY <1>1, WriteCore, Zenon DEF IdInv, Shapes
<1>3. PICK q : q = HighBit + h
  BY Zenon
<1>4. q = nextHigh(w)
  BY <1>1, <1>2, <1>3, Zenon DEF Core, nextHigh
<1>5. PICK s, m : /\ s = [w EXCEPT !.questions = Put(@, q, NewQuestion(n, FALSE)), !.highCounter = @ + 1]
                  /\ m = CallMsg(q, n, target, Descriptor(c, cap), TRUE)
  BY Zenon
<1>6. MayAsk(v) /\ Ask(v) /\ Become(v, s, <<m>>, chan[v])
  BY <1>1, <1>4, <1>5, Zenon DEF SendForPipeline, Does
<1>7. /\ State(s) /\ s.connected = c.connected /\ s.answers = c.answers
      /\ s.questions = Put(c.questions, q, NewQuestion(n, FALSE)) /\ s.highCounter = h + 1
  BY <1>1, <1>2, <1>5, Zenon DEF Core, State, Fields
<1>8. Asks(m) /\ ~Wants(m) /\ m.id = q /\ m.call = n /\ m.target \in Targets(c) /\ m.type = "call"
  BY <1>1, <1>5, Zenon DEF Asks, Wants, CallMsg
<1>9. /\ asked' \in [Vats -> Nat] /\ asked'[p] = asked[p]
      /\ asked'[v] = n + 1 /\ n \in Nat
  BY <1>1, <1>6, AskCounts, Zenon
<1>10. ASSUME Connected, Halves
       PROVE  /\ Half(s.questions, conn[p].answers, chan[p] \o <<m>> \o <<>>, chan[v],
                      asked'[v], s.highCounter)
              /\ Half(conn[p].questions, s.answers, chan[v], chan[p] \o <<m>> \o <<>>,
                      asked[p], conn[p].highCounter)
              /\ LowIds(s.questions, asked'[v])
              /\ Wire(chan[v]) /\ Wire(chan[p] \o <<m>> \o <<>>)
  <2>1. PICK qs : qs = c.questions
    BY Zenon
  <2>2. /\ Half(qs, conn[p].answers, chan[p], chan[v], n, h)
        /\ Half(conn[p].questions, c.answers, chan[v], chan[p], asked[p], conn[p].highCounter)
        /\ LowIds(qs, n)
        /\ Wire(chan[v]) /\ Wire(chan[p])
    BY <1>1, <1>10, <2>1, TwoHalves, Zenon
  <2>3. h \in Nat /\ KnownCalls(qs, conn[p].answers, n)
    BY <2>2, Zenon DEF Half
  <2>4. q \in Nat /\ isHigh(q) /\ HighBit \in Nat
    BY <1>3, <2>3, HighBitAssumption, SMTT(40) DEF isHigh
  <2>5. \A t, k \in Nat : Mentions(m, t, k) =>
          (t = q /\ k = n) \/ (t \in DOMAIN qs /\ k = qs[t].call)
    BY <1>8, <2>1, AskMentions, SMTT(40)
  <2>6. MessageOK(m)
    <3>1. \A t \in DOMAIN qs : t \in Nat /\ qs[t].call \in Nat
      BY <2>3, Zenon DEF KnownCalls
    <3>2. ASSUME m.target.kind = "promisedAnswer"
          PROVE  m.target.id \in Nat /\ m.target.call \in Nat
      <4>1. PICK i \in DOMAIN qs : m.target = PromisedAnswer(c, i)
        BY <1>8, <2>1, <3>2, SMTT(40) DEF Targets, ImportedCap
      <4> QED BY <2>1, <3>1, <4>1, SMTT(40) DEF PromisedAnswer
    <3> QED BY <1>8, <1>9, <2>4, <3>2, Zenon DEF MessageOK, Asks, Types
  <2>7. PICK out : out = chan[p] \o <<m>> \o <<>>
    BY Zenon
  <2>8. Wire(out) /\ Longer(chan[p], out, m)
    BY <2>2, <2>6, <2>7, WireSend, Zenon
  <2>9. PICK e : e = NewQuestion(n, FALSE)
    BY Zenon
  <2>10. Set(qs, s.questions, q, e)
    BY <1>7, <2>1, <2>9, PutSets, Zenon
  <2>11. e.call = n /\ ~e.isAwaitingReturn /\ e.selfRef /\ ~e.skipFinish
    BY <2>9, Zenon DEF NewQuestion
  <2>12. Half(s.questions, conn[p].answers, out, chan[v], n + 1, h + 1)
    BY <1>3, <1>8, <2>2, <2>4, <2>5, <2>8, <2>10, <2>11, AskHighHalf, ZenonT(40)
  <2>13. m.type # "return"
    BY <1>8, Zenon
  <2>14. Half(conn[p].questions, c.answers, chan[v], out, asked[p], conn[p].highCounter)
    BY <2>2, <2>8, <2>13, ReplyHalf, ZenonT(40)
  <2>15. ASSUME NEW x \in DOMAIN s.questions, ~isHigh(x) PROVE x < n + 1
    <3>1. x \in DOMAIN qs
      BY <2>4, <2>10, <2>15, Zenon DEF Set
    <3> QED BY <1>9, <2>2, <2>3, <2>15, <3>1, SMTT(40) DEF LowIds, KnownCalls
  <2> QED BY <1>7, <1>9, <2>2, <2>7, <2>8, <2>12, <2>14, <2>15, ZenonT(40) DEF LowIds
<1>11. Tables(s)
  <2>1. Tables(c)
    BY <1>1, Zenon DEF IdInv, Shapes
  <2>2. DOMAIN NewQuestion(n, FALSE) = QuestionFields
    BY Zenon DEF NewQuestion, QuestionFields
  <2> QED BY <1>7, <2>1, <2>2, PutSets, SetEntries, Zenon DEF Tables
<1>12. Typed(<<m>>) /\ Typed(chan[v])
  BY <1>8, TypedStep DEF Types
<1> QED BY <1>1, <1>6, <1>7, <1>9, <1>10, <1>11, <1>12, StepInv, ZenonT(40)

\* sendForPipeline() whose send threw: the id is spent, and that is all.
LEMMA SendForPipelineThrowsInv ==
  ASSUME IdInv, NEW v \in Vats, NEW cap, SendForPipelineThrows(v, cap) PROVE IdInv'
<1>1. PICK c, w, p, n, h, ids :
        /\ c = conn[v] /\ w = writeDescriptor(c, cap) /\ p = Peer(v)
        /\ n = asked[v] /\ h = c.highCounter /\ ids = ExportsOf(Descriptor(c, cap))
  BY Zenon
<1>2. PICK t : t = [w EXCEPT !.highCounter = @ + 1]
  BY Zenon
<1>3. PICK u : u = releaseExports(t, ids)
  BY Zenon
<1>4. PICK s : s = checkIfBecameIdle(u)
  BY Zenon
<1>5. MayAsk(v) /\ Ask(v) /\ Does(v, s, <<>>)
  BY <1>1, <1>2, <1>3, <1>4, Zenon DEF SendForPipelineThrows
<1>6. State(c) /\ Core(c, w)
  BY <1>1, WriteCore, Zenon DEF IdInv, Shapes
<1>7. /\ State(t) /\ t.connected = c.connected /\ t.answers = c.answers
      /\ t.questions = c.questions /\ t.highCounter = h + 1
  BY <1>1, <1>2, <1>6, Zenon DEF Core, State, Fields
<1>8. Core(t, u)
  BY <1>3, <1>7, ReleasesCore, Zenon
<1>9. Core(u, s)
  BY <1>4, <1>8, CheckCore, Zenon DEF Core
<1>10. /\ State(s) /\ s.connected = c.connected /\ s.answers = c.answers
       /\ s.questions = c.questions /\ s.highCounter = h + 1
  BY <1>7, <1>8, <1>9, Zenon DEF Core
<1>11. /\ asked' \in [Vats -> Nat] /\ asked'[p] = asked[p]
       /\ asked'[v] = n + 1 /\ n \in Nat
  BY <1>1, <1>5, AskCounts, Zenon
<1>12. ASSUME Connected, Halves
       PROVE  /\ Half(s.questions, conn[p].answers, chan[p], chan[v], asked'[v], s.highCounter)
              /\ LowIds(s.questions, asked'[v])
  <2>1. /\ Half(c.questions, conn[p].answers, chan[p], chan[v], n, h)
        /\ LowIds(c.questions, n)
    BY <1>1, <1>12, TwoHalves, Zenon
  <2>2. h \in Nat /\ KnownCalls(c.questions, conn[p].answers, n)
    BY <2>1, Zenon DEF Half
  <2>3. h + 1 \in Nat /\ h <= h + 1 /\ HighBit \in Nat
    BY <2>2, HighBitAssumption, SMTT(40)
  <2>4. Half(c.questions, conn[p].answers, chan[p], chan[v], n + 1, h + 1)
    BY <2>1, <2>3, SkipHalf, Zenon
  <2>5. LowIds(c.questions, n + 1)
    BY <1>11, <2>1, <2>2, SMTT(40) DEF LowIds, KnownCalls
  <2> QED BY <1>10, <1>11, <2>4, <2>5, Zenon
<1>13. Entries(s.questions, QuestionFields)
  BY <1>1, <1>10, Zenon DEF IdInv, Shapes, Tables
<1> QED BY <1>1, <1>5, <1>10, <1>11, <1>12, <1>13, QuietInv, Zenon

\* Something is sent, and questions and answers stay as they are.
LEMMA SayInv ==
  ASSUME IdInv, NEW v \in Vats, NEW s, State(s), NEW m, Does(v, s, <<m>>), UNCHANGED asked,
         s.connected = conn[v].connected, s.questions = conn[v].questions,
         s.answers = conn[v].answers, s.highCounter = conn[v].highCounter,
         MessageOK(m), ~Asks(m), m.type \notin {"finish", "return"}
  PROVE  IdInv'
<1>1. PICK p : p = Peer(v)
  BY Zenon
<1>2. Become(v, s, <<m>>, chan[v])
  BY Zenon DEF Does
<1>3. asked' \in [Vats -> Nat] /\ asked'[p] = asked[p] /\ asked'[v] = asked[v]
  BY Zenon DEF IdInv, Shapes
<1>4. ASSUME Connected, Halves
      PROVE  /\ Half(s.questions, conn[p].answers, chan[p] \o <<m>> \o <<>>, chan[v],
                     asked'[v], s.highCounter)
             /\ Half(conn[p].questions, s.answers, chan[v], chan[p] \o <<m>> \o <<>>,
                     asked[p], conn[p].highCounter)
             /\ LowIds(s.questions, asked'[v])
             /\ Wire(chan[v]) /\ Wire(chan[p] \o <<m>> \o <<>>)
  <2>1. /\ Half(s.questions, conn[p].answers, chan[p], chan[v], asked[v], s.highCounter)
        /\ Half(conn[p].questions, s.answers, chan[v], chan[p], asked[p], conn[p].highCounter)
        /\ LowIds(s.questions, asked[v])
        /\ Wire(chan[v]) /\ Wire(chan[p])
    BY <1>1, <1>4, TwoHalves, Zenon
  <2>2. PICK out : out = chan[p] \o <<m>> \o <<>>
    BY Zenon
  <2>3. Wire(out) /\ Longer(chan[p], out, m)
    BY <2>1, <2>2, WireSend, Zenon
  <2>4. m.type # "finish" /\ m.type # "return"
    BY Zenon
  <2>5. Half(s.questions, conn[p].answers, out, chan[v], asked[v], s.highCounter)
    BY <2>1, <2>3, <2>4, SayHalf, Zenon
  <2>6. Half(conn[p].questions, s.answers, chan[v], out, asked[p], conn[p].highCounter)
    BY <2>1, <2>3, <2>4, ReplyHalf, Zenon
  <2> QED BY <1>3, <2>1, <2>2, <2>3, <2>5, <2>6, Zenon
<1>5. Tables(s)
  BY Zenon DEF Tables, IdInv, Shapes
<1>6. Typed(<<m>>) /\ Typed(chan[v])
  BY TypedStep, Zenon DEF MessageOK
<1> QED BY <1>1, <1>2, <1>3, <1>4, <1>5, <1>6, StepInv, ZenonT(40)

\* Nothing is sent, and questions and answers stay as they are.
LEMMA SameInv ==
  ASSUME IdInv, NEW v \in Vats, NEW s, State(s), Does(v, s, <<>>), UNCHANGED asked,
         s.connected = conn[v].connected, s.questions = conn[v].questions,
         s.answers = conn[v].answers, s.highCounter = conn[v].highCounter
  PROVE  IdInv'
<1>1. PICK p : p = Peer(v)
  BY Zenon
<1>2. asked' \in [Vats -> Nat] /\ asked'[p] = asked[p] /\ asked'[v] = asked[v]
  BY Zenon DEF IdInv, Shapes
<1>3. ASSUME Connected, Halves
      PROVE  /\ Half(s.questions, conn[p].answers, chan[p], chan[v], asked'[v], s.highCounter)
             /\ LowIds(s.questions, asked'[v])
  BY <1>1, <1>2, <1>3, TwoHalves, Zenon
<1>4. Entries(s.questions, QuestionFields)
  BY Zenon DEF Tables, IdInv, Shapes
<1> QED BY <1>1, <1>2, <1>3, <1>4, QuietInv, ZenonT(40)

\* ~ImportClient().
LEMMA DropImportInv ==
  ASSUME IdInv, NEW v \in Vats, NEW id, DropImport(v, id) PROVE IdInv'
<1>1. PICK c, t, s : c = conn[v] /\ t = [c EXCEPT !.imports = Erase(@, id)] /\ s = checkIfBecameIdle(t)
  BY Zenon
<1>2. State(c)
  BY <1>1, Zenon DEF IdInv, Shapes
<1>3. Core(c, t)
  BY <1>1, <1>2, Zenon DEF Core, State, Fields
<1>4. Core(t, s)
  BY <1>1, <1>3, CheckCore, ZenonT(40) DEF Core
<1>5. /\ State(s) /\ s.connected = c.connected /\ s.questions = c.questions
      /\ s.answers = c.answers /\ s.highCounter = c.highCounter
  BY <1>3, <1>4, Zenon DEF Core
<1>6. PICK m : m = ReleaseMsg(id, c.imports[id].remoteRefcount)
  BY Zenon
<1>7. MessageOK(m) /\ ~Asks(m) /\ m.type \notin {"finish", "return"}
  BY <1>6, Zenon DEF ReleaseMsg, MessageOK, Asks, Types
<1>8. Does(v, s, IF c.connected THEN <<m>> ELSE <<>>) /\ UNCHANGED asked
  BY <1>1, <1>6, Zenon DEF DropImport
<1>9. CASE c.connected
  BY <1>1, <1>5, <1>7, <1>8, <1>9, SayInv, Zenon
<1>10. CASE ~c.connected
  BY <1>1, <1>5, <1>8, <1>10, SameInv, ZenonT(40)
<1> QED BY <1>9, <1>10, Zenon

\* A question is dropped: cancelled, finished or forgotten.
LEMMA DropQuestionInv ==
  ASSUME IdInv, NEW v \in Vats, NEW q \in DOMAIN conn[v].questions, DropQuestion(v, q)
  PROVE  IdInv'
<1>1. PICK c, p, qs, s, m, n :
        /\ c = conn[v] /\ p = Peer(v) /\ qs = c.questions /\ s = DropQuestionRef(c, q)
        /\ m = FinishMsg(q, qs[q].call, qs[q].isAwaitingReturn) /\ n = asked[v]
  BY Zenon
<1>2. /\ State(c) /\ Entries(qs, QuestionFields) /\ Entries(c.answers, AnswerFields)
  BY <1>1, Zenon DEF IdInv, Shapes, Tables
<1>3. m.type = "finish" /\ m.id = q /\ m.call = qs[q].call
  BY <1>1, Zenon DEF FinishMsg
<1>4. /\ Does(v, s, IF qs[q].skipFinish THEN <<>> ELSE <<m>>) /\ UNCHANGED asked
  BY <1>1, Zenon DEF DropQuestion
<1>5. asked' \in [Vats -> Nat] /\ asked'[p] = asked[p] /\ asked'[v] = n /\ q \in DOMAIN qs
  BY <1>1, <1>4, Zenon DEF IdInv, Shapes
<1>6. ASSUME ~qs[q].isAwaitingReturn
      PROVE  /\ State(s) /\ s.connected = c.connected /\ s.answers = c.answers
             /\ Removed(qs, s.questions, q) /\ s.highCounter = c.highCounter
  BY <1>1, <1>2, <1>6, DropRefCore, ZenonT(40)
<1>7. PICK e : e = [qs[q] EXCEPT !.selfRef = FALSE]
  BY Zenon
<1>8. /\ DOMAIN e = QuestionFields /\ e.call = qs[q].call /\ ~e.selfRef
      /\ e.isAwaitingReturn = qs[q].isAwaitingReturn /\ e.skipFinish = qs[q].skipFinish
  BY <1>2, <1>5, <1>7, Zenon DEF Entries, QuestionFields
<1>9. ASSUME qs[q].isAwaitingReturn
      PROVE  /\ State(s) /\ s.connected = c.connected /\ s.answers = c.answers
             /\ Set(qs, s.questions, q, e) /\ s.highCounter = c.highCounter
  <2>1. s = [c EXCEPT !.questions[q].selfRef = FALSE]
    BY <1>1, <1>9, Zenon DEF DropQuestionRef
  <2>2. /\ State(s) /\ s.connected = c.connected /\ s.answers = c.answers
        /\ s.questions = [qs EXCEPT ![q] = e] /\ s.highCounter = c.highCounter
    BY <1>1, <1>2, <1>7, <2>1, Zenon DEF State, Fields
  <2> QED BY <1>5, <2>2, Zenon DEF Set
<1>10. /\ State(s) /\ s.connected = c.connected /\ s.answers = c.answers
       /\ Entries(s.questions, QuestionFields)
  BY <1>2, <1>6, <1>8, <1>9, SetEntries, RemovedEntries, ZenonT(40)
<1>11. ASSUME Connected, Halves
       PROVE  /\ Half(qs, conn[p].answers, chan[p], chan[v], n, c.highCounter)
              /\ Half(conn[p].questions, c.answers, chan[v], chan[p], asked[p], conn[p].highCounter)
              /\ LowIds(qs, n) /\ LowIds(s.questions, n)
              /\ Wire(chan[v]) /\ Wire(chan[p])
              /\ qs[q].skipFinish => ~qs[q].isAwaitingReturn
              /\ MessageOK(m)
  <2>1. /\ Half(qs, conn[p].answers, chan[p], chan[v], n, c.highCounter)
        /\ Half(conn[p].questions, c.answers, chan[v], chan[p], asked[p], conn[p].highCounter)
        /\ LowIds(qs, n) /\ Wire(chan[v]) /\ Wire(chan[p])
    BY <1>1, <1>11, TwoHalves, Zenon
  <2>2. KnownCalls(qs, conn[p].answers, n) /\ FinishSkipped(qs, conn[p].answers)
    BY <2>1, Zenon DEF Half
  <2>3. MessageOK(m)
    BY <1>3, <1>5, <2>2, Zenon DEF KnownCalls, MessageOK, Types, Asks
  <2>4. \A x \in DOMAIN s.questions : x \in DOMAIN qs
    BY <1>5, <1>6, <1>9, ZenonT(40) DEF Set, Removed
  <2> QED BY <1>5, <2>1, <2>2, <2>3, <2>4, Zenon DEF FinishSkipped, LowIds
<1>12. CASE qs[q].skipFinish
  <2>1. ASSUME Connected, Halves
        PROVE  /\ Half(s.questions, conn[p].answers, chan[p], chan[v], asked'[v], s.highCounter)
               /\ LowIds(s.questions, asked'[v])
    <3>1. /\ Half(qs, conn[p].answers, chan[p], chan[v], n, c.highCounter)
          /\ LowIds(s.questions, n) /\ ~qs[q].isAwaitingReturn
      BY <1>11, <1>12, <2>1, Zenon
    <3>2. Half(s.questions, conn[p].answers, chan[p], chan[v], n, c.highCounter)
      BY <1>5, <1>6, <1>12, <3>1, ForgetHalf, Zenon
    <3> QED BY <1>5, <1>6, <3>1, <3>2, Zenon
  <2>2. Does(v, s, <<>>) /\ s.connected = conn[v].connected /\ s.answers = conn[v].answers
    BY <1>1, <1>4, <1>10, <1>12, Zenon
  <2> QED BY <1>1, <1>5, <1>10, <2>1, <2>2, QuietInv, ZenonT(40)
<1>13. CASE ~qs[q].skipFinish
  <2>1. ASSUME Connected, Halves
        PROVE  /\ Half(s.questions, conn[p].answers, chan[p] \o <<m>> \o <<>>, chan[v],
                       asked'[v], s.highCounter)
               /\ Half(conn[p].questions, s.answers, chan[v], chan[p] \o <<m>> \o <<>>,
                       asked[p], conn[p].highCounter)
               /\ LowIds(s.questions, asked'[v])
               /\ Wire(chan[v]) /\ Wire(chan[p] \o <<m>> \o <<>>)
    <3>1. /\ Half(qs, conn[p].answers, chan[p], chan[v], n, c.highCounter)
          /\ Half(conn[p].questions, c.answers, chan[v], chan[p], asked[p], conn[p].highCounter)
          /\ LowIds(s.questions, n)
          /\ Wire(chan[v]) /\ Wire(chan[p]) /\ MessageOK(m)
      BY <1>11, <2>1, Zenon
    <3>2. PICK out : out = chan[p] \o <<m>> \o <<>>
      BY Zenon
    <3>3. Wire(out) /\ Longer(chan[p], out, m)
      BY <3>1, <3>2, WireSend, Zenon
    <3>4. m.type # "return"
      BY <1>3, Zenon
    <3>5. Half(conn[p].questions, c.answers, chan[v], out, asked[p], conn[p].highCounter)
      BY <3>1, <3>3, <3>4, ReplyHalf, Zenon
    <3>6. ASSUME qs[q].isAwaitingReturn
          PROVE  Half(s.questions, conn[p].answers, out, chan[v], n, c.highCounter)
      BY <1>3, <1>5, <1>8, <1>9, <3>1, <3>3, <3>6, CancelHalf, ZenonT(40)
    <3>7. ASSUME ~qs[q].isAwaitingReturn
          PROVE  Half(s.questions, conn[p].answers, out, chan[v], n, c.highCounter)
      BY <1>3, <1>5, <1>6, <3>1, <3>3, <3>7, DropHalf, ZenonT(40)
    <3>8. s.highCounter = c.highCounter /\ s.answers = c.answers
      BY <1>6, <1>9, ZenonT(40)
    <3> QED BY <1>5, <3>1, <3>2, <3>3, <3>5, <3>6, <3>7, <3>8, ZenonT(40)
  <2>2. Become(v, s, <<m>>, chan[v]) /\ (s.connected => conn[v].connected)
    BY <1>1, <1>4, <1>10, <1>13, Zenon DEF Does
  <2>3. Tables(s)
    BY <1>2, <1>10, ZenonT(40) DEF Tables
  <2>4. Typed(<<m>>) /\ Typed(chan[v])
    BY <1>3, TypedStep, SMTT(40) DEF Types
  <2> QED BY <1>1, <1>5, <1>10, <2>1, <2>2, <2>3, <2>4, StepInv, ZenonT(40)
<1> QED BY <1>12, <1>13, Zenon

-----------------------------------------------------------------------------
(* The callee's steps.                                                     *)

(* A Return went out, and the answer is kept for the Finish, ...           *)
Kept(answers, after, a) ==
  \E e : /\ Set(answers, after, a, e) /\ DOMAIN e = AnswerFields
        /\ e.call = answers[a].call /\ e.callContext = "none" /\ ~e.onlyPromisePipeline

(* ... if one is needed.                                                   *)
Responded(answers, after, a, m) ==
  \/ Removed(answers, after, a)
  \/ Kept(answers, after, a) /\ answers[a].callContext = "running" /\ ~m.noFinishNeeded

(* cleanupAnswerTable() leaves the questions alone.                        *)
Tidied(s, t) ==
  /\ State(t) /\ t.connected = s.connected /\ t.questions = s.questions
  /\ t.highCounter = s.highCounter

\* It takes the answer from the table if the Finish is in.
LEMMA CleanupErases ==
  ASSUME NEW s, State(s), NEW a, NEW x
  PROVE  /\ Tidied(s, cleanupAnswerTable(s, a, x, TRUE))
         /\ Removed(s.answers, cleanupAnswerTable(s, a, x, TRUE).answers, a)
<1>1. PICK u : u = [s EXCEPT !.answers = Erase(s.answers, a), !.callWordsInFlight = (@ - 1) % SizeMod]
  BY Zenon
<1>2. PICK w : w = maybeUnblockFlow(u)
  BY Zenon
<1>3. /\ State(u) /\ u.connected = s.connected /\ u.questions = s.questions
      /\ u.highCounter = s.highCounter /\ u.answers = Erase(s.answers, a)
  BY <1>1, Zenon DEF State, Fields
<1>4. /\ State(w) /\ w.connected = u.connected /\ w.questions = u.questions
      /\ w.highCounter = u.highCounter /\ w.answers = u.answers
  BY <1>2, <1>3, ZenonT(40) DEF State, Fields, maybeUnblockFlow
<1>5. PICK t : t = checkIfBecameIdle(w)
  BY Zenon
<1>6. Core(w, t)
  BY <1>4, <1>5, CheckCore, ZenonT(40)
<1>7. cleanupAnswerTable(s, a, x, TRUE) = t
  BY <1>1, <1>2, <1>5, Zenon DEF cleanupAnswerTable
<1>8. Removed(s.answers, u.answers, a)
  BY <1>3, EraseRemoves, Zenon
<1> QED BY <1>3, <1>4, <1>6, <1>7, <1>8, ZenonT(40) DEF Core, Tidied

\* Otherwise it keeps the answer.
LEMMA CleanupKeeps ==
  ASSUME NEW s, State(s), Entries(s.answers, AnswerFields), NEW a \in DOMAIN s.answers,
         ~s.answers[a].onlyPromisePipeline, NEW x
  PROVE  /\ Tidied(s, cleanupAnswerTable(s, a, x, FALSE))
         /\ Kept(s.answers, cleanupAnswerTable(s, a, x, FALSE).answers, a)
<1>1. PICK after : after = [s.answers EXCEPT ![a] =
                              [@ EXCEPT !.callContext = "none", !.resultExports = x]]
  BY Zenon
<1>2. PICK u : u = [s EXCEPT !.answers = after, !.callWordsInFlight = (@ - 1) % SizeMod]
  BY Zenon
<1>3. PICK w : w = maybeUnblockFlow(u)
  BY Zenon
<1>4. /\ State(u) /\ u.connected = s.connected /\ u.questions = s.questions
      /\ u.highCounter = s.highCounter /\ u.answers = after
  BY <1>2, Zenon DEF State, Fields
<1>5. /\ State(w) /\ w.connected = u.connected /\ w.questions = u.questions
      /\ w.highCounter = u.highCounter /\ w.answers = u.answers
  BY <1>3, <1>4, Zenon DEF State, Fields, maybeUnblockFlow
<1>6. cleanupAnswerTable(s, a, x, FALSE) = w
  BY <1>1, <1>2, <1>3, ZenonT(40) DEF cleanupAnswerTable
<1>7. PICK e : e = [s.answers[a] EXCEPT !.callContext = "none", !.resultExports = x]
  BY Zenon
<1>8. /\ DOMAIN e = AnswerFields /\ e.call = s.answers[a].call /\ e.callContext = "none"
      /\ ~e.onlyPromisePipeline
  BY <1>7, Zenon DEF Entries, AnswerFields
<1>9. Set(s.answers, after, a, e)
  BY <1>1, <1>7, ZenonT(40) DEF Set
<1>10. Kept(s.answers, after, a)
  BY <1>8, <1>9, Zenon DEF Kept
<1> QED BY <1>4, <1>5, <1>6, <1>10, Zenon DEF Tidied

\* A call that runs sends its Return.
LEMMA RespondInv ==
  ASSUME IdInv, NEW v \in Vats, NEW a \in DOMAIN conn[v].answers, NEW s, State(s), NEW m,
         conn[v].answers[a].callContext # "none", ~conn[v].answers[a].onlyPromisePipeline,
         Does(v, s, <<m>>), UNCHANGED asked,
         s.connected = conn[v].connected, s.questions = conn[v].questions,
         s.highCounter = conn[v].highCounter,
         m.type = "return", m.id = a, m.call = conn[v].answers[a].call,
         Responded(conn[v].answers, s.answers, a, m)
  PROVE  IdInv'
<1>1. PICK p, ans : p = Peer(v) /\ ans = conn[v].answers
  BY Zenon
<1>2. Become(v, s, <<m>>, chan[v])
  BY Zenon DEF Does
<1>3. asked' \in [Vats -> Nat] /\ asked'[p] = asked[p] /\ asked'[v] = asked[v]
  BY Zenon DEF IdInv, Shapes
<1>4. ASSUME Connected, Halves
      PROVE  /\ Half(s.questions, conn[p].answers, chan[p] \o <<m>> \o <<>>, chan[v],
                     asked'[v], s.highCounter)
             /\ Half(conn[p].questions, s.answers, chan[v], chan[p] \o <<m>> \o <<>>,
                     asked[p], conn[p].highCounter)
             /\ LowIds(s.questions, asked'[v])
             /\ Wire(chan[v]) /\ Wire(chan[p] \o <<m>> \o <<>>)
  <2>1. /\ Half(s.questions, conn[p].answers, chan[p], chan[v], asked[v], s.highCounter)
        /\ Half(conn[p].questions, ans, chan[v], chan[p], asked[p], conn[p].highCounter)
        /\ LowIds(s.questions, asked[v])
        /\ Wire(chan[v]) /\ Wire(chan[p])
    BY <1>1, <1>4, TwoHalves, Zenon
  <2>2. PICK out : out = chan[p] \o <<m>> \o <<>>
    BY Zenon
  <2>3. KnownCalls(conn[p].questions, ans, asked[p])
    BY <2>1, Zenon DEF Half
  <2>4. MessageOK(m) /\ ~Asks(m) /\ m.type # "finish"
    BY <1>1, <2>3, ZenonT(40) DEF MessageOK, KnownCalls, Asks, Types
  <2>5. Wire(out) /\ Longer(chan[p], out, m)
    BY <2>1, <2>2, <2>4, WireSend, Zenon
  <2>6. Half(s.questions, conn[p].answers, out, chan[v], asked[v], s.highCounter)
    BY <2>1, <2>4, <2>5, SayHalf, Zenon
  <2>7. /\ a \in DOMAIN ans /\ ans[a].callContext # "none" /\ ~ans[a].onlyPromisePipeline
        /\ m.call = ans[a].call
    BY <1>1, Zenon
  <2>8. Half(conn[p].questions, s.answers, chan[v], out, asked[p], conn[p].highCounter)
    <3>1. CASE Removed(ans, s.answers, a)
      BY <2>1, <2>5, <2>7, <3>1, LastHalf, ZenonT(40)
    <3>2. ASSUME NEW e, Set(ans, s.answers, a, e), ans[a].callContext = "running",
                 e.call = ans[a].call, e.callContext = "none", ~e.onlyPromisePipeline,
                 ~m.noFinishNeeded
          PROVE  Half(conn[p].questions, s.answers, chan[v], out, asked[p], conn[p].highCounter)
      BY <2>1, <2>5, <2>7, <3>2, AnswerHalf, ZenonT(40)
    <3> QED BY <1>1, <3>1, <3>2, Zenon DEF Responded, Kept
  <2> QED BY <1>3, <2>1, <2>2, <2>5, <2>6, <2>8, ZenonT(40)
<1>5. Tables(s)
  <2>1. Entries(ans, AnswerFields) /\ Entries(s.questions, QuestionFields)
    BY <1>1, Zenon DEF Tables, IdInv, Shapes
  <2>2. Entries(s.answers, AnswerFields)
    <3>1. CASE Removed(ans, s.answers, a)
      BY <2>1, <3>1, RemovedEntries, Zenon
    <3>2. ASSUME NEW e, Set(ans, s.answers, a, e), DOMAIN e = AnswerFields
          PROVE  Entries(s.answers, AnswerFields)
      BY <2>1, <3>2, SetEntries, ZenonT(40)
    <3> QED BY <1>1, <3>1, <3>2, Zenon DEF Responded, Kept
  <2> QED BY <2>1, <2>2, Zenon DEF Tables
<1>6. Typed(<<m>>) /\ Typed(chan[v])
  BY TypedStep, SMTT(40) DEF Types
<1> QED BY <1>1, <1>2, <1>3, <1>4, <1>5, <1>6, StepInv, ZenonT(40)

\* sendReturn().
LEMMA SendReturnInv ==
  ASSUME IdInv, NEW v \in Vats, NEW a \in DOMAIN conn[v].answers, NEW cap, SendReturn(v, a, cap)
  PROVE  IdInv'
<1>1. PICK c, w, x : /\ c = conn[v] /\ w = writeDescriptor(c, cap)
                     /\ x = ExportsOf(Descriptor(c, cap))
  BY Zenon
<1>2. PICK s, m : /\ s = cleanupAnswerTable(w, a, x, cap = NoCap)
                  /\ m = ReturnMsg(a, c.answers[a].call, "results", Descriptor(c, cap), cap = NoCap)
  BY Zenon
<1>3. Running(v, a) /\ Does(v, s, <<m>>) /\ UNCHANGED asked
  BY <1>1, <1>2, Zenon DEF SendReturn
<1>4. State(c) /\ Entries(c.answers, AnswerFields)
  BY <1>1, Zenon DEF IdInv, Shapes, Tables
<1>5. Core(c, w)
  BY <1>1, <1>4, WriteCore, Zenon
<1>6. /\ m.type = "return" /\ m.id = a /\ m.call = c.answers[a].call
      /\ m.noFinishNeeded <=> cap = NoCap
  BY <1>2, Zenon DEF ReturnMsg
<1>7. /\ c.answers[a].callContext = "running" /\ ~c.answers[a].onlyPromisePipeline
      /\ c.answers[a].callContext # "none"
  BY <1>1, <1>3, Zenon DEF Running
<1>8. State(w) /\ w.answers = c.answers /\ a \in DOMAIN w.answers
  BY <1>1, <1>5, Zenon DEF Core
<1>9. Tidied(w, s) /\ Responded(c.answers, s.answers, a, m)
  <2>1. CASE cap = NoCap
    <3>1. s = cleanupAnswerTable(w, a, x, TRUE)
      BY <1>2, <2>1, Zenon
    <3> QED BY <1>8, <3>1, CleanupErases, Zenon DEF Responded
  <2>2. CASE cap # NoCap
    <3>1. s = cleanupAnswerTable(w, a, x, FALSE)
      BY <1>2, <2>2, Zenon
    <3>2. Tidied(w, s) /\ Kept(w.answers, s.answers, a)
      BY <1>4, <1>7, <1>8, <3>1, CleanupKeeps, ZenonT(40)
    <3> QED BY <1>6, <1>7, <1>8, <2>2, <3>2, ZenonT(40) DEF Responded
  <2> QED BY <2>1, <2>2, Zenon
<1>10. /\ State(s) /\ s.connected = c.connected /\ s.questions = c.questions
       /\ s.highCounter = c.highCounter
  BY <1>5, <1>9, Zenon DEF Core, Tidied
<1> QED BY <1>1, <1>3, <1>6, <1>7, <1>9, <1>10, RespondInv, ZenonT(40)

\* sendErrorReturn().
LEMMA SendErrorReturnInv ==
  ASSUME IdInv, NEW v \in Vats, NEW a \in DOMAIN conn[v].answers, SendErrorReturn(v, a)
  PROVE  IdInv'
<1>1. PICK c : c = conn[v]
  BY Zenon
<1>2. PICK s, m : /\ s = cleanupAnswerTable(c, a, {}, FALSE)
                  /\ m = ReturnMsg(a, c.answers[a].call, "exception", NoCap, FALSE)
  BY Zenon
<1>3. Running(v, a) /\ Does(v, s, <<m>>) /\ UNCHANGED asked
  BY <1>1, <1>2, Zenon DEF SendErrorReturn
<1>4. State(c) /\ Entries(c.answers, AnswerFields) /\ a \in DOMAIN c.answers
  BY <1>1, Zenon DEF IdInv, Shapes, Tables
<1>5. m.type = "return" /\ m.id = a /\ m.call = c.answers[a].call /\ ~m.noFinishNeeded
  BY <1>2, Zenon DEF ReturnMsg
<1>6. /\ c.answers[a].callContext = "running" /\ ~c.answers[a].onlyPromisePipeline
      /\ c.answers[a].callContext # "none"
  BY <1>1, <1>3, Zenon DEF Running
<1>7. Tidied(c, s) /\ Kept(c.answers, s.answers, a)
  BY <1>2, <1>4, <1>6, CleanupKeeps, ZenonT(40)
<1>8. Responded(c.answers, s.answers, a, m)
  BY <1>5, <1>6, <1>7, Zenon DEF Responded
<1> QED BY <1>1, <1>3, <1>5, <1>6, <1>7, <1>8, RespondInv, ZenonT(40) DEF Tidied

\* sendReturn() whose send threw cleans up twice.
LEMMA SendReturnThrowsInv ==
  ASSUME IdInv, NEW v \in Vats, NEW a \in DOMAIN conn[v].answers, NEW cap,
         SendReturnThrows(v, a, cap)
  PROVE  IdInv'
<1>1. PICK c, w : c = conn[v] /\ w = writeDescriptor(c, cap)
  BY Zenon
<1>2. PICK u : u = cleanupAnswerTable(w, a, {}, cap = NoCap)
  BY Zenon
<1>3. PICK s, m : /\ s = cleanupAnswerTable(u, a, {}, cap = NoCap)
                  /\ m = ReturnMsg(a, w.answers[a].call, "exception", NoCap, FALSE)
  BY Zenon
<1>4. Running(v, a) /\ Does(v, s, <<m>>) /\ UNCHANGED asked
  BY <1>1, <1>2, <1>3, Zenon DEF SendReturnThrows
<1>5. State(c) /\ Entries(c.answers, AnswerFields)
  BY <1>1, Zenon DEF IdInv, Shapes, Tables
<1>6. Core(c, w)
  BY <1>1, <1>5, WriteCore, Zenon
<1>7. State(w) /\ w.answers = c.answers /\ a \in DOMAIN w.answers
  BY <1>1, <1>6, Zenon DEF Core
<1>8. m.type = "return" /\ m.id = a /\ m.call = c.answers[a].call /\ ~m.noFinishNeeded
  BY <1>3, <1>7, Zenon DEF ReturnMsg
<1>9. /\ c.answers[a].callContext = "running" /\ ~c.answers[a].onlyPromisePipeline
      /\ c.answers[a].callContext # "none"
  BY <1>1, <1>4, Zenon DEF Running
<1>10. Tidied(w, u) /\ Tidied(u, s) /\ Responded(c.answers, s.answers, a, m)
  <2>1. CASE cap = NoCap
    <3>1. u = cleanupAnswerTable(w, a, {}, TRUE) /\ s = cleanupAnswerTable(u, a, {}, TRUE)
      BY <1>2, <1>3, <2>1, Zenon
    <3>2. Tidied(w, u) /\ Removed(c.answers, u.answers, a)
      BY <1>7, <3>1, CleanupErases, Zenon
    <3>3. Tidied(u, s) /\ Removed(u.answers, s.answers, a)
      BY <3>1, <3>2, CleanupErases, ZenonT(40) DEF Tidied
    <3>4. Removed(c.answers, s.answers, a)
      BY <3>2, <3>3, Zenon DEF Removed
    <3> QED BY <3>2, <3>3, <3>4, Zenon DEF Responded
  <2>2. CASE cap # NoCap
    <3>1. u = cleanupAnswerTable(w, a, {}, FALSE) /\ s = cleanupAnswerTable(u, a, {}, FALSE)
      BY <1>2, <1>3, <2>2, Zenon
    <3>2. Tidied(w, u) /\ Kept(c.answers, u.answers, a)
      BY <1>5, <1>7, <1>9, <3>1, CleanupKeeps, ZenonT(40)
    <3>3. PICK e : /\ Set(c.answers, u.answers, a, e) /\ DOMAIN e = AnswerFields
                   /\ e.call = c.answers[a].call /\ ~e.onlyPromisePipeline
      BY <3>2, Zenon DEF Kept
    <3>4. a \in DOMAIN u.answers /\ u.answers[a] = e
      BY <3>3, Zenon DEF Set
    <3>5. Entries(u.answers, AnswerFields)
      BY <1>5, <3>3, SetEntries, Zenon
    <3>6. Tidied(u, s) /\ Kept(u.answers, s.answers, a)
      BY <3>1, <3>2, <3>3, <3>4, <3>5, CleanupKeeps, ZenonT(40) DEF Tidied
    <3>7. PICK f : /\ Set(u.answers, s.answers, a, f) /\ DOMAIN f = AnswerFields
                   /\ f.call = e.call /\ f.callContext = "none" /\ ~f.onlyPromisePipeline
      BY <3>4, <3>6, Zenon DEF Kept
    <3>8. Set(c.answers, s.answers, a, f)
      BY <3>3, <3>7, Zenon DEF Set
    <3>9. Kept(c.answers, s.answers, a)
      BY <3>3, <3>7, <3>8, Zenon DEF Kept
    <3> QED BY <1>8, <1>9, <3>2, <3>6, <3>9, ZenonT(40) DEF Responded
  <2> QED BY <2>1, <2>2, Zenon
<1>11. /\ State(s) /\ s.connected = c.connected /\ s.questions = c.questions
       /\ s.highCounter = c.highCounter
  BY <1>6, <1>10, Zenon DEF Core, Tidied
<1> QED BY <1>1, <1>4, <1>8, <1>9, <1>10, <1>11, RespondInv, ZenonT(40)

\* ~RpcCallContext() of a cancelled call.
LEMMA DestroyContextInv ==
  ASSUME IdInv, NEW v \in Vats, NEW a \in DOMAIN conn[v].answers, DestroyContext(v, a)
  PROVE  IdInv'
<1>1. PICK c, p : c = conn[v] /\ p = Peer(v)
  BY Zenon
<1>2. PICK s, m : /\ s = cleanupAnswerTable(c, a, {}, TRUE)
                  /\ m = ReturnMsg(a, c.answers[a].call, "canceled", NoCap, FALSE)
  BY Zenon
<1>3. /\ c.answers[a].callContext = "finished" /\ UNCHANGED asked
      /\ Does(v, s, IF c.connected /\ ~c.answers[a].onlyPromisePipeline THEN <<m>> ELSE <<>>)
  BY <1>1, <1>2, Zenon DEF DestroyContext
<1>4. State(c) /\ Entries(c.answers, AnswerFields) /\ Entries(c.questions, QuestionFields)
  BY <1>1, Zenon DEF IdInv, Shapes, Tables
<1>5. Tidied(c, s) /\ Removed(c.answers, s.answers, a)
  BY <1>2, <1>4, CleanupErases, Zenon
<1>6. /\ State(s) /\ s.connected = c.connected /\ s.questions = c.questions
      /\ s.highCounter = c.highCounter
  BY <1>5, Zenon DEF Tidied
<1>7. CASE c.connected /\ ~c.answers[a].onlyPromisePipeline
  <2>1. m.type = "return" /\ m.id = a /\ m.call = c.answers[a].call
    BY <1>2, Zenon DEF ReturnMsg
  <2>2. Responded(c.answers, s.answers, a, m) /\ c.answers[a].callContext # "none"
    BY <1>3, <1>5, Zenon DEF Responded
  <2>3. Does(v, s, <<m>>)
    BY <1>3, <1>7, Zenon
  <2> QED BY <1>1, <1>3, <1>6, <1>7, <2>1, <2>2, <2>3, RespondInv, ZenonT(40)
<1>8. CASE ~(c.connected /\ ~c.answers[a].onlyPromisePipeline)
  <2>1. Become(v, s, <<>>, chan[v])
    BY <1>3, <1>8, Zenon DEF Does
  <2>2. asked' \in [Vats -> Nat] /\ asked'[p] = asked[p] /\ asked'[v] = asked[v]
    BY <1>3, Zenon DEF IdInv, Shapes
  <2>3. Tables(s)
    BY <1>4, <1>5, <1>6, RemovedEntries, Zenon DEF Tables
  <2>4. ASSUME Connected, Halves
        PROVE  /\ Half(s.questions, conn[p].answers, chan[p] \o <<>> \o <<>>, chan[v],
                       asked'[v], s.highCounter)
               /\ Half(conn[p].questions, s.answers, chan[v], chan[p] \o <<>> \o <<>>,
                       asked[p], conn[p].highCounter)
               /\ LowIds(s.questions, asked'[v])
               /\ Wire(chan[v]) /\ Wire(chan[p] \o <<>> \o <<>>)
    <3>1. /\ Half(s.questions, conn[p].answers, chan[p], chan[v], asked[v], s.highCounter)
          /\ Half(conn[p].questions, c.answers, chan[v], chan[p], asked[p], conn[p].highCounter)
          /\ LowIds(s.questions, asked[v])
          /\ Wire(chan[v]) /\ Wire(chan[p])
      BY <1>1, <1>6, <2>4, TwoHalves, Zenon
    <3>2. chan[p] \o <<>> \o <<>> = chan[p]
      BY <3>1, WireSilence, Zenon
    <3>3. Half(conn[p].questions, s.answers, chan[v], chan[p], asked[p], conn[p].highCounter)
      BY <1>5, <3>1, GoneHalf, Zenon
    <3> QED BY <2>2, <3>1, <3>2, <3>3, Zenon
  <2>5. Typed(<<>>) /\ Typed(chan[v])
    BY TypedStreams, Zenon DEF IdInv, Shapes
  <2> QED BY <1>1, <1>6, <2>1, <2>2, <2>3, <2>4, <2>5, StepInv, ZenonT(40)
<1> QED BY <1>7, <1>8, Zenon

-----------------------------------------------------------------------------
(* The message loop.                                                       *)

\* A vat has handled a message, is left in state u and has sent msgs.
LEMMA HeardInv ==
  ASSUME IdInv, NEW v \in Vats, NEW p, p = Peer(v), chan[v] # <<>>,
         NEW u, State(u), Tables(u), u.connected = conn[v].connected, NEW msgs, Typed(msgs),
         Become(v, checkIfBecameIdle(u), msgs, Tail(chan[v])), UNCHANGED asked,
         Connected /\ Halves /\ ~u.failed =>
           /\ Half(u.questions, conn[p].answers, chan[p] \o msgs \o <<>>, Tail(chan[v]),
                   asked[v], u.highCounter)
           /\ Half(conn[p].questions, u.answers, Tail(chan[v]), chan[p] \o msgs \o <<>>,
                   asked[p], conn[p].highCounter)
           /\ LowIds(u.questions, asked[v])
           /\ Wire(chan[p] \o msgs \o <<>>)
  PROVE  IdInv'
<1>1. PICK s, in2 : s = checkIfBecameIdle(u) /\ in2 = Tail(chan[v])
  BY Zenon
<1>2. /\ State(s) /\ s.connected = u.connected /\ s.questions = u.questions
      /\ s.answers = u.answers /\ s.highCounter = u.highCounter
  BY <1>1, CheckCore, Zenon DEF Core
<1>3. s.failed = u.failed
  BY <1>1, Zenon DEF checkIfBecameIdle, State, Fields
<1>4. Tables(s)
  BY <1>2, Zenon DEF Tables
<1>5. asked' \in [Vats -> Nat] /\ asked'[p] = asked[p] /\ asked'[v] = asked[v]
  BY Zenon DEF IdInv, Shapes
<1>6. Typed(chan[v])
  BY Zenon DEF IdInv, Shapes
<1>7. /\ Stream(in2) /\ Shorter(chan[v], in2)
  BY <1>1, <1>6, ReceiveShortens, Zenon DEF Typed
<1>8. Typed(in2)
  <2>1. ASSUME NEW i \in DOMAIN in2 PROVE i + 1 \in DOMAIN chan[v] /\ in2[i] = chan[v][i + 1]
    BY <1>7, SMTT(40) DEF Shorter
  <2> QED BY <1>6, <1>7, <2>1, ZenonT(40) DEF Typed
<1>9. ASSUME Connected, Halves PROVE Wire(in2)
  <2>1. Wire(chan[v])
    BY <1>9, Zenon DEF Halves
  <2> QED BY <1>1, <2>1, WireTail, Zenon
<1>10. Become(v, s, msgs, in2)
  BY <1>1, Zenon
<1>11. s.connected => conn[v].connected
  BY <1>2, Zenon
<1>12. ASSUME Connected, Halves, ~s.failed
       PROVE  /\ Half(s.questions, conn[p].answers, chan[p] \o msgs \o <<>>, in2,
                      asked'[v], s.highCounter)
              /\ Half(conn[p].questions, s.answers, in2, chan[p] \o msgs \o <<>>,
                      asked[p], conn[p].highCounter)
              /\ LowIds(s.questions, asked'[v])
              /\ Wire(in2) /\ Wire(chan[p] \o msgs \o <<>>)
  BY <1>1, <1>2, <1>3, <1>5, <1>9, <1>12, ZenonT(40)
<1> QED BY <1>2, <1>4, <1>5, <1>8, <1>10, <1>11, <1>12, StepInv, ZenonT(40)

\* The handler sends nothing.
LEMMA HeardQuietInv ==
  ASSUME IdInv, NEW v \in Vats, NEW p, p = Peer(v), chan[v] # <<>>,
         NEW u, State(u), Tables(u), u.connected = conn[v].connected,
         Become(v, checkIfBecameIdle(u), <<>>, Tail(chan[v])), UNCHANGED asked,
         Connected /\ Halves /\ ~u.failed =>
           /\ Half(u.questions, conn[p].answers, chan[p], Tail(chan[v]), asked[v], u.highCounter)
           /\ Half(conn[p].questions, u.answers, Tail(chan[v]), chan[p],
                   asked[p], conn[p].highCounter)
           /\ LowIds(u.questions, asked[v])
  PROVE  IdInv'
<1>1. Typed(<<>>)
  BY TypedStreams, Zenon
<1>2. ASSUME Connected, Halves
      PROVE  chan[p] \o <<>> \o <<>> = chan[p] /\ Wire(chan[p])
  <2>1. Wire(chan[p])
    BY <1>2, TwoHalves, Zenon
  <2> QED BY <2>1, WireSilence, Zenon
<1> QED BY <1>1, <1>2, HeardInv, ZenonT(40)

\* The halves before, the message and what is left of the stream.
LEMMA Hearing ==
  ASSUME Halves, NEW v \in Vats, NEW p, p = Peer(v), chan[v] # <<>>
  PROVE  /\ Half(conn[v].questions, conn[p].answers, chan[p], chan[v], asked[v], conn[v].highCounter)
         /\ Half(conn[p].questions, conn[v].answers, chan[v], chan[p], asked[p], conn[p].highCounter)
         /\ LowIds(conn[v].questions, asked[v])
         /\ Shorter(chan[v], Tail(chan[v])) /\ Head(chan[v]) = chan[v][1] /\ MessageOK(chan[v][1])
<1>1. /\ Half(conn[v].questions, conn[p].answers, chan[p], chan[v], asked[v], conn[v].highCounter)
      /\ Half(conn[p].questions, conn[v].answers, chan[v], chan[p], asked[p], conn[p].highCounter)
      /\ LowIds(conn[v].questions, asked[v])
      /\ Wire(chan[v]) /\ Wire(chan[p])
  BY TwoHalves, Zenon
<1> QED BY <1>1, WireTail, Zenon

\* A message that has nothing to do with questions: Release.
LEMMA HearOtherInv ==
  ASSUME IdInv, NEW v \in Vats, chan[v] # <<>>, NEW m, m = Head(chan[v]),
         ~Asks(m), m.type # "finish", NEW u, Core(conn[v], u),
         Become(v, checkIfBecameIdle(u), <<>>, Tail(chan[v])), UNCHANGED asked
  PROVE  IdInv'
<1>1. PICK p, c : p = Peer(v) /\ c = conn[v]
  BY Zenon
<1>2. /\ State(u) /\ u.connected = c.connected /\ u.questions = c.questions
      /\ u.answers = c.answers /\ u.highCounter = c.highCounter
  BY <1>1, Zenon DEF Core
<1>3. Tables(u)
  BY <1>1, <1>2, Zenon DEF Tables, IdInv, Shapes
<1>4. ASSUME Connected, Halves
      PROVE  /\ Half(u.questions, conn[p].answers, chan[p], Tail(chan[v]), asked[v], u.highCounter)
             /\ Half(conn[p].questions, u.answers, Tail(chan[v]), chan[p],
                     asked[p], conn[p].highCounter)
             /\ LowIds(u.questions, asked[v])
  <2>1. /\ Half(c.questions, conn[p].answers, chan[p], chan[v], asked[v], c.highCounter)
        /\ Half(conn[p].questions, c.answers, chan[v], chan[p], asked[p], conn[p].highCounter)
        /\ LowIds(c.questions, asked[v])
        /\ Shorter(chan[v], Tail(chan[v])) /\ m = chan[v][1]
    BY <1>1, <1>4, Hearing, Zenon
  <2>2. Half(c.questions, conn[p].answers, chan[p], Tail(chan[v]), asked[v], c.highCounter)
    BY <2>1, ReadHalf, Zenon
  <2>3. Half(conn[p].questions, c.answers, Tail(chan[v]), chan[p], asked[p], conn[p].highCounter)
    BY <2>1, HearHalf, Zenon
  <2> QED BY <1>2, <2>1, <2>2, <2>3, Zenon
<1> QED BY <1>1, <1>2, <1>3, <1>4, HeardQuietInv, ZenonT(40)

\* handleReturn().
LEMMA HearReturnInv ==
  ASSUME IdInv, NEW v \in Vats, chan[v] # <<>>, NEW m, m = Head(chan[v]), m.type = "return",
         NEW s, Core(conn[v], s), NEW u, u = handleReturn(s, m),
         Become(v, checkIfBecameIdle(u), <<>>, Tail(chan[v])), UNCHANGED asked
  PROVE  IdInv'
<1>1. PICK p, c, q : p = Peer(v) /\ c = conn[v] /\ q = m.id
  BY Zenon
<1>2. /\ State(s) /\ s.connected = c.connected /\ s.questions = c.questions
      /\ s.answers = c.answers /\ s.highCounter = c.highCounter
  BY <1>1, Zenon DEF Core
<1>3. Entries(c.questions, QuestionFields) /\ Entries(c.answers, AnswerFields)
  BY <1>1, Zenon DEF Tables, IdInv, Shapes
<1>4. ~Asks(m) /\ m.type # "finish" /\ Returns(m, q)
  BY <1>1, Zenon DEF Asks, Returns
<1>5. CASE isHigh(q)
  <2>1. u = s
    BY <1>1, <1>5, Zenon DEF handleReturn
  <2> QED BY <1>4, <2>1, HearOtherInv, Zenon
<1>6. ASSUME u = Fail(s) PROVE IdInv'
  <2>1. Core(s, u) /\ u.failed
    BY <1>2, <1>6, FailCore, SMTT(40) DEF Fail, State, Fields
  <2>2. Core(conn[v], u)
    BY <2>1, CoreTransitive, Zenon
  <2> QED BY <1>4, <2>2, HearOtherInv, ZenonT(40)
<1>7. CASE /\ ~isHigh(q) /\ q \in DOMAIN c.questions /\ c.questions[q].isAwaitingReturn
           /\ ~c.questions[q].selfRef
  <2>1. PICK t : t = [s EXCEPT !.questions = Erase(@, q)]
    BY Zenon
  <2>2. u = checkIfBecameIdle(t)
    BY <1>1, <1>2, <1>7, <2>1, Zenon DEF handleReturn
  <2>3. /\ State(t) /\ t.connected = c.connected /\ t.questions = Erase(c.questions, q)
        /\ t.answers = c.answers /\ t.highCounter = c.highCounter
    BY <1>2, <2>1, Zenon DEF State, Fields
  <2>4. Core(t, u)
    BY <2>2, <2>3, CheckCore, Zenon
  <2>5. /\ State(u) /\ u.connected = c.connected /\ u.questions = Erase(c.questions, q)
        /\ u.answers = c.answers /\ u.highCounter = c.highCounter
    BY <2>3, <2>4, Zenon DEF Core
  <2>6. Removed(c.questions, u.questions, q)
    BY <2>5, EraseRemoves, Zenon
  <2>7. Tables(u)
    BY <1>3, <2>5, <2>6, RemovedEntries, ZenonT(40) DEF Tables
  <2>8. ASSUME Connected, Halves
        PROVE  /\ Half(u.questions, conn[p].answers, chan[p], Tail(chan[v]), asked[v], u.highCounter)
               /\ Half(conn[p].questions, u.answers, Tail(chan[v]), chan[p],
                       asked[p], conn[p].highCounter)
               /\ LowIds(u.questions, asked[v])
    <3>1. /\ Half(c.questions, conn[p].answers, chan[p], chan[v], asked[v], c.highCounter)
          /\ Half(conn[p].questions, c.answers, chan[v], chan[p], asked[p], conn[p].highCounter)
          /\ LowIds(c.questions, asked[v])
          /\ Shorter(chan[v], Tail(chan[v])) /\ m = chan[v][1]
      BY <1>1, <2>8, Hearing, Zenon
    <3>2. Half(u.questions, conn[p].answers, chan[p], Tail(chan[v]), asked[v], c.highCounter)
      BY <1>4, <1>7, <2>6, <3>1, ReturnedHalf, ZenonT(40)
    <3>3. Half(conn[p].questions, c.answers, Tail(chan[v]), chan[p], asked[p], conn[p].highCounter)
      BY <1>4, <3>1, HearHalf, Zenon
    <3>4. LowIds(u.questions, asked[v])
      BY <2>6, <3>1, Zenon DEF LowIds, Removed
    <3> QED BY <2>5, <3>2, <3>3, <3>4, ZenonT(40)
  <2> QED BY <1>1, <2>5, <2>7, <2>8, HeardQuietInv, ZenonT(40)
<1>8. CASE /\ ~isHigh(q) /\ q \in DOMAIN c.questions /\ c.questions[q].isAwaitingReturn
           /\ c.questions[q].selfRef /\ m.which # "canceled"
  <2>1. PICK t : t = [s EXCEPT !.questions[q] =
                        [@ EXCEPT !.isAwaitingReturn = FALSE, !.skipFinish = m.noFinishNeeded]]
    BY Zenon
  <2>2. u = receiveCap(t, m.cap)
    BY <1>1, <1>2, <1>8, <2>1, Zenon DEF handleReturn
  <2>3. PICK e : e = [c.questions[q] EXCEPT !.isAwaitingReturn = FALSE, !.skipFinish = m.noFinishNeeded]
    BY Zenon
  <2>4. /\ State(t) /\ t.connected = c.connected /\ t.questions = [c.questions EXCEPT ![q] = e]
        /\ t.answers = c.answers /\ t.highCounter = c.highCounter
    BY <1>2, <2>1, <2>3, ZenonT(40) DEF State, Fields
  <2>5. Core(t, u)
    BY <2>2, <2>4, ReceiveCore, SMTT(40)
  <2>6. /\ State(u) /\ u.connected = c.connected /\ u.questions = [c.questions EXCEPT ![q] = e]
        /\ u.answers = c.answers /\ u.highCounter = c.highCounter
    BY <2>4, <2>5, Zenon DEF Core
  <2>7. Set(c.questions, u.questions, q, e)
    BY <1>8, <2>6, Zenon DEF Set
  <2>8. /\ DOMAIN e = QuestionFields /\ e.call = c.questions[q].call /\ ~e.isAwaitingReturn
        /\ e.selfRef /\ e.skipFinish = m.noFinishNeeded
    BY <1>3, <1>8, <2>3, Zenon DEF Entries, QuestionFields
  <2>9. Tables(u)
    BY <1>3, <2>6, <2>7, <2>8, SetEntries, ZenonT(40) DEF Tables
  <2>10. ASSUME Connected, Halves
         PROVE  /\ Half(u.questions, conn[p].answers, chan[p], Tail(chan[v]), asked[v], u.highCounter)
                /\ Half(conn[p].questions, u.answers, Tail(chan[v]), chan[p],
                        asked[p], conn[p].highCounter)
                /\ LowIds(u.questions, asked[v])
    <3>1. /\ Half(c.questions, conn[p].answers, chan[p], chan[v], asked[v], c.highCounter)
          /\ Half(conn[p].questions, c.answers, chan[v], chan[p], asked[p], conn[p].highCounter)
          /\ LowIds(c.questions, asked[v])
          /\ Shorter(chan[v], Tail(chan[v])) /\ m = chan[v][1]
      BY <1>1, <2>10, Hearing, Zenon
    <3>2. Half(u.questions, conn[p].answers, chan[p], Tail(chan[v]), asked[v], c.highCounter)
      BY <1>4, <1>8, <2>7, <2>8, <3>1, ReturnHalf, ZenonT(40)
    <3>3. Half(conn[p].questions, c.answers, Tail(chan[v]), chan[p], asked[p], conn[p].highCounter)
      BY <1>4, <3>1, HearHalf, Zenon
    <3>4. \A x \in DOMAIN u.questions : x \in DOMAIN c.questions
      BY <1>8, <2>7, Zenon DEF Set
    <3>5. LowIds(u.questions, asked[v])
      BY <3>1, <3>4, Zenon DEF LowIds
    <3> QED BY <2>6, <3>2, <3>3, <3>5, ZenonT(40)
  <2> QED BY <1>1, <2>6, <2>9, <2>10, HeardQuietInv, ZenonT(40)
<1>9. \/ isHigh(q) \/ u = Fail(s)
      \/ /\ ~isHigh(q) /\ q \in DOMAIN c.questions /\ c.questions[q].isAwaitingReturn
         /\ ~c.questions[q].selfRef \/ m.which # "canceled"
  BY <1>1, <1>2, Zenon DEF handleReturn
<1> QED BY <1>5, <1>6, <1>7, <1>8, <1>9, ZenonT(40)

\* An answer has changed, or is new or gone.
LEMMA HeardAnswerInv ==
  ASSUME IdInv, NEW v \in Vats, NEW p, p = Peer(v), chan[v] # <<>>, NEW m, m = Head(chan[v]),
         m.type # "return",
         NEW u, State(u), Entries(u.answers, AnswerFields),
         u.connected = conn[v].connected, u.questions = conn[v].questions,
         u.highCounter = conn[v].highCounter,
         Become(v, checkIfBecameIdle(u), <<>>, Tail(chan[v])), UNCHANGED asked,
         Connected /\ Halves /\ ~u.failed =>
           Half(conn[p].questions, u.answers, Tail(chan[v]), chan[p], asked[p], conn[p].highCounter)
  PROVE  IdInv'
<1>1. Tables(u)
  BY Zenon DEF Tables, IdInv, Shapes
<1>2. ASSUME Connected, Halves
      PROVE  /\ Half(u.questions, conn[p].answers, chan[p], Tail(chan[v]), asked[v], u.highCounter)
             /\ LowIds(u.questions, asked[v])
  <2>1. /\ Half(u.questions, conn[p].answers, chan[p], chan[v], asked[v], u.highCounter)
        /\ LowIds(u.questions, asked[v])
        /\ Shorter(chan[v], Tail(chan[v]))
    BY <1>2, Hearing, Zenon
  <2>2. Half(u.questions, conn[p].answers, chan[p], Tail(chan[v]), asked[v], u.highCounter)
    BY <2>1, ReadHalf, Zenon
  <2> QED BY <2>1, <2>2, Zenon
<1> QED BY <1>1, <1>2, HeardQuietInv, ZenonT(40)

\* handleFinish().
LEMMA HearFinishInv ==
  ASSUME IdInv, NEW v \in Vats, chan[v] # <<>>, NEW m, m = Head(chan[v]), m.type = "finish",
         NEW s, Core(conn[v], s), NEW u, u = handleFinish(s, m),
         Become(v, checkIfBecameIdle(u), <<>>, Tail(chan[v])), UNCHANGED asked
  PROVE  IdInv'
<1>1. PICK p, c, q : p = Peer(v) /\ c = conn[v] /\ q = m.id
  BY Zenon
<1>2. /\ State(s) /\ s.connected = c.connected /\ s.questions = c.questions
      /\ s.answers = c.answers /\ s.highCounter = c.highCounter
  BY <1>1, Zenon DEF Core
<1>3. Entries(c.answers, AnswerFields)
  BY <1>1, Zenon DEF Tables, IdInv, Shapes
<1>4. ASSUME Connected, Halves
      PROVE  /\ Half(conn[p].questions, c.answers, chan[v], chan[p], asked[p], conn[p].highCounter)
             /\ Shorter(chan[v], Tail(chan[v])) /\ m = chan[v][1]
             /\ m.call \in Nat /\ q \in Nat
  <2>1. /\ Half(conn[p].questions, c.answers, chan[v], chan[p], asked[p], conn[p].highCounter)
        /\ Shorter(chan[v], Tail(chan[v])) /\ m = chan[v][1] /\ MessageOK(m)
    BY <1>1, <1>4, Hearing, Zenon
  <2> QED BY <1>1, <2>1, Zenon DEF MessageOK
<1>5. CASE q \notin DOMAIN c.answers
  <2>1. u = s
    BY <1>1, <1>2, <1>5, Zenon DEF handleFinish
  <2>2. Removed(c.answers, c.answers, q)
    BY <1>5, Zenon DEF Removed
  <2>3. ASSUME Connected, Halves
        PROVE  Half(conn[p].questions, c.answers, Tail(chan[v]), chan[p], asked[p], conn[p].highCounter)
    BY <1>1, <1>4, <2>2, <2>3, HearFinishHalf, ZenonT(40)
  <2>4. m.type # "return"
    BY Zenon
  <2> QED BY <1>1, <1>2, <1>3, <2>1, <2>3, <2>4, HeardAnswerInv, ZenonT(40)
<1>6. CASE q \in DOMAIN c.answers /\ c.answers[q].callContext # "none"
  <2>1. u = [s EXCEPT !.answers[q].callContext = "finished"]
    BY <1>1, <1>2, <1>6, Zenon DEF handleFinish
  <2>2. PICK e : e = [c.answers[q] EXCEPT !.callContext = "finished"]
    BY Zenon
  <2>3. /\ State(u) /\ u.connected = c.connected /\ u.questions = c.questions
        /\ u.answers = [c.answers EXCEPT ![q] = e] /\ u.highCounter = c.highCounter
    BY <1>2, <2>1, <2>2, SMTT(40) DEF State, Fields
  <2>4. Set(c.answers, u.answers, q, e)
    BY <1>6, <2>3, Zenon DEF Set
  <2>5. /\ DOMAIN e = AnswerFields /\ e.call = c.answers[q].call /\ e.callContext = "finished"
        /\ e.onlyPromisePipeline <=> c.answers[q].onlyPromisePipeline
    BY <1>3, <1>6, <2>2, Zenon DEF Entries, AnswerFields
  <2>6. Entries(u.answers, AnswerFields)
    BY <1>3, <2>4, <2>5, SetEntries, Zenon
  <2>7. ASSUME Connected, Halves
        PROVE  Half(conn[p].questions, u.answers, Tail(chan[v]), chan[p], asked[p], conn[p].highCounter)
    BY <1>1, <1>4, <1>6, <2>4, <2>5, <2>7, HearCancelHalf, ZenonT(40)
  <2>8. m.type # "return"
    BY Zenon
  <2> QED BY <1>1, <2>3, <2>6, <2>7, <2>8, HeardAnswerInv, ZenonT(40)
<1>7. CASE q \in DOMAIN c.answers /\ c.answers[q].callContext = "none"
  <2>1. PICK t, ids : /\ t = [s EXCEPT !.answers = Erase(@, q)]
                      /\ ids = IF m.releaseResultCaps THEN c.answers[q].resultExports ELSE {}
    BY Zenon
  <2>2. PICK w : w = checkIfBecameIdle(t)
    BY Zenon
  <2>3. u = releaseExports(w, ids)
    BY <1>1, <1>2, <1>7, <2>1, <2>2, ZenonT(40) DEF handleFinish
  <2>4. /\ State(t) /\ t.connected = c.connected /\ t.questions = c.questions
        /\ t.answers = Erase(c.answers, q) /\ t.highCounter = c.highCounter
    BY <1>2, <2>1, Zenon DEF State, Fields
  <2>5. Core(t, w)
    BY <2>2, <2>4, CheckCore, ZenonT(40)
  <2>6. Core(w, u)
    BY <2>3, <2>5, ReleasesCore, SMTT(40) DEF Core
  <2>7. /\ State(u) /\ u.connected = c.connected /\ u.questions = c.questions
        /\ u.answers = Erase(c.answers, q) /\ u.highCounter = c.highCounter
    BY <2>4, <2>5, <2>6, ZenonT(40) DEF Core
  <2>8. Removed(c.answers, u.answers, q)
    BY <2>7, EraseRemoves, Zenon
  <2>9. Entries(u.answers, AnswerFields)
    BY <1>3, <2>8, RemovedEntries, Zenon
  <2>10. ASSUME Connected, Halves
         PROVE  Half(conn[p].questions, u.answers, Tail(chan[v]), chan[p], asked[p], conn[p].highCounter)
    BY <1>1, <1>4, <2>8, <2>10, HearFinishHalf, ZenonT(40)
  <2>11. m.type # "return"
    BY Zenon
  <2> QED BY <1>1, <2>7, <2>9, <2>10, <2>11, HeardAnswerInv, ZenonT(40)
<1> QED BY <1>5, <1>6, <1>7, Zenon

\* handleCall().
LEMMA HearCallInv ==
  ASSUME IdInv, NEW v \in Vats, chan[v] # <<>>, NEW m, m = Head(chan[v]), m.type = "call",
         NEW s, Core(conn[v], s), NEW u, u = handleCall(s, m),
         Become(v, checkIfBecameIdle(u), <<>>, Tail(chan[v])), UNCHANGED asked
  PROVE  IdInv'
<1>1. PICK p, c, q : p = Peer(v) /\ c = conn[v] /\ q = m.id
  BY Zenon
<1>2. /\ State(s) /\ s.connected = c.connected /\ s.questions = c.questions
      /\ s.answers = c.answers /\ s.highCounter = c.highCounter
  BY <1>1, Zenon DEF Core
<1>3. Entries(c.answers, AnswerFields)
  BY <1>1, Zenon DEF Tables, IdInv, Shapes
<1>4. m.type # "return"
  BY Zenon
<1>5. CASE u = Fail(s)
  <2>1. Core(s, u) /\ u.failed
    BY <1>2, <1>5, FailCore, SMTT(40) DEF Fail, State, Fields
  <2>2. /\ State(u) /\ u.connected = c.connected /\ u.questions = c.questions
        /\ u.answers = c.answers /\ u.highCounter = c.highCounter
    BY <1>2, <2>1, Zenon DEF Core
  <2> QED BY <1>1, <1>3, <1>4, <2>1, <2>2, HeardAnswerInv, ZenonT(40)
<1>6. CASE u # Fail(s)
  <2>1. PICK t, e : /\ t = receiveCap(s, m.cap)
                    /\ e = NewAnswer(m.call, "running", m.onlyPromisePipeline, {})
    BY Zenon
  <2>2. /\ q \notin DOMAIN c.answers
        /\ u = [t EXCEPT !.answers = Put(@, q, e), !.callWordsInFlight = (@ + 1) % SizeMod]
    BY <1>1, <1>2, <1>6, <2>1, Zenon DEF handleCall
  <2>3. Core(s, t)
    BY <1>2, <2>1, ReceiveCore, Zenon
  <2>4. /\ State(t) /\ t.connected = c.connected /\ t.questions = c.questions
        /\ t.answers = c.answers /\ t.highCounter = c.highCounter
    BY <1>2, <2>3, Zenon DEF Core
  <2>5. /\ State(u) /\ u.connected = c.connected /\ u.questions = c.questions
        /\ u.answers = Put(c.answers, q, e) /\ u.highCounter = c.highCounter
    BY <2>2, <2>4, ZenonT(40) DEF State, Fields
  <2>6. Set(c.answers, u.answers, q, e)
    BY <2>5, PutSets, Zenon
  <2>7. /\ DOMAIN e = AnswerFields /\ e.call = m.call /\ e.callContext = "running"
        /\ e.onlyPromisePipeline <=> ~Wants(m)
    BY <2>1, Zenon DEF NewAnswer, AnswerFields, Wants
  <2>8. Entries(u.answers, AnswerFields)
    BY <1>3, <2>6, <2>7, SetEntries, ZenonT(40)
  <2>9. ASSUME Connected, Halves
        PROVE  Half(conn[p].questions, u.answers, Tail(chan[v]), chan[p], asked[p], conn[p].highCounter)
    <3>1. /\ Half(conn[p].questions, c.answers, chan[v], chan[p], asked[p], conn[p].highCounter)
          /\ Shorter(chan[v], Tail(chan[v])) /\ m = chan[v][1] /\ MessageOK(m)
      BY <1>1, <2>9, Hearing, Zenon
    <3>2. Asks(m) /\ m.call \in Nat /\ q \in Nat
      BY <1>1, <3>1, Zenon DEF MessageOK, Asks
    <3>3. PICK out : out = chan[v]
      BY Zenon
    <3>4. /\ Asks(out[1]) /\ out[1].id = q /\ out[1].call \in Nat /\ e.call = out[1].call
          /\ e.onlyPromisePipeline <=> ~Wants(out[1])
      BY <1>1, <2>7, <3>1, <3>2, <3>3, Zenon
    <3> QED BY <2>2, <2>6, <2>7, <3>1, <3>2, <3>3, <3>4, HearAskHalf, ZenonT(40)
  <2> QED BY <1>1, <1>4, <2>5, <2>8, <2>9, HeardAnswerInv, ZenonT(40)
<1> QED BY <1>5, <1>6, Zenon

\* handleBootstrap(), which returns at once.
LEMMA HearBootstrapInv ==
  ASSUME IdInv, NEW v \in Vats, chan[v] # <<>>, NEW m, m = Head(chan[v]), m.type = "bootstrap",
         NEW s, Core(conn[v], s), NEW u, u = handleBootstrap(s, m),
         Become(v, checkIfBecameIdle(u),
                IF ~u.failed THEN <<BootstrapReturn(s, m)>> ELSE <<>>, Tail(chan[v])),
         UNCHANGED asked
  PROVE  IdInv'
<1>1. PICK p, c, q : p = Peer(v) /\ c = conn[v] /\ q = m.id
  BY Zenon
<1>2. /\ State(s) /\ s.connected = c.connected /\ s.questions = c.questions
      /\ s.answers = c.answers /\ s.highCounter = c.highCounter
  BY <1>1, Zenon DEF Core
<1>3. Entries(c.answers, AnswerFields) /\ Entries(c.questions, QuestionFields)
  BY <1>1, Zenon DEF Tables, IdInv, Shapes
<1>4. m.type # "return"
  BY Zenon
<1>5. CASE u = Fail(s)
  <2>1. Core(s, u) /\ u.failed
    BY <1>2, <1>5, FailCore, SMTT(40) DEF Fail, State, Fields
  <2>2. /\ State(u) /\ u.connected = c.connected /\ u.questions = c.questions
        /\ u.answers = c.answers /\ u.highCounter = c.highCounter
    BY <1>2, <2>1, Zenon DEF Core
  <2>3. Become(v, checkIfBecameIdle(u), <<>>, Tail(chan[v]))
    BY <2>1, Zenon
  <2> QED BY <1>1, <1>3, <1>4, <2>1, <2>2, <2>3, HeardAnswerInv, ZenonT(40)
<1>6. CASE u # Fail(s)
  <2>1. PICK t, e : /\ t = writeDescriptor(s, Local(Main))
                    /\ e = NewAnswer(m.call, "none", FALSE, ExportsOf(Descriptor(s, Local(Main))))
    BY Zenon
  <2>2. q \notin DOMAIN c.answers /\ u = [t EXCEPT !.answers = Put(@, q, e)]
    BY <1>1, <1>2, <1>6, <2>1, ZenonT(40) DEF handleBootstrap
  <2>3. Core(s, t)
    BY <1>2, <2>1, WriteCore, Zenon
  <2>4. /\ State(t) /\ t.connected = c.connected /\ t.questions = c.questions
        /\ t.answers = c.answers /\ t.highCounter = c.highCounter
    BY <1>2, <2>3, Zenon DEF Core
  <2>5. /\ State(u) /\ u.connected = c.connected /\ u.questions = c.questions
        /\ u.answers = Put(c.answers, q, e) /\ u.highCounter = c.highCounter
    BY <2>2, <2>4, ZenonT(40) DEF State, Fields
  <2>6. Set(c.answers, u.answers, q, e)
    BY <2>5, PutSets, Zenon
  <2>7. /\ DOMAIN e = AnswerFields /\ e.call = m.call /\ e.callContext = "none"
        /\ ~e.onlyPromisePipeline
    BY <2>1, Zenon DEF NewAnswer, AnswerFields
  <2>8. Entries(u.answers, AnswerFields)
    BY <1>3, <2>6, <2>7, SetEntries, Zenon
  <2>9. CASE u.failed
    <3>1. Become(v, checkIfBecameIdle(u), <<>>, Tail(chan[v]))
      BY <2>9, Zenon
    <3> QED BY <1>1, <1>4, <2>5, <2>8, <2>9, <3>1, HeardAnswerInv, ZenonT(40)
  <2>10. CASE ~u.failed
    <3>1. PICK r : r = BootstrapReturn(s, m)
      BY Zenon
    <3>2. /\ r.type = "return" /\ r.id = q /\ r.call = m.call /\ ~r.noFinishNeeded
          /\ ~Asks(r) /\ r.type # "finish"
      BY <1>1, <3>1, Zenon DEF BootstrapReturn, ReturnMsg, Asks
    <3>3. Become(v, checkIfBecameIdle(u), <<r>>, Tail(chan[v]))
      BY <2>10, <3>1, Zenon
    <3>4. r.type \in Types
      BY <3>2, Zenon DEF Types
    <3>5. Typed(<<r>>)
      BY <3>4, TypedStep, Zenon
    <3>6. ASSUME Connected, Halves
          PROVE  /\ Half(u.questions, conn[p].answers, chan[p] \o <<r>> \o <<>>, Tail(chan[v]),
                         asked[v], u.highCounter)
                 /\ Half(conn[p].questions, u.answers, Tail(chan[v]), chan[p] \o <<r>> \o <<>>,
                         asked[p], conn[p].highCounter)
                 /\ LowIds(u.questions, asked[v])
                 /\ Wire(chan[p] \o <<r>> \o <<>>)
      <4>1. /\ Half(c.questions, conn[p].answers, chan[p], chan[v], asked[v], c.highCounter)
            /\ Half(conn[p].questions, c.answers, chan[v], chan[p], asked[p], conn[p].highCounter)
            /\ LowIds(c.questions, asked[v])
            /\ Shorter(chan[v], Tail(chan[v])) /\ m = chan[v][1] /\ MessageOK(m)
        BY <1>1, <3>6, Hearing, Zenon
      <4>2. Asks(m) /\ Wants(m) /\ m.call \in Nat /\ q \in Nat
        BY <1>1, <4>1, Zenon DEF MessageOK, Asks, Wants
      <4>3. PICK out : out = chan[p] \o <<r>> \o <<>>
        BY Zenon
      <4>4. Wire(chan[p])
        BY <1>1, <3>6, TwoHalves, Zenon
      <4>5. MessageOK(r)
        BY <3>2, <3>4, <4>2, ZenonT(40) DEF MessageOK
      <4>6. Wire(out) /\ Longer(chan[p], out, r)
        BY <4>3, <4>4, <4>5, WireSend, ZenonT(40)
      <4>7. Half(c.questions, conn[p].answers, out, Tail(chan[v]), asked[v], c.highCounter)
        <5>1. Half(c.questions, conn[p].answers, chan[p], Tail(chan[v]), asked[v], c.highCounter)
          BY <4>1, ReadHalf, Zenon
        <5> QED BY <3>2, <4>6, <5>1, SayHalf, ZenonT(40)
      <4>8. Half(conn[p].questions, u.answers, Tail(chan[v]), out, asked[p], conn[p].highCounter)
        <5>1. PICK e1, ans1 : /\ e1 = NewAnswer(m.call, "running", FALSE, {})
                              /\ ans1 = Put(c.answers, q, e1)
          BY Zenon
        <5>2. /\ e1.call = m.call /\ e1.callContext = "running" /\ ~e1.onlyPromisePipeline
          BY <5>1, Zenon DEF NewAnswer
        <5>3. Set(c.answers, ans1, q, e1)
          BY <5>1, PutSets, Zenon
        <5>4. Half(conn[p].questions, ans1, Tail(chan[v]), chan[p], asked[p], conn[p].highCounter)
          <6>1. PICK in2 : in2 = chan[v]
            BY Zenon
          <6>2. /\ Asks(in2[1]) /\ in2[1].id = q /\ in2[1].call \in Nat /\ e1.call = in2[1].call
                /\ e1.onlyPromisePipeline <=> ~Wants(in2[1])
            BY <1>1, <4>1, <4>2, <5>2, <6>1, ZenonT(40)
          <6> QED BY <2>2, <4>1, <4>2, <5>2, <5>3, <6>1, <6>2, HearAskHalf, ZenonT(40)
        <5>5. q \in DOMAIN ans1 /\ ans1[q] = e1 /\ Set(ans1, u.answers, q, e)
          BY <2>6, <5>3, Zenon DEF Set
        <5> QED BY <2>7, <3>2, <4>6, <5>2, <5>4, <5>5, AnswerHalf, ZenonT(40)
      <4> QED BY <2>5, <4>1, <4>3, <4>6, <4>7, <4>8, ZenonT(40)
    <3>7. Tables(u)
      BY <1>3, <2>5, <2>8, ZenonT(40) DEF Tables
    <3> QED BY <1>1, <2>5, <3>3, <3>5, <3>6, <3>7, HeardInv, ZenonT(40)
  <2> QED BY <2>9, <2>10, Zenon
<1> QED BY <1>5, <1>6, Zenon

\* A vat leaves: there are no halves any more, and its streams keep their types.
LEMMA LeaveInv ==
  ASSUME IdInv, NEW v \in Vats, NEW t, State(t), Tables(t), ~t.connected,
         conn' = [conn EXCEPT ![v] = t],
         DOMAIN chan' = Vats, \A u \in Vats : Typed(chan'[u]), UNCHANGED asked
  PROVE  IdInv'
<1>1. DOMAIN conn' = Vats /\ conn'[v] = t /\ \A u \in Vats : u # v => conn'[u] = conn[u]
  BY Zenon DEF IdInv, Shapes
<1>2. ~Connected'
  BY <1>1, Zenon DEF Connected
<1>3. \A u \in Vats : State(conn'[u]) /\ Tables(conn'[u])
  BY <1>1, Zenon DEF IdInv, Shapes
<1>4. Shapes'
  BY <1>1, <1>3, Zenon DEF IdInv, Shapes
<1> QED BY <1>2, <1>4, Zenon DEF IdInv

\* A vat says farewell.
LEMMA EndInv ==
  ASSUME IdInv, NEW v \in Vats, NEW s, State(s), Tables(s), ~s.connected, NEW msgs, Typed(msgs),
         NEW input, Typed(input), Become(v, s, msgs, input), UNCHANGED asked
  PROVE  IdInv'
<1>1. conn' = [conn EXCEPT ![v] = s]
  BY Zenon DEF Become
<1>2. /\ DOMAIN chan' = Vats /\ chan'[v] = input
      /\ \A u \in Vats : u # v => chan'[u] = chan[u] \o msgs \o <<>>
  BY Zenon DEF Become
<1>3. ASSUME NEW u \in Vats PROVE Typed(chan[u] \o msgs \o <<>>)
  BY TypedStreams, Zenon DEF IdInv, Shapes
<1>4. \A u \in Vats : Typed(chan'[u])
  BY <1>2, <1>3, Zenon
<1> QED BY <1>1, <1>2, <1>4, LeaveInv, ZenonT(40)

\* One turn of messageLoop().
LEMMA ReceiveInv == ASSUME IdInv, NEW v \in Vats, Receive(v) PROVE IdInv'
<1>1. PICK m, s : m = Head(chan[v]) /\ s = [conn[v] EXCEPT !.idle = FALSE]
  BY Zenon
<1>2. PICK u : u = handleMessage(s, m)
  BY Zenon
<1>3. State(conn[v]) /\ Tables(conn[v]) /\ Typed(chan[v])
  BY Zenon DEF IdInv, Shapes
<1>4. Core(conn[v], s) /\ State(s) /\ Tables(s)
  BY <1>1, <1>3, Zenon DEF Core, State, Fields, Tables
<1>5. chan[v] # <<>> /\ UNCHANGED asked
  BY Zenon DEF Receive
<1>6. Stream(Tail(chan[v])) /\ Shorter(chan[v], Tail(chan[v])) /\ m = chan[v][1] /\ 1 \in DOMAIN chan[v]
  BY <1>1, <1>3, <1>5, ReceiveShortens, ZenonT(40) DEF Typed, Stream
<1>7. m.type \in Types
  BY <1>3, <1>6, Zenon DEF Typed
<1>8. CASE m.type = "abort"
  <2>1. Become(v, disconnect(s), Farewell(s), Tail(chan[v]))
    BY <1>1, <1>8, Zenon DEF Receive
  <2>2. State(disconnect(s)) /\ Tables(disconnect(s)) /\ ~disconnect(s).connected
    BY <1>4, DisconnectEnds, Zenon
  <2>3. Typed(Tail(chan[v]))
    <3>1. PICK in2 : in2 = Tail(chan[v])
      BY Zenon
    <3>2. ASSUME NEW i \in DOMAIN in2 PROVE i + 1 \in DOMAIN chan[v] /\ in2[i] = chan[v][i + 1]
      BY <1>6, <3>1, SMTT(40) DEF Shorter
    <3> QED BY <1>3, <1>6, <3>1, <3>2, Zenon DEF Typed
  <2> QED BY <1>5, <2>1, <2>2, <2>3, TypedFarewell, EndInv, ZenonT(40)
<1>9. CASE m.type # "abort"
  <2>1. PICK t : t = checkIfBecameIdle(u)
    BY Zenon
  <2>2. Become(v, t, IF m.type = "bootstrap" /\ ~t.failed THEN <<BootstrapReturn(s, m)>> ELSE <<>>,
               Tail(chan[v]))
    BY <1>1, <1>2, <1>9, <2>1, ZenonT(40) DEF Receive
  <2>3. CASE m.type = "bootstrap"
    <3>1. u = handleBootstrap(s, m)
      BY <1>2, <2>3, Zenon DEF handleMessage
    <3>2. Core(s, writeDescriptor(s, Local(Main))) /\ Core(s, Fail(s))
      BY <1>4, WriteCore, FailCore, Zenon
    <3>3. State(u)
      <4>1. \/ u = Fail(s)
            \/ \E t2, a : t2 = writeDescriptor(s, Local(Main)) /\ u = [t2 EXCEPT !.answers = a]
        BY <3>1, Zenon DEF handleBootstrap
      <4> QED BY <3>2, <4>1, Zenon DEF Core, State, Fields
    <3>4. t.failed = u.failed
      BY <2>1, <3>3, Zenon DEF checkIfBecameIdle, State, Fields
    <3>5. Become(v, checkIfBecameIdle(u),
                 IF ~u.failed THEN <<BootstrapReturn(s, m)>> ELSE <<>>, Tail(chan[v]))
      BY <2>1, <2>2, <2>3, <3>4, ZenonT(40)
    <3> QED BY <1>1, <1>4, <1>5, <2>3, <3>1, <3>5, HearBootstrapInv, ZenonT(40)
  <2>4. ASSUME m.type # "bootstrap"
        PROVE  Become(v, checkIfBecameIdle(u), <<>>, Tail(chan[v]))
    BY <2>1, <2>2, <2>4, Zenon
  <2>5. CASE m.type = "call"
    <3>1. u = handleCall(s, m) /\ m.type # "bootstrap"
      BY <1>2, <2>5, Zenon DEF handleMessage
    <3> QED BY <1>1, <1>4, <1>5, <2>4, <2>5, <3>1, HearCallInv, ZenonT(40)
  <2>6. CASE m.type = "return"
    <3>1. u = handleReturn(s, m) /\ m.type # "bootstrap"
      BY <1>2, <2>6, Zenon DEF handleMessage
    <3> QED BY <1>1, <1>4, <1>5, <2>4, <2>6, <3>1, HearReturnInv, ZenonT(40)
  <2>7. CASE m.type = "finish"
    <3>1. u = handleFinish(s, m) /\ m.type # "bootstrap"
      BY <1>2, <2>7, Zenon DEF handleMessage
    <3> QED BY <1>1, <1>4, <1>5, <2>4, <2>7, <3>1, HearFinishInv, ZenonT(40)
  <2>8. CASE m.type = "release"
    <3>1. u = releaseExport(s, m.id, m.referenceCount) /\ m.type # "bootstrap"
          /\ ~Asks(m) /\ m.type # "finish"
      BY <1>2, <2>8, Zenon DEF handleMessage, Asks
    <3>2. Core(conn[v], u)
      BY <1>4, <3>1, ReleaseCore, CoreTransitive, ZenonT(40)
    <3> QED BY <1>1, <1>5, <2>4, <3>1, <3>2, HearOtherInv, ZenonT(40)
  <2> QED BY <1>7, <1>9, <2>3, <2>5, <2>6, <2>7, <2>8, ZenonT(40) DEF Types
<1> QED BY <1>8, <1>9, Zenon

\* The loop goes to sleep.
LEMMA BlockFlowInv == ASSUME IdInv, NEW v \in Vats, BlockFlow(v) PROVE IdInv'
<1>1. PICK s : s = [conn[v] EXCEPT !.flowWaiter = TRUE]
  BY Zenon
<1>2. State(conn[v])
  BY Zenon DEF IdInv, Shapes
<1>3. /\ State(s) /\ s.connected = conn[v].connected /\ s.questions = conn[v].questions
      /\ s.answers = conn[v].answers /\ s.highCounter = conn[v].highCounter
  BY <1>1, <1>2, Zenon DEF State, Fields
<1>4. Does(v, s, <<>>) /\ UNCHANGED asked
  BY <1>1, Zenon DEF BlockFlow
<1> QED BY <1>3, <1>4, SameInv, Zenon

\* The stream ends.
LEMMA EndOfStreamInv == ASSUME IdInv, NEW v \in Vats, EndOfStream(v) PROVE IdInv'
<1>1. PICK c, s : c = conn[v] /\ s = [c EXCEPT !.connected = FALSE]
  BY Zenon
<1>2. State(c) /\ Tables(c) /\ Typed(chan[v])
  BY <1>1, Zenon DEF IdInv, Shapes
<1>3. State(s) /\ Tables(s) /\ ~s.connected
  BY <1>1, <1>2, Zenon DEF State, Fields, Tables
<1>4. State(disconnect(c)) /\ Tables(disconnect(c)) /\ ~disconnect(c).connected
  BY <1>2, DisconnectEnds, Zenon
<1>5. Typed(<<>>) /\ Typed(Farewell(c))
  BY TypedStreams, TypedFarewell, Zenon
<1>6. \/ Become(v, s, <<>>, chan[v])
      \/ Become(v, disconnect(c), Farewell(c), chan[v])
  BY <1>1, Zenon DEF EndOfStream, Does
<1>7. UNCHANGED asked
  BY Zenon DEF EndOfStream
<1>8. ASSUME Become(v, s, <<>>, chan[v]) PROVE IdInv'
  BY <1>2, <1>3, <1>5, <1>7, <1>8, EndInv, ZenonT(40)
<1>9. ASSUME Become(v, disconnect(c), Farewell(c), chan[v]) PROVE IdInv'
  BY <1>2, <1>4, <1>5, <1>7, <1>9, EndInv, ZenonT(40)
<1> QED BY <1>6, <1>8, <1>9, Zenon

\* The transport fails.
LEMMA BreakInv == ASSUME IdInv, NEW v \in Vats, Break(v) PROVE IdInv'
<1>1. PICK c, sent : c = conn[v] /\ sent = chan[Peer(v)] \o Farewell(c)
  BY Zenon
<1>2. PICK n \in 0 .. Len(sent) : chan' = [chan EXCEPT ![Peer(v)] = SubSeq(sent, 1, n)]
  BY <1>1, Zenon DEF Break
<1>3. conn' = [conn EXCEPT ![v] = disconnect(c)] /\ UNCHANGED asked
  BY <1>1, Zenon DEF Break
<1>4. Peer(v) \in Vats
  BY Peers, Zenon
<1>5. State(c) /\ Tables(c) /\ Typed(chan[Peer(v)]) /\ DOMAIN chan = Vats
      /\ \A u \in Vats : Typed(chan[u])
  BY <1>1, <1>4, Zenon DEF IdInv, Shapes
<1>6. State(disconnect(c)) /\ Tables(disconnect(c)) /\ ~disconnect(c).connected
  BY <1>5, DisconnectEnds, Zenon
<1>7. Typed(sent)
  BY <1>1, <1>5, TypedStreams, TypedFarewell, ZenonT(40)
<1>8. Typed(SubSeq(sent, 1, n))
  <2>1. PICK t : t = SubSeq(sent, 1, n)
    BY Zenon
  <2>2. PICK M : sent \in Seq(M)
    BY <1>7, Zenon DEF Typed, Stream
  <2>3. t \in Seq(M) /\ \A i \in DOMAIN t : i \in DOMAIN sent /\ t[i] = sent[i]
    BY <1>2, <2>1, <2>2, SMTT(40)
  <2> QED BY <1>7, <2>1, <2>3, Zenon DEF Typed, Stream
<1>9. DOMAIN chan' = Vats /\ \A u \in Vats : Typed(chan'[u])
  BY <1>2, <1>4, <1>5, <1>8, Zenon
<1> QED BY <1>3, <1>6, <1>9, LeaveInv, Zenon

-----------------------------------------------------------------------------
(* The ids are right in every state.                                       *)

\* A new connection has asked nothing.
LEMMA InitInv == ASSUME Init PROVE IdInv
<1>1. State(NewConnection) /\ NewConnection.questions = Empty /\ NewConnection.answers = Empty
      /\ NewConnection.highCounter = 0
  BY Zenon DEF NewConnection, State, Fields
<1>2. DOMAIN Empty = {}
  BY Zenon DEF Empty
<1>3. Tables(NewConnection)
  BY <1>1, <1>2, Zenon DEF Tables, Entries
<1>4. Typed(<<>>)
  BY TypedStreams, Zenon
<1>5. Shapes
  BY <1>1, <1>3, <1>4, Zenon DEF Init, Shapes
<1>6. Stream(<<>>) /\ DOMAIN <<>> = {}
  BY <1>4, SMTT(40) DEF Typed
<1>7. PICK none : none = <<>> /\ DOMAIN none = {}
  BY <1>6, Zenon
<1>8. Half(Empty, Empty, none, none, 0, 0)
  <2>1. KnownCalls(Empty, Empty, 0) /\ MentionsKnown(Empty, none, 0) /\ MentionsInOrder(none)
    BY <1>2, <1>7, Zenon DEF KnownCalls, MentionsKnown, MentionsInOrder
  <2>2. AnswersInTime(Empty, none) /\ FinishDue(Empty, Empty, none)
    BY <1>2, <1>7, Zenon DEF AnswersInTime, FinishDue
  <2>3. HighIds(Empty, Empty, none, 0) /\ ReturnsExpected(Empty, Empty, none)
    BY <1>2, <1>7, Zenon DEF HighIds, ReturnsExpected
  <2>4. RunningExpected(Empty, Empty, none, none) /\ AsksExpected(Empty, none, none)
    BY <1>2, <1>7, Zenon DEF RunningExpected, AsksExpected
  <2>5. FinishSkipped(Empty, Empty)
    BY <1>2, Zenon DEF FinishSkipped
  <2> QED BY <2>1, <2>2, <2>3, <2>4, <2>5, ZenonT(40) DEF Half
<1>9. LowIds(Empty, 0) /\ Wire(none)
  BY <1>2, <1>6, <1>7, Zenon DEF LowIds, Wire
<1>10. ASSUME NEW v \in Vats
       PROVE  /\ conn[v] = NewConnection /\ conn[Peer(v)] = NewConnection
              /\ chan[v] = none /\ chan[Peer(v)] = none /\ asked[v] = 0
  BY <1>7, Peers, Zenon DEF Init
<1>11. Halves
  BY <1>1, <1>8, <1>9, <1>10, ZenonT(40) DEF Halves
<1> QED BY <1>5, <1>11, Zenon DEF IdInv

\* A step of the caller.
LEMMA CallerInv == ASSUME NextIdIsFree, IdInv, NEW v \in Vats, Caller(v) PROVE IdInv'
BY BootstrapInv, SendInv, SendThrowsInv, SendStreamingThrowsInv, SendForPipelineInv,
   SendForPipelineThrowsInv, DropQuestionInv, DropImportInv, ZenonT(40) DEF Caller

\* A step of the callee.
LEMMA CalleeInv == ASSUME IdInv, NEW v \in Vats, Callee(v) PROVE IdInv'
BY SendReturnInv, SendReturnThrowsInv, SendErrorReturnInv, DestroyContextInv, ZenonT(40)
   DEF Callee, Respond

\* A step of the message loop.
LEMMA LoopInv == ASSUME IdInv, NEW v \in Vats, Loop(v) PROVE IdInv'
BY ReceiveInv, BlockFlowInv, EndOfStreamInv, Zenon DEF Loop

\* Every return on its way is awaited, and a mention finds its call or none.
LEMMA HalfNames ==
  ASSUME NEW v \in Vats, Connected, IdInv
  PROVE  /\ \A i \in Sent(v, "return") :
              /\ chan[v][i].id \in DOMAIN conn[v].questions
              /\ conn[v].questions[chan[v][i].id].call = chan[v][i].call
              /\ conn[v].questions[chan[v][i].id].isAwaitingReturn
         /\ chan[v] # <<>> => \A q, n \in Nat : Mentions(Head(chan[v]), q, n) =>
              (q \in DOMAIN conn[v].answers => conn[v].answers[q].call = n)
<1>1. Halves /\ \E p : p = Peer(v)
  BY Zenon DEF IdInv
<1>2. PICK p : p = Peer(v)
  BY <1>1, Zenon
<1>3. /\ Half(conn[v].questions, conn[p].answers, chan[p], chan[v], asked[v], conn[v].highCounter)
      /\ Half(conn[p].questions, conn[v].answers, chan[v], chan[p], asked[p], conn[p].highCounter)
      /\ Wire(chan[v])
  BY <1>1, <1>2, TwoHalves, Zenon
<1>4. ASSUME NEW i \in Sent(v, "return")
      PROVE  /\ chan[v][i].id \in DOMAIN conn[v].questions
             /\ conn[v].questions[chan[v][i].id].call = chan[v][i].call
             /\ conn[v].questions[chan[v][i].id].isAwaitingReturn
  <2>1. i \in DOMAIN chan[v] /\ chan[v][i].type = "return"
    BY Zenon DEF Sent
  <2>2. chan[v][i].id \in Nat
    BY <1>3, <2>1, Zenon DEF Wire, MessageOK
  <2>3. ReturnsExpected(conn[v].questions, conn[p].answers, chan[v])
    BY <1>3, Zenon DEF Half
  <2> QED BY <2>1, <2>2, <2>3, Zenon DEF ReturnsExpected, Returns
<1>5. ASSUME chan[v] # <<>>, NEW q \in Nat, NEW n \in Nat, Mentions(Head(chan[v]), q, n),
             q \in DOMAIN conn[v].answers
      PROVE  conn[v].answers[q].call = n
  <2>1. Head(chan[v]) = chan[v][1] /\ Shorter(chan[v], Tail(chan[v]))
    BY <1>1, <1>2, <1>5, Hearing, ZenonT(40)
  <2>2. 1 \in DOMAIN chan[v] /\ \A i \in DOMAIN chan[v] : ~(i < 1)
    BY <2>1, SMTT(40) DEF Shorter
  <2>3. AnswersInTime(conn[v].answers, chan[v])
        /\ KnownCalls(conn[p].questions, conn[v].answers, asked[p])
    BY <1>3, Zenon DEF Half
  <2>4. /\ conn[v].answers[q].call <= n /\ ~(conn[v].answers[q].call < n)
    BY <1>5, <2>1, <2>2, <2>3, ZenonT(40) DEF AnswersInTime
  <2>5. conn[v].answers[q].call \in Nat
    BY <1>5, <2>3, Zenon DEF KnownCalls
  <2> QED BY <2>4, <2>5, SMTT(40)
<1> QED BY <1>4, <1>5, Zenon

\* So ids name their calls.
LEMMA IdInvNames == ASSUME IdInv PROVE IdsNameTheirCall
<1> SUFFICES ASSUME Connected, NEW v \in Vats
             PROVE  /\ \A i \in Sent(v, "return") :
                         /\ chan[v][i].id \in DOMAIN conn[v].questions
                         /\ conn[v].questions[chan[v][i].id].call = chan[v][i].call
                         /\ conn[v].questions[chan[v][i].id].isAwaitingReturn
                    /\ chan[v] # <<>> =>
                         /\ Head(chan[v]).type = "finish" =>
                              (Head(chan[v]).id \in DOMAIN conn[v].answers =>
                                 conn[v].answers[Head(chan[v]).id].call = Head(chan[v]).call)
                         /\ Head(chan[v]).type = "call" =>
                              (Head(chan[v]).target.kind = "promisedAnswer" =>
                                 (Head(chan[v]).target.id \in DOMAIN conn[v].answers =>
                                    conn[v].answers[Head(chan[v]).target.id].call
                                      = Head(chan[v]).target.call))
  BY Zenon DEF IdsNameTheirCall
<1>1. ASSUME chan[v] # <<>>, NEW m, m = Head(chan[v]) PROVE MessageOK(m)
  BY <1>1, Hearing, Zenon DEF IdInv
<1>2. ASSUME chan[v] # <<>>, NEW m, m = Head(chan[v]), m.type = "finish"
      PROVE  m.id \in DOMAIN conn[v].answers => conn[v].answers[m.id].call = m.call
  <2>1. m.id \in Nat /\ m.call \in Nat /\ Mentions(m, m.id, m.call)
    BY <1>1, <1>2, Zenon DEF MessageOK, Mentions
  <2> QED BY <1>2, <2>1, HalfNames, Zenon
<1>3. ASSUME chan[v] # <<>>, NEW m, m = Head(chan[v]), m.type = "call",
             m.target.kind = "promisedAnswer"
      PROVE  m.target.id \in DOMAIN conn[v].answers =>
               conn[v].answers[m.target.id].call = m.target.call
  <2>1. m.target.id \in Nat /\ m.target.call \in Nat /\ Mentions(m, m.target.id, m.target.call)
    BY <1>1, <1>3, Zenon DEF MessageOK, Mentions
  <2> QED BY <1>3, <2>1, HalfNames, Zenon
<1> QED BY <1>2, <1>3, HalfNames, Zenon

-----------------------------------------------------------------------------
(* Finite sets.                                                            *)

INSTANCE FiniteSetTheorems

\* ExportTable::next() finds a free id that is not above the number of ids in use.
LEMMA NextIdFacts == NextIdIsFree
<1> SUFFICES ASSUME NEW table, NEW n \in Nat, n < HighBit,
                    \A q \in DOMAIN table : q \in Nat /\ (~isHigh(q) => q < n)
             PROVE  /\ NextId(table) \in Nat /\ NextId(table) \notin DOMAIN table
                    /\ NextId(table) <= n
  BY Zenon DEF NextIdIsFree
<1>1. PICK used : used = {id \in DOMAIN table : ~isHigh(id)}
  BY Zenon
<1>2. used \in SUBSET (0 .. n - 1)
  BY <1>1, SMTT(40)
<1>3. IsFiniteSet(used) /\ Cardinality(used) \in Nat /\ Cardinality(used) <= n
  <2>1. IsFiniteSet(0 .. n - 1) /\ Cardinality(0 .. n - 1) = n
    BY FS_Interval, SMTT(40)
  <2>2. IsFiniteSet(used) /\ Cardinality(used) <= Cardinality(0 .. n - 1)
    BY <1>2, <2>1, FS_Subset, ZenonT(40)
  <2> QED BY <2>1, <2>2, FS_CardinalityType, ZenonT(40)
<1>4. PICK m \in Nat : m \notin used /\ \A j \in 0 .. m - 1 : j \in used
  <2>1. PICK S : S = {k \in Nat : k \notin used}
    BY Zenon
  <2>2. S \in SUBSET Nat /\ n \in S
    BY <1>2, <2>1, SMTT(40)
  <2>3. PICK m \in S : \A k \in S : ~(<<k, m>> \in OpToRel(<, Nat))
    BY <2>2, NatLessThanWellFounded, WFMin, ZenonT(40)
  <2>4. m \in Nat /\ m \notin used
    BY <2>1, <2>3, ZenonT(40)
  <2>5. ASSUME NEW j \in 0 .. m - 1 PROVE j \in used
    <3>1. j \in Nat /\ j < m
      BY <2>4, SMTT(40)
    <3>2. j \notin S
      BY <2>3, <2>4, <3>1, ZenonT(40) DEF OpToRel
    <3> QED BY <2>1, <3>1, <3>2, ZenonT(40)
  <2> QED BY <2>4, <2>5, Zenon
<1>5. m <= Cardinality(used)
  <2>1. Cardinality(0 .. m - 1) = m
    BY FS_Interval, SMTT(40)
  <2>2. 0 .. m - 1 \in SUBSET used
    BY <1>4, Zenon
  <2>3. Cardinality(0 .. m - 1) <= Cardinality(used)
    BY <1>3, <2>2, FS_Subset, ZenonT(40)
  <2> QED BY <2>1, <2>3, ZenonT(40)
<1>6. PICK id : id = NextId(table)
  BY Zenon
<1>7. id = CHOOSE k \in 0 .. Cardinality(used) :
             k \notin used /\ \A j \in 0 .. k - 1 : j \in used
  BY <1>1, <1>6, ZenonT(40) DEF NextId
<1>8. m \in 0 .. Cardinality(used)
  BY <1>3, <1>5, SMTT(40)
<1>9. id \in 0 .. Cardinality(used) /\ id \notin used
  BY <1>4, <1>7, <1>8, ZenonT(40)
<1>10. id \in Nat /\ id <= n
  BY <1>3, <1>9, SMTT(40)
<1>11. ~isHigh(id)
  BY <1>10, HighBitAssumption, SMTT(40) DEF isHigh
<1>12. id \notin DOMAIN table
  BY <1>1, <1>9, <1>11, ZenonT(40)
<1> QED BY <1>6, <1>10, <1>12, ZenonT(40)

\* The inductive invariant of the ids: a question, its answer and the messages about
\* them agree on the call they are for, in every state in which both vats are connected.
THEOREM IdInvariant == Spec => []IdInv
<1>1. Init => IdInv
  BY InitInv, Zenon
<1>2. IdInv /\ [Next]_vars => IdInv'
  <2>1. ASSUME IdInv, Next PROVE IdInv'
    BY <2>1, NextIdFacts, CallerInv, CalleeInv, LoopInv, BreakInv, ZenonT(40) DEF Next
  <2>2. ASSUME IdInv, UNCHANGED vars PROVE IdInv'
    <3>1. conn' = conn /\ chan' = chan /\ asked' = asked
      BY <2>2, Zenon DEF vars
    <3>2. Shapes' = Shapes
      BY <3>1, Zenon DEF Shapes
    <3>3. Connected' = Connected /\ Halves' = Halves
      BY <3>1, Zenon DEF Connected, Halves
    <3> QED BY <2>2, <3>2, <3>3, ZenonT(40) DEF IdInv
  <2> QED BY <2>1, <2>2, ZenonT(40)
<1> QED BY <1>1, <1>2, PTL DEF Spec

\* Question ids are reused, yet a Return finds its question waiting, and a Finish or a
\* pipelined call finds the answer of its own call or none (handleReturn(),
\* handleFinish(), getMessageTarget()), for any number of calls.
THEOREM QuestionIdsAreSafe == Spec => []IdsNameTheirCall
<1>1. IdInv => IdsNameTheirCall
  BY IdInvNames, Zenon
<1> QED BY <1>1, IdInvariant, PTL

=============================================================================
