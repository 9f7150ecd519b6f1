-------------------------------- MODULE Rpc --------------------------------
(***************************************************************************)
(* One two-party Cap'n Proto RPC connection: the RpcConnectionState of     *)
(* capnp/rpc.c++ at both ends, and the ordered stream that joins them.     *)
(*                                                                         *)
(* Each end ("vat") keeps the Four Tables.  `questions' and `exports' are  *)
(* indexed by ids the vat chooses, `answers' and `imports' by the ids the  *)
(* peer chose (module ExportTable).                                        *)
(*                                                                         *)
(* The module follows ids and reference counts through Bootstrap,          *)
(* Call, Return, Finish, Release and Abort, with cancellation, sends that  *)
(* throw, calls sent only for their pipeline, the incoming flow limit,     *)
(* idleness and disconnection.  A message carries at most one capability,  *)
(* and capabilities are settled (promises are left to another module).     *)
(*                                                                         *)
(* A call number (`call') and the object behind an id (`obj') ride along   *)
(* in tables and messages.  The program has neither on the wire: they only *)
(* let the properties say which call or object an id was meant for.        *)
(***************************************************************************)
EXTENDS ExportTable, Sequences, FiniteSetsExt

CONSTANTS
  Vats,        \* the two ends of the connection
  Objects,     \* Objects[v]: the local capabilities vat v can pass on
  Main,        \* the one bootstrapFactory hands out, on either side
  MaxCalls,    \* bound: MaxCalls[v] questions asked by vat v
  FlowLimit,   \* setFlowLimit(), in calls: every call counts one word
  Throwing,    \* which sends may throw: "call", "stream", "pipeline", "return"
  Breaks,      \* whether the transport may break
  SizeMod      \* size_t arithmetic is modulo this number

ASSUME RpcAssumption ==
  /\ \E a, b \in Vats : a # b /\ Vats = {a, b}
  /\ \A v \in Vats : IsFiniteSet(Objects[v]) /\ Main \in Objects[v]
  /\ MaxCalls \in [Vats -> Nat]
  /\ FlowLimit \in Nat \ {0} /\ SizeMod \in Nat /\ FlowLimit + 1 < SizeMod
  /\ \A v \in Vats : MaxCalls[v] <= HighBit
  /\ Throwing \subseteq {"call", "stream", "pipeline", "return"}
  /\ Breaks \in BOOLEAN

VARIABLES
  conn,        \* conn[v]: the RpcConnectionState of vat v
  chan,        \* chan[v]: the messages on their way to v, oldest first
  asked        \* asked[v]: how many questions v has asked

vars == <<conn, chan, asked>>

Peer(v) == CHOOSE w \in Vats : w # v

-----------------------------------------------------------------------------
(* The tables' entries, and the ids of calls sent for their pipeline.      *)

(* ExportTable::nextHigh(): the bound on calls keeps it from wrapping.     *)
nextHigh(s) == HighBit + s.highCounter

NewQuestion(call, awaiting) ==
  [call |-> call, isAwaitingReturn |-> awaiting, selfRef |-> TRUE, skipFinish |-> FALSE]

(* callContext "running": the method's promise is answer.task;             *)
(* "finished": the context got finish() and outlives its cancelled task;   *)
(* "none": the Return went out.                                            *)
NewAnswer(call, context, hint, resultExports) ==
  [call |-> call, callContext |-> context, onlyPromisePipeline |-> hint,
   resultExports |-> resultExports]

(* Init.  A fresh connection: `idle' starts out true.                      *)
NewConnection ==
  [connected |-> TRUE, idle |-> TRUE, failed |-> FALSE,
   questions |-> Empty, answers |-> Empty, exports |-> Empty, imports |-> Empty,
   highCounter |-> 0, callWordsInFlight |-> 0, flowWaiter |-> FALSE]

Init ==
  /\ conn = [v \in Vats |-> NewConnection]
  /\ chan = [v \in Vats |-> <<>>]
  /\ asked = [v \in Vats |-> 0]

allTablesEmpty(s) ==
  \A table \in {s.questions, s.answers, s.exports, s.imports} : DOMAIN table = {}

checkIfBecameIdle(s) == IF allTablesEmpty(s) THEN [s EXCEPT !.idle = TRUE] ELSE s

(* A KJ_REQUIRE or KJ_ASSERT of a handler failed.                          *)
Fail(s) == [s EXCEPT !.failed = TRUE]

-----------------------------------------------------------------------------
(* Capabilities.  A vat can pass on a local object or an import.           *)

NoCap == [kind |-> "none", id |-> 0, obj |-> Main]

Local(o) == [kind |-> "local", id |-> 0, obj |-> o]

Imported(s, id) == [kind |-> "import", id |-> id, obj |-> s.imports[id].obj]

Caps(v) ==
  {NoCap} \cup {Local(o) : o \in Objects[v]}
          \cup {Imported(conn[v], id) : id \in DOMAIN conn[v].imports}

(* exportsByCap finds the id under which an object is already exported.    *)
ExportIdFor(s, o) ==
  LET known == {id \in DOMAIN s.exports : s.exports[id].obj = o}
  IN  IF known # {} THEN CHOOSE id \in known : TRUE ELSE NextId(s.exports)

(* What writeDescriptor() puts in the message, ...                         *)
Descriptor(s, cap) ==
  CASE cap.kind = "none" -> NoCap
    [] cap.kind = "import" -> [cap EXCEPT !.kind = "receiverHosted"]
    [] cap.kind = "local" ->
         [kind |-> "senderHosted", id |-> ExportIdFor(s, cap.obj), obj |-> cap.obj]

(* ... the exports it reports, ...                                         *)
ExportsOf(desc) == IF desc.kind = "senderHosted" THEN {desc.id} ELSE {}

(* ... and what it does to the export table.                               *)
writeDescriptor(s, cap) ==
  IF cap.kind # "local" THEN s ELSE
  LET id    == ExportIdFor(s, cap.obj)
      count == IF id \in DOMAIN s.exports THEN s.exports[id].refcount ELSE 0
  IN  [s EXCEPT !.exports = Put(@, id, [refcount |-> count + 1, obj |-> cap.obj])]

(* A cap table entry is received: import() or a lookup in the exports.     *)
receiveCap(s, desc) ==
  IF desc.kind # "senderHosted" THEN s ELSE
  LET count == IF desc.id \in DOMAIN s.imports THEN s.imports[desc.id].remoteRefcount ELSE 0
  IN  [s EXCEPT !.imports = Put(@, desc.id, [remoteRefcount |-> count + 1, obj |-> desc.obj])]

(* Mutant: any Release frees the export, whatever its count.               *)
releaseExport_any(s, id, count) ==
  IF id \notin DOMAIN s.exports THEN Fail(s)
  ELSE checkIfBecameIdle([s EXCEPT !.exports = Erase(@, id)])

(* Release, and the releases handlers do on the peer's behalf.             *)
releaseExport(s, id, count) ==
  IF id \notin DOMAIN s.exports \/ count > s.exports[id].refcount THEN Fail(s)
  ELSE IF count = s.exports[id].refcount
       THEN checkIfBecameIdle([s EXCEPT !.exports = Erase(@, id)])
       ELSE [s EXCEPT !.exports[id].refcount = @ - count]

(* At most one export is released at a time: a message has one cap.        *)
releaseExports(s, ids) ==
  IF ids = {} THEN s ELSE releaseExport(s, CHOOSE id \in ids : TRUE, 1)

-----------------------------------------------------------------------------
(* Messages.                                                               *)

BootstrapMsg(q, n) == [type |-> "bootstrap", id |-> q, call |-> n]
CallMsg(q, n, target, desc, hint) ==
  [type |-> "call", id |-> q, call |-> n, target |-> target, cap |-> desc,
   onlyPromisePipeline |-> hint]
ReturnMsg(a, n, which, desc, noFinish) ==
  [type |-> "return", id |-> a, call |-> n, which |-> which, cap |-> desc,
   noFinishNeeded |-> noFinish]
FinishMsg(q, n, release) ==
  [type |-> "finish", id |-> q, call |-> n, releaseResultCaps |-> release]
ReleaseMsg(id, count) == [type |-> "release", id |-> id, referenceCount |-> count]
AbortMsg == [type |-> "abort", id |-> 0]

(* MessageTarget: an import of the sender, or the result of a question.    *)
ImportedCap(s, id) == [kind |-> "importedCap", id |-> id, obj |-> s.imports[id].obj]
PromisedAnswer(s, q) == [kind |-> "promisedAnswer", id |-> q, call |-> s.questions[q].call]

Targets(s) ==
  {ImportedCap(s, id) : id \in DOMAIN s.imports} \cup
  {PromisedAnswer(s, q) : q \in {i \in DOMAIN s.questions : s.questions[i].selfRef}}

(* disconnect(): questions are rejected, contexts get finish(), exports    *)
(* are dropped; imports go when their clients do.                          *)
disconnect(s) ==
  [s EXCEPT !.connected = FALSE, !.questions = Empty, !.exports = Empty,
            !.answers = [a \in DOMAIN s.answers |->
               [s.answers[a] EXCEPT !.callContext = IF @ = "running" THEN "finished" ELSE @]]]

Farewell(s) == IF s.idle THEN <<>> ELSE <<AbortMsg>>

(* Vat v leaves its handler in state s having sent msgs; a failed handler  *)
(* ends in taskFailed(), which disconnects.  `input' is what is left of    *)
(* the stream towards v.                                                   *)
Become(v, s, msgs, input) ==
  LET broken == s.failed /\ s.connected
  IN  /\ conn' = [conn EXCEPT ![v] = IF broken THEN disconnect(s) ELSE s]
      /\ chan' = [u \in Vats |-> IF u = v THEN input
                   ELSE chan[u] \o msgs \o (IF broken THEN Farewell(s) ELSE <<>>)]

Does(v, s, msgs) == Become(v, s, msgs, chan[v])

-----------------------------------------------------------------------------
(* The caller.                                                             *)

MayAsk(v) == conn[v].connected /\ asked[v] < MaxCalls[v]

Ask(v) == asked' = [asked EXCEPT ![v] = @ + 1]

(* bootstrap(): ask for the peer's main interface.                         *)
Bootstrap(v) ==
  LET s == conn[v]
      q == NextId(s.questions)
  IN  /\ MayAsk(v) /\ Ask(v)
      /\ Does(v, [s EXCEPT !.idle = FALSE,
                           !.questions = Put(@, q, NewQuestion(asked[v], TRUE))],
              <<BootstrapMsg(q, asked[v])>>)

(* setupSend(): describe the parameters, then allocate the question.       *)
setupSend(v, cap) ==
  LET s == writeDescriptor(conn[v], cap)
  IN  [s EXCEPT !.questions = Put(@, NextId(@), NewQuestion(asked[v], TRUE))]

(* RpcRequest::send(): an ordinary call.                                   *)
Send(v, target, cap) ==
  /\ MayAsk(v) /\ Ask(v)
  /\ Does(v, setupSend(v, cap),
          <<CallMsg(NextId(conn[v].questions), asked[v], target, Descriptor(conn[v], cap), FALSE)>>)

(* OutgoingRpcMessage::send() threw: nothing went out, the question is     *)
(* rejected and the parameters' exports are taken back.                    *)
SendThrows(v, cap) ==
  LET s == setupSend(v, cap)
      q == NextId(conn[v].questions)
      t == [s EXCEPT !.questions[q] = [@ EXCEPT !.isAwaitingReturn = FALSE, !.skipFinish = TRUE]]
  IN  /\ "call" \in Throwing
      /\ MayAsk(v) /\ Ask(v)
      /\ Does(v, releaseExports(t, ExportsOf(Descriptor(conn[v], cap))), <<>>)

(* Mutant: a cancelled question leaves the table before its Return is in.  *)
DropQuestionRef_early(s, q) ==
  checkIfBecameIdle([s EXCEPT !.questions = Erase(@, q)])

(* ~QuestionRef(): the last reference to question q goes away.             *)
DropQuestionRef(s, q) ==
  IF s.questions[q].isAwaitingReturn
  THEN [s EXCEPT !.questions[q].selfRef = FALSE]
  ELSE checkIfBecameIdle([s EXCEPT !.questions = Erase(@, q)])

(* sendStreamingInternal(): same, but the exports are not taken back; the  *)
(* only QuestionRef dies with the call.                                    *)
SendStreamingThrows(v, cap) ==
  LET s == setupSend(v, cap)
      q == NextId(conn[v].questions)
      t == [s EXCEPT !.questions[q] = [@ EXCEPT !.isAwaitingReturn = FALSE, !.skipFinish = TRUE]]
  IN  /\ "stream" \in Throwing
      /\ MayAsk(v) /\ Ask(v)
      /\ Does(v, DropQuestionRef(t, q), <<>>)

(* sendForPipeline(): a call under a fresh high id that wants no Return.   *)
SendForPipeline(v, target, cap) ==
  LET s == writeDescriptor(conn[v], cap)
      q == nextHigh(s)
  IN  /\ MayAsk(v) /\ Ask(v)
      /\ Does(v, [s EXCEPT !.questions = Put(@, q, NewQuestion(asked[v], FALSE)),
                           !.highCounter = @ + 1],
              <<CallMsg(q, asked[v], target, Descriptor(conn[v], cap), TRUE)>>)

(* The same when message->send() throws: the scope's failure clause takes  *)
(* the exports back, unwinding drops the QuestionRef.                      *)
SendForPipelineThrows(v, cap) ==
  LET s == writeDescriptor(conn[v], cap)
      t == [s EXCEPT !.highCounter = @ + 1]
  IN  /\ "pipeline" \in Throwing
      /\ MayAsk(v) /\ Ask(v)
      /\ Does(v, checkIfBecameIdle(releaseExports(t, ExportsOf(Descriptor(conn[v], cap)))), <<>>)

(* Mutant: Finish never asks for the result capabilities to be released.   *)
DropQuestion_keepCaps(v, q) ==
  LET s == conn[v]
      question == s.questions[q]
      finish == FinishMsg(q, question.call, FALSE)
  IN  /\ s.questions[q].selfRef
      /\ Does(v, DropQuestionRef(s, q), IF question.skipFinish THEN <<>> ELSE <<finish>>)
      /\ UNCHANGED asked

(* The application drops promise, response and pipeline of question q: a   *)
(* cancellation if the Return is still due.                                *)
DropQuestion(v, q) ==
  LET s == conn[v]
      question == s.questions[q]
      finish == FinishMsg(q, question.call, question.isAwaitingReturn)
  IN  /\ s.questions[q].selfRef
      /\ Does(v, DropQuestionRef(s, q), IF question.skipFinish THEN <<>> ELSE <<finish>>)
      /\ UNCHANGED asked

(* Mutant: dropping the last import does not check for idleness.           *)
DropImport_noCheck(v, id) ==
  LET s == conn[v]
      release == ReleaseMsg(id, s.imports[id].remoteRefcount)
  IN  /\ Does(v, [s EXCEPT !.imports = Erase(@, id)], IF s.connected THEN <<release>> ELSE <<>>)
      /\ UNCHANGED asked

(* ~ImportClient(): the application drops its last reference to import id. *)
DropImport(v, id) ==
  LET s == conn[v]
      release == ReleaseMsg(id, s.imports[id].remoteRefcount)
  IN  /\ Does(v, checkIfBecameIdle([s EXCEPT !.imports = Erase(@, id)]),
              IF s.connected THEN <<release>> ELSE <<>>)
      /\ UNCHANGED asked

-----------------------------------------------------------------------------
(* The callee: RpcCallContext.                                             *)

maybeUnblockFlow(s) ==
  IF s.callWordsInFlight < FlowLimit THEN [s EXCEPT !.flowWaiter = FALSE] ELSE s

(* Mutant: the words of a cancelled call stay in flight.                   *)
cleanupAnswerTable_keepWords(s, a, resultExports, receivedFinish) ==
  IF receivedFinish
  THEN checkIfBecameIdle([s EXCEPT !.answers = Erase(@, a)])
  ELSE maybeUnblockFlow([s EXCEPT
         !.answers[a] = [@ EXCEPT !.callContext = "none", !.resultExports = resultExports],
         !.callWordsInFlight = (@ - 1) % SizeMod])

(* cleanupAnswerTable(): whoever responds first either erases the answer,  *)
(* if its Finish is in already, or leaves it with the exports to Finish.   *)
cleanupAnswerTable(s, a, resultExports, receivedFinish) ==
  LET answers == IF receivedFinish THEN Erase(s.answers, a)
                 ELSE [s.answers EXCEPT ![a] =
                         [@ EXCEPT !.callContext = "none", !.resultExports = resultExports]]
      t == maybeUnblockFlow([s EXCEPT !.answers = answers,
                                      !.callWordsInFlight = (@ - 1) % SizeMod])
  IN  IF receivedFinish THEN checkIfBecameIdle(t) ELSE t

Running(v, a) ==
  /\ conn[v].connected
  /\ conn[v].answers[a].callContext = "running"
  /\ ~conn[v].answers[a].onlyPromisePipeline

(* sendReturn(): the method succeeded.  Without capabilities no Finish is  *)
(* needed, and the answer is forgotten at once.                            *)
SendReturn(v, a, cap) ==
  LET s == conn[v]
      desc == Descriptor(s, cap)
      noFinish == cap = NoCap
  IN  /\ Running(v, a)
      /\ Does(v, cleanupAnswerTable(writeDescriptor(s, cap), a, ExportsOf(desc), noFinish),
              <<ReturnMsg(a, s.answers[a].call, "results", desc, noFinish)>>)
      /\ UNCHANGED asked

(* sendErrorReturn(): the method threw.                                    *)
SendErrorReturn(v, a) ==
  LET s == conn[v]
  IN  /\ Running(v, a)
      /\ Does(v, cleanupAnswerTable(s, a, {}, FALSE),
              <<ReturnMsg(a, s.answers[a].call, "exception", NoCap, FALSE)>>)
      /\ UNCHANGED asked

(* The results' send() threw: an error goes out instead.  Both             *)
(* sendErrorReturn() and sendReturn() clean up the answer table, under the *)
(* receivedFinish that sendReturn() set if there were no capabilities.     *)
SendReturnThrows(v, a, cap) ==
  LET s == writeDescriptor(conn[v], cap)
      noFinish == cap = NoCap
  IN  /\ "return" \in Throwing
      /\ Running(v, a)
      /\ Does(v, cleanupAnswerTable(cleanupAnswerTable(s, a, {}, noFinish), a, {}, noFinish),
              <<ReturnMsg(a, s.answers[a].call, "exception", NoCap, FALSE)>>)
      /\ UNCHANGED asked

(* Mutant: a cancelled call goes away without a Return.                    *)
DestroyContext_silent(v, a) ==
  /\ conn[v].answers[a].callContext = "finished"
  /\ Does(v, cleanupAnswerTable(conn[v], a, {}, TRUE), <<>>)
  /\ UNCHANGED asked

(* ~RpcCallContext() after finish(): the cancelled call's last reference   *)
(* goes away, and the answer with it.                                      *)
DestroyContext(v, a) ==
  LET s == conn[v]
      canceled == ReturnMsg(a, s.answers[a].call, "canceled", NoCap, FALSE)
  IN  /\ s.answers[a].callContext = "finished"
      /\ Does(v, cleanupAnswerTable(s, a, {}, TRUE),
              IF s.connected /\ ~s.answers[a].onlyPromisePipeline THEN <<canceled>> ELSE <<>>)
      /\ UNCHANGED asked

-----------------------------------------------------------------------------
(* Message handlers: the state they leave, and what they send.             *)

(* The bootstrap answer is born returned, with its export.                 *)
handleBootstrap(s, m) ==
  IF m.id \in DOMAIN s.answers THEN Fail(s) ELSE
  LET exported == ExportsOf(Descriptor(s, Local(Main)))
  IN  [writeDescriptor(s, Local(Main)) EXCEPT
         !.answers = Put(@, m.id, NewAnswer(m.call, "none", FALSE, exported))]

BootstrapReturn(s, m) == ReturnMsg(m.id, m.call, "results", Descriptor(s, Local(Main)), FALSE)

(* A call on an export that is gone, or under an id in use, is an error;   *)
(* one on a missing answer is not: it gets a broken pipeline.              *)
handleCall(s, m) ==
  IF \/ m.target.kind = "importedCap" /\ m.target.id \notin DOMAIN s.exports
     \/ m.id \in DOMAIN s.answers
  THEN Fail(s)
  ELSE [receiveCap(s, m.cap) EXCEPT
          !.answers = Put(@, m.id, NewAnswer(m.call, "running", m.onlyPromisePipeline, {})),
          !.callWordsInFlight = (@ + 1) % SizeMod]

(* A Return for a question that was dropped only removes it: its Finish    *)
(* asked the callee to release the results.  One for a high id is ignored. *)
handleReturn(s, m) ==
  IF isHigh(m.id) THEN s
  ELSE IF m.id \notin DOMAIN s.questions THEN Fail(s)
  ELSE IF ~s.questions[m.id].isAwaitingReturn THEN Fail(s)
  ELSE IF ~s.questions[m.id].selfRef
       THEN checkIfBecameIdle([s EXCEPT !.questions = Erase(@, m.id)])
  ELSE IF m.which = "canceled" THEN Fail(s)
  ELSE receiveCap([s EXCEPT !.questions[m.id] =
                     [@ EXCEPT !.isAwaitingReturn = FALSE, !.skipFinish = m.noFinishNeeded]],
                  m.cap)

(* Mutant: Finish erases the answer but releases none of its exports.      *)
handleFinish_noRelease(s, m) ==
  IF m.id \notin DOMAIN s.answers THEN s
  ELSE IF s.answers[m.id].callContext # "none"
       THEN [s EXCEPT !.answers[m.id].callContext = "finished"]
       ELSE checkIfBecameIdle([s EXCEPT !.answers = Erase(@, m.id)])

(* A Finish for an answer already forgotten is ignored.  A call still      *)
(* running is cancelled, and its context will erase the answer.            *)
handleFinish(s, m) ==
  IF m.id \notin DOMAIN s.answers THEN s
  ELSE IF s.answers[m.id].callContext # "none"
       THEN [s EXCEPT !.answers[m.id].callContext = "finished"]
       ELSE releaseExports(checkIfBecameIdle([s EXCEPT !.answers = Erase(@, m.id)]),
                           IF m.releaseResultCaps THEN s.answers[m.id].resultExports ELSE {})

handleMessage(s, m) ==
  CASE m.type = "bootstrap" -> handleBootstrap(s, m)
    [] m.type = "call"      -> handleCall(s, m)
    [] m.type = "return"    -> handleReturn(s, m)
    [] m.type = "finish"    -> handleFinish(s, m)
    [] m.type = "release"   -> releaseExport(s, m.id, m.referenceCount)
    [] m.type = "abort"     -> s

(* messageLoop(), one turn: not while over the flow limit.  An Abort, like *)
(* the end of the stream, disconnects.                                     *)
Listening(v) ==
  /\ conn[v].connected
  /\ ~conn[v].flowWaiter
  /\ conn[v].callWordsInFlight <= FlowLimit

Receive(v) ==
  LET m == Head(chan[v])
      s == [conn[v] EXCEPT !.idle = FALSE]
      t == checkIfBecameIdle(handleMessage(s, m))
  IN  /\ Listening(v)
      /\ chan[v] # <<>>
      /\ IF m.type = "abort"
         THEN Become(v, disconnect(s), Farewell(s), Tail(chan[v]))
         ELSE Become(v, t, IF m.type = "bootstrap" /\ ~t.failed THEN <<BootstrapReturn(s, m)>>
                                                                ELSE <<>>, Tail(chan[v]))
      /\ UNCHANGED asked

(* The loop finds the flow limit exceeded and goes to sleep.               *)
BlockFlow(v) ==
  /\ conn[v].connected
  /\ ~conn[v].flowWaiter
  /\ conn[v].callWordsInFlight > FlowLimit
  /\ Does(v, [conn[v] EXCEPT !.flowWaiter = TRUE], <<>>)
  /\ UNCHANGED asked

(* The stream ends: an idle connection just closes.                        *)
EndOfStream(v) ==
  LET s == conn[v]
  IN  /\ Listening(v)
      /\ chan[v] = <<>> /\ ~conn[Peer(v)].connected
      /\ IF s.idle THEN Does(v, [s EXCEPT !.connected = FALSE], <<>>)
                   ELSE Does(v, disconnect(s), Farewell(s))
      /\ UNCHANGED asked

(* The transport fails under v, and cuts off what it had not delivered.    *)
Break(v) ==
  LET sent == chan[Peer(v)] \o Farewell(conn[v])
  IN  /\ Breaks
      /\ conn[v].connected
      /\ conn' = [conn EXCEPT ![v] = disconnect(@)]
      /\ \E n \in 0 .. Len(sent) : chan' = [chan EXCEPT ![Peer(v)] = SubSeq(sent, 1, n)]
      /\ UNCHANGED asked

-----------------------------------------------------------------------------
Caller(v) ==
  \/ Bootstrap(v)
  \/ \E cap \in Caps(v) :
       \/ \E target \in Targets(conn[v]) :
            \/ Send(v, target, cap)
            \/ SendForPipeline(v, target, cap)
       \/ /\ Targets(conn[v]) # {}
          /\ \/ SendThrows(v, cap)
             \/ SendStreamingThrows(v, cap)
             \/ SendForPipelineThrows(v, cap)
  \/ \E q \in DOMAIN conn[v].questions : DropQuestion(v, q)
  \/ \E id \in DOMAIN conn[v].imports : DropImport(v, id)

Respond(v) ==
  \E a \in DOMAIN conn[v].answers :
    \/ \E cap \in Caps(v) : SendReturn(v, a, cap) \/ SendReturnThrows(v, a, cap)
    \/ SendErrorReturn(v, a)

Callee(v) ==
  \/ Respond(v)
  \/ \E a \in DOMAIN conn[v].answers : DestroyContext(v, a)

Loop(v) == Receive(v) \/ BlockFlow(v) \/ EndOfStream(v)

Next == \E v \in Vats : Caller(v) \/ Callee(v) \/ Loop(v) \/ Break(v)

Spec == Init /\ [][Next]_vars

(* The event loop runs: messages are read in turn, methods complete, and   *)
(* the contexts of cancelled calls are destroyed.  Nothing makes the       *)
(* application drop or call anything.                                      *)
Fairness ==
  \A v \in Vats :
    /\ WF_vars(Loop(v))
    /\ WF_vars(Callee(v))

FairSpec == Spec /\ Fairness

-----------------------------------------------------------------------------
(* Properties.                                                             *)

Connected == \A v \in Vats : conn[v].connected

Sent(v, type) == {i \in DOMAIN chan[v] : chan[v][i].type = type}

(* Type invariant: the tables hold entries of their shapes, and no table   *)
(* entry is dead (an Export with refcount 0, a Question that is null).     *)
TypeOK ==
  /\ asked \in [Vats -> Nat]
  /\ \A v \in Vats :
       /\ \A q \in DOMAIN conn[v].questions :
            LET question == conn[v].questions[q]
            IN  question.isAwaitingReturn \/ question.selfRef
       /\ \A a \in DOMAIN conn[v].answers :
            conn[v].answers[a].callContext \in {"running", "finished", "none"}
       /\ \A id \in DOMAIN conn[v].exports :
            conn[v].exports[id].refcount > 0 /\ conn[v].exports[id].obj \in Objects[v]
       /\ \A id \in DOMAIN conn[v].imports : conn[v].imports[id].remoteRefcount > 0
       /\ conn[v].callWordsInFlight \in 0 .. SizeMod - 1

(* Two ends that both follow rpc.c++ never trip each other's protocol      *)
(* checks: no Return for an unknown or already returned question, no       *)
(* question id still in use, no call on an export that is gone, no Release *)
(* of an unknown export or below zero, no false "canceled".                *)
NoProtocolError == \A v \in Vats : ~conn[v].failed

(* Question ids are reused, yet every Return under way finds the question  *)
(* it answers still waiting, and a Finish or a pipelined call, when it     *)
(* arrives, finds the answer of the call it was sent for, or none.         *)
IdsNameTheirCall ==
  Connected =>
    \A v \in Vats :
      /\ \A i \in Sent(v, "return") :
           LET m == chan[v][i]
           IN  /\ m.id \in DOMAIN conn[v].questions
               /\ conn[v].questions[m.id].call = m.call
               /\ conn[v].questions[m.id].isAwaitingReturn
      /\ chan[v] # <<>> =>
           LET m == Head(chan[v])
               Meant(id, n) == id \in DOMAIN conn[v].answers => conn[v].answers[id].call = n
           IN  /\ m.type = "finish" => Meant(m.id, m.call)
               /\ m.type = "call" =>
                    (m.target.kind = "promisedAnswer" => Meant(m.target.id, m.target.call))

(* Export ids are reused, yet every call target, returned-home capability  *)
(* and import still stands for the object it was made for: the entry of    *)
(* the export table it names is there and holds that object.               *)
IdsNameTheirObject ==
  Connected =>
    \A v \in Vats :
      LET Names(id, o) == id \in DOMAIN conn[v].exports /\ conn[v].exports[id].obj = o
      IN  /\ \A i \in Sent(v, "call") \cup Sent(v, "return") :
               LET cap == chan[v][i].cap
               IN  cap.kind = "receiverHosted" => Names(cap.id, cap.obj)
          /\ \A i \in Sent(v, "call") :
               LET target == chan[v][i].target
               IN  target.kind = "importedCap" => Names(target.id, target.obj)
          /\ \A id \in DOMAIN conn[Peer(v)].imports :
               Names(id, conn[Peer(v)].imports[id].obj)

(* Every count of an export is owed by exactly one party: the peer's       *)
(* import, a Release on its way, a capability on its way in a Call or in a *)
(* Return somebody still waits for, or a Finish on its way that says       *)
(* releaseResultCaps.  So nothing is freed early and nothing leaks.        *)
RefcountsAgree ==
  Connected =>
    \A v \in Vats : \A id \in 0 .. Cardinality(Objects[v]) - 1 :
      LET s == conn[v]
          p == conn[Peer(v)]
          out == chan[Peer(v)]
          Carries(i) == out[i].cap.kind = "senderHosted" /\ out[i].cap.id = id
          released == {i \in Sent(v, "release") : chan[v][i].id = id}
          calls == {i \in Sent(Peer(v), "call") : Carries(i)}
          returns == {i \in Sent(Peer(v), "return") :
                        Carries(i) /\ p.questions[out[i].id].selfRef}
          finishes == {i \in Sent(v, "finish") :
                        /\ chan[v][i].releaseResultCaps
                        /\ chan[v][i].id \in DOMAIN s.answers
                        /\ s.answers[chan[v][i].id].call = chan[v][i].call
                        /\ id \in s.answers[chan[v][i].id].resultExports}
      IN  (IF id \in DOMAIN s.exports THEN s.exports[id].refcount ELSE 0)
            = (IF id \in DOMAIN p.imports THEN p.imports[id].remoteRefcount ELSE 0)
              + MapThenSumSet(LAMBDA i : chan[v][i].referenceCount, released)
              + Cardinality(calls) + Cardinality(returns) + Cardinality(finishes)

(* Between events a connected vat has told its VatNetwork it is idle       *)
(* exactly when the Four Tables are empty, and the message loop is not     *)
(* held up by the flow limit then (the assertion of checkIfBecameIdle()).  *)
IdleIffEmpty ==
  \A v \in Vats : conn[v].connected =>
    /\ conn[v].idle <=> allTablesEmpty(conn[v])
    /\ conn[v].idle => ~conn[v].flowWaiter

(* The flow counter is the number of calls that have not been responded    *)
(* to, however they end: by results, an exception, a cancellation or a     *)
(* disconnect.  A call counts "until the call returns", and no longer.     *)
FlowCounted ==
  \A v \in Vats :
    conn[v].callWordsInFlight =
      Cardinality({a \in DOMAIN conn[v].answers : conn[v].answers[a].callContext # "none"})

(* Every question asked gets its Return, or is rejected by a disconnect,   *)
(* also when it was cancelled.                                             *)
CallsReturn ==
  \A v \in Vats : \A q \in 0 .. MaxCalls[v] - 1 :
    LET Waiting == q \in DOMAIN conn[v].questions /\ conn[v].questions[q].isAwaitingReturn
    IN  Waiting ~> ~Waiting

(* Once the applications have let go of every question and import for      *)
(* good, both ends forget everything and become idle.                      *)
AbandonedIsReclaimed ==
  <>[](\A v \in Vats : /\ DOMAIN conn[v].imports = {}
                       /\ \A q \in DOMAIN conn[v].questions : ~conn[v].questions[q].selfRef)
    => <>[](\A v \in Vats : conn[v].connected => conn[v].idle)

=============================================================================
