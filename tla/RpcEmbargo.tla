----------------------------- MODULE RpcEmbargo -----------------------------
(***************************************************************************)
(* Promises in the RPC system of capnp/rpc.c++: how a promised capability  *)
(* that was passed to the peer is resolved (Resolve), and how calls stay   *)
(* in order while the path to the object gets shorter (Disembargo, the     *)
(* RequireEmbargoWrapper and the rule against the Tribble 4-way race).     *)
(*                                                                         *)
(* Two vats are connected.  Each has promises made by its application      *)
(* (QueuedClient of capnp/capability.c++) and objects; the peer already    *)
(* imports all the promises and the first object.  An application fulfils  *)
(* its promises with anything it holds, and calls through its references.  *)
(*                                                                         *)
(* The continuations of a promise that resolves run depth-first, before    *)
(* any other event, so they belong to the step that resolves it.  A call   *)
(* takes its turns through QueuedClients that have resolved in the step    *)
(* that makes it.  Reference counts are the business of module Rpc: here   *)
(* nothing is released and the connection stays up.                        *)
(***************************************************************************)
EXTENDS Integers, Sequences, FiniteSets, Functions, TLC

CONSTANTS
  Vats,         \* the two ends of the connection
  NumPromises,  \* NumPromises[v]: promises of v's application, all exported
  NumObjects,   \* NumObjects[v]: objects of v; the first one is exported
  MaxCalls,     \* bound: MaxCalls[r] calls through reference r
  MaxPath       \* bound: promises on the way from a reference to its object

(* A reference is a vat and one of its hooks.                              *)
References == DOMAIN MaxCalls

ASSUME EmbargoAssumption ==
  /\ IsFiniteSet(Vats) /\ Cardinality(Vats) = 2
  /\ NumPromises \in [Vats -> Nat]
  /\ NumObjects \in [Vats -> Nat \ {0}]
  /\ MaxCalls \in [References -> Nat]
  /\ MaxPath \in Nat

VARIABLES
  vat,          \* vat[v]: tables, clients and outgoing messages of v
  issued        \* issued[r]: how many calls were made through r

vars == <<vat, issued>>

Peer(v) == CHOOSE w \in Vats : w # v

-----------------------------------------------------------------------------
(* Hooks.  "object": a LocalClient; "queued": a QueuedClient of this vat;  *)
(* "import": an ImportClient; "promise": the PromiseClient that wraps the  *)
(* ImportClient of the same id; "wrapper": a RequireEmbargoWrapper around  *)
(* that ImportClient; "broken": a BrokenClient.                            *)

Hook(type, id) == [type |-> type, id |-> id]

None == Hook("none", 0)
Broken == Hook("broken", 0)

onConnection(h) == h.type \in {"import", "promise", "wrapper"}

NewQueuedClient == [redirect |-> None, calls |-> <<>>]

NewPromiseClient(id) ==
  [cap |-> Hook("import", id), isResolved |-> FALSE, receivedCall |-> FALSE]

Export(hook, resolving) == [clientHook |-> hook, resolveOp |-> resolving, canonical |-> TRUE]

NewVat(v) ==
  [exports      |-> [i \in 1 .. NumPromises[v] |-> Export(Hook("queued", i), TRUE)]
                      \o <<Export(Hook("object", 1), FALSE)>>,
   promises     |-> [i \in 1 .. NumPromises[Peer(v)] |-> NewPromiseClient(i)],
   queued       |-> [i \in 1 .. NumPromises[v] |-> NewQueuedClient],
   embargoes    |-> <<>>,   \* embargo id -> the QueuedClient and what it waits to become
   disembargoes |-> {},     \* echoes still to be sent: id and target
   out          |-> <<>>,   \* messages on their way to the peer
   heard        |-> <<>>,   \* calls that arrived at objects of v
   failed       |-> FALSE]  \* a KJ_REQUIRE or KJ_ASSERT failed

Init ==
  /\ vat = [v \in Vats |-> NewVat(v)]
  /\ issued = [r \in References |-> 0]

Fail(s) == [s EXCEPT !.failed = TRUE]

SendMessage(s, m) == [s EXCEPT !.out = Append(@, m)]

-----------------------------------------------------------------------------
(* Following resolutions.                                                  *)

getResolved(s, h) ==
  CASE h.type = "promise" /\ s.promises[h.id].isResolved -> s.promises[h.id].cap
    [] h.type = "queued" -> s.queued[h.id].redirect
    [] OTHER -> None

(* The for (;;) loops over getResolved().                                  *)
FollowResolved(s, h) ==
  LET hops == Len(s.queued) + Cardinality(DOMAIN s.promises)
      at[n \in 0 .. hops] ==
        IF n = 0 THEN h
        ELSE IF getResolved(s, at[n - 1]) = None THEN at[n - 1]
        ELSE getResolved(s, at[n - 1])
  IN  at[hops]

(* ClientHook::whenResolved() has nothing to wait for.                     *)
FullyResolved(s, h) == FollowResolved(s, h).type \notin {"promise", "queued"}

(* A PromiseClient notes that calls (or descriptors) went its way.         *)
NoteCall(s, id) == [s EXCEPT !.promises[id].receivedCall = TRUE]

CallMessage(id, call) == [type |-> "call", id |-> id, call |-> call]

SendCalls(s, id, calls) ==
  [s EXCEPT !.out = @ \o [i \in DOMAIN calls |-> CallMessage(id, calls[i])]]

(* Calls go to hook h, in order: call() of the hook and of whatever it     *)
(* forwards to.  A BrokenClient rejects them.                              *)
Deliver(s, h, calls) ==
  LET to == FollowResolved(s, h)
  IN  CASE calls = <<>> \/ to.type = "broken" -> s
        [] to.type = "object" ->
             [s EXCEPT !.heard = @ \o [i \in DOMAIN calls |-> [call |-> calls[i], obj |-> to.id]]]
        [] to.type = "queued" -> [s EXCEPT !.queued[to.id].calls = @ \o calls]
        [] to.type \in {"import", "wrapper"} -> SendCalls(s, to.id, calls)
        [] to.type = "promise" -> SendCalls(NoteCall(s, to.id), to.id, calls)

-----------------------------------------------------------------------------
(* Exports.                                                                *)

(* exportsByCap.                                                           *)
ExportsOf(s, h) ==
  {i \in DOMAIN s.exports : s.exports[i].canonical /\ s.exports[i].clientHook = h}

Descriptor(kind, id) == [kind |-> kind, id |-> id]

(* The vat after writing the descriptor of h, the descriptor, and the      *)
(* capability it describes.                                                *)
Written(s, cap, described) == [vat |-> s, cap |-> cap, described |-> described]

writeDescriptor(s, h) ==
  LET inner == FollowResolved(s, h)
      known == ExportsOf(s, inner)
      id    == IF known # {} THEN CHOOSE i \in known : TRUE ELSE Len(s.exports) + 1
      exps  == IF known # {} THEN s.exports ELSE Append(s.exports, Export(inner, inner.type = "queued"))
      kind  == IF exps[id].resolveOp THEN "senderPromise" ELSE "senderHosted"
      import == Hook("import", inner.id)
  IN  CASE inner.type \in {"import", "wrapper"} ->
             Written(s, Descriptor("receiverHosted", inner.id), import)
        [] inner.type = "promise" ->
             Written(NoteCall(s, inner.id), Descriptor("receiverHosted", inner.id), import)
        [] OTHER -> Written([s EXCEPT !.exports = exps], Descriptor(kind, id), inner)

ResolveMessage(id, cap) == [type |-> "resolve", id |-> id, cap |-> cap]

(* The promise exported under id has resolved to h.                        *)
resolveExportedPromise(s, id, h) ==
  LET resolution == FollowResolved(s, h)
      reuse == resolution.type = "queued" /\ ExportsOf(s, resolution) \ {id} = {}
      moved == [s EXCEPT !.exports[id].clientHook = resolution, !.exports[id].canonical = reuse]
      w     == writeDescriptor(moved, resolution)
  IN  CASE resolution = Broken ->
             SendMessage(s, ResolveMessage(id, Descriptor("exception", 0)))
        [] resolution # Broken /\ reuse -> moved
        [] OTHER ->
             SendMessage([w.vat EXCEPT !.exports[id].clientHook = w.described],
                         ResolveMessage(id, w.cap))

(* Mutant: only calls made from now on go to h.                            *)
Settle_keep(s, n, h) ==
  LET redirected == [s EXCEPT !.queued[n].redirect = h]
      waiting    == {i \in ExportsOf(s, Hook("queued", n)) : s.exports[i].resolveOp}
  IN  IF waiting = {} THEN redirected
      ELSE resolveExportedPromise(redirected, CHOOSE i \in waiting : TRUE, h)

(* The promise of QueuedClient n resolves to h: it redirects, forwards the *)
(* calls it queued, and then lets the export that waits for it know.       *)
Settle(s, n, h) ==
  LET redirected == [s EXCEPT !.queued[n] = [redirect |-> h, calls |-> <<>>]]
      forwarded  == Deliver(redirected, h, s.queued[n].calls)
      waiting    == {i \in ExportsOf(s, Hook("queued", n)) : s.exports[i].resolveOp}
  IN  IF waiting = {} THEN forwarded
      ELSE resolveExportedPromise(forwarded, CHOOSE i \in waiting : TRUE, h)

-----------------------------------------------------------------------------
(* Receiving.                                                              *)

(* import(): a PromiseClient is made for a promise seen the first time.    *)
importPromise(s, id) ==
  [s EXCEPT !.promises = IF id \in DOMAIN @ THEN @ ELSE (id :> NewPromiseClient(id)) @@ @]

(* The vat after receiving the descriptor, and the hook for it.            *)
receiveCap(s, cap) ==
  LET own == s.exports[cap.id].clientHook
  IN  CASE cap.kind = "senderHosted" -> [vat |-> s, hook |-> Hook("import", cap.id)]
        [] cap.kind = "senderPromise" ->
             [vat |-> importPromise(s, cap.id), hook |-> Hook("promise", cap.id)]
        [] cap.kind = "receiverHosted" ->
             [vat |-> s, hook |-> IF onConnection(own) THEN Hook("wrapper", own.id) ELSE own]
        [] cap.kind = "exception" -> [vat |-> s, hook |-> Broken]

(* Mutant: the flag is not handed on.                                      *)
promiseResolvedToThis_forget(s, h, receivedCall) == s

(* promiseResolvedToThis(): a promise that saw calls resolved to this one. *)
promiseResolvedToThis(s, h, receivedCall) ==
  IF h.type # "promise" THEN s
  ELSE IF s.promises[h.id].isResolved THEN Fail(s)
  ELSE [s EXCEPT !.promises[h.id].receivedCall = @ \/ receivedCall]

(* Mutant: broken capabilities are taken for local ones.                   *)
needsEmbargo_broken(s, id, replacement) ==
  CASE replacement.type = "wrapper" -> TRUE
    [] replacement.type \in {"import", "promise"} -> FALSE
    [] OTHER -> s.promises[id].receivedCall

needsEmbargo(s, id, replacement) ==
  CASE replacement.type = "wrapper" -> TRUE
    [] replacement.type \in {"import", "promise", "broken"} -> FALSE
    [] OTHER -> s.promises[id].receivedCall

DisembargoMessage(context, id, target) ==
  [type |-> "disembargo", context |-> context, id |-> id, target |-> target]

NextEmbargo(s) == CHOOSE e \in 0 .. Cardinality(DOMAIN s.embargoes) : e \notin DOMAIN s.embargoes

(* PromiseClient::resolve() of the promise imported under id.              *)
resolve(s, id, replacement) ==
  LET told    == promiseResolvedToThis(s, replacement, s.promises[id].receivedCall)
      embargo == NextEmbargo(s)
      client  == Len(s.queued) + 1
      held    == SendMessage([told EXCEPT
                   !.queued = Append(@, NewQueuedClient),
                   !.embargoes = (embargo :> [client |-> client, becomes |-> replacement]) @@ @],
                   DisembargoMessage("senderLoopback", embargo, id))
      become(t, cap) == [t EXCEPT !.promises[id].cap = cap, !.promises[id].isResolved = TRUE]
  IN  CASE s.promises[id].isResolved \/ replacement = Hook("promise", id) -> Fail(s)
        [] needsEmbargo(s, id, replacement) -> become(held, Hook("queued", client))
        [] OTHER -> become(told, replacement)

handleCall(s, m) == Deliver(s, s.exports[m.id].clientHook, <<m.call>>)

handleResolve(s, m) ==
  LET r == receiveCap(s, m.cap)
  IN  IF m.id \in DOMAIN s.promises THEN resolve(r.vat, m.id, r.hook) ELSE Fail(s)

(* senderLoopback: the echo has to wait.  receiverLoopback: the embargo is *)
(* over, and the calls it held back go on.                                 *)
handleDisembargo(s, m) ==
  CASE m.context = "senderLoopback" ->
         [s EXCEPT !.disembargoes = @ \cup {[id |-> m.id, target |-> s.exports[m.target].clientHook]}]
    [] m.context = "receiverLoopback" /\ m.id \in DOMAIN s.embargoes ->
         Settle([s EXCEPT !.embargoes = Restrict(@, DOMAIN @ \ {m.id})],
                s.embargoes[m.id].client, s.embargoes[m.id].becomes)
    [] OTHER -> Fail(s)

handleMessage(s, m) ==
  CASE m.type = "call" -> handleCall(s, m)
    [] m.type = "resolve" -> handleResolve(s, m)
    [] m.type = "disembargo" -> handleDisembargo(s, m)

(* The echo of a Disembargo, sent once its target has resolved.            *)
EchoDisembargo(s, d) ==
  LET target == FollowResolved(s, d.target)
      echoed == [s EXCEPT !.disembargoes = @ \ {d}]
  IN  IF onConnection(target)
      THEN SendMessage(echoed, DisembargoMessage("receiverLoopback", d.id, target.id))
      ELSE Fail(echoed)

-----------------------------------------------------------------------------
(* Steps.                                                                  *)

(* The application calls through a reference.                              *)
Call(r) ==
  /\ issued[r] < MaxCalls[r]
  /\ issued' = [issued EXCEPT ![r] = @ + 1]
  /\ vat' = [vat EXCEPT ![r[1]] = Deliver(@, r[2], <<[ref |-> r, n |-> issued[r] + 1]>>)]

(* What the application of v can fulfil a promise with.                    *)
Holdings(v) ==
  {Hook("object", i) : i \in 1 .. NumObjects[v]}
    \cup {Hook("import", NumPromises[Peer(v)] + 1), Broken}
    \cup {Hook("promise", i) : i \in 1 .. NumPromises[Peer(v)]}
    \cup {Hook("queued", i) : i \in 1 .. NumPromises[v]}

(* Where <<v, h>> leads: the steps of the way through the promises that    *)
(* the applications have fulfilled, on either side.                        *)
Way(v, h) ==
  LET hops == NumPromises[v] + NumPromises[Peer(v)]
      owner(x) == IF x[2].type = "promise" THEN Peer(x[1]) ELSE x[1]
      redirect(x) == vat[owner(x)].queued[x[2].id].redirect
      at[n \in 0 .. hops] ==
        IF n = 0 THEN <<v, h>>
        ELSE IF at[n - 1][2].type \in {"promise", "queued"} /\ redirect(at[n - 1]) # None
             THEN <<owner(at[n - 1]), redirect(at[n - 1])>>
             ELSE at[n - 1]
  IN  at

End(way) == way[Cardinality(DOMAIN way) - 1][2]

(* The promises on it, as pairs of the vat that made it and its number.    *)
Promises(way) ==
  {IF x[2].type = "promise" THEN <<Peer(x[1]), x[2].id>> ELSE <<x[1], x[2].id>> :
     x \in {y \in Range(way) : y[2].type \in {"promise", "queued"}}}

AllPromises == UNION {{<<v, n>> : n \in 1 .. NumPromises[v]} : v \in Vats}

(* The application fulfils (or rejects) a promise.  The promises of the    *)
(* two applications form no cycle and no path longer than MaxPath.         *)
Fulfil(v, n, h) ==
  LET ahead == Promises(Way(v, h))
      behind(p) == Promises(Way(p[1], Hook("queued", p[2])))
  IN  /\ vat[v].queued[n].redirect = None
      /\ <<v, n>> \notin ahead
      /\ \A p \in AllPromises :
           <<v, n>> \in behind(p) => Cardinality(behind(p) \cup ahead) <= MaxPath
      /\ vat' = [vat EXCEPT ![v] = Settle(@, n, h)]
      /\ UNCHANGED issued

(* The message loop of v takes the peer's next message.                    *)
Receive(v) ==
  /\ vat[Peer(v)].out # <<>>
  /\ vat' = [vat EXCEPT ![v] = handleMessage(@, Head(vat[Peer(v)].out)),
                        ![Peer(v)].out = Tail(@)]
  /\ UNCHANGED issued

(* A Disembargo is echoed.                                                 *)
Echo(v) ==
  /\ \E d \in vat[v].disembargoes :
       /\ FullyResolved(vat[v], d.target)
       /\ vat' = [vat EXCEPT ![v] = EchoDisembargo(@, d)]
  /\ UNCHANGED issued

Next ==
  \/ \E r \in References : Call(r)
  \/ \E v \in Vats : \E n \in 1 .. NumPromises[v], h \in Holdings(v) : Fulfil(v, n, h)
  \/ \E v \in Vats : Receive(v)
  \/ \E v \in Vats : Echo(v)

Spec == Init /\ [][Next]_vars

-----------------------------------------------------------------------------
(* Properties.                                                             *)

(* No vat ever finds the other in breach of the protocol: no promise       *)
(* resolves twice or to one that is already resolved, no Disembargo is     *)
(* sent to something that does not point back, no embargo id is unknown    *)
(* (the KJ_REQUIREs of PromiseClient and handleDisembargo()).              *)
NoProtocolError == \A v \in Vats : ~vat[v].failed

(* The numbers of the calls through r that arrived, in order of arrival.   *)
Arrived(r) ==
  LET at(v) == SelectSeq(vat[v].heard, LAMBDA x : x.call.ref = r)
      all   == LET v == CHOOSE v \in Vats : TRUE IN at(v) \o at(Peer(v))
  IN  [i \in DOMAIN all |-> all[i].call.n]

E == INSTANCE EOrder WITH issued <- issued, arrived <- [r \in References |-> Arrived(r)]

(* E-order: every reference delivers its calls in the order in which they  *)
(* were made, although Resolve messages shorten the path under way: the    *)
(* detailed system implements EOrder.                                      *)
CallsInOrder == E!Spec

(* The same as an invariant: what arrived is a prefix of what was called.  *)
(* rpc.capnp states it of all promises, without a bound on the path.       *)
DeliveredInOrder == \A r \in References : Arrived(r) = E!FirstCalls(Len(Arrived(r)))

(* Neither event loop has anything to do until an application acts.        *)
Quiet ==
  \A v \in Vats :
    /\ vat[v].out = <<>>
    /\ \A d \in vat[v].disembargoes : ~FullyResolved(vat[v], d.target)

(* When both loops have come to rest, all calls through a reference whose  *)
(* promises have been fulfilled have arrived, unless it leads to a broken  *)
(* capability: every embargo that PromiseClient::resolve() imposes has     *)
(* been lifted, and no QueuedClient keeps a call for ever.                 *)
NothingHeldBack ==
  Quiet =>
    \A r \in References :
      End(Way(r[1], r[2])).type \in {"object", "import"} => Len(Arrived(r)) = issued[r]

=============================================================================
