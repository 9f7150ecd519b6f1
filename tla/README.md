# A TLA+ model of Cap'n Proto's concurrency and RPC core

This directory specifies parts of the Cap'n Proto C++ implementation
(`c++/src/kj`, `c++/src/capnp`) in TLA+, model-checks them with TLC and proves
the central properties of some of them with TLAPS.

    tlc -config Mutex.cfg MCMutex              # any cfg with its MC module
    tlapm MutexProofs.tla                      # any module named ...Proofs

## 1. Inventory

| Part | State | Operations | What is hard |
|---|---|---|---|
| `kj::Mutex` (`kj/mutex.c++`) | futex word (held, requested, reader count), list of conditional waiters, one futex per waiter | `lock`, `unlock`, `wait`, with timeouts | the unlocking thread evaluates others' predicates and hands the lock over; hand-overs race timeouts; request bits are cleared on behalf of sleepers |
| `kj::Once` (`kj/mutex.c++`) | one word with four values | `runOnce`, `reset` | initializers that throw while others wait |
| RPC connection (`capnp/rpc.c++`, `RpcConnectionState`) | Four Tables (questions, answers, exports, imports), `idle`, `callWordsInFlight`, `flowWaiter` | `bootstrap`, `send`, `sendStreaming`, `sendForPipeline`, dropping a question or import, `sendReturn`, `sendErrorReturn`, `finish`, one handler per message, `disconnect` | ids are reused; Finish crosses Return; counts are shared by two vats; sends throw half-way; the transport breaks |
| RPC promises and embargoes (`PromiseClient`, `handleResolve`, `handleDisembargo`) | promise imports, embargo table | resolve, disembargo loops | calls must not overtake each other when a promise resolves (E-order, the Tribble 4-way race) |
| Third-party handoff (`rpc.c++`) | provisions, pending accepts | `Provide`, `Accept`, `ThirdPartyAnswer` | three vats, messages on three connections |
| Stream flow controllers (`rpc.c++`, `WindowFlowController`, `AdaptiveFlowController`) | bytes in flight, blocked senders, pending acks | `send`, ack, failed ack, `waitAllAcked`, destruction | window shrinks under blocked senders; waits race failures |
| Two-party network (`rpc-twoparty.c++`) | outgoing queue, `idle` | send, receive, shutdown | batching; oversize messages throw |
| Event loop and promises (`kj/async*.c++`) | event queues, promise nodes, cross-thread requests | `arm`, `fire`, `executeSync`, cancel | cancellation of cross-thread calls |
| Async pipes and I/O (`kj/async-io*.c++`) | blocked read, write or pump of a pipe | read, write, pump, abort | every pair of operations meets every other |
| Local capabilities, membranes, reconnect (`capnp/capability.c++`, ...) | blocked streaming calls, current hook | `call`, `startStreamingCall` | order of streaming calls, stale hooks |
| Messages, arenas, layout (`capnp/layout.c++`, `arena.c++`, ...) | segments, traversal limits | pointer reads and writes | bounds and depth limits |
| Serialization (`capnp/serialize*.c++`) | none | framing, packing | boundaries of packed runs |
| Schemas, dynamic API, compiler (`capnp/schema*`, `dynamic*`, `compiler/`) | lazily loaded schemas | parse, load, translate | sequential; laziness rests on `Mutex` and `Once` |
| HTTP, TLS, JSON, WebSocket bridges (`kj/compat`, `capnp/compat`) | connection pools, path shortening | requests, streams | pooling, early close |
| Filesystem, containers, base library (`kj/`) | data structures | - | sequential |

`PROJECT.json` lists every part with its status, and every hazard with the line
where it bites and the properties that would catch it.

## 2. Modules

| Module | Models | TLC module and configurations | Proofs |
|---|---|---|---|
| `Mutex` | futex `kj::_::Mutex` | `MCMutex`: `Mutex` | `MutexProofs` |
| `Once` | futex `kj::_::Once` | `MCOnce`: `Once` | `OnceProofs` |
| `Executor` | `kj::Executor` and `XThreadEvent` | `MCExecutor`: `Executor`, `ExecutorDrop`, `ExecutorDone` | |
| `XThreadPaf` | cross-thread promise and fulfiller | `MCXThreadPaf`: `XThreadPaf` | `XThreadPafProofs` |
| `AsyncPipe` | the in-process pipe of `async-io.c++` | `MCAsyncPipe`: `AsyncPipe` | `AsyncPipeSteps`, `AsyncPipeProofs` |
| `ExportTable` | the tables of `rpc.c++` and the ids they give out | as a part of `Rpc` | |
| `Rpc` | both ends of a two-party RPC connection | `MCRpc`: `RpcCalls`, `RpcFailures`, `RpcLiveness` | `RpcIds`, `RpcProofs` |
| `EOrder` | what a capability promises: calls arrive in order | as a property of `RpcEmbargo` | |
| `RpcEmbargo` | promises, Resolve and Disembargo on one connection | `MCRpcEmbargo`: `RpcEmbargo` | |
| `FlowController` | the stream flow controllers | `MCFlowController`: `FlowController` | `FlowControllerProofs` |

The modules rest on each other: `Executor` takes what is done under one
`kj::Mutex` as one step, which `MutexIsExclusive` allows; `XThreadPaf` ends in the
list of an executor; the RPC modules take a callback of an event loop as one
step; `FlowController` assumes that calls return, which is `CallsReturn` of `Rpc`;
`Rpc` has the reference counts and failures, `RpcEmbargo` the promises.

Definitions whose names end in `_something` after the name of another one are
*mutants*: plausible mistakes in that definition. Each property is known to
fail when the definition is replaced by the mutant listed with it in
`PROJECT.json`.

### Mutex

A step is one atomic operation on a futex word or one futex system call; what
runs under the lock between two of them belongs to a neighbouring step, because
nobody else can see it. `pc` names the place in `lock()`, `unlock()` or `wait()`;
`caller` tells the `lock()` and `unlock()` inside `wait()` from the
application's own. The word is a record of its two bits and the count. A
predicate is one of three outcomes (`false`, `true`, throws) that the owner of
the lock may change for any waiter (`Mutate`); when a thread calls `wait()` its
predicate is false, otherwise `wait()` returns at once. `FUTEX_WAIT` may return
for no reason (`SpuriousWake`). Contention warnings and the bookkeeping for
blocked-thread diagnostics are left out. The reader count is a natural number:
it overflows only with 2^30 threads.

### Once

The same granularity. `done` is a history variable counting successful
initializers since the last `reset()`. `reset()` is called, as the code
requires, only while the word is `INITIALIZED` and nobody is inside `runOnce()`.

### Rpc

`conn[v]` is the `RpcConnectionState` of vat `v`, with the Four Tables as
functions from ids to entries (`ExportTable`: `next()` takes the lowest free id,
and ids from `HighBit` on belong to `nextHigh()`); `chan[v]` is the ordered stream towards `v`. KJ
runs one callback at a time, so a handler is one step, with everything it sends.
Handlers and helpers are operators from a state record to a state record under
their C++ names; `Become` applies one, and adds the `disconnect()` and the Abort
that follow when a `KJ_REQUIRE` failed (`failed`).

Abstractions: a message carries at most one capability, and results have a
capability or none (`hasCapabilities()`); every call counts one word against the
flow limit; whether a method succeeds is left open; the application may keep a
cancelled call's context for a while (`DestroyContext`); the top bit of pipeline
ids is the number `HighBit`, and `size_t` wraps at `SizeMod`. Two ghosts, `call`
and `obj`, record which call or object an id was issued for; the code's own
decisions never read them.

Left out: promises (Resolve, Disembargo), which have the next module; tail calls
and redirected results, three-party handoff, Unimplemented, `setFlowLimit()`
during a connection.

### RpcEmbargo and EOrder

`vat[v]` has the export and import tables of one end, its `PromiseClient`s and
`QueuedClient`s, its embargoes and the messages on their way to the peer. The
actions are those of the applications (`Call`, `Fulfil`) and of the loop
(`Receive`, one message with its handler; `Echo`, the event that answers a
Disembargo once its target has resolved). The handlers have their C++ names and
take a vat to a vat. A promise's continuations run depth-first, so that
`resolve`, `Settle` and `resolveExportedPromise` belong to the step that settles
the promise. The `receivedCall` flag, `RequireEmbargoWrapper` (a hook of type
`wrapper`) and the rule for promises that resolve to a promise of the peer (the
Tribble 4-way race) are as in the code. A call is its reference and a number.

`EOrder` has two variables per reference: how many calls were made, and which
arrived, as a sequence. `RpcEmbargo` implements it (`CallsInOrder`) with `arrived`
mapped to what the objects of both vats have heard.

### Executor

A step is what a thread does between two acquisitions of an executor's mutex, or
one event of its loop. `event[e]` is an `XThreadEvent` with its `state`, the list
it is on, and its reply; `queue[t]` are the armed events in firing order.
`thread[t]` is the stack of the calls a thread is in: at its bottom the loop or
`~EventLoop()`, above it `fire()`, `send()`, `ensureDoneOrCanceled()` and
`processAsyncCancellations()`, each with its place and its events. The
application's code runs between two events, in the function that `fire()` calls
(`execute`) and in the destructor of the promise node that a function returned
(`get` in `fire()`, `node` in `processAsyncCancellations()`); wherever it runs it
may make requests and drop promises (`Application`), so that
`ensureDoneOrCanceled()` is entered again from inside itself. The promise that a
function returns becomes ready at some time (`NodeReady`), unless it is cancelled.

What the code does is undefined where one thread uses an event while it is the
other one's: when the target fires an event that is `DONE` (`FireDone`), goes on
with one that became `DONE` under it (`FiredDone`), or ends its loop with one in
the queue (`EndQueue`), and when the requester destroys one that is armed
(`Unlink`, `Free`), for `~Event()` unlinks it from the queue of the other thread
without synchronization. Behaviours end there, with `failed = "touched"`.

Left out: fibers, requests of a thread to its own loop, and promises that are
dropped by what `~EventLoop()` destroys (a thread has dropped its promises when it
exits; `sendReply()` calls anything else undefined).

### XThreadPaf

One atomic operation on `control->state`, or one block under the mutex, is a step. A
scope is one `FulfillScope`: a call of `fulfill()` or `reject()`, by any thread,
or the fulfiller's destructor, which runs when no call is in progress. The
destructor of a scope puts the object on the executor's list and then sets the
state, both under the lock. `disconnect()` empties that list without the lock, so
it may come between the two; `race` records that (observation 5).

### AsyncPipe

An operation of either end, or one completion of a stream that a pump uses, is a
step. `state` is the kind of object in `AsyncPipe::state`; `r` and `w` are the
operations of the two ends with their buffers; `x` is the transfer that a pump
has in flight. Bytes are numbered in the order in which they are given to the
pipe, so that order, loss and duplication are visible: what a write still has is
an interval, its pieces are the numbers of their last bytes (an empty piece
repeats the one before), and the writes that a transfer makes to an output end
at the bytes `cuts`. `received` is the sequence of bytes that have come out. An operation's promise may be dropped at any moment, and the
application's streams may fail, end and deliver any admissible number of bytes.
Continuations that the code attaches with `.then()` and that call the pipe again
are an action of their own (`WriteRest`), as other events may come first.

### FlowController

Each callback of `WindowFlowController` is a step. `Windows` is what
`getWindow()` may return at any moment; `AdaptiveFlowController` has the same
blocking code with a window of its own, so it is covered as far as blocking goes.
A sender awaits the promise of each `send()` before its next one.

## 3. What the runs show

| Run | Bounds | Shows |
|---|---|---|
| `mutex` | 2 threads, endless calls | `MutualExclusion`, `ReturnsReady`, `NoReadyWaiterLeft`, `NoLostWakeup`, `HandoverArrives`, `ReadersAdmitted`, `FreeLockTaken` |
| `once` | 3 threads | `ExactlyOnce`, `ReturnsInitialized`, `WaiterReleased` |
| `rpc_calls` | 3 questions of one vat, 1 object each, flow limit 1, calls and pipeline calls may throw | `IdsNameTheirCall`, `RefcountsAgree`, `IdleIffEmpty`, `FlowCounted` |
| `rpc_failures` | 2 + 1 questions, 1 object each, streaming calls and results may throw | `NoProtocolError` |
| `rpc_liveness` | 2 questions of one vat, 2 objects of the other, calls and pipeline calls may throw, transport breaks | `IdsNameTheirObject`, `CallsReturn`, `AbandonedIsReclaimed` |
| `flow_controller` | 2 senders, 5 messages of size 1 or 4, windows 2 and 6, acks may fail | `StreamBounded`, `WaitNotEarly`, `SendsResolve`, `HealthyWaitEnds` |
| `rpc_embargo` | 2 + 1 promises, 2 + 1 objects, 3 calls through one reference, paths of 2 promises | `CallsInOrder` (refinement of `EOrder`), `NoProtocolError`, `NothingHeldBack` |
| `executor` | 2 threads, 2 requests one way (one synchronous), 1 back, both loops may exit | `ListsAgree`, `NoAssertionFails`, `DoneIsReleased`, `BlockedReturns`, `QueuedIsAnswered` |
| `executor_drop` | the same without synchronous requests, one loop may exit | violates `ReplyIsUnlinked` |
| `executor_done` | the same without synchronous requests, no loop exits | violates `DoneIsNotTouched` |
| `xthread_paf` | 3 calls and the destructor | `DeletedLast`, `NoLeak`, `DropReturns` |
| `async_pipe` | 5 bytes; writes of 1 to 3 pieces, one with an empty piece; reads with and without slack; pumps of up to 3 bytes | `InOrder`, `NothingLost`, `ReadsAsPromised`, `WritesAsPromised`, `PumpsAsPromised`, `NobodyForgotten`, `EndsReleased` |

`RefcountsAgree`, `IdleIffEmpty` and `FlowCounted` do not survive a Return whose
`send()` throws, and `RefcountsAgree` does not survive a streaming call whose
`send()` throws (see below). So those two throws are in `rpc_failures` and the
other two in `rpc_calls`.

**Why the bounds are enough to be interesting.** Two threads meet in every pair of
places of the mutex, and never stop calling, so histories are unbounded; a waiter, a
timed-out waiter and an unlocking thread at once take three, and for its safety
properties any number is in `MutexProofs`. Three questions allow an id to be freed and reused while
messages of its former use are under way. Two objects make a wrong id visible
as a wrong object. A flow limit of one call is exceeded by two. Two senders can
overshoot together, the window may be smaller or larger than a message.
Three promises of two vats are enough for a promise that resolves to one of the
peer, and back; the bound on the path (`MaxPath`) is discussed below. Requests
in both directions let two threads cancel each other's, and the function of one
drop the other. Five bytes let a write
end inside a read, a read inside a piece, and a pump in either. `Stops` bounds
how often a transfer is torn half-way, to once per behaviour.
Wider instances passed once, with the invariants that hold under their throws: 2 + 1 questions
with two objects (4.8 million states), 2 + 1 questions with every throw and a
breaking transport (11.9 million), and 4 questions without capabilities (5.9
million); three threads in `Mutex`, safety only (383,867 states up to symmetry).

Deadlock checking is off for `Rpc`, `RpcEmbargo`, `FlowController`, `Executor` and
`XThreadPaf`: a connection whose bounded questions or calls are used up, or that
is closed, loops that have exited and a promise that is gone may rest.

**Fairness.** `Mutex` and `Once`: the operating system runs every runnable thread,
sleeps with a timeout end, and the application unlocks what it locked; calls,
changes of data and spurious wakes are not fair. `Rpc`: the event loop reads
messages and runs callbacks, methods complete, cancelled contexts are destroyed;
nothing forces the application to call or drop anything. `FlowController`: the
peer answers every call, which is what `CallsReturn` of `Rpc` shows. `Executor`: threads
are scheduled, loops fire their events and wait for more, functions and
destructors return, and the promises that functions return resolve; nobody is forced to make, drop or poll for a request,
or to exit. `XThreadPaf`: threads inside an operation go on, the waiting loop
runs, and the fulfiller is destroyed in the end. `AsyncPipe`: continuations run
and the application's streams answer, if only by failing. `RpcEmbargo` needs none:
`NothingHeldBack` says what holds whenever both loops are at rest.

### Disagreements found

**A dropped request can stay on the list of replies** (`executor_drop`). When the
promise of `executeAsync()` is dropped while the target's loop is being
destroyed, `ensureDoneOrCanceled()` waits for `DONE` and returns at
`async.c++:908`. `disconnect()` has put the event on the requester's list of
replies by then, and the code that would take it off (`async.c++:1026-1034`) is
skipped. The list's link refuses to be destroyed (`list.h:154`).

**An event is given back while its target still has it queued** (`executor_done`).
`dispatchCancels()` (`async.c++:788`) sets every cancelled event `DONE` that has no
promise node, whether or not it is armed, while `async-inl.h:1866` says that the
target must not touch an event any more once it is `DONE`. T1 asks for E1 on T2,
and T2 for E3 on T1; both loops have armed them. T1 drops E1, which goes to T2's
cancel list; T2, before it fires E1, drops E3, and serves its own cancel list on
the way (`async.c++:978`). E1 is now `DONE` and in T2's queue: T1 destroys it and
so unlinks it from a list that T2 uses, or T2 fires it.

### Observations

These come out of the same modules by a small change of a configuration, or are
visible in them; they have no run of their own.

1. **Calls may overtake each other on paths of three promises.** With `MaxPath = 3`
   `DeliveredInOrder` of `RpcEmbargo` fails, against `rpc.capnp:703-705`.
   Bob resolves P1 to Alice's promise Q, and P2 to Alice's object. Alice has
   called C1 on P1 and gets the Resolve: she imposes an embargo, with Q as the
   replacement. She resolves Q to P2, and P2 resolves in turn: a second embargo,
   whose Disembargo leaves before C1 has come back through Q. Its echo lets a
   later call pass C1. The replacement that the embargo holds is the hook of
   the time it was imposed (`rpc.c++:1563`).
2. **An event is given back while it fires.** The same happens to an event whose
   function is running: its promise node is not set yet, or not any more
   (`async.c++:1113`, `1107`). If the function drops a promise of its own and its
   requester has cancelled it, `ensureDoneOrCanceled()` sets the event `DONE`, and
   `fire()` then writes to it and calls `done()`, which fails its assertion
   (`async.c++:1088`) if the event still exists. `FiredDone` is that step;
   `NoAssertionFails` excepts it.
3. **A request to a loop that has just exited is not answered.** If the loop goes
   between `getLoop()` and the lock in `send()`, the event becomes `DONE` without
   a reply, and the promise of `executeAsync()` is never ready;
   `async.h:1119-1120` promises an exception.
4. **`executeSync()` against a cancellation.** A thread in `executeSync()` does not
   run its loop, so a target that drops a request on that loop waits for it, and
   both wait for ever (`SyncDeadlock`, excepted from `BlockedReturns`).
5. **The list of fulfilled promises is shared for longer than it says.**
   `~FulfillScope()` adds to it even when `loop` is null, while `disconnect()` walks
   it without the lock (`async.c++:825-826`). Add `NoListRace` to `XThreadPaf.cfg`.
   If the walk comes between the addition and the store of `FULFILLED`, the
   promise's owner may delete the object under the scope, or find `FULFILLED`
   for an object that is on no list; `DeletedLast` and `NoLeak` exclude that race,
   and only that.
6. **A pump may report too few bytes.** `async-io.c++:1644` goes on with a new
   pump and forgets the bytes of the first (`async-io.h:114-115`). Add
   `PumpsCounted` to `AsyncPipe.cfg`.
7. **A torn pump may deliver bytes twice.** When the reader's pump from a blocked
   write is dropped between two writes to its output, the blocked write still
   has all its bytes (`torn`, excepted from `InOrder`).
8. **`lock()` with a timeout can outlast it**: each `FUTEX_WAIT` gets the same
   relative time (`mutex.c++:201`), so wakes without the lock restart it.
9. **`KJ_DASSERT` in `runOnce()`** (`mutex.c++:549`): a waiter whose compare-exchange
   fails may see `UNINITIALIZED` after a throw. Debug builds only. Add
   `WaiterAssertion` to `Once.cfg`.
10. **Streaming sends that throw leak exports**: unlike the other two kinds of send
    they do not take the parameters' exports back (`rpc.c++:2740`). Add `"stream"`
    to `Throwing` in `RpcCalls.cfg`: `RefcountsAgree` fails.
11. **Returns that throw are cleaned up twice**: `callWordsInFlight` is decremented
    twice and may wrap (`rpc.c++:3292`); exports of the results leak, too. Add
    `"return"` to `Throwing` in `RpcCalls.cfg`: `FlowCounted` fails.
12. **`waitAllAcked()` may never resolve** (`rpc.c++:4904`): if senders were blocked
    when it was called and an ack then fails, nobody fulfils `emptyFulfiller`, and
    the abandoned controller lives until disconnect. Add `WaitEnds` to
    `FlowController.cfg`.
13. **Pipeline-only calls and the flow limit**: such a call never returns, so it
    counts until its Finish arrives; a loop over the limit does not read that
    Finish. The caveat in `rpc.h:100-103` speaks of calls that wait for calls in the
    opposite direction. `CallsReturn` is therefore checked with a limit that the
    bounded calls do not reach.

## 4. What is proved

Theorems hold for every value of the constants, not only for the instances above.

* `MutexProofs`, for any finite set of threads: `TypeCorrect`, `MutexIsExclusive`,
  `NoWakeupLost`, `HandoverIsReady` (`ReturnsReady`) and `NoReadyWaiterForgotten`
  (`NoReadyWaiterLeft`), which are all the safety properties of the run.
  `MutualExclusion` is not inductive: whether a hand-over
  yields one owner depends on the waiter list holding exactly the threads inside
  `wait()`, once each (`ListOK`); on what a waiter's futex says at each place
  (`WaiterOK`); on the reader count being the number of threads that added
  themselves (`CountOK`); and on the held bit being set exactly while one thread
  holds the lock (`OwnerOK`). Their conjunction with `TypeOK` is the inductive
  invariant. `ReturnsReady` is inductive on top of it; lost wake-ups (`WakeOK`) and
  forgotten waiters (`WalkOK`) each need one more.
* `OnceProofs`, for any set of threads: `RunsExactlyOnce` and
  `WaitersSeeSuccess`, from an invariant that ties the word to who runs and to
  `done`, and the `INITIALIZED` a thread has seen to the word.
* `FlowControllerProofs`, for any finite set of senders, sizes and windows up to
  `MaxWindow`: `StreamIsBounded` and `WaitIsNotEarly` (`WaitNotEarly`, which is
  inductive by itself). `StreamBounded` is inductive together with the
  types of the counters: a `send()` that exceeds the window blocks its sender and
  so raises the allowance by one message; an ack that empties the set of blocked
  senders has just found room.
* `XThreadPafProofs`, for any set of calls: `StatesKeepMeaning`,
  `ObjectDeletedLast` and `OneCallTakesEffect`. That the object is deleted once
  and last is not inductive: it depends on the place of every thread.
  `StatesMean` spells out what `XThreadPafControl::State` documents, who may use
  the object in each state and who must delete it, and is inductive with the
  types; the other two follow from it. `OneResult` holds in
  every behaviour; the other two exclude the race of observation 5.
* `AsyncPipeSteps` and `AsyncPipeProofs`, for any writes (of any number of pieces,
  empty ones included, except that a write does not begin with one), reads, amounts,
  inputs and bound on the bytes: `InductiveInvariant`, and from it `BytesInOrder`,
  `BytesAccountedFor`, `ReadsKeepTheirPromise`, `WritesKeepTheirPromise`,
  `PumpsKeepTheirPromise` and `NobodyIsForgotten`, which are all the safety
  properties of the run. None is inductive. `IInv` says, besides types: that the object
  which is the pipe's `state` belongs to an unsettled operation of its end
  (`ObjectOK`); that the pieces a write still has lie after what was consumed and
  end with the last byte given, and that a pump's counts add up (`WriterOK`); between which
  two operations each kind of transfer is, where it stops, and that what it has
  moved was received (`TransferOK`); that the counts of a read that goes on add up
  to what it asked for, and to what came out since it began (`ReaderOK`); and that
  nothing received lies beyond the place that the write or the transfer has
  reached (`OrderOK`). The last is why bytes keep their order: whatever comes out
  next begins there. `NobodyForgotten` is part of it, as a step finds the
  other end's operation through it. The invariant was checked with TLC, on a
  larger instance than the run's (355,466 states), before it was proved. The
  first module has the lemmas on runs of bytes, on pieces, and on what an operation
  that takes n bytes leaves, and the operations that meet a blocked end at once
  (`read(q)`, `write(q)`); the second has the synchronous write, aborts, shutdowns,
  drops, the completions of streams, and the theorems. `MinIsLeast`, what `Min` of
  a set of numbers is, is a hypothesis of their lemmas and is proved at the end. The order and the counts
  except transfers that were stopped half-way (`torn`, observation 7).
* `RpcIds` and `RpcProofs`, for any number of questions of either vat up to `HighBit`, any
  objects and flow limit, any of the throwing sends and a transport that may
  break: `IdInvariant`, and from it `QuestionIdsAreSafe` (`IdsNameTheirCall`). A
  question's id is free again once its Finish has been sent and its Return has
  come, while messages about its former use may still be under way in the other
  direction; that they are not taken for the next use's rests on the order of the
  stream. `Half(qs, ans, out, in, next, hc)` says how the questions of one vat,
  the peer's answers and the messages in each direction agree: an id is mentioned
  for one call after the other (`MentionsInOrder`), and never for a later one
  than its question's (`MentionsKnown`); a mention that is early for the peer's
  answer comes after the Finish of that answer (`AnswersInTime`), and the Finish
  of an answer that its question has let go of is on its way (`FinishDue`); a
  Return on its way, a call that runs and a call on its way exclude each other, and
  their question waits (`ReturnsExpected`, `RunningExpected`, `AsksExpected`); a
  question whose Finish is skipped has no answer (`FinishSkipped`); the ids of
  calls sent for their pipeline are never used twice (`HighIds`). `IdInv` adds
  the shapes of entries and messages, holds `Half` for both vats while both are
  connected, and says what is left of it once one has disconnected. `RpcIds` shows
  for tables and sequences in general that `Half` survives what a vat does to its
  questions, `RpcProofs` does the same for the answers and then shows that each action
  of `Rpc` does one of these things to either half. `NextIdIsFree`, what `next()`
  returns, is a hypothesis of the lemmas and is proved at the end (`NextIdFacts`).

The assumptions are the `ASSUME`s of the modules: finite sets of threads or
senders where the code counts them, sizes and windows that are numbers, a
destructor that is not one of the calls, writes given by where their pieces end,
reads of at least one byte, and no more questions than ids below `HighBit`.

Only model-checked:

* the liveness properties of all modules (the provers have no fairness and no
  ENABLED);
* of `Rpc`, `IdsNameTheirObject`, `RefcountsAgree`, `IdleIffEmpty`, `FlowCounted` and
  `NoProtocolError`. Reference counts are compared with sums over tables and
  messages of both vats, and the sums need induction over the data, which these
  provers do not have; that ids name their object and that no check fails rest on
  the counts;
* `RpcEmbargo` (`NoProtocolError`, `NothingHeldBack` and the refinement of `EOrder`).
  A promise that settles runs its continuations depth-first, through chains of
  promises and queued calls; what those compute needs induction;
* `Executor`.

Convention: in modules with proofs, `EXCEPT` updates one element of a function
at a time (`![t] = [@ EXCEPT !.a = .., !.b = ..]`). The SMT translation of two
updates to the same element of a function is not reliable.

## 5. Not modelled, and why

The repository is large and most of it is sequential code over bytes, text or
generated data, of which a model would be a transliteration. The modules cover
the parts where several actors meet; they cover about 4,500 lines of
`mutex.c++`, `async.c++`, `async-inl.h`, `async-io.c++`, `rpc.c++` and
`capability.c++`, which is about two per cent of the repository.

* **Third-party handoff**: needs a third vat, three connections and a network
  that introduces vats; the state space of `RpcEmbargo` with a third vat does not
  fit small instances as it stands.
* **Tail calls, redirected results, Unimplemented**: more message kinds in `Rpc`,
  whose instances are already at the size that can be explored.
* **Promise nodes, fibers, `TaskSet`, timers**: one loop runs one callback at a
  time; the modules use that as their notion of a step.
* **System I/O** (`async-io-unix.c++`, `async-unix.c++`, Windows): behaviour of the
  operating system. **File descriptors and streams sent through pipes**, tees and
  limited streams are left out of `AsyncPipe`.
* **Messages, arenas, layout, serialization**: pointer arithmetic over byte
  arrays; the interesting cases are in the widths and bounds of the data.
* **Schemas, dynamic API, compiler**: batch programs and generated tables.
* **HTTP, TLS, JSON, WebSocket, filesystem, containers**: translations, external
  libraries and sequential data structures.

## 6. Plan

1. Proofs: `ListsAgree` and `DoneIsReleased` of `Executor`; `IdleIffEmpty` of `Rpc`
   without throwing sends.
2. `AdaptiveWindow`: the window computation of `AdaptiveFlowController`, its
   clamps and collars and the end of its startup phase.
3. The streaming queue of `LocalClient`; packing as an operator checked against
   its decoder.
4. `Rpc`: tail calls and redirected results, Unimplemented, `setFlowLimit()`.
