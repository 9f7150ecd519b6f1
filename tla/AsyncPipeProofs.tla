-------------------------- MODULE AsyncPipeProofs --------------------------
(***************************************************************************)
(* The other steps of AsyncPipe preserve the invariant of AsyncPipeSteps:  *)
(* synchronous writes, continuations, the steps that stop a transfer and   *)
(* those of the application's streams.  The theorems about AsyncPipe.      *)
(***************************************************************************)
EXTENDS AsyncPipeSteps

(* The bytes after a, up to b, go to a buffer or an output.                *)
Receives(a, b) == received' = received \o Run(a, b)

-----------------------------------------------------------------------------
(* Synchronous writes, and the rest of a write that was split.             *)

\* A synchronous write to a blocked pump whose output takes it at once.
LEMMA WriteSyncInv ==
  ASSUME MinIsLeast, IInv, NEW q, Offered(q), q.op = "write", w.op = "idle", state = "pumpTo",
         Size(q) <= r.room,
         Receives(given, given + Size(q)),
         w' = Written(Advance(q, Size(q))),
         r' = LET s == [r EXCEPT !.need = @ - Size(q), !.room = @ - Size(q),
                                 !.count = @ + Size(q)]
              IN IF s.room = 0 THEN Fulfil(s, s.count) ELSE s,
         state' = IF Size(q) = r.room THEN "none" ELSE state,
         UNCHANGED <<x, dropped, torn>>
  PROVE  IInv'
<1>1. TypeOK /\ ObjectOK
  BY Zenon DEF IInv
<1>2. /\ q \in WriterType /\ q.result = Pending /\ given' \in Nat /\ given <= given'
      /\ WriteOK(q, given') /\ x.kind = "none" /\ q.pieces # <<>> /\ q.rest = <<>>
      /\ q.from = given /\ q.first = given + 1 /\ given \in Nat
  BY <1>1, Zenon DEF Offered, WriterOK, Low, TypeOK
<1>3. PICK n : n = Size(q)
  BY Zenon
<1>4. n \in Nat /\ n > 0 /\ given + n <= given' /\ n <= r.room
  BY <1>2, <1>3, SizeFacts, Zenon
<1>5. r \in ReaderType /\ r.op = "pump" /\ r.room \in Nat /\ r.count \in Nat
      /\ 0 < r.need /\ r.need = r.room /\ Active
  BY <1>1, Zenon DEF IInv, TypeOK, ObjectOK, ReaderType, ReaderOK, CountsOK, Active, ReadStates
<1>6. /\ w' \in WriterType /\ WriterOK(w', given') /\ w'.op = "write"
      /\ w'.from = given + n /\ w'.first = given + 1 /\ ~Waiting(w')
  <2>1. PICK a : a = Advance(q, n)
    BY Zenon
  <2>2. /\ a \in WriterType /\ WriteOK(a, given') /\ a.op = "write" /\ a.from = given + n
        /\ a.first = given + 1 /\ a.result = Pending /\ a.pieces = <<>> /\ a.rest = <<>>
    <3>1. Unsettled(q) /\ n <= Size(q)
      BY <1>2, <1>3, <1>4 DEF Unsettled
    <3>2. /\ a \in WriterType /\ WriteOK(a, given') /\ a.op = q.op /\ a.from = q.from + n
          /\ a.first = q.first /\ a.result = q.result /\ a.rest = q.rest
          /\ a.pieces = <<>> <=> n = Size(q)
      BY <1>2, <1>4, <2>1, <3>1, AdvanceFacts, SMTT(40)
    <3> QED BY <1>2, <1>3, <3>2, Zenon
  <2>3. Unsettled(a) /\ w' = Written(a)
    BY <1>3, <2>1, <2>2, Zenon DEF Unsettled
  <2> QED BY <1>2, <2>2, <2>3, WrittenFacts DEF Waiting
<1>7. received' \in Seq(Nat) /\ Len(received') = Len(received) + n
  <2>1. received \in Seq(Nat)
    BY <1>1, Zenon DEF TypeOK
  <2> QED BY <1>2, <1>3, <1>4, <2>1, RunLen, Zenon DEF Receives
<1>8. state' = IF n >= r.need THEN "none" ELSE "pumpTo"
  BY <1>3, <1>4, <1>5
<1>9. /\ r' \in ReaderType /\ r'.op = r.op /\ ReaderOK' /\ (n < r.need => Unsettled(r'))
      /\ n >= r.need => ~Waiting(r')
  <2>1. Got(n).room = r.room - n /\ Got(n).count = r.count + n
        /\ r' = IF Got(n).room = 0 THEN Fulfil(Got(n), Got(n).count) ELSE Got(n)
    BY <1>3, <1>5, Zenon DEF Got, ReaderType
  <2>2. n < r.need => r' = Got(n)
    BY <1>4, <1>5, <2>1, SMTT(40)
  <2>3. n >= r.need => r' = Fulfil(Got(n), r.count + n)
    BY <1>4, <1>5, <2>1, SMTT(40)
  <2>4. n >= r.need => state' \notin ReadStates
    BY <1>8, Zenon DEF ReadStates
  <2>5. Len(received') = Len(received) + n - Sent
    BY <1>1, <1>2, <1>4, <1>7, SMTT(40) DEF Sent, TypeOK
  <2> QED BY <1>2, <1>4, <1>5, <2>2, <2>3, <2>4, <2>5, ReaderGot, Zenon
<1>10. TypeOK' /\ WriterOK(w', given')
  BY <1>1, <1>2, <1>6, <1>7, <1>8, <1>9, Zenon DEF TypeOK, States
<1>11. ObjectOK' /\ TransferOK'
  <2>1. state' = "none" \/ (state' = "pumpTo" /\ Unsettled(r'))
    BY <1>4, <1>5, <1>8, <1>9, SMTT(40)
  <2> QED BY <1>2, <1>5, <1>9, <2>1, Zenon DEF ObjectOK, TransferOK
<1>12. OrderOK'
  <2>1. Pos = given /\ Low = given /\ Pos' = given + n /\ Low' = given + n
    BY <1>2, <1>6, Zenon DEF Pos, Low
  <2>2. /\ Pos <= given + n /\ Low <= Low' /\ Low' <= given + n /\ given + n <= Pos'
        /\ given + n \in Nat /\ w.op # "write"
    BY <1>2, <1>4, <2>1, SMTT(40)
  <2> QED BY <1>2, <1>3, <1>4, <1>6, <1>10, <2>1, <2>2, OrderMoved, Zenon DEF Receives
<1>13. NobodyForgotten'
  BY <1>5, <1>4, <1>6, <1>8, <1>9, Zenon DEF NobodyForgotten, ReadStates, WriteStates
<1> QED BY <1>9, <1>10, <1>11, <1>12, <1>13, Zenon DEF IInv

\* The continuation of a write that has nothing more to write, or cannot.
LEMMA RestEndsInv ==
  ASSUME MinIsLeast, IInv, RestIsDue, NEW q, NEW n \in {0, Failed},
         q = [w EXCEPT !.pieces = Beyond(w.rest, w.from), !.rest = <<>>],
         n = 0 => q.pieces = <<>>, w' = Fulfil(q, n),
         UNCHANGED <<state, r, x, received, given, dropped, torn>>
  PROVE  IInv'
<1>1. TypeOK /\ ObjectOK /\ WriterOK(w, given) /\ NobodyForgotten
  BY Zenon DEF IInv
<1>2. w \in WriterType /\ given \in Nat /\ w.result = Pending /\ w.pieces = <<>>
      /\ w.rest # <<>> /\ w.op = "write" /\ WriteOK(w, given) /\ x.kind = "none"
  <2>1. x.kind = "none"
    BY KindFacts, Zenon
  <2> QED BY <1>1, <2>1, Zenon DEF RestIsDue, Waiting, TypeOK, WriterOK
<1>3. q \in WriterType /\ WriteOK(q, given) /\ (q.pieces = <<>> => w.from = given)
  BY <1>2, RestFacts, ZenonT(30)
<1>4. q.op = "write" /\ q.from = w.from /\ q.first = w.first /\ q.result = Pending
  BY <1>2, Zenon DEF WriterType
<1>5. n \in Int /\ n # Pending /\ (n >= 0 => n = 0)
  BY DEF Failed, Pending
<1>6. /\ w' \in WriterType /\ w'.op = "write" /\ w'.from = w.from /\ w'.first = w.first
      /\ w'.pieces = q.pieces /\ w'.rest = q.rest /\ w'.result = n
  BY <1>3, <1>4, <1>5, FulfilFacts, ZenonT(40)
<1>7. WriterOK(w', given')
  BY <1>3, <1>4, <1>5, <1>6, Zenon DEF WriterOK, WriteOK
<1>8. TypeOK'
  BY <1>1, <1>6, Zenon DEF TypeOK
<1>9. ObjectOK' /\ TransferOK'
  BY <1>1, <1>2, Zenon DEF ObjectOK, TransferOK
<1>10. ReaderOK'
  <2>1. (Active' <=> Active) /\ Sent' = Sent
    BY <1>2, Zenon DEF Active, Moving, Sent
  <2> QED BY <1>1, <2>1, ReaderKept, Zenon DEF TypeOK
<1>11. OrderOK'
  <2>1. Pos' = Pos /\ Pos \in Nat
    BY <1>2, <1>6, KindFacts, Zenon DEF Pos
  <2> QED BY <1>1, <1>2, <1>6, <1>7, <1>8, <2>1, OrderKept, SMTT(40) DEF TypeOK
<1>12. NobodyForgotten'
  BY <1>1, <1>2, <1>5, <1>6, Zenon DEF NobodyForgotten, Waiting
<1> QED BY <1>7, <1>8, <1>9, <1>10, <1>11, <1>12, Zenon DEF IInv

-----------------------------------------------------------------------------
(* Steps that stop a transfer, and the end of the input.                   *)

\* What holds when operations are rejected and the transfer in flight is
\* stopped, whether it has moved some of its bytes or none.
LEMMA Interrupted ==
  ASSUME IInv, Stops, state' \in States, r' \in ReaderType,
         x' \in TransferType, x'.kind \in {"none", "eof"},
         w' = w \/ w' = Fulfil(w, Failed), UNCHANGED <<received, given, dropped>>
  PROVE  /\ TypeOK' /\ WriterOK(w', given') /\ OrderOK'
         /\ w'.op = w.op /\ w'.pieces = w.pieces /\ (Unsettled(w) => Unsettled(w'))
         /\ w' = w \/ ~Waiting(w')
         /\ torn' \/ (~torn /\ Sent' = Sent)
<1>1. TypeOK /\ ObjectOK /\ WriterOK(w, given) /\ TransferOK
  BY Zenon DEF IInv
<1>2. w \in WriterType /\ x \in TransferType /\ torn \in BOOLEAN /\ given \in Nat
  BY <1>1, Zenon DEF TypeOK
<1>3. /\ w' \in WriterType /\ w'.op = w.op /\ w'.from = w.from /\ w'.first = w.first
      /\ w'.pieces = w.pieces /\ w'.rest = w.rest /\ w'.left = w.left
      /\ w'.input = w.input /\ w'.amount = w.amount /\ w'.taken = w.taken
      /\ w'.result = w.result \/ w'.result = Failed
      /\ w' = w \/ w'.result # Pending
  <2>1. Failed \in Int /\ Failed # Pending
    BY DEF Failed, Pending
  <2> QED BY <1>2, <2>1, FulfilFacts, SMTT(40)
<1>4. ~(Failed >= 0)
  BY DEF Failed
<1>5. WriterOK(w', given')
  BY <1>1, <1>3, <1>4, Zenon DEF WriterOK, WriteOK, PumpOK
<1>6. torn' = (torn \/ x.moved) /\ torn' \in BOOLEAN
  BY <1>2, Zenon DEF Stops, TransferType
<1>7. TypeOK'
  BY <1>1, <1>3, <1>6, Zenon DEF TypeOK
<1>8. torn' \/ (~torn /\ Sent' = Sent /\ Pos' = Pos)
  <2>1. CASE x.kind = "out"
    <3>1. w.op = "write" /\ (x.moved \/ x.at = w.from) /\ w.from \in Nat
      BY <1>1, <1>2, <2>1, Zenon DEF TransferOK, OutOK, ObjectOK, WriterType
    <3>2. x'.kind # "out" /\ w'.op = "write" /\ w'.from = w.from
      BY <1>3, <3>1, Zenon
    <3>3. x.at = w.from => Sent = 0 /\ Sent' = 0 /\ Pos = w.from /\ Pos' = w.from
      BY <2>1, <3>1, <3>2, SMTT(40) DEF Sent, Pos
    <3> QED BY <1>6, <3>1, <3>3, Zenon
  <2>2. CASE x.kind # "out"
    BY <1>2, <1>3, <1>6, <2>2, Zenon DEF Sent, Pos
  <2> QED BY <2>1, <2>2, Zenon
<1>9. OrderOK'
  <2>1. torn' \/ (~torn /\ Pos <= Pos')
    <3>1. Pos <= Pos
      BY KindFacts
    <3> QED BY <1>8, <3>1, Zenon
  <2> QED BY <1>3, <1>5, <1>7, <2>1, OrderKept, Zenon
<1>10. Unsettled(w) => Unsettled(w')
  BY <1>3, Zenon DEF Unsettled
<1> QED BY <1>3, <1>5, <1>7, <1>8, <1>9, <1>10, Zenon DEF Waiting

\* abortRead().
LEMMA AbortReadInv ==
  ASSUME IInv, AbortRead
  PROVE  IInv'
<1>1. TypeOK /\ ObjectOK /\ TransferOK /\ NobodyForgotten
  BY Zenon DEF IInv
<1>2. /\ state \notin {"aborted", "shutdown"} /\ state' = "aborted"
      /\ r' = IF Waiting(r) THEN Fulfil(r, Failed) ELSE r
      /\ w' = IF Reject THEN Fulfil(w, Failed) ELSE w
      /\ x' = IF state = "pumpFrom" /\ ~Reject THEN Transfer("eof", 0, {}) ELSE NoTransfer
      /\ Stops /\ UNCHANGED <<received, given, dropped>>
  BY Zenon DEF AbortRead
<1>3. x' \in TransferType /\ x'.kind = IF state = "pumpFrom" /\ ~Reject THEN "eof" ELSE "none"
  BY <1>2, Zenon DEF NoTransfer, Transfer, TransferType
<1>4. r' \in ReaderType /\ ~Waiting(r')
  <2>1. Failed \in Int /\ Failed # Pending /\ r \in ReaderType
    BY <1>1 DEF Failed, Pending, TypeOK
  <2> QED BY <1>2, <2>1, FulfilFacts, Zenon DEF Waiting
<1>5. /\ TypeOK' /\ WriterOK(w', given') /\ OrderOK' /\ w'.op = w.op
      /\ w' = w \/ ~Waiting(w')
      /\ torn' \/ (~torn /\ Sent' = Sent)
  BY <1>2, <1>3, <1>4, Interrupted, Zenon DEF States
<1>6. ObjectOK'
  BY <1>2, Zenon DEF ObjectOK
<1>7. TransferOK'
  BY <1>1, <1>2, <1>3, <1>5, Zenon DEF TransferOK, ObjectOK
<1>8. ReaderOK'
  <2>1. ~Active'
    BY <1>2, <1>3, Zenon DEF Active, Moving, ReadStates
  <2> QED BY <1>2, <1>5, <2>1, ReaderKept, Zenon
<1>9. NobodyForgotten'
  <2>1. Reject => ~Waiting(w')
    BY <1>1, <1>2, FulfilFacts, SMTT(40) DEF Waiting, TypeOK, Failed, Pending
  <2>2. state = "none" => x.kind = "none"
    BY KindFacts, Zenon
  <2>3. ASSUME Waiting(w') PROVE x'.kind # "none" \/ RestIsDue'
    <3>1. w' = w /\ ~Reject
      BY <1>5, <2>1, <2>3, Zenon
    <3>2. state \in {"none", "read", "pumpTo", "write", "pumpFrom"}
      BY <1>1, <1>2, Zenon DEF TypeOK, States
    <3> QED BY <1>1, <1>3, <2>2, <2>3, <3>1, <3>2, Zenon
            DEF NobodyForgotten, Reject, ReadStates, WriteStates, RestIsDue
  <2> QED BY <1>4, <2>3, Zenon DEF NobodyForgotten
<1> QED BY <1>5, <1>6, <1>7, <1>8, <1>9, Zenon DEF IInv

\* shutdownWrite(): a read gets what it has.
LEMMA ShutdownWriteInv ==
  ASSUME IInv, ShutdownWrite
  PROVE  IInv'
<1>1. TypeOK /\ ObjectOK /\ TransferOK /\ ReaderOK /\ NobodyForgotten
  BY Zenon DEF IInv
<1>2. /\ state \in {"none", "read", "pumpTo"} /\ state' = "shutdown"
      /\ r' = IF state = "none" THEN r ELSE Fulfil(r, r.count)
      /\ w' = IF x.kind # "none" THEN Fulfil(w, Failed) ELSE w
      /\ x' = NoTransfer /\ Stops /\ UNCHANGED <<received, given, dropped>>
  BY Zenon DEF ShutdownWrite
<1>3. x' \in TransferType /\ x'.kind = "none"
  BY <1>2, Zenon DEF NoTransfer, Transfer, TransferType
<1>4. r \in ReaderType /\ r.count \in Nat /\ r.room \in Nat /\ r.max \in Nat
  BY <1>1, Zenon DEF TypeOK, ReaderType
<1>5. Pending = -1 /\ Failed = -2
  BY Zenon DEF Pending, Failed
<1>6. /\ r' \in ReaderType /\ r'.op = r.op /\ r'.need = r.need /\ r'.room = r.room
      /\ r'.max = r.max /\ r'.start = r.start
      /\ r'.result = IF state # "none" /\ r.result = Pending THEN r.count ELSE r.result
  BY <1>2, <1>4, <1>5, FulfilFacts, SMTT(40)
<1>7. /\ TypeOK' /\ WriterOK(w', given') /\ OrderOK'
      /\ w' = w \/ ~Waiting(w')
      /\ torn' \/ (~torn /\ Sent' = Sent)
  BY <1>2, <1>3, <1>6, Interrupted, Zenon DEF States
<1>8. ObjectOK' /\ TransferOK'
  BY <1>2, <1>3, Zenon DEF ObjectOK, TransferOK
<1>9. ~Waiting(r')
  <2>1. state = "none" => ~Waiting(r)
    BY <1>1, Zenon DEF NobodyForgotten, ReadStates, WriteStates
  <2> QED BY <1>2, <1>4, <1>5, <1>6, <2>1, SMTT(40) DEF Waiting
<1>10. ReaderOK'
  <2>1. ~Active' /\ Sent' = 0
    BY <1>2, <1>3, Zenon DEF Active, Moving, ReadStates, Sent
  <2>2. CASE state = "none"
    BY <1>2, <1>7, <2>1, <2>2, ReaderKept, Zenon
  <2>3. CASE state \in ReadStates
    <3>1. /\ Unsettled(r) /\ r.count <= r.max
          /\ torn \/ Len(received) = r.start + r.count + Sent
      BY <1>1, <1>4, <2>3, SMTT(40) DEF ReaderOK, CountsOK, Active
    <3>2. torn' \/ r.count = Len(received) - r.start
      <4>1. Len(received) \in Nat /\ r.start \in Nat
        BY <1>1 DEF TypeOK, ReaderType
      <4>2. Len(received) = r.start + r.count + 0 => r.count = Len(received) - r.start
        BY <1>4, <4>1, SMTT(40)
      <4> QED BY <1>7, <2>1, <3>1, <4>2, Zenon
    <3>3. ReadsAsPromised'
      BY <1>2, <1>4, <1>5, <1>6, <3>1, <3>2, SMTT(40) DEF ReadsAsPromised, Unsettled
    <3>4. r'.op = "pump" => r'.need = r'.room
      BY <1>1, <1>6, Zenon DEF ReaderOK
    <3> QED BY <2>1, <3>3, <3>4, Zenon DEF ReaderOK
  <2> QED BY <1>2, <2>2, <2>3, Zenon DEF ReadStates
<1>11. NobodyForgotten'
  <2>1. Waiting(w') => w' = w /\ x.kind = "none"
    BY <1>1, <1>2, <1>5, <1>7, FulfilFacts, SMTT(40) DEF Waiting, TypeOK
  <2> QED BY <1>1, <1>2, <1>9, <2>1, Zenon
          DEF NobodyForgotten, RestIsDue, ReadStates, WriteStates
<1> QED BY <1>7, <1>8, <1>10, <1>11, Zenon DEF IInv

\* The check for the end of the input is done.
LEMMA CheckEofInv ==
  ASSUME IInv, CheckEof
  PROVE  IInv'
<1>1. TypeOK /\ ObjectOK /\ WriterOK(w, given) /\ TransferOK /\ NobodyForgotten
  BY Zenon DEF IInv
<1>2. PICK n : n = IF EofChecked THEN w.count ELSE Failed
  BY Zenon
<1>3. /\ x.kind = "eof" /\ w' = Fulfil(w, n) /\ x' = NoTransfer
      /\ UNCHANGED <<state, r, received, given, dropped, torn>>
  BY <1>2, Zenon DEF CheckEof
<1>4. w \in WriterType /\ w.op = "pump" /\ state = "aborted"
  BY <1>1, <1>3, Zenon DEF TypeOK, TransferOK
<1>5. n \in Int /\ n # Pending /\ (n >= 0 => w.input = 0)
  BY <1>2, <1>4 DEF EofChecked, Failed, Pending, WriterType
<1>6. /\ w' \in WriterType /\ w'.op = w.op /\ w'.from = w.from /\ w'.first = w.first
      /\ w'.pieces = w.pieces /\ w'.rest = w.rest /\ w'.left = w.left
      /\ w'.input = w.input /\ w'.amount = w.amount /\ w'.taken = w.taken
      /\ w'.result = IF w.result = Pending THEN n ELSE w.result
  BY <1>3, <1>4, <1>5, FulfilFacts, Zenon
<1>7. WriterOK(w', given')
  BY <1>1, <1>3, <1>4, <1>5, <1>6, Zenon DEF WriterOK, PumpOK
<1>8. x' \in TransferType /\ x'.kind = "none"
  BY <1>3, Zenon DEF NoTransfer, Transfer, TransferType
<1>9. TypeOK'
  BY <1>1, <1>3, <1>6, <1>8, Zenon DEF TypeOK
<1>10. ObjectOK' /\ TransferOK'
  BY <1>3, <1>4, <1>8, Zenon DEF ObjectOK, TransferOK
<1>11. ReaderOK'
  <2>1. ~Active'
    BY <1>3, <1>4, <1>8, Zenon DEF Active, Moving, ReadStates
  <2> QED BY <1>1, <1>3, <1>4, <2>1, ReaderKept, Zenon DEF TypeOK
<1>12. OrderOK'
  <2>1. Pos' = Pos /\ Pos \in Nat
    BY <1>3, <1>6, <1>8, KindFacts, Zenon DEF Pos
  <2> QED BY <1>1, <1>3, <1>6, <1>7, <1>9, <2>1, OrderKept, SMTT(40) DEF TypeOK
<1>13. NobodyForgotten'
  BY <1>1, <1>3, <1>4, <1>5, <1>6, Zenon DEF NobodyForgotten, Waiting, ReadStates, WriteStates
<1> QED BY <1>7, <1>9, <1>10, <1>11, <1>12, <1>13, Zenon DEF IInv

\* A stream of the application throws.
LEMMA StreamFailsInv ==
  ASSUME IInv, StreamFails
  PROVE  IInv'
<1>1. TypeOK /\ ObjectOK /\ TransferOK /\ NobodyForgotten
  BY Zenon DEF IInv
<1>2. /\ x.kind # "none" /\ r' = IF x.kind = "eof" THEN r ELSE Fulfil(r, Failed)
      /\ w' = Fulfil(w, Failed) /\ x' = NoTransfer /\ Stops
      /\ UNCHANGED <<state, received, given, dropped>>
  BY Zenon DEF StreamFails
<1>3. x' \in TransferType /\ x'.kind = "none"
  BY <1>2, Zenon DEF NoTransfer, Transfer, TransferType
<1>4. /\ r \in ReaderType /\ w \in WriterType /\ state \in States
      /\ Failed \in Int /\ Failed # Pending
  BY <1>1 DEF TypeOK, Failed, Pending
<1>5. /\ r' \in ReaderType /\ r'.op = r.op
      /\ r'.result = IF x.kind # "eof" /\ r.result = Pending THEN Failed ELSE r.result
  BY <1>2, <1>4, FulfilFacts, Zenon
<1>6. /\ TypeOK' /\ WriterOK(w', given') /\ OrderOK' /\ w'.op = w.op
      /\ w'.pieces = w.pieces /\ (Unsettled(w) => Unsettled(w'))
      /\ torn' \/ (~torn /\ Sent' = Sent)
  BY <1>2, <1>3, <1>4, <1>5, Interrupted, Zenon
<1>7. ObjectOK' /\ TransferOK'
  BY <1>1, <1>2, <1>3, <1>5, <1>6, Zenon DEF ObjectOK, TransferOK, Unsettled
<1>8. ReaderOK'
  <2>1. Active' => Active
    BY <1>2, <1>3, Zenon DEF Active, Moving
  <2> QED BY <1>2, <1>6, <2>1, ReaderKept, Zenon
<1>9. NobodyForgotten'
  <2>1. ~Waiting(w')
    BY <1>2, <1>4, FulfilFacts, SMTT(40) DEF Waiting
  <2>2. ~Waiting(r')
    BY <1>1, <1>2, <1>4, <1>5, Zenon
       DEF Waiting, NobodyForgotten, TransferOK, ReadStates, WriteStates
  <2> QED BY <2>1, <2>2, Zenon DEF NobodyForgotten
<1> QED BY <1>6, <1>7, <1>8, <1>9, Zenon DEF IInv

\* The read end's promise is dropped.
LEMMA DropReadInv ==
  ASSUME IInv, DropRead
  PROVE  IInv'
<1>1. TypeOK /\ ObjectOK /\ TransferOK /\ NobodyForgotten
  BY Zenon DEF IInv
<1>2. /\ r' = NoReader /\ state' = IF state \in ReadStates THEN "none" ELSE state
      /\ w' = IF state \in ReadStates /\ x.kind # "none" THEN Fulfil(w, Failed) ELSE w
      /\ x' = IF x.kind = "eof" THEN x ELSE NoTransfer
      /\ Stops /\ UNCHANGED <<received, given, dropped>>
  BY Zenon DEF DropRead, endState
<1>3. x' \in TransferType /\ x'.kind = IF x.kind = "eof" THEN "eof" ELSE "none"
  BY <1>1, <1>2, Zenon DEF TypeOK, NoTransfer, Transfer, TransferType
<1>4. r' \in ReaderType /\ r'.op = "idle" /\ r'.need = r'.room
  BY <1>2 DEF NoReader, ReaderType
<1>5. state' \in States /\ state' \notin ReadStates
  BY <1>1, <1>2, Zenon DEF TypeOK, States, ReadStates
<1>6. /\ TypeOK' /\ WriterOK(w', given') /\ OrderOK' /\ w'.op = w.op
      /\ w'.pieces = w.pieces /\ (Unsettled(w) => Unsettled(w'))
      /\ w' = w \/ ~Waiting(w')
  BY <1>2, <1>3, <1>4, <1>5, Interrupted, Zenon
<1>7. ObjectOK' /\ TransferOK'
  BY <1>1, <1>2, <1>3, <1>6, Zenon DEF ObjectOK, TransferOK, ReadStates
<1>8. ReaderOK'
  BY <1>3, <1>4, <1>5, Zenon DEF ReaderOK, ReadsAsPromised, Active, Moving
<1>9. NobodyForgotten'
  <2>1. state \in ReadStates /\ x.kind # "none" => ~Waiting(w')
    BY <1>1, <1>2, FulfilFacts, SMTT(40) DEF Waiting, TypeOK, Failed, Pending
  <2>2. Moving => state \in ReadStates \/ state \in WriteStates
    BY <1>1, Zenon DEF Moving, TransferOK, OutOK, InOK, BothOK, ReadStates, WriteStates
  <2>3. ASSUME Waiting(w') PROVE state' \in WriteStates \/ x'.kind # "none" \/ RestIsDue'
    <3>1. w' = w /\ ~(state \in ReadStates /\ x.kind # "none")
      BY <1>6, <2>1, <2>3, Zenon
    <3>2. state \in WriteStates => state' \in WriteStates
      BY <1>2, Zenon DEF ReadStates, WriteStates
    <3>3. x.kind # "none" => Moving \/ x.kind = "eof"
      BY <1>1, Zenon DEF TypeOK, TransferType, Moving
    <3> QED BY <1>1, <1>3, <2>2, <2>3, <3>1, <3>2, <3>3, Zenon DEF NobodyForgotten, RestIsDue
  <2> QED BY <1>4, <2>3, Zenon DEF NobodyForgotten, Waiting
<1> QED BY <1>6, <1>7, <1>8, <1>9, Zenon DEF IInv

\* The write end's promise is dropped.
LEMMA DropWriteInv ==
  ASSUME IInv, DropWrite
  PROVE  IInv'
<1>1. TypeOK /\ ObjectOK /\ WriterOK(w, given) /\ TransferOK /\ OrderOK /\ NobodyForgotten
  BY Zenon DEF IInv
<1>2. /\ w' = NoWriter /\ dropped' = dropped \cup Held(w)
      /\ state' = IF state \in WriteStates THEN "none" ELSE state
      /\ r' = IF state \in WriteStates /\ x.kind # "none" THEN Fulfil(r, Failed) ELSE r
      /\ x' = NoTransfer /\ Stops /\ UNCHANGED <<received, given>>
  BY Zenon DEF DropWrite, endState
<1>3. x' \in TransferType /\ x'.kind = "none"
  BY <1>2, Zenon DEF NoTransfer, Transfer, TransferType
<1>4. /\ w' \in WriterType /\ w'.op = "idle" /\ w'.pieces = <<>> /\ w'.rest = <<>>
  BY <1>2 DEF NoWriter, WriterType
<1>5. r \in ReaderType /\ Failed \in Int /\ Failed # Pending /\ given \in Nat
  BY <1>1 DEF TypeOK, Failed, Pending
<1>6. /\ r' \in ReaderType /\ r'.op = r.op
      /\ r'.result = IF state \in WriteStates /\ x.kind # "none" /\ r.result = Pending
                     THEN Failed ELSE r.result
  BY <1>2, <1>5, FulfilFacts, Zenon
<1>7. torn' = (torn \/ x.moved) /\ torn' \in BOOLEAN
  BY <1>1, Zenon DEF Stops, TypeOK, TransferType, DropWrite
<1>8. WriterOK(w', given')
  BY <1>4, Zenon DEF WriterOK
<1>9. TypeOK'
  <2>1. state' \in States
    BY <1>1, <1>2, Zenon DEF TypeOK, States
  <2>2. dropped' \in SUBSET Nat
    <3>1. w.from + 1 .. given \subseteq Nat
      BY <1>1, SMTT(40) DEF TypeOK, WriterType
    <3> QED BY <1>1, <1>2, <3>1, Zenon DEF TypeOK, Held
  <2> QED BY <1>1, <1>2, <1>3, <1>4, <1>6, <1>7, <2>1, <2>2, Zenon DEF TypeOK
<1>10. ObjectOK' /\ TransferOK'
  BY <1>1, <1>2, <1>3, <1>6, Zenon DEF ObjectOK, TransferOK, Unsettled, WriteStates
<1>11. ReaderOK'
  <2>1. Active' => Active
    BY <1>2, <1>3, Zenon DEF Active, Moving, ReadStates
  <2>2. torn' \/ (~torn /\ Sent' = Sent)
    <3>1. x.kind = "out" /\ x.at = w.from => Sent = 0
      BY <1>1 DEF Sent, TypeOK, WriterType
    <3>2. x.kind = "out" => x.moved \/ x.at = w.from
      BY <1>1, Zenon DEF TransferOK, OutOK
    <3> QED BY <1>3, <1>7, <3>1, <3>2, Zenon DEF Sent
  <2> QED BY <1>2, <2>1, <2>2, ReaderKept, Zenon DEF WriteStates
<1>12. OrderOK'
  <2>1. Pos' = given /\ Pos \in Nat /\ Pos <= given
    BY <1>2, <1>3, <1>4, KindFacts, Zenon DEF Pos
  <2>2. Held(w)' = {}
    <3>1. Range(w'.pieces) \cup Range(w'.rest) = {}
      BY <1>4 DEF Range
    <3> QED BY <3>1, Zenon DEF Held
  <2>3. NothingLost'
    BY <1>1, <1>2, <2>2, Zenon DEF OrderOK, NothingLost
  <2>4. torn \/ (Increasing(received) /\ \A i \in 1..Len(received) : received[i] <= given)
    <3>1. \A i \in 1..Len(received) : received[i] \in Nat
      BY <1>1 DEF TypeOK
    <3> QED BY <1>1, <1>5, <2>1, <3>1, SMTT(40) DEF OrderOK
  <2> QED BY <1>2, <1>4, <1>7, <2>1, <2>3, <2>4, Zenon DEF OrderOK
<1>13. NobodyForgotten'
  BY <1>1, <1>2, <1>3, <1>4, <1>5, <1>6, Zenon DEF NobodyForgotten, Waiting, ReadStates, WriteStates
<1> QED BY <1>8, <1>9, <1>10, <1>11, <1>12, <1>13, Zenon DEF IInv

-----------------------------------------------------------------------------
(* Steps of the application's streams.                                     *)

\* A write to the output of a pump: who takes part in it, and where it is.
LEMMA OutFacts ==
  ASSUME IInv, x.kind = "out", NEW n, n = Least(Size(w), r.room)
  PROVE  /\ w \in WriterType /\ w.op = "write" /\ w.pieces # <<>> /\ WriteOK(w, given)
         /\ w.from \in Nat /\ given \in Nat /\ Unsettled(w)
         /\ r \in ReaderType /\ r.op = "pump" /\ r.room \in Nat /\ r.need = r.room
         /\ r.count \in Nat /\ Unsettled(r) /\ Active
         /\ Size(w) \in Nat /\ n \in Nat /\ 0 < n /\ n <= Size(w) /\ n <= r.room
         /\ Stop = w.from + n /\ w.from + n <= given /\ x.at \in Nat /\ w.from <= x.at
         /\ Stop \in x.cuts /\ (\A c \in x.cuts : c <= Stop /\ c \in Nat)
<1>1. TypeOK /\ ObjectOK /\ WriterOK(w, given) /\ TransferOK /\ ReaderOK
  BY Zenon DEF IInv
<1>2. /\ \/ state = "write" /\ r.op = "pump"
         \/ state = "pumpTo" /\ w.op = "write" /\ Waiting(w) /\ w.pieces # <<>>
      /\ Stop \in x.cuts /\ (\A c \in x.cuts : c <= Stop) /\ w.from <= x.at
  BY <1>1, Zenon DEF TransferOK, OutOK
<1>3. /\ w \in WriterType /\ r \in ReaderType /\ given \in Nat /\ x.at \in Nat
      /\ x.cuts \subseteq Nat /\ w.from \in Nat /\ r.room \in Nat /\ r.count \in Nat
  BY <1>1, Zenon DEF TypeOK, TransferType, WriterType, ReaderType
<1>4. w.op = "write" /\ w.pieces # <<>> /\ Unsettled(w) /\ r.op = "pump"
  BY <1>1, <1>2, Zenon DEF ObjectOK, Waiting, Unsettled
<1>5. WriteOK(w, given)
  BY <1>1, <1>4, Zenon DEF WriterOK
<1>6. Active
  BY Zenon DEF Active, Moving
<1>7. Unsettled(r) /\ 0 < r.need /\ r.need = r.room
  BY <1>1, <1>4, <1>6, Zenon DEF ReaderOK, CountsOK
<1>8. Size(w) \in Nat /\ Size(w) > 0 /\ w.from + Size(w) <= given
  BY <1>3, <1>4, <1>5, SizeFacts, Zenon
<1>9. n \in Nat /\ 0 < n /\ n <= Size(w) /\ n <= r.room /\ w.from + n <= given
  BY <1>3, <1>7, <1>8, SMTT(40) DEF Least
<1> QED BY <1>2, <1>3, <1>4, <1>5, <1>6, <1>7, <1>8, <1>9, Zenon DEF Stop

\* What has been received when a write to an output is done.
LEMMA OutReceived ==
  ASSUME IInv, x.kind = "out", NEW c \in Nat, x.at < c,
         Receives(x.at, c)
  PROVE  /\ received' \in Seq(Nat) /\ Len(received') = Len(received) + (c - x.at)
         /\ Range(received') = Range(received) \cup (x.at + 1 .. c)
<1>1. received \in Seq(Nat) /\ x.at \in Nat
  BY Zenon DEF IInv, TypeOK, TransferType
<1>2. x.at <= c
  BY <1>1
<1> QED BY <1>1, <1>2, RunFacts, ZenonT(30) DEF Receives

\* A write to an output that is followed by another one.
LEMMA OutputGoesOnInv ==
  ASSUME IInv, x.kind = "out", NEW c \in x.cuts, x.at < c, \E d \in x.cuts : c < d,
         Receives(x.at, c), x' = [x EXCEPT !.at = c, !.moved = TRUE],
         UNCHANGED <<state, r, w, given, dropped, torn>>
  PROVE  IInv'
<1>1. TypeOK /\ ObjectOK /\ WriterOK(w, given) /\ TransferOK /\ ReaderOK /\ NobodyForgotten
  BY Zenon DEF IInv
<1>2. PICK n : n = Least(Size(w), r.room)
  BY Zenon
<1>3. /\ w.op = "write" /\ w.from \in Nat /\ given \in Nat /\ x.at \in Nat /\ n \in Nat
      /\ w.from <= x.at /\ Stop = w.from + n /\ Stop <= given /\ Stop \in x.cuts
      /\ c \in Nat /\ c < Stop /\ Active /\ Unsettled(r)
  <2>1. /\ w.op = "write" /\ w.from \in Nat /\ given \in Nat /\ x.at \in Nat /\ n \in Nat
        /\ w.from <= x.at /\ Stop = w.from + n /\ w.from + n <= given /\ Stop \in x.cuts
        /\ Active /\ Unsettled(r) /\ \A d \in x.cuts : d <= Stop /\ d \in Nat
    BY <1>2, OutFacts, Zenon
  <2> QED BY <2>1
<1>4. /\ received' \in Seq(Nat) /\ Len(received') = Len(received) + (c - x.at)
      /\ Range(received') = Range(received) \cup (x.at + 1 .. c)
  BY <1>3, OutReceived, Zenon
<1>5. /\ x' \in TransferType /\ x'.kind = "out" /\ x'.at = c /\ x'.cuts = x.cuts
      /\ x'.moved = TRUE
  BY <1>1, <1>3, Zenon DEF TypeOK, TransferType
<1>6. TypeOK' /\ WriterOK(w', given') /\ ObjectOK'
  BY <1>1, <1>4, <1>5, Zenon DEF TypeOK, ObjectOK
<1>7. TransferOK'
  <2>1. Stop' = Stop
    BY Zenon DEF Stop, Size
  <2>2. w.from + 1 .. c \subseteq Range(received')
    <3>1. w.from + 1 .. x.at \subseteq Range(received)
      BY <1>1, Zenon DEF TransferOK, OutOK
    <3>2. w.from + 1 .. c \subseteq (w.from + 1 .. x.at) \cup (x.at + 1 .. c)
      BY <1>3
    <3> QED BY <1>4, <3>1, <3>2, Zenon
  <2>3. w.from <= c
    BY <1>3
  <2>4. OutOK
    BY <1>1, Zenon DEF TransferOK
  <2>5. OutOK'
    BY <1>3, <1>5, <2>1, <2>2, <2>3, <2>4, Zenon DEF OutOK, Waiting
  <2> QED BY <1>5, <2>5, Zenon DEF TransferOK
<1>8. ReaderOK'
  <2>1. Sent = x.at - w.from /\ Sent' = c - w.from
    BY <1>5, Zenon DEF Sent
  <2>2. CountsOK(r) /\ (torn \/ Len(received) = r.start + r.count + Sent)
    BY <1>1, <1>3, Zenon DEF ReaderOK
  <2>3. torn \/ Len(received') = r.start + r.count + Sent'
    <3>1. PICK l \in Nat : l = Len(received)
      BY <1>1 DEF TypeOK
    <3>2. r.start \in Nat /\ r.count \in Nat
      BY <1>1, Zenon DEF TypeOK, ReaderType
    <3>3. l = r.start + r.count + (x.at - w.from)
            => l + (c - x.at) = r.start + r.count + (c - w.from)
      <4>1. ASSUME NEW i \in Int, NEW a \in Nat, NEW f \in Nat, l = i + (a - f)
            PROVE  l + (c - a) = i + (c - f)
        BY <1>3, <3>1, <4>1, SMTT(40)
      <4>2. r.start + r.count \in Int
        BY <3>2
      <4> QED BY <1>3, <4>1, <4>2, Zenon
    <3> QED BY <1>4, <2>1, <2>2, <3>1, <3>3, Zenon
  <2>4. ReadsAsPromised'
    BY <1>3 DEF ReadsAsPromised, Unsettled, Pending, Failed
  <2> QED BY <1>1, <2>2, <2>3, <2>4, Zenon DEF ReaderOK, CountsOK, Unsettled
<1>9. OrderOK'
  <2>1. Pos = x.at /\ Pos' = c /\ Low = w.from /\ Low' = w.from
    BY <1>3, <1>5, Zenon DEF Pos, Low
  <2>2. Pos <= c /\ c <= given' /\ given <= given' /\ Low <= Low' /\ Low' <= c /\ c <= Pos'
    BY <1>3, <2>1
  <2> QED BY <1>3, <1>6, <2>1, <2>2, OrderMoved, Zenon DEF Receives
<1>10. NobodyForgotten'
  BY <1>1, <1>5, Zenon DEF NobodyForgotten, RestIsDue, Waiting
<1> QED BY <1>6, <1>7, <1>8, <1>9, <1>10, Zenon DEF IInv

\* What holds after the last write to an output: n bytes of the blocked write
\* have been consumed.
LEMMA OutputDone ==
  ASSUME IInv, x.kind = "out", NEW n, n = Least(Size(w), r.room), x.at < w.from + n,
         Receives(x.at, w.from + n), x' = NoTransfer,
         UNCHANGED <<given, dropped, torn>>, state' \in States,
         w' \in WriterType, WriterOK(w', given), w'.op = "write", w'.from = w.from + n,
         w'.first = w.first,
         n < r.need => r' = Got(n),
         n >= r.need => /\ r' = Fulfil(Got(n), r.count + n) \/ r' = Fulfil(r, r.count + n)
                        /\ state' \notin ReadStates
  PROVE  /\ TypeOK' /\ WriterOK(w', given') /\ ReaderOK' /\ OrderOK' /\ TransferOK'
         /\ x'.kind = "none" /\ r'.op = "pump"
         /\ n < r.need => Unsettled(r')
         /\ n >= r.need => ~Waiting(r')
<1>1. /\ w.op = "write" /\ w.from \in Nat /\ x.at \in Nat /\ w.from <= x.at
      /\ given \in Nat /\ r.op = "pump" /\ Active /\ n \in Nat /\ n <= r.room
      /\ w.from + n <= given
  BY OutFacts, Zenon
<1>2. x' \in TransferType /\ x'.kind = "none"
  BY Zenon DEF NoTransfer, Transfer, TransferType
<1>3. w.from + n \in Nat
  BY <1>1
<1>4. received' \in Seq(Nat) /\ Len(received') = Len(received) + ((w.from + n) - x.at)
  <2>1. PICK c \in Nat : c = w.from + n
    BY <1>3, Zenon
  <2>2. received' \in Seq(Nat) /\ Len(received') = Len(received) + (c - x.at)
    BY <2>1, OutReceived, Zenon
  <2> QED BY <2>1, <2>2, Zenon
<1>5. Len(received') = Len(received) + n - Sent
  <2>1. Len(received) \in Nat
    BY SMTT(40) DEF IInv, TypeOK
  <2>2. \A l \in Nat : l + ((w.from + n) - x.at) = l + n - (x.at - w.from)
    BY <1>1, SMTT(40)
  <2> QED BY <1>4, <2>1, <2>2, Zenon DEF Sent
<1>6. /\ r' \in ReaderType /\ r'.op = r.op /\ ReaderOK'
      /\ n < r.need => Unsettled(r')
      /\ n >= r.need => ~Waiting(r')
  BY <1>1, <1>2, <1>5, ReaderGot, Zenon
<1>7. TypeOK'
  BY <1>2, <1>4, <1>6, Zenon DEF IInv, TypeOK
<1>8. OrderOK'
  <2>1. Pos = x.at /\ Pos' = w.from + n /\ Low = w.from /\ Low' = w.from + n
    BY <1>1, <1>2, Zenon DEF Pos, Low
  <2>2. /\ Pos <= w.from + n /\ w.from + n <= given' /\ given <= given' /\ Low <= Low'
        /\ Low' <= w.from + n /\ w.from + n <= Pos'
    BY <1>1, <2>1, SMTT(40)
  <2> QED BY <1>1, <1>3, <1>7, <2>1, <2>2, OrderMoved, Zenon DEF Receives
<1> QED BY <1>1, <1>2, <1>6, <1>7, <1>8, Zenon DEF TransferOK

\* The pump of a blocked write is done.
LEMMA PumpedFromWriteInv ==
  ASSUME MinIsLeast, IInv, x.kind = "out", NEW n, n = Least(Size(w), r.room), x.at < w.from + n,
         Receives(x.at, w.from + n), x' = NoTransfer,
         UNCHANGED <<given, dropped, torn>>, state = "write", PumpedFromWrite
  PROVE  IInv'
<1>1. /\ w \in WriterType /\ w.op = "write" /\ w.pieces # <<>> /\ WriteOK(w, given)
      /\ given \in Nat /\ Unsettled(w) /\ r \in ReaderType /\ r.room \in Nat
      /\ r.need = r.room /\ r.count \in Nat
      /\ Size(w) \in Nat /\ n \in Nat /\ 0 < n /\ n <= Size(w) /\ n <= r.room
  BY OutFacts, Zenon
<1>2. PICK a : a = Advance(w, n)
  BY Zenon
<1>3. /\ a \in WriterType /\ WriteOK(a, given) /\ a.op = "write" /\ a.from = w.from + n
      /\ a.first = w.first /\ a.result = w.result
      /\ a.pieces = <<>> <=> n = Size(w)
  BY <1>1, <1>2, AdvanceFacts, SMTT(40)
<1>4. /\ Got(n) = [r EXCEPT !.need = @ - n, !.room = @ - n, !.count = @ + n]
      /\ Got(n).room = r.room - n /\ Got(n).count = r.count + n
  BY <1>1, Zenon DEF Got, ReaderType
<1>5. \/ /\ n < Size(w) /\ n = r.room /\ state' = "write" /\ w' = a
         /\ r' = Fulfil(r, r.count + n)
      \/ /\ n = Size(w) /\ n = r.room /\ state' = "none" /\ w' = Written(a)
         /\ r' = Fulfil(Got(n), r.count + n)
      \/ /\ n = Size(w) /\ n < r.room /\ state' = "pumpTo" /\ w' = Written(a)
         /\ r' = Got(n)
  <2>1. CASE Size(w) > r.room
    <3>1. n = r.room
      BY <1>1, <2>1, SMTT(40) DEF Least
    <3> QED BY <1>1, <1>2, <2>1, <3>1, Zenon DEF PumpedFromWrite
  <2>2. CASE ~(Size(w) > r.room)
    <3>1. n = Size(w)
      BY <1>1, <2>2, SMTT(40) DEF Least
    <3>2. /\ w' = Written(a)
          /\ r' = IF Got(n).room = 0 THEN Fulfil(Got(n), Got(n).count) ELSE Got(n)
          /\ state' = IF Got(n).room = 0 THEN "none" ELSE "pumpTo"
      BY <1>2, <1>4, <2>2, <3>1, Zenon DEF PumpedFromWrite
    <3>3. Got(n).room = 0 <=> n = r.room
      BY <1>1, <1>4, SMTT(40)
    <3>4. n = r.room \/ n < r.room
      BY <1>1, SMTT(40)
    <3> QED BY <1>4, <3>1, <3>2, <3>3, <3>4, Zenon
  <2> QED BY <2>1, <2>2, Zenon
<1>6. /\ w' \in WriterType /\ WriterOK(w', given) /\ w'.op = "write"
      /\ w'.from = w.from + n /\ w'.first = w.first
      /\ state' = "write" => w'.pieces # <<>> /\ Unsettled(w')
      /\ state' # "write" => (Waiting(w') => RestIsDue')
  <2>1. CASE w' = a /\ n < Size(w)
    BY <1>1, <1>3, <1>5, <2>1, SMTT(40) DEF WriterOK, Unsettled
  <2>2. CASE w' = Written(a) /\ n = Size(w)
    <3>1. Unsettled(a) /\ a.pieces = <<>>
      BY <1>1, <1>3, <2>2, Zenon DEF Unsettled
    <3>2. /\ w' \in WriterType /\ WriterOK(w', given) /\ w'.op = "write"
          /\ w'.from = a.from /\ w'.first = a.first /\ w'.pieces = <<>>
          /\ w'.rest = a.rest /\ (w'.result = Pending => a.rest # <<>>)
      BY <1>1, <1>3, <2>2, <3>1, WrittenFacts, ZenonT(40)
    <3>3. state' # "write"
      BY <1>1, <1>5, <2>2, SMTT(40)
    <3> QED BY <1>3, <3>2, <3>3, Zenon DEF Waiting, RestIsDue
  <2> QED BY <1>5, <2>1, <2>2, ZenonT(40)
<1>7. /\ TypeOK' /\ WriterOK(w', given') /\ ReaderOK' /\ OrderOK' /\ TransferOK'
      /\ r'.op = "pump" /\ (n < r.need => Unsettled(r')) /\ (n >= r.need => ~Waiting(r'))
  <2>1. n < r.need => r' = Got(n)
    BY <1>1, <1>5, SMTT(40)
  <2>2. n >= r.need =>
          /\ r' = Fulfil(Got(n), r.count + n) \/ r' = Fulfil(r, r.count + n)
          /\ state' \notin ReadStates
    BY <1>1, <1>5, SMTT(40) DEF ReadStates
  <2>3. state' \in States
    BY <1>5, Zenon DEF States
  <2> QED BY <1>6, <2>1, <2>2, <2>3, OutputDone, ZenonT(40)
<1>8. state' = "pumpTo" => Unsettled(r')
  BY <1>1, <1>5, <1>7, Zenon
<1>9. Waiting(r') => state' = "pumpTo"
  BY <1>1, <1>5, <1>7, Zenon
<1>10. ObjectOK'
  BY <1>5, <1>6, <1>7, <1>8, Zenon DEF ObjectOK
<1>11. NobodyForgotten'
  BY <1>6, <1>9, Zenon DEF NobodyForgotten, ReadStates, WriteStates
<1> QED BY <1>7, <1>10, <1>11, Zenon DEF IInv

\* A write to a blocked pump is done.
LEMMA WrittenToPumpInv ==
  ASSUME MinIsLeast, IInv, x.kind = "out", NEW n, n = Least(Size(w), r.room), x.at < w.from + n,
         Receives(x.at, w.from + n), x' = NoTransfer,
         UNCHANGED <<given, dropped, torn>>, state = "pumpTo", WrittenToPump
  PROVE  IInv'
<1>1. /\ w \in WriterType /\ w.op = "write" /\ w.pieces # <<>> /\ WriteOK(w, given)
      /\ given \in Nat /\ w.from \in Nat /\ r \in ReaderType /\ r.room \in Nat
      /\ r.need = r.room /\ r.count \in Nat /\ w.from + n <= given
      /\ Size(w) \in Nat /\ n \in Nat /\ 0 < n /\ n <= Size(w) /\ n <= r.room
  BY OutFacts, Zenon
<1>2. w.result = Pending /\ w.rest = <<>>
  BY Zenon DEF IInv, TransferOK, OutOK, Waiting
<1>3. PICK b : b = w.from + n
  BY Zenon
<1>4. PICK a : a = Retry(w, n)
  BY Zenon
<1>5. PICK e : e = [w EXCEPT !.from = b, !.pieces = <<>>, !.rest = Beyond(w.pieces, b)]
  BY Zenon
<1>6. /\ Got(n) = [r EXCEPT !.need = @ - n, !.room = @ - n, !.count = @ + n]
      /\ Got(n).count = r.count + n
  BY <1>1, Zenon DEF Got, ReaderType
<1>7. /\ r' = IF n = r.room THEN Fulfil(Got(n), Got(n).count) ELSE Got(n)
      /\ w' = IF b \notin Range(w.pieces) THEN a ELSE Written(e)
      /\ state' = IF b \notin Range(w.pieces) THEN "write"
                  ELSE IF n = r.room THEN "none" ELSE "pumpTo"
  BY <1>3, <1>4, <1>5, <1>6, SMTT(40) DEF WrittenToPump
<1>8. b \notin Range(w.pieces) => n # Size(w)
  <2>1. w.pieces \in Seq(Nat)
    BY <1>1, Zenon DEF WriterType
  <2>2. Len(w.pieces) \in DOMAIN w.pieces /\ w.pieces[Len(w.pieces)] \in Nat
    BY <1>1, <2>1, SMTT(40)
  <2>3. Size(w) = w.pieces[Len(w.pieces)] - w.from
    BY <1>1, Zenon DEF Size
  <2>4. n = Size(w) => b = w.pieces[Len(w.pieces)]
    BY <1>1, <1>3, <2>2, <2>3, SMTT(40)
  <2> QED BY <2>2, <2>4, Zenon DEF Range
<1>9. b \notin Range(w.pieces) => n = r.room
  BY <1>1, <1>8, Zenon DEF Least
<1>10. /\ w' \in WriterType /\ WriterOK(w', given) /\ w'.op = "write"
       /\ w'.from = b /\ w'.first = w.first
       /\ state' = "write" => w'.pieces # <<>> /\ Unsettled(w')
       /\ state' # "write" => (Waiting(w') => RestIsDue')
  <2>1. CASE b \notin Range(w.pieces)
    <3>1. /\ a \in WriterType /\ WriteOK(a, given) /\ a.op = w.op /\ a.from = w.from + n
          /\ a.first = w.first /\ a.result = Pending
          /\ a.pieces = <<>> <=> n = Size(w)
      BY <1>1, <1>2, <1>4, RetryFacts, SMTT(40)
    <3> QED BY <1>1, <1>3, <1>7, <1>8, <2>1, <3>1, ZenonT(40) DEF WriterOK, Unsettled
  <2>2. CASE b \in Range(w.pieces)
    <3>1. b \in w.from .. given
      BY <1>1, <1>3, SMTT(40)
    <3>2. e \in WriterType /\ WriteOK(e, given)
      BY <1>1, <1>2, <1>5, <3>1, RestFacts, ZenonT(30)
    <3>3. e.op = "write" /\ e.from = b /\ e.first = w.first /\ e.pieces = <<>> /\ Unsettled(e)
      BY <1>1, <1>2, <1>5, Zenon DEF WriterType, Unsettled
    <3>4. w' = Written(e) /\ state' # "write"
      BY <1>7, <2>2, Zenon
    <3>5. /\ w' \in WriterType /\ WriterOK(w', given) /\ w'.op = "write"
          /\ w'.from = e.from /\ w'.first = e.first /\ w'.pieces = <<>>
          /\ w'.rest = e.rest /\ (w'.result = Pending => e.rest # <<>>)
      BY <1>1, <3>2, <3>3, <3>4, WrittenFacts, ZenonT(40)
    <3> QED BY <3>3, <3>4, <3>5, Zenon DEF Waiting, RestIsDue
  <2> QED BY <2>1, <2>2, Zenon
<1>11. /\ TypeOK' /\ WriterOK(w', given') /\ ReaderOK' /\ OrderOK' /\ TransferOK'
       /\ r'.op = "pump" /\ (n < r.need => Unsettled(r')) /\ (n >= r.need => ~Waiting(r'))
  <2>1. n < r.need => r' = Got(n)
    BY <1>1, <1>7, SMTT(40)
  <2>2. n >= r.need => r' = Fulfil(Got(n), r.count + n) /\ state' \notin ReadStates
    BY <1>1, <1>6, <1>7, SMTT(40) DEF ReadStates
  <2>3. state' \in States
    BY <1>7, Zenon DEF States
  <2> QED BY <1>3, <1>10, <2>1, <2>2, <2>3, OutputDone, ZenonT(40)
<1>12. ObjectOK'
  <2>1. state' = "pumpTo" => Unsettled(r')
    BY <1>1, <1>7, <1>11, SMTT(40)
  <2> QED BY <1>7, <1>10, <1>11, <2>1, ZenonT(40) DEF ObjectOK
<1>13. NobodyForgotten'
  <2>1. Waiting(r') => state' = "pumpTo"
    BY <1>1, <1>7, <1>9, <1>11, Zenon
  <2> QED BY <1>10, <2>1, Zenon DEF NobodyForgotten, ReadStates, WriteStates
<1> QED BY <1>11, <1>12, <1>13, Zenon DEF IInv

(* The pump of the write end after k bytes of its input have been read.    *)
Gave(p, k) ==
  /\ p \in WriterType /\ p.op = "pump" /\ p.pieces = <<>> /\ p.rest = <<>>
  /\ p.left = w.left - k /\ p.input = w.input - k /\ p.taken = w.taken + k
  /\ p.amount = w.amount /\ p.result = w.result

\* A read of the input: who takes part in it, and how much it can get.
LEMMA InputFacts ==
  ASSUME IInv, x.kind \in {"in", "pump"},
         NEW k \in Available(Least(w.left, r.need), Least(w.left, r.room))
  PROVE  /\ w \in WriterType /\ w.op = "pump" /\ Unsettled(w) /\ PumpOK(w)
         /\ w.pieces = <<>> /\ w.rest = <<>> /\ given \in Nat
         /\ w.left \in Nat /\ w.input \in Nat /\ w.count \in Nat /\ w.taken \in Nat
         /\ r \in ReaderType /\ r.op \in {"read", "pump"} /\ Unsettled(r) /\ Active
         /\ r.room \in Nat /\ r.need \in Nat /\ r.count \in Nat
         /\ r.need <= r.room /\ (r.op = "pump" => r.need = r.room)
         /\ k \in Nat /\ k <= w.left /\ k <= r.room /\ k <= w.input
         /\ k < r.need => k = w.left \/ k = w.input
         /\ k < Least(w.left, r.need) => k = w.input
         /\ state = "read" => r.op = "read"
         /\ state = "pumpTo" => r.op = "pump"
         /\ w.left - k \in Nat /\ w.input - k \in Nat
         /\ w.taken + k \in Nat /\ w.count + k \in Nat
<1>1. TypeOK /\ ObjectOK /\ WriterOK(w, given) /\ TransferOK /\ ReaderOK
  BY Zenon DEF IInv
<1>2. /\ w \in WriterType /\ r \in ReaderType /\ given \in Nat
      /\ w.left \in Nat /\ w.input \in Nat /\ w.count \in Nat /\ w.taken \in Nat
      /\ r.room \in Nat /\ r.need \in Int /\ r.count \in Nat
  BY <1>1, Zenon DEF TypeOK, WriterType, ReaderType
<1>3. w.op = "pump" /\ Unsettled(w) /\ r.op \in {"read", "pump"}
      /\ (state = "read" => r.op = "read") /\ (state = "pumpTo" => r.op = "pump")
  BY <1>1, Zenon DEF TransferOK, InOK, BothOK, ObjectOK, Waiting, Unsettled
<1>4. PumpOK(w) /\ w.pieces = <<>> /\ w.rest = <<>>
  BY <1>1, <1>3, Zenon DEF WriterOK
<1>5. Active
  BY Zenon DEF Active, Moving
<1>6. Unsettled(r) /\ 0 < r.need /\ r.need <= r.room /\ (r.op = "pump" => r.need = r.room)
  BY <1>1, <1>5, Zenon DEF ReaderOK, CountsOK
<1>7. r.need \in Nat
  BY <1>2, <1>6, SMTT(40)
<1>8. /\ k \in Nat /\ k <= w.left /\ k <= r.room /\ k <= w.input
      /\ k < r.need => k = w.left \/ k = w.input
      /\ k < Least(w.left, r.need) => k = w.input
  BY <1>2, <1>7, SMTT(40) DEF Available, Least
<1>9. \A i \in Nat : (k <= i => i - k \in Nat) /\ i + k \in Nat
  <2>1. k \in Nat
    BY <1>8, Zenon
  <2> QED BY <2>1
<1>10. /\ w.left - k \in Nat /\ w.input - k \in Nat
       /\ w.taken + k \in Nat /\ w.count + k \in Nat
  BY <1>2, <1>8, <1>9, Zenon
<1> QED BY <1>2, <1>3, <1>4, <1>5, <1>6, <1>7, <1>8, <1>10, ZenonT(40)

\* The read of the input is done.  The read end has enough or waits for more,
\* and the pump of the write end goes on only in the former case.
LEMMA InputDone ==
  ASSUME IInv, x.kind \in {"in", "pump"},
         NEW k \in Available(Least(w.left, r.need), Least(w.left, r.room)),
         NEW p, Gave(p, k), given' = given + k,
         Receives(given, given + k), x' = NoTransfer,
         UNCHANGED <<dropped, torn>>,
         k < r.need => r' = Got(k) /\ state' = IF r.op = "read" THEN "read" ELSE "pumpTo",
         k >= r.need => /\ r' = Fulfil(Got(k), r.count + k)
                        /\ state' \in {"none", "pumpFrom"},
         IF state' = "pumpFrom" THEN w' = p
         ELSE w' = Fulfil(p, p.count) /\ (p.left = 0 \/ p.input = 0)
  PROVE  IInv'
<1>1. /\ w \in WriterType /\ w.op = "pump" /\ Unsettled(w) /\ PumpOK(w) /\ given \in Nat
      /\ w.left \in Nat /\ w.input \in Nat /\ w.taken \in Nat
      /\ r.op \in {"read", "pump"} /\ Active /\ r.need \in Nat
      /\ k \in Nat /\ k <= w.left /\ k <= r.room
  BY InputFacts, Zenon
<1>2. x.kind # "out" /\ x' \in TransferType /\ x'.kind = "none"
  BY Zenon DEF NoTransfer, Transfer, TransferType
<1>3. PumpOK(p) /\ Unsettled(p) /\ p \in WriterType /\ p.op = "pump" /\ p.count \in Nat
      /\ p.pieces = <<>> /\ p.rest = <<>>
  <2>1. p.taken + p.left = p.amount
    <3>1. w.taken + k + (w.left - k) = w.taken + w.left
      BY <1>1, SMTT(40)
    <3> QED BY <1>1, <3>1, Zenon DEF Gave, PumpOK
  <2>2. ~(p.result >= 0)
    BY <1>1, SMTT(40) DEF Gave, Unsettled, Pending, Failed
  <2> QED BY <1>1, <2>1, <2>2, Zenon DEF Gave, PumpOK, Unsettled, WriterType
<1>4. /\ w' \in WriterType /\ w'.op = "pump" /\ WriterOK(w', given')
      /\ state' = "pumpFrom" => Unsettled(w')
      /\ state' # "pumpFrom" => ~Waiting(w')
  <2>1. CASE state' = "pumpFrom"
    BY <1>3, <2>1, Zenon DEF WriterOK
  <2>2. CASE state' # "pumpFrom"
    <3>1. /\ w' \in WriterType /\ w'.op = "pump" /\ w'.pieces = <<>> /\ w'.rest = <<>>
          /\ w'.left = p.left /\ w'.input = p.input /\ w'.amount = p.amount
          /\ w'.taken = p.taken /\ w'.result # Pending
      BY <1>3, <2>2, FulfilFacts, SMTT(40) DEF Pending
    <3>2. PumpOK(w')
      BY <1>3, <2>2, <3>1, Zenon DEF PumpOK
    <3> QED BY <2>2, <3>1, <3>2, ZenonT(40) DEF WriterOK, Waiting
  <2> QED BY <2>1, <2>2, Zenon
<1>5. received' \in Seq(Nat) /\ Len(received') = Len(received) + k
  <2>1. received \in Seq(Nat)
    BY Zenon DEF IInv, TypeOK
  <2> QED BY <1>1, <2>1, RunLen, Zenon DEF Receives
<1>6. /\ r' \in ReaderType /\ r'.op = r.op /\ ReaderOK'
      /\ k < r.need => Unsettled(r')
      /\ k >= r.need => ~Waiting(r')
  <2>1. Len(received') = Len(received) + k - Sent
    <3>1. Len(received) \in Nat /\ Sent = 0
      BY <1>2, SMTT(40) DEF IInv, TypeOK, Sent
    <3> QED BY <1>1, <1>5, <3>1, SMTT(40)
  <2>2. k >= r.need => state' \notin ReadStates
    BY Zenon DEF ReadStates
  <2> QED BY <1>1, <1>2, <2>1, <2>2, ReaderGot, ZenonT(40)
<1>7. \/ k < r.need /\ state' = IF r.op = "read" THEN "read" ELSE "pumpTo"
      \/ k >= r.need /\ state' \in {"none", "pumpFrom"}
  BY <1>1, SMTT(40)
<1>8. TypeOK'
  <2>1. state' \in States /\ given' \in Nat
    BY <1>1, <1>7, SMTT(40) DEF States
  <2> QED BY <1>2, <1>4, <1>5, <1>6, <2>1, ZenonT(40) DEF IInv, TypeOK
<1>9. ObjectOK' /\ TransferOK'
  BY <1>1, <1>2, <1>4, <1>6, <1>7, ZenonT(40) DEF ObjectOK, TransferOK
<1>10. OrderOK'
  <2>1. Pos = given /\ Low = given /\ Pos' = given + k /\ Low' = given + k
    BY <1>1, <1>2, <1>4, ZenonT(40) DEF Pos, Low
  <2>2. /\ Pos <= given + k /\ given + k <= given' /\ given <= given' /\ Low <= Low'
        /\ Low' <= given + k /\ given + k <= Pos' /\ given + k \in Nat
    BY <1>1, <2>1, SMTT(40)
  <2> QED BY <1>4, <1>8, <2>1, <2>2, OrderMoved, ZenonT(40) DEF Receives
<1>11. NobodyForgotten'
  <2>1. Waiting(r') => state' \in ReadStates
    BY <1>6, <1>7, Zenon DEF ReadStates
  <2> QED BY <1>4, <2>1, Zenon DEF NobodyForgotten, ReadStates, WriteStates
<1> QED BY <1>4, <1>6, <1>8, <1>9, <1>10, <1>11, ZenonT(40) DEF IInv

\* A read of the input that the read end has started is done.
LEMMA ReadFromInputInv ==
  ASSUME IInv, x.kind \in {"in", "pump"},
         NEW k \in Available(Least(w.left, r.need), Least(w.left, r.room)),
         given' = given + k, Receives(given, given + k),
         x' = NoTransfer, UNCHANGED <<dropped, torn>>,
         state = "pumpFrom", ReadFromInput(k, Least(w.left, r.need))
  PROVE  IInv'
<1>1. /\ w \in WriterType /\ w.op = "pump" /\ w.pieces = <<>> /\ w.rest = <<>>
      /\ w.left \in Nat /\ w.input \in Nat /\ w.count \in Nat /\ w.taken \in Nat
      /\ r \in ReaderType /\ r.op \in {"read", "pump"} /\ r.need \in Nat
      /\ k \in Nat /\ k <= w.left /\ k <= w.input
      /\ k < r.need => k = w.left \/ k = w.input
      /\ k < Least(w.left, r.need) => k = w.input
  BY InputFacts, Zenon
<1>2. PICK p : p = [w EXCEPT !.isReadOutstanding = FALSE, !.input = @ - k, !.taken = @ + k,
                             !.left = @ - k, !.count = @ + k]
  BY Zenon
<1>3. Gave(p, k)
  <2>1. w.input - k \in Nat /\ w.taken + k \in Nat /\ w.left - k \in Nat /\ w.count + k \in Nat
    BY InputFacts, Zenon
  <2> QED BY <1>1, <1>2, <2>1, Zenon DEF Gave, WriterType
<1>4. Got(k).need = r.need - k /\ Got(k).count = r.count + k
  BY <1>1, Zenon DEF Got, ReaderType
<1>5. /\ w' = IF p.left = 0 \/ k < Least(w.left, r.need) THEN Fulfil(p, p.count) ELSE p
      /\ r' = IF Got(k).need <= 0 THEN Fulfil(Got(k), Got(k).count) ELSE Got(k)
      /\ state' = IF ~(Got(k).need <= 0) THEN (IF r.op = "read" THEN "read" ELSE "pumpTo")
                  ELSE IF p.left = 0 \/ k < Least(w.left, r.need) THEN "none" ELSE state
  BY <1>2, SMTT(40) DEF ReadFromInput, Got
<1>6. Got(k).need <= 0 <=> k >= r.need
  BY <1>1, <1>4, SMTT(40)
<1>7. ~(Got(k).need <= 0) <=> k < r.need
  BY <1>1, <1>6, SMTT(40)
<1>8. k < Least(w.left, r.need) => p.input = 0
  BY <1>1, <1>3, SMTT(40) DEF Gave
<1>9. k < r.need => p.left = 0 \/ k < Least(w.left, r.need)
  BY <1>1, <1>3, SMTT(40) DEF Gave, Least
<1>10. k < r.need => r' = Got(k) /\ state' = IF r.op = "read" THEN "read" ELSE "pumpTo"
  BY <1>5, <1>7, Zenon
<1>11. k >= r.need => r' = Fulfil(Got(k), r.count + k) /\ state' \in {"none", "pumpFrom"}
  BY <1>4, <1>5, <1>6, Zenon
<1>12. IF state' = "pumpFrom" THEN w' = p
       ELSE w' = Fulfil(p, p.count) /\ (p.left = 0 \/ p.input = 0)
  BY <1>5, <1>7, <1>8, <1>9, ZenonT(40)
<1> QED BY <1>3, <1>10, <1>11, <1>12, InputDone, ZenonT(40)

\* A read of the input on behalf of a blocked read is done.
LEMMA InputIntoReadInv ==
  ASSUME IInv, x.kind \in {"in", "pump"},
         NEW k \in Available(Least(w.left, r.need), Least(w.left, r.room)),
         given' = given + k, Receives(given, given + k),
         x' = NoTransfer, UNCHANGED <<dropped, torn>>,
         state = "read", InputIntoRead(k)
  PROVE  IInv'
<1>1. /\ w \in WriterType /\ w.op = "pump" /\ w.pieces = <<>> /\ w.rest = <<>>
      /\ w.left \in Nat /\ w.input \in Nat /\ w.count \in Nat /\ w.taken \in Nat
      /\ r \in ReaderType /\ r.op = "read" /\ r.need \in Nat
      /\ k \in Nat /\ k <= w.left /\ k <= w.input
      /\ k < r.need => k = w.left \/ k = w.input
  BY InputFacts, Zenon
<1>2. PICK p : p = [w EXCEPT !.input = @ - k, !.taken = @ + k, !.left = @ - k,
                             !.count = @ + k]
  BY Zenon
<1>3. Gave(p, k) /\ p.left \in Nat
  <2>1. w.input - k \in Nat /\ w.taken + k \in Nat /\ w.left - k \in Nat /\ w.count + k \in Nat
    BY InputFacts, Zenon
  <2> QED BY <1>1, <1>2, <2>1, ZenonT(40) DEF Gave, WriterType
<1>4. Got(k).need = r.need - k /\ Got(k).count = r.count + k
  BY <1>1, Zenon DEF Got, ReaderType
<1>5. /\ w' = IF Got(k).need <= 0 /\ p.left > 0 THEN p ELSE Fulfil(p, p.count)
      /\ r' = IF Got(k).need <= 0 THEN Fulfil(Got(k), Got(k).count) ELSE Got(k)
      /\ state' = IF ~(Got(k).need <= 0) THEN state
                  ELSE IF p.left > 0 THEN "pumpFrom" ELSE "none"
  BY <1>2, SMTT(40) DEF InputIntoRead, Got
<1>6. Got(k).need <= 0 <=> k >= r.need
  BY <1>1, <1>4, SMTT(40)
<1>7. ~(Got(k).need <= 0) <=> k < r.need
  BY <1>1, <1>6, SMTT(40)
<1>8. p.left > 0 \/ p.left = 0
  BY <1>3, SMTT(40)
<1>9. k < r.need => p.left = 0 \/ p.input = 0
  BY <1>1, <1>3, SMTT(40) DEF Gave
<1>10. k < r.need => r' = Got(k) /\ state' = IF r.op = "read" THEN "read" ELSE "pumpTo"
  BY <1>1, <1>5, <1>7, ZenonT(40)
<1>11. k >= r.need => r' = Fulfil(Got(k), r.count + k) /\ state' \in {"none", "pumpFrom"}
  BY <1>4, <1>5, <1>6, Zenon
<1>12. IF state' = "pumpFrom" THEN w' = p
       ELSE w' = Fulfil(p, p.count) /\ (p.left = 0 \/ p.input = 0)
  BY <1>5, <1>7, <1>8, <1>9, Zenon
<1> QED BY <1>3, <1>10, <1>11, <1>12, InputDone, ZenonT(40)

\* A pump of the input to the output of a blocked pump is done.
LEMMA InputIntoPumpInv ==
  ASSUME IInv, x.kind \in {"in", "pump"},
         NEW k \in Available(Least(w.left, r.need), Least(w.left, r.room)),
         given' = given + k, Receives(given, given + k),
         x' = NoTransfer, UNCHANGED <<dropped, torn>>,
         state = "pumpTo", InputIntoPump(k)
  PROVE  IInv'
<1>1. /\ w \in WriterType /\ w.op = "pump" /\ w.pieces = <<>> /\ w.rest = <<>>
      /\ w.left \in Nat /\ w.input \in Nat /\ w.count \in Nat /\ w.taken \in Nat
      /\ r \in ReaderType /\ r.op = "pump" /\ r.need = r.room /\ r.room \in Nat
      /\ k \in Nat /\ k <= w.left /\ k <= w.input /\ k <= r.room
      /\ k < Least(w.left, r.need) => k = w.input
  BY InputFacts, Zenon
<1>2. PICK p : p = [w EXCEPT !.input = @ - k, !.taken = @ + k, !.left = @ - k,
                             !.count = @ + k]
  BY Zenon
<1>3. PICK u : u = [p EXCEPT !.count = 0]
  BY Zenon
<1>4. Gave(p, k) /\ p.left \in Nat
  <2>1. w.input - k \in Nat /\ w.taken + k \in Nat /\ w.left - k \in Nat /\ w.count + k \in Nat
    BY InputFacts, Zenon
  <2> QED BY <1>1, <1>2, <2>1, Zenon DEF Gave, WriterType
<1>5. Gave(u, k)
  BY <1>3, <1>4, Zenon DEF Gave, WriterType
<1>6. Got(k).room = r.room - k /\ Got(k).count = r.count + k
  BY <1>1, Zenon DEF Got, ReaderType
<1>7. PICK goesOn : goesOn <=> p.left > 0 /\ k = Least(w.left, r.room)
  BY Zenon
<1>8. /\ r' = IF Got(k).room = 0 THEN Fulfil(Got(k), Got(k).count) ELSE Got(k)
      /\ w' = IF goesOn THEN u ELSE Fulfil(p, p.count)
      /\ state' = IF goesOn THEN "pumpFrom" ELSE IF Got(k).room = 0 THEN "none" ELSE state
  BY <1>2, <1>3, <1>7, SMTT(40) DEF InputIntoPump, Got
<1>9. Got(k).room = 0 <=> k >= r.need
  BY <1>1, <1>6, SMTT(40)
<1>10. ~(Got(k).room = 0) <=> k < r.need
  BY <1>1, <1>9, SMTT(40)
<1>11. goesOn => k >= r.need
  BY <1>1, <1>4, <1>7, SMTT(40) DEF Gave, Least
<1>12. ~goesOn => p.left = 0 \/ p.input = 0
  BY <1>1, <1>4, <1>7, SMTT(40) DEF Gave, Least
<1>13. k < r.need => r' = Got(k) /\ state' = IF r.op = "read" THEN "read" ELSE "pumpTo"
  BY <1>1, <1>8, <1>9, <1>10, <1>11, Zenon
<1>14. k >= r.need => r' = Fulfil(Got(k), r.count + k) /\ state' \in {"none", "pumpFrom"}
  BY <1>6, <1>8, <1>9, ZenonT(40)
<1>15. CASE goesOn
  BY <1>5, <1>8, <1>13, <1>14, <1>15, InputDone, ZenonT(40)
<1>16. CASE ~goesOn
  <2>1. state' # "pumpFrom"
    BY <1>8, <1>16, ZenonT(40)
  <2> QED BY <1>4, <1>8, <1>12, <1>13, <1>14, <1>16, <2>1, InputDone, ZenonT(40)
<1> QED BY <1>15, <1>16, Zenon

-----------------------------------------------------------------------------
(* The inductive invariant holds.                                          *)

\* The operations that tryRead() and pumpTo() create.
LEMMA NewReader ==
  ASSUME TypeOK, NEW op \in {"read", "pump"}, NEW a \in Nat, NEW b \in Nat,
         0 < a, a <= b, op = "pump" => a = b
  PROVE  Fresh(Reader(op, a, b))
<1>1. Len(received) \in Nat
  BY SMTT(40) DEF TypeOK
<1> QED BY <1>1, SMTT(40) DEF Fresh, Reader, ReaderType, Pending

\* The operations that write() and tryWriteSync() create.
LEMMA NewWriteOffered ==
  ASSUME IInv, w.op = "idle", NEW ends \in Writes, NEW q, q = NewWrite(ends),
         given' = given + Size(q)
  PROVE  Offered(q) /\ q.op = "write"
<1>1. given \in Nat /\ x.kind = "none" /\ Low = given
  BY KindFacts, Zenon DEF IInv, TypeOK, Low
<1>2. /\ ends \in Seq(Nat) /\ ends # <<>> /\ ends[1] > 0
      /\ \A i, j \in DOMAIN ends : i <= j => ends[i] <= ends[j]
  BY PipeAssumption, Zenon
<1>3. PICK n : n = Len(ends)
  BY Zenon
<1>4. n \in Nat /\ n >= 1 /\ DOMAIN ends = 1..n /\ \A i \in 1..n : ends[i] \in Nat
  BY <1>2, <1>3, SMTT(40)
<1>5. PICK s : s = [i \in 1..n |-> given + ends[i]]
  BY Zenon
<1>6. s \in Seq(Nat) /\ Len(s) = n /\ \A i \in 1..n : s[i] = given + ends[i]
  BY <1>1, <1>4, <1>5, SMTT(40)
<1>7. s # <<>> /\ End(s) = given + ends[n] /\ s[1] > given /\ ends[n] \in Nat
  BY <1>1, <1>2, <1>4, <1>6, SMTT(40) DEF End
<1>8. Sorted(s)
  <2>1. ASSUME NEW i \in 1..n, NEW j \in 1..n, i <= j PROVE s[i] <= s[j]
    <3>1. ends[i] <= ends[j] /\ ends[i] \in Nat /\ ends[j] \in Nat
      BY <1>2, <1>4, <2>1, Zenon
    <3>2. s[i] = given + ends[i] /\ s[j] = given + ends[j]
      BY <1>6, Zenon
    <3> QED BY <1>1, <3>1, <3>2, SMTT(40)
  <2> QED BY <1>6, <2>1, Zenon DEF Sorted
<1>9. /\ q.op = "write" /\ q.from = given /\ q.pieces = s /\ q.rest = <<>>
      /\ q.first = given + 1 /\ q.result = Pending /\ q \in WriterType
  BY <1>1, <1>4, <1>5, <1>6, SMTT(40) DEF NewWrite, Writer, WriterType, Pending
<1>10. Size(q) = ends[n]
  BY <1>1, <1>7, <1>9, SMTT(40) DEF Size, End
<1>11. given' \in Nat /\ given <= given' /\ End(s) = given'
  BY <1>1, <1>7, <1>10, SMTT(40)
<1>12. WriteOK(q, given')
  <2>1. Sorted(<<>>) /\ ~(q.result >= 0)
    BY <1>9, SMTT(40) DEF Sorted, Pending
  <2>2. q.first <= q.from + 1
    BY <1>1, <1>9, SMTT(40)
  <2> QED BY <1>7, <1>8, <1>9, <1>11, <2>1, <2>2, SMTT(40) DEF WriteOK
<1> QED BY <1>1, <1>7, <1>9, <1>11, <1>12, ZenonT(40) DEF Offered, WriterOK

\* The operation that tryPumpFrom() creates.
LEMMA NewPumpOffered ==
  ASSUME IInv, w.op = "idle", NEW n \in Amounts, NEW k \in Inputs, given' = given
  PROVE  Offered(Writer("pump", <<>>, n, k))
<1>1. given \in Nat /\ x.kind = "none"
  BY KindFacts, Zenon DEF IInv, TypeOK
<1>2. n \in Nat /\ k \in Nat
  BY PipeAssumption, Zenon
<1>3. PICK q : q = Writer("pump", <<>>, n, k)
  BY ZenonT(40)
<1>4. /\ q \in WriterType /\ q.op = "pump" /\ q.result = Pending /\ q.pieces = <<>>
      /\ q.rest = <<>> /\ q.taken = 0 /\ q.left = n /\ q.amount = n
  BY <1>1, <1>2, <1>3, SMTT(40) DEF Writer, WriterType, Pending
<1>5. PumpOK(q)
  BY <1>2, <1>4, SMTT(40) DEF PumpOK, Pending
<1> QED BY <1>1, <1>3, <1>4, <1>5, SMTT(40) DEF Offered, WriterOK

\* The rest of a write that was split.
LEMMA RestOffered ==
  ASSUME MinIsLeast, IInv, RestIsDue, NEW q,
         q = [w EXCEPT !.pieces = Beyond(w.rest, w.from), !.rest = <<>>],
         q.pieces # <<>>, given' = given
  PROVE  Offered(q)
<1>1. w \in WriterType /\ given \in Nat /\ w.result = Pending /\ w.pieces = <<>>
      /\ w.rest # <<>> /\ w.op = "write" /\ WriteOK(w, given) /\ x.kind = "none"
  <2>1. x.kind = "none"
    BY KindFacts, Zenon
  <2> QED BY <2>1, Zenon DEF IInv, RestIsDue, Waiting, TypeOK, WriterOK
<1>2. q \in WriterType /\ WriteOK(q, given)
  BY <1>1, RestFacts, ZenonT(30)
<1>3. /\ q.op = "write" /\ q.from = w.from /\ q.first = w.first /\ q.result = Pending
      /\ q.rest = <<>>
  BY <1>1, Zenon DEF WriterType
<1> QED BY <1>1, <1>2, <1>3, SMTT(40) DEF Offered, WriterOK, Low

\* The invariant holds initially.
LEMMA InitInv ==
  ASSUME Init
  PROVE  IInv
<1>1. /\ state = "none" /\ r = NoReader /\ w = NoWriter /\ x = NoTransfer
      /\ received = <<>> /\ given = 0 /\ dropped = {} /\ torn = FALSE
  BY Zenon DEF Init
<1>2. x \in TransferType /\ x.kind = "none"
  BY <1>1, Zenon DEF NoTransfer, Transfer, TransferType
<1>3. r \in ReaderType /\ r.op = "idle" /\ r.need = r.room
  BY <1>1, SMTT(40) DEF NoReader, ReaderType
<1>4. w \in WriterType /\ w.op = "idle" /\ w.pieces = <<>> /\ w.rest = <<>>
  <2>1. NoWriter.op = "idle" /\ NoWriter.pieces = <<>> /\ NoWriter.rest = <<>>
    BY Zenon DEF NoWriter
  <2>2. <<>> \in Seq(Nat)
    BY SMTT(40)
  <2>3. NoWriter \in WriterType
    BY <2>2, SMTT(40) DEF NoWriter, WriterType
  <2> QED BY <1>1, <2>1, <2>3, Zenon
<1>5. TypeOK /\ ObjectOK /\ WriterOK(w, given) /\ TransferOK
  <2>1. received \in Seq(Nat) /\ given \in Nat /\ dropped \in SUBSET Nat
    BY <1>1, SMTT(40)
  <2> QED BY <1>1, <1>2, <1>3, <1>4, <2>1, ZenonT(40)
          DEF TypeOK, ObjectOK, WriterOK, TransferOK, States
<1>6. ReaderOK
  BY <1>1, <1>2, <1>3, Zenon DEF ReaderOK, Active, Moving, ReadStates, ReadsAsPromised
<1>7. OrderOK
  <2>1. Range(received) = {} /\ Held(w) = {} /\ 1..given = {}
    BY <1>1, <1>4, SMTT(40) DEF Range, Held
  <2>2. Increasing(received) /\ \A i \in 1..Len(received) : received[i] <= Pos
    BY <1>1, SMTT(40) DEF Increasing
  <2> QED BY <1>1, <1>4, <2>1, <2>2, ZenonT(40) DEF OrderOK, NothingLost
<1>8. NobodyForgotten
  BY <1>3, <1>4, Zenon DEF NobodyForgotten, Waiting
<1> QED BY <1>5, <1>6, <1>7, <1>8, Zenon DEF IInv

\* The steps of the read end.
LEMMA ReadEndInv ==
  ASSUME MinIsLeast, IInv, TryReadSync \/ TryRead \/ PumpTo
  PROVE  IInv'
<1>1. TypeOK
  BY Zenon DEF IInv
<1>2. ASSUME NEW m \in Reads PROVE Fresh(Reader("read", m[1], m[2]))
  <2>1. m[1] \in Nat /\ m[2] \in Nat /\ 0 < m[1] /\ m[1] <= m[2]
    BY PipeAssumption, Zenon
  <2> QED BY <1>1, <2>1, NewReader, Zenon
<1>3. ASSUME NEW n \in Amounts PROVE Fresh(Reader("pump", n, n))
  <2>1. n \in Nat /\ 0 < n /\ n <= n
    BY PipeAssumption, SMTT(40)
  <2> QED BY <1>1, <2>1, NewReader, Zenon
<1>4. CASE TryReadSync
  BY <1>2, <1>4, ReadFromWriteInv, ReadEndedInv, Zenon DEF TryReadSync
<1>5. CASE TryRead
  BY <1>2, <1>5, ReadInv, Zenon DEF TryRead
<1>6. CASE PumpTo
  BY <1>3, <1>6, ReadInv, Zenon DEF PumpTo
<1> QED BY <1>4, <1>5, <1>6, Zenon

\* The steps of the write end.
LEMMA WriteEndInv ==
  ASSUME MinIsLeast, IInv, Write \/ TryWriteSync \/ TryPumpFrom \/ WriteRest
  PROVE  IInv'
<1>1. CASE Write
  <2>1. PICK ends \in Writes : given' = given + Size(NewWrite(ends)) /\ write(NewWrite(ends))
    BY <1>1, Zenon DEF Write
  <2>2. w.op = "idle"
    BY <1>1, Zenon DEF Write
  <2>3. Offered(NewWrite(ends))
    BY <2>1, <2>2, NewWriteOffered, Zenon
  <2> QED BY <2>1, <2>3, WriteInv, Zenon
<1>2. CASE TryWriteSync
  <2>1. PICK ends \in Writes : LET q == NewWrite(ends) IN
          /\ given' = given + Size(q) /\ Size(q) <= r.room
          /\ \/ WriteToRead(q)
             \/ /\ state = "pumpTo"
                /\ Receives(given, given + Size(q))
                /\ w' = Written(Advance(q, Size(q)))
                /\ r' = LET s == [r EXCEPT !.need = @ - Size(q), !.room = @ - Size(q),
                                           !.count = @ + Size(q)]
                        IN IF s.room = 0 THEN Fulfil(s, s.count) ELSE s
                /\ state' = IF Size(q) = r.room THEN "none" ELSE state
                /\ UNCHANGED <<x, dropped, torn>>
    BY <1>2, Zenon DEF TryWriteSync, Receives
  <2>2. w.op = "idle"
    BY <1>2, Zenon DEF TryWriteSync
  <2>3. PICK q : q = NewWrite(ends)
    BY Zenon
  <2>4. Offered(q) /\ q.op = "write"
    BY <2>1, <2>2, <2>3, NewWriteOffered, ZenonT(40)
  <2>5. CASE WriteToRead(q)
    BY <2>4, <2>5, WriteToReadInv, Zenon
  <2>6. CASE ~WriteToRead(q)
    BY <2>1, <2>2, <2>3, <2>4, <2>6, WriteSyncInv, ZenonT(40)
  <2> QED BY <2>5, <2>6, Zenon
<1>3. CASE TryPumpFrom
  <2>1. PICK n \in Amounts, k \in Inputs : write(Writer("pump", <<>>, n, k))
    BY <1>3, Zenon DEF TryPumpFrom
  <2>2. w.op = "idle" /\ given' = given
    BY <1>3, Zenon DEF TryPumpFrom
  <2> QED BY <2>1, <2>2, NewPumpOffered, WriteInv, Zenon
<1>4. CASE WriteRest
  <2>1. PICK q : q = [w EXCEPT !.pieces = Beyond(w.rest, w.from), !.rest = <<>>]
    BY Zenon
  <2>2. RestIsDue /\ given' = given
    BY <1>4, Zenon DEF WriteRest
  <2>3. CASE q.pieces # <<>> /\ write(q)
    BY <2>1, <2>2, <2>3, RestOffered, WriteInv, Zenon
  <2>4. CASE ~(q.pieces # <<>> /\ write(q))
    <3>1. /\ w' = Fulfil(q, IF q.pieces = <<>> THEN 0 ELSE Failed)
          /\ UNCHANGED <<state, r, x, received, dropped, torn>>
      BY <1>4, <2>1, <2>4, Zenon DEF WriteRest
    <3>2. PICK n \in {0, Failed} : w' = Fulfil(q, n) /\ (n = 0 => q.pieces = <<>>)
      BY <3>1, SMTT(40) DEF Failed
    <3> QED BY <2>1, <2>2, <3>1, <3>2, RestEndsInv, ZenonT(40)
  <2> QED BY <2>3, <2>4, Zenon
<1> QED BY <1>1, <1>2, <1>3, <1>4, Zenon

\* The steps of the application's streams.
LEMMA StreamInv ==
  ASSUME MinIsLeast, IInv, OutputWritten \/ InputRead
  PROVE  IInv'
<1>1. CASE OutputWritten
  <2>1. PICK c \in x.cuts :
          /\ x.at < c /\ Receives(x.at, c)
          /\ IF \E d \in x.cuts : c < d
             THEN /\ x' = [x EXCEPT !.at = c, !.moved = TRUE]
                  /\ UNCHANGED <<state, r, w>>
             ELSE /\ x' = NoTransfer
                  /\ IF state = "write" THEN PumpedFromWrite ELSE WrittenToPump
    BY <1>1, Zenon DEF OutputWritten, Receives
  <2>2. x.kind = "out" /\ UNCHANGED <<given, dropped, torn>>
    BY <1>1, ZenonT(40) DEF OutputWritten
  <2>3. CASE \E d \in x.cuts : c < d
    BY <2>1, <2>2, <2>3, OutputGoesOnInv, ZenonT(40)
  <2>4. CASE ~(\E d \in x.cuts : c < d)
    <3>1. PICK n : n = Least(Size(w), r.room)
      BY Zenon
    <3>2. /\ Stop = w.from + n /\ Stop \in x.cuts /\ \A d \in x.cuts : d <= Stop /\ d \in Nat
      BY <2>2, <3>1, OutFacts, ZenonT(40)
    <3>3. c = w.from + n
      BY <2>4, <3>2, SMTT(40)
    <3>4. /\ x.at < w.from + n /\ Receives(x.at, w.from + n)
          /\ x' = NoTransfer
          /\ IF state = "write" THEN PumpedFromWrite ELSE WrittenToPump
      BY <2>1, <2>4, <3>3, ZenonT(40)
    <3>5. state \in {"write", "pumpTo"}
      BY <2>2, ZenonT(40) DEF IInv, TransferOK, OutOK
    <3> QED BY <2>2, <3>1, <3>4, <3>5, PumpedFromWriteInv, WrittenToPumpInv, ZenonT(40)
  <2> QED BY <2>3, <2>4, Zenon
<1>2. CASE InputRead
  <2>1. x.kind \in {"in", "pump"} /\ x' = NoTransfer /\ UNCHANGED <<dropped, torn>>
    BY <1>2, Zenon DEF InputRead
  <2>2. state \in {"pumpFrom", "read", "pumpTo"}
    BY <2>1, Zenon DEF IInv, TransferOK, InOK, BothOK
  <2>3. PICK k \in Available(Least(w.left, r.need), Least(w.left, r.room)) :
          /\ given' = given + k /\ Receives(given, given + k)
          /\ state = "pumpFrom" => ReadFromInput(k, Least(w.left, r.need))
          /\ state = "read" => InputIntoRead(k)
          /\ state = "pumpTo" => InputIntoPump(k)
    BY <1>2, Zenon DEF InputRead, Receives
  <2> QED BY <2>1, <2>2, <2>3, ReadFromInputInv, InputIntoReadInv, InputIntoPumpInv, ZenonT(40)
<1> QED BY <1>1, <1>2, Zenon

\* The invariant is preserved by steps that change nothing.
LEMMA StutterInv ==
  ASSUME IInv, UNCHANGED vars
  PROVE  IInv'
<1> USE DEF vars
<1>1. TypeOK' /\ ObjectOK' /\ WriterOK(w', given')
  BY Zenon DEF IInv, TypeOK, ObjectOK
<1>2. TransferOK'
  BY Zenon DEF IInv, TransferOK, OutOK, InOK, BothOK, Stop, Size
<1>3. ReaderOK'
  BY ZenonT(40) DEF IInv, ReaderOK, Active, Moving, Sent, ReadsAsPromised
<1>4. OrderOK'
  BY Zenon DEF IInv, OrderOK, Pos, NothingLost, Held
<1>5. NobodyForgotten'
  BY Zenon DEF IInv, NobodyForgotten, RestIsDue
<1> QED BY <1>1, <1>2, <1>3, <1>4, <1>5, Zenon DEF IInv

INSTANCE WellFoundedInduction

\* A set of numbers that is not empty has a minimum.
LEMMA MinFacts == MinIsLeast
<1> SUFFICES ASSUME NEW S \in SUBSET Nat, S # {}
             PROVE  Min(S) \in S /\ \A n \in S : Min(S) <= n
  BY Zenon DEF MinIsLeast
<1>1. PICK m \in S : \A n \in S : ~(<<n, m>> \in OpToRel(<, Nat))
  BY NatLessThanWellFounded, WFMin, Zenon
<1>2. ASSUME NEW n \in S PROVE m <= n
  <2>1. n \in Nat /\ m \in Nat
    BY Zenon
  <2>2. ~(n < m)
    BY <1>1, <2>1, Zenon DEF OpToRel
  <2> QED BY <2>1, <2>2, SMTT(40)
<1> QED BY <1>2, ZenonT(40) DEF Min

\* The inductive invariant of the pipe: bytes move in order, and an operation
\* that waits is known to the other end, in every state.
THEOREM InductiveInvariant == Spec => []IInv
<1>1. Init => IInv
  BY InitInv, Zenon
<1>2. IInv /\ [Next]_vars => IInv'
  <2>1. IInv /\ Next => IInv'
    BY MinFacts, ReadEndInv, WriteEndInv, StreamInv, AbortReadInv, DropReadInv, ShutdownWriteInv,
       DropWriteInv, CheckEofInv, StreamFailsInv, ZenonT(40) DEF Next
  <2> QED BY <2>1, StutterInv, Zenon
<1> QED BY <1>1, <1>2, PTL DEF Spec

\* Bytes come out of the pipe in the order in which they were given to it, and
\* none twice, however writes, reads and pumps are split (BlockedWrite,
\* BlockedRead and their pumps), unless a transfer was stopped half-way.
THEOREM BytesInOrder == Spec => []InOrder
<1>1. IInv => InOrder
  BY ZenonT(40) DEF IInv, OrderOK, InOrder, Increasing
<1> QED BY <1>1, InductiveInvariant, PTL

\* Every byte given to the pipe has been received, or is still with the write,
\* or was given up with a write that failed or was dropped.
THEOREM BytesAccountedFor == Spec => []NothingLost
<1>1. IInv => NothingLost
  BY ZenonT(40) DEF IInv, OrderOK
<1> QED BY <1>1, InductiveInvariant, PTL

\* tryRead() and pumpTo() return what they got, and less than they asked for
\* only after shutdownWrite().
THEOREM ReadsKeepTheirPromise == Spec => []ReadsAsPromised
<1>1. IInv => ReadsAsPromised
  BY ZenonT(40) DEF IInv, ReaderOK
<1> QED BY <1>1, InductiveInvariant, PTL

\* A write() that succeeds has been received to its last byte, also when a
\* continuation wrote the rest of it.
THEOREM WritesKeepTheirPromise == Spec => []WritesAsPromised
<1>1. IInv => WritesAsPromised
  BY Zenon DEF IInv, WriterOK, WriteOK, OrderOK, WritesAsPromised
<1> QED BY <1>1, InductiveInvariant, PTL

\* tryPumpFrom() succeeds only with its whole amount or at the input's end.
THEOREM PumpsKeepTheirPromise == Spec => []PumpsAsPromised
<1>1. ASSUME IInv PROVE PumpsAsPromised
  <2>1. w.left \in Nat /\ w.taken \in Nat /\ (w.op = "pump" => PumpOK(w))
    BY <1>1, ZenonT(40) DEF IInv, TypeOK, WriterType, WriterOK
  <2> QED BY <2>1, SMTT(40) DEF PumpOK, PumpsAsPromised
<1> QED BY <1>1, InductiveInvariant, PTL

\* An operation that waits is the pipe's state, or in a transfer, or about to
\* be continued: nothing that ends an operation of the other end forgets it.
THEOREM NobodyIsForgotten == Spec => []NobodyForgotten
<1>1. IInv => NobodyForgotten
  BY Zenon DEF IInv
<1> QED BY <1>1, InductiveInvariant, PTL
=============================================================================
