----------------------------- MODULE AsyncPipe -----------------------------
(***************************************************************************)
(* AsyncPipe of kj/async-io.c++, the in-process pipe behind                *)
(* newOneWayPipe(), newTwoWayPipe() and newCapabilityPipe().  It has no    *)
(* buffer: an operation of one end blocks until the other end performs the *)
(* opposite one, and is then the pipe's `state`, the object that answers   *)
(* the other end.  Pumps join the pipe to streams of the application, and  *)
(* such a transfer may be in flight when either end is canceled, aborted   *)
(* or shut down.                                                           *)
(*                                                                         *)
(* Bytes are numbered in the order in which they are given to the pipe, so *)
(* that a buffer is an interval and a piece is the number of its last byte.*)
(* The capabilities that may travel with them are left out.  Each end has  *)
(* one operation at a time, as the API asks; calls that only throw, and    *)
(* synchronous ones that decline, change nothing and are left out too.     *)
(***************************************************************************)
EXTENDS Integers, Sequences, Functions, FiniteSetsExt

CONSTANTS
  Writes,    \* the writes: where the pieces of each end, as a sequence
  Reads,     \* the pairs <<minBytes, maxBytes>> of the reads
  Amounts,   \* the amounts of the pumps
  Inputs,    \* the lengths of the streams that are pumped from
  MaxBytes,  \* a bound on the bytes given to the pipe
  Cancels    \* whether operations are dropped before they complete

ASSUME PipeAssumption ==
  /\ \A e \in Writes : /\ e \in Seq(Nat) /\ e # <<>> /\ e[1] > 0
                       /\ \A i, j \in DOMAIN e : i <= j => e[i] <= e[j]
  /\ \A q \in Reads : q[1] \in Nat /\ q[2] \in Nat /\ 0 < q[1] /\ q[1] <= q[2]
  /\ Amounts \subseteq Nat \ {0} /\ Inputs \subseteq Nat
  /\ MaxBytes \in Nat /\ Cancels \in BOOLEAN

VARIABLES
  state,     \* AsyncPipe::state: "none", or the kind of object that answers
  r,         \* the operation of the read end
  w,         \* the operation of the write end
  x,         \* the transfer in flight, on the canceler of the state's object
  received,  \* the bytes put in read buffers and in the outputs of pumps
  given,     \* the number of bytes given to the pipe
  dropped,   \* the bytes of writes that failed or were dropped
  torn       \* whether a transfer was stopped after some of its bytes moved

vars == <<state, r, w, x, received, given, dropped, torn>>

-----------------------------------------------------------------------------
(* Operations.  A result is the count of bytes, or one of these.           *)
Pending == -1
Failed == -2

(* need and room are minBytes and readBuffer.size() of a BlockedRead, less *)
(* what it has; a pump has what is left of its amount in both.  count is   *)
(* readSoFar or pumpedSoFar, with what `.then()`s add to it.               *)
Reader(op, min, max) ==
  [op |-> op, need |-> min, room |-> max, count |-> 0, result |-> Pending,
   min |-> min, max |-> max, start |-> Len(received)]

(* The bytes after `from` are not consumed yet: pieces are writeBuffer and *)
(* morePieces, each by its last byte, and rest the pieces that a `.then()` *)
(* writes next.  left is what is left of a pump's amount, input what its   *)
(* stream still has, taken what was read of it.                            *)
Writer(op, pieces, amount, input) ==
  [op |-> op, from |-> given, pieces |-> pieces, rest |-> <<>>, first |-> given + 1,
   left |-> amount, count |-> 0, input |-> input, isReadOutstanding |-> FALSE,
   result |-> Pending, amount |-> amount, taken |-> 0]

NoReader == [op |-> "idle", need |-> 0, room |-> 0, count |-> 0, result |-> 0,
             min |-> 0, max |-> 0, start |-> 0]
NoWriter == [op |-> "idle", from |-> 0, pieces |-> <<>>, rest |-> <<>>, first |-> 1,
             left |-> 0, count |-> 0, input |-> 0, isReadOutstanding |-> FALSE,
             result |-> 0, amount |-> 0, taken |-> 0]

(* cuts are the bytes with which the output.write()s of the transfer end,  *)
(* `at` is the last one that is done.                                      *)
Transfer(kind, at, cuts) == [kind |-> kind, at |-> at, cuts |-> cuts, moved |-> FALSE]
NoTransfer == Transfer("none", 0, {})

(* A fulfiller that is already fulfilled or rejected ignores the call.     *)
Fulfil(op, n) == IF op.result = Pending THEN [op EXCEPT !.result = n] ELSE op

Waiting(op) == op.op # "idle" /\ op.result = Pending
ReadStates == {"read", "pumpTo"}       \* objects of the read end's promise
WriteStates == {"write", "pumpFrom"}   \* objects of the write end's promise

endState_any(side) == "none"
(* The pipe's state when an object of the given end is destroyed.          *)
endState(side) == IF state \in side THEN "none" ELSE state

Init ==
  /\ state = "none" /\ r = NoReader /\ w = NoWriter /\ x = NoTransfer
  /\ received = <<>> /\ given = 0 /\ dropped = {} /\ torn = FALSE

-----------------------------------------------------------------------------
(* Bytes and pieces of a write.                                            *)

(* The bytes after a, up to b.                                             *)
Run(a, b) == [i \in 1 .. b - a |-> a + i]
Least(m, n) == IF m <= n THEN m ELSE n

(* The pieces that go beyond byte b: the write()s of AsyncPipe skip empty  *)
(* pieces in front.                                                        *)
Beyond(pieces, b) ==
  LET full == {i \in DOMAIN pieces : pieces[i] > b}
  IN IF full = {} THEN <<>> ELSE SubSeq(pieces, Min(full), Len(pieces))

Size(q) == IF q.pieces = <<>> THEN 0 ELSE q.pieces[Len(q.pieces)] - q.from

Advance_not(q, n) == q
(* What is left of a blocked write once n bytes of it have been consumed.  *)
Advance(q, n) ==
  [q EXCEPT !.from = @ + n, !.pieces = Beyond(q.pieces, q.from + n)]

(* The bytes that the write end's operation still holds.                   *)
Held(q) ==
  {b \in q.from + 1 .. given : \E e \in Range(q.pieces) \cup Range(q.rest) : b <= e}

Written_all(q) == Fulfil(q, 0)
(* A write whose current pieces are all consumed: the promise resolves, or *)
(* runs the continuation that writes the rest.                             *)
Written(q) == IF q.rest = <<>> THEN Fulfil(q, 0) ELSE q

(* The continuation is ready to run.                                       *)
RestIsDue == Waiting(w) /\ w.pieces = <<>> /\ w.rest # <<>>

-----------------------------------------------------------------------------
(* tryRead() and pumpTo() of the read end: q is the new operation.         *)

(* BlockedRead() and BlockedPumpTo(): nobody writes, so wait.              *)
ReadBlocks(q) ==
  /\ state = "none"
  /\ state' = IF q.op = "read" THEN "read" ELSE "pumpTo"
  /\ r' = q
  /\ UNCHANGED <<w, x, received, given, dropped, torn>>

(* BlockedWrite::tryReadImpl(), and the tryRead() that goes on after it.   *)
ReadFromWrite(q) ==
  LET size == Size(w) IN
  /\ state = "write" /\ q.op = "read"
  /\ received' = received \o Run(w.from, w.from + Least(size, q.room))
  /\ IF size > q.room
     THEN /\ w' = Advance(w, q.room)
          /\ r' = Fulfil(q, q.room)
          /\ state' = state
     ELSE /\ w' = Written(Advance(w, size))
          /\ r' = IF size >= q.need THEN Fulfil(q, size)
                  ELSE [q EXCEPT !.need = @ - size, !.room = @ - size, !.count = size]
          /\ state' = IF size >= q.need THEN "none" ELSE "read"
  /\ UNCHANGED <<x, given, dropped, torn>>

(* The pieces that are written as a whole up to byte b.                    *)
Whole(pieces, b) == {e \in Range(pieces) : e <= b}

(* BlockedWrite::pumpTo() writes the first piece, then the other pieces    *)
(* that the pump covers, then the start of the piece in which it ends.     *)
PumpFromWrite(q) ==
  LET b == w.from + Least(Size(w), q.room)
      whole == Whole(w.pieces, b)
  IN
  /\ state = "write" /\ q.op = "pump"
  /\ x' = Transfer("out", w.from,
                   {b} \cup {e \in whole : e = w.pieces[1] \/ \A f \in whole : f <= e})
  /\ r' = q
  /\ UNCHANGED <<state, w, received, given, dropped, torn>>

(* BlockedPumpFrom::tryRead() and pumpTo() start to read the input.        *)
ReadFromPump(q) ==
  /\ state = "pumpFrom"
  /\ x' = Transfer(IF q.op = "read" THEN "in" ELSE "pump", 0, {})
  /\ r' = q
  /\ w' = [w EXCEPT !.isReadOutstanding = TRUE]
  /\ UNCHANGED <<state, received, given, dropped, torn>>

(* AbortedRead and ShutdownedWrite answer at once.                         *)
ReadEnded(q) ==
  /\ state \in {"aborted", "shutdown"}
  /\ r' = Fulfil(q, IF state = "aborted" THEN Failed ELSE 0)
  /\ UNCHANGED <<state, w, x, received, given, dropped, torn>>

read(q) ==
  \/ ReadBlocks(q) \/ ReadFromWrite(q) \/ PumpFromWrite(q) \/ ReadFromPump(q)
  \/ ReadEnded(q)

TryRead ==
  /\ r.op = "idle"
  /\ \E m \in Reads : read(Reader("read", m[1], m[2]))

PumpTo ==
  /\ r.op = "idle"
  /\ \E n \in Amounts : read(Reader("pump", n, n))

(* A synchronous read is served when enough is there, or at the end.       *)
TryReadSync ==
  /\ r.op = "idle"
  /\ \E m \in Reads : LET q == Reader("read", m[1], m[2]) IN
       \/ Size(w) >= q.need /\ ReadFromWrite(q)
       \/ ReadEnded(q)

-----------------------------------------------------------------------------
(* write(), tryWriteSync() and tryPumpFrom() of the write end.             *)

(* BlockedWrite() and BlockedPumpFrom(): nobody reads, so wait.            *)
WriteBlocks(q) ==
  /\ state = "none"
  /\ state' = IF q.op = "write" THEN "write" ELSE "pumpFrom"
  /\ w' = q
  /\ UNCHANGED <<r, x, received, dropped, torn>>

Retry_data(q, n) ==
  LET b == q.from + n
      more == Beyond(q.pieces, b)
  IN [q EXCEPT !.from = b, !.pieces = IF b \in Range(q.pieces) THEN more ELSE <<Head(more)>>]
(* What a write has left when n bytes of it have filled a read or a pump:  *)
(* the end of the current piece is one write, and the others another.      *)
Retry(q, n) ==
  LET b == q.from + n
      more == Beyond(q.pieces, b)
  IN IF b \in Range(q.pieces) THEN [q EXCEPT !.from = b, !.pieces = more]
     ELSE [q EXCEPT !.from = b, !.pieces = <<Head(more)>>, !.rest = Tail(more)]

(* BlockedRead::writeImpl(), and the pipe.write() that goes on after it.   *)
WriteToRead(q) ==
  LET size == Size(q)
      n == Least(size, r.room)
      left == Retry(q, n)
      enough == size >= r.room \/ size >= r.need
  IN
  /\ state = "read" /\ q.op = "write"
  /\ received' = received \o Run(q.from, q.from + n)
  /\ r' = LET p == [r EXCEPT !.need = @ - n, !.room = @ - n, !.count = @ + n]
          IN IF enough THEN Fulfil(p, p.count) ELSE p
  /\ w' = IF left.pieces = <<>> THEN Written(left) ELSE left
  /\ state' = IF left.pieces # <<>> THEN "write" ELSE IF enough THEN "none" ELSE "read"
  /\ UNCHANGED <<x, dropped, torn>>

(* BlockedPumpTo::write() writes what the pump still wants to the output:  *)
(* the whole pieces, then the part of the piece in which the pump ends.    *)
WriteToPump(q) ==
  LET b == q.from + Least(Size(q), r.room)
      whole == Whole(q.pieces, b)
  IN
  /\ state = "pumpTo" /\ q.op = "write"
  /\ x' = Transfer("out", q.from, {b} \cup {e \in whole : \A f \in whole : f <= e})
  /\ w' = q
  /\ UNCHANGED <<state, r, received, dropped, torn>>

(* BlockedRead::tryPumpFrom() and BlockedPumpTo::tryPumpFrom().  When the  *)
(* output has no tryPumpFrom() of its own the latter declines, and the     *)
(* pump is made of writes.                                                 *)
PumpToReader(q) ==
  /\ state \in ReadStates /\ q.op = "pump"
  /\ x' = Transfer(IF state = "read" THEN "in" ELSE "pump", 0, {})
  /\ w' = q
  /\ UNCHANGED <<state, r, received, dropped, torn>>

(* AbortedRead::write(), and tryPumpFrom(), which looks for the input's end*)
WriteAborted(q) ==
  /\ state = "aborted"
  /\ w' = IF q.op = "write" THEN Fulfil(q, Failed) ELSE q
  /\ x' = IF q.op = "write" THEN x ELSE Transfer("eof", 0, {})
  /\ UNCHANGED <<state, r, received, dropped, torn>>

write(q) ==
  \/ WriteBlocks(q) \/ WriteToRead(q) \/ WriteToPump(q) \/ PumpToReader(q)
  \/ WriteAborted(q)

NewWrite(ends) == Writer("write", [i \in DOMAIN ends |-> given + ends[i]], 0, 0)

Write ==
  /\ w.op = "idle" /\ state # "shutdown"
  /\ \E ends \in Writes : LET q == NewWrite(ends) IN
       /\ given + Size(q) <= MaxBytes
       /\ given' = given + Size(q)
       /\ write(q)

(* All or nothing: the write fits in the read, or in the pump's amount and *)
(* the output takes it at once.                                            *)
TryWriteSync ==
  /\ w.op = "idle"
  /\ \E ends \in Writes : LET q == NewWrite(ends) IN
       /\ given + Size(q) <= MaxBytes
       /\ given' = given + Size(q)
       /\ Size(q) <= r.room
       /\ \/ WriteToRead(q)
          \/ /\ state = "pumpTo"
             /\ received' = received \o Run(given, given + Size(q))
             /\ w' = Written(Advance(q, Size(q)))
             /\ r' = LET s == [r EXCEPT !.need = @ - Size(q), !.room = @ - Size(q),
                                        !.count = @ + Size(q)]
                     IN IF s.room = 0 THEN Fulfil(s, s.count) ELSE s
             /\ state' = IF Size(q) = r.room THEN "none" ELSE state
             /\ UNCHANGED <<x, dropped, torn>>

TryPumpFrom ==
  /\ w.op = "idle" /\ state # "shutdown"
  /\ \E n \in Amounts, k \in Inputs :
       /\ given + Least(n, k) <= MaxBytes
       /\ write(Writer("pump", <<>>, n, k))
  /\ UNCHANGED given

(* The continuation of a write that was split: pipe.write() of the rest.   *)
WriteRest ==
  /\ RestIsDue
  /\ LET q == [w EXCEPT !.pieces = Beyond(w.rest, w.from), !.rest = <<>>] IN
     \/ q.pieces # <<>> /\ write(q)
     \/ /\ q.pieces = <<>> \/ state = "shutdown"
        /\ w' = Fulfil(q, IF q.pieces = <<>> THEN 0 ELSE Failed)
        /\ UNCHANGED <<state, r, x, received, dropped, torn>>
  /\ UNCHANGED given

-----------------------------------------------------------------------------
(* The transfer in flight, if any, is stopped.  A bound: once at most      *)
(* after some of its bytes have moved.                                     *)
Stops ==
  /\ torn => ~x.moved
  /\ torn' = (torn \/ x.moved)

(* abortRead() and shutdownWrite().                                        *)

Reject_blocked == state \in WriteStates
(* Whether abortRead() rejects the write end's operation: a blocked write, *)
(* a pump whose read of the input was started and has not succeeded, and,  *)
(* through the canceler, a transfer of the write end.                      *)
Reject ==
  \/ state = "write"
  \/ state = "pumpFrom" /\ w.isReadOutstanding
  \/ state \in ReadStates /\ x.kind # "none"

(* With no read of the input in flight, a blocked pump checks for the end  *)
(* of the input in order to tell success from failure.                     *)
AbortRead ==
  /\ state \notin {"aborted", "shutdown"}
  /\ state' = "aborted"
  /\ r' = IF Waiting(r) THEN Fulfil(r, Failed) ELSE r
  /\ w' = IF Reject THEN Fulfil(w, Failed) ELSE w
  /\ x' = IF state = "pumpFrom" /\ ~Reject THEN Transfer("eof", 0, {}) ELSE NoTransfer
  /\ Stops
  /\ UNCHANGED <<received, given, dropped>>

(* The reader gets what it has; a blocked write makes the call throw.      *)
ShutdownWrite ==
  /\ state \in {"none", "read", "pumpTo"}
  /\ state' = "shutdown"
  /\ r' = IF state = "none" THEN r ELSE Fulfil(r, r.count)
  /\ w' = IF x.kind # "none" THEN Fulfil(w, Failed) ELSE w
  /\ x' = NoTransfer
  /\ Stops
  /\ UNCHANGED <<received, given, dropped>>

-----------------------------------------------------------------------------
(* The application's streams, and the continuations that run when they are *)
(* done: the transfer's canceler is released.                              *)

(* BlockedWrite::pumpTo(), completed.                                      *)
PumpedFromWrite ==
  LET size == Size(w) IN
  IF size > r.room
  THEN /\ w' = Advance(w, r.room)
       /\ r' = Fulfil(r, r.count + r.room)
       /\ state' = state
  ELSE LET q == [r EXCEPT !.need = @ - size, !.room = @ - size, !.count = @ + size] IN
       /\ w' = Written(Advance(w, size))
       /\ r' = IF q.room = 0 THEN Fulfil(q, q.count) ELSE q
       /\ state' = IF q.room = 0 THEN "none" ELSE "pumpTo"

(* BlockedPumpTo::write(), completed.  When the pump ends with a piece the *)
(* pieces that follow are left to a continuation.                          *)
WrittenToPump ==
  LET n == Least(Size(w), r.room)
      b == w.from + n
      q == [r EXCEPT !.need = @ - n, !.room = @ - n, !.count = @ + n]
      ends == n = r.room
      split == b \notin Range(w.pieces)
      done == [w EXCEPT !.from = b, !.pieces = <<>>, !.rest = Beyond(w.pieces, b)]
  IN
  /\ r' = IF ends THEN Fulfil(q, q.count) ELSE q
  /\ w' = IF split THEN Retry(w, n) ELSE Written(done)
  /\ state' = IF split THEN "write" ELSE IF ends THEN "none" ELSE state

(* An output.write() is done.                                              *)
OutputWritten ==
  /\ x.kind = "out"
  /\ \E c \in x.cuts :
       /\ x.at < c /\ \A d \in x.cuts : x.at < d => c <= d
       /\ received' = received \o Run(x.at, c)
       /\ IF \E d \in x.cuts : c < d
          THEN /\ x' = [x EXCEPT !.at = c, !.moved = TRUE]
               /\ UNCHANGED <<state, r, w>>
          ELSE /\ x' = NoTransfer
               /\ IF state = "write" THEN PumpedFromWrite ELSE WrittenToPump
  /\ UNCHANGED <<given, dropped, torn>>

(* How many bytes a read of at least min and at most max, or a pump, may   *)
(* get of the input: fewer than min only when it ends.                     *)
Available(min, max) ==
  {k \in 0..max : k <= w.input /\ (k >= min \/ k = w.input)}

(* BlockedPumpFrom::tryRead() or pumpTo() got k bytes, and wanted at least *)
(* min.  If the pump is over, the read goes on with the next writer.       *)
ReadFromInput(k, min) ==
  LET q == [r EXCEPT !.need = @ - k, !.room = @ - k, !.count = @ + k]
      p == [w EXCEPT !.isReadOutstanding = FALSE, !.input = @ - k, !.taken = @ + k,
                     !.left = @ - k, !.count = @ + k]
      over == p.left = 0 \/ k < min
      enough == q.need <= 0
  IN
  /\ w' = IF over THEN Fulfil(p, p.count) ELSE p
  /\ r' = IF enough THEN Fulfil(q, q.count) ELSE q
  /\ state' = IF ~enough THEN (IF r.op = "read" THEN "read" ELSE "pumpTo")
              ELSE IF over THEN "none" ELSE state

InputIntoRead_eof(k) ==
  LET q == [r EXCEPT !.need = @ - k, !.room = @ - k, !.count = @ + k]
      p == [w EXCEPT !.input = @ - k, !.taken = @ + k, !.left = @ - k, !.count = @ + k]
  IN
  /\ r' = Fulfil(q, q.count)
  /\ w' = IF p.left > 0 THEN p ELSE Fulfil(p, p.count)
  /\ state' = IF p.left > 0 THEN "pumpFrom" ELSE "none"

(* BlockedRead::tryPumpFrom() got k bytes.  A read that has enough ends,   *)
(* and the pump goes on with input.pumpTo(pipe); otherwise the pump is at  *)
(* its end, which is not the end of the pipe, and the read stays.          *)
InputIntoRead(k) ==
  LET q == [r EXCEPT !.need = @ - k, !.room = @ - k, !.count = @ + k]
      p == [w EXCEPT !.input = @ - k, !.taken = @ + k, !.left = @ - k, !.count = @ + k]
      enough == q.need <= 0
  IN
  /\ r' = IF enough THEN Fulfil(q, q.count) ELSE q
  /\ w' = IF enough /\ p.left > 0 THEN p ELSE Fulfil(p, p.count)
  /\ state' = IF ~enough THEN state ELSE IF p.left > 0 THEN "pumpFrom" ELSE "none"

(* BlockedPumpTo::tryPumpFrom() got k bytes.  When its pump goes on, what  *)
(* input.pumpTo(pipe) returns is the result as it stands.                  *)
InputIntoPump(k) ==
  LET n == Least(w.left, r.room)
      q == [r EXCEPT !.need = @ - k, !.room = @ - k, !.count = @ + k]
      p == [w EXCEPT !.input = @ - k, !.taken = @ + k, !.left = @ - k, !.count = @ + k]
      goesOn == p.left > 0 /\ k = n
  IN
  /\ r' = IF q.room = 0 THEN Fulfil(q, q.count) ELSE q
  /\ w' = IF goesOn THEN [p EXCEPT !.count = 0] ELSE Fulfil(p, p.count)
  /\ state' = IF goesOn THEN "pumpFrom" ELSE IF q.room = 0 THEN "none" ELSE state

(* The read or the pump of the input is done, with k bytes.                *)
InputRead ==
  /\ x.kind \in {"in", "pump"}
  /\ LET min == Least(w.left, r.need)
         max == Least(w.left, r.room)
     IN \E k \in Available(min, max) :
          /\ given' = given + k
          /\ received' = received \o Run(given, given + k)
          /\ CASE state = "pumpFrom" -> ReadFromInput(k, min)
               [] state = "read"     -> InputIntoRead(k)
               [] state = "pumpTo"   -> InputIntoPump(k)
  /\ x' = NoTransfer
  /\ UNCHANGED <<dropped, torn>>

EofChecked_ok == TRUE
(* The byte of junk could not be read.                                     *)
EofChecked == w.input = 0

(* The check for the input's end: checkEofTask, or AbortedRead's pump.     *)
CheckEof ==
  /\ x.kind = "eof"
  /\ w' = Fulfil(w, IF EofChecked THEN w.count ELSE Failed)
  /\ x' = NoTransfer
  /\ UNCHANGED <<state, r, received, given, dropped, torn>>

(* A stream of the application throws: teeException*() rejects the blocked *)
(* operation too, whose object stays the pipe's state until it is dropped. *)
StreamFails ==
  /\ x.kind # "none"
  /\ r' = IF x.kind = "eof" THEN r ELSE Fulfil(r, Failed)
  /\ w' = Fulfil(w, Failed)
  /\ x' = NoTransfer
  /\ Stops
  /\ UNCHANGED <<state, received, given, dropped>>

-----------------------------------------------------------------------------
(* The application drops a promise, resolved or not: the object is         *)
(* destroyed, and its canceler rejects a transfer that the other end has   *)
(* in flight.                                                              *)
DropRead ==
  /\ r.op # "idle" /\ (Waiting(r) => Cancels)
  /\ r' = NoReader
  /\ state' = endState(ReadStates)
  /\ w' = IF state \in ReadStates /\ x.kind # "none" THEN Fulfil(w, Failed) ELSE w
  /\ x' = IF x.kind = "eof" THEN x ELSE NoTransfer
  /\ Stops
  /\ UNCHANGED <<received, given, dropped>>

DropWrite ==
  /\ w.op # "idle" /\ (Waiting(w) => Cancels)
  /\ w' = NoWriter
  /\ dropped' = dropped \cup Held(w)
  /\ state' = endState(WriteStates)
  /\ r' = IF state \in WriteStates /\ x.kind # "none" THEN Fulfil(r, Failed) ELSE r
  /\ x' = NoTransfer
  /\ Stops
  /\ UNCHANGED <<received, given>>

Next ==
  \/ TryReadSync \/ TryRead \/ PumpTo \/ AbortRead \/ DropRead
  \/ Write \/ TryWriteSync \/ TryPumpFrom \/ WriteRest \/ ShutdownWrite \/ DropWrite
  \/ OutputWritten \/ InputRead \/ CheckEof \/ StreamFails

Spec == Init /\ [][Next]_vars

(* Continuations run, and the application's streams answer.                *)
FairSpec ==
  /\ Spec
  /\ WF_vars(WriteRest)
  /\ WF_vars(OutputWritten \/ InputRead \/ CheckEof \/ StreamFails)

-----------------------------------------------------------------------------
(* Bytes come out in the order in which they went in, and none twice,      *)
(* through split reads, split writes and pumps, and when operations fail   *)
(* or are dropped, unless that stops a transfer half-way: the outputs of   *)
(* BlockedWrite::pumpTo() may then hold bytes that the write still has.    *)
InOrder ==
  torn \/ \A i \in 1..Len(received) - 1 : received[i] < received[i + 1]

(* The pipe loses nothing: a byte given to it is in a buffer or an output, *)
(* or the write that has it is not over, or has failed or been dropped.    *)
NothingLost ==
  1..given = Range(received) \cup Held(w) \cup dropped

(* tryRead() and pumpTo() return the number of bytes that they got, at     *)
(* most as many as they asked for, and fewer only at the end of the pipe:  *)
(* not when a write, or the stream that the other end pumps from, ends.    *)
ReadsAsPromised ==
  r.op # "idle" /\ r.result >= 0 =>
    /\ r.result <= r.max
    /\ r.result < r.min => state = "shutdown"
    /\ torn \/ r.result = Len(received) - r.start

(* A write() succeeds only when each of its bytes has been received: the   *)
(* pipe has no buffer, however the write was split.                        *)
WritesAsPromised ==
  w.op = "write" /\ w.result >= 0 => w.first..given \subseteq Range(received)

(* tryPumpFrom() succeeds only when it has pumped the amount or the input  *)
(* is at its end, also when the read end is aborted meanwhile.             *)
PumpsAsPromised ==
  w.op = "pump" /\ w.result >= 0 => w.taken = w.amount \/ w.input = 0

(* What tryPumpFrom() returns is the number of bytes that it pumped.       *)
PumpsCounted ==
  w.op = "pump" /\ w.result >= 0 => w.result = w.taken

(* An operation that waits is known to somebody who will go on with it: it *)
(* is the pipe's state, its transfer is in flight or its continuation is   *)
(* due; and two operations do not wait for each other.                     *)
NobodyForgotten ==
  /\ Waiting(r) => state \in ReadStates \/ (state \in WriteStates /\ x.kind # "none")
  /\ Waiting(w) => state \in WriteStates \/ x.kind # "none" \/ RestIsDue
  /\ Waiting(r) /\ Waiting(w) => x.kind # "none" \/ RestIsDue

(* When an end is aborted or shut down, the operations end.                *)
EndsReleased ==
  state \in {"aborted", "shutdown"} ~> ~Waiting(r) /\ ~Waiting(w)
====
