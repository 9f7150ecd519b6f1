--------------------------- MODULE AsyncPipeSteps --------------------------
(***************************************************************************)
(* The inductive invariant of AsyncPipe, for any writes, reads, pumps and  *)
(* inputs, and that it is preserved when either end starts an operation:   *)
(* read(q) and write(q).                                                   *)
(***************************************************************************)
EXTENDS AsyncPipe, TLAPS

States == {"none", "read", "pumpTo", "write", "pumpFrom", "aborted", "shutdown"}
ReaderType ==
  [op : {"idle", "read", "pump"}, need : Int, room : Nat, count : Nat,
   result : Int, min : Nat, max : Nat, start : Nat]
WriterType ==
  [op : {"idle", "write", "pump"}, from : Nat, pieces : Seq(Nat), rest : Seq(Nat),
   first : Nat, left : Nat, count : Nat, input : Nat, isReadOutstanding : BOOLEAN,
   result : Int, amount : Nat, taken : Nat]
TransferType ==
  [kind : {"none", "out", "in", "pump", "eof"}, at : Nat, cuts : SUBSET Nat,
   moved : BOOLEAN]

TypeOK ==
  /\ state \in States /\ r \in ReaderType /\ w \in WriterType /\ x \in TransferType
  /\ received \in Seq(Nat) /\ given \in Nat /\ dropped \in SUBSET Nat
  /\ torn \in BOOLEAN

-----------------------------------------------------------------------------
(* The inductive invariant.                                                *)

Sorted(s) == \A i, j \in 1..Len(s) : i <= j => s[i] <= s[j]
Increasing(s) == \A i \in 1..Len(s) - 1 : s[i] < s[i + 1]
End(s) == s[Len(s)]
Unsettled(op) == op.result \in {Pending, Failed}

(* q is an operation of the write end, and g the number of bytes given to  *)
(* the pipe: the pieces lie after `from`, and the last of them ends at g.  *)
WriteOK(q, g) ==
  /\ Sorted(q.pieces) /\ Sorted(q.rest)
  /\ q.from <= g /\ q.first <= q.from + 1
  /\ q.pieces # <<>> => q.pieces[1] > q.from /\ End(q.pieces) <= g
  /\ q.rest # <<>> => End(q.rest) = g
  /\ q.rest = <<>> /\ q.pieces # <<>> => End(q.pieces) = g
  /\ q.rest = <<>> /\ q.pieces = <<>> => q.from = g
  /\ q.result >= 0 => q.from = g
PumpOK(q) ==
  /\ q.taken + q.left = q.amount
  /\ q.result >= 0 => q.left = 0 \/ q.input = 0
WriterOK(q, g) ==
  /\ q.op = "write" => WriteOK(q, g)
  /\ q.op # "write" => q.pieces = <<>> /\ q.rest = <<>>
  /\ q.op = "pump" => PumpOK(q)

(* The object of one end that is the pipe's state.                         *)
ObjectOK ==
  /\ state = "read" => r.op = "read" /\ Unsettled(r)
  /\ state = "pumpTo" => r.op = "pump" /\ Unsettled(r)
  /\ state = "write" => w.op = "write" /\ w.pieces # <<>> /\ Unsettled(w)
  /\ state = "pumpFrom" => w.op = "pump" /\ Unsettled(w)

(* Where the transfer ends if nothing stops it.                            *)
Stop == w.from + Least(Size(w), r.room)

(* Each kind of transfer, with the ends of the pipe it is between.         *)
OutOK ==
  /\ \/ state = "write" /\ r.op = "pump" /\ Waiting(r)
     \/ /\ state = "pumpTo" /\ w.op = "write" /\ Waiting(w)
        /\ w.pieces # <<>> /\ w.rest = <<>>
  /\ Stop \in x.cuts /\ \A c \in x.cuts : c <= Stop
  /\ w.from <= x.at /\ x.at < Stop
  /\ w.from + 1 .. x.at \subseteq Range(received)
  /\ x.moved \/ x.at = w.from
InOK ==
  \/ state = "pumpFrom" /\ r.op = "read" /\ Waiting(r)
  \/ state = "read" /\ w.op = "pump" /\ Waiting(w)
BothOK ==
  \/ state = "pumpFrom" /\ r.op = "pump" /\ Waiting(r)
  \/ state = "pumpTo" /\ w.op = "pump" /\ Waiting(w)
TransferOK ==
  /\ x.kind = "out" => OutOK
  /\ x.kind = "in" => InOK
  /\ x.kind = "pump" => BothOK
  /\ x.kind = "eof" => state = "aborted" /\ w.op = "pump"

Moving == x.kind \in {"out", "in", "pump"}
Active == state \in ReadStates \/ Moving

(* The counts of a read that goes on.                                      *)
CountsOK(q) ==
  /\ Unsettled(q)
  /\ 0 < q.need /\ q.need <= q.room
  /\ q.count + q.room = q.max /\ q.count + q.need = q.min
Sent == IF x.kind = "out" THEN x.at - w.from ELSE 0
ReaderOK ==
  /\ Active => CountsOK(r) /\ (torn \/ Len(received) = r.start + r.count + Sent)
  /\ r.op = "pump" => r.need = r.room
  /\ ReadsAsPromised

(* Nothing that has been received lies beyond this byte.                   *)
Pos == IF x.kind = "out" THEN x.at ELSE IF w.op = "write" THEN w.from ELSE given
OrderOK ==
  /\ torn \/ (Increasing(received) /\ \A i \in 1..Len(received) : received[i] <= Pos)
  /\ w.op = "write" => w.first .. w.from \subseteq Range(received)
  /\ NothingLost

IInv ==
  /\ TypeOK /\ ObjectOK /\ WriterOK(w, given) /\ TransferOK /\ ReaderOK /\ OrderOK
  /\ NobodyForgotten

-----------------------------------------------------------------------------
(* Bytes and pieces.                                                       *)

(* That Min is what it is called, for sets of numbers.  The proof needs    *)
(* well-founded induction and is left to the end of AsyncPipeProofs.       *)
MinIsLeast ==
  \A S \in SUBSET Nat : S # {} => Min(S) \in S /\ \A n \in S : Min(S) <= n

\* The pieces that go beyond a byte are the last ones.
LEMMA BeyondFacts ==
  ASSUME MinIsLeast, NEW s \in Seq(Nat), NEW b \in Nat, Sorted(s)
  PROVE  /\ Beyond(s, b) \in Seq(Nat) /\ Sorted(Beyond(s, b))
         /\ Beyond(s, b) # <<>> =>
              Beyond(s, b)[1] > b /\ s # <<>> /\ End(Beyond(s, b)) = End(s)
         /\ Beyond(s, b) = <<>> <=> s = <<>> \/ End(s) <= b
<1> DEFINE full == {i \in DOMAIN s : s[i] > b}
<1>1. Len(s) \in Nat /\ DOMAIN s = 1..Len(s)
      /\ \A i \in 1..Len(s) : s[i] \in Nat
  OBVIOUS
<1>2. CASE full = {}
  <2>1. Beyond(s, b) = <<>>
    BY <1>2, Zenon DEF Beyond
  <2>2. s = <<>> \/ End(s) <= b
    BY <1>1, <1>2 DEF End
  <2> QED BY <2>1, <2>2 DEF Sorted
<1>3. CASE full # {}
  <2>1. full \in SUBSET Nat
    BY <1>1
  <2>2. PICK m : m = Min(full)
    BY Zenon
  <2>3. m \in full /\ \A i \in full : m <= i
    BY <2>1, <2>2, <1>3, Zenon DEF MinIsLeast
  <2>4. Beyond(s, b) = SubSeq(s, m, Len(s))
    BY <1>3, <2>2, Zenon DEF Beyond
  <2>5. m \in 1..Len(s) /\ s[m] > b
    BY <2>3, <1>1, Zenon
  <2>6. PICK y : y = SubSeq(s, m, Len(s))
    BY Zenon
  <2>7. PICK n : n = Len(s) - m + 1
    BY Zenon
  <2>8. y \in Seq(Nat) /\ Len(y) = n /\ n \in Nat /\ n >= 1
        /\ \A i \in 1..n : y[i] = s[i + m - 1]
    BY <2>5, <2>6, <2>7, <1>1, SMTT(40)
  <2>9. y # <<>> /\ y[1] = s[m] /\ y[n] = s[Len(s)]
    <3>1. y[1] = s[1 + m - 1] /\ y[n] = s[n + m - 1]
      BY <2>8
    <3> QED BY <3>1, <2>5, <2>7, <2>8, <1>1
  <2>10. ASSUME NEW i \in 1..n, NEW j \in 1..n, i <= j PROVE y[i] <= y[j]
    <3>1. i + m - 1 \in 1..Len(s) /\ j + m - 1 \in 1..Len(s) /\ i + m - 1 <= j + m - 1
      BY <2>5, <2>7, <2>10, <1>1
    <3>2. s[i + m - 1] <= s[j + m - 1]
      BY <3>1, Zenon DEF Sorted
    <3> QED BY <3>2, <2>8, Zenon
  <2>11. Sorted(y)
    BY <2>8, <2>10, Zenon DEF Sorted
  <2>12. s[Len(s)] > b /\ s # <<>>
    <3>1. Len(s) \in 1..Len(s) /\ m <= Len(s)
      BY <2>5, <1>1
    <3>2. s[m] <= s[Len(s)]
      BY <2>5, <3>1, Zenon DEF Sorted
    <3> QED BY <3>1, <3>2, <2>5, <1>1
  <2> QED BY <2>4, <2>5, <2>6, <2>8, <2>9, <2>11, <2>12, <1>1, SMTT(40) DEF End
<1> QED BY <1>2, <1>3, Zenon

\* A run of bytes, appended to what was received.
LEMMA RunFacts ==
  ASSUME NEW s \in Seq(Nat), NEW a \in Nat, NEW b \in Nat, a <= b
  PROVE  /\ s \o Run(a, b) \in Seq(Nat)
         /\ Len(s \o Run(a, b)) = Len(s) + (b - a)
         /\ Range(s \o Run(a, b)) = Range(s) \cup (a + 1 .. b)
         /\ Increasing(s) /\ (\A i \in 1..Len(s) : s[i] <= a) =>
              /\ Increasing(s \o Run(a, b))
              /\ \A i \in 1..Len(s \o Run(a, b)) : (s \o Run(a, b))[i] <= b
<1>1. PICK u : u = Run(a, b)
  BY Zenon
<1>2. u \in Seq(Nat) /\ Len(u) = b - a /\ \A i \in 1 .. b - a : u[i] = a + i
  BY <1>1 DEF Run
<1>3. PICK y : y = s \o u
  BY Zenon
<1>4. PICK n \in Nat : n = Len(s)
  OBVIOUS
<1>5. PICK k \in Nat : k = n + (b - a)
  OBVIOUS
<1>6. y \in Seq(Nat) /\ Len(y) = k /\ DOMAIN y = 1..k /\ DOMAIN s = 1..n /\ n <= k
  <2>1. y \in Seq(Nat) /\ Len(y) = Len(s) + Len(u)
    <3>1. u \in Seq(Nat)
      BY <1>2, Zenon
    <3> QED BY <3>1, <1>3
  <2>2. Len(y) = k /\ n <= k
    BY <2>1, <1>2, <1>4, <1>5
  <2>3. DOMAIN s = 1..n
    BY <1>4
  <2> QED BY <2>1, <2>2, <2>3, SMTT(40)
<1>7. \A i \in 1..n : y[i] = s[i] /\ s[i] \in Nat
  BY <1>2, <1>3, <1>4, SMTT(40)
<1>8. ASSUME NEW i \in n + 1 .. k PROVE y[i] = a + (i - n)
  <2>1. y[i] = u[i - n]
    BY <1>2, <1>3, <1>4, <1>5, SMTT(40)
  <2>2. i - n \in 1 .. b - a
    BY <1>5
  <2> QED BY <2>1, <2>2, <1>2, Zenon
<1>9. Range(y) = Range(s) \cup (a + 1 .. b)
  <2>1. ASSUME NEW c \in Range(y) PROVE c \in Range(s) \cup (a + 1 .. b)
    <3>1. PICK i \in 1..k : c = y[i]
      BY <1>6, Zenon DEF Range
    <3>2. CASE i <= n
      BY <3>1, <3>2, <1>6, <1>7, SMTT(40) DEF Range
    <3>3. CASE i > n
      <4>1. y[i] = a + (i - n)
        BY <3>3, <1>8
      <4> QED BY <4>1, <3>1, <3>3, <1>5
    <3> QED BY <3>2, <3>3
  <2>2. ASSUME NEW c \in Range(s) PROVE c \in Range(y)
    <3>1. PICK i \in 1..n : c = s[i]
      BY <1>6, Zenon DEF Range
    <3>2. i \in 1..k /\ y[i] = c
      BY <3>1, <1>6, <1>7
    <3> QED BY <3>2, <1>6, Zenon DEF Range
  <2>3. ASSUME NEW c \in a + 1 .. b PROVE c \in Range(y)
    <3>1. PICK i : i = n + (c - a)
      BY Zenon
    <3>2. i \in n + 1 .. k /\ i \in 1..k /\ a + (i - n) = c
      BY <3>1, <1>5
    <3>3. y[i] = c
      BY <3>2, <1>8, Zenon
    <3> QED BY <3>2, <3>3, <1>6, Zenon DEF Range
  <2> QED BY <2>1, <2>2, <2>3, Zenon
<1>10. ASSUME Increasing(s), \A i \in 1..n : s[i] <= a
       PROVE  Increasing(y) /\ \A i \in 1..k : y[i] <= b
  <2>1. ASSUME NEW i \in 1..k - 1 PROVE y[i] < y[i + 1]
    <3>1. CASE i < n
      <4>1. i \in 1..n /\ i + 1 \in 1..n /\ i \in 1..n - 1
        BY <3>1
      <4>2. s[i] < s[i + 1]
        BY <4>1, <1>4, <1>10, Zenon DEF Increasing
      <4> QED BY <4>1, <4>2, <1>7, Zenon
    <3>2. CASE i = n
      <4>1. i \in 1..n /\ i + 1 \in n + 1 .. k
        BY <3>2
      <4>2. y[i] <= a /\ y[i] \in Nat
        BY <4>1, <1>7, <1>10, Zenon
      <4>3. y[i + 1] = a + (i + 1 - n)
        BY <4>1, <1>8
      <4> QED BY <4>2, <4>3, <3>2
    <3>3. CASE i > n
      <4>1. i \in n + 1 .. k /\ i + 1 \in n + 1 .. k
        BY <3>3
      <4>2. y[i] = a + (i - n) /\ y[i + 1] = a + (i + 1 - n)
        BY <4>1, <1>8
      <4> QED BY <4>2
    <3> QED BY <3>1, <3>2, <3>3
  <2>2. ASSUME NEW i \in 1..k PROVE y[i] <= b
    <3>1. CASE i <= n
      BY <1>7, <1>10, <3>1, SMTT(40)
    <3>2. CASE i > n
      <4>1. y[i] = a + (i - n)
        BY <3>2, <1>8
      <4> QED BY <4>1, <3>2, <1>5
    <3> QED BY <3>1, <3>2
  <2> QED BY <2>1, <2>2, <1>6, Zenon DEF Increasing
<1> QED BY <1>1, <1>3, <1>4, <1>5, <1>6, <1>9, <1>10, Zenon

\* The size of a write that has pieces left.
LEMMA SizeFacts ==
  ASSUME NEW q \in WriterType, NEW g \in Nat, WriteOK(q, g), q.pieces # <<>>
  PROVE  /\ Size(q) \in Nat /\ Size(q) > 0
         /\ q.from + Size(q) = End(q.pieces) /\ q.from + Size(q) <= g
<1>1. q.pieces \in Seq(Nat) /\ q.from \in Nat
  BY Zenon DEF WriterType
<1>2. Len(q.pieces) \in Nat /\ Len(q.pieces) >= 1
      /\ \A i \in 1..Len(q.pieces) : q.pieces[i] \in Nat
  BY <1>1, SMTT(40)
<1>3. q.pieces[1] <= End(q.pieces) /\ End(q.pieces) \in Nat /\ q.pieces[1] \in Nat
  BY <1>2, SMTT(40) DEF WriteOK, Sorted, End
<1>4. q.pieces[1] > q.from /\ End(q.pieces) <= g
  BY Zenon DEF WriteOK
<1>5. Size(q) = End(q.pieces) - q.from
  BY Zenon DEF Size, End
<1> QED BY <1>1, <1>3, <1>4, <1>5, SMTT(40)

\* What is left of a write once some of its bytes are consumed is as well-formed.
LEMMA AdvanceFacts ==
  ASSUME MinIsLeast, NEW q \in WriterType, NEW g \in Nat, WriteOK(q, g), q.pieces # <<>>,
         Unsettled(q), NEW n \in Nat, n > 0, n <= Size(q)
  PROVE  /\ Advance(q, n) \in WriterType /\ WriteOK(Advance(q, n), g)
         /\ Advance(q, n).op = q.op /\ Advance(q, n).from = q.from + n
         /\ Advance(q, n).rest = q.rest /\ Advance(q, n).first = q.first
         /\ Advance(q, n).result = q.result
         /\ Advance(q, n).pieces = <<>> <=> n = Size(q)
<1>1. PICK a : a = Advance(q, n)
  BY Zenon
<1>2. PICK y : y = Beyond(q.pieces, q.from + n)
  BY Zenon
<1>3. q.from \in Nat /\ q.from + n \in Nat /\ q.pieces \in Seq(Nat) /\ Sorted(q.pieces)
  <2>1. q.from \in Nat /\ q.pieces \in Seq(Nat)
    BY Zenon DEF WriterType
  <2> QED BY <2>1, SMTT(40) DEF WriteOK
<1>4. y \in Seq(Nat) /\ Sorted(y)
      /\ (y # <<>> => y[1] > q.from + n /\ End(y) = End(q.pieces))
      /\ (y = <<>> <=> End(q.pieces) <= q.from + n)
  BY <1>2, <1>3, BeyondFacts, Zenon
<1>5. a \in WriterType /\ a.op = q.op /\ a.from = q.from + n /\ a.rest = q.rest
      /\ a.first = q.first /\ a.result = q.result /\ a.pieces = y
  BY <1>1, <1>2, <1>3, <1>4, Zenon DEF Advance, WriterType
<1>6. Size(q) \in Nat /\ q.from + Size(q) = End(q.pieces) /\ q.from + Size(q) <= g
  BY SizeFacts, Zenon
<1>7. y = <<>> <=> n = Size(q)
  BY <1>3, <1>4, <1>6, SMTT(40)
<1>8. /\ q.first \in Nat /\ q.result \in Int /\ q.result < 0
      /\ q.first <= q.from + 1 /\ Sorted(q.rest) /\ (q.rest # <<>> => End(q.rest) = g)
      /\ (q.rest = <<>> => End(q.pieces) = g)
  BY SMTT(40) DEF WriteOK, WriterType, Unsettled, Pending, Failed
<1>9. WriteOK(a, g)
  <2>1. q.from + n <= g /\ q.first <= q.from + n + 1
    BY <1>3, <1>6, <1>8, SMTT(40)
  <2>2. y # <<>> => y[1] > a.from /\ End(y) <= g
    BY <1>4, <1>5, <1>6, Zenon
  <2>3. a.rest = <<>> /\ y = <<>> => a.from = g
    BY <1>5, <1>6, <1>7, <1>8, Zenon
  <2>4. a.from <= g /\ a.first <= a.from + 1
    BY <2>1, <1>5, Zenon
  <2> QED BY <2>2, <2>3, <2>4, <1>4, <1>5, <1>8 DEF WriteOK
<1> QED BY <1>1, <1>5, <1>7, <1>9, Zenon

\* The tail of a sorted sequence.
LEMMA TailFacts ==
  ASSUME NEW s \in Seq(Nat), s # <<>>, Sorted(s)
  PROVE  /\ Tail(s) \in Seq(Nat) /\ Sorted(Tail(s)) /\ Head(s) = s[1]
         /\ Head(s) \in Nat /\ Head(s) <= End(s) /\ <<Head(s)>> \in Seq(Nat)
         /\ Tail(s) # <<>> => End(Tail(s)) = End(s)
         /\ Tail(s) = <<>> => Head(s) = End(s)
<1>1. Len(s) \in Nat /\ Len(s) >= 1 /\ \A i \in 1..Len(s) : s[i] \in Nat
  OBVIOUS
<1>2. PICK y : y = Tail(s)
  BY Zenon
<1>3. PICK n : n = Len(s)
  BY Zenon
<1>4. y \in Seq(Nat) /\ Len(y) = n - 1 /\ \A i \in 1 .. n - 1 : y[i] = s[i + 1]
  BY <1>1, <1>2, <1>3
<1>5. ASSUME NEW i \in 1 .. n - 1, NEW j \in 1 .. n - 1, i <= j PROVE y[i] <= y[j]
  <2>1. i + 1 \in 1..n /\ j + 1 \in 1..n /\ i + 1 <= j + 1
    BY <1>1, <1>3, <1>5
  <2>2. s[i + 1] <= s[j + 1]
    BY <2>1, <1>3, Zenon DEF Sorted
  <2> QED BY <2>2, <1>4, Zenon
<1>6. Sorted(y)
  BY <1>4, <1>5, Zenon DEF Sorted
<1>7. y # <<>> => End(y) = End(s)
  <2>1. y # <<>> => n - 1 \in 1 .. n - 1 /\ n - 1 + 1 = n
    BY <1>1, <1>3, <1>4
  <2>2. y # <<>> => y[n - 1] = s[n - 1 + 1]
    BY <2>1, <1>4, Zenon
  <2> QED BY <2>1, <2>2, <1>3, <1>4, Zenon DEF End
<1>8. ASSUME y = <<>> PROVE n = 1
  <2>1. Len(y) = 0 /\ Len(y) = n - 1 /\ n \in Nat
    BY <1>1, <1>3, <1>4, <1>8, Zenon
  <2> QED BY <2>1
<1>9. s[1] \in Nat /\ s[1] <= End(s)
  BY <1>1 DEF Sorted, End
<1>10. <<s[1]>> \in Seq(Nat)
  BY <1>9
<1> QED BY <1>2, <1>3, <1>4, <1>6, <1>7, <1>8, <1>9, <1>10, SMTT(40) DEF End

\* What a write leaves to the pieces and to the continuation is well-formed.
LEMMA RetryFacts ==
  ASSUME MinIsLeast, NEW q \in WriterType, NEW g \in Nat, WriteOK(q, g), q.pieces # <<>>,
         q.rest = <<>>, q.result = Pending, NEW n \in Nat, n > 0, n <= Size(q)
  PROVE  /\ Retry(q, n) \in WriterType /\ WriteOK(Retry(q, n), g)
         /\ Retry(q, n).op = q.op /\ Retry(q, n).from = q.from + n
         /\ Retry(q, n).first = q.first /\ Retry(q, n).result = Pending
         /\ Retry(q, n).pieces = <<>> <=> n = Size(q)
         /\ Retry(q, n).pieces = <<>> => Retry(q, n).rest = <<>>
<1>1. PICK a : a = Retry(q, n)
  BY Zenon
<1>2. PICK b : b = q.from + n
  BY Zenon
<1>3. q.from \in Nat /\ b \in Nat /\ q.pieces \in Seq(Nat) /\ Sorted(q.pieces)
  <2>1. q.from \in Nat /\ q.pieces \in Seq(Nat)
    BY Zenon DEF WriterType
  <2>2. b \in Nat
    BY <2>1, <1>2
  <2> QED BY <2>1, <2>2, Zenon DEF WriteOK
<1>4. PICK y : y = Beyond(q.pieces, b)
  BY Zenon
<1>5. y \in Seq(Nat) /\ Sorted(y)
      /\ (y # <<>> => y[1] > b /\ End(y) = End(q.pieces))
      /\ (y = <<>> <=> End(q.pieces) <= b)
  BY <1>3, <1>4, BeyondFacts, Zenon
<1>6. Size(q) \in Nat /\ q.from + Size(q) = End(q.pieces) /\ End(q.pieces) = g
  BY SizeFacts, Zenon DEF WriteOK
<1>7. y = <<>> <=> n = Size(q)
  BY <1>2, <1>3, <1>5, <1>6, SMTT(40)
<1>8. b <= g /\ q.first \in Nat /\ q.first <= b + 1
  <2>1. q.first \in Nat
    BY Zenon DEF WriterType
  <2>2. q.first <= q.from + 1
    BY Zenon DEF WriteOK
  <2> QED BY <2>1, <2>2, <1>2, <1>3, <1>6, SMTT(40)
<1>9. Pending = -1
  BY Zenon DEF Pending
<1>10. CASE b \in Range(q.pieces)
  <2>1. a \in WriterType /\ a.op = q.op /\ a.from = b /\ a.rest = <<>>
        /\ a.first = q.first /\ a.result = Pending /\ a.pieces = y
    BY <1>1, <1>2, <1>3, <1>4, <1>5, <1>10, Zenon DEF Retry, WriterType
  <2>2. y = <<>> => b = g
    BY <1>2, <1>6, <1>7, Zenon
  <2>3. WriteOK(a, g)
    BY <2>1, <2>2, <1>5, <1>6, <1>8, <1>9 DEF WriteOK, Sorted
  <2> QED BY <1>1, <1>2, <1>7, <2>1, <2>3, Zenon
<1>11. CASE b \notin Range(q.pieces)
  <2>1. y # <<>>
    <3>1. End(q.pieces) \in Range(q.pieces)
      BY <1>3 DEF Range, End
    <3> QED BY <3>1, <1>2, <1>6, <1>7, <1>11, Zenon
  <2>2. /\ Tail(y) \in Seq(Nat) /\ Sorted(Tail(y)) /\ Head(y) = y[1]
        /\ Head(y) \in Nat /\ Head(y) <= End(y) /\ <<Head(y)>> \in Seq(Nat)
        /\ (Tail(y) # <<>> => End(Tail(y)) = End(y))
        /\ (Tail(y) = <<>> => Head(y) = End(y))
    BY <1>5, <2>1, TailFacts, Zenon
  <2>3. a \in WriterType /\ a.op = q.op /\ a.from = b /\ a.rest = Tail(y)
        /\ a.first = q.first /\ a.result = Pending /\ a.pieces = <<Head(y)>>
    BY <1>1, <1>2, <1>3, <1>4, <1>11, <2>2, Zenon DEF Retry, WriterType
  <2>4. PICK z : z = <<Head(y)>>
    BY Zenon
  <2>5. z # <<>> /\ Sorted(z) /\ z[1] = Head(y) /\ End(z) = Head(y)
    BY <2>2, <2>4, SMTT(40) DEF Sorted, End
  <2>6. WriteOK(a, g)
    BY <2>1, <2>2, <2>3, <2>4, <2>5, <1>5, <1>6, <1>8, <1>9, SMTT(40) DEF WriteOK
  <2> QED BY <1>1, <1>2, <1>7, <2>1, <2>3, <2>4, <2>5, <2>6, Zenon
<1> QED BY <1>10, <1>11, Zenon

\* The pieces that remain when a pump ends with a piece, or when the
\* continuation writes the rest, are well-formed.
LEMMA RestFacts ==
  ASSUME MinIsLeast, NEW q \in WriterType, NEW g \in Nat, WriteOK(q, g), q.result = Pending
  PROVE  /\ q.pieces # <<>> /\ q.rest = <<>> =>
              \A b \in q.from .. g : LET a == [q EXCEPT !.from = b, !.pieces = <<>>,
                                                       !.rest = Beyond(q.pieces, b)]
                                     IN /\ a \in WriterType /\ WriteOK(a, g)
                                        /\ a.rest = <<>> <=> b = g
         /\ q.pieces = <<>> /\ q.rest # <<>> =>
              LET a == [q EXCEPT !.pieces = Beyond(q.rest, q.from), !.rest = <<>>]
              IN /\ a \in WriterType /\ WriteOK(a, g)
                 /\ a.pieces = <<>> => q.from = g
<1>1. q.from \in Nat /\ q.pieces \in Seq(Nat) /\ q.rest \in Seq(Nat) /\ q.first \in Nat
  BY Zenon DEF WriterType
<1>2. Sorted(q.pieces) /\ Sorted(q.rest) /\ q.from <= g /\ q.first <= q.from + 1
      /\ (q.rest # <<>> => End(q.rest) = g)
      /\ (q.rest = <<>> /\ q.pieces # <<>> => End(q.pieces) = g)
  BY Zenon DEF WriteOK
<1>3. Sorted(<<>>) /\ <<>> \in Seq(Nat) /\ Pending < 0
  BY DEF Sorted, Pending
<1>4. ASSUME q.pieces # <<>>, q.rest = <<>>, NEW b \in q.from .. g,
             NEW a, a = [q EXCEPT !.from = b, !.pieces = <<>>, !.rest = Beyond(q.pieces, b)]
      PROVE  a \in WriterType /\ WriteOK(a, g) /\ (a.rest = <<>> <=> b = g)
  <2>1. b \in Nat /\ b <= g /\ q.first <= b + 1
    BY <1>1, <1>2, SMTT(40)
  <2>2. PICK y : y = Beyond(q.pieces, b)
    BY Zenon
  <2>3. y \in Seq(Nat) /\ Sorted(y) /\ (y # <<>> => End(y) = g) /\ (y = <<>> <=> g <= b)
    BY <1>1, <1>2, <1>4, <2>1, <2>2, BeyondFacts, Zenon
  <2>4. a \in WriterType /\ a.from = b /\ a.pieces = <<>> /\ a.rest = y
        /\ a.first = q.first /\ a.result = Pending
    BY <1>3, <1>4, <2>1, <2>2, <2>3, Zenon DEF WriterType
  <2>5. y = <<>> <=> b = g
    BY <2>1, <2>3
  <2> QED BY <1>3, <2>1, <2>3, <2>4, <2>5 DEF WriteOK
<1>5. ASSUME q.pieces = <<>>, q.rest # <<>>,
             NEW a, a = [q EXCEPT !.pieces = Beyond(q.rest, q.from), !.rest = <<>>]
      PROVE  a \in WriterType /\ WriteOK(a, g) /\ (a.pieces = <<>> => q.from = g)
  <2>1. PICK y : y = Beyond(q.rest, q.from)
    BY Zenon
  <2>2. y \in Seq(Nat) /\ Sorted(y) /\ (y # <<>> => y[1] > q.from /\ End(y) = g)
        /\ (y = <<>> => g <= q.from)
    BY <1>1, <1>2, <1>5, <2>1, BeyondFacts, Zenon
  <2>3. a \in WriterType /\ a.from = q.from /\ a.pieces = y /\ a.rest = <<>>
        /\ a.first = q.first /\ a.result = Pending
    BY <1>3, <1>5, <2>1, <2>2, Zenon DEF WriterType
  <2>4. y = <<>> => q.from = g
    BY <1>1, <1>2, <2>2
  <2> QED BY <1>2, <1>3, <2>2, <2>3, <2>4 DEF WriteOK
<1> QED BY <1>4, <1>5, Zenon

\* The bytes that an operation holds.
LEMMA HeldFacts ==
  ASSUME NEW q \in WriterType, NEW g \in Nat, WriterOK(q, g)
  PROVE  {b \in q.from + 1 .. g : \E e \in Range(q.pieces) \cup Range(q.rest) : b <= e}
           = IF q.op = "write" THEN q.from + 1 .. g ELSE {}
<1>1. q.from \in Nat /\ q.pieces \in Seq(Nat) /\ q.rest \in Seq(Nat)
  BY Zenon DEF WriterType
<1>2. CASE q.op = "write"
  <2>1. ASSUME NEW b \in q.from + 1 .. g
        PROVE  \E e \in Range(q.pieces) \cup Range(q.rest) : b <= e
    <3>1. q.rest # <<>> => g \in Range(q.rest)
      <4>1. q.rest # <<>> => Len(q.rest) \in DOMAIN q.rest
        BY <1>1
      <4> QED BY <4>1, <1>2, Zenon DEF WriterOK, WriteOK, End, Range
    <3>2. q.rest = <<>> /\ q.pieces # <<>> => g \in Range(q.pieces)
      <4>1. q.pieces # <<>> => Len(q.pieces) \in DOMAIN q.pieces
        BY <1>1
      <4> QED BY <4>1, <1>2, Zenon DEF WriterOK, WriteOK, End, Range
    <3>3. q.rest = <<>> /\ q.pieces = <<>> => q.from = g
      BY <1>2, Zenon DEF WriterOK, WriteOK
    <3>4. q.from # g /\ b <= g
      BY <1>1
    <3> QED BY <3>1, <3>2, <3>3, <3>4, Zenon
  <2> QED BY <1>2, <2>1, Zenon
<1>3. CASE q.op # "write"
  <2>1. q.pieces = <<>> /\ q.rest = <<>>
    BY <1>3, Zenon DEF WriterOK
  <2>2. Range(<<>>) = {}
    BY DEF Range
  <2> QED BY <1>3, <2>1, <2>2, Zenon
<1> QED BY <1>2, <1>3, Zenon

\* A fulfiller changes nothing but the result.
LEMMA FulfilFacts ==
  ASSUME NEW n \in Int
  PROVE  /\ \A q \in ReaderType :
              /\ Fulfil(q, n) \in ReaderType /\ Fulfil(q, n).op = q.op
              /\ Fulfil(q, n).need = q.need /\ Fulfil(q, n).room = q.room
              /\ Fulfil(q, n).count = q.count /\ Fulfil(q, n).min = q.min
              /\ Fulfil(q, n).max = q.max /\ Fulfil(q, n).start = q.start
              /\ Fulfil(q, n).result = IF q.result = Pending THEN n ELSE q.result
         /\ \A q \in WriterType :
              /\ Fulfil(q, n) \in WriterType /\ Fulfil(q, n).op = q.op
              /\ Fulfil(q, n).from = q.from /\ Fulfil(q, n).pieces = q.pieces
              /\ Fulfil(q, n).rest = q.rest /\ Fulfil(q, n).first = q.first
              /\ Fulfil(q, n).left = q.left /\ Fulfil(q, n).input = q.input
              /\ Fulfil(q, n).amount = q.amount /\ Fulfil(q, n).taken = q.taken
              /\ Fulfil(q, n).result = IF q.result = Pending THEN n ELSE q.result
<1>1. ASSUME NEW q \in ReaderType, NEW a, a = Fulfil(q, n)
      PROVE  /\ a \in ReaderType /\ a.op = q.op /\ a.need = q.need /\ a.room = q.room
             /\ a.count = q.count /\ a.min = q.min /\ a.max = q.max /\ a.start = q.start
             /\ a.result = IF q.result = Pending THEN n ELSE q.result
  BY <1>1, Zenon DEF Fulfil, ReaderType
<1>2. ASSUME NEW q \in WriterType, NEW a, a = Fulfil(q, n)
      PROVE  /\ a \in WriterType /\ a.op = q.op /\ a.from = q.from
             /\ a.pieces = q.pieces /\ a.rest = q.rest /\ a.first = q.first
             /\ a.left = q.left /\ a.input = q.input
             /\ a.amount = q.amount /\ a.taken = q.taken
             /\ a.result = IF q.result = Pending THEN n ELSE q.result
  BY <1>2, Zenon DEF Fulfil, WriterType
<1> QED BY <1>1, <1>2

-----------------------------------------------------------------------------
(* What the steps have in common.                                          *)

(* The bytes after this one are held by the write end's operation, if any. *)
Low == IF w.op = "write" THEN w.from ELSE given

\* A transfer is between two operations, and no other state has one.
LEMMA KindFacts ==
  ASSUME IInv
  PROVE  /\ r.op = "idle" => ~Moving
         /\ w.op = "idle" \/ RestIsDue => x.kind = "none"
         /\ state \in {"none", "shutdown"} => x.kind = "none"
         /\ state = "aborted" => ~Moving
         /\ Low \in Nat /\ Pos \in Nat /\ Low <= Pos /\ Pos <= given
<1>1. TypeOK /\ ObjectOK /\ WriterOK(w, given) /\ TransferOK
  BY Zenon DEF IInv
<1>2. x.kind \in {"none", "out", "in", "pump", "eof"} /\ x.at \in Nat /\ given \in Nat
      /\ w.from \in Nat /\ w.pieces \in Seq(Nat) /\ w \in WriterType /\ r.room \in Nat
  BY <1>1, Zenon DEF TypeOK, TransferType, WriterType, ReaderType
<1>3. r.op = "idle" => ~Moving
  BY <1>1, Zenon DEF TransferOK, OutOK, InOK, BothOK, ObjectOK, Moving, ReadStates
<1>4. w.op = "idle" \/ RestIsDue => x.kind = "none"
  BY <1>1, <1>2, Zenon
  DEF TransferOK, OutOK, InOK, BothOK, ObjectOK, RestIsDue, WriterOK
<1>5. state \in {"none", "shutdown"} => x.kind = "none"
  BY <1>1, <1>2, Zenon DEF TransferOK, OutOK, InOK, BothOK
<1>6. state = "aborted" => ~Moving
  BY <1>1, Zenon DEF TransferOK, OutOK, InOK, BothOK, Moving
<1>7. w.op = "write" => w.from <= given
  BY <1>1, Zenon DEF WriterOK, WriteOK
<1>8. Low \in Nat /\ Low <= given
  BY <1>2, <1>7 DEF Low
<1>9. x.kind = "out" => w.op = "write" /\ w.from <= x.at /\ x.at <= given
  <2>1. SUFFICES ASSUME x.kind = "out" PROVE w.op = "write" /\ w.from <= x.at /\ x.at <= given
    BY Zenon
  <2>2. w.op = "write" /\ w.pieces # <<>> /\ w.from <= x.at /\ x.at < Stop
    BY <1>1, <2>1, Zenon DEF TransferOK, OutOK, ObjectOK
  <2>3. Size(w) \in Nat /\ w.from + Size(w) <= given
    BY <1>1, <1>2, <2>2, SizeFacts, Zenon DEF WriterOK
  <2> QED BY <2>2, <2>3, <1>2, SMTT(40) DEF Stop, Least
<1>10. Pos \in Nat /\ Low <= Pos /\ Pos <= given
  BY <1>2, <1>7, <1>8, <1>9 DEF Pos, Low
<1> QED BY <1>3, <1>4, <1>5, <1>6, <1>8, <1>10, Zenon

\* Which bytes are held.
LEMMA HeldIsAbove ==
  /\ TypeOK /\ WriterOK(w, given) => Held(w) = Low + 1 .. given
  /\ TypeOK' /\ WriterOK(w', given') => Held(w)' = Low' + 1 .. given'
<1>1. ASSUME NEW g \in Nat PROVE g + 1 .. g = {}
  OBVIOUS
<1>2. TypeOK /\ WriterOK(w, given) => Held(w) = Low + 1 .. given
  BY <1>1, HeldFacts, Zenon DEF TypeOK, Held, Low
<1>3. TypeOK' /\ WriterOK(w', given') => Held(w)' = Low' + 1 .. given'
  BY <1>1, HeldFacts, Zenon DEF TypeOK, Held, Low
<1> QED BY <1>2, <1>3, Zenon

\* Steps that receive nothing, and hold the bytes they held.
LEMMA OrderKept ==
  ASSUME IInv, TypeOK', WriterOK(w', given'),
         received' = received, given' = given, dropped' = dropped,
         w'.op = w.op, w'.from = w.from, w'.first = w.first,
         torn' \/ (~torn /\ Pos <= Pos')
  PROVE  OrderOK'
<1>1. TypeOK /\ WriterOK(w, given) /\ OrderOK
  BY Zenon DEF IInv
<1>2. Low' = Low
  BY Zenon DEF Low
<1>3. Held(w)' = Held(w)
  BY <1>1, <1>2, HeldIsAbove, Zenon
<1>4. NothingLost'
  BY <1>1, <1>3, Zenon DEF OrderOK, NothingLost
<1>5. w'.op = "write" => w'.first .. w'.from \subseteq Range(received')
  BY <1>1, Zenon DEF OrderOK
<1>6. torn' \/ (Increasing(received') /\ \A i \in 1..Len(received') : received'[i] <= Pos')
  <2>1. SUFFICES ASSUME ~torn', NEW i \in 1..Len(received)
                 PROVE  received[i] <= Pos'
    BY <1>1, Zenon DEF OrderOK, Increasing
  <2>2. received[i] <= Pos /\ Pos <= Pos'
    BY <1>1, <2>1, Zenon DEF OrderOK
  <2>3. received[i] \in Nat /\ Pos \in Nat
    BY <1>1, KindFacts, SMTT(40) DEF TypeOK
  <2>4. Pos' \in Nat
    BY Zenon DEF Pos, TypeOK, TransferType, WriterType
  <2> QED BY <2>2, <2>3, <2>4
<1> QED BY <1>4, <1>5, <1>6, Zenon DEF OrderOK

\* The bytes of a run that is appended.
LEMMA RunRange ==
  ASSUME NEW s \in Seq(Nat), NEW a \in Nat, NEW b \in Nat, a <= b
  PROVE  Range(s \o Run(a, b)) = Range(s) \cup (a + 1 .. b)
  BY RunFacts, ZenonT(90)

\* Bytes that are received or held stay so when more of them are received.
LEMMA Cover ==
  ASSUME NEW g \in Nat, NEW h \in Nat, NEW lo \in Nat, NEW hi \in Nat,
         NEW p \in Nat, NEW b \in Nat, NEW R, NEW D,
         1..g = R \cup (lo + 1 .. g) \cup D, lo + 1 .. p \subseteq R,
         lo <= p, p <= g, p <= b, b <= h, g <= h, lo <= hi, hi <= b
  PROVE  1..h = R \cup (p + 1 .. b) \cup (hi + 1 .. h) \cup D
<1>1. ASSUME NEW n \in 1..h PROVE n \in R \cup (p + 1 .. b) \cup (hi + 1 .. h) \cup D
  <2>1. CASE n <= lo
    BY <2>1
  <2>2. CASE lo < n /\ n <= p
    BY <2>2
  <2>3. CASE p < n /\ n <= b
    BY <2>3
  <2>4. CASE b < n
    BY <2>4
  <2> QED BY <2>1, <2>2, <2>3, <2>4
<1>2. 1..g \subseteq 1..h /\ p + 1 .. b \subseteq 1..h /\ hi + 1 .. h \subseteq 1..h
  OBVIOUS
<1>3. R \subseteq 1..g /\ D \subseteq 1..g
  BY Zenon
<1> QED BY <1>1, <1>2, <1>3, Zenon

\* Steps that receive the bytes after Pos, up to b.
LEMMA OrderMoved ==
  ASSUME IInv, TypeOK', WriterOK(w', given'), NEW b \in Nat, Pos <= b, b <= given',
         received' = received \o Run(Pos, b), dropped' = dropped, torn' = torn,
         given <= given', Low <= Low', Low' <= b, b <= Pos',
         w'.op = "write" => \/ w.op = "write" /\ w'.first = w.first
                            \/ w.op # "write" /\ w'.first = given + 1
  PROVE  OrderOK'
<1>1. TypeOK /\ WriterOK(w, given) /\ OrderOK
  BY Zenon DEF IInv
<1>2. Pos \in Nat /\ Low \in Nat /\ Low <= Pos /\ Pos <= given
  BY KindFacts, Zenon
<1>3. received \in Seq(Nat) /\ given \in Nat /\ given' \in Nat
  BY <1>1, Zenon DEF TypeOK
<1>4. Pos' \in Nat /\ Low' \in Nat
  BY Zenon DEF Pos, Low, TypeOK, TransferType, WriterType
<1>5. Range(received') = Range(received) \cup (Pos + 1 .. b)
  BY <1>2, <1>3, RunRange
<1>6. Low + 1 .. Pos \subseteq Range(received)
  <2>1. CASE x.kind = "out"
    <3>1. w.op = "write" /\ w.from + 1 .. x.at \subseteq Range(received)
      BY <1>1, <2>1, Zenon DEF IInv, TransferOK, OutOK, ObjectOK
    <3> QED BY <3>1, <2>1, Zenon DEF Low, Pos
  <2>2. CASE x.kind # "out"
    <3>1. Low = Pos
      BY <2>2, Zenon DEF Low, Pos
    <3> QED BY <3>1, <1>2
  <2> QED BY <2>1, <2>2, Zenon
<1>7. torn' \/ (Increasing(received') /\ \A i \in 1..Len(received') : received'[i] <= Pos')
  <2>1. SUFFICES ASSUME ~torn
                 PROVE  Increasing(received') /\ \A i \in 1..Len(received') : received'[i] <= Pos'
    BY Zenon
  <2>2. Increasing(received) /\ \A i \in 1..Len(received) : received[i] <= Pos
    BY <1>1, <2>1, Zenon DEF OrderOK
  <2>3. Increasing(received') /\ \A i \in 1..Len(received') : received'[i] <= b
    BY <1>2, <1>3, <2>2, RunFacts, Zenon
  <2>4. ASSUME NEW i \in 1..Len(received') PROVE received'[i] <= Pos'
    <3>1. received'[i] <= b /\ received'[i] \in Nat
      BY <2>3, SMTT(40) DEF TypeOK
    <3> QED BY <3>1, <1>4, SMTT(40)
  <2> QED BY <2>3, <2>4, Zenon
<1>8. ASSUME w'.op = "write" PROVE w'.first .. w'.from \subseteq Range(received')
  <2>1. w'.from = Low' /\ w'.first \in Nat /\ w'.from \in Nat
    BY <1>8, Zenon DEF Low, TypeOK, WriterType
  <2>2. ASSUME NEW n \in w'.first .. w'.from PROVE n \in Range(received')
    <3>1. n \in Nat /\ n <= b
      BY <2>1
    <3>2. CASE n <= Low
      <4>1. w.op = "write" /\ w'.first = w.first /\ Low = w.from
        BY <1>2, <1>3, <1>8, <2>1, <3>1, <3>2, SMTT(40) DEF Low
      <4>2. n \in w.first .. w.from
        BY <2>1, <3>1, <3>2, <4>1
      <4> QED BY <1>1, <1>5, <4>1, <4>2, Zenon DEF OrderOK
    <3>3. CASE Low < n /\ n <= Pos
      BY <1>2, <1>5, <1>6, <3>1, <3>3
    <3>4. CASE n > Pos
      BY <1>2, <1>5, <3>1, <3>4
    <3> QED BY <1>2, <3>1, <3>2, <3>3, <3>4
  <2> QED BY <2>2, Zenon
<1>9. NothingLost'
  <2>1. 1..given = Range(received) \cup (Low + 1 .. given) \cup dropped
    BY <1>1, HeldIsAbove, Zenon DEF OrderOK, NothingLost
  <2>2. Held(w)' = Low' + 1 .. given'
    BY HeldIsAbove, Zenon
  <2>3. 1..given' = Range(received) \cup (Pos + 1 .. b) \cup (Low' + 1 .. given') \cup dropped
    BY <1>2, <1>3, <1>4, <1>6, <2>1, Cover, SMTT(40)
  <2> QED BY <1>5, <2>2, <2>3, Zenon DEF NothingLost
<1> QED BY <1>7, <1>8, <1>9, Zenon DEF OrderOK

\* Steps after which the read end's operation is as it was, or has failed.
LEMMA ReaderKept ==
  ASSUME IInv, r' = r \/ r' = Fulfil(r, Failed), received' = received,
         state = "shutdown" => state' = "shutdown",
         Active' => Active,
         torn' \/ (~torn /\ (Active' => Sent' = Sent))
  PROVE  ReaderOK'
<1>1. TypeOK /\ ReaderOK
  BY Zenon DEF IInv
<1>2. Failed = -2 /\ Pending = -1
  BY Zenon DEF Failed, Pending
<1>3. /\ r'.op = r.op /\ r'.need = r.need /\ r'.room = r.room /\ r'.count = r.count
      /\ r'.min = r.min /\ r'.max = r.max /\ r'.start = r.start
      /\ r'.result = r.result \/ (r'.result = Failed /\ r.result = Pending)
  BY <1>1, <1>2, FulfilFacts DEF TypeOK
<1>4. Unsettled(r) => Unsettled(r')
  BY <1>3, Zenon DEF Unsettled
<1>5. CountsOK(r) => CountsOK(r')
  BY <1>3, <1>4, Zenon DEF CountsOK
<1>6. Active' => CountsOK(r') /\ (torn' \/ Len(received') = r'.start + r'.count + Sent')
  BY <1>1, <1>3, <1>5, Zenon DEF ReaderOK
<1>7. ReadsAsPromised'
  BY <1>1, <1>2, <1>3 DEF ReaderOK, ReadsAsPromised
<1>8. r'.op = "pump" => r'.need = r'.room
  BY <1>1, <1>3, Zenon DEF ReaderOK
<1> QED BY <1>6, <1>7, <1>8, Zenon DEF ReaderOK, CountsOK, Unsettled

\* The length of what is received with a run of n bytes.
LEMMA RunLen ==
  ASSUME NEW s \in Seq(Nat), NEW a \in Nat, NEW n \in Nat
  PROVE  s \o Run(a, a + n) \in Seq(Nat) /\ Len(s \o Run(a, a + n)) = Len(s) + n
<1>1. PICK b : b = a + n
  BY Zenon
<1>2. b \in Nat /\ a <= b /\ b - a = n
  BY <1>1
<1>3. s \o Run(a, b) \in Seq(Nat) /\ Len(s \o Run(a, b)) = Len(s) + (b - a)
  BY <1>2, RunFacts, ZenonT(30)
<1> QED BY <1>1, <1>2, <1>3, Zenon

-----------------------------------------------------------------------------
(* Operations of the read end.                                             *)

(* q is a new operation of the read end.                                   *)
Fresh(q) ==
  /\ q \in ReaderType /\ q.op \in {"read", "pump"} /\ q.count = 0 /\ q.result = Pending
  /\ 0 < q.need /\ q.need <= q.room /\ q.min = q.need /\ q.max = q.room
  /\ q.start = Len(received) /\ (q.op = "pump" => q.need = q.room)

\* Steps after which the new operation of the read end has got nothing yet.
LEMMA ReaderFresh ==
  ASSUME TypeOK, NEW q, Fresh(q), r' = q, received' = received, Sent' = 0
  PROVE  ReaderOK'
<1>1. q \in ReaderType /\ q.count = 0 /\ q.result = Pending /\ q.start = Len(received)
      /\ 0 < q.need /\ q.need <= q.room /\ q.min = q.need /\ q.max = q.room
      /\ (q.op = "pump" => q.need = q.room)
  BY Zenon DEF Fresh
<1>2. q.need \in Int /\ q.room \in Nat /\ Len(received) \in Nat /\ Pending = -1
  BY <1>1, Zenon DEF ReaderType, TypeOK, Pending
<1>3. CountsOK(r') /\ Len(received') = r'.start + r'.count + Sent'
  BY <1>1, <1>2 DEF CountsOK, Unsettled
<1>4. ReadsAsPromised'
  BY <1>1, <1>2 DEF ReadsAsPromised
<1> QED BY <1>1, <1>3, <1>4, Zenon DEF ReaderOK, CountsOK, Unsettled

\* A read or a pump that waits.
LEMMA ReadBlocksInv ==
  ASSUME IInv, NEW q, Fresh(q), ReadBlocks(q)
  PROVE  IInv'
<1>1. TypeOK /\ WriterOK(w, given) /\ TransferOK /\ NobodyForgotten
  BY Zenon DEF IInv
<1>2. /\ state = "none" /\ r' = q /\ state' = IF q.op = "read" THEN "read" ELSE "pumpTo"
      /\ UNCHANGED <<w, x, received, given, dropped, torn>>
  BY Zenon DEF ReadBlocks
<1>3. x.kind = "none"
  BY <1>2, KindFacts, Zenon
<1>4. TypeOK'
  BY <1>1, <1>2, Zenon DEF TypeOK, States, Fresh
<1>5. ObjectOK'
  BY <1>2, Zenon DEF ObjectOK, Fresh, Unsettled
<1>6. WriterOK(w', given')
  BY <1>1, <1>2, Zenon
<1>7. TransferOK'
  BY <1>2, <1>3, Zenon DEF TransferOK
<1>8. ReaderOK'
  BY <1>1, <1>2, <1>3, ReaderFresh, Zenon DEF Sent
<1>9. OrderOK'
  <2>1. Pos' = Pos /\ Pos \in Nat
    BY <1>2, KindFacts, Zenon DEF Pos
  <2> QED BY <1>1, <1>2, <1>4, <1>6, <2>1, OrderKept, SMTT(40) DEF TypeOK
<1>10. NobodyForgotten'
  BY <1>1, <1>2, <1>3, Zenon DEF NobodyForgotten, Waiting, RestIsDue, ReadStates, WriteStates
<1> QED BY <1>4, <1>5, <1>6, <1>7, <1>8, <1>9, <1>10, Zenon DEF IInv

\* A write whose pieces are consumed is over, or its continuation is due.
LEMMA WrittenFacts ==
  ASSUME NEW q \in WriterType, NEW g \in Nat, WriteOK(q, g), q.op = "write",
         q.pieces = <<>>, Unsettled(q)
  PROVE  /\ Written(q) \in WriterType /\ WriterOK(Written(q), g)
         /\ Written(q).op = "write" /\ Written(q).from = q.from
         /\ Written(q).first = q.first /\ Written(q).pieces = <<>>
         /\ Written(q).rest = q.rest
         /\ Written(q).result = Pending => q.rest # <<>>
<1>1. PICK a : a = Written(q)
  BY Zenon
<1>2. /\ a \in WriterType /\ a.op = "write" /\ a.from = q.from /\ a.first = q.first
      /\ a.pieces = <<>> /\ a.rest = q.rest
      /\ a.result = q.result \/ (q.rest = <<>> /\ a.result = 0)
      /\ q.rest = <<>> => a.result # Pending
  BY <1>1, FulfilFacts DEF Written, Pending
<1>3. q.result < 0
  BY DEF Unsettled, Pending, Failed
<1>4. WriteOK(a, g)
  BY <1>2, <1>3, Zenon DEF WriteOK
<1> QED BY <1>1, <1>2, <1>4, Zenon DEF WriterOK

\* A read that is served by a blocked write.
LEMMA ReadFromWriteInv ==
  ASSUME MinIsLeast, IInv, NEW q, Fresh(q), r.op = "idle", ReadFromWrite(q)
  PROVE  IInv'
<1>1. TypeOK /\ ObjectOK /\ WriterOK(w, given) /\ TransferOK
  BY Zenon DEF IInv
<1>2. /\ state = "write" /\ q.op = "read" /\ UNCHANGED <<x, given, dropped, torn>>
      /\ received' = received \o Run(w.from, w.from + Least(Size(w), q.room))
      /\ IF Size(w) > q.room
         THEN /\ w' = Advance(w, q.room) /\ r' = Fulfil(q, q.room) /\ state' = state
         ELSE /\ w' = Written(Advance(w, Size(w)))
              /\ r' = IF Size(w) >= q.need THEN Fulfil(q, Size(w))
                      ELSE [q EXCEPT !.need = @ - Size(w), !.room = @ - Size(w),
                                     !.count = Size(w)]
              /\ state' = IF Size(w) >= q.need THEN "none" ELSE "read"
  BY Zenon DEF ReadFromWrite
<1>3. x.kind = "none"
  BY <1>1, <1>2, KindFacts, Zenon DEF TypeOK, TransferType, TransferOK, Moving
<1>4. /\ w \in WriterType /\ given \in Nat /\ w.op = "write" /\ w.pieces # <<>>
      /\ Unsettled(w) /\ WriteOK(w, given) /\ w.from \in Nat
  BY <1>1, <1>2, Zenon DEF TypeOK, ObjectOK, WriterOK, WriterType
<1>5. Size(w) \in Nat /\ Size(w) > 0 /\ w.from + Size(w) <= given
  BY <1>4, SizeFacts, Zenon
<1>6. q \in ReaderType /\ q.room \in Nat /\ q.need \in Int /\ q.result = Pending
      /\ 0 < q.need /\ q.need <= q.room /\ q.min = q.need /\ q.max = q.room
      /\ q.start = Len(received) /\ Len(received) \in Nat /\ q.count = 0
  BY <1>1, Zenon DEF Fresh, ReaderType, TypeOK
<1>7. PICK n \in Nat : n = Least(Size(w), q.room)
  BY <1>5, <1>6, Zenon DEF Least
<1>8. 0 < n /\ n <= Size(w) /\ n <= q.room /\ w.from + n \in Nat /\ w.from + n <= given
  BY <1>4, <1>5, <1>6, <1>7, SMTT(40) DEF Least
<1>9. received' \in Seq(Nat) /\ Len(received') = Len(received) + n
  <2>1. received \in Seq(Nat)
    BY <1>1, Zenon DEF TypeOK
  <2>2. received \o Run(w.from, w.from + n) \in Seq(Nat)
        /\ Len(received \o Run(w.from, w.from + n)) = Len(received) + n
    BY <1>4, <2>1, RunLen, Zenon
  <2> QED BY <1>2, <1>7, <2>2, Zenon
<1>10. /\ w' \in WriterType /\ WriterOK(w', given) /\ w'.op = "write"
       /\ w'.from = w.from + n /\ w'.first = w.first
       /\ n < Size(w) => w'.pieces # <<>> /\ w'.result = w.result
       /\ n = Size(w) => w'.pieces = <<>> /\ (w'.result = Pending => w'.rest # <<>>)
  <2>1. PICK a : a = Advance(w, n)
    BY Zenon
  <2>2. /\ a \in WriterType /\ WriteOK(a, given) /\ a.op = "write"
        /\ a.from = w.from + n /\ a.first = w.first /\ a.result = w.result
        /\ a.pieces = <<>> <=> n = Size(w)
    BY <1>4, <1>8, <2>1, AdvanceFacts, SMTT(40)
  <2>3. CASE Size(w) > q.room
    BY <1>2, <1>5, <1>6, <1>7, <2>1, <2>2, <2>3, SMTT(40) DEF Least, WriterOK
  <2>4. CASE Size(w) <= q.room
    <3>1. n = Size(w) /\ w' = Written(a)
      BY <1>2, <1>5, <1>6, <1>7, <2>1, <2>4, SMTT(40) DEF Least
    <3>2. Unsettled(a) /\ a.pieces = <<>>
      BY <1>4, <2>2, <3>1, ZenonT(40) DEF Unsettled
    <3> QED BY <1>4, <2>2, <3>1, <3>2, WrittenFacts, SMTT(40)
  <2> QED BY <1>5, <1>6, <2>3, <2>4, SMTT(40)
<1>11. /\ r' \in ReaderType /\ r'.op = "read" /\ r'.start = q.start /\ r'.min = q.min /\ r'.max = q.max
       /\ \/ /\ state' \in {"none", "write"} /\ r'.result = n /\ q.need <= n
             /\ state' = "write" <=> n < Size(w)
          \/ /\ state' = "read" /\ r'.result = Pending /\ n < q.need /\ n = Size(w)
             /\ r'.need = q.need - n /\ r'.room = q.room - n /\ r'.count = n
  <2>1. CASE Size(w) > q.room
    <3>1. n = q.room /\ r' = Fulfil(q, n) /\ state' = "write"
      BY <1>2, <1>5, <1>6, <1>7, <2>1, SMTT(40) DEF Least
    <3> QED BY <1>2, <1>5, <1>6, <2>1, <3>1, FulfilFacts, SMTT(40)
  <2>2. CASE Size(w) <= q.room /\ Size(w) >= q.need
    <3>1. n = Size(w) /\ r' = Fulfil(q, n) /\ state' = "none"
      BY <1>2, <1>5, <1>6, <1>7, <2>2, SMTT(40) DEF Least
    <3> QED BY <1>2, <1>5, <1>6, <2>2, <3>1, FulfilFacts, SMTT(40)
  <2>3. CASE Size(w) < q.need
    <3>1. n = Size(w) /\ ~(Size(w) > q.room) /\ ~(Size(w) >= q.need)
      BY <1>5, <1>6, <1>7, <2>3, SMTT(40) DEF Least
    <3>2. state' = "read" /\ r' = [q EXCEPT !.need = @ - n, !.room = @ - n, !.count = n]
      BY <1>2, <3>1, Zenon
    <3>3. q.need - n \in Int /\ q.room - n \in Nat
      BY <1>6, <1>8
    <3> QED BY <1>2, <1>6, <2>3, <3>1, <3>2, <3>3, Zenon DEF ReaderType
  <2> QED BY <1>5, <1>6, <2>1, <2>2, <2>3, SMTT(40)
<1>12. TypeOK' /\ WriterOK(w', given')
  BY <1>1, <1>2, <1>9, <1>10, <1>11, Zenon DEF TypeOK, States
<1>13. ObjectOK'
  BY <1>4, <1>8, <1>10, <1>11, Zenon DEF ObjectOK, Unsettled
<1>14. TransferOK'
  BY <1>2, <1>3, Zenon DEF TransferOK
<1>15. ReaderOK'
  <2>1. Pending = -1 /\ Sent' = 0 /\ (Active' => state' = "read")
    BY <1>2, <1>3, <1>11, Zenon DEF Pending, Sent, Active, Moving, ReadStates
  <2>2. ASSUME Active'
        PROVE  CountsOK(r') /\ Len(received') = r'.start + r'.count + Sent'
    <3>1. /\ r'.result = Pending /\ n < q.need /\ r'.start = q.start /\ r'.count = n
          /\ r'.need = q.need - n /\ r'.room = q.room - n /\ r'.min = q.min /\ r'.max = q.max
      BY <1>11, <2>1, <2>2, Zenon
    <3>2. 0 < q.need - n /\ q.need - n <= q.room - n /\ n + (q.room - n) = q.max
          /\ n + (q.need - n) = q.min
      BY <1>6, <3>1, SMTT(40)
    <3> QED BY <1>6, <1>9, <2>1, <3>1, <3>2, SMTT(40) DEF CountsOK, Unsettled
  <2>3. ReadsAsPromised'
    BY <1>6, <1>8, <1>9, <1>11, <2>1, SMTT(40) DEF ReadsAsPromised
  <2> QED BY <1>11, <2>2, <2>3, Zenon DEF ReaderOK, CountsOK, Unsettled
<1>16. OrderOK'
  <2>1. Pos = w.from /\ Low = w.from /\ Pos' = w.from + n /\ Low' = w.from + n
    BY <1>2, <1>3, <1>4, <1>10, Zenon DEF Pos, Low
  <2>2. /\ Pos <= w.from + n /\ w.from + n <= given' /\ given <= given' /\ Low <= Low'
        /\ Low' <= w.from + n /\ w.from + n <= Pos'
    BY <1>2, <1>4, <1>8, <2>1, SMTT(40)
  <2>3. received' = received \o Run(Pos, w.from + n)
    BY <1>2, <1>7, <2>1, Zenon
  <2> QED BY <1>2, <1>4, <1>8, <1>10, <1>12, <2>2, <2>3, OrderMoved, Zenon
<1>17. NobodyForgotten'
  <2>1. Waiting(r') => state' = "read"
    BY <1>11, SMTT(40) DEF Waiting, Pending
  <2>2. state' = "write" \/ n = Size(w)
    BY <1>5, <1>8, <1>11, SMTT(40)
  <2>3. Waiting(w') => state' = "write" \/ RestIsDue'
    BY <1>10, <2>2, Zenon DEF Waiting, RestIsDue
  <2> QED BY <2>1, <2>3, Zenon DEF NobodyForgotten, Waiting, RestIsDue, ReadStates, WriteStates
<1> QED BY <1>12, <1>13, <1>14, <1>15, <1>16, <1>17, Zenon DEF IInv

\* A pump that starts to take from a blocked write.
LEMMA PumpFromWriteInv ==
  ASSUME IInv, NEW q, Fresh(q), r.op = "idle", PumpFromWrite(q)
  PROVE  IInv'
<1>1. TypeOK /\ ObjectOK /\ WriterOK(w, given) /\ TransferOK /\ NobodyForgotten
  BY Zenon DEF IInv
<1>2. PICK b : b = w.from + Least(Size(w), q.room)
  BY Zenon
<1>3. PICK c : c = {b} \cup {e \in Whole(w.pieces, b) :
                              e = w.pieces[1] \/ \A f \in Whole(w.pieces, b) : f <= e}
  BY Zenon
<1>4. /\ state = "write" /\ q.op = "pump" /\ x' = Transfer("out", w.from, c) /\ r' = q
      /\ UNCHANGED <<state, w, received, given, dropped, torn>>
  BY <1>2, <1>3, Zenon DEF PumpFromWrite
<1>5. x.kind = "none"
  BY <1>1, <1>4, KindFacts, Zenon DEF TypeOK, TransferType, TransferOK, Moving
<1>6. /\ w \in WriterType /\ given \in Nat /\ w.op = "write" /\ w.pieces # <<>>
      /\ WriteOK(w, given) /\ w.from \in Nat /\ w.pieces \in Seq(Nat)
  BY <1>1, <1>4, Zenon DEF TypeOK, ObjectOK, WriterOK, WriterType
<1>7. Size(w) \in Nat /\ Size(w) > 0
  BY <1>6, SizeFacts, Zenon
<1>8. q \in ReaderType /\ q.room \in Nat /\ q.room > 0 /\ q.result = Pending
  BY DEF Fresh, ReaderType
<1>9. b \in Nat /\ w.from < b
  BY <1>2, <1>6, <1>7, <1>8, SMTT(40) DEF Least
<1>10. c \in SUBSET Nat /\ b \in c /\ \A e \in c : e <= b
  <2>1. Range(w.pieces) \subseteq Nat
    BY <1>6 DEF Range
  <2> QED BY <1>3, <1>9, <2>1 DEF Whole
<1>11. x' \in TransferType /\ x'.kind = "out" /\ x'.at = w.from /\ x'.cuts = c
  BY <1>4, <1>6, <1>10, Zenon DEF Transfer, TransferType
<1>12. TypeOK' /\ WriterOK(w', given')
  BY <1>1, <1>4, <1>8, <1>11, Zenon DEF TypeOK
<1>13. ObjectOK'
  BY <1>1, <1>4, Zenon DEF ObjectOK
<1>14. TransferOK'
  <2>1. Stop' = b
    BY <1>2, <1>4, Zenon DEF Stop, Size
  <2>2. r'.op = "pump" /\ Waiting(r')
    BY <1>4, <1>8, Zenon DEF Waiting
  <2>3. w'.from + 1 .. x'.at \subseteq Range(received')
    <3>1. w'.from + 1 .. x'.at = {}
      BY <1>4, <1>6, <1>11, SMTT(40)
    <3> QED BY <3>1, Zenon
  <2>4. Stop' \in x'.cuts /\ \A e \in x'.cuts : e <= Stop'
    BY <1>10, <1>11, <2>1, Zenon
  <2>5. w'.from <= x'.at /\ x'.at < Stop' /\ x'.at = w'.from
    BY <1>4, <1>6, <1>9, <1>11, <2>1, SMTT(40)
  <2>6. OutOK'
    BY <1>4, <2>2, <2>3, <2>4, <2>5, ZenonT(40) DEF OutOK, Waiting
  <2> QED BY <1>11, <2>6, Zenon DEF TransferOK
<1>15. ReaderOK'
  <2>1. Sent' = 0
    BY <1>4, <1>6, <1>11, SMTT(40) DEF Sent
  <2> QED BY <1>1, <1>4, <2>1, ReaderFresh, Zenon
<1>16. OrderOK'
  <2>1. Pos' = Pos /\ Pos \in Nat
    BY <1>4, <1>5, <1>6, <1>11, KindFacts, Zenon DEF Pos
  <2> QED BY <1>1, <1>4, <1>12, <2>1, OrderKept, SMTT(40) DEF TypeOK
<1>17. NobodyForgotten'
  BY <1>4, <1>11, Zenon DEF NobodyForgotten, ReadStates, WriteStates
<1> QED BY <1>12, <1>13, <1>14, <1>15, <1>16, <1>17, Zenon DEF IInv

\* A read or a pump that starts to read the input of a blocked pump.
LEMMA ReadFromPumpInv ==
  ASSUME IInv, NEW q, Fresh(q), r.op = "idle", ReadFromPump(q)
  PROVE  IInv'
<1>1. TypeOK /\ ObjectOK /\ WriterOK(w, given) /\ TransferOK
  BY Zenon DEF IInv
<1>2. /\ state = "pumpFrom" /\ r' = q /\ w' = [w EXCEPT !.isReadOutstanding = TRUE]
      /\ x' = Transfer(IF q.op = "read" THEN "in" ELSE "pump", 0, {})
      /\ UNCHANGED <<state, received, given, dropped, torn>>
  BY Zenon DEF ReadFromPump
<1>3. x.kind = "none"
  BY <1>1, <1>2, KindFacts, Zenon DEF TypeOK, TransferType, TransferOK, Moving
<1>4. /\ w \in WriterType /\ w.op = "pump" /\ w' \in WriterType /\ w'.op = w.op
      /\ w'.from = w.from /\ w'.first = w.first /\ w'.pieces = w.pieces /\ w'.rest = w.rest
      /\ w'.left = w.left /\ w'.input = w.input /\ w'.result = w.result
      /\ w'.amount = w.amount /\ w'.taken = w.taken
  BY <1>1, <1>2, Zenon DEF TypeOK, ObjectOK, WriterType
<1>5. /\ x' \in TransferType /\ (x'.kind = "in" \/ x'.kind = "pump")
      /\ (x'.kind = "in" <=> q.op = "read")
  BY <1>2, Zenon DEF Transfer, TransferType
<1>6. q \in ReaderType /\ q.result = Pending /\ q.op \in {"read", "pump"}
  BY Zenon DEF Fresh
<1>7. TypeOK'
  BY <1>1, <1>2, <1>4, <1>5, <1>6, Zenon DEF TypeOK
<1>8. WriterOK(w', given')
  BY <1>1, <1>2, <1>4, Zenon DEF WriterOK, PumpOK
<1>9. ObjectOK'
  BY <1>1, <1>2, <1>4, Zenon DEF ObjectOK, Unsettled
<1>10. TransferOK'
  BY <1>2, <1>5, <1>6, Zenon DEF TransferOK, InOK, BothOK, Waiting
<1>11. ReaderOK'
  BY <1>1, <1>2, <1>5, ReaderFresh, Zenon DEF Sent
<1>12. OrderOK'
  <2>1. Pos' = Pos /\ Pos \in Nat
    BY <1>2, <1>3, <1>4, <1>5, KindFacts, Zenon DEF Pos
  <2> QED BY <1>1, <1>2, <1>4, <1>7, <1>8, <2>1, OrderKept, SMTT(40) DEF TypeOK
<1>13. NobodyForgotten'
  BY <1>2, <1>5, Zenon DEF NobodyForgotten, ReadStates, WriteStates
<1> QED BY <1>7, <1>8, <1>9, <1>10, <1>11, <1>12, <1>13, Zenon DEF IInv

\* A read of a pipe that is aborted or shut down.
LEMMA ReadEndedInv ==
  ASSUME IInv, NEW q, Fresh(q), ReadEnded(q)
  PROVE  IInv'
<1>1. TypeOK /\ ObjectOK /\ WriterOK(w, given) /\ TransferOK /\ NobodyForgotten
  BY Zenon DEF IInv
<1>2. /\ state \in {"aborted", "shutdown"}
      /\ r' = Fulfil(q, IF state = "aborted" THEN Failed ELSE 0)
      /\ UNCHANGED <<state, w, x, received, given, dropped, torn>>
  BY Zenon DEF ReadEnded
<1>3. q \in ReaderType /\ q.result = Pending /\ q.op \in {"read", "pump"}
      /\ q.start = Len(received) /\ Len(received) \in Nat /\ q.max \in Nat
      /\ (q.op = "pump" => q.need = q.room)
  BY <1>1, Zenon DEF Fresh, TypeOK, ReaderType
<1>4. Failed = -2 /\ Pending = -1
  BY Zenon DEF Failed, Pending
<1>5. /\ r' \in ReaderType /\ r'.op = q.op /\ r'.start = q.start /\ r'.max = q.max
      /\ r'.need = q.need /\ r'.room = q.room
      /\ r'.result = IF state = "aborted" THEN Failed ELSE 0
  <2>1. PICK n : n = IF state = "aborted" THEN Failed ELSE 0
    BY Zenon
  <2>2. n \in Int
    BY <1>4, <2>1
  <2>3. r' = Fulfil(q, n)
    BY <1>2, <2>1, Zenon
  <2> QED BY <1>3, <2>1, <2>2, <2>3, FulfilFacts, Zenon
<1>6. ~Moving /\ x'.kind = x.kind
  BY <1>2, KindFacts, Zenon DEF Moving
<1>7. TypeOK' /\ WriterOK(w', given')
  BY <1>1, <1>2, <1>5, Zenon DEF TypeOK
<1>8. ObjectOK' /\ TransferOK'
  BY <1>1, <1>2, <1>6, Zenon DEF ObjectOK, TransferOK, Moving
<1>9. ReaderOK'
  <2>1. ~Active'
    BY <1>2, <1>6, Zenon DEF Active, Moving, ReadStates
  <2>2. ReadsAsPromised'
    BY <1>2, <1>3, <1>4, <1>5, SMTT(40) DEF ReadsAsPromised
  <2> QED BY <1>3, <1>5, <2>1, <2>2, Zenon DEF ReaderOK
<1>10. OrderOK'
  <2>1. Pos' = Pos /\ Pos \in Nat
    BY <1>2, KindFacts, Zenon DEF Pos
  <2> QED BY <1>1, <1>2, <1>7, <2>1, OrderKept, SMTT(40) DEF TypeOK
<1>11. NobodyForgotten'
  <2>1. ~Waiting(r')
    BY <1>2, <1>4, <1>5 DEF Waiting
  <2> QED BY <1>1, <1>2, <2>1, Zenon DEF NobodyForgotten, Waiting, RestIsDue
<1> QED BY <1>7, <1>8, <1>9, <1>10, <1>11, Zenon DEF IInv

-----------------------------------------------------------------------------
(* Operations of the write end.                                            *)

(* q is a new operation of the write end, or the continuation of a write.  *)
Offered(q) ==
  /\ q \in WriterType /\ q.op \in {"write", "pump"} /\ q.result = Pending
  /\ given' \in Nat /\ given <= given' /\ WriterOK(q, given') /\ x.kind = "none"
  /\ q.op = "write" =>
       /\ q.pieces # <<>> /\ q.rest = <<>> /\ q.from = Low
       /\ \/ w.op = "write" /\ q.first = w.first
          \/ w.op # "write" /\ q.first = given + 1
  /\ q.op = "pump" => w.op = "idle" /\ given' = given

\* Steps that take a new operation and receive nothing.
LEMMA OrderOffered ==
  ASSUME IInv, NEW q, Offered(q), TypeOK', WriterOK(w', given'),
         w'.op = q.op, w'.from = q.from, w'.first = q.first,
         received' = received, dropped' = dropped, torn' = torn, Pos' = Low
  PROVE  OrderOK'
<1>1. TypeOK /\ WriterOK(w, given) /\ OrderOK
  BY Zenon DEF IInv
<1>2. Pos = Low /\ Low \in Nat /\ Low <= given /\ Low' = Low
  <2>1. Pos = Low
    BY Zenon DEF Offered, Pos, Low
  <2>2. Low' = Low
    BY Zenon DEF Offered, Low
  <2> QED BY <2>1, <2>2, KindFacts, Zenon
<1>3. given \in Nat /\ given' \in Nat /\ given <= given'
  BY <1>1, Zenon DEF TypeOK, Offered
<1>4. torn' \/ (Increasing(received') /\ \A i \in 1..Len(received') : received'[i] <= Pos')
  BY <1>1, <1>2, Zenon DEF OrderOK
<1>5. w'.op = "write" => w'.first .. w'.from \subseteq Range(received')
  <2>1. CASE w.op = "write"
    BY <1>1, <2>1, Zenon DEF Offered, OrderOK, Low
  <2>2. CASE w.op # "write"
    <3>1. given + 1 .. given = {}
      BY <1>3
    <3> QED BY <2>2, <3>1, Zenon DEF Offered, Low
  <2> QED BY <2>1, <2>2, Zenon
<1>6. NothingLost'
  <2>1. 1..given = Range(received) \cup (Low + 1 .. given) \cup dropped
    BY <1>1, HeldIsAbove, Zenon DEF OrderOK, NothingLost
  <2>2. Held(w)' = Low' + 1 .. given'
    BY HeldIsAbove, Zenon
  <2>3. Low + 1 .. Low = {}
    BY <1>2, SMTT(40)
  <2>4. 1..given' = Range(received) \cup (Low + 1 .. Low) \cup (Low + 1 .. given') \cup dropped
    BY <1>2, <1>3, <2>1, <2>3, Cover, SMTT(40)
  <2> QED BY <1>2, <2>2, <2>3, <2>4, Zenon DEF NothingLost
<1> QED BY <1>4, <1>5, <1>6, Zenon DEF OrderOK

\* A write or a pump that waits.
LEMMA WriteBlocksInv ==
  ASSUME IInv, NEW q, Offered(q), WriteBlocks(q)
  PROVE  IInv'
<1>1. TypeOK /\ NobodyForgotten
  BY Zenon DEF IInv
<1>2. /\ state = "none" /\ w' = q /\ state' = IF q.op = "write" THEN "write" ELSE "pumpFrom"
      /\ UNCHANGED <<r, x, received, dropped, torn>>
  BY Zenon DEF WriteBlocks
<1>3. /\ q \in WriterType /\ q.op \in {"write", "pump"} /\ q.result = Pending
      /\ given' \in Nat /\ WriterOK(q, given') /\ x.kind = "none"
      /\ q.op = "write" => q.pieces # <<>> /\ q.from = Low
      /\ q.op = "pump" => w.op = "idle" /\ given' = given
  BY Zenon DEF Offered
<1>4. TypeOK' /\ WriterOK(w', given')
  BY <1>1, <1>2, <1>3, Zenon DEF TypeOK, States
<1>5. ObjectOK'
  BY <1>2, <1>3, Zenon DEF ObjectOK, Unsettled
<1>6. TransferOK'
  BY <1>2, <1>3, Zenon DEF TransferOK
<1>7. ReaderOK'
  <2>1. ~Active'
    BY <1>2, <1>3, Zenon DEF Active, Moving, ReadStates
  <2> QED BY <1>1, <1>2, <2>1, ReaderKept, Zenon DEF TypeOK
<1>8. OrderOK'
  <2>1. Pos' = Low
    BY <1>2, <1>3, Zenon DEF Pos, Low
  <2> QED BY <1>2, <1>4, <2>1, OrderOffered, Zenon
<1>9. NobodyForgotten'
  BY <1>1, <1>2, <1>3, Zenon DEF NobodyForgotten, Waiting, ReadStates, WriteStates
<1> QED BY <1>4, <1>5, <1>6, <1>7, <1>8, <1>9, Zenon DEF IInv

\* A pump of the write end that starts to read its input for a reader.
LEMMA PumpToReaderInv ==
  ASSUME IInv, NEW q, Offered(q), PumpToReader(q)
  PROVE  IInv'
<1>1. TypeOK /\ ObjectOK /\ NobodyForgotten
  BY Zenon DEF IInv
<1>2. /\ state \in {"read", "pumpTo"} /\ q.op = "pump" /\ w' = q
      /\ x' = Transfer(IF state = "read" THEN "in" ELSE "pump", 0, {})
      /\ UNCHANGED <<state, r, received, dropped, torn>>
  BY Zenon DEF PumpToReader, ReadStates
<1>3. /\ q \in WriterType /\ q.result = Pending /\ given' = given
      /\ WriterOK(q, given') /\ x.kind = "none" /\ w.op = "idle"
  BY <1>2, Zenon DEF Offered
<1>4. x' \in TransferType /\ x'.kind = (IF state = "read" THEN "in" ELSE "pump")
  BY <1>2, Zenon DEF Transfer, TransferType
<1>5. TypeOK' /\ WriterOK(w', given')
  BY <1>1, <1>2, <1>3, <1>4, Zenon DEF TypeOK
<1>6. ObjectOK'
  BY <1>1, <1>2, Zenon DEF ObjectOK
<1>7. TransferOK'
  BY <1>2, <1>3, <1>4, Zenon DEF TransferOK, InOK, BothOK, Waiting
<1>8. ReaderOK'
  <2>1. Active /\ Sent' = Sent
    BY <1>2, <1>3, <1>4, Zenon DEF Active, ReadStates, Sent
  <2> QED BY <1>1, <1>2, <2>1, ReaderKept, Zenon DEF TypeOK
<1>9. OrderOK'
  <2>1. Pos' = Low
    BY <1>2, <1>3, <1>4, Zenon DEF Pos, Low
  <2> QED BY <1>2, <1>5, <2>1, OrderOffered, Zenon
<1>10. NobodyForgotten'
  BY <1>2, <1>4, Zenon DEF NobodyForgotten, ReadStates, WriteStates
<1> QED BY <1>5, <1>6, <1>7, <1>8, <1>9, <1>10, Zenon DEF IInv

\* A write or a pump to a pipe whose read end is aborted.
LEMMA WriteAbortedInv ==
  ASSUME IInv, NEW q, Offered(q), WriteAborted(q)
  PROVE  IInv'
<1>1. TypeOK /\ NobodyForgotten
  BY Zenon DEF IInv
<1>2. /\ state = "aborted" /\ UNCHANGED <<state, r, received, dropped, torn>>
      /\ w' = IF q.op = "write" THEN Fulfil(q, Failed) ELSE q
      /\ x' = IF q.op = "write" THEN x ELSE Transfer("eof", 0, {})
  BY Zenon DEF WriteAborted
<1>3. /\ q \in WriterType /\ q.op \in {"write", "pump"} /\ q.result = Pending
      /\ given' \in Nat /\ WriterOK(q, given') /\ x.kind = "none"
      /\ q.op = "write" => q.from = Low
      /\ q.op = "pump" => w.op = "idle" /\ given' = given
  BY Zenon DEF Offered
<1>4. Failed = -2 /\ Pending = -1
  BY Zenon DEF Failed, Pending
<1>5. /\ x' \in TransferType /\ x'.kind = IF q.op = "write" THEN "none" ELSE "eof"
  BY <1>1, <1>2, <1>3, Zenon DEF TypeOK, Transfer, TransferType
<1>6. /\ w' \in WriterType /\ w'.op = q.op /\ w'.from = q.from /\ w'.first = q.first
      /\ w'.pieces = q.pieces /\ w'.rest = q.rest /\ w'.left = q.left
      /\ w'.input = q.input /\ w'.amount = q.amount /\ w'.taken = q.taken
      /\ w'.result = IF q.op = "write" THEN Failed ELSE Pending
  BY <1>2, <1>3, <1>4, FulfilFacts, SMTT(40)
<1>7. TypeOK'
  BY <1>1, <1>2, <1>3, <1>5, <1>6, ZenonT(40) DEF TypeOK
<1>8. WriterOK(w', given')
  BY <1>3, <1>4, <1>6, SMTT(40) DEF WriterOK, WriteOK, PumpOK
<1>9. ObjectOK'
  BY <1>2, Zenon DEF ObjectOK
<1>10. TransferOK'
  BY <1>2, <1>3, <1>5, <1>6, Zenon DEF TransferOK
<1>11. ReaderOK'
  <2>1. ~Active'
    BY <1>2, <1>5, Zenon DEF Active, Moving, ReadStates
  <2> QED BY <1>1, <1>2, <2>1, ReaderKept, Zenon DEF TypeOK
<1>12. OrderOK'
  <2>1. Pos' = Low
    BY <1>2, <1>3, <1>5, <1>6, Zenon DEF Pos, Low
  <2> QED BY <1>2, <1>6, <1>7, <1>8, <2>1, OrderOffered, Zenon
<1>13. NobodyForgotten'
  BY <1>1, <1>2, <1>3, <1>4, <1>5, <1>6, SMTT(40) DEF NobodyForgotten, Waiting, ReadStates, WriteStates
<1> QED BY <1>7, <1>8, <1>9, <1>10, <1>11, <1>12, <1>13, Zenon DEF IInv

(* The read end's operation after it has got n bytes.                      *)
Got(n) == [r EXCEPT !.need = @ - n, !.room = @ - n, !.count = @ + n]

\* A read that gets n bytes ends if these are enough, and goes on otherwise.
LEMMA ReaderGot ==
  ASSUME IInv, Active, NEW n \in Nat, n <= r.room, x'.kind = "none", torn' = torn,
         torn \/ Len(received') = Len(received) + n - Sent,
         n < r.need => r' = Got(n),
         n >= r.need => /\ r' = Fulfil(Got(n), r.count + n) \/ r' = Fulfil(r, r.count + n)
                        /\ state' \notin ReadStates
  PROVE  /\ r' \in ReaderType /\ r'.op = r.op /\ ReaderOK'
         /\ n < r.need => Unsettled(r')
         /\ n >= r.need => ~Waiting(r')
<1>1. r \in ReaderType /\ Len(received) \in Nat /\ Sent \in Int
  BY SMTT(40) DEF IInv, TypeOK, Sent, TransferType, WriterType
<1>2. /\ r.need \in Int /\ r.room \in Nat /\ r.count \in Nat /\ r.start \in Nat
      /\ r.min \in Nat /\ r.max \in Nat
  BY <1>1, Zenon DEF ReaderType
<1>3. /\ Unsettled(r) /\ 0 < r.need /\ r.need <= r.room
      /\ r.count + r.room = r.max /\ r.count + r.need = r.min
      /\ r.op = "pump" => r.need = r.room
  BY Zenon DEF IInv, ReaderOK, CountsOK
<1>4. torn \/ Len(received') = r.start + (r.count + n)
  <2>1. PICK l, s \in Int : l = Len(received) /\ s = Sent
    BY <1>1
  <2>2. torn \/ (Len(received') = l + n - s /\ l = r.start + r.count + s)
    BY <2>1, Zenon DEF IInv, ReaderOK
  <2>3. l = r.start + r.count + s => l + n - s = r.start + (r.count + n)
    BY <1>2, <2>1, SMTT(40)
  <2> QED BY <2>2, <2>3, Zenon
<1>5. PICK q : q = Got(n)
  BY Zenon
<1>6. /\ q \in ReaderType /\ q.op = r.op /\ q.need = r.need - n /\ q.room = r.room - n
      /\ q.count = r.count + n /\ q.min = r.min /\ q.max = r.max /\ q.start = r.start
      /\ q.result = r.result
  <2>1. r.need - n \in Int /\ r.room - n \in Nat /\ r.count + n \in Nat
    BY <1>2, SMTT(40)
  <2> QED BY <1>1, <1>5, <2>1, Zenon DEF Got, ReaderType
<1>7. Sent' = 0 /\ (Active' => state' \in ReadStates)
  BY Zenon DEF Sent, Active, Moving
<1>8. Pending = -1 /\ Failed = -2
  BY Zenon DEF Pending, Failed
<1>9. CASE n < r.need
  <2>1. r' = q
    BY <1>5, <1>9, Zenon
  <2>2. CountsOK(q)
    <3>1. 0 < r.need - n /\ r.need - n <= r.room - n
      BY <1>2, <1>3, <1>9, SMTT(40)
    <3>2. r.count + n + (r.room - n) = r.max /\ r.count + n + (r.need - n) = r.min
      BY <1>2, <1>3, SMTT(40)
    <3> QED BY <1>3, <1>6, <3>1, <3>2, Zenon DEF CountsOK, Unsettled
  <2>3. torn' \/ Len(received') = r'.start + r'.count + Sent'
    BY <1>2, <1>4, <1>6, <1>7, <2>1, SMTT(40)
  <2>4. ReadsAsPromised'
    BY <1>3, <1>6, <1>8, <2>1 DEF ReadsAsPromised, Unsettled
  <2>5. ReaderOK'
    BY <1>2, <1>3, <1>6, <2>1, <2>2, <2>3, <2>4, Zenon DEF ReaderOK, CountsOK, Unsettled
  <2> QED BY <1>2, <1>3, <1>6, <1>9, <2>1, <2>5, SMTT(40) DEF Unsettled
<1>10. CASE n >= r.need
  <2>1. /\ r' \in ReaderType /\ r'.op = r.op /\ r'.min = r.min /\ r'.max = r.max
        /\ r'.start = r.start /\ r'.need - r'.room = r.need - r.room
        /\ r'.result = IF r.result = Pending THEN r.count + n ELSE r.result
    <3>1. r.count + n \in Int /\ q.need - q.room = r.need - r.room
      BY <1>2, <1>6, SMTT(40)
    <3> QED BY <1>1, <1>5, <1>6, <1>10, <3>1, FulfilFacts, SMTT(40)
  <2>2. r.count + n <= r.max /\ ~(r.count + n < r.min) /\ r.count + n >= 0
    BY <1>2, <1>3, <1>10, SMTT(40)
  <2>3. ReadsAsPromised'
    BY <1>2, <1>3, <1>4, <1>8, <2>1, <2>2, SMTT(40) DEF ReadsAsPromised, Unsettled
  <2>4. r'.op = "pump" => r'.need = r'.room
    BY <1>2, <1>3, <2>1, SMTT(40) DEF ReaderType
  <2>5. ~Waiting(r')
    BY <1>8, <2>1, <2>2 DEF Waiting
  <2> QED BY <1>2, <1>7, <1>10, <2>1, <2>3, <2>4, <2>5, SMTT(40) DEF ReaderOK
<1> QED BY <1>2, <1>9, <1>10, SMTT(40)

\* A write that is consumed by a blocked read.
LEMMA WriteToReadInv ==
  ASSUME MinIsLeast, IInv, NEW q, Offered(q), WriteToRead(q)
  PROVE  IInv'
<1>1. TypeOK /\ ObjectOK
  BY Zenon DEF IInv
<1>2. PICK n : n = Least(Size(q), r.room)
  BY Zenon
<1>3. PICK a : a = Retry(q, n)
  BY Zenon
<1>4. /\ state = "read" /\ q.op = "write" /\ UNCHANGED <<x, dropped, torn>>
      /\ received' = received \o Run(q.from, q.from + n)
      /\ r' = LET p == [r EXCEPT !.need = @ - n, !.room = @ - n, !.count = @ + n]
              IN IF Size(q) >= r.room \/ Size(q) >= r.need THEN Fulfil(p, p.count) ELSE p
      /\ w' = IF a.pieces = <<>> THEN Written(a) ELSE a
      /\ state' = IF a.pieces # <<>> THEN "write"
                  ELSE IF Size(q) >= r.room \/ Size(q) >= r.need THEN "none" ELSE "read"
  BY <1>2, <1>3 DEF WriteToRead
<1>5. /\ q \in WriterType /\ q.result = Pending /\ given' \in Nat /\ given <= given'
      /\ WriteOK(q, given') /\ x.kind = "none" /\ q.pieces # <<>> /\ q.rest = <<>>
      /\ q.from = Low /\ q.from \in Nat
      /\ \/ w.op = "write" /\ q.first = w.first
         \/ w.op # "write" /\ q.first = given + 1
  BY <1>4, Zenon DEF Offered, WriterOK, WriterType
<1>6. Size(q) \in Nat /\ Size(q) > 0 /\ q.from + Size(q) <= given'
  BY <1>5, SizeFacts, Zenon
<1>7. r \in ReaderType /\ r.op = "read" /\ r.need \in Int /\ r.room \in Nat /\ r.count \in Nat
      /\ 0 < r.need /\ r.need <= r.room /\ Active
  BY <1>1, <1>4, Zenon DEF IInv, TypeOK, ObjectOK, ReaderType, ReaderOK, CountsOK, Active, ReadStates
<1>8. /\ n \in Nat /\ n > 0 /\ n <= Size(q) /\ n <= r.room /\ q.from + n <= given'
      /\ (Size(q) >= r.room \/ Size(q) >= r.need) <=> n >= r.need
      /\ n < r.need => n = Size(q)
  BY <1>2, <1>5, <1>6, <1>7, SMTT(40) DEF Least
<1>9. /\ w' \in WriterType /\ WriterOK(w', given') /\ w'.op = "write"
      /\ w'.from = q.from + n /\ w'.first = q.first /\ w'.pieces = a.pieces
      /\ n < Size(q) => w'.pieces # <<>> /\ w'.result = Pending
      /\ n = Size(q) => w'.pieces = <<>> /\ ~Waiting(w')
  <2>1. /\ a \in WriterType /\ WriteOK(a, given') /\ a.op = "write" /\ a.from = q.from + n
        /\ a.first = q.first /\ a.result = Pending
        /\ a.pieces = <<>> <=> n = Size(q)
        /\ a.pieces = <<>> => a.rest = <<>>
    BY <1>3, <1>4, <1>5, <1>8, RetryFacts, ZenonT(40)
  <2>2. CASE a.pieces # <<>>
    BY <1>4, <2>1, <2>2, Zenon DEF WriterOK
  <2>3. CASE a.pieces = <<>>
    <3>1. w' = Written(a) /\ Unsettled(a)
      BY <1>4, <2>1, <2>3, Zenon DEF Unsettled
    <3>2. /\ w' \in WriterType /\ WriterOK(w', given') /\ w'.op = "write"
          /\ w'.from = a.from /\ w'.first = a.first /\ w'.pieces = <<>>
          /\ w'.result = Pending => a.rest # <<>>
      BY <1>5, <2>1, <2>3, <3>1, WrittenFacts, Zenon
    <3> QED BY <1>8, <2>1, <2>3, <3>2, SMTT(40) DEF Waiting
  <2> QED BY <2>2, <2>3, Zenon
<1>10. received' \in Seq(Nat) /\ Len(received') = Len(received) + n
  <2>1. received \in Seq(Nat)
    BY <1>1, Zenon DEF TypeOK
  <2>2. received \o Run(q.from, q.from + n) \in Seq(Nat)
        /\ Len(received \o Run(q.from, q.from + n)) = Len(received) + n
    BY <1>5, <1>8, <2>1, RunLen, Zenon
  <2> QED BY <1>4, <2>2, Zenon
<1>11. state' = IF n < Size(q) THEN "write" ELSE IF n >= r.need THEN "none" ELSE "read"
  BY <1>4, <1>6, <1>8, <1>9, SMTT(40)
<1>12. /\ r' \in ReaderType /\ r'.op = r.op /\ ReaderOK' /\ (n < r.need => Unsettled(r'))
       /\ n >= r.need => ~Waiting(r')
  <2>1. n < r.need => r' = Got(n)
    BY <1>4, <1>7, <1>8, SMTT(40) DEF Got
  <2>2. n >= r.need => r' = Fulfil(Got(n), r.count + n)
    BY <1>4, <1>7, <1>8, Zenon DEF Got, ReaderType
  <2>3. n >= r.need => state' \notin ReadStates
    BY <1>11, Zenon DEF ReadStates
  <2>4. Len(received') = Len(received) + n - Sent
    BY <1>1, <1>5, <1>8, <1>10, SMTT(40) DEF Sent, TypeOK
  <2> QED BY <1>4, <1>5, <1>7, <1>8, <2>1, <2>2, <2>3, <2>4, ReaderGot, ZenonT(40)
<1>13. TypeOK' /\ WriterOK(w', given')
  BY <1>1, <1>4, <1>5, <1>9, <1>10, <1>11, <1>12, ZenonT(40) DEF TypeOK, States
<1>14. ObjectOK' /\ TransferOK'
  BY <1>4, <1>5, <1>7, <1>8, <1>9, <1>11, <1>12, SMTT(40) DEF ObjectOK, TransferOK, Unsettled
<1>15. OrderOK'
  <2>1. Pos = q.from /\ Pos' = q.from + n /\ Low' = q.from + n
    BY <1>4, <1>5, <1>9, Zenon DEF Pos, Low
  <2>2. /\ Pos <= q.from + n /\ Low <= Low' /\ Low' <= q.from + n /\ q.from + n <= Pos'
        /\ q.from + n \in Nat
    BY <1>5, <1>8, <2>1
  <2> QED BY <1>4, <1>5, <1>8, <1>9, <1>13, <2>1, <2>2, OrderMoved, Zenon
<1>16. NobodyForgotten'
  <2>1. Waiting(r') => state' = "read" /\ ~Waiting(w')
    BY <1>6, <1>7, <1>8, <1>9, <1>11, <1>12, SMTT(40)
  <2>2. Waiting(w') => state' = "write"
    BY <1>6, <1>8, <1>9, <1>11, SMTT(40)
  <2> QED BY <2>1, <2>2, Zenon DEF NobodyForgotten, ReadStates, WriteStates
<1> QED BY <1>12, <1>13, <1>14, <1>15, <1>16, Zenon DEF IInv

\* A write that starts to go to the output of a blocked pump.
LEMMA WriteToPumpInv ==
  ASSUME IInv, NEW q, Offered(q), WriteToPump(q)
  PROVE  IInv'
<1>1. TypeOK /\ ObjectOK
  BY Zenon DEF IInv
<1>2. PICK b : b = q.from + Least(Size(q), r.room)
  BY Zenon
<1>3. PICK c : c = {b} \cup {e \in Whole(q.pieces, b) : \A f \in Whole(q.pieces, b) : f <= e}
  BY Zenon
<1>4. /\ state = "pumpTo" /\ q.op = "write" /\ x' = Transfer("out", q.from, c) /\ w' = q
      /\ UNCHANGED <<state, r, received, dropped, torn>>
  BY <1>2, <1>3, Zenon DEF WriteToPump
<1>5. /\ q \in WriterType /\ q.result = Pending /\ given' \in Nat
      /\ WriterOK(q, given') /\ WriteOK(q, given') /\ x.kind = "none"
      /\ q.pieces # <<>> /\ q.rest = <<>> /\ q.from = Low
      /\ q.from \in Nat /\ q.pieces \in Seq(Nat)
  BY <1>4, Zenon DEF Offered, WriterOK, WriterType
<1>6. Size(q) \in Nat /\ Size(q) > 0
  BY <1>5, SizeFacts, Zenon
<1>7. r.room \in Nat /\ r.room > 0 /\ Active
  BY <1>1, <1>4, SMTT(40) DEF IInv, TypeOK, ReaderType, ReaderOK, CountsOK, Active, ReadStates
<1>8. b \in Nat /\ q.from < b
  BY <1>2, <1>5, <1>6, <1>7, SMTT(40) DEF Least
<1>9. c \in SUBSET Nat /\ b \in c /\ \A e \in c : e <= b
  <2>1. Range(q.pieces) \subseteq Nat
    BY <1>5 DEF Range
  <2> QED BY <1>3, <1>8, <2>1 DEF Whole
<1>10. x' \in TransferType /\ x'.kind = "out" /\ x'.at = q.from /\ x'.cuts = c
  BY <1>4, <1>5, <1>9, Zenon DEF Transfer, TransferType
<1>11. TypeOK' /\ WriterOK(w', given')
  BY <1>1, <1>4, <1>5, <1>10, Zenon DEF TypeOK
<1>12. ObjectOK'
  BY <1>1, <1>4, Zenon DEF ObjectOK
<1>13. TransferOK'
  <2>1. Stop' = b
    BY <1>2, <1>4, Zenon DEF Stop, Size
  <2>2. w'.op = "write" /\ Waiting(w') /\ w'.pieces # <<>> /\ w'.rest = <<>>
    BY <1>4, <1>5, Zenon DEF Waiting
  <2>3. w'.from + 1 .. x'.at \subseteq Range(received')
    <3>1. w'.from + 1 .. x'.at = {}
      BY <1>4, <1>5, <1>10, SMTT(40)
    <3> QED BY <3>1, Zenon
  <2>4. Stop' \in x'.cuts /\ \A e \in x'.cuts : e <= Stop'
    BY <1>9, <1>10, <2>1, Zenon
  <2>5. w'.from <= x'.at /\ x'.at < Stop' /\ x'.at = w'.from
    BY <1>4, <1>5, <1>8, <1>10, <2>1, SMTT(40)
  <2>6. OutOK'
    BY <1>4, <2>2, <2>3, <2>4, <2>5, Zenon DEF OutOK, Waiting
  <2> QED BY <1>10, <2>6, Zenon DEF TransferOK
<1>14. ReaderOK'
  <2>1. Sent' = Sent
    BY <1>4, <1>5, <1>10, SMTT(40) DEF Sent
  <2> QED BY <1>1, <1>4, <1>7, <2>1, ReaderKept, ZenonT(40) DEF TypeOK
<1>15. OrderOK'
  <2>1. Pos' = Low
    BY <1>5, <1>10, Zenon DEF Pos
  <2> QED BY <1>4, <1>11, <2>1, OrderOffered, Zenon
<1>16. NobodyForgotten'
  BY <1>4, <1>10, Zenon DEF NobodyForgotten, ReadStates, WriteStates
<1> QED BY <1>11, <1>12, <1>13, <1>14, <1>15, <1>16, Zenon DEF IInv

\* A new operation of the read end, whatever the pipe's state answers.
LEMMA ReadInv ==
  ASSUME MinIsLeast, IInv, r.op = "idle", NEW q, Fresh(q), read(q)
  PROVE  IInv'
  BY ReadBlocksInv, ReadFromWriteInv, PumpFromWriteInv, ReadFromPumpInv, ReadEndedInv, Zenon
     DEF read

\* An operation of the write end, whatever the pipe's state answers.
LEMMA WriteInv ==
  ASSUME MinIsLeast, IInv, NEW q, Offered(q), write(q)
  PROVE  IInv'
  BY WriteBlocksInv, WriteToReadInv, WriteToPumpInv, PumpToReaderInv, WriteAbortedInv, Zenon
     DEF write
=============================================================================
