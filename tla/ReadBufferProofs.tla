-------------------------- MODULE ReadBufferProofs --------------------------
(***************************************************************************)
(* Proofs about the buffer, for every size of the array and of the reads:  *)
(* what is unread stays in order, and the buffer implements the stream.    *)
(***************************************************************************)
EXTENDS ReadBuffer, SequenceTheorems, TLAPS

(* The arrays are sequences of numbers; the unread bytes and the last slice *)
(* lie inside of theirs.                                                    *)
Window ==
  /\ mem \in Seq(Seq(Nat)) /\ mem # <<>>
  /\ \A i \in 1..Len(mem) : Len(mem[i]) >= BufSize
  /\ idx \in Nat /\ length \in Nat /\ input \in 0..MaxRead
  /\ length <= input /\ idx + length <= Len(Buf)
  /\ last \in [array : Nat, offset : Nat, size : Nat]
  /\ last.array \in 1..Len(mem) /\ last.offset + last.size <= Len(mem[last.array])
  /\ alive \in BOOLEAN

BufInv == Window /\ UnreadInOrder

-----------------------------------------------------------------------------
(* The new array is long enough for what is needed. *)
LEMMA RoundedUp == ASSUME NEW a \in Nat, NEW b \in Nat \ {0}
                   PROVE  ((a \div b) + 1) * b \in Nat /\ a < ((a \div b) + 1) * b
  OBVIOUS

(* An array is given by its elements. *)
LEMMA ArrayOf == ASSUME NEW n \in Nat, NEW a, a = [i \in 1..n |-> a[i]], \A i \in 1..n : a[i] \in Nat
                 PROVE  a \in Seq(Nat) /\ Len(a) = n
  OBVIOUS

LEMMA BufFacts == ASSUME Window PROVE /\ Len(mem) \in Nat \ {0} /\ Buf \in Seq(Nat) /\ Len(Buf) \in Nat
                                      /\ Len(Buf) >= BufSize
BY DEF Window, Buf

(* What a slice of an array holds. *)
LEMMA SliceIs ==
  ASSUME NEW a \in Seq(Nat), NEW o \in Nat, NEW n \in Nat, o + n <= Len(a), NEW p \in Int,
         \A i \in 1..n : a[o + i] = p + i - 1
  PROVE  SubSeq(a, o + 1, o + n) = [i \in 1..n |-> p + i - 1]
<1>1. /\ SubSeq(a, o + 1, o + n) \in Seq(Nat) /\ Len(SubSeq(a, o + 1, o + n)) = n
      /\ \A i \in 1..n : SubSeq(a, o + 1, o + n)[i] = a[o + i]
  OBVIOUS
<1> DEFINE b == [i \in 1..n |-> p + i - 1]
<1>2. b \in Seq(Int) /\ Len(b) = n /\ \A i \in 1..n : b[i] = p + i - 1
  OBVIOUS
<1>3. SubSeq(a, o + 1, o + n) \in Seq(Int)
  BY <1>1
<1>4. \A i \in 1..n : SubSeq(a, o + 1, o + n)[i] = b[i]
  BY <1>1, <1>2
<1> HIDE DEF b
<1>5. SubSeq(a, o + 1, o + n) = b
  BY <1>1, <1>2, <1>3, <1>4, SeqEqual
<1> QED BY <1>5 DEF b

(* fill: after moving, before the rest is read, and at the end. *)
LEMMA MovedIs ==
  ASSUME Window
  PROVE  /\ Moved \in Seq(Nat) /\ Len(Moved) = Len(Buf)
         /\ \A i \in 1..length : Moved[i] = Buf[idx + i]
<1>1. /\ Buf \in Seq(Nat) /\ Len(Buf) \in Nat
      /\ idx \in Nat /\ length \in Nat /\ idx + length <= Len(Buf)
  BY BufFacts DEF Window
<1>2. CASE length > 0 /\ idx > 0
  <2> DEFINE a == [i \in 1..Len(Buf) |-> IF i <= length THEN Buf[idx + i] ELSE Buf[i]]
  <2>1. Moved = a
    BY <1>2 DEF Moved
  <2>2. \A i \in 1..Len(Buf) : a[i] \in Nat
    BY <1>1
  <2>3. a \in Seq(Nat) /\ Len(a) = Len(Buf)
    BY <1>1, <2>2, ArrayOf
  <2>4. \A i \in 1..length : a[i] = Buf[idx + i]
    BY <1>1
  <2> QED BY <2>1, <2>3, <2>4
<1>3. CASE ~(length > 0 /\ idx > 0)
  BY <1>1, <1>3 DEF Moved
<1> QED BY <1>2, <1>3

LEMMA GrownIs ==
  ASSUME Window, NEW need \in 1..MaxNeed
  PROVE  /\ Grown(need) \in Seq(Nat) /\ Len(Grown(need)) \in Nat
         /\ Len(Grown(need)) >= need /\ Len(Grown(need)) >= Len(Buf)
         /\ \A i \in 1..length : Grown(need)[i] = Buf[idx + i]
<1> USE ReadBufferAssumption
<1>1. /\ Buf \in Seq(Nat) /\ Len(Buf) \in Nat /\ Len(Buf) >= BufSize
      /\ idx \in Nat /\ length \in Nat /\ idx + length <= Len(Buf)
  BY BufFacts DEF Window
<1>2. /\ Moved \in Seq(Nat) /\ Len(Moved) = Len(Buf)
      /\ \A i \in 1..length : Moved[i] = Buf[idx + i]
  BY MovedIs
<1>3. CASE need > Len(Buf)
  <2> DEFINE n == ((need \div BufSize) + 1) * BufSize
             a == [i \in 1..n |-> IF i <= Len(Buf) THEN Moved[i] ELSE 0]
  <2>1. n \in Nat /\ need < n
    BY RoundedUp
  <2>2. Grown(need) = a
    BY <1>3 DEF Grown
  <2> HIDE DEF n
  <2>3. \A i \in 1..n : a[i] \in Nat
    BY <1>1, <1>2, <2>1
  <2>4. a \in Seq(Nat) /\ Len(a) = n
    BY <2>1, <2>3, ArrayOf
  <2>5. \A i \in 1..length : a[i] = Buf[idx + i]
    BY <1>1, <1>2, <1>3, <2>1
  <2> HIDE DEF a
  <2> QED BY <1>1, <1>3, <2>1, <2>2, <2>4, <2>5
<1>4. CASE ~(need > Len(Buf))
  BY <1>1, <1>2, <1>4 DEF Grown
<1> QED BY <1>3, <1>4

LEMMA FilledIs ==
  ASSUME Window, UnreadInOrder, NEW need \in 1..MaxNeed, length < need,
         NEW n \in length..Len(Grown(need))
  PROVE  /\ Filled(need, n) \in Seq(Nat) /\ Len(Filled(need, n)) = Len(Grown(need))
         /\ \A i \in 1..n : Filled(need, n)[i] = input - length + i
<1> DEFINE g == Grown(need)
<1>1. /\ g \in Seq(Nat) /\ Len(g) \in Nat
      /\ \A i \in 1..length : g[i] = input - length + i
  BY GrownIs DEF Window, UnreadInOrder
<1>2. length \in Nat /\ input \in Nat /\ length <= input /\ n \in Nat
  BY <1>1, ReadBufferAssumption DEF Window
<1> DEFINE a == [i \in 1..Len(g) |-> IF i \in length + 1..n THEN input + i - length ELSE g[i]]
<1>3. Filled(need, n) = a
  BY DEF Filled
<1> HIDE DEF g
<1>4. \A i \in 1..Len(g) : a[i] \in Nat
  BY <1>1, <1>2
<1>5. a \in Seq(Nat) /\ Len(a) = Len(g)
  BY <1>1, <1>4, ArrayOf
<1>6. \A i \in 1..n : a[i] = input - length + i
  BY <1>1, <1>2 DEF g
<1> QED BY <1>3, <1>5, <1>6 DEF g

(* The last array is overwritten, or one is added. *)
Arrays(m) == m \in Seq(Seq(Nat)) /\ Len(m) \in Nat \ {0} /\ \A i \in 1..Len(m) : Len(m[i]) >= BufSize

LEMMA ChangedLast ==
  ASSUME NEW m, Arrays(m), NEW a \in Seq(Nat), Len(a) >= BufSize, NEW k, k = [m EXCEPT ![Len(m)] = a]
  PROVE  Arrays(k) /\ Len(k) = Len(m) /\ k[Len(k)] = a
<1>1. m \in Seq(Seq(Nat)) /\ Len(m) \in 1..Len(m) /\ Len(m) \in Nat \ {0}
  BY DEF Arrays
<1>2. k \in Seq(Seq(Nat)) /\ Len(k) = Len(m)
  BY <1>1, ExceptSeq
<1>3. k[Len(m)] = a /\ \A i \in 1..Len(m) : i # Len(m) => k[i] = m[i]
  BY <1>1
<1> QED BY <1>1, <1>2, <1>3 DEF Arrays

LEMMA OneMore ==
  ASSUME NEW m, Arrays(m), NEW a \in Seq(Nat), Len(a) >= BufSize, NEW k, k = Append(m, a)
  PROVE  Arrays(k) /\ k[Len(k)] = a
<1>1. m \in Seq(Seq(Nat)) /\ Len(m) \in Nat \ {0}
  BY DEF Arrays
<1>2. k \in Seq(Seq(Nat)) /\ Len(k) = Len(m) + 1 /\ k[Len(m) + 1] = a
      /\ \A i \in 1..Len(m) : k[i] = m[i]
  BY <1>1, AppendProperties
<1>3. \A i \in 1..Len(k) : i \in 1..Len(m) \/ i = Len(m) + 1
  BY <1>1, <1>2
<1>4. \A i \in 1..Len(k) : Len(k[i]) >= BufSize
  BY <1>2, <1>3 DEF Arrays
<1> QED BY <1>1, <1>2, <1>4 DEF Arrays

LEMMA NewMem ==
  ASSUME Window, NEW a \in Seq(Nat), Len(a) >= Len(Buf),
         \/ mem' = Append(mem, a)
         \/ mem' = Append(Overwritten(Moved), a)
         \/ mem' = Overwritten(a)
  PROVE  Arrays(mem') /\ Buf' = a
<1> USE ReadBufferAssumption
<1>1. /\ Arrays(mem) /\ Len(Buf) \in Nat /\ Len(Buf) >= BufSize /\ Len(a) \in Nat
      /\ Moved \in Seq(Nat) /\ Len(Moved) = Len(Buf)
  BY BufFacts, MovedIs, LenProperties DEF Window, Arrays
<1>2. Len(a) >= BufSize /\ Len(Moved) >= BufSize
  BY <1>1
<1>3. Arrays(Overwritten(Moved))
  BY <1>1, <1>2, ChangedLast DEF Overwritten
<1>4. Arrays(mem') /\ mem'[Len(mem')] = a
  <2>1. CASE mem' = Append(mem, a)
    BY <1>1, <1>2, <2>1, OneMore
  <2>2. CASE mem' = Append(Overwritten(Moved), a)
    BY <1>2, <1>3, <2>2, OneMore
  <2>3. CASE mem' = Overwritten(a)
    <3> DEFINE k == Overwritten(a)
    <3>1. k = [mem EXCEPT ![Len(mem)] = a]
      BY DEF Overwritten
    <3> HIDE DEF k
    <3>2. Arrays(k) /\ k[Len(k)] = a
      BY <1>1, <1>2, <3>1, ChangedLast
    <3> QED BY <2>3, <3>2 DEF k
  <2> QED BY <2>1, <2>2, <2>3
<1> QED BY <1>4 DEF Buf

(* What the user may do with no slice at all. *)
LEMMA NoBytes ==
  ASSUME NEW m, Arrays(m)
  PROVE  /\ NoSlice \in [array : Nat, offset : Nat, size : Nat]
         /\ NoSlice.array \in 1..Len(m) /\ NoSlice.offset + NoSlice.size <= Len(m[NoSlice.array])
         /\ SubSeq(m[NoSlice.array], NoSlice.offset + 1, NoSlice.offset + NoSlice.size) = <<>>
<1>1. 1 \in 1..Len(m) /\ m[1] \in Seq(Nat) /\ Len(m[1]) >= BufSize
  BY DEF Arrays
<1>2. Len(m[1]) \in Nat
  BY <1>1, LenProperties
<1>3. SubSeq(m[1], 1, 0) = <<>>
  BY <1>1
<1> QED BY <1>1, <1>2, <1>3, ReadBufferAssumption DEF NoSlice

-----------------------------------------------------------------------------
Streams == [Stream!BNext]_<<Position, Bytes(last)>>

(* A slice that readNext returns is what the stream has next. *)
LEMMA Returned ==
  ASSUME Window, Arrays(mem'), NEW need \in 1..MaxNeed, NEW o \in Nat, o + need <= Len(Buf'),
         Position' = Position + need,
         last' = [array |-> Len(mem'), offset |-> o, size |-> need],
         \A i \in 1..need : Buf'[o + i] = Position + i - 1
  PROVE  Streams
<1> DEFINE a == Buf'
           p == Position
<1>1. a \in Seq(Nat) /\ need \in Nat /\ p \in Int
  <2>1. mem' \in Seq(Seq(Nat)) /\ Len(mem') \in 1..Len(mem')
    BY DEF Arrays
  <2>2. a \in Seq(Nat)
    BY <2>1 DEF Buf
  <2>3. need \in Nat
    BY ReadBufferAssumption
  <2>4. p \in Int
    BY ReadBufferAssumption DEF Window, Position
  <2> QED BY <2>2, <2>3, <2>4
<1>2. Bytes(last)' = SubSeq(a, o + 1, o + need)
  <2>1. last'.array = Len(mem') /\ last'.offset = o /\ last'.size = need
    OBVIOUS
  <2> QED BY <2>1 DEF Bytes, Buf
<1>3. o + need <= Len(a) /\ \A i \in 1..need : a[o + i] = p + i - 1
  OBVIOUS
<1> HIDE DEF a, p
<1>4. SubSeq(a, o + 1, o + need) = [i \in 1..need |-> p + i - 1]
  BY <1>1, <1>3, SliceIs
<1>5. Position \in Int
  BY <1>1 DEF p
<1>6. Position' > Position /\ Position' - Position = need
  BY <1>1, <1>5
<1>7. Bytes(last)' = [i \in 1..Position' - Position |-> Position + i - 1]
  BY <1>2, <1>4, <1>6 DEF p
<1> QED BY <1>6, <1>7 DEF Streams, Stream!BNext, Stream!Read

(* The user gives back what it was given. *)
LEMMA Released ==
  ASSUME Arrays(mem'), last' = NoSlice, Position' = Position
  PROVE  /\ Streams
         /\ last' \in [array : Nat, offset : Nat, size : Nat]
         /\ last'.array \in 1..Len(mem') /\ last'.offset + last'.size <= Len(mem'[last'.array])
<1>1. Bytes(last)' = <<>>
  BY NoBytes DEF Bytes
<1> QED BY <1>1, NoBytes DEF Streams, Stream!BNext, Stream!Release

LEMMA BufStep == BufInv /\ [Next]_vars => BufInv' /\ Streams
<1> SUFFICES ASSUME BufInv, [Next]_vars PROVE BufInv' /\ Streams
  OBVIOUS
<1> USE ReadBufferAssumption
<1>0. /\ Window /\ UnreadInOrder /\ Buf \in Seq(Nat) /\ Len(Buf) \in Nat /\ Len(mem) \in Nat \ {0}
      /\ idx \in Nat /\ length \in Nat /\ input \in Nat /\ length <= input /\ idx + length <= Len(Buf)
      /\ Position \in Nat /\ alive \in BOOLEAN
  BY BufFacts DEF BufInv, Window, Position
<1>1. ASSUME NEW need \in 1..MaxNeed, ReadNext(need), NextBuffered(need) PROVE BufInv' /\ Streams
  <2>1. /\ length >= need /\ UNCHANGED <<mem, input, alive>>
        /\ last' = [array |-> Len(mem), offset |-> idx, size |-> need]
        /\ idx' = idx + need /\ length' = length - need
    BY <1>1 DEF ReadNext, NextBuffered
  <2>2. /\ Buf' = Buf /\ need \in Nat /\ idx' \in Nat /\ length' \in Nat
        /\ length' <= input /\ idx' + length' <= Len(Buf) /\ idx + need <= Len(Buf)
    BY <1>0, <2>1 DEF Buf
  <2>3. Window'
    <3>1. /\ last' \in [array : Nat, offset : Nat, size : Nat]
          /\ last'.array = Len(mem) /\ last'.offset + last'.size = idx + need
      BY <1>0, <2>1, <2>2
    <3>2. mem[Len(mem)] = Buf /\ mem'[Len(mem)] = Buf
      BY <2>1 DEF Buf
    <3>3. last'.array \in 1..Len(mem) /\ last'.offset + last'.size <= Len(mem[last'.array])
      BY <1>0, <2>2, <3>1, <3>2
    <3>4. idx' + length' <= Len(Buf')
      BY <2>2
    <3> QED BY <1>0, <2>1, <2>2, <3>1, <3>3, <3>4 DEF Window
  <2>4. \A i \in 1..length : Buf[idx + i] = input - length + i
    BY <1>0 DEF UnreadInOrder
  <2>5. UnreadInOrder'
    <3>1. \A i \in 1..length' : Buf[idx' + i] = input - length' + i
      <4> SUFFICES ASSUME NEW i \in 1..length' PROVE Buf[idx' + i] = input - length' + i
        OBVIOUS
      <4>1. need + i \in 1..length /\ idx' + i = idx + (need + i)
            /\ input - length' + i = input - length + (need + i)
        BY <1>0, <2>1, <2>2
      <4> QED BY <2>4, <4>1
    <3> QED BY <2>1, <2>2, <3>1 DEF UnreadInOrder
  <2>6. \A i \in 1..need : Buf'[idx + i] = Position + i - 1
    <3> SUFFICES ASSUME NEW i \in 1..need PROVE Buf[idx + i] = input - length + 1 + i - 1
      BY <2>2 DEF Position
    <3>1. i \in 1..length /\ input - length + 1 + i - 1 = input - length + i
      BY <1>0, <2>1, <2>2
    <3> QED BY <2>4, <3>1
  <2>7. Position' = Position + need
    BY <1>0, <2>1, <2>2 DEF Position
  <2>8. Arrays(mem') /\ idx + need <= Len(Buf') /\ last' = [array |-> Len(mem'), offset |-> idx, size |-> need]
    BY <1>0, <2>1, <2>2 DEF Window, Arrays
  <2>9. Streams
    BY <1>0, <2>6, <2>7, <2>8, Returned
  <2> QED BY <2>3, <2>5, <2>9 DEF BufInv
<1>2. ASSUME NEW need \in 1..MaxNeed, ReadNext(need), NextFilled(need) PROVE BufInv' /\ Streams
  <2>1. length < need
    BY <1>2 DEF NextFilled
  <2>2. PICK n \in need..Len(Grown(need)) :
          /\ input + n - length <= MaxRead /\ Assign(Filled(need, n))
          /\ input' = input + n - length /\ length' = n - need
    BY <1>2 DEF NextFilled
  <2>3. /\ last' = [array |-> Len(mem'), offset |-> 0, size |-> need] /\ idx' = need /\ alive' = alive
    BY <1>2 DEF ReadNext, NextFilled
  <2>4. Len(Grown(need)) \in Nat /\ Len(Grown(need)) >= Len(Buf) /\ n \in length..Len(Grown(need)) /\ n \in Nat
    BY <1>0, <2>1, GrownIs
  <2>5. /\ Filled(need, n) \in Seq(Nat) /\ Len(Filled(need, n)) = Len(Grown(need))
        /\ \A i \in 1..n : Filled(need, n)[i] = input - length + i
    BY <1>0, <2>1, <2>4, FilledIs
  <2>6. Arrays(mem') /\ Buf' = Filled(need, n)
    BY <1>0, <2>2, <2>4, <2>5, NewMem DEF Assign
  <2>7. Window'
    <3>1. mem'[Len(mem')] = Filled(need, n) /\ Len(mem') \in 1..Len(mem')
      BY <2>6 DEF Buf, Arrays
    <3>2. input' \in 0..MaxRead /\ length' \in Nat /\ length' <= input' /\ idx' + length' <= Len(Buf')
      BY <1>0, <2>2, <2>3, <2>4, <2>5, <2>6
    <3>3. last' \in [array : Nat, offset : Nat, size : Nat] /\ last'.array = Len(mem')
          /\ last'.offset + last'.size <= Len(mem'[last'.array])
      BY <2>3, <2>4, <2>5, <2>6, <3>1 DEF Arrays
    <3>4. mem' # <<>> /\ idx' \in Nat
      BY <2>3, <2>6 DEF Arrays
    <3> QED BY <1>0, <2>3, <2>6, <3>1, <3>2, <3>3, <3>4 DEF Window, Arrays
  <2>8. UnreadInOrder'
    BY <1>0, <2>2, <2>3, <2>4, <2>5, <2>6 DEF UnreadInOrder
  <2>9. 0 + need <= Len(Buf') /\ \A i \in 1..need : Buf'[0 + i] = Position + i - 1
    BY <1>0, <2>1, <2>4, <2>5, <2>6 DEF Position
  <2>10. Position' = Position + need
    BY <1>0, <2>2, <2>4 DEF Position
  <2>11. Streams
    BY <1>0, <2>3, <2>6, <2>9, <2>10, Returned
  <2> QED BY <2>7, <2>8, <2>11 DEF BufInv
<1>3. ASSUME NEW need \in 1..MaxNeed, FillFails(need) PROVE BufInv' /\ Streams
  <2>1. length < need /\ idx' = 0 /\ last' = NoSlice /\ alive' = FALSE /\ length' = length /\ input' = input
    BY <1>3 DEF FillFails
  <2>2. PICK n \in length..need - 1 : input + n - length <= MaxRead /\ Assign(Filled(need, n))
    BY <1>3 DEF FillFails
  <2>3. Len(Grown(need)) \in Nat /\ Len(Grown(need)) >= Len(Buf) /\ n \in length..Len(Grown(need)) /\ n \in Nat
    BY <1>0, <2>1, GrownIs
  <2>4. /\ Filled(need, n) \in Seq(Nat) /\ Len(Filled(need, n)) = Len(Grown(need))
        /\ \A i \in 1..n : Filled(need, n)[i] = input - length + i
    BY <1>0, <2>1, <2>3, FilledIs
  <2>5. Arrays(mem') /\ Buf' = Filled(need, n)
    BY <1>0, <2>2, <2>3, <2>4, NewMem DEF Assign
  <2>6. Position' = Position
    BY <2>1 DEF Position
  <2>7. /\ Streams /\ last' \in [array : Nat, offset : Nat, size : Nat]
        /\ last'.array \in 1..Len(mem') /\ last'.offset + last'.size <= Len(mem'[last'.array])
    BY <2>1, <2>5, <2>6, Released
  <2>8. Window'
    <3>1. length \in Nat /\ 0 + length <= Len(Buf')
      BY <1>0, <2>3, <2>4, <2>5
    <3>2. mem' # <<>> /\ 0 \in Nat
      BY <2>5 DEF Arrays
    <3> QED BY <1>0, <2>1, <2>5, <2>7, <3>1, <3>2 DEF Window, Arrays
  <2>9. UnreadInOrder'
    BY <1>0, <2>1, <2>3, <2>4, <2>5 DEF UnreadInOrder
  <2> QED BY <2>7, <2>8, <2>9 DEF BufInv
<1>4. ASSUME NEW size \in 1..MaxNeed, TakeBuffer(size) PROVE BufInv' /\ Streams
  <2>1. length = 0 /\ last' = NoSlice /\ UNCHANGED <<idx, length, input, alive>> /\ mem' = Taken(size)
    BY <1>4 DEF TakeBuffer
  <2>2. PICK a \in Seq(Nat) : /\ Len(a) >= Len(Buf)
                              /\ mem' = Append(mem, a) \/ mem' = Overwritten(a)
    <3>1. CASE size <= Len(Buf)
      <4> DEFINE b == [i \in 1..Len(Buf) |-> IF i <= size THEN 0 ELSE Buf[i]]
      <4>1. \A i \in 1..Len(Buf) : b[i] \in Nat
        BY <1>0
      <4>2. b \in Seq(Nat) /\ Len(b) = Len(Buf)
        BY <1>0, <4>1, ArrayOf
      <4>3. mem' = Overwritten(b)
        BY <2>1, <3>1 DEF Taken
      <4> HIDE DEF b
      <4>4. Len(b) >= Len(Buf)
        BY <1>0, <4>2
      <4> QED BY <4>2, <4>3, <4>4
    <3>2. CASE ~(size <= Len(Buf))
      <4> DEFINE b == [i \in 1..size |-> 0]
      <4>1. b \in Seq(Nat) /\ Len(b) = size
        BY ArrayOf
      <4>2. mem' = Append(mem, b)
        BY <2>1, <3>2 DEF Taken
      <4> HIDE DEF b
      <4> QED BY <1>0, <3>2, <4>1, <4>2
    <3> QED BY <3>1, <3>2
  <2>3. Arrays(mem') /\ Buf' = a
    BY <1>0, <2>2, NewMem
  <2>4. Position' = Position
    BY <2>1 DEF Position
  <2>5. /\ Streams /\ last' \in [array : Nat, offset : Nat, size : Nat]
        /\ last'.array \in 1..Len(mem') /\ last'.offset + last'.size <= Len(mem'[last'.array])
    BY <2>1, <2>3, <2>4, Released
  <2>6. Len(a) \in Nat
    BY LenProperties
  <2>7. Window'
    <3>1. idx + 0 <= Len(Buf') /\ mem' # <<>>
      BY <1>0, <2>1, <2>2, <2>3, <2>6 DEF Arrays
    <3> QED BY <1>0, <2>1, <2>3, <2>5, <3>1 DEF Window, Arrays
  <2>8. UnreadInOrder'
    BY <2>1 DEF UnreadInOrder
  <2> QED BY <2>5, <2>7, <2>8 DEF BufInv
<1>5. CASE TakeRefused
  <2>1. last' = NoSlice /\ UNCHANGED <<mem, idx, length, input, alive>>
    BY <1>5 DEF TakeRefused
  <2>2. Arrays(mem')
    BY <1>0, <2>1 DEF Window, Arrays
  <2>3. Position' = Position
    BY <2>1 DEF Position
  <2>4. /\ Streams /\ last' \in [array : Nat, offset : Nat, size : Nat]
        /\ last'.array \in 1..Len(mem') /\ last'.offset + last'.size <= Len(mem'[last'.array])
    BY <2>1, <2>2, <2>3, Released
  <2>5. Window' /\ UnreadInOrder'
    BY <1>0, <2>1, <2>4 DEF Window, UnreadInOrder, Buf
  <2> QED BY <2>4, <2>5 DEF BufInv
<1>6. CASE UNCHANGED vars
  BY <1>6 DEF vars, BufInv, Window, UnreadInOrder, Buf, Position, Bytes, Streams
<1> QED BY <1>1, <1>2, <1>3, <1>4, <1>5, <1>6 DEF Next, ReadNext

LEMMA InitBuf == Init => BufInv /\ Stream!BInit
<1> SUFFICES ASSUME Init PROVE BufInv /\ Stream!BInit
  OBVIOUS
<1> USE ReadBufferAssumption
<1> DEFINE b == [i \in 1..BufSize |-> 0]
<1>1. b \in Seq(Nat) /\ Len(b) = BufSize
  BY ArrayOf
<1>2. mem = <<b>> /\ idx = 0 /\ length = 0 /\ input = 0 /\ last = NoSlice /\ alive = TRUE
  BY DEF Init
<1> HIDE DEF b
<1>3. mem \in Seq(Seq(Nat)) /\ Len(mem) = 1 /\ mem[1] = b /\ mem # <<>>
  BY <1>1, <1>2
<1>4. \A i \in 1..Len(mem) : Len(mem[i]) >= BufSize
  BY <1>1, <1>3
<1>5. Arrays(mem)
  BY <1>3, <1>4 DEF Arrays
<1>6. /\ last \in [array : Nat, offset : Nat, size : Nat]
      /\ last.array \in 1..Len(mem) /\ last.offset + last.size <= Len(mem[last.array])
      /\ Bytes(last) = <<>>
  BY <1>2, <1>5, NoBytes DEF Bytes
<1>7. Window /\ UnreadInOrder
  BY <1>1, <1>2, <1>3, <1>4, <1>6 DEF Window, UnreadInOrder, Buf
<1>8. Position = 1
  BY <1>2 DEF Position
<1> QED BY <1>6, <1>7, <1>8 DEF BufInv, Stream!BInit

LEMMA BufInvariance == Spec => []BufInv
BY InitBuf, BufStep, PTL DEF Spec

(* The window and the last slice lie inside their arrays.                   *)
THEOREM BufferTyped == Spec => []TypeOK
<1>1. BufInv => TypeOK
  BY DEF BufInv, Window, TypeOK
<1> QED BY <1>1, BufInvariance, PTL

(* No unread byte is lost, repeated or overwritten, whatever the sizes of   *)
(* the reads, of the input and of the arrays taken for output.              *)
THEOREM UnreadKept == Spec => []UnreadInOrder
<1>1. BufInv => UnreadInOrder
  BY DEF BufInv
<1> QED BY <1>1, BufInvariance, PTL

(* The buffer implements the byte stream.                                   *)
THEOREM BufferIsStream == Spec => ReadsTheStream
<1>1. BufInv /\ [Next]_vars => [Stream!BNext]_<<Position, Bytes(last)>>
  BY BufStep DEF Streams
<1> QED BY <1>1, InitBuf, BufInvariance, PTL DEF Spec, ReadsTheStream, Stream!BSpec
=============================================================================
