------------------------------- MODULE LenEnc -------------------------------
(***************************************************************************)
(* Length-encoded integers and strings of the protocol (mysql/utils.go and *)
(* its copy server/utils.go).  A byte is below Base (256), a uint64 below  *)
(* Base^8, and the five largest first bytes are no values.                 *)
(***************************************************************************)
EXTENDS Integers, Sequences

CONSTANT Base

ASSUME LenEncAssumption == Base \in Nat /\ Base > 6 /\ Base % 2 = 0

(* 1<<16, 1<<24, 1<<64 and 1<<63: how many numbers fit. *)
TwoBytes == Base * Base
ThreeBytes == Base * TwoBytes
Uint64 == Base * (Base * (Base * (Base * (Base * ThreeBytes))))
Half == Uint64 \div 2

Null == Base - 5                                       \* 0xfb
Marker(w) ==
  CASE w = 2 -> Base - 4 [] w = 3 -> Base - 3 [] w = 8 -> Base - 2  \* 0xfc, 0xfd, 0xfe

(* n, n>>8, ..., n>>56, whose last bytes are those of n; and the way back.  *)
Shifted(n) ==
  LET s1 == n \div Base  s2 == s1 \div Base  s3 == s2 \div Base  s4 == s3 \div Base
      s5 == s4 \div Base s6 == s5 \div Base  s7 == s6 \div Base
  IN  <<n, s1, s2, s3, s4, s5, s6, s7>>

Bytes(n, w) == [i \in 1..w |-> Shifted(n)[i] % Base]

Number(b) ==
  LET byte(i) == IF i <= Len(b) THEN b[i] ELSE 0
  IN  byte(1) + Base * (byte(2) + Base * (byte(3) + Base * (byte(4) +
        Base * (byte(5) + Base * (byte(6) + Base * (byte(7) + Base * byte(8)))))))

(* int(n) of a uint64. *)
Int64(n) == ((n + Half) % Uint64) - Half

(* appendLengthEncodedInteger *)
WidthShort(n) == IF n <= TwoBytes THEN 2 ELSE IF n < ThreeBytes THEN 3 ELSE 8  \* fault: one number too many in two bytes
Width(n) == IF n < TwoBytes THEN 2 ELSE IF n < ThreeBytes THEN 3 ELSE 8

Encoded(n) == IF n <= Base - 6 THEN <<n>> ELSE <<Marker(Width(n))>> \o Bytes(n, Width(n))

AppendInteger(b, n) == b \o Encoded(n)

(* readLengthEncodedInteger: the number, whether it is NULL, and the bytes  *)
(* it takes.  An index out of range panics.                                 *)
ReadNull == [num |-> 0, null |-> TRUE, read |-> 1, panics |-> FALSE]

ReadWide(b, w) ==
  IF Len(b) > w THEN [num |-> Number(SubSeq(b, 2, w + 1)), null |-> FALSE, read |-> w + 1, panics |-> FALSE]
                ELSE [num |-> 0, null |-> FALSE, read |-> 0, panics |-> TRUE]

ReadInteger(b) ==
  IF b = <<>> THEN ReadNull
  ELSE CASE b[1] = Null      -> ReadNull
         [] b[1] = Marker(2) -> ReadWide(b, 2)
         [] b[1] = Marker(3) -> ReadWide(b, 3)
         [] b[1] = Marker(8) -> ReadWide(b, 8)
         [] OTHER            -> [num |-> b[1], null |-> FALSE, read |-> 1, panics |-> FALSE]

(* readLengthEncodedString: the string, the bytes it takes, and how it ends. *)
(* The end is an int: one that overflows is below the start, and panics.    *)
Take(b, from, upto) ==
  IF Len(b) < upto THEN [text |-> <<>>, read |-> upto, end |-> "eof"]
  ELSE IF upto < from THEN [text |-> <<>>, read |-> 0, end |-> "panic"]
  ELSE [text |-> SubSeq(b, from + 1, upto), read |-> upto, end |-> "ok"]

ReadString(b) ==
  LET int == ReadInteger(b)
  IN  IF int.panics THEN [text |-> <<>>, read |-> 0, end |-> "panic"]
      ELSE IF int.num < 1 THEN [text |-> <<>>, read |-> int.read, end |-> IF int.null THEN "null" ELSE "ok"]
      ELSE Take(b, int.read, Int64(int.read + Int64(int.num)))

-----------------------------------------------------------------------------
(* An integer is read back, with the bytes it was given, whatever is before *)
(* and behind it.                                                           *)
IntegerReadsBack(n, b, rest) ==
  LET whole == AppendInteger(b, n)
  IN  ReadInteger(SubSeq(whole, Len(b) + 1, Len(whole)) \o rest) =
        [num |-> n, null |-> FALSE, read |-> Len(whole) - Len(b), panics |-> FALSE]

(* Of a string of n bytes, all are there, or the end of the input is        *)
(* reported, but for a length near the largest int, which panics.           *)
StringReadsBack(n, rest) ==
  LET head == AppendInteger(<<>>, n)
      read == ReadString(head \o rest)
  IN  IF n <= Len(rest)
      THEN read = [text |-> SubSeq(rest, 1, n), read |-> Len(head) + n, end |-> "ok"]
      ELSE read.end = IF Len(head) + n < Half THEN "eof" ELSE "panic"

(* A length that is cut off panics; no byte at all is NULL, as the slice of *)
(* a cut packet has a capacity behind its length.                           *)
CutLength(n, k) ==
  LET head == AppendInteger(<<>>, n)
  IN  ReadString(SubSeq(head, 1, k)).end = IF k = 0 THEN "null" ELSE "panic"
=============================================================================
