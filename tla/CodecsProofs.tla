---------------------------- MODULE CodecsProofs ----------------------------
(***************************************************************************)
(* Proofs about the pure functions of the protocol: what is written is     *)
(* read back, for every byte size, packet size and input.                  *)
(***************************************************************************)
EXTENDS Codecs, SequenceTheorems, TLAPS

(* The arguments that a caller gives. *)
Arguments ==
  CASE of = "none" -> args = <<>>
    [] of = "integer" -> \E n \in Nums, b, rest \in Strings : args = <<n, b, rest>>
    [] of = "string" -> \E n \in Nums, rest \in Strings : args = <<n, rest>>
    [] of = "cut" -> \E n \in Nums, k \in 0..8 : k < Len(Encoded(n)) /\ args = <<n, k>>
    [] of = "payload" -> \E payload \in Payloads, seq \in 0..SeqNums - 1 :
                           \E n \in 0..Len(Frames(payload, seq)) : args = <<payload, seq, n>>
    [] of = "text" -> \E v \in Texts, buf \in Buffers, capacity \in 0..MaxCap, backslashes \in BOOLEAN :
                        Len(buf) <= capacity /\ args = <<v, buf, capacity, backslashes>>
    [] of = "time" -> \E v \in Times, length \in {8} \cup 10..15 : args = <<v, length>>
    [] of = "date" -> \E v \in DateTimes, length \in {10, 19} \cup 21..26 : args = <<v, length>>

Callees == {"none", "integer", "string", "cut", "payload", "text", "time", "date"}

-----------------------------------------------------------------------------
(* Dates and times: a pair of digits is two digits, and three pairs make up *)
(* the microseconds: six digits, and the number they make.                  *)
Six == [1..6 -> 0..9]
Sum(x) == 100000 * x[1] + 10000 * x[2] + 1000 * x[3] + 100 * x[4] + 10 * x[5] + x[6]

LEMMA SixDigits ==
  ASSUME NEW micros \in Nat, micros < Second
  PROVE  \E x \in Six : micros = Sum(x) /\ \A d \in 0..6 : \A i \in 1..d : Fraction(micros, d)[i] = x[i]
<1> DEFINE a == micros \div 10000
           b == (micros % 10000) \div 100
           c == micros % 100
           digit == <<a \div 10, a % 10, b \div 10, b % 10, c \div 10, c % 10>>
<1>1. micros = 10000 * a + 100 * b + c /\ a \in 0..99 /\ b \in 0..99 /\ c \in 0..99
  BY SMT DEF Second
<1>2. \A n \in 0..99 : n \div 10 \in 0..9 /\ n % 10 \in 0..9 /\ n = 10 * (n \div 10) + (n % 10)
  BY SMT
<1>3. ASSUME NEW d \in 0..6, NEW i \in 1..d
      PROVE  Fraction(micros, d)[i] = digit[i]
  <2> DEFINE pairs == Pairs(micros)
             f(j) == IF j % 2 = 1 THEN pairs[(j + 1) \div 2] \div 10 ELSE pairs[j \div 2] % 10
  <2>1. pairs = <<a, b, c>>
    BY SMT DEF Pairs
  <2>2. Fraction(micros, d) = [j \in 1..d |-> f(j)]
    BY SMT DEF Fraction
  <2>3. /\ f(1) = digit[1] /\ f(2) = digit[2] /\ f(3) = digit[3]
        /\ f(4) = digit[4] /\ f(5) = digit[5] /\ f(6) = digit[6]
    <3> HIDE DEF pairs, a, b, c
    <3> QED BY <2>1, SMT
  <2>4. i \in {1, 2, 3, 4, 5, 6}
    BY SMT
  <2> HIDE DEF f, digit
  <2> QED BY <2>2, <2>3, <2>4, SMT
<1>4. digit \in Six
  <2> HIDE DEF a, b, c
  <2> QED BY <1>1, <1>2, SMT DEF Six
<1>5. a = 10 * digit[1] + digit[2] /\ b = 10 * digit[3] + digit[4] /\ c = 10 * digit[5] + digit[6]
  <2> HIDE DEF a, b, c
  <2> QED BY <1>1, <1>2, SMT
<1>6. micros = Sum(digit)
  <2> HIDE DEF digit
  <2>1. \A i \in 1..6 : digit[i] \in Int
    BY <1>4, SMT DEF Six
  <2> HIDE DEF a, b, c
  <2> QED BY <1>1, <1>5, <2>1, SMT DEF Sum
<1> HIDE DEF digit
<1> QED BY <1>3, <1>4, <1>6, Zenon

LEMMA FractionDenotes ==
  ASSUME NEW micros \in Nat, micros < Second, NEW d \in 0..6
  PROVE  Len(Fraction(micros, d)) = d /\ Denoted(Fraction(micros, d)) = Cut(micros, d)
<1> DEFINE f == Fraction(micros, d)
<1>1. PICK x \in Six : micros = Sum(x) /\ \A i \in 1..d : f[i] = x[i]
  BY SixDigits, Zenon
<1>2. Len(f) = d
  BY SMT DEF Fraction
<1>3. PICK x1, x2, x3, x4, x5, x6 \in 0..9 :
        x[1] = x1 /\ x[2] = x2 /\ x[3] = x3 /\ x[4] = x4 /\ x[5] = x5 /\ x[6] = x6
  <2>1. /\ x[1] \in 0..9 /\ x[2] \in 0..9 /\ x[3] \in 0..9
        /\ x[4] \in 0..9 /\ x[5] \in 0..9 /\ x[6] \in 0..9
    BY SMT DEF Six
  <2> QED BY <2>1, Zenon
<1>4. /\ micros - (micros % 100000) = 100000 * x1
      /\ micros - (micros % 10000) = 100000 * x1 + 10000 * x2
      /\ micros - (micros % 1000) = 100000 * x1 + 10000 * x2 + 1000 * x3
      /\ micros - (micros % 100) = 100000 * x1 + 10000 * x2 + 1000 * x3 + 100 * x4
      /\ micros - (micros % 10) = 100000 * x1 + 10000 * x2 + 1000 * x3 + 100 * x4 + 10 * x5
      /\ micros - (micros % 1) = 100000 * x1 + 10000 * x2 + 1000 * x3 + 100 * x4 + 10 * x5 + x6
  <2>1. micros = 100000 * x1 + 10000 * x2 + 1000 * x3 + 100 * x4 + 10 * x5 + x6
    BY <1>1, <1>3, SMT DEF Sum
  <2> QED BY <2>1, SMT
<1> SUFFICES Len(f) = d /\ Denoted(f) = Cut(micros, d)
  OBVIOUS
<1>6. /\ Weight[1] = 100000 /\ Weight[2] = 10000 /\ Weight[3] = 1000
      /\ Weight[4] = 100 /\ Weight[5] = 10 /\ Weight[6] = 1
  BY SMT DEF Weight
<1> HIDE DEF f
<1> DEFINE part(i, n) == IF i <= d THEN n ELSE 0
<1>5. Denoted(f) = part(1, 100000 * x1) + part(2, 10000 * x2) + part(3, 1000 * x3)
                     + part(4, 100 * x4) + part(5, 10 * x5) + part(6, x6)
  <2>1. ASSUME NEW i \in 1..6, i <= d PROVE f[i] = x[i]
    BY <1>1, <2>1, SMT
  <2>2. /\ (IF 1 <= d THEN f[1] * Weight[1] ELSE 0) = part(1, 100000 * x1)
        /\ (IF 2 <= d THEN f[2] * Weight[2] ELSE 0) = part(2, 10000 * x2)
        /\ (IF 3 <= d THEN f[3] * Weight[3] ELSE 0) = part(3, 1000 * x3)
        /\ (IF 4 <= d THEN f[4] * Weight[4] ELSE 0) = part(4, 100 * x4)
        /\ (IF 5 <= d THEN f[5] * Weight[5] ELSE 0) = part(5, 10 * x5)
        /\ (IF 6 <= d THEN f[6] * Weight[6] ELSE 0) = part(6, x6)
    BY <1>3, <1>6, <2>1, SMT
  <2> HIDE DEF part
  <2> QED BY <1>2, <2>2, SMT DEF Denoted
<1>7. CASE d = 0
  BY <1>2, <1>3, <1>5, <1>7, SMT DEF Cut
<1>8. CASE d = 1
  <2>1. Denoted(f) = 100000 * x1
    BY <1>3, <1>5, <1>8, SMT
  <2>2. Cut(micros, d) = micros - (micros % 100000)
    BY <1>6, <1>8, SMT DEF Cut
  <2> QED BY <1>2, <1>4, <1>8, <2>1, <2>2, SMT
<1>9. CASE d = 2
  <2>1. Denoted(f) = 100000 * x1 + 10000 * x2
    BY <1>3, <1>5, <1>9, SMT
  <2>2. Cut(micros, d) = micros - (micros % 10000)
    BY <1>6, <1>9, SMT DEF Cut
  <2> QED BY <1>2, <1>4, <1>9, <2>1, <2>2, SMT
<1>10. CASE d = 3
  <2>1. Denoted(f) = 100000 * x1 + 10000 * x2 + 1000 * x3
    BY <1>3, <1>5, <1>10, SMT
  <2>2. Cut(micros, d) = micros - (micros % 1000)
    BY <1>6, <1>10, SMT DEF Cut
  <2> QED BY <1>2, <1>4, <1>10, <2>1, <2>2, SMT
<1>11. CASE d = 4
  <2>1. Denoted(f) = 100000 * x1 + 10000 * x2 + 1000 * x3 + 100 * x4
    BY <1>3, <1>5, <1>11, SMT
  <2>2. Cut(micros, d) = micros - (micros % 100)
    BY <1>6, <1>11, SMT DEF Cut
  <2> QED BY <1>2, <1>4, <1>11, <2>1, <2>2, SMT
<1>12. CASE d = 5
  <2>1. Denoted(f) = 100000 * x1 + 10000 * x2 + 1000 * x3 + 100 * x4 + 10 * x5
    BY <1>3, <1>5, <1>12, SMT
  <2>2. Cut(micros, d) = micros - (micros % 10)
    BY <1>6, <1>12, SMT DEF Cut
  <2> QED BY <1>2, <1>4, <1>12, <2>1, <2>2, SMT
<1>13. CASE d = 6
  <2>1. Denoted(f) = 100000 * x1 + 10000 * x2 + 1000 * x3 + 100 * x4 + 10 * x5 + x6
    BY <1>3, <1>5, <1>13, SMT
  <2>2. Cut(micros, d) = micros - (micros % 1)
    BY <1>6, <1>13, SMT DEF Cut
  <2> QED BY <1>2, <1>4, <1>13, <2>1, <2>2, SMT
<1> QED BY <1>7, <1>8, <1>9, <1>10, <1>11, <1>12, <1>13, SMT

LEMMA TimeIsDenoted ==
  ASSUME NEW v \in Times, NEW length \in {8} \cup 10..15
  PROVE  TimeDenoted(v, length)
<1> DEFINE text == FormatTime(v, length)
           signs == (IF v.days # 0 THEN 1 ELSE 0) + (IF v.neg THEN 1 ELSE 0)
           d == IF v.neg /\ v.days # 0 /\ length = 10 THEN 0 ELSE Decimals(length, 8)
<1>1. /\ v.size \in {0, 8, 12} /\ v.neg \in BOOLEAN /\ v.days \in 0..34 /\ v.hour \in 0..23
      /\ v.micros \in Nat /\ v.micros < Second
      /\ v.size < 12 => v.micros = 0
      /\ v.size = 0 => ~v.neg /\ v.days = 0
  BY TimesAssumption, SMT
<1>2. /\ text.neg = v.neg /\ text.minutes = v.minutes /\ text.seconds = v.seconds
      /\ text.hundreds = (v.days * 24 + v.hour) \div 100
      /\ text.hours = (v.days * 24 + v.hour) % 100
  BY <1>1, SMT DEF FormatTime, Hours
<1>3. text.hundreds < 10 /\ text.hours < 100 /\ text.hundreds * 100 + text.hours = v.days * 24 + v.hour
  BY <1>1, <1>2, SMT
<1>4. Micros(v, 12) = v.micros
  BY <1>1, SMT DEF Micros
<1>5. text.fraction = IF length <= 8 + signs THEN <<>> ELSE Fraction(v.micros, Decimals(length, 8))
  BY <1>1, <1>4, SMT DEF FormatTime, Sign
<1>6. text.fraction = Fraction(v.micros, d) /\ d \in 0..6
  <2>1. Fraction(v.micros, 0) = <<>>
    BY SMT DEF Fraction
  <2> QED BY <1>1, <1>5, <2>1, SMT DEF Decimals
<1>7. Len(text.fraction) = d /\ Denoted(text.fraction) = Cut(v.micros, d)
  BY <1>1, <1>6, FractionDenotes, Zenon
<1> QED BY <1>2, <1>3, <1>7, SMT DEF TimeDenoted

LEMMA DateTimeIsDenoted ==
  ASSUME NEW v \in DateTimes, NEW length \in {10, 19} \cup 21..26
  PROVE  DateTimeAgrees(v, length)
<1> DEFINE text == FormatDateTime(v, length)
           time == ParseDateTime(v)
           d == Decimals(length, 19)
<1> SUFFICES ASSUME v.size > 0
             PROVE  /\ time.date = <<text.date[1] * 100 + text.date[2], text.date[3], text.date[4]>>
                    /\ length > 10 => time.clock = text.clock
                    /\ Len(text.fraction) = d
                    /\ Denoted(text.fraction) = Cut(time.nanos \div 1000, d)
  BY SMT DEF DateTimeAgrees
<1>1. v.size \in {4, 7, 11} /\ v.year \in Nat /\ v.micros \in Nat /\ v.micros < Second
  BY TimesAssumption, SMT
<1>2. /\ time.date = <<v.year, v.month, v.day>>
      /\ text.date = <<v.year \div 100, v.year % 100, v.month, v.day>>
      /\ time.clock = IF v.size > 4 THEN Clock(v) ELSE <<0, 0, 0>>
      /\ length > 10 => text.clock = time.clock
      /\ time.nanos = Micros(v, 11) * 1000
      /\ text.fraction = Fraction(Micros(v, 11), d)
  BY <1>1, SMT DEF FormatDateTime, ParseDateTime, Micros
<1>3. v.year = (v.year \div 100) * 100 + (v.year % 100)
  BY <1>1, SMT
<1>4. Micros(v, 11) \in Nat /\ Micros(v, 11) < Second /\ d \in 0..6
  BY <1>1, SMT DEF Micros, Decimals, Second
<1>5. time.nanos \div 1000 = Micros(v, 11)
  <2>1. \A m \in Nat : (m * 1000) \div 1000 = m
    BY SMT
  <2> QED BY <1>2, <1>4, <2>1, SMT
<1>6. Len(text.fraction) = d /\ Denoted(text.fraction) = Cut(Micros(v, 11), d)
  <2> HIDE DEF text, d
  <2>1. /\ Len(Fraction(Micros(v, 11), d)) = d
        /\ Denoted(Fraction(Micros(v, 11), d)) = Cut(Micros(v, 11), d)
    BY <1>4, FractionDenotes, Zenon
  <2> QED BY <1>2, <2>1, Zenon
<1> QED BY <1>2, <1>3, <1>5, <1>6, SMT
-----------------------------------------------------------------------------
(* Length-encoded integers.  Shifting by a byte divides by Base, and what   *)
(* it shifts out is the last byte.                                          *)
LEMMA LastByte ==
  ASSUME NEW n \in Nat
  PROVE  /\ n \div Base \in Nat /\ n % Base \in 0..Base - 1
         /\ n = (n % Base) + Base * (n \div Base)
BY LenEncAssumption, SMT

LEMMA ShiftedBelow ==
  ASSUME NEW n \in Nat, NEW m \in Nat, n < Base * m
  PROVE  n \div Base < m
<1> DEFINE q == n \div Base
<1>1. q \in Nat /\ n % Base \in 0..Base - 1 /\ n = (n % Base) + Base * q
  BY LastByte, SMT
<1> SUFFICES q < m
  OBVIOUS
<1> HIDE DEF q
<1>2. CASE q >= m
  <2>1. PICK k \in Nat : q = m + k
    <3>1. q - m \in Nat /\ q = m + (q - m)
      BY <1>1, <1>2, SMT
    <3> QED BY <3>1, Zenon
  <2>2. Base * q = Base * m + Base * k /\ Base * k \in Nat /\ Base * m \in Nat
    BY <2>1, LenEncAssumption, SMT
  <2> QED BY <1>1, <2>2, LenEncAssumption, SMT
<1> QED BY <1>1, <1>2, SMT

LEMMA Larger ==
  ASSUME NEW m \in Nat, m > 0
  PROVE  Base * m \in Nat /\ Base * m > m
<1>1. PICK k \in Nat : Base = 2 + k
  <2>1. Base - 2 \in Nat /\ Base = 2 + (Base - 2)
    BY LenEncAssumption, SMT
  <2> QED BY <2>1, Zenon
<1>2. (2 + k) * m = 2 * m + k * m /\ k * m \in Nat
  BY SMT
<1> QED BY <1>1, <1>2, SMT

LEMMA Limits ==
  /\ TwoBytes \in Nat /\ ThreeBytes \in Nat /\ Uint64 \in Nat
  /\ Base < TwoBytes /\ TwoBytes < ThreeBytes /\ ThreeBytes < Uint64
<1>1. TwoBytes \in Nat /\ Base < TwoBytes
  BY LenEncAssumption, Larger, SMT DEF TwoBytes
<1>2. ThreeBytes \in Nat /\ TwoBytes < ThreeBytes
  BY LenEncAssumption, <1>1, Larger, SMT DEF ThreeBytes
<1> DEFINE four == Base * ThreeBytes
           five == Base * four
           six == Base * five
           seven == Base * six
<1>3. four \in Nat /\ four > ThreeBytes
  BY LenEncAssumption, <1>1, <1>2, Larger, SMT
<1> HIDE DEF four
<1>4. five \in Nat /\ five > four
  BY LenEncAssumption, <1>1, <1>2, <1>3, Larger, SMT
<1> HIDE DEF five
<1>5. six \in Nat /\ six > five
  BY LenEncAssumption, <1>1, <1>2, <1>3, <1>4, Larger, SMT
<1> HIDE DEF six
<1>6. seven \in Nat /\ seven > six
  BY LenEncAssumption, <1>1, <1>2, <1>3, <1>4, <1>5, Larger, SMT
<1> HIDE DEF seven
<1>7. Uint64 = Base * seven
  BY DEF Uint64, four, five, six, seven
<1>8. Uint64 \in Nat /\ Uint64 > seven
  BY LenEncAssumption, <1>1, <1>2, <1>3, <1>4, <1>5, <1>6, <1>7, Larger, SMT
<1> QED BY <1>1, <1>2, <1>3, <1>4, <1>5, <1>6, <1>8, SMT

LEMMA HalfIs == Half \in Nat /\ 2 * Half = Uint64
<1> DEFINE seven == Base * (Base * (Base * (Base * ThreeBytes)))
<1>1. seven \in Nat
  BY LenEncAssumption, Limits, Larger, SMT
<1>2. Uint64 = Base * seven
  BY DEF Uint64
<1> HIDE DEF seven
<1>3. PICK h \in Nat : Base = 2 * h
  <2>1. Base \div 2 \in Nat /\ Base = 2 * (Base \div 2)
    BY LenEncAssumption, SMT
  <2> QED BY <2>1, Zenon
<1>4. Uint64 = 2 * (h * seven) /\ h * seven \in Nat
  BY <1>1, <1>2, <1>3, SMT
<1> DEFINE half == h * seven
<1> HIDE DEF half
<1>5. Uint64 = 2 * half /\ half \in Nat
  BY <1>4 DEF half
<1> QED BY <1>5, SMT DEF Half

(* The number that fits into w bytes. *)
Fits(n, w) ==
  (w = 2 => n < TwoBytes) /\ (w = 3 => n < ThreeBytes) /\ (w = 8 => n < Uint64)

LEMMA BytesAre ==
  ASSUME NEW n \in Nat, NEW w \in {2, 3, 8}
  PROVE  Bytes(n, w) \in Seq(0..Base - 1) /\ Bytes(n, w) \in Seq(Nat) /\ Len(Bytes(n, w)) = w
<1> DEFINE shifted == Shifted(n)
<1>1. \A i \in 1..8 : shifted[i] \in Nat
  <2> DEFINE s1 == n \div Base
             s2 == s1 \div Base
             s3 == s2 \div Base
             s4 == s3 \div Base
             s5 == s4 \div Base
             s6 == s5 \div Base
             s7 == s6 \div Base
  <2>1. shifted = <<n, s1, s2, s3, s4, s5, s6, s7>>
    BY DEF Shifted
  <2>2. \A m \in Nat : m \div Base \in Nat
    BY LastByte
  <2>3. /\ s1 \in Nat /\ s2 \in Nat /\ s3 \in Nat /\ s4 \in Nat
        /\ s5 \in Nat /\ s6 \in Nat /\ s7 \in Nat
    BY <2>2, Zenon
  <2> HIDE DEF s1, s2, s3, s4, s5, s6, s7, shifted
  <2> QED BY <2>1, <2>3, SMTT(30)
<1>2. \A i \in 1..w : shifted[i] % Base \in 0..Base - 1
  <2>1. \A i \in 1..w : i \in 1..8
    BY SMT
  <2> HIDE DEF shifted
  <2> QED BY <1>1, <2>1, LastByte, Zenon
<1>3. Bytes(n, w) = [i \in 1..w |-> shifted[i] % Base]
  BY DEF Bytes
<1> HIDE DEF shifted
<1>4. Bytes(n, w) \in Seq(0..Base - 1) /\ Len(Bytes(n, w)) = w
  BY <1>2, <1>3, SMT
<1>5. \A i \in 1..w : shifted[i] % Base \in Nat
  BY <1>2, LenEncAssumption, SMT
<1>6. Bytes(n, w) \in Seq(Nat)
  BY <1>3, <1>5, SMT
<1> QED BY <1>4, <1>6

LEMMA BytesAreTheNumber ==
  ASSUME NEW n \in Nat, NEW w \in {2, 3, 8}, Fits(n, w)
  PROVE  Number(Bytes(n, w)) = n
<1> DEFINE b == Bytes(n, w)
           s1 == n \div Base
           s2 == s1 \div Base
           s3 == s2 \div Base
           s4 == s3 \div Base
           s5 == s4 \div Base
           s6 == s5 \div Base
           s7 == s6 \div Base
           low(m) == m % Base
           byte(i) == IF i <= w THEN b[i] ELSE 0
<1>1. /\ n = low(n) + Base * s1 /\ s1 = low(s1) + Base * s2 /\ s2 = low(s2) + Base * s3
      /\ s3 = low(s3) + Base * s4 /\ s4 = low(s4) + Base * s5 /\ s5 = low(s5) + Base * s6
      /\ s6 = low(s6) + Base * s7
      /\ s1 \in Nat /\ s2 \in Nat /\ s3 \in Nat /\ s4 \in Nat
      /\ s5 \in Nat /\ s6 \in Nat /\ s7 \in Nat
  BY LastByte, Zenon
<1>2. Shifted(n) = <<n, s1, s2, s3, s4, s5, s6, s7>>
  BY DEF Shifted
<1>3. b = [i \in 1..w |-> low(Shifted(n)[i])] /\ Len(b) = w
  BY BytesAre DEF Bytes
<1>4. Number(b) = byte(1) + Base * (byte(2) + Base * (byte(3) + Base * (byte(4) +
        Base * (byte(5) + Base * (byte(6) + Base * (byte(7) + Base * byte(8)))))))
  <2> HIDE DEF b
  <2> QED BY <1>3, SMT DEF Number
<1>5. \A m \in Nat : m < Base => low(m) = m
  BY LenEncAssumption, SMT
<1>6. w = 2 => s1 < Base
  <2> SUFFICES ASSUME w = 2 PROVE s1 < Base
    OBVIOUS
  <2>1. n < Base * Base
    BY SMT DEF Fits, TwoBytes
  <2> QED BY <2>1, ShiftedBelow, LenEncAssumption
<1>7. w = 3 => s2 < Base
  <2> SUFFICES ASSUME w = 3 PROVE s2 < Base
    OBVIOUS
  <2>1. n < Base * TwoBytes
    BY SMT DEF Fits, ThreeBytes
  <2>2. s1 < Base * Base
    BY <2>1, ShiftedBelow, Limits, SMT DEF TwoBytes
  <2> QED BY <1>1, <2>2, ShiftedBelow, LenEncAssumption
<1>8. w = 8 => s7 < Base
  <2> DEFINE four == Base * ThreeBytes
             five == Base * four
             six == Base * five
             seven == Base * six
  <2> SUFFICES ASSUME w = 8 PROVE s7 < Base
    OBVIOUS
  <2>1. four \in Nat /\ five \in Nat /\ six \in Nat /\ seven \in Nat
    <3>1. \A m \in Nat : Base * m \in Nat
      BY LenEncAssumption, SMT
    <3> QED BY <3>1, Limits, Zenon
  <2>2. n < Base * seven
    BY SMT DEF Fits, Uint64
  <2> HIDE DEF seven
  <2>3. s1 < seven
    BY <2>1, <2>2, ShiftedBelow, Zenon
  <2>4. s2 < six
    <3> HIDE DEF six
    <3> QED BY <1>1, <2>1, <2>3, ShiftedBelow, Zenon DEF seven
  <2>5. s3 < five
    <3> HIDE DEF five
    <3> QED BY <1>1, <2>1, <2>4, ShiftedBelow, Zenon DEF six
  <2>6. s4 < four
    <3> HIDE DEF four
    <3> QED BY <1>1, <2>1, <2>5, ShiftedBelow, Zenon DEF five
  <2>7. s5 < ThreeBytes
    BY <1>1, <2>6, ShiftedBelow, Limits, Zenon DEF four
  <2>8. s6 < TwoBytes
    BY <1>1, <2>7, ShiftedBelow, Limits, Zenon DEF ThreeBytes
  <2> QED BY <1>1, <2>8, ShiftedBelow, LenEncAssumption, Zenon DEF TwoBytes
<1>9. \A i \in 1..w : byte(i) = low(Shifted(n)[i])
  BY <1>3, SMT
<1> SUFFICES Number(b) = n
  OBVIOUS
<1> HIDE DEF s1, s2, s3, s4, s5, s6, s7, low, byte, b
<1>10. Base * 0 = 0 /\ 0 + 0 = 0
  BY LenEncAssumption, SMT
<1>11. CASE w = 2
  <2>1. byte(1) = low(n) /\ byte(2) = s1
    BY <1>1, <1>2, <1>5, <1>6, <1>9, <1>11, SMT
  <2>2. byte(3) = 0 /\ byte(4) = 0 /\ byte(5) = 0 /\ byte(6) = 0 /\ byte(7) = 0 /\ byte(8) = 0
    BY <1>11, SMT DEF byte
  <2> QED BY <1>1, <1>4, <1>10, <2>1, <2>2, SMT
<1>12. CASE w = 3
  <2>1. byte(1) = low(n) /\ byte(2) = low(s1) /\ byte(3) = s2
    BY <1>1, <1>2, <1>5, <1>7, <1>9, <1>12, SMT
  <2>2. byte(4) = 0 /\ byte(5) = 0 /\ byte(6) = 0 /\ byte(7) = 0 /\ byte(8) = 0
    BY <1>12, SMT DEF byte
  <2> QED BY <1>1, <1>4, <1>10, <2>1, <2>2, SMT
<1>13. CASE w = 8
  <2>1. /\ byte(1) = low(n) /\ byte(2) = low(s1) /\ byte(3) = low(s2) /\ byte(4) = low(s3)
        /\ byte(5) = low(s4) /\ byte(6) = low(s5) /\ byte(7) = low(s6) /\ byte(8) = s7
    BY <1>1, <1>2, <1>5, <1>8, <1>9, <1>13, SMT
  <2> QED BY <1>1, <1>4, <2>1, Zenon
<1> QED BY <1>11, <1>12, <1>13, SMT

LEMMA Behind ==
  ASSUME NEW S, NEW s \in Seq(S), NEW t \in Seq(S)
  PROVE  SubSeq(s \o t, Len(s) + 1, Len(s \o t)) = t
OBVIOUS

LEMMA Between ==
  ASSUME NEW x \in Nat, NEW s \in Seq(Nat), NEW t \in Seq(Nat)
  PROVE  /\ SubSeq((<<x>> \o s) \o t, 2, Len(s) + 1) = s
         /\ ((<<x>> \o s) \o t)[1] = x /\ (<<x>> \o s) \o t # <<>>
         /\ Len((<<x>> \o s) \o t) = 1 + Len(s) + Len(t)
         /\ (<<x>> \o s) \o t \in Seq(Nat) /\ Len(<<x>> \o s) = Len(s) + 1
OBVIOUS

LEMMA EncodedIs ==
  ASSUME NEW n \in 0..Uint64 - 1
  PROVE  /\ Encoded(n) \in Seq(Nat) /\ Len(Encoded(n)) \in 1..9
         /\ n <= Base - 6 => Encoded(n) = <<n>>
         /\ n > Base - 6 => \E w \in {2, 3, 8} :
              /\ Fits(n, w) /\ Encoded(n) = <<Marker(w)>> \o Bytes(n, w)
              /\ Len(Encoded(n)) = w + 1
<1>1. n \in Nat /\ n < Uint64
  BY Limits, SMT
<1>2. CASE n <= Base - 6
  <2>1. Encoded(n) = <<n>>
    BY <1>2 DEF Encoded
  <2> QED BY <1>1, <1>2, <2>1, LenEncAssumption, SMT
<1>3. CASE n > Base - 6
  <2> DEFINE w == Width(n)
  <2>1. w \in {2, 3, 8} /\ Fits(n, w)
    BY <1>1, SMT DEF Width, Fits
  <2>2. Encoded(n) = <<Marker(w)>> \o Bytes(n, w)
    BY <1>1, <1>3, LenEncAssumption, SMT DEF Encoded
  <2> HIDE DEF w
  <2>3. Marker(w) \in Nat
    BY <2>1, LenEncAssumption, SMT DEF Marker
  <2>4. Bytes(n, w) \in Seq(Nat) /\ Len(Bytes(n, w)) = w
    BY <1>1, <2>1, BytesAre, LenEncAssumption
  <2>5. Encoded(n) \in Seq(Nat) /\ Len(Encoded(n)) = w + 1
    BY <2>1, <2>2, <2>3, <2>4
  <2>6. ~(n <= Base - 6) /\ w + 1 \in 1..9
    BY <1>1, <1>3, <2>1, LenEncAssumption, SMT
  <2> QED BY <2>1, <2>2, <2>5, <2>6
<1> QED BY <1>1, <1>2, <1>3, LenEncAssumption, SMT

(* The first bytes say how long it is. *)
LEMMA Markers ==
  /\ Marker(2) # Null /\ Marker(3) # Null /\ Marker(8) # Null
  /\ Marker(2) # Marker(3) /\ Marker(3) # Marker(8) /\ Marker(2) # Marker(8)
  /\ \A w \in {2, 3, 8} : Marker(w) \in Nat /\ Marker(w) > Base - 6
  /\ Null > Base - 6
<1>1. Marker(2) = Base - 4 /\ Marker(3) = Base - 3 /\ Marker(8) = Base - 2
  BY SMT DEF Marker
<1> QED BY <1>1, LenEncAssumption, SMT DEF Null

LEMMA ReadMarked ==
  ASSUME NEW w \in {2, 3, 8}, NEW b, b # <<>>, b[1] = Marker(w)
  PROVE  ReadInteger(b) = ReadWide(b, w)
BY Markers, SMT DEF ReadInteger

LEMMA EncodedReadsBack ==
  ASSUME NEW n \in 0..Uint64 - 1, NEW rest \in Seq(Nat)
  PROVE  ReadInteger(Encoded(n) \o rest) =
           [num |-> n, null |-> FALSE, read |-> Len(Encoded(n)), panics |-> FALSE]
<1> DEFINE b == Encoded(n) \o rest
<1>1. n \in Nat /\ n < Uint64
  BY Limits, SMT
<1>2. CASE n <= Base - 6
  <2>1. Encoded(n) = <<n>> /\ b # <<>> /\ b[1] = n /\ Len(Encoded(n)) = 1
    BY <1>1, <1>2, EncodedIs
  <2>2. n # Null /\ n # Marker(2) /\ n # Marker(3) /\ n # Marker(8)
    BY <1>1, <1>2, Markers, LenEncAssumption, SMT DEF Null
  <2> HIDE DEF b
  <2>3. ReadInteger(b) = [num |-> n, null |-> FALSE, read |-> 1, panics |-> FALSE]
    BY <2>1, <2>2, Zenon DEF ReadInteger
  <2> QED BY <2>1, <2>3 DEF b
<1>3. CASE n > Base - 6
  <2>1. PICK w \in {2, 3, 8} :
          /\ Fits(n, w) /\ Encoded(n) = <<Marker(w)>> \o Bytes(n, w)
          /\ Len(Encoded(n)) = w + 1
    BY <1>3, EncodedIs, Zenon
  <2>2. Marker(w) \in Nat /\ Bytes(n, w) \in Seq(Nat) /\ Len(Bytes(n, w)) = w
    BY <1>1, Markers, BytesAre, LenEncAssumption
  <2>3. /\ b # <<>> /\ b[1] = Marker(w) /\ Len(b) = 1 + w + Len(rest)
        /\ SubSeq(b, 2, w + 1) = Bytes(n, w)
    <3> DEFINE t == Bytes(n, w)
    <3>1. /\ SubSeq((<<Marker(w)>> \o t) \o rest, 2, Len(t) + 1) = t
          /\ ((<<Marker(w)>> \o t) \o rest)[1] = Marker(w) /\ (<<Marker(w)>> \o t) \o rest # <<>>
          /\ Len((<<Marker(w)>> \o t) \o rest) = 1 + Len(t) + Len(rest)
      <4>1. t \in Seq(Nat) /\ rest \in Seq(Nat) /\ Marker(w) \in Nat
        BY <1>1, <2>2
      <4> HIDE DEF t
      <4> QED BY <4>1, Between
    <3>2. b = (<<Marker(w)>> \o t) \o rest
      BY <2>1
    <3> QED BY <2>2, <3>1, <3>2, Zenon
  <2> HIDE DEF b
  <2>4. ReadInteger(b) = ReadWide(b, w)
    BY <2>3, ReadMarked, Zenon
  <2>5. Number(Bytes(n, w)) = n
    BY <1>1, <2>1, BytesAreTheNumber, Zenon
  <2>6. Len(b) > w
    BY <2>3, SMT
  <2>7. ReadWide(b, w) = [num |-> n, null |-> FALSE, read |-> w + 1, panics |-> FALSE]
    BY <2>3, <2>5, <2>6, Zenon DEF ReadWide
  <2> QED BY <2>1, <2>4, <2>7, Zenon DEF b
<1> QED BY <1>1, <1>2, <1>3, LenEncAssumption, SMT

LEMMA IntegersReadBack ==
  ASSUME NEW n \in Nums, NEW b \in Strings, NEW rest \in Strings
  PROVE  IntegerReadsBack(n, b, rest)
<1>1. n \in 0..Uint64 - 1 /\ b \in Seq(Nat) /\ rest \in Seq(Nat)
  BY CodecsAssumption, LenEncAssumption
<1>2. Encoded(n) \in Seq(Nat)
  BY <1>1, EncodedIs, Zenon
<1> DEFINE all == AppendInteger(b, n)
<1>3. all = b \o Encoded(n)
  BY DEF AppendInteger
<1>4. SubSeq(all, Len(b) + 1, Len(all)) = Encoded(n)
  BY <1>1, <1>2, <1>3, Behind, Zenon
<1>5. Len(all) - Len(b) = Len(Encoded(n))
  BY <1>1, <1>2, <1>3
<1> HIDE DEF all
<1>6. ReadInteger(Encoded(n) \o rest) =
        [num |-> n, null |-> FALSE, read |-> Len(Encoded(n)), panics |-> FALSE]
  BY <1>1, EncodedReadsBack, Zenon
<1> QED BY <1>4, <1>5, <1>6, Zenon DEF IntegerReadsBack, all

(* int(n): a uint64 from 1<<63 on is negative. *)
LEMMA Remainder ==
  ASSUME NEW q \in Int, NEW m \in Nat, m > 0, NEW r \in 0..m - 1
  PROVE  (m * q + r) % m = r
OBVIOUS

LEMMA Int64Is ==
  ASSUME NEW n \in Int
  PROVE  /\ n + Half >= 0 /\ n < Half => Int64(n) = n
         /\ n >= Half /\ n < Uint64 => Int64(n) = n - Uint64
<1>1. Uint64 \in Nat /\ Half \in Nat /\ Uint64 = 2 * Half /\ Uint64 > 0
  BY Limits, HalfIs, LenEncAssumption, SMT
<1>2. ASSUME n + Half >= 0, n < Half PROVE Int64(n) = n
  <2>1. Uint64 * 0 + (n + Half) = n + Half /\ n + Half \in 0..Uint64 - 1
    BY <1>1, <1>2, SMT
  <2>2. (n + Half) % Uint64 = n + Half
    BY <1>1, <2>1, Remainder
  <2> QED BY <1>1, <2>2, SMT DEF Int64
<1>3. ASSUME n >= Half, n < Uint64 PROVE Int64(n) = n - Uint64
  <2>1. Uint64 * 1 + (n - Half) = n + Half /\ n - Half \in 0..Uint64 - 1
    BY <1>1, <1>3, SMT
  <2>2. (n + Half) % Uint64 = n - Half
    BY <1>1, <2>1, Remainder
  <2> QED BY <1>1, <2>2, SMT DEF Int64
<1> QED BY <1>2, <1>3

LEMMA BehindHead ==
  ASSUME NEW s \in Seq(Nat), NEW t \in Seq(Nat), NEW n \in 0..Len(t)
  PROVE  SubSeq(s \o t, Len(s) + 1, Len(s) + n) = SubSeq(t, 1, n) /\ Len(s \o t) = Len(s) + Len(t)
OBVIOUS

LEMMA StringsReadBack ==
  ASSUME NEW n \in Nums, NEW rest \in Strings
  PROVE  StringReadsBack(n, rest)
<1> DEFINE head == Encoded(n)
           h == Len(head)
           b == head \o rest
           upto == Int64(h + Int64(n))
<1>1. /\ n \in 0..Uint64 - 1 /\ n \in Nat /\ n < Uint64
      /\ rest \in Seq(Nat) /\ Len(rest) \in Nat /\ Len(rest) + 9 < Half
  BY CodecsAssumption, LenEncAssumption, Limits, SMT
<1>2. head \in Seq(Nat) /\ h \in 1..9
  BY <1>1, EncodedIs, Zenon
<1>11. h \in Nat /\ h >= 1 /\ h <= 9
  <2> HIDE DEF h
  <2> QED BY <1>2, SMT
<1>3. AppendInteger(<<>>, n) = head
  BY <1>2 DEF AppendInteger
<1>4. ReadInteger(b) = [num |-> n, null |-> FALSE, read |-> h, panics |-> FALSE]
  BY <1>1, EncodedReadsBack, Zenon
<1>5. Len(b) = h + Len(rest)
  BY <1>1, <1>2
<1>6. Uint64 \in Nat /\ Half \in Nat /\ Uint64 = 2 * Half
  BY Limits, HalfIs, SMT
<1> HIDE DEF b, head, h
<1>7. ReadString(b) = IF n < 1 THEN [text |-> <<>>, read |-> h, end |-> "ok"] ELSE Take(b, h, upto)
  BY <1>4, SMT DEF ReadString
<1>8. /\ h + n < Half => upto = h + n
      /\ h + n >= Half => upto \in Int /\ upto < h
  <2>1. CASE n < Half
    <3>1. Int64(n) = n
      BY <1>1, <1>6, <2>1, Int64Is, SMT
    <3>2. h + n \in Int /\ h + n + Half >= 0 /\ h + n < Uint64
      BY <1>1, <1>11, <1>6, <2>1, SMT
    <3> DEFINE m == h + n
    <3> HIDE DEF m
    <3>3. m < Half => Int64(m) = m
      BY <3>2, Int64Is, Zenon DEF m
    <3>4. m >= Half => Int64(m) = m - Uint64
      BY <3>2, Int64Is, Zenon DEF m
    <3> QED BY <1>1, <1>11, <1>6, <3>1, <3>3, <3>4, SMT DEF m
  <2>2. CASE n >= Half
    <3>1. Int64(n) = n - Uint64
      BY <1>1, <1>6, <2>2, Int64Is, SMT
    <3>2. h + (n - Uint64) \in Int /\ h + (n - Uint64) + Half >= 0 /\ h + (n - Uint64) < Half
      BY <1>1, <1>11, <1>6, <2>2, SMT
    <3>3. Int64(h + (n - Uint64)) = h + (n - Uint64)
      BY <3>2, Int64Is, SMT
    <3> QED BY <1>1, <1>11, <1>6, <2>2, <3>1, <3>3, SMT
  <2>3. n < Half \/ n >= Half
    BY <1>1, <1>6, SMT
  <2> QED BY <2>1, <2>2, <2>3, Zenon
<1> HIDE DEF upto
<1>9. CASE n <= Len(rest)
  <2>1. SubSeq(b, h + 1, h + n) = SubSeq(rest, 1, n)
    <3>1. n \in 0..Len(rest)
      BY <1>1, <1>9, SMT
    <3> QED BY <1>1, <1>2, <3>1, BehindHead, Zenon DEF b, h
  <2>2. upto = h + n
    BY <1>1, <1>11, <1>6, <1>8, <1>9, SMT
  <2>3. n >= 1 => ReadString(b) = [text |-> SubSeq(rest, 1, n), read |-> h + n, end |-> "ok"]
    <3>1. ~(Len(b) < h + n) /\ ~(h + n < h)
      BY <1>1, <1>11, <1>5, <1>9, SMT
    <3>2. Take(b, h, h + n) = [text |-> SubSeq(rest, 1, n), read |-> h + n, end |-> "ok"]
      BY <2>1, <3>1, Zenon DEF Take
    <3>3. n >= 1 => ~(n < 1)
      BY <1>1, SMT
    <3> QED BY <1>7, <2>2, <3>2, <3>3, Zenon
  <2>4. n = 0 => ReadString(b) = [text |-> SubSeq(rest, 1, n), read |-> h + n, end |-> "ok"]
    <3>1. SubSeq(rest, 1, 0) = <<>>
      BY <1>1
    <3> QED BY <1>11, <1>7, <3>1, SMT
  <2> QED BY <1>1, <1>3, <1>9, <2>3, <2>4, SMT DEF StringReadsBack, b, h
<1>10. CASE n > Len(rest)
  <2>1. ReadString(b) = Take(b, h, upto)
    BY <1>1, <1>7, <1>10, SMT
  <2>2. h + n < Half => ReadString(b).end = "eof"
    BY <1>1, <1>11, <1>5, <1>8, <1>10, <2>1, SMT DEF Take
  <2>3. h + n >= Half => ReadString(b).end = "panic"
    BY <1>1, <1>11, <1>5, <1>8, <2>1, SMT DEF Take
  <2>4. ~(n <= Len(rest)) /\ (h + n < Half <=> ~(h + n >= Half))
    BY <1>1, <1>11, <1>6, <1>10, SMT
  <2> QED BY <1>3, <2>2, <2>3, <2>4 DEF StringReadsBack, b, h
<1> QED BY <1>1, <1>9, <1>10, SMT

LEMMA CutsPanic ==
  ASSUME NEW n \in Nums, NEW k \in 0..8, k < Len(Encoded(n))
  PROVE  CutLength(n, k)
<1> DEFINE head == Encoded(n)
           b == SubSeq(head, 1, k)
<1>1. n \in 0..Uint64 - 1 /\ n \in Nat /\ n < Uint64
  BY CodecsAssumption, Limits, SMT
<1>2. head \in Seq(Nat) /\ Len(head) \in 1..9
  BY <1>1, EncodedIs, Zenon
<1>3. AppendInteger(<<>>, n) = head
  BY <1>2 DEF AppendInteger
<1>4. CASE k = 0
  <2>1. b = <<>>
    BY <1>2, <1>4
  <2> HIDE DEF b
  <2>2. ReadInteger(b) = ReadNull
    BY <2>1 DEF ReadInteger
  <2>3. ReadString(b).end = "null"
    BY <2>2, SMT DEF ReadString, ReadNull
  <2> QED BY <1>3, <1>4, <2>3, Zenon DEF CutLength, b
<1>5. CASE k > 0
  <2>1. n > Base - 6
    <3>1. CASE n <= Base - 6
      <4>1. Len(Encoded(n)) = 1
        BY <3>1 DEF Encoded
      <4> QED BY <1>5, <4>1, SMT
    <3> QED BY <1>1, <3>1, LenEncAssumption, SMT
  <2>2. PICK w \in {2, 3, 8} :
          /\ Fits(n, w) /\ head = <<Marker(w)>> \o Bytes(n, w)
          /\ Len(head) = w + 1
    BY <1>1, <2>1, EncodedIs, Zenon
  <2>3. head[1] = Marker(w)
    BY <1>1, <2>2, BytesAre
  <2>4. Len(b) = k /\ b # <<>> /\ b[1] = Marker(w)
    <3>1. k \in 1..Len(head)
      BY <1>2, <1>5
    <3>2. \A s \in Seq(Nat) : \A i \in 1..Len(s) :
            Len(SubSeq(s, 1, i)) = i /\ SubSeq(s, 1, i) # <<>> /\ SubSeq(s, 1, i)[1] = s[1]
      OBVIOUS
    <3> QED BY <1>2, <2>3, <3>1, <3>2, Zenon
  <2>5. ~(Len(b) > w)
    BY <2>2, <2>4, SMT
  <2> HIDE DEF b
  <2>6. ReadInteger(b) = ReadWide(b, w)
    BY <2>4, ReadMarked, Zenon
  <2>7. ReadInteger(b).panics
    BY <2>5, <2>6, SMT DEF ReadWide
  <2>8. ReadString(b).end = "panic"
    BY <2>7, SMT DEF ReadString
  <2>9. k # 0
    BY <1>5, SMT
  <2> QED BY <1>3, <2>8, <2>9, Zenon DEF CutLength, b
<1> QED BY <1>4, <1>5, SMT

-----------------------------------------------------------------------------
(* Payloads.  All packets are full but the last, which has the rest.        *)
Whole(p) == Len(p) \div MaxPacketSize

LEMMA Division ==
  ASSUME NEW n \in Nat, NEW m \in Nat, m > 0
  PROVE  n \div m \in Nat /\ n % m \in 0..m - 1 /\ n = m * (n \div m) + (n % m)
BY SMT

LEMMA Counted ==
  ASSUME NEW m \in Nat, m > 0, NEW n \in Nat
  PROVE  (((n % m) + 1) % m = (n + 1) % m) /\ ((n % m) % m = n % m)
<1> DEFINE q == n \div m
           r == n % m
<1>1. q \in Nat /\ r \in 0..m - 1 /\ n = m * q + r
  BY Division
<1> SUFFICES (r + 1) % m = (n + 1) % m /\ r % m = r
  OBVIOUS
<1> HIDE DEF q, r
<1>2. m * 0 + r = r /\ m * 0 + 0 = 0 /\ 0 \in 0..m - 1
  BY <1>1, SMT
<1>3. r % m = r
  BY <1>1, <1>2, Remainder
<1>4. CASE r = m - 1
  <2>1. m * (q + 1) = m * q + m /\ m * q \in Nat
    BY <1>1, SMT
  <2>2. n + 1 = m * (q + 1) + 0 /\ r + 1 = m * 1 + 0
    BY <1>1, <1>4, <2>1, SMT
  <2>3. (n + 1) % m = 0 /\ (r + 1) % m = 0
    BY <1>1, <1>2, <2>2, Remainder
  <2> QED BY <1>3, <2>3
<1>5. CASE r # m - 1
  <2>1. n + 1 = m * q + (r + 1) /\ r + 1 = m * 0 + (r + 1) /\ r + 1 \in 0..m - 1
    BY <1>1, <1>5, SMT
  <2>2. (n + 1) % m = r + 1 /\ (r + 1) % m = r + 1
    BY <1>1, <2>1, Remainder
  <2> QED BY <1>3, <2>2
<1> QED BY <1>4, <1>5

LEMMA Lesser ==
  ASSUME NEW a \in Int, NEW b \in Int
  PROVE  Min({a, b}) = IF a <= b THEN a ELSE b
BY SMT DEF Min

LEMMA Longer ==
  ASSUME NEW S, NEW s \in Seq(S), NEW i \in 0..Len(s), NEW j \in i..Len(s)
  PROVE  /\ SubSeq(s, 1, i) \o SubSeq(s, i + 1, j) = SubSeq(s, 1, j)
         /\ Len(SubSeq(s, i + 1, j)) = j - i
         /\ SubSeq(s, 1, Len(s)) = s /\ SubSeq(s, 1, 0) = <<>>
OBVIOUS

LEMMA FramesAre ==
  ASSUME NEW p \in Seq(Nat), NEW seq \in Nat
  PROVE  /\ Whole(p) \in Nat
         /\ Len(Frames(p, seq)) = Whole(p) + 1
         /\ \A i \in 1..Whole(p) + 1 : Frames(p, seq)[i] = Frame(p, seq, i)
         /\ \A i \in 1..Whole(p) + 1 : Frame(p, seq, i).seq = (seq + i - 1) % SeqNums
         /\ \A i \in 1..Whole(p) : Frame(p, seq, i).body = SubSeq(p, (i - 1) * MaxPacketSize + 1, i * MaxPacketSize)
         /\ Frame(p, seq, Whole(p) + 1).body = SubSeq(p, Whole(p) * MaxPacketSize + 1, Len(p))
         /\ Whole(p) * MaxPacketSize + (Len(p) % MaxPacketSize) = Len(p)
<1> DEFINE q == Whole(p)
           r == Len(p) % MaxPacketSize
           start(i) == (i - 1) * MaxPacketSize
<1>1. q \in Nat /\ r \in 0..MaxPacketSize - 1 /\ Len(p) = MaxPacketSize * q + r /\ Len(p) \in Nat
  BY Division, FramingAssumption DEF Whole
<1>2. Frames(p, seq) = [i \in 1..(q + 1) |-> Frame(p, seq, i)]
  BY DEF Frames, Whole
<1>3. \A i \in Int : Frame(p, seq, i).seq = (seq + i - 1) % SeqNums
  BY DEF Frame
<1>4. \A i \in Int :
        Frame(p, seq, i).body = SubSeq(p, start(i) + 1, Min({start(i) + MaxPacketSize, Len(p)}))
  BY DEF Frame
<1> HIDE DEF q, r
<1>5. MaxPacketSize \in Nat /\ q * MaxPacketSize = MaxPacketSize * q /\ q * MaxPacketSize \in Nat
  BY <1>1, FramingAssumption, SMT
<1>6. ASSUME NEW i \in 1..q
      PROVE  Frame(p, seq, i).body = SubSeq(p, (i - 1) * MaxPacketSize + 1, i * MaxPacketSize)
  <2>1. start(i) \in Int /\ start(i) + MaxPacketSize = i * MaxPacketSize
    BY <1>1, <1>5, SMT
  <2>2. i * MaxPacketSize <= Len(p)
    <3>1. PICK k \in Nat : q = i + k
      <4>1. q - i \in Nat /\ q = i + (q - i)
        BY <1>1, SMT
      <4> QED BY <4>1, Zenon
    <3>2. q * MaxPacketSize = i * MaxPacketSize + k * MaxPacketSize /\ k * MaxPacketSize \in Nat
            /\ i * MaxPacketSize \in Int
      BY <1>5, <3>1, SMT
    <3> QED BY <1>1, <1>5, <3>2, SMT
  <2> HIDE DEF start
  <2>3. Min({start(i) + MaxPacketSize, Len(p)}) = start(i) + MaxPacketSize
    <3>1. start(i) + MaxPacketSize \in Int /\ start(i) + MaxPacketSize <= Len(p)
      BY <1>5, <2>1, <2>2, SMT
    <3> QED BY <1>1, <3>1, Lesser
  <2>4. Frame(p, seq, i).body = SubSeq(p, start(i) + 1, i * MaxPacketSize)
    <3>1. i \in Int
      BY SMT
    <3> QED BY <1>4, <2>1, <2>3, <3>1, Zenon
  <2> QED BY <2>4 DEF start
<1>7. Frame(p, seq, q + 1).body = SubSeq(p, q * MaxPacketSize + 1, Len(p))
  <2>1. q + 1 \in Int /\ start(q + 1) = q * MaxPacketSize
    <3>1. q + 1 \in Int /\ q + 1 - 1 = q
      BY <1>1, SMT
    <3> QED BY <1>1, <1>5, <3>1, SMT
  <2> HIDE DEF start
  <2>2. Min({start(q + 1) + MaxPacketSize, Len(p)}) = Len(p)
    <3>1. start(q + 1) + MaxPacketSize \in Int /\ ~(start(q + 1) + MaxPacketSize <= Len(p))
      BY <1>1, <1>5, <2>1, SMT
    <3> QED BY <1>1, <3>1, Lesser
  <2> QED BY <1>4, <2>1, <2>2
<1>8. Len(Frames(p, seq)) = q + 1 /\ \A i \in 1..q + 1 : Frames(p, seq)[i] = Frame(p, seq, i)
  <2> DEFINE f(i) == Frame(p, seq, i)
  <2>1. Frames(p, seq) = [i \in 1..(q + 1) |-> f(i)] /\ q + 1 \in Nat
    BY <1>1, <1>2
  <2> HIDE DEF f
  <2>2. Len(Frames(p, seq)) = q + 1 /\ \A i \in 1..q + 1 : Frames(p, seq)[i] = f(i)
    BY <2>1, SMT
  <2> QED BY <2>2 DEF f
<1>9. \A i \in 1..q + 1 : Frame(p, seq, i).seq = (seq + i - 1) % SeqNums
  <2>1. \A i \in 1..q + 1 : i \in Int
    BY <1>1, SMT
  <2> QED BY <1>3, <2>1, Zenon
<1>10. q * MaxPacketSize + r = Len(p)
  BY <1>1, <1>5, SMT
<1> QED BY <1>1, <1>6, <1>7, <1>8, <1>9, <1>10, Zenon DEF q, r

-----------------------------------------------------------------------------
(* What readPacket has after i of the packets of a payload.                 *)
After(p, seq, i) ==
  [payload |-> SubSeq(p, 1, i * MaxPacketSize), seq |-> (seq + i) % SeqNums, end |-> "more"]

LEMMA FullPacket ==
  ASSUME NEW p \in Seq(Nat), NEW seq \in Nat, NEW i \in 0..Whole(p) - 1
  PROVE  ReadFrame(After(p, seq, i), Frame(p, seq, i + 1)) = After(p, seq, i + 1)
<1> DEFINE m == i * MaxPacketSize
           n == (i + 1) * MaxPacketSize
           frame == Frame(p, seq, i + 1)
<1>1. /\ i \in Nat /\ i + 1 \in 1..Whole(p) /\ i + 1 \in 1..Whole(p) + 1 /\ i + 1 - 1 = i /\ Whole(p) \in Nat
      /\ seq + (i + 1) - 1 = seq + i
  BY FramesAre, SMT
<1>2. frame.body = SubSeq(p, m + 1, n) /\ frame.seq = (seq + i) % SeqNums
  <2>1. /\ Frame(p, seq, i + 1).body = SubSeq(p, (i + 1 - 1) * MaxPacketSize + 1, (i + 1) * MaxPacketSize)
        /\ Frame(p, seq, i + 1).seq = (seq + (i + 1) - 1) % SeqNums
    <3>1. /\ \A j \in 1..Whole(p) + 1 : Frame(p, seq, j).seq = (seq + j - 1) % SeqNums
          /\ \A j \in 1..Whole(p) :
               Frame(p, seq, j).body = SubSeq(p, (j - 1) * MaxPacketSize + 1, j * MaxPacketSize)
      BY FramesAre, Zenon
    <3> DEFINE j == i + 1
    <3>2. j \in 1..Whole(p) /\ j \in 1..Whole(p) + 1
      BY <1>1, Zenon
    <3> HIDE DEF j
    <3>3. /\ Frame(p, seq, j).body = SubSeq(p, (j - 1) * MaxPacketSize + 1, j * MaxPacketSize)
          /\ Frame(p, seq, j).seq = (seq + j - 1) % SeqNums
      BY <3>1, <3>2, Zenon
    <3> QED BY <3>3 DEF j
  <2> QED BY <1>1, <2>1, Zenon
<1>3. m \in Nat /\ n = m + MaxPacketSize /\ n <= Len(p) /\ MaxPacketSize \in Nat /\ MaxPacketSize > 0
  <2>1. PICK k \in Nat : Whole(p) = (i + 1) + k
    <3>1. Whole(p) - (i + 1) \in Nat /\ Whole(p) = (i + 1) + (Whole(p) - (i + 1))
      BY <1>1, SMT
    <3> QED BY <3>1, Zenon
  <2>2. MaxPacketSize \in Nat /\ MaxPacketSize > 0
    BY FramingAssumption, SMT
  <2>3. /\ Whole(p) * MaxPacketSize = n + k * MaxPacketSize /\ k * MaxPacketSize \in Nat
        /\ m \in Nat /\ n = m + MaxPacketSize
    BY <1>1, <2>1, <2>2, SMT
  <2>4. Whole(p) * MaxPacketSize + (Len(p) % MaxPacketSize) = Len(p)
    BY FramesAre, Zenon
  <2>5. Len(p) % MaxPacketSize \in Nat /\ Len(p) \in Nat
    BY <2>2, Division, SMT
  <2> HIDE DEF m, n
  <2> QED BY <2>2, <2>3, <2>4, <2>5, SMT
<1> HIDE DEF m, n
<1>4. /\ SubSeq(p, 1, m) \o frame.body = SubSeq(p, 1, n) /\ Len(frame.body) = MaxPacketSize
  <2>1. m \in 0..Len(p) /\ n \in m..Len(p) /\ n - m = MaxPacketSize
    BY <1>3, SMT
  <2>2. SubSeq(p, 1, m) \o SubSeq(p, m + 1, n) = SubSeq(p, 1, n) /\ Len(SubSeq(p, m + 1, n)) = n - m
    BY <2>1, Longer
  <2> QED BY <1>2, <2>1, <2>2, Zenon
<1>5. frame.body # <<>> /\ ~(Len(frame.body) < MaxPacketSize)
  BY <1>3, <1>4
<1>6. (((seq + i) % SeqNums) + 1) % SeqNums = (seq + (i + 1)) % SeqNums
  <2>1. seq + i \in Nat /\ seq + i + 1 = seq + (i + 1)
    BY <1>1, SMT
  <2>2. (((seq + i) % SeqNums) + 1) % SeqNums = (seq + i + 1) % SeqNums
    <3>1. SeqNums \in Nat /\ SeqNums > 0
      BY FramingAssumption, SMT
    <3> QED BY <2>1, <3>1, Counted
  <2> QED BY <2>1, <2>2, Zenon
<1>7. After(p, seq, i) = [payload |-> SubSeq(p, 1, m), seq |-> (seq + i) % SeqNums, end |-> "more"]
  BY DEF After, m
<1>8. After(p, seq, i + 1) = [payload |-> SubSeq(p, 1, n), seq |-> (seq + (i + 1)) % SeqNums, end |-> "more"]
  BY DEF After, n
<1> HIDE DEF frame
<1>9. ReadFrame(After(p, seq, i), frame) = After(p, seq, i + 1)
  <2> DEFINE r == After(p, seq, i)
  <2>1. r.payload = SubSeq(p, 1, m) /\ r.seq = (seq + i) % SeqNums
    <3> DEFINE s == SubSeq(p, 1, m)
               k == (seq + i) % SeqNums
    <3>1. r = [payload |-> s, seq |-> k, end |-> "more"]
      BY <1>7, Zenon
    <3> HIDE DEF s, k, r
    <3>2. r.payload = s /\ r.seq = k
      BY <3>1, SMT
    <3> QED BY <3>2 DEF s, k
  <2> HIDE DEF r
  <2>2. ReadFrame(r, frame) =
          [payload |-> r.payload \o frame.body, seq |-> (r.seq + 1) % SeqNums, end |-> "more"]
    BY <1>2, <1>5, <2>1, Zenon DEF ReadFrame
  <2>3. ReadFrame(r, frame) = After(p, seq, i + 1)
    BY <1>4, <1>6, <1>8, <2>1, <2>2, Zenon
  <2> QED BY <2>3 DEF r
<1> QED BY <1>9 DEF frame

LEMMA LastPacket ==
  ASSUME NEW p \in Seq(Nat), NEW seq \in Nat
  PROVE  LET got == ReadFrame(After(p, seq, Whole(p)), Frame(p, seq, Whole(p) + 1))
         IN  /\ Len(p) % MaxPacketSize # 0 =>
                  got = [payload |-> p, seq |-> (seq + Whole(p) + 1) % SeqNums, end |-> "payload"]
             /\ Len(p) % MaxPacketSize = 0 => got.end = "malformed"
<1> DEFINE q == Whole(p)
           m == q * MaxPacketSize
           r == Len(p) % MaxPacketSize
           frame == Frame(p, seq, q + 1)
           reader0 == After(p, seq, q)
           got == ReadFrame(reader0, frame)
<1>1. q \in Nat /\ q + 1 \in 1..q + 1 /\ seq + (q + 1) - 1 = seq + q /\ seq + q + 1 = seq + (q + 1)
  BY FramesAre, SMT
<1>2. frame.body = SubSeq(p, m + 1, Len(p)) /\ frame.seq = (seq + q) % SeqNums
  BY <1>1, FramesAre, Zenon
<1>3. m \in Nat /\ m + r = Len(p) /\ r \in Nat /\ r < MaxPacketSize /\ Len(p) \in Nat
  <2>1. m + r = Len(p)
    BY FramesAre, Zenon
  <2>2. m \in Nat
    BY <1>1, FramingAssumption, SMT
  <2>3. r \in 0..MaxPacketSize - 1 /\ Len(p) \in Nat
    BY Division, FramingAssumption
  <2> HIDE DEF m, r
  <2> QED BY <2>1, <2>2, <2>3, FramingAssumption, SMT
<1>4. reader0 = [payload |-> SubSeq(p, 1, m), seq |-> (seq + q) % SeqNums, end |-> "more"]
  BY DEF After
<1> HIDE DEF m, r
<1>5. SubSeq(p, 1, m) \o frame.body = p /\ Len(frame.body) = r
  <2>1. m \in 0..Len(p) /\ Len(p) \in m..Len(p) /\ Len(p) - m = r
    BY <1>3, SMT
  <2>2. /\ SubSeq(p, 1, m) \o SubSeq(p, m + 1, Len(p)) = SubSeq(p, 1, Len(p))
        /\ Len(SubSeq(p, m + 1, Len(p))) = Len(p) - m
        /\ SubSeq(p, 1, Len(p)) = p
    BY <2>1, Longer
  <2> QED BY <1>2, <2>1, <2>2, Zenon
<1>6. (((seq + q) % SeqNums) + 1) % SeqNums = (seq + q + 1) % SeqNums
  <2>1. seq + q \in Nat
    BY <1>1, SMT
  <2>2. SeqNums \in Nat /\ SeqNums > 0
    BY FramingAssumption, SMT
  <2> QED BY <2>1, <2>2, Counted
<1>7. CASE r # 0
  <2>1. frame.body # <<>> /\ Len(frame.body) < MaxPacketSize
    BY <1>3, <1>5, <1>7
  <2> HIDE DEF frame, reader0, q
  <2>2. got = [payload |-> p, seq |-> (seq + q + 1) % SeqNums, end |-> "payload"]
    BY <1>2, <1>4, <1>5, <1>6, <2>1, Zenon DEF ReadFrame
  <2> QED BY <1>7, <2>2, Zenon DEF r, frame, reader0, q
<1>8. CASE r = 0
  <2>1. frame.body = <<>>
    <3>1. \A n \in Nat : SubSeq(p, n + 1, n) = <<>>
      OBVIOUS
    <3>2. m = Len(p)
      BY <1>3, <1>8, SMT
    <3> QED BY <1>2, <1>3, <3>1, <3>2, Zenon
  <2> HIDE DEF frame, reader0, q
  <2>2. got.end = "malformed"
    BY <1>4, <2>1, SMT DEF ReadFrame
  <2> QED BY <1>8, <2>2, Zenon DEF r, frame, reader0, q
<1> QED BY <1>7, <1>8
(* What arrives is the packets in their order, and all of it only with the  *)
(* header of the next payload.                                              *)
LEMMA ArrivingAre ==
  ASSUME NEW p \in Seq(Nat), NEW seq \in Nat, NEW n \in 0..Whole(p) + 1
  PROVE  /\ n <= Whole(p) => Len(Arriving(p, seq, n)) = n
         /\ n = Whole(p) + 1 => Len(Arriving(p, seq, n)) = Whole(p) + 2
         /\ \A i \in 1..Whole(p) + 1 :
              i <= Len(Arriving(p, seq, n)) => Arriving(p, seq, n)[i] = Frame(p, seq, i)
<1> DEFINE q == Whole(p)
           F == Frames(p, seq)
           T == {F[i] : i \in 1..q + 1}
           next == Following(p, seq)
<1>1. q \in Nat /\ Len(F) = q + 1 /\ \A i \in 1..q + 1 : F[i] = Frame(p, seq, i)
  BY FramesAre, Zenon
<1>2. F \in Seq(T)
  <2>1. F = [i \in 1..Len(F) |-> F[i]]
    BY <1>1, Zenon DEF Frames, Whole
  <2> HIDE DEF F, q
  <2>2. Len(F) \in Nat /\ \A i \in 1..Len(F) : F[i] \in T
    BY <1>1, SMT
  <2> HIDE DEF T
  <2> QED BY <2>1, <2>2, SMT
<1>3. Arriving(p, seq, n) = IF n < Len(F) THEN SubSeq(F, 1, n) ELSE Append(F, next)
  BY DEF Arriving
<1> SUFFICES LET a == IF n < Len(F) THEN SubSeq(F, 1, n) ELSE Append(F, next)
             IN  /\ n <= q => Len(a) = n
                 /\ n = q + 1 => Len(a) = q + 2
                 /\ \A i \in 1..q + 1 : i <= Len(a) => a[i] = F[i]
  BY <1>1, <1>3, Zenon
<1>4. n \in 0..q + 1
  OBVIOUS
<1> HIDE DEF F, T, next, q
<1>5. CASE n <= q
  BY <1>1, <1>2, <1>4, <1>5, SMT
<1>6. CASE n = q + 1
  BY <1>1, <1>2, <1>4, <1>6, SMT
<1> QED BY <1>1, <1>4, <1>5, <1>6, SMT

-----------------------------------------------------------------------------
(* What may stand in a buffer: the provers do not know that these strings   *)
(* are in STRING.                                                           *)
Written == STRING \cup {"backslash", "quote", "dquote", "0", "n", "r", "Z"}

(* Escaping: MySQL reads what is put behind the text for a character as     *)
(* that character, and a quote behind the text as its end.                  *)
LEMMA TwoOf ==
  ASSUME NEW S, NEW a \in S, NEW b \in S
  PROVE  <<a, b>> \in Seq(S) /\ Len(<<a, b>>) \in 1..2 /\ <<a>> \in Seq(S) /\ Len(<<a>>) \in 1..2
<1>1. <<a, b>> \in Seq(S) /\ <<a>> \in Seq(S)
  OBVIOUS
<1>2. Len(<<a, b>>) \in 1..2 /\ Len(<<a>>) \in 1..2
  OBVIOUS
<1> QED BY <1>1, <1>2

LEMMA CharacterReadsBack ==
  ASSUME NEW text, NEW c, NEW backslashes \in BOOLEAN
  PROVE  /\ LexAll([text |-> text, at |-> "in"], Escaped(c, backslashes), backslashes) =
              [text |-> Append(text, c), at |-> "in"]
         /\ Len(Escaped(c, backslashes)) \in 1..2
         /\ c \in Written => Escaped(c, backslashes) \in Seq(Written)
<1> DEFINE start == [text |-> text, at |-> "in"]
           end == [text |-> Append(text, c), at |-> "in"]
<1>1. CASE backslashes = TRUE /\ c \in DOMAIN Replaced
  <2>1. PICK d \in {"0", "n", "r", "Z", "quote", "dquote", "backslash"} :
          d = Replaced[c] /\ Unescaped(d) = c
    BY <1>1, SMT DEF Replaced, Unescaped
  <2>2. Escaped(c, backslashes) = <<"backslash", d>>
    BY <1>1, <2>1 DEF Escaped
  <2>3. Lex(start, "backslash", TRUE) = [text |-> text, at |-> "escape"]
    BY SMT DEF Lex
  <2>4. Lex([text |-> text, at |-> "escape"], d, TRUE) = end
    BY <2>1, SMT DEF Lex
  <2>5. LexAll(start, <<"backslash", d>>, TRUE) = Lex(Lex(start, "backslash", TRUE), d, TRUE)
    BY SMT DEF LexAll
  <2>6. "backslash" \in Written /\ d \in Written
    BY <2>1, Zenon DEF Written
  <2> QED BY <1>1, <2>2, <2>3, <2>4, <2>5, <2>6, TwoOf, Zenon
<1>2. CASE backslashes = FALSE /\ c = "quote"
  <2>1. Escaped(c, backslashes) = <<"quote", "quote">>
    BY <1>2 DEF Escaped
  <2>2. Lex(start, "quote", FALSE) = [text |-> text, at |-> "quote"]
    BY SMT DEF Lex
  <2>3. Lex([text |-> text, at |-> "quote"], "quote", FALSE) = end
    BY <1>2, SMT DEF Lex
  <2>4. LexAll(start, <<"quote", "quote">>, FALSE) = Lex(Lex(start, "quote", FALSE), "quote", FALSE)
    BY SMT DEF LexAll
  <2>5. "quote" \in Written
    BY Zenon DEF Written
  <2> QED BY <1>2, <2>1, <2>2, <2>3, <2>4, <2>5, TwoOf, Zenon
<1>3. CASE (backslashes = TRUE /\ c \notin DOMAIN Replaced) \/ (backslashes = FALSE /\ c # "quote")
  <2>1. Escaped(c, backslashes) = <<c>>
    BY <1>3 DEF Escaped
  <2>2. c # "quote" /\ ~(c = "backslash" /\ backslashes)
    BY <1>3, Zenon DEF Replaced
  <2>3. Lex(start, c, backslashes) = end
    BY <2>2, SMT DEF Lex
  <2>4. LexAll(start, <<c>>, backslashes) = Lex(start, c, backslashes)
    BY SMT DEF LexAll
  <2>5. Len(<<c>>) \in 1..2 /\ (c \in Written => <<c>> \in Seq(Written))
    BY TwoOf
  <2> QED BY <2>1, <2>3, <2>4, <2>5, SMT
<1> QED BY <1>1, <1>2, <1>3, Zenon

LEMMA QuoteEnds ==
  ASSUME NEW text, NEW backslashes \in BOOLEAN
  PROVE  LexAll([text |-> text, at |-> "in"], <<"quote", "end">>, backslashes) =
           [text |-> text, at |-> "after"]
<1>1. Lex([text |-> text, at |-> "in"], "quote", backslashes) = [text |-> text, at |-> "quote"]
  BY SMT DEF Lex
<1>2. Lex([text |-> text, at |-> "quote"], "end", backslashes) = [text |-> text, at |-> "after"]
  BY SMT DEF Lex
<1> QED BY <1>1, <1>2, SMT DEF LexAll

-----------------------------------------------------------------------------
(* The inductive invariant: what the two loops have done is what the part   *)
(* of the input that they are past amounts to.                              *)
Idle == of \notin {"payload", "text"} => done = 0 /\ lexer = Opened

PacketsRead ==
  of = "payload" =>
    LET p == args[1]
        seq == args[2]
    IN  /\ done \in 0..Whole(p) + 1 /\ done <= Len(Input)
        /\ done <= Whole(p) => reader = After(p, seq, done)
        /\ done = Whole(p) + 1 => reader = ReadFrame(After(p, seq, Whole(p)), Frame(p, seq, Whole(p) + 1))

CharactersEscaped ==
  of = "text" =>
    LET v == args[1]
        buf == args[2]
    IN  /\ done \in 0..Len(v)
        /\ lexer = [text |-> SubSeq(v, 1, done), at |-> "in"]
        /\ whole \in Seq(Written) /\ Len(whole) \in Len(buf)..Len(buf) + 2 * done
        /\ SubSeq(whole, 1, Len(buf)) = buf

CallsInv ==
  /\ of \in Callees
  /\ Arguments
  /\ Idle
  /\ PacketsRead
  /\ CharactersEscaped

LEMMA PayloadIs ==
  ASSUME NEW p \in Payloads, NEW seq \in 0..SeqNums - 1
  PROVE  /\ p \in Seq(Nat) /\ seq \in Nat /\ seq < SeqNums
         /\ Whole(p) \in Nat /\ Len(Frames(p, seq)) = Whole(p) + 1
<1>1. p \in Seq(Nat)
  BY CodecsAssumption, Zenon
<1>2. seq \in Nat /\ seq < SeqNums
  BY FramingAssumption, SMT
<1> QED BY <1>1, <1>2, FramesAre, Zenon

LEMMA PayloadArguments ==
  ASSUME Arguments, of = "payload"
  PROVE  /\ args[1] \in Seq(Nat) /\ args[2] \in Nat /\ args[2] < SeqNums
         /\ args[3] \in 0..Whole(args[1]) + 1
         /\ Input = Arriving(args[1], args[2], args[3])
<1>1. PICK payload \in Payloads, seq \in 0..SeqNums - 1 :
             \E n \in 0..Len(Frames(payload, seq)) : args = <<payload, seq, n>>
  BY Zenon DEF Arguments
<1>2. PICK n \in 0..Len(Frames(payload, seq)) : args = <<payload, seq, n>>
  BY <1>1
<1>3. args[1] = payload /\ args[2] = seq /\ args[3] = n
  BY <1>2
<1>4. /\ payload \in Seq(Nat) /\ seq \in Nat /\ seq < SeqNums
      /\ Len(Frames(payload, seq)) = Whole(payload) + 1
  BY PayloadIs
<1> QED BY <1>3, <1>4, Zenon DEF Input

LEMMA TextIs ==
  ASSUME NEW v \in Texts, NEW buf \in Buffers
  PROVE  v \in Seq(Written) /\ buf \in Seq(Written)
<1>1. v \in Seq(STRING) /\ buf \in Seq(STRING)
  BY CodecsAssumption, Zenon
<1>2. STRING \subseteq Written
  BY Zenon DEF Written
<1>3. \A S, R : S \subseteq R => Seq(S) \subseteq Seq(R)
  OBVIOUS
<1>4. Seq(STRING) \subseteq Seq(Written)
  BY <1>2, <1>3, Zenon
<1> QED BY <1>1, <1>4

LEMMA TextArguments ==
  ASSUME Arguments, of = "text"
  PROVE  /\ args[1] \in Seq(Written) /\ args[2] \in Seq(Written)
         /\ args[3] \in Nat /\ Len(args[2]) <= args[3] /\ args[4] \in BOOLEAN
         /\ Input = args[1]
<1>1. PICK v \in Texts, buf \in Buffers, capacity \in 0..MaxCap, backslashes \in BOOLEAN :
             Len(buf) <= capacity /\ args = <<v, buf, capacity, backslashes>>
  BY Zenon DEF Arguments
<1>2. args[1] = v /\ args[2] = buf /\ args[3] = capacity /\ args[4] = backslashes
  BY <1>1
<1>3. v \in Seq(Written) /\ buf \in Seq(Written)
  BY TextIs
<1>4. capacity \in Nat
  BY CodecsAssumption
<1> QED BY <1>1, <1>2, <1>3, <1>4, Zenon DEF Input

-----------------------------------------------------------------------------
LEMMA InitCalls == Init => CallsInv
BY SMT DEF Init, CallsInv, Callees, Arguments, Idle, PacketsRead, CharactersEscaped

(* A call starts with nothing done.                                         *)
LEMMA CallsStart ==
  ASSUME CallsInv, Calls
  PROVE  CallsInv'
<1>1. of = "none" /\ done = 0 /\ lexer = Opened
  BY Zenon DEF Calls, CallsInv, Idle
<1> USE DEF Call, loop
<1>2. CASE \E n \in Nums, b, rest \in Strings : Integer(n, b, rest)
  BY <1>1, <1>2 DEF CallsInv, Integer, Callees, Arguments, Idle, PacketsRead, CharactersEscaped
<1>3. CASE \E n \in Nums, rest \in Strings : String(n, rest)
  BY <1>1, <1>3 DEF CallsInv, String, Callees, Arguments, Idle, PacketsRead, CharactersEscaped
<1>4. CASE \E n \in Nums, k \in 0..8 : CutShort(n, k)
  BY <1>1, <1>4 DEF CallsInv, CutShort, Callees, Arguments, Idle, PacketsRead, CharactersEscaped
<1>5. CASE \E v \in Times, length \in {8} \cup 10..15 : Time(v, length)
  BY <1>1, <1>5 DEF CallsInv, Time, Callees, Arguments, Idle, PacketsRead, CharactersEscaped
<1>6. CASE \E v \in DateTimes, length \in {10, 19} \cup 21..26 : DateTime(v, length)
  BY <1>1, <1>6 DEF CallsInv, DateTime, Callees, Arguments, Idle, PacketsRead, CharactersEscaped
<1>7. ASSUME NEW p \in Payloads, NEW seq \in 0..SeqNums - 1, NEW n \in 0..Len(Frames(p, seq)),
             Payload(p, seq, n)
      PROVE  CallsInv'
  <2>1. of' = "payload" /\ args' = <<p, seq, n>> /\ reader' = Fresh(seq) /\ done' = 0
    BY <1>1, <1>7 DEF Payload
  <2>2. Arguments' /\ of' \in Callees /\ Idle' /\ CharactersEscaped'
    BY <2>1 DEF Arguments, Callees, Idle, CharactersEscaped
  <2>3. p \in Seq(Nat) /\ seq \in Nat /\ seq < SeqNums /\ Whole(p) \in Nat
    BY PayloadIs
  <2>4. Fresh(seq) = After(p, seq, 0)
    <3>1. SubSeq(p, 1, 0 * MaxPacketSize) = <<>>
      BY <2>3, FramingAssumption
    <3>2. (seq + 0) % SeqNums = seq
      BY <2>3, FramingAssumption, SMT
    <3> QED BY <3>1, <3>2 DEF Fresh, After
  <2>5. Len(Input') \in Nat
    <3>1. Input' = Arriving(p, seq, n)
      BY <2>1 DEF Input
    <3>2. n \in Nat /\ n \in 0..Whole(p) + 1 /\ (n <= Whole(p) \/ n = Whole(p) + 1)
      BY <2>3, PayloadIs, SMT
    <3> QED BY <2>3, <3>1, <3>2, ArrivingAre
  <2> QED BY <2>1, <2>2, <2>3, <2>4, <2>5 DEF CallsInv, PacketsRead
<1>8. ASSUME NEW v \in Texts, NEW buf \in Buffers, NEW capacity \in 0..MaxCap, NEW backslashes \in BOOLEAN,
             Text(v, buf, capacity, backslashes)
      PROVE  CallsInv'
  <2>1. /\ of' = "text" /\ args' = <<v, buf, capacity, backslashes>> /\ whole' = buf
        /\ done' = 0 /\ lexer' = Opened /\ Len(buf) <= capacity
    BY <1>1, <1>8 DEF Text
  <2>2. Arguments' /\ of' \in Callees /\ Idle' /\ PacketsRead'
    BY <2>1 DEF Arguments, Callees, Idle, PacketsRead
  <2>3. v \in Seq(Written) /\ buf \in Seq(Written)
    BY TextIs
  <2>4. SubSeq(v, 1, 0) = <<>> /\ SubSeq(buf, 1, Len(buf)) = buf /\ Len(buf) \in Nat /\ Len(v) \in Nat
    BY <2>3
  <2> QED BY <2>1, <2>2, <2>3, <2>4 DEF CallsInv, CharactersEscaped, Opened
<1> QED BY <1>2, <1>3, <1>4, <1>5, <1>6, <1>7, <1>8, Zenon DEF Calls

(* readPacket, one packet further: none behind the last is read.            *)
LEMMA PacketIsRead ==
  ASSUME CallsInv, ReadPacket
  PROVE  CallsInv'
<1> DEFINE p == args[1]
           seq == args[2]
           q == Whole(p)
<1>1. /\ of = "payload" /\ of' = of /\ args' = args /\ whole' = whole /\ lexer' = lexer
      /\ reader.end = "more" /\ done < Len(Input) /\ done' = done + 1
      /\ reader' = ReadFrame(reader, Input[done + 1])
  BY Zenon DEF ReadPacket, Loops
<1>2. /\ p \in Seq(Nat) /\ seq \in Nat /\ args[3] \in 0..q + 1
      /\ Input = Arriving(p, seq, args[3])
  BY <1>1, PayloadArguments DEF CallsInv
<1>3. Input' = Input
  BY <1>1, Zenon DEF Input
<1>4. q \in Nat /\ Len(Input) \in Nat /\ \A i \in 1..q + 1 : i <= Len(Input) => Input[i] = Frame(p, seq, i)
  <2>1. q \in Nat
    BY <1>2, FramesAre, Zenon
  <2>2. args[3] <= q \/ args[3] = q + 1
    BY <1>2, <2>1, SMT
  <2>3. /\ args[3] <= q => Len(Input) = args[3]
        /\ args[3] = q + 1 => Len(Input) = q + 2
        /\ \A i \in 1..q + 1 : i <= Len(Input) => Input[i] = Frame(p, seq, i)
    BY <1>2, ArrivingAre, Zenon
  <2>4. args[3] \in Nat /\ q + 2 \in Nat
    BY <1>2, <2>1, SMT
  <2> QED BY <2>1, <2>2, <2>3, <2>4, Zenon
<1>5. /\ done \in 0..q + 1 /\ done <= Len(Input)
      /\ done <= q => reader = After(p, seq, done)
      /\ done = q + 1 => reader = ReadFrame(After(p, seq, q), Frame(p, seq, q + 1))
  BY <1>1, Zenon DEF CallsInv, PacketsRead
<1>6. done # q + 1
  <2> SUFFICES ASSUME done = q + 1 PROVE FALSE
    OBVIOUS
  <2>1. reader = ReadFrame(After(p, seq, q), Frame(p, seq, q + 1))
    BY <1>5
  <2> HIDE DEF p, seq
  <2>2. reader.end = "payload" \/ reader.end = "malformed"
    <3>1. /\ Len(p) % MaxPacketSize # 0 =>
                  reader = [payload |-> p, seq |-> (seq + q + 1) % SeqNums, end |-> "payload"]
          /\ Len(p) % MaxPacketSize = 0 => reader.end = "malformed"
      BY <1>2, <2>1, LastPacket, Zenon
    <3> QED BY <3>1
  <2> QED BY <1>1, <2>2
<1>7. done + 1 \in 1..q + 1 /\ done + 1 <= Len(Input) /\ done <= q /\ done \in Nat
  BY <1>1, <1>4, <1>5, <1>6, SMT
<1>8. reader' = ReadFrame(After(p, seq, done), Frame(p, seq, done + 1))
  <2>1. Input[done + 1] = Frame(p, seq, done + 1)
    BY <1>4, <1>7, Zenon
  <2> QED BY <1>1, <1>5, <1>7, <2>1, Zenon
<1>9. PacketsRead'
  <2>1. /\ done + 1 \in 0..q + 1 /\ done + 1 <= Len(Input)
        /\ done + 1 <= q => done \in 0..q - 1
        /\ done + 1 = q + 1 => done = q
    BY <1>4, <1>7, SMT
  <2>2. done + 1 <= q => reader' = After(p, seq, done + 1)
    BY <1>2, <1>8, <2>1, FullPacket, Zenon
  <2>3. done + 1 = q + 1 => reader' = ReadFrame(After(p, seq, q), Frame(p, seq, q + 1))
    BY <1>8, <2>1, Zenon
  <2> QED BY <1>1, <1>3, <2>1, <2>2, <2>3, Zenon DEF PacketsRead
<1>10. Arguments' /\ of' \in Callees /\ Idle' /\ CharactersEscaped'
  BY <1>1, Zenon DEF CallsInv, Arguments, Idle, CharactersEscaped
<1> QED BY <1>9, <1>10 DEF CallsInv

LEMMA Before ==
  ASSUME NEW S, NEW a \in Seq(S), NEW b \in Seq(S), NEW k \in 0..Len(a)
  PROVE  SubSeq(a \o b, 1, k) = SubSeq(a, 1, k)
OBVIOUS

(* The escaping, one character further: MySQL reads it as it was.           *)
LEMMA CharacterIsEscaped ==
  ASSUME CallsInv, Escape
  PROVE  CallsInv'
<1> DEFINE v == args[1]
           buf == args[2]
           c == v[done + 1]
           s == Escaped(c, args[4])
<1>1. /\ of = "text" /\ of' = of /\ args' = args /\ reader' = reader
      /\ done < Len(Input) /\ done' = done + 1
      /\ whole' = whole \o Escaped(Input[done + 1], args[4])
      /\ lexer' = LexAll(lexer, Escaped(Input[done + 1], args[4]), args[4])
  BY Zenon DEF Escape, Loops
<1>2. v \in Seq(Written) /\ buf \in Seq(Written) /\ args[4] \in BOOLEAN /\ Input = v
  BY <1>1, TextArguments DEF CallsInv
<1>3. /\ done \in 0..Len(v)
      /\ lexer = [text |-> SubSeq(v, 1, done), at |-> "in"]
      /\ whole \in Seq(Written) /\ Len(whole) \in Len(buf)..Len(buf) + 2 * done
      /\ SubSeq(whole, 1, Len(buf)) = buf
  BY <1>1, Zenon DEF CallsInv, CharactersEscaped
<1>4. whole' = whole \o s /\ lexer' = LexAll(lexer, s, args[4])
  BY <1>1, <1>2, Zenon
<1>5. done + 1 \in 1..Len(v) /\ done + 1 \in 0..Len(v) /\ c \in Written
  BY <1>1, <1>2, <1>3
<1>6. Len(s) \in 1..2 /\ s \in Seq(Written)
  BY <1>2, <1>5, CharacterReadsBack
<1>7. lexer' = [text |-> SubSeq(v, 1, done + 1), at |-> "in"]
  <2>1. Append(SubSeq(v, 1, done), c) = SubSeq(v, 1, done + 1)
    BY <1>2, <1>3, <1>5
  <2>2. LexAll(lexer, s, args[4]) = [text |-> Append(SubSeq(v, 1, done), c), at |-> "in"]
    BY <1>2, <1>3, CharacterReadsBack, Zenon
  <2> QED BY <1>4, <2>1, <2>2, Zenon
<1> HIDE DEF s, v, buf, c
<1>8. /\ whole \o s \in Seq(Written) /\ Len(whole \o s) \in Len(buf)..Len(buf) + 2 * (done + 1)
      /\ SubSeq(whole \o s, 1, Len(buf)) = buf
  <2>1. whole \o s \in Seq(Written) /\ Len(whole \o s) = Len(whole) + Len(s)
    BY <1>3, <1>6, ConcatProperties
  <2>2. Len(buf) \in 0..Len(whole)
    BY <1>2, <1>3
  <2>3. SubSeq(whole \o s, 1, Len(buf)) = SubSeq(whole, 1, Len(buf))
    BY <1>3, <1>6, <2>2, Before
  <2>4. Len(whole \o s) \in Len(buf)..Len(buf) + 2 * (done + 1)
    <3> DEFINE a == Len(whole)
               b == Len(buf)
               k == Len(s)
    <3>1. a \in Nat /\ b \in Nat /\ k \in 1..2 /\ done \in Nat /\ a \in b..b + 2 * done
      BY <1>2, <1>3, <1>6
    <3> HIDE DEF a, b, k
    <3>2. a + k \in b..b + 2 * (done + 1)
      BY <3>1, SMT
    <3> QED BY <2>1, <3>2 DEF a, b, k
  <2> QED BY <1>3, <2>1, <2>3, <2>4
<1>9. CharactersEscaped'
  BY <1>1, <1>4, <1>5, <1>7, <1>8, Zenon DEF CharactersEscaped, v, buf
<1>10. Arguments' /\ of' \in Callees /\ Idle' /\ PacketsRead'
  BY <1>1, Zenon DEF CallsInv, Arguments, Idle, PacketsRead
<1> QED BY <1>9, <1>10 DEF CallsInv

LEMMA CallsStep ==
  ASSUME CallsInv, [Next]_vars
  PROVE  CallsInv'
<1>1. CASE Return
  BY <1>1, Zenon DEF Return, CallsInv, Callees, Arguments, Idle, PacketsRead, CharactersEscaped
<1>2. CASE UNCHANGED vars
  BY <1>2, Zenon DEF vars, CallsInv, Arguments, Idle, PacketsRead, CharactersEscaped, Input
<1> QED BY <1>1, <1>2, CallsStart, PacketIsRead, CharacterIsEscaped, Zenon DEF Next

(* Every call has the arguments of a caller, and the two loops are as far   *)
(* as the input they are past.                                              *)
THEOREM CallsInvariant == Spec => []CallsInv
<1>1. Init => CallsInv
  BY InitCalls
<1>2. CallsInv /\ [Next]_vars => CallsInv'
  BY CallsStep
<1> QED BY <1>1, <1>2, PTL DEF Spec

-----------------------------------------------------------------------------
LEMMA CallsReadBack ==
  ASSUME CallsInv
  PROVE  LenEncReadsBack
<1>1. Arguments
  BY Zenon DEF CallsInv
<1>2. CASE of = "integer"
  <2>1. PICK n \in Nums, b \in Strings, rest \in Strings : args = <<n, b, rest>>
    BY <1>1, <1>2, Zenon DEF Arguments
  <2>2. args[1] = n /\ args[2] = b /\ args[3] = rest
    BY <2>1
  <2> QED BY <1>2, <2>2, IntegersReadBack DEF LenEncReadsBack
<1>3. CASE of = "string"
  <2>1. PICK n \in Nums, rest \in Strings : args = <<n, rest>>
    BY <1>1, <1>3, Zenon DEF Arguments
  <2>2. args[1] = n /\ args[2] = rest
    BY <2>1
  <2> QED BY <1>3, <2>2, StringsReadBack DEF LenEncReadsBack
<1>4. CASE of = "cut"
  <2>1. PICK n \in Nums, k \in 0..8 : k < Len(Encoded(n)) /\ args = <<n, k>>
    BY <1>1, <1>4, Zenon DEF Arguments
  <2>2. args[1] = n /\ args[2] = k
    BY <2>1
  <2> QED BY <1>4, <2>1, <2>2, CutsPanic DEF LenEncReadsBack
<1> QED BY <1>2, <1>3, <1>4 DEF LenEncReadsBack

(* mysql/utils.go: for every byte size, and every number of a uint64, the   *)
(* length-encoded integer and string are read back as they were appended,   *)
(* with any bytes before and behind; one that is cut off is no shorter one. *)
THEOREM LenEncAlwaysReadsBack == Spec => []LenEncReadsBack
BY CallsInvariant, CallsReadBack, PTL

-----------------------------------------------------------------------------
(* At the end of the loop either packets are missing or the last is read.   *)
LEMMA PayloadIsWhole ==
  ASSUME CallsInv
  PROVE  PayloadsReadBack
<1> SUFFICES ASSUME of = "payload", ~Loops
             PROVE  PayloadReadsBack(args[1], args[2], args[3], reader)
  BY DEF PayloadsReadBack
<1> DEFINE p == args[1]
           seq == args[2]
           n == args[3]
           q == Whole(p)
           got == [payload |-> p, seq |-> (seq + q + 1) % SeqNums, end |-> "payload"]
<1>1. p \in Seq(Nat) /\ seq \in Nat /\ n \in 0..q + 1 /\ Input = Arriving(p, seq, n)
  BY PayloadArguments DEF CallsInv
<1>2. q \in Nat /\ Len(Frames(p, seq)) = q + 1
  BY <1>1, FramesAre, Zenon
<1>3. /\ done \in 0..q + 1 /\ done <= Len(Input)
      /\ done <= q => reader = After(p, seq, done)
      /\ done = q + 1 => reader = ReadFrame(After(p, seq, q), Frame(p, seq, q + 1))
  BY Zenon DEF CallsInv, PacketsRead
<1>4. reader.end = "more" => ~(done < Len(Input))
  BY Zenon DEF Loops
<1>5. done <= q => reader.end = "more"
  BY <1>3 DEF After
<1>6. Following(p, seq).seq = (seq + q + 1) % SeqNums
  <2>1. SeqNums \in Nat /\ SeqNums > 0 /\ seq + (q + 1) \in Nat /\ seq + (q + 1) = seq + q + 1
    BY <1>1, <1>2, FramingAssumption, SMT
  <2>2. Following(p, seq).seq = (((seq + (q + 1)) % SeqNums) + 1 - 1) % SeqNums
    BY <1>2, Zenon DEF Following, Frame
  <2>3. (seq + (q + 1)) % SeqNums \in Int
    BY <2>1, Division
  <2>4. ((seq + (q + 1)) % SeqNums) + 1 - 1 = (seq + (q + 1)) % SeqNums
    BY <2>3, SMT
  <2> QED BY <2>1, <2>2, <2>4, Counted
<1>7. CASE n <= q
  <2>1. Len(Input) = n
    BY <1>1, <1>7, ArrivingAre, Zenon
  <2>2. n < Len(Frames(p, seq)) /\ done <= q
    BY <1>1, <1>2, <1>3, <1>7, <2>1, SMT
  <2>3. ~(n >= Len(Frames(p, seq)))
    BY <1>2, <1>7, <1>1, SMT
  <2> HIDE DEF p, seq, n, q
  <2>4. PayloadReadsBack(p, seq, n, reader)
    BY <1>5, <2>2, <2>3, Zenon DEF PayloadReadsBack
  <2> QED BY <2>4 DEF p, seq, n
<1>8. CASE n = q + 1
  <2>1. Len(Input) = q + 2
    BY <1>1, <1>8, ArrivingAre, Zenon
  <2>2. done = q + 1
    <3>1. ~(done <= q)
      BY <1>2, <1>3, <1>4, <1>5, <2>1, SMT
    <3> QED BY <1>2, <1>3, <3>1, SMT
  <2>3. n >= Len(Frames(p, seq)) /\ ~(n < Len(Frames(p, seq)))
    BY <1>2, <1>8, SMT
  <2>4. /\ Len(p) % MaxPacketSize # 0 => reader = got
        /\ Len(p) % MaxPacketSize = 0 => reader.end = "malformed"
    BY <1>1, <1>3, <2>2, LastPacket, Zenon
  <2> HIDE DEF p, seq, n, q
  <2>5. PayloadReadsBack(p, seq, n, reader)
    BY <1>6, <2>3, <2>4, Zenon DEF PayloadReadsBack
  <2> QED BY <2>5 DEF p, seq, n
<1>9. n <= q \/ n = q + 1
  BY <1>1, <1>2, SMT
<1> QED BY <1>7, <1>8, <1>9

(* server/packets.go: for every packet size and range of numbers, readPacket *)
(* makes of what writePacket has written the payload, whole, and expects    *)
(* the number that comes next; of a part of it, or a payload that fills its *)
(* packets, it makes none.                                                  *)
THEOREM PayloadsAlwaysReadBack == Spec => []PayloadsReadBack
BY CallsInvariant, PayloadIsWhole, PTL

-----------------------------------------------------------------------------
LEMMA LiteralIsText ==
  ASSUME CallsInv
  PROVE  LiteralsReadBack
<1> SUFFICES ASSUME of = "text", ~Loops
             PROVE  LiteralReadsBack(args[1], args[2], args[3], args[4], whole, lexer)
  BY DEF LiteralsReadBack
<1> DEFINE v == args[1]
           buf == args[2]
           capacity == args[3]
<1>1. /\ v \in Seq(Written) /\ buf \in Seq(Written) /\ args[4] \in BOOLEAN /\ Input = v
      /\ capacity \in Nat
  BY TextArguments DEF CallsInv
<1>2. /\ done \in 0..Len(v)
      /\ lexer = [text |-> SubSeq(v, 1, done), at |-> "in"]
      /\ Len(whole) \in Len(buf)..Len(buf) + 2 * done
      /\ SubSeq(whole, 1, Len(buf)) = buf
  BY Zenon DEF CallsInv, CharactersEscaped
<1>3. ~(done < Len(v))
  BY <1>1, Zenon DEF Loops
<1>4. done = Len(v) /\ SubSeq(v, 1, done) = v
  BY <1>1, <1>2, <1>3
<1>5. LexAll(lexer, <<"quote", "end">>, args[4]) = [text |-> v, at |-> "after"]
  BY <1>1, <1>2, <1>4, QuoteEnds, Zenon
<1>6. Len(whole) <= Reserved(buf, capacity, 2 * Len(v))
  <2>1. Len(buf) \in Nat /\ Len(v) \in Nat /\ Len(whole) <= Len(buf) + 2 * Len(v)
    <3>1. Len(buf) \in Nat /\ Len(v) \in Nat /\ done = Len(v)
      BY <1>1, <1>4
    <3> HIDE DEF buf, v
    <3> QED BY <1>2, <3>1, SMT
  <2> HIDE DEF buf, v, capacity
  <2> QED BY <1>1, <2>1, SMT DEF Reserved
<1> QED BY <1>2, <1>5, <1>6, Zenon DEF LiteralReadsBack

(* mysql/utils.go: MySQL reads every text that is escaped as that text, in  *)
(* both of its modes, and what was reserved for it is enough.               *)
THEOREM LiteralsAlwaysReadBack == Spec => []LiteralsReadBack
BY CallsInvariant, LiteralIsText, PTL

-----------------------------------------------------------------------------
LEMMA TimesAre ==
  ASSUME CallsInv
  PROVE  TimesDenoted
<1>1. Arguments
  BY Zenon DEF CallsInv
<1>2. CASE of = "time"
  <2>1. PICK v \in Times, length \in {8} \cup 10..15 : args = <<v, length>>
    BY <1>1, <1>2, Zenon DEF Arguments
  <2>2. args[1] = v /\ args[2] = length
    BY <2>1
  <2>3. TimeDenoted(v, length)
    BY TimeIsDenoted, Zenon
  <2> QED BY <1>2, <2>2, <2>3, Zenon DEF TimesDenoted
<1>3. CASE of = "date"
  <2>1. PICK v \in DateTimes, length \in {10, 19} \cup 21..26 : args = <<v, length>>
    BY <1>1, <1>3, Zenon DEF Arguments
  <2>2. args[1] = v /\ args[2] = length
    BY <2>1
  <2>3. DateTimeAgrees(v, length)
    BY DateTimeIsDenoted, Zenon
  <2> QED BY <1>3, <2>2, <2>3, Zenon DEF TimesDenoted
<1> QED BY <1>2, <1>3, Zenon DEF TimesDenoted

(* mysql/utils.go: the text of every time and date that MySQL can send      *)
(* denotes it, down to the digits that are asked for, and a date is the     *)
(* same instant as a time.Time.                                             *)
THEOREM TimesAlwaysDenoted == Spec => []TimesDenoted
BY CallsInvariant, TimesAre, PTL
=============================================================================
