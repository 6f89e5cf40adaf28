------------------------------ MODULE TimeText ------------------------------
(***************************************************************************)
(* Dates and times of binary rows (mysql/utils.go).  A value is a record;  *)
(* the fields that its packet does not have (size) are 0.  A text is a     *)
(* record too: the numbers that stand in it, and the digits of the         *)
(* fraction.  Values are in MySQL's ranges: a year below 10000, a time     *)
(* below 839 hours.                                                        *)
(***************************************************************************)
EXTENDS Integers, Sequences

Second == 1000000  \* in microseconds

(* A number of microseconds as three pairs of digits, of which the first d  *)
(* digits are written.                                                      *)
Pairs(micros) == <<micros \div 10000, (micros % 10000) \div 100, micros % 100>>

Fraction(micros, d) ==
  [i \in 1..d |-> IF i % 2 = 1 THEN Pairs(micros)[(i + 1) \div 2] \div 10 ELSE Pairs(micros)[i \div 2] % 10]

(* Of a text of this length, the digits behind the point.                   *)
Decimals(length, plain) == IF length > plain THEN length - plain - 1 ELSE 0

(* The packet has no microseconds: zeroDateTime goes on with zeros.         *)
Micros(v, full) == IF v.size = full THEN v.micros ELSE 0

-----------------------------------------------------------------------------
(* formatBinaryDateTime with justTime, for a length of 8 or 10 to 15.  With *)
(* days, the hundreds of the hours are put in front, be they 0.             *)
Sign(v) == IF v.neg THEN 1 ELSE 0

HoursCarry(v) == [hundreds |-> (v.days * 24) \div 100, hours |-> ((v.days * 24) % 100) + v.hour]  \* fault: the hours do not carry
Hours(v) ==
  [hundreds |-> (v.days * 24 + v.hour) \div 100, hours |-> (v.days * 24 + v.hour) % 100]

FormatTime(v, length) ==
  LET lead == IF v.size > 0 /\ v.days # 0 THEN 1 ELSE 0
      plain == 8 + lead + (IF v.size > 0 THEN Sign(v) ELSE 0)
  IN  [neg |-> v.size > 0 /\ v.neg, hundreds |-> Hours(v).hundreds, hours |-> Hours(v).hours,
       minutes |-> v.minutes, seconds |-> v.seconds,
       fraction |-> IF length <= plain THEN <<>> ELSE Fraction(Micros(v, 12), Decimals(length, 8))]

(* formatBinaryDateTime without, for a length of 10, 19 or 21 to 26.        *)
Clock(v) == <<v.hour, v.minutes, v.seconds>>

FormatDateTime(v, length) ==
  [date |-> <<v.year \div 100, v.year % 100, v.month, v.day>>,
   clock |-> IF length = 10 THEN <<>> ELSE IF v.size > 4 THEN Clock(v) ELSE <<0, 0, 0>>,
   fraction |-> Fraction(Micros(v, 11), Decimals(length, 19))]

(* parseBinaryDateTime: a packet of no bytes is Go's zero time, year 1.     *)
ParseDateTime(v) ==
  IF v.size = 0 THEN [date |-> <<1, 1, 1>>, clock |-> <<0, 0, 0>>, nanos |-> 0]
  ELSE [date |-> <<v.year, v.month, v.day>>,
        clock |-> IF v.size > 4 THEN Clock(v) ELSE <<0, 0, 0>>,
        nanos |-> IF v.size = 11 THEN v.micros * 1000 ELSE 0]

-----------------------------------------------------------------------------
(* The microseconds that the i-th digit of a fraction stands for, and those *)
(* that a fraction denotes.                                                 *)
Weight == <<100000, 10000, 1000, 100, 10, 1>>

Denoted(digits) ==
  LET part(i) == IF i <= Len(digits) THEN digits[i] * Weight[i] ELSE 0
  IN  part(1) + part(2) + part(3) + part(4) + part(5) + part(6)

(* micros, cut off behind d digits. *)
Cut(micros, d) == IF d = 0 THEN 0 ELSE micros - (micros % Weight[d])

(* The text of a time denotes it: sign, hours with the days among them, and *)
(* as many digits of the fraction as the length asks for, not rounded.  But *)
(* a negative time with days, asked for with one decimal, has none: its     *)
(* sign and hundreds have used up the length.                               *)
TimeDenoted(v, length) ==
  LET text == FormatTime(v, length)
      lost == v.neg /\ v.days # 0 /\ length = 10
      d == IF lost THEN 0 ELSE Decimals(length, 8)
  IN  /\ text.neg = v.neg
      /\ text.hundreds < 10 /\ text.hours < 100
      /\ text.hundreds * 100 + text.hours = v.days * 24 + v.hour
      /\ text.minutes = v.minutes /\ text.seconds = v.seconds
      /\ Len(text.fraction) = d
      /\ Denoted(text.fraction) = Cut(v.micros, d)

(* The text of a date and time and its time.Time are the same instant, as   *)
(* far as the text goes, but for the zero date, which is no time.Time.      *)
DateTimeAgrees(v, length) ==
  LET text == FormatDateTime(v, length)
      time == ParseDateTime(v)
      d == Decimals(length, 19)
  IN  v.size > 0 =>
        /\ time.date = <<text.date[1] * 100 + text.date[2], text.date[3], text.date[4]>>
        /\ length > 10 => time.clock = text.clock
        /\ Len(text.fraction) = d
        /\ Denoted(text.fraction) = Cut(time.nanos \div 1000, d)
=============================================================================
