------------------------------- MODULE Codecs -------------------------------
(***************************************************************************)
(* The pure functions of the protocol, one call at a time.  The two that   *)
(* loop over their input, readPacket and the escaping, take a step for     *)
(* each packet and each character; MySQL reads the literal as it grows.    *)
(***************************************************************************)
EXTENDS LenEnc, Framing, Escape, TimeText

CONSTANTS
  Nums,      \* integers
  Strings,   \* byte sequences, to stand before and behind them
  Payloads,  \* payloads of packets
  Texts,     \* texts to be escaped
  Buffers,   \* what a buffer already holds
  MaxCap,    \* largest capacity of a buffer
  Times,     \* times as MySQL sends them
  DateTimes  \* dates and times as MySQL sends them

(* The ranges are those of uint64, of a slice, and of MySQL's types. *)
ASSUME CodecsAssumption ==
  /\ Nums \subseteq 0..Uint64 - 1
  /\ Strings \subseteq Seq(0..Base - 1) /\ \A s \in Strings : Len(s) + 9 < Half
  /\ Payloads \subseteq Seq(Nat)
  /\ Texts \subseteq Seq(STRING) /\ Buffers \subseteq Seq(STRING) /\ MaxCap \in Nat

ASSUME TimesAssumption ==
  /\ Times \subseteq [size : {0, 8, 12}, neg : BOOLEAN, days : 0..34, hour : 0..23, minutes : 0..59,
                      seconds : 0..59, micros : Nat]
  /\ \A v \in Times : /\ v.micros < Second
                      /\ v.size < 12 => v.micros = 0
                      /\ v.size = 0 => ~v.neg /\ v.days = 0 /\ v.hour = 0 /\ v.minutes = 0 /\ v.seconds = 0
  /\ DateTimes \subseteq [size : {0, 4, 7, 11}, year : Nat, month : 0..12, day : 0..31, hour : 0..23,
                          minutes : 0..59, seconds : 0..59, micros : Nat]
  /\ \A v \in DateTimes : v.year < 10000 /\ v.micros < Second

VARIABLES
  of,      \* the function that is called
  args,    \* with these arguments
  done,    \* the packets or characters it is past
  reader,  \* readPacket: what it has put together
  whole,   \* the buffer with the escaped text
  lexer    \* MySQL, behind whole

vars == <<of, args, done, reader, whole, lexer>>

Init ==
  of = "none" /\ args = <<>> /\ done = 0 /\ reader = Fresh(0) /\ whole = <<>> /\ lexer = Opened

loop == <<done, reader, whole, lexer>>

Call(name, arguments) == of' = name /\ args' = arguments

Integer(n, b, rest) == Call("integer", <<n, b, rest>>) /\ UNCHANGED loop

String(n, rest) == Call("string", <<n, rest>>) /\ UNCHANGED loop

CutShort(n, k) == k < Len(Encoded(n)) /\ Call("cut", <<n, k>>) /\ UNCHANGED loop

(* The first n of the packets of a payload arrive. *)
Payload(payload, seq, n) ==
  /\ Call("payload", <<payload, seq, n>>)
  /\ reader' = Fresh(seq)
  /\ UNCHANGED <<done, whole, lexer>>

Text(v, buf, capacity, backslashes) ==
  /\ Len(buf) <= capacity
  /\ Call("text", <<v, buf, capacity, backslashes>>)
  /\ whole' = buf
  /\ UNCHANGED <<done, reader, lexer>>

Time(v, length) == Call("time", <<v, length>>) /\ UNCHANGED loop

DateTime(v, length) == Call("date", <<v, length>>) /\ UNCHANGED loop

Calls ==
  /\ of = "none"
  /\ \/ \E n \in Nums, b, rest \in Strings : Integer(n, b, rest)
     \/ \E n \in Nums, rest \in Strings : String(n, rest)
     \/ \E n \in Nums, k \in 0..8 : CutShort(n, k)
     \/ \E payload \in Payloads, seq \in 0..SeqNums - 1 :
          \E n \in 0..Len(Frames(payload, seq)) : Payload(payload, seq, n)
     \/ \E v \in Texts, buf \in Buffers, capacity \in 0..MaxCap, backslashes \in BOOLEAN :
          Text(v, buf, capacity, backslashes)
     \/ \E v \in Times, length \in {8} \cup 10..15 : Time(v, length)
     \/ \E v \in DateTimes, length \in {10, 19} \cup 21..26 : DateTime(v, length)

(* What the loop of a call goes through, and whether it has another turn.   *)
Input == IF of = "payload" THEN Arriving(args[1], args[2], args[3]) ELSE args[1]

Loops ==
  /\ of \in {"payload", "text"}
  /\ done < Len(Input)
  /\ of = "payload" => reader.end = "more"

ReadPacket ==
  /\ of = "payload" /\ Loops
  /\ reader' = ReadFrame(reader, Input[done + 1])
  /\ done' = done + 1
  /\ UNCHANGED <<of, args, whole, lexer>>

Escape ==
  /\ of = "text" /\ Loops
  /\ LET s == Escaped(Input[done + 1], args[4])
     IN  whole' = whole \o s /\ lexer' = LexAll(lexer, s, args[4])
  /\ done' = done + 1
  /\ UNCHANGED <<of, args, reader>>

Return ==
  /\ of # "none" /\ ~Loops
  /\ of' = "none" /\ args' = <<>> /\ done' = 0 /\ reader' = Fresh(0) /\ whole' = <<>> /\ lexer' = Opened

Next == Calls \/ ReadPacket \/ Escape \/ Return

Spec == Init /\ [][Next]_vars

-----------------------------------------------------------------------------
(***************************************************************************)
(* mysql/utils.go: what is appended length-encoded is read back, at every  *)
(* boundary of the widths; input that is cut off is never taken for a      *)
(* shorter string.                                                         *)
(***************************************************************************)
LenEncReadsBack ==
  /\ of = "integer" => IntegerReadsBack(args[1], args[2], args[3])
  /\ of = "string" => StringReadsBack(args[1], args[2])
  /\ of = "cut" => CutLength(args[1], args[2])

(***************************************************************************)
(* server/packets.go: a payload that is split by writePacket is put        *)
(* together by readPacket, under numbers that wrap around, unless its      *)
(* length is a multiple of MaxPacketSize, which readPacket refuses.        *)
(***************************************************************************)
PayloadsReadBack ==
  of = "payload" /\ ~Loops => PayloadReadsBack(args[1], args[2], args[3], reader)

(***************************************************************************)
(* mysql/utils.go: MySQL reads an escaped text as that text, in both of    *)
(* its modes, and finds the end of the literal.                            *)
(***************************************************************************)
LiteralsReadBack ==
  of = "text" /\ ~Loops => LiteralReadsBack(args[1], args[2], args[3], args[4], whole, lexer)

(***************************************************************************)
(* mysql/utils.go: formatBinaryDateTime denotes the value of the packet,   *)
(* and the time that parseBinaryDateTime makes of it.                      *)
(***************************************************************************)
TimesDenoted ==
  /\ of = "time" => TimeDenoted(args[1], args[2])
  /\ of = "date" => DateTimeAgrees(args[1], args[2])
=============================================================================
