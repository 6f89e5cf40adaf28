------------------------------- MODULE Framing -------------------------------
(***************************************************************************)
(* A payload of any length in packets of at most MaxPacketSize bytes       *)
(* (writePacket and readPacket of server/packets.go, which Client and      *)
(* mysqlConn have each).  A packet of that size says that another follows. *)
(***************************************************************************)
EXTENDS Integers, Sequences, SequencesExt

CONSTANTS
  MaxPacketSize,  \* 1<<24 - 1
  SeqNums         \* packet numbers are below it (256)

ASSUME FramingAssumption == MaxPacketSize \in Nat \ {0} /\ SeqNums \in Nat \ {0}

(* The i-th packet of a payload, when the first has the number seq.         *)
Frame(payload, seq, i) ==
  LET start == (i - 1) * MaxPacketSize
  IN  [seq |-> (seq + i - 1) % SeqNums,
       body |-> SubSeq(payload, start + 1, Min({start + MaxPacketSize, Len(payload)}))]

(* writePacket, when every Write succeeds.  Its check before the loop is    *)
(* left out: a payload longer than maxPacketAllowed is refused with         *)
(* ErrPktTooLarge (packets.go:89), and newClient and newConn set that to    *)
(* MaxPacketSize.  So the program writes two packets for one payload at     *)
(* most; MySQL, which splits its replies alike, sends any number.           *)
FramesLastOnly(payload, seq) ==  \* fault: a full packet may be the last
  [i \in 1..((Len(payload) + MaxPacketSize - 1) \div MaxPacketSize) |-> Frame(payload, seq, i)]

Frames(payload, seq) ==
  [i \in 1..(Len(payload) \div MaxPacketSize + 1) |-> Frame(payload, seq, i)]

(* readPacket, from where a header is read to where the next one is.  The   *)
(* number is checked after the length, and an empty packet has no body: the *)
(* reader closes the connection (mysqlConn returns ErrBadConn, Client nil). *)
Fresh(seq) == [payload |-> <<>>, seq |-> seq, end |-> "more"]

ReadFrame(reader, frame) ==
  CASE frame.body = <<>>                             -> [reader EXCEPT !.end = "malformed"]
    [] frame.body # <<>> /\ frame.seq # reader.seq   -> [reader EXCEPT !.end = "out of sync"]
    [] OTHER -> [payload |-> reader.payload \o frame.body, seq |-> (reader.seq + 1) % SeqNums,
                 end |-> IF Len(frame.body) < MaxPacketSize THEN "payload" ELSE "more"]

(* What follows the payload under the next number, if all of it arrives.    *)
Following(payload, seq) == Frame(<<1>>, (seq + Len(Frames(payload, seq))) % SeqNums, 1)

(* The packets that arrive when the connection ends after n of a payload.   *)
Arriving(payload, seq, n) ==
  IF n < Len(Frames(payload, seq)) THEN SubSeq(Frames(payload, seq), 1, n)
                                   ELSE Append(Frames(payload, seq), Following(payload, seq))

-----------------------------------------------------------------------------
(* A payload that is no multiple of MaxPacketSize arrives whole, with the   *)
(* same number expected and written next, and the next payload is left;     *)
(* from a part of its packets none is made up ("more" is the error of       *)
(* readNext when the connection has ended).  A multiple, which MySQL ends   *)
(* with an empty packet, is refused.                                        *)
PayloadReadsBack(payload, seq, n, reader) ==
  CASE n < Len(Frames(payload, seq)) -> reader.end = "more"
    [] n >= Len(Frames(payload, seq)) /\ Len(payload) % MaxPacketSize # 0 ->
         reader = [payload |-> payload, seq |-> Following(payload, seq).seq, end |-> "payload"]
    [] OTHER -> reader.end = "malformed"
=============================================================================
