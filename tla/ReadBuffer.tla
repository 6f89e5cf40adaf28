----------------------------- MODULE ReadBuffer -----------------------------
(***************************************************************************)
(* The buffer of a connection (server/buffer.go): input is read ahead into *)
(* an array, readNext returns slices of that array, and the same array is  *)
(* taken for output.  Its user is Query (server/mysql_conn.go), which      *)
(* keeps the slices of a whole reply until writeResultPackets sends them.  *)
(*                                                                         *)
(* The bytes of the input are numbered 1, 2, ...; 0 is any other byte.     *)
(* Arrays are garbage collected in Go: here they stay in the sequence mem. *)
(***************************************************************************)
EXTENDS Integers, Sequences

CONSTANTS
  BufSize,  \* defaultBufSize
  MaxNeed,  \* bound on the bytes asked for at once, below MaxPacketSize
  MaxRead   \* bound on the bytes read from the connection

ASSUME ReadBufferAssumption ==
  BufSize \in Nat \ {0} /\ MaxNeed \in Nat \ {0} /\ MaxRead \in Nat

VARIABLES
  mem,     \* the arrays allocated so far; b.buf is the last one
  idx,     \* b.idx
  length,  \* b.length
  input,   \* bytes taken from the connection
  last,    \* the slice readNext returned last, while it may be used
  kept,    \* the slices of the reply being collected, with their first byte
  alive    \* no read from the connection has failed

vars == <<mem, idx, length, input, last, kept, alive>>

NoSlice == [array |-> 1, offset |-> 0, size |-> 0]

Buf == mem[Len(mem)]
Bytes(s) == SubSeq(mem[s.array], s.offset + 1, s.offset + s.size)

(* The number of the first byte that the user has not been given. *)
Position == input - length + 1

Init ==
  /\ mem = <<[i \in 1..BufSize |-> 0]>>
  /\ idx = 0 /\ length = 0 /\ input = 0
  /\ last = NoSlice /\ kept = <<>> /\ alive = TRUE

-----------------------------------------------------------------------------
(***************************************************************************)
(* fill: unread bytes are moved to the beginning, in place; a new array is *)
(* made if the old one is too short for what is needed; then the rest is   *)
(* read, as much as arrives until at least need bytes are there.           *)
(***************************************************************************)
MovedNot == Buf  \* fault: unread bytes stay where they are

Moved == IF length > 0 /\ idx > 0
           THEN [i \in 1..Len(Buf) |-> IF i <= length THEN Buf[idx + i] ELSE Buf[i]]
           ELSE Buf

Grown(need) ==
  IF need > Len(Buf)
    THEN [i \in 1..((need \div BufSize) + 1) * BufSize |-> IF i <= Len(Buf) THEN Moved[i] ELSE 0]
    ELSE Moved

(* The array after n bytes are in it, of which length were there before. *)
Filled(need, n) ==
  [i \in 1..Len(Grown(need)) |->
     IF i \in length + 1..n THEN input + i - length ELSE Grown(need)[i]]

(* A longer array is a new one, beside the old one with its bytes moved;    *)
(* else the array is overwritten.                                           *)
Overwritten(a) == [mem EXCEPT ![Len(mem)] = a]

Assign(a) ==
  mem' = IF Len(a) > Len(Buf) THEN Append(Overwritten(Moved), a) ELSE Overwritten(a)

(* readNext with enough input in the buffer, and with a successful fill. *)
NextBuffered(need) ==
  /\ length >= need
  /\ UNCHANGED <<mem, input>>
  /\ last' = [array |-> Len(mem), offset |-> idx, size |-> need]
  /\ idx' = idx + need
  /\ length' = length - need

NextFilled(need) ==
  /\ length < need
  /\ \E n \in need..Len(Grown(need)) :
       /\ input + n - length <= MaxRead
       /\ Assign(Filled(need, n))
       /\ input' = input + n - length
       /\ length' = n - need
  /\ last' = [array |-> Len(mem'), offset |-> 0, size |-> need]
  /\ idx' = need

(* readPacket returns the slice, and Query appends it to its result. *)
ReadNext(need) ==
  /\ alive
  /\ NextBuffered(need) \/ NextFilled(need)
  /\ kept' = Append(kept, [slice |-> last', first |-> Position])
  /\ UNCHANGED alive

(* A read error, or the end of the input: what fill has read is lost, and   *)
(* the connection is closed.                                                *)
FillFails(need) ==
  /\ alive /\ length < need
  /\ \E n \in length..need - 1 :
       /\ input + n - length <= MaxRead
       /\ Assign(Filled(need, n))
  /\ idx' = 0
  /\ last' = NoSlice /\ kept' = <<>>
  /\ alive' = FALSE
  /\ UNCHANGED <<length, input>>

(***************************************************************************)
(* The reply has been sent on, and takeBuffer hands out the array for the  *)
(* next command, which overwrites its beginning; it refuses while there is *)
(* unread input.                                                           *)
(***************************************************************************)
Taken(size) ==
  IF size <= Len(Buf)
    THEN Overwritten([i \in 1..Len(Buf) |-> IF i <= size THEN 0 ELSE Buf[i]])
    ELSE Append(mem, [i \in 1..size |-> 0])

TakeBufferAnyway(size) ==  \* fault: b.length is not looked at
  /\ alive
  /\ mem' = Taken(size)
  /\ last' = NoSlice /\ kept' = <<>>
  /\ UNCHANGED <<idx, length, input, alive>>

TakeBuffer(size) ==
  /\ alive /\ length = 0
  /\ mem' = Taken(size)
  /\ last' = NoSlice /\ kept' = <<>>
  /\ UNCHANGED <<idx, length, input, alive>>

TakeRefused ==
  /\ alive /\ length > 0
  /\ last' = NoSlice /\ kept' = <<>>
  /\ UNCHANGED <<mem, idx, length, input, alive>>

Next ==
  \/ \E need \in 1..MaxNeed : ReadNext(need) \/ FillFails(need) \/ TakeBuffer(need)
  \/ TakeRefused

Spec == Init /\ [][Next]_vars

-----------------------------------------------------------------------------
(* Window and slice lie inside their arrays, also after the array was       *)
(* replaced by a longer one.                                                *)
TypeOK ==
  /\ mem # <<>> /\ \A i \in 1..Len(mem) : Len(mem[i]) >= BufSize
  /\ idx \in Nat /\ length \in Nat /\ input \in 0..MaxRead
  /\ length <= input /\ idx + length <= Len(Buf)
  /\ last.array \in 1..Len(mem) /\ last.offset + last.size <= Len(mem[last.array])
  /\ alive \in BOOLEAN

(* What is buffered and unread is the part of the input that comes next:    *)
(* moving, growing and lending out the array neither lose, repeat nor       *)
(* overwrite a byte of it.                                                  *)
UnreadInOrder == \A i \in 1..length : Buf[idx + i] = input - length + i

(* A reader of this buffer sees the byte stream, and the slice it got last  *)
(* is good until the buffer is used again.                                  *)
Stream == INSTANCE ByteStream WITH next <- Position, got <- Bytes(last)
ReadsTheStream == Stream!BSpec

(* The comment on readNext (buffer.go:95): a slice is only valid until the  *)
(* next read.  Query keeps the slices of all packets of a reply over the    *)
(* next reads: what it sends on must be what was read.                      *)
ReplyIntact ==
  \A k \in 1..Len(kept) :
    \A i \in 1..kept[k].slice.size : Bytes(kept[k].slice)[i] = kept[k].first + i - 1
=============================================================================
