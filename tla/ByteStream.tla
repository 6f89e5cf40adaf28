----------------------------- MODULE ByteStream -----------------------------
(***************************************************************************)
(* What a buffered reader promises: each read returns the next bytes of    *)
(* the stream, none missing, none twice, none out of order, and what it    *)
(* returned is good until the next use of the buffer.                      *)
(***************************************************************************)
EXTENDS Integers, Sequences

VARIABLES
  next,  \* number of the next byte of the stream
  got    \* the bytes the latest read returned, or <<>>

BInit == next = 1 /\ got = <<>>

Read ==
  /\ next' > next
  /\ got' = [i \in 1..next' - next |-> next + i - 1]

Release == got' = <<>> /\ UNCHANGED next

BNext == Read \/ Release

BSpec == BInit /\ [][BNext]_<<next, got>>
=============================================================================
