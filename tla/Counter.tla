------------------------------ MODULE Counter ------------------------------
(***************************************************************************)
(* What a Counter (server/count.go) promises its user: Incr says yes at    *)
(* most Limit times more often than Decr was called, it says no only when  *)
(* the limit is reached, and Decr gives back what was granted.             *)
(***************************************************************************)
EXTENDS Naturals

CONSTANT Limit

VARIABLES
  size,  \* granted and not given back
  said   \* the answer of the latest Incr

CInit == size = 0 /\ said = TRUE

Grant == size < Limit /\ size' = size + 1 /\ said' = TRUE
Refuse == size = Limit /\ size' = size /\ said' = FALSE
GiveBack == size > 0 /\ size' = size - 1 /\ said' = said

CNext == Grant \/ Refuse \/ GiveBack

CSpec == CInit /\ [][CNext]_<<size, said>>
=============================================================================
