----------------------------- MODULE ConnLedger -----------------------------
(***************************************************************************)
(* What the connection pool promises about the ownership of a MySQL        *)
(* connection: a connection belongs to one party at a time, it changes     *)
(* hands only through the pool, and one that a prepared statement has      *)
(* pinned is given to nobody else while the statement lives.  How many     *)
(* connections there may be, who waits, and for how long is left open.     *)
(***************************************************************************)
EXTENDS FiniteSets, Functions

CONSTANTS Clients, Conns, NoConn

VARIABLES
  fresh,    \* the connections their creator has not handed over yet
  pool,     \* the connections anybody may be given
  using,    \* the connection each client is working with, or NoConn
  pinned    \* the connection each client's prepared statement owns, or NoConn

ledger == <<fresh, pool, using, pinned>>

Owned == fresh \cup pool \cup Range(using) \cup Range(pinned)

LInit ==
  /\ fresh = {} /\ pool = {}
  /\ using = [c \in Clients |-> NoConn]
  /\ pinned = [c \in Clients |-> NoConn]

(* A new connection is nobody else's. *)
Create(k) ==
  /\ k \notin Owned
  /\ fresh' = fresh \cup {k}
  /\ UNCHANGED <<pool, using, pinned>>

Deliver(k) ==
  /\ k \in fresh
  /\ fresh' = fresh \ {k}
  /\ pool' = pool \cup {k}
  /\ UNCHANGED <<using, pinned>>

Lend(c, k) ==
  /\ using[c] = NoConn /\ k \in pool
  /\ pool' = pool \ {k}
  /\ using' = [using EXCEPT ![c] = k]
  /\ UNCHANGED <<fresh, pinned>>

(* The connection goes back to the pool, or is closed. *)
GiveBack(c) ==
  /\ using[c] # NoConn
  /\ pool' \in {pool, pool \cup {using[c]}}
  /\ using' = [using EXCEPT ![c] = NoConn]
  /\ UNCHANGED <<fresh, pinned>>

(* The connection moves to the client's new statement; a previous          *)
(* statement's connection is given up.                                     *)
Pin(c) ==
  /\ using[c] # NoConn
  /\ pinned' = [pinned EXCEPT ![c] = using[c]]
  /\ using' = [using EXCEPT ![c] = NoConn]
  /\ UNCHANGED <<fresh, pool>>

(* The session ends, or its statement does: what they hold is given up, or *)
(* goes back to the pool.                                                  *)
Abandon(c) ==
  /\ using' \in {using, [using EXCEPT ![c] = NoConn]}
  /\ pinned' = [pinned EXCEPT ![c] = NoConn]
  /\ pool \subseteq pool'
  /\ pool' \subseteq pool \cup ({using[c], pinned[c]} \ {NoConn, using'[c]})
  /\ UNCHANGED fresh

LNext ==
  \/ \E k \in Conns : Create(k) \/ Deliver(k)
  \/ \E c \in Clients :
       (\E k \in Conns : Lend(c, k)) \/ GiveBack(c) \/ Pin(c) \/ Abandon(c)

LSpec == LInit /\ [][LNext]_ledger
=============================================================================
