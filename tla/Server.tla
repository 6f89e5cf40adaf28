------------------------------- MODULE Server -------------------------------
(***************************************************************************)
(* The accept loop of Run and the life of the handleClient goroutines      *)
(* (server/server.go), with the ChanCount that limits them                 *)
(* (server/count.go).  What happens inside a session is module Session.    *)
(***************************************************************************)
EXTENDS Naturals, FiniteSets

CONSTANTS
  Conns,   \* TCP connections of clients
  Max,     \* maxClient, after SetMax has replaced a value <= 0
  None     \* no connection

ASSUME ServerAssumption ==
  /\ IsFiniteSet(Conns)
  /\ Max \in Nat \ {0}
  /\ None \notin Conns

VARIABLES
  running,  \* the process has not been told to exit
  stage,    \* where each connection is
  cur,      \* the connection the accept loop works on
  slots,    \* len(c.ch)
  said,     \* the answer of the latest Incr
  there     \* connections whose client has not hung up

vars == <<running, stage, cur, slots, said, there>>

(* Where a connection can be: not connected; connected, and in the kernel's *)
(* backlog; returned by AcceptTCP; to be refused; to get its goroutine; in  *)
(* Handshake; in Accept; past its session; past Decr.                       *)
Stages == {"out", "backlog", "accepted", "refused", "granted",
           "handshake", "serving", "returned", "released"}

(* Between a successful Incr and its Decr. *)
Holding == {c \in Conns : stage[c] \in {"granted", "handshake", "serving", "returned"}}

Init ==
  /\ running = TRUE
  /\ stage = [c \in Conns |-> "out"]
  /\ cur = None
  /\ slots = 0 /\ said = TRUE
  /\ there = {}

Go(c, from, to) ==
  /\ running
  /\ stage[c] = from
  /\ stage' = [stage EXCEPT ![c] = to]

-----------------------------------------------------------------------------
(* The clients: the kernel completes the connection before the server does *)
(* anything, and a client may hang up whenever it likes.                   *)
Connect(c) ==
  /\ Go(c, "out", "backlog")
  /\ c \notin there
  /\ there' = there \cup {c}
  /\ UNCHANGED <<running, cur, slots, said>>

HangUp(c) ==
  /\ running
  /\ c \in there
  /\ there' = there \ {c}
  /\ UNCHANGED <<running, stage, cur, slots, said>>

-----------------------------------------------------------------------------
(* The loop of Run.  An error of AcceptTCP changes nothing.                 *)
AcceptTCP(c) ==
  /\ cur = None
  /\ Go(c, "backlog", "accepted")
  /\ cur' = c
  /\ UNCHANGED <<running, slots, said, there>>

(* Incr sends to the channel if there is room, and never waits for it.      *)
IncrWaits(c) ==  \* fault: as the comments on Counter and ChanCount have it
  /\ slots < Max
  /\ Go(c, "accepted", "granted")
  /\ slots' = slots + 1 /\ said' = TRUE
  /\ UNCHANGED <<running, cur, there>>

Incr(c) ==
  /\ Go(c, "accepted", IF slots < Max THEN "granted" ELSE "refused")
  /\ slots' = IF slots < Max THEN slots + 1 ELSE slots
  /\ said' = (slots < Max)
  /\ UNCHANGED <<running, cur, there>>

(* Without a slot: conn.Close, and on to the next.                          *)
RefuseReleases(c) ==  \* fault: the refused connection gives back a slot
  /\ Go(c, "refused", "out")
  /\ cur' = None
  /\ slots' = slots - 1
  /\ UNCHANGED <<running, said, there>>

RefuseConn(c) ==
  /\ Go(c, "refused", "out")
  /\ cur' = None
  /\ UNCHANGED <<running, slots, said, there>>

(* With one: go s.handleClient(conn).                                       *)
Spawn(c) ==
  /\ Go(c, "granted", "handshake")
  /\ cur' = None
  /\ UNCHANGED <<running, slots, said, there>>

AcceptLoop == \E c \in Conns : AcceptTCP(c) \/ Incr(c) \/ RefuseConn(c) \/ Spawn(c)

-----------------------------------------------------------------------------
(* handleClient *)
Handshake(c) ==
  /\ \/ Go(c, "handshake", "serving")
     \/ Go(c, "handshake", "returned")
  /\ UNCHANGED <<running, cur, slots, said, there>>

(* The loop around Accept ends with COM_QUIT, with an error, or with a      *)
(* panic, which PrintPanicStack recovers.                                   *)
SessionReturns(c) ==
  /\ Go(c, "serving", "returned")
  /\ UNCHANGED <<running, cur, slots, said, there>>

(* The deferred function: the slot first.  Decr receives from the channel,  *)
(* and would block on an empty one.                                         *)
DecrTwice(c) ==  \* fault: the session's end gives the slot back as well
  /\ slots > 0
  /\ Go(c, "returned", "released")
  /\ slots' = IF slots > 1 THEN slots - 2 ELSE 0
  /\ UNCHANGED <<running, cur, said, there>>

DecrForgotten(c) ==  \* fault: an early return before the defer statement
  /\ Go(c, "returned", "released")
  /\ UNCHANGED <<running, cur, slots, said, there>>

Decr(c) ==
  /\ slots > 0
  /\ Go(c, "returned", "released")
  /\ slots' = slots - 1
  /\ UNCHANGED <<running, cur, said, there>>

(* ... and then the connection. *)
CloseConn(c) ==
  /\ Go(c, "released", "out")
  /\ UNCHANGED <<running, cur, slots, said, there>>

HandleClient(c) == Handshake(c) \/ SessionReturns(c) \/ Decr(c) \/ CloseConn(c)

(* The goroutine of signal: os.Exit, with whatever is going on.             *)
Signal ==
  /\ running
  /\ running' = FALSE
  /\ stage' = [c \in Conns |-> "out"]
  /\ cur' = None /\ slots' = 0
  /\ UNCHANGED <<said, there>>

Next ==
  \/ \E c \in Conns : Connect(c) \/ HangUp(c)
  \/ AcceptLoop
  \/ \E c \in Conns : HandleClient(c)
  \/ Signal

Spec == Init /\ [][Next]_vars

(* The accept loop runs: of several connections in the backlog each gets    *)
(* its turn.  The deferred function runs.  Nothing makes a session end.     *)
Fairness ==
  /\ WF_vars(AcceptLoop)
  /\ \A c \in Conns : SF_vars(AcceptTCP(c)) /\ WF_vars(Decr(c) \/ CloseConn(c))

FairSpec == Spec /\ Fairness

-----------------------------------------------------------------------------
(* The accept loop works on one connection, and the channel holds no more   *)
(* than its capacity.                                                       *)
TypeOK ==
  /\ running \in BOOLEAN
  /\ stage \in [Conns -> Stages]
  /\ cur \in Conns \cup {None}
  /\ slots \in 0..Max
  /\ said \in BOOLEAN
  /\ there \subseteq Conns
  /\ \A c \in Conns : stage[c] \in {"accepted", "refused", "granted"} <=> cur = c

(* The counter counts the connections that were let in and whose goroutine  *)
(* has not come to Decr: no slot is lost on any way out of handleClient,    *)
(* and Decr never waits on an empty channel.                                *)
SlotsHeld == slots = Cardinality(Holding)

(* No more than maxClient clients are in service at a time.                 *)
AtMostMax == Cardinality({c \in Conns : stage[c] \in {"handshake", "serving"}}) <= Max

(* The server uses its counter as a Counter is to be used, and gets from it *)
(* what a Counter promises, up to the exit of the process.                  *)
Promise == INSTANCE Counter WITH Limit <- Max, size <- slots, said <- said
KeepsCounter == [][running' => Promise!CNext]_<<slots, said>>

(* A client that connects is let in or turned away, however long the        *)
(* clients that were let in before it stay: the accept loop never waits for *)
(* a slot.                                                                  *)
Dealt(c) == stage[c] \in {"handshake", "serving", "out"}
EveryoneDealtWith == \A c \in Conns : (stage[c] = "backlog") ~> Dealt(c)

(* The premise: the session of a client that has hung up returns.  It does  *)
(* if the command it is at does (SessionEnds of Session); a handler that    *)
(* waits for ever, for the pool or for MySQL, never looks at its client.    *)
SessionOver(c) == []<>(c \in there \/ stage[c] \notin {"handshake", "serving"})

(* A slot is free again when the session of a client that has hung up is    *)
(* over, whatever becomes of the other sessions: its goroutine comes to     *)
(* Decr, and Decr never waits for ever on an empty channel.                 *)
SlotsComeBack ==
  \A c \in Conns : SessionOver(c) => ((c \in Holding /\ c \notin there) ~> (c \notin Holding))
=============================================================================
