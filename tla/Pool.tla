-------------------------------- MODULE Pool --------------------------------
(***************************************************************************)
(* The connection pool of server/mysql_db.go: the MysqlDB object, its      *)
(* opener goroutine, and the client goroutines that borrow connections     *)
(* through getConn and give them back through putConn (server/client.go).  *)
(*                                                                         *)
(* getConn and putConn run under the mutex m.mu; the opener never takes    *)
(* it.  numOpen is therefore shared without a common lock: the opener's    *)
(* m.numOpen++ and putConn's m.numOpen-- are each a load followed by a     *)
(* store, and a store may overwrite the other side's update.               *)
(***************************************************************************)
EXTENDS Integers, Sequences, FiniteSets, Functions

CONSTANTS
  Clients,   \* client goroutines (handleClient)
  Conns,     \* identities a *mysqlConn can have
  MaxOpen,   \* m.maxOpen, the capacity of both channels
  MaxIdle,   \* m.maxIdle
  MaxTry,    \* the bound of getConn's retry loop (10 in the code)
  Lifetime,  \* TRUE iff m.maxLifetime > 0
  MaxOverlap,\* bound on the overlapping updates of m.numOpen in a behaviour
  NoConn,    \* the nil *mysqlConn
  NoClient   \* "m.mu is unlocked"

ASSUME PoolAssumption ==
  /\ IsFiniteSet(Clients)
  /\ MaxOpen \in Nat \ {0}
  /\ MaxIdle \in Nat
  /\ MaxTry \in Nat \ {0}
  /\ Lifetime \in BOOLEAN
  /\ MaxOverlap \in Nat
  /\ NoConn \notin Conns
  /\ NoClient \notin Clients

VARIABLES
  mu,        \* the holder of m.mu, or NoClient
  freeConn,  \* m.freeConn, a buffered channel of connections
  openCh,    \* number of tokens buffered in m.openCh
  tick,      \* TRUE iff a tick is buffered in m.tryTick.C
  numOpen,   \* m.numOpen
  boot,      \* tokens that Open has still to send
  opc,       \* where the opener goroutine is
  oconn,     \* the connection newConn has just established
  oseen,     \* the value the opener loaded for m.numOpen++
  pc,        \* where each client goroutine is
  op,        \* what it wants the connection for
  held,      \* the connection a handler has in its local variable conn
  stmt,      \* the connection of the client's prepared statement, c.stmt.mc
  can,       \* tokens maybeOpenNew has still to send
  try,       \* remaining attempts of getConn
  seen,      \* the value putConn loaded for m.numOpen--
  overlaps   \* history: loads of m.numOpen inside the other side's load-store

channels == <<freeConn, openCh, tick>>
openerVars == <<opc, oconn, oseen>>
locals == <<pc, op, held, stmt, can, try, seen>>
vars == <<mu, channels, numOpen, boot, openerVars, locals, overlaps>>

(* A *mysqlConn exists as long as some goroutine or the channel refers to it. *)
Referenced == Range(freeConn) \cup {oconn} \cup Range(held) \cup Range(stmt)

Init ==
  /\ mu = NoClient
  /\ freeConn = <<>> /\ openCh = 0 /\ tick = FALSE
  /\ numOpen = 0
  /\ boot = MaxIdle
  /\ opc = "recv" /\ oconn = NoConn /\ oseen = 0
  /\ pc = [c \in Clients |-> "idle"]
  /\ op = [c \in Clients |-> "query"]
  /\ held = [c \in Clients |-> NoConn]
  /\ stmt = [c \in Clients |-> NoConn]
  /\ can = [c \in Clients |-> 0]
  /\ try = [c \in Clients |-> 0]
  /\ seen = [c \in Clients |-> 0]
  /\ overlaps = 0

(***************************************************************************)
(* The load of an update of m.numOpen.  If the other side is between its   *)
(* own load and store, one of the two updates will be lost; MaxOverlap     *)
(* bounds how often this happens, and with MaxOverlap = 0 the updates are  *)
(* atomic.                                                                 *)
(***************************************************************************)
LoadNumOpen(otherInWindow) ==
  IF otherInWindow
    THEN overlaps < MaxOverlap /\ overlaps' = overlaps + 1
    ELSE UNCHANGED overlaps

-----------------------------------------------------------------------------
(* Open: maxIdle tokens are sent before the server accepts anybody. *)
OpenSend ==
  /\ boot > 0 /\ openCh < MaxOpen
  /\ openCh' = openCh + 1
  /\ boot' = boot - 1
  /\ UNCHANGED <<mu, freeConn, tick, numOpen, openerVars, locals, overlaps>>

(* The ticker's channel has room for one tick; further ticks are dropped. *)
TickerFires ==
  /\ ~tick
  /\ tick' = TRUE
  /\ UNCHANGED <<mu, freeConn, openCh, numOpen, boot, openerVars, locals, overlaps>>

-----------------------------------------------------------------------------
(* opener: one newConn per token, the result goes to m.freeConn.           *)
OpenerRecv ==
  /\ opc = "recv" /\ openCh > 0
  /\ openCh' = openCh - 1
  /\ opc' = "dial"
  /\ UNCHANGED <<mu, freeConn, tick, numOpen, boot, oconn, oseen, locals, overlaps>>

NewConnFails ==
  /\ opc = "dial"
  /\ opc' = "recv"
  /\ UNCHANGED <<mu, channels, numOpen, boot, oconn, oseen, locals, overlaps>>

(* newConn has a connection and loads m.numOpen for the increment. *)
NewConnLoad ==
  /\ opc = "dial"
  /\ Conns \ Referenced # {}
  /\ oconn' = CHOOSE k \in Conns \ Referenced : TRUE
  /\ oseen' = numOpen
  /\ opc' = "store"
  /\ LoadNumOpen(\E c \in Clients : pc[c] = "close")
  /\ UNCHANGED <<mu, channels, numOpen, boot, locals>>

NewConnStoreUncounted ==            \* fault: m.numOpen++ is forgotten
  /\ opc = "store"
  /\ oseen' = 0
  /\ opc' = "send"
  /\ UNCHANGED <<mu, channels, numOpen, boot, oconn, locals, overlaps>>

NewConnStore ==
  /\ opc = "store"
  /\ numOpen' = oseen + 1
  /\ oseen' = 0
  /\ opc' = "send"
  /\ UNCHANGED <<mu, channels, boot, oconn, locals, overlaps>>

OpenerSend ==
  /\ opc = "send" /\ Len(freeConn) < MaxOpen
  /\ freeConn' = Append(freeConn, oconn)
  /\ oconn' = NoConn
  /\ opc' = "recv"
  /\ UNCHANGED <<mu, openCh, tick, numOpen, boot, oseen, locals, overlaps>>

Opener == OpenerRecv \/ NewConnFails \/ NewConnLoad \/ NewConnStore \/ OpenerSend

-----------------------------------------------------------------------------
(* A handler calls getConn: "query" stands for handleQuery, handleFieldList *)
(* and useDB, which put the connection back; "prepare" for                  *)
(* handleStmtPrepare, which keeps it.                                       *)
Begin(c, o) ==
  /\ pc[c] = "idle" /\ boot = 0
  /\ op' = [op EXCEPT ![c] = o]
  /\ pc' = [pc EXCEPT ![c] = "lock"]
  /\ UNCHANGED <<mu, channels, numOpen, boot, openerVars, held, stmt, can, try, seen, overlaps>>

LockAndOrder(c, n) ==
  /\ pc[c] = "lock" /\ mu = NoClient
  /\ mu' = c
  /\ can' = [can EXCEPT ![c] = IF n > 0 THEN n ELSE 0]
  /\ try' = [try EXCEPT ![c] = MaxTry]
  /\ pc' = [pc EXCEPT ![c] = "get"]
  /\ UNCHANGED <<channels, numOpen, boot, openerVars, op, held, stmt, seen, overlaps>>

GetLockOrdersAll(c) == LockAndOrder(c, MaxOpen)                \* fault: m.numOpen ignored
GetLockOffByOne(c) == LockAndOrder(c, MaxOpen + 1 - numOpen)   \* fault: one too many

(* getConn takes m.mu and maybeOpenNew computes how many tokens to send. *)
GetLock(c) == LockAndOrder(c, MaxOpen - numOpen)

(* One token of maybeOpenNew; the send blocks while m.openCh is full. *)
MaybeOpenNew(c) ==
  /\ pc[c] = "get" /\ can[c] > 0 /\ openCh < MaxOpen
  /\ openCh' = openCh + 1
  /\ can' = [can EXCEPT ![c] = @ - 1]
  /\ UNCHANGED <<mu, freeConn, tick, numOpen, boot, openerVars, pc, op, held, stmt, try, seen, overlaps>>

(* The three outcomes of getConn's select, and the exhausted loop. *)
Selecting(c) == pc[c] = "get" /\ can[c] = 0

GetConn(c) ==
  /\ Selecting(c) /\ try[c] > 0 /\ freeConn # <<>>
  /\ freeConn' = Tail(freeConn)
  /\ held' = [held EXCEPT ![c] = Head(freeConn)]
  /\ mu' = NoClient
  /\ try' = [try EXCEPT ![c] = 0]
  /\ pc' = [pc EXCEPT ![c] = "use"]
  /\ UNCHANGED <<openCh, tick, numOpen, boot, openerVars, op, stmt, can, seen, overlaps>>

GetTickUnbounded(c) ==              \* fault: the loop does not look at try
  /\ Selecting(c) /\ tick
  /\ tick' = FALSE
  /\ try' = [try EXCEPT ![c] = @ - 1]
  /\ UNCHANGED <<mu, freeConn, openCh, numOpen, boot, openerVars, pc, op, held, stmt, can, seen, overlaps>>

GetTickForever(c) ==                \* fault: try-- is forgotten
  /\ Selecting(c) /\ try[c] > 0 /\ tick
  /\ tick' = FALSE
  /\ UNCHANGED <<mu, freeConn, openCh, numOpen, boot, openerVars, locals, overlaps>>

GetTick(c) ==
  /\ Selecting(c) /\ try[c] > 0 /\ tick
  /\ tick' = FALSE
  /\ try' = [try EXCEPT ![c] = @ - 1]
  /\ UNCHANGED <<mu, freeConn, openCh, numOpen, boot, openerVars, pc, op, held, stmt, can, seen, overlaps>>

(* getConn returns nil; the handler returns errCannotGetConn, which ends   *)
(* the client's session, and with it the reference c.stmt.                 *)
GetNil(c) ==
  /\ Selecting(c)
  /\ \/ try[c] = 0                                   \* loop exhausted
     \/ try[c] > 0 /\ freeConn = <<>> /\ ~tick       \* select default
  /\ mu' = NoClient
  /\ try' = [try EXCEPT ![c] = 0]
  /\ stmt' = [stmt EXCEPT ![c] = NoConn]
  /\ pc' = [pc EXCEPT ![c] = "idle"]
  /\ UNCHANGED <<channels, numOpen, boot, openerVars, op, held, can, seen, overlaps>>

-----------------------------------------------------------------------------
(* The handler talks to MySQL.  On an error it returns it, which ends the  *)
(* session; the deferred putConn runs either way.                          *)
QueryDone(c, ok) ==
  /\ pc[c] = "use" /\ op[c] = "query"
  /\ stmt' = IF ok THEN stmt ELSE [stmt EXCEPT ![c] = NoConn]
  /\ pc' = [pc EXCEPT ![c] = "put"]
  /\ UNCHANGED <<mu, channels, numOpen, boot, openerVars, op, held, can, try, seen, overlaps>>

(* handleStmtPrepare has no putConn: on success the connection stays with  *)
(* the new statement (the previous one's is dropped), on failure nothing   *)
(* refers to it any more.                                                  *)
PrepareDonePutsBack(c, ok) ==       \* fault: the commented-out defer putConn
  /\ pc[c] = "use" /\ op[c] = "prepare"
  /\ stmt' = [stmt EXCEPT ![c] = IF ok THEN held[c] ELSE NoConn]
  /\ pc' = [pc EXCEPT ![c] = "put"]
  /\ UNCHANGED <<mu, channels, numOpen, boot, openerVars, op, held, can, try, seen, overlaps>>

PrepareDone(c, ok) ==
  /\ pc[c] = "use" /\ op[c] = "prepare"
  /\ stmt' = [stmt EXCEPT ![c] = IF ok THEN held[c] ELSE NoConn]
  /\ held' = [held EXCEPT ![c] = NoConn]
  /\ pc' = [pc EXCEPT ![c] = "idle"]
  /\ UNCHANGED <<mu, channels, numOpen, boot, openerVars, op, can, try, seen, overlaps>>

(* handleStmtClose, or the end of the session: the statement's connection  *)
(* is dropped, not put back.                                               *)
StmtClosePutsBack(c) ==             \* fault: put back, but c.stmt = nil forgotten
  /\ pc[c] = "idle" /\ stmt[c] # NoConn /\ held[c] = NoConn
  /\ held' = [held EXCEPT ![c] = stmt[c]]
  /\ pc' = [pc EXCEPT ![c] = "put"]
  /\ UNCHANGED <<mu, channels, numOpen, boot, openerVars, op, stmt, can, try, seen, overlaps>>

StmtClose(c) ==
  /\ pc[c] = "idle" /\ stmt[c] # NoConn
  /\ stmt' = [stmt EXCEPT ![c] = NoConn]
  /\ UNCHANGED <<mu, channels, numOpen, boot, openerVars, pc, op, held, can, try, seen, overlaps>>

-----------------------------------------------------------------------------
(* putConn: the connection goes back to m.freeConn ...                     *)
PutConn(c) ==
  /\ pc[c] = "put" /\ mu = NoClient
  /\ Len(freeConn) < MaxOpen
  /\ freeConn' = Append(freeConn, held[c])
  /\ held' = [held EXCEPT ![c] = NoConn]
  /\ pc' = [pc EXCEPT ![c] = "idle"]
  /\ UNCHANGED <<mu, openCh, tick, numOpen, boot, openerVars, op, stmt, can, try, seen, overlaps>>

(* ... or is closed, because it is expired and more than maxIdle are open, *)
(* or because the channel is full; m.numOpen is loaded for the decrement.  *)
Expirable == Lifetime /\ MaxIdle < numOpen

PutLoad(c) ==
  /\ pc[c] = "put" /\ mu = NoClient
  /\ Expirable \/ Len(freeConn) = MaxOpen
  /\ mu' = c
  /\ seen' = [seen EXCEPT ![c] = numOpen]
  /\ pc' = [pc EXCEPT ![c] = "close"]
  /\ LoadNumOpen(opc = "store")
  /\ UNCHANGED <<channels, numOpen, boot, openerVars, op, held, stmt, can, try>>

PutStore(c) ==
  /\ pc[c] = "close"
  /\ numOpen' = seen[c] - 1
  /\ seen' = [seen EXCEPT ![c] = 0]
  /\ held' = [held EXCEPT ![c] = NoConn]
  /\ mu' = NoClient
  /\ pc' = [pc EXCEPT ![c] = "idle"]
  /\ UNCHANGED <<channels, boot, openerVars, op, stmt, can, try, overlaps>>

Client(c) ==
  \/ \E o \in {"query", "prepare"} : Begin(c, o)
  \/ GetLock(c) \/ MaybeOpenNew(c) \/ GetConn(c) \/ GetTick(c) \/ GetNil(c)
  \/ \E ok \in BOOLEAN : QueryDone(c, ok) \/ PrepareDone(c, ok)
  \/ StmtClose(c)
  \/ PutConn(c) \/ PutLoad(c) \/ PutStore(c)

Next == OpenSend \/ TickerFires \/ Opener \/ \E c \in Clients : Client(c)

Spec == Init /\ [][Next]_vars

(***************************************************************************)
(* Fairness.  Goroutines are scheduled, so a step that stays enabled is    *)
(* taken; a sync.Mutex in starvation mode serves its waiters in order, so  *)
(* Lock is strongly fair.  Nothing is assumed of the ticker, of how long a *)
(* handler keeps a connection, nor that newConn ends: the handshake has no *)
(* read timeout.                                                           *)
(***************************************************************************)
Fairness ==
  /\ WF_vars(OpenSend)
  /\ WF_vars(OpenerRecv \/ NewConnStore \/ OpenerSend)
  /\ \A c \in Clients :
       /\ SF_vars(GetLock(c))
       /\ WF_vars(MaybeOpenNew(c) \/ GetConn(c) \/ GetTick(c) \/ GetNil(c))
       /\ SF_vars(PutConn(c) \/ PutLoad(c))
       /\ WF_vars(PutStore(c))

FairSpec == Spec /\ Fairness

-----------------------------------------------------------------------------
(* The variables keep their shape: neither channel ever holds more than its *)
(* capacity, and getConn's loop never counts below zero.                    *)
TypeOK ==
  /\ mu \in Clients \cup {NoClient}
  /\ freeConn \in Seq(Conns) /\ Len(freeConn) <= MaxOpen
  /\ openCh \in 0..MaxOpen
  /\ tick \in BOOLEAN
  /\ numOpen \in Int
  /\ boot \in 0..MaxIdle
  /\ opc \in {"recv", "dial", "store", "send"}
  /\ oconn \in Conns \cup {NoConn} /\ oseen \in Int
  /\ pc \in [Clients -> {"idle", "lock", "get", "use", "put", "close"}]
  /\ op \in [Clients -> {"query", "prepare"}]
  /\ held \in [Clients -> Conns \cup {NoConn}]
  /\ stmt \in [Clients -> Conns \cup {NoConn}]
  /\ can \in [Clients -> Nat]
  /\ try \in [Clients -> 0..MaxTry]
  /\ seen \in [Clients -> Int]
  /\ overlaps \in 0..MaxOverlap

(* A connection is in one place only: being delivered by the opener, queued *)
(* once in m.freeConn, in the hands of one handler, or pinned by one        *)
(* client's statement.  Two sessions never talk on one MySQL connection.    *)
Exclusive ==
  /\ IsInjective(freeConn) /\ oconn \notin Range(freeConn)
  /\ \A c \in Clients : held[c] # NoConn =>
       /\ held[c] \notin Range(freeConn) /\ held[c] # oconn
       /\ \A d \in Clients : held[c] # stmt[d] /\ (held[c] = held[d] => c = d)
  /\ \A c \in Clients : stmt[c] # NoConn =>
       /\ stmt[c] \notin Range(freeConn) /\ stmt[c] # oconn
       /\ \A d \in Clients : stmt[c] = stmt[d] => c = d

(* Connections that exist and have been counted in m.numOpen. *)
Sending == IF opc = "send" THEN 1 ELSE 0
Holders == {c \in Clients : held[c] # NoConn}
Pinners == {c \in Clients : stmt[c] # NoConn}
Live == Len(freeConn) + Sending + Cardinality(Holders) + Cardinality(Pinners)

(* Connections that have been ordered, but not counted yet. *)
Dialing == IF opc \in {"dial", "store"} THEN 1 ELSE 0
Unsent == IF mu = NoClient THEN 0 ELSE can[mu]
Pending == openCh + Dialing + Unsent

(* m.numOpen never underestimates the open connections, but for one per     *)
(* update of it that was lost: getConn orders MaxOpen - numOpen new ones.   *)
Accounting == Live <= numOpen + overlaps

(* maybeOpenNew does not subtract the tokens already in m.openCh from what  *)
(* it orders; still the connections open or on order stay below twice the   *)
(* limit, plus the one being dialled, plus one per lost update.             *)
Overshoot == numOpen + Pending <= 2 * MaxOpen + 1 + overlaps

(* The opener waits for room in m.freeConn while the getConn that holds     *)
(* m.mu waits for room in m.openCh: putConn is locked out, and nobody can   *)
(* make room for either.  Without a lost update it cannot happen.           *)
CircularWait ==
  /\ opc = "send" /\ Len(freeConn) = MaxOpen
  /\ \E c \in Clients : pc[c] = "get" /\ can[c] > 0 /\ openCh = MaxOpen

NoCircularWait == overlaps = 0 => ~CircularWait

(* Every change of a connection's owner is one the ledger allows. *)
Ledger == INSTANCE ConnLedger WITH
  fresh <- {oconn} \ {NoConn}, pool <- Range(freeConn), using <- held, pinned <- stmt

KeepsLedger == Ledger!LSpec

(* MySQL answers the handshake of newConn, or its connection breaks.        *)
DialsEnd == []<>(opc # "dial")

(* As long as every newConn ends and no update of m.numOpen is lost,        *)
(* getConn and putConn return, whatever the other clients do with the       *)
(* connections they hold.  One MySQL that accepts and says nothing is       *)
(* enough to stop the opener, then a getConn at a full m.openCh, and with   *)
(* it everybody who needs m.mu.                                             *)
CallsReturn ==
  DialsEnd =>
    \A c \in Clients :
      pc[c] \in {"lock", "put"} ~> pc[c] \in {"use", "idle"} \/ overlaps > 0

-----------------------------------------------------------------------------
(* What a test of the repository expects of the pool. *)

(* test/main_test.go: Benchmark_Query runs queries concurrently and waits   *)
(* for all of them.  For that, getConn and putConn have to return whatever  *)
(* order the updates of m.numOpen come in.                                  *)
CallsAlwaysReturn ==
  DialsEnd => \A c \in Clients : pc[c] \in {"lock", "put"} ~> pc[c] \in {"use", "idle"}
=============================================================================
