----------------------------- MODULE PoolProofs -----------------------------
(***************************************************************************)
(* Proofs about the pool, for every number of clients, connections and     *)
(* channel slots.  First the ownership of connections: the type invariant, *)
(* the exclusive ownership of every connection, and the refinement of the  *)
(* ledger.  Then m.numOpen: it is a sound count of the open connections    *)
(* but for lost updates, the connections open or on order are bounded, and *)
(* the opener and getConn do not block each other as long as no update is  *)
(* lost.                                                                   *)
(***************************************************************************)
EXTENDS Pool, SequenceTheorems, FiniteSetTheorems, TLAPS

(* A client is inside the critical section iff it holds m.mu. *)
LockInv == \A c \in Clients : mu = c <=> pc[c] \in {"get", "close"}

(* What a goroutine's position says of the connection in its hands. *)
PlaceInv ==
  /\ oconn # NoConn <=> opc \in {"store", "send"}
  /\ \A c \in Clients :
       /\ held[c] # NoConn <=> pc[c] \in {"use", "put", "close"}
       /\ pc[c] # "get" => can[c] = 0

(* The inductive invariant: exclusive ownership needs to know that a        *)
(* handler or the opener with a connection is where it gives it away, and   *)
(* that only the holder of m.mu has tokens left to send.                    *)
OwnInv == TypeOK /\ LockInv /\ PlaceInv /\ Exclusive

(* A send on a channel adds the value to what the channel contains. *)
LEMMA RangeAppend ==
  ASSUME NEW S, NEW s \in Seq(S), NEW e \in S
  PROVE  /\ Append(s, e) \in Seq(S) /\ Len(Append(s, e)) = Len(s) + 1
         /\ Range(Append(s, e)) = Range(s) \cup {e}
         /\ IsInjective(s) /\ e \notin Range(s) => IsInjective(Append(s, e))
<1> DEFINE t == Append(s, e)
<1>1. /\ t \in Seq(S) /\ Len(t) = Len(s) + 1
      /\ \A i \in 1..Len(s) : t[i] = s[i]
      /\ t[Len(s) + 1] = e
  BY AppendProperties
<1>2. DOMAIN s = 1..Len(s) /\ DOMAIN t = 1..(Len(s) + 1) /\ Len(s) \in Nat
  BY <1>1
<1> HIDE DEF t
<1>3. Range(t) = Range(s) \cup {e}
  <2>1. Range(t) \subseteq Range(s) \cup {e}
    BY <1>1, <1>2 DEF Range
  <2>2. Range(s) \cup {e} \subseteq Range(t)
    BY <1>1, <1>2 DEF Range
  <2> QED BY <2>1, <2>2
<1>4. IsInjective(s) /\ e \notin Range(s) => IsInjective(t)
  BY <1>1, <1>2 DEF Range, IsInjective
<1> QED BY <1>1, <1>3, <1>4 DEF t

(* A receive takes the oldest value out of the channel. *)
LEMMA RangeTail ==
  ASSUME NEW S, NEW s \in Seq(S), s # <<>>
  PROVE  /\ Tail(s) \in Seq(S) /\ Len(Tail(s)) = Len(s) - 1
         /\ Head(s) \in S
         /\ Range(s) = Range(Tail(s)) \cup {Head(s)}
         /\ IsInjective(s) => IsInjective(Tail(s)) /\ Head(s) \notin Range(Tail(s))
<1> DEFINE t == Tail(s)
<1>1. /\ t \in Seq(S) /\ Len(t) = Len(s) - 1 /\ Len(s) \in Nat \ {0}
      /\ \A i \in 1..Len(t) : t[i] = s[i + 1]
      /\ Head(s) = s[1] /\ Head(s) \in S
  BY HeadTailProperties, EmptySeq
<1>2. DOMAIN s = 1..Len(s) /\ DOMAIN t = 1..(Len(s) - 1)
  BY <1>1
<1> HIDE DEF t
<1>3. Range(s) = Range(t) \cup {Head(s)}
  <2>1. ASSUME NEW i \in 1..Len(s) PROVE s[i] \in Range(t) \cup {Head(s)}
    <3>1. CASE i = 1
      BY <3>1, <1>1
    <3>2. CASE i # 1
      <4>1. i - 1 \in DOMAIN t /\ t[i - 1] = s[i]
        BY <3>2, <1>1, <1>2
      <4> QED BY <4>1 DEF Range
    <3> QED BY <3>1, <3>2
  <2>2. Range(t) \cup {Head(s)} \subseteq Range(s)
    BY <1>1, <1>2 DEF Range
  <2> QED BY <1>2, <2>1, <2>2 DEF Range
<1>4. IsInjective(s) => IsInjective(t) /\ Head(s) \notin Range(t)
  <2> SUFFICES ASSUME IsInjective(s) PROVE IsInjective(t) /\ Head(s) \notin Range(t)
    OBVIOUS
  <2>1. \A i \in DOMAIN t : i + 1 \in DOMAIN s /\ t[i] = s[i + 1] /\ i + 1 # 1
    BY <1>1, <1>2
  <2> QED BY <2>1, <1>1, <1>2 DEF Range, IsInjective
<1> QED BY <1>1, <1>3, <1>4 DEF t

-----------------------------------------------------------------------------
(* Open leaves the pool empty and every goroutine without a connection. *)
LEMMA OwnInvInit == Init => OwnInv
<1> SUFFICES ASSUME Init PROVE OwnInv
  OBVIOUS
<1>1. /\ freeConn \in Seq(Conns) /\ Len(freeConn) = 0
      /\ Range(freeConn) = {} /\ IsInjective(freeConn)
  <2>1. freeConn = <<>> /\ DOMAIN freeConn = {}
    BY DEF Init
  <2>2. Len(freeConn) = 0 /\ freeConn \in Seq(Conns)
    BY <2>1, EmptySeq
  <2> QED BY <2>1, <2>2 DEF Range, IsInjective
<1>2. TypeOK
  <2>1. /\ openCh \in 0..MaxOpen /\ boot \in 0..MaxIdle /\ overlaps \in 0..MaxOverlap
        /\ numOpen \in Int /\ oseen \in Int /\ Len(freeConn) <= MaxOpen
    BY <1>1, PoolAssumption DEF Init
  <2>2. try \in [Clients -> 0..MaxTry]
    BY PoolAssumption DEF Init
  <2> QED BY <1>1, <2>1, <2>2 DEF Init, TypeOK
<1>3. LockInv /\ PlaceInv
  BY PoolAssumption DEF Init, LockInv, PlaceInv
<1>4. Exclusive
  BY <1>1 DEF Init, Exclusive
<1> QED BY <1>2, <1>3, <1>4 DEF OwnInv

(* Types are preserved by every step. *)
LEMMA TypeNext == OwnInv /\ [Next]_vars => TypeOK'
<1> SUFFICES ASSUME OwnInv, [Next]_vars PROVE TypeOK'
  OBVIOUS
<1>1. CASE OpenSend
  BY <1>1, PoolAssumption DEF OpenSend, channels, openerVars, locals, OwnInv, TypeOK, PlaceInv
<1>2. CASE TickerFires
  BY <1>2, PoolAssumption DEF TickerFires, channels, openerVars, locals, OwnInv, TypeOK, PlaceInv
<1>3. CASE OpenerRecv
  BY <1>3, PoolAssumption DEF OpenerRecv, channels, openerVars, locals, OwnInv, TypeOK, PlaceInv
<1>4. CASE NewConnFails
  BY <1>4, PoolAssumption DEF NewConnFails, channels, openerVars, locals, OwnInv, TypeOK, PlaceInv
<1>5. CASE NewConnLoad
  BY <1>5, PoolAssumption DEF NewConnLoad, LoadNumOpen, channels, openerVars, locals, OwnInv, TypeOK, PlaceInv
<1>6. CASE NewConnStore
  BY <1>6, PoolAssumption DEF NewConnStore, channels, openerVars, locals, OwnInv, TypeOK, PlaceInv
<1>7. CASE OpenerSend
  BY <1>7, PoolAssumption, RangeAppend DEF OpenerSend, channels, openerVars, locals, OwnInv, TypeOK, PlaceInv
<1>8. ASSUME NEW c \in Clients, NEW o \in {"query", "prepare"}, Begin(c, o) PROVE TypeOK'
  BY <1>8, PoolAssumption DEF Begin, channels, openerVars, locals, OwnInv, TypeOK, PlaceInv
<1>9. ASSUME NEW c \in Clients, GetLock(c) PROVE TypeOK'
  BY <1>9, PoolAssumption DEF GetLock, LockAndOrder, channels, openerVars, locals, OwnInv, TypeOK, PlaceInv
<1>10. ASSUME NEW c \in Clients, MaybeOpenNew(c) PROVE TypeOK'
  BY <1>10, PoolAssumption DEF MaybeOpenNew, channels, openerVars, locals, OwnInv, TypeOK, PlaceInv
<1>11. ASSUME NEW c \in Clients, GetConn(c) PROVE TypeOK'
  BY <1>11, PoolAssumption, RangeTail DEF GetConn, Selecting, channels, openerVars, locals, OwnInv, TypeOK, PlaceInv
<1>12. ASSUME NEW c \in Clients, GetTick(c) PROVE TypeOK'
  <2>1. try[c] - 1 \in 0..MaxTry
    BY <1>12, PoolAssumption DEF GetTick, OwnInv, TypeOK
  <2>2. try' \in [Clients -> 0..MaxTry]
    BY <1>12, <2>1 DEF GetTick, OwnInv, TypeOK
  <2> QED
    BY <1>12, <2>2, PoolAssumption DEF GetTick, channels, openerVars, locals, OwnInv, TypeOK
<1>13. ASSUME NEW c \in Clients, GetNil(c) PROVE TypeOK'
  BY <1>13, PoolAssumption DEF GetNil, Selecting, channels, openerVars, locals, OwnInv, TypeOK, PlaceInv
<1>14. ASSUME NEW c \in Clients, NEW ok \in BOOLEAN, QueryDone(c, ok) PROVE TypeOK'
  BY <1>14, PoolAssumption DEF QueryDone, channels, openerVars, locals, OwnInv, TypeOK, PlaceInv
<1>15. ASSUME NEW c \in Clients, NEW ok \in BOOLEAN, PrepareDone(c, ok) PROVE TypeOK'
  BY <1>15, PoolAssumption DEF PrepareDone, channels, openerVars, locals, OwnInv, TypeOK, PlaceInv
<1>16. ASSUME NEW c \in Clients, StmtClose(c) PROVE TypeOK'
  BY <1>16, PoolAssumption DEF StmtClose, channels, openerVars, locals, OwnInv, TypeOK, PlaceInv
<1>17. ASSUME NEW c \in Clients, PutConn(c) PROVE TypeOK'
  BY <1>17, PoolAssumption, RangeAppend DEF PutConn, channels, openerVars, locals, OwnInv, TypeOK, PlaceInv
<1>18. ASSUME NEW c \in Clients, PutLoad(c) PROVE TypeOK'
  BY <1>18, PoolAssumption DEF PutLoad, LoadNumOpen, channels, openerVars, locals, OwnInv, TypeOK, PlaceInv
<1>19. ASSUME NEW c \in Clients, PutStore(c) PROVE TypeOK'
  BY <1>19, PoolAssumption DEF PutStore, channels, openerVars, locals, OwnInv, TypeOK, PlaceInv
<1>20. CASE UNCHANGED vars
  BY <1>20 DEF vars, channels, openerVars, locals, OwnInv, TypeOK
<1>21. CASE Opener
  BY <1>21, <1>3, <1>4, <1>5, <1>6, <1>7 DEF Opener
<1>22. ASSUME NEW c \in Clients, Client(c) PROVE TypeOK'
  BY <1>22, <1>8, <1>9, <1>10, <1>11, <1>12, <1>13, <1>14, <1>15, <1>16, <1>17, <1>18, <1>19 DEF Client
<1> QED
  BY <1>1, <1>2, <1>20, <1>21, <1>22 DEF Next

(* Who holds m.mu, and who a connection, stays a matter of position. *)
LEMMA PlaceNext == OwnInv /\ [Next]_vars => (LockInv /\ PlaceInv)'
<1> SUFFICES ASSUME OwnInv, [Next]_vars PROVE (LockInv /\ PlaceInv)'
  OBVIOUS
<1>1. CASE OpenSend
  BY <1>1, PoolAssumption DEF OpenSend, channels, openerVars, locals, OwnInv, TypeOK, LockInv, PlaceInv
<1>2. CASE TickerFires
  BY <1>2, PoolAssumption DEF TickerFires, channels, openerVars, locals, OwnInv, TypeOK, LockInv, PlaceInv
<1>3. CASE OpenerRecv
  BY <1>3, PoolAssumption DEF OpenerRecv, channels, openerVars, locals, OwnInv, TypeOK, LockInv, PlaceInv
<1>4. CASE NewConnFails
  BY <1>4, PoolAssumption DEF NewConnFails, channels, openerVars, locals, OwnInv, TypeOK, LockInv, PlaceInv
<1>5. CASE NewConnLoad
  BY <1>5, PoolAssumption DEF NewConnLoad, channels, openerVars, locals, OwnInv, TypeOK, LockInv, PlaceInv
<1>6. CASE NewConnStore
  BY <1>6, PoolAssumption DEF NewConnStore, channels, openerVars, locals, OwnInv, TypeOK, LockInv, PlaceInv
<1>7. CASE OpenerSend
  BY <1>7, PoolAssumption DEF OpenerSend, channels, openerVars, locals, OwnInv, TypeOK, LockInv, PlaceInv
<1>8. ASSUME NEW c \in Clients, NEW o \in {"query", "prepare"}, Begin(c, o) PROVE (LockInv /\ PlaceInv)'
  BY <1>8, PoolAssumption DEF Begin, channels, openerVars, locals, OwnInv, TypeOK, LockInv, PlaceInv
<1>9. ASSUME NEW c \in Clients, GetLock(c) PROVE (LockInv /\ PlaceInv)'
  BY <1>9, PoolAssumption DEF GetLock, LockAndOrder, channels, openerVars, locals, OwnInv, TypeOK, LockInv, PlaceInv
<1>10. ASSUME NEW c \in Clients, MaybeOpenNew(c) PROVE (LockInv /\ PlaceInv)'
  BY <1>10, PoolAssumption DEF MaybeOpenNew, channels, openerVars, locals, OwnInv, TypeOK, LockInv, PlaceInv
<1>11. ASSUME NEW c \in Clients, GetConn(c) PROVE (LockInv /\ PlaceInv)'
  BY <1>11, PoolAssumption DEF GetConn, Selecting, channels, openerVars, locals, OwnInv, TypeOK, LockInv, PlaceInv
<1>12. ASSUME NEW c \in Clients, GetTick(c) PROVE (LockInv /\ PlaceInv)'
  BY <1>12, PoolAssumption DEF GetTick, Selecting, channels, openerVars, locals, OwnInv, TypeOK, LockInv, PlaceInv
<1>13. ASSUME NEW c \in Clients, GetNil(c) PROVE (LockInv /\ PlaceInv)'
  BY <1>13, PoolAssumption DEF GetNil, Selecting, channels, openerVars, locals, OwnInv, TypeOK, LockInv, PlaceInv
<1>14. ASSUME NEW c \in Clients, NEW ok \in BOOLEAN, QueryDone(c, ok) PROVE (LockInv /\ PlaceInv)'
  BY <1>14, PoolAssumption DEF QueryDone, channels, openerVars, locals, OwnInv, TypeOK, LockInv, PlaceInv
<1>15. ASSUME NEW c \in Clients, NEW ok \in BOOLEAN, PrepareDone(c, ok) PROVE (LockInv /\ PlaceInv)'
  BY <1>15, PoolAssumption DEF PrepareDone, channels, openerVars, locals, OwnInv, TypeOK, LockInv, PlaceInv
<1>16. ASSUME NEW c \in Clients, StmtClose(c) PROVE (LockInv /\ PlaceInv)'
  BY <1>16, PoolAssumption DEF StmtClose, channels, openerVars, locals, OwnInv, TypeOK, LockInv, PlaceInv
<1>17. ASSUME NEW c \in Clients, PutConn(c) PROVE (LockInv /\ PlaceInv)'
  BY <1>17, PoolAssumption DEF PutConn, channels, openerVars, locals, OwnInv, TypeOK, LockInv, PlaceInv
<1>18. ASSUME NEW c \in Clients, PutLoad(c) PROVE (LockInv /\ PlaceInv)'
  BY <1>18, PoolAssumption DEF PutLoad, channels, openerVars, locals, OwnInv, TypeOK, LockInv, PlaceInv
<1>19. ASSUME NEW c \in Clients, PutStore(c) PROVE (LockInv /\ PlaceInv)'
  BY <1>19, PoolAssumption DEF PutStore, channels, openerVars, locals, OwnInv, TypeOK, LockInv, PlaceInv
<1>20. CASE UNCHANGED vars
  BY <1>20 DEF vars, channels, openerVars, locals, OwnInv, LockInv, PlaceInv
<1>21. CASE Opener
  BY <1>21, <1>3, <1>4, <1>5, <1>6, <1>7 DEF Opener
<1>22. ASSUME NEW c \in Clients, Client(c) PROVE (LockInv /\ PlaceInv)'
  BY <1>22, <1>8, <1>9, <1>10, <1>11, <1>12, <1>13, <1>14, <1>15, <1>16, <1>17, <1>18, <1>19 DEF Client
<1> QED
  BY <1>1, <1>2, <1>20, <1>21, <1>22 DEF Next

(* No step puts a connection into a second place. *)
LEMMA ExclusiveNext == OwnInv /\ [Next]_vars => Exclusive'
<1> SUFFICES ASSUME OwnInv, [Next]_vars PROVE Exclusive'
  OBVIOUS
<1>1. CASE OpenSend
  BY <1>1, PoolAssumption DEF OpenSend, channels, openerVars, locals, OwnInv, TypeOK, PlaceInv, Exclusive
<1>2. CASE TickerFires
  BY <1>2, PoolAssumption DEF TickerFires, channels, openerVars, locals, OwnInv, TypeOK, PlaceInv, Exclusive
<1>3. CASE OpenerRecv
  BY <1>3, PoolAssumption DEF OpenerRecv, channels, openerVars, locals, OwnInv, TypeOK, PlaceInv, Exclusive
<1>4. CASE NewConnFails
  BY <1>4, PoolAssumption DEF NewConnFails, channels, openerVars, locals, OwnInv, TypeOK, PlaceInv, Exclusive
<1>5. CASE NewConnLoad
  <2>1. oconn' \in Conns /\ oconn' \notin Referenced
    BY <1>5 DEF NewConnLoad
  <2>2. oconn' \notin Range(freeConn)
    BY <2>1 DEF Referenced
  <2>3. \A c \in Clients : oconn' # held[c] /\ oconn' # stmt[c]
    BY <2>1 DEF Referenced, Range, OwnInv, TypeOK
  <2> QED
    BY <1>5, <2>2, <2>3 DEF NewConnLoad, channels, locals, OwnInv, Exclusive
<1>6. CASE NewConnStore
  BY <1>6, PoolAssumption DEF NewConnStore, channels, openerVars, locals, OwnInv, TypeOK, PlaceInv, Exclusive
<1>7. CASE OpenerSend
  <2>1. oconn \in Conns /\ oconn # NoConn
    BY <1>7 DEF OpenerSend, OwnInv, TypeOK, PlaceInv
  <2>2. Range(freeConn') = Range(freeConn) \cup {oconn} /\ IsInjective(freeConn')
    BY <1>7, <2>1, RangeAppend DEF OpenerSend, OwnInv, TypeOK, Exclusive
  <2>3. oconn' = NoConn /\ NoConn \notin Range(freeConn')
    BY <1>7, <2>1, <2>2, PoolAssumption DEF OpenerSend, OwnInv, TypeOK, Range
  <2> QED
    BY <1>7, <2>1, <2>2, <2>3 DEF OpenerSend, locals, OwnInv, Exclusive
<1>8. ASSUME NEW c \in Clients, NEW o \in {"query", "prepare"}, Begin(c, o) PROVE Exclusive'
  BY <1>8, PoolAssumption DEF Begin, channels, openerVars, locals, OwnInv, TypeOK, PlaceInv, Exclusive
<1>9. ASSUME NEW c \in Clients, GetLock(c) PROVE Exclusive'
  BY <1>9, PoolAssumption DEF GetLock, LockAndOrder, channels, openerVars, locals, OwnInv, TypeOK, PlaceInv, Exclusive
<1>10. ASSUME NEW c \in Clients, MaybeOpenNew(c) PROVE Exclusive'
  BY <1>10, PoolAssumption DEF MaybeOpenNew, channels, openerVars, locals, OwnInv, TypeOK, PlaceInv, Exclusive
<1>11. ASSUME NEW c \in Clients, GetConn(c) PROVE Exclusive'
  BY <1>11, PoolAssumption, RangeTail DEF GetConn, Selecting, channels, openerVars, locals, OwnInv, TypeOK, PlaceInv, Exclusive
<1>12. ASSUME NEW c \in Clients, GetTick(c) PROVE Exclusive'
  BY <1>12, PoolAssumption DEF GetTick, Selecting, channels, openerVars, locals, OwnInv, TypeOK, PlaceInv, Exclusive
<1>13. ASSUME NEW c \in Clients, GetNil(c) PROVE Exclusive'
  BY <1>13, PoolAssumption DEF GetNil, Selecting, channels, openerVars, locals, OwnInv, TypeOK, PlaceInv, Exclusive
<1>14. ASSUME NEW c \in Clients, NEW ok \in BOOLEAN, QueryDone(c, ok) PROVE Exclusive'
  BY <1>14, PoolAssumption DEF QueryDone, channels, openerVars, locals, OwnInv, TypeOK, PlaceInv, Exclusive
<1>15. ASSUME NEW c \in Clients, NEW ok \in BOOLEAN, PrepareDone(c, ok) PROVE Exclusive'
  BY <1>15, PoolAssumption DEF PrepareDone, channels, openerVars, locals, OwnInv, TypeOK, PlaceInv, Exclusive
<1>16. ASSUME NEW c \in Clients, StmtClose(c) PROVE Exclusive'
  BY <1>16, PoolAssumption DEF StmtClose, channels, openerVars, locals, OwnInv, TypeOK, PlaceInv, Exclusive
<1>17. ASSUME NEW c \in Clients, PutConn(c) PROVE Exclusive'
  BY <1>17, PoolAssumption, RangeAppend DEF PutConn, channels, openerVars, locals, OwnInv, TypeOK, PlaceInv, Exclusive
<1>18. ASSUME NEW c \in Clients, PutLoad(c) PROVE Exclusive'
  BY <1>18, PoolAssumption DEF PutLoad, channels, openerVars, locals, OwnInv, TypeOK, PlaceInv, Exclusive
<1>19. ASSUME NEW c \in Clients, PutStore(c) PROVE Exclusive'
  BY <1>19, PoolAssumption DEF PutStore, channels, openerVars, locals, OwnInv, TypeOK, PlaceInv, Exclusive
<1>20. CASE UNCHANGED vars
  BY <1>20 DEF vars, channels, openerVars, locals, OwnInv, Exclusive
<1>21. CASE Opener
  BY <1>21, <1>3, <1>4, <1>5, <1>6, <1>7 DEF Opener
<1>22. ASSUME NEW c \in Clients, Client(c) PROVE Exclusive'
  BY <1>22, <1>8, <1>9, <1>10, <1>11, <1>12, <1>13, <1>14, <1>15, <1>16, <1>17, <1>18, <1>19 DEF Client
<1> QED
  BY <1>1, <1>2, <1>20, <1>21, <1>22 DEF Next

-----------------------------------------------------------------------------
(* Every connection has one place and every lock one holder, throughout (getConn,
   putConn, opener). *)
THEOREM OwnInvariance == Spec => []OwnInv
<1>1. OwnInv /\ [Next]_vars => OwnInv'
  BY TypeNext, PlaceNext, ExclusiveNext DEF OwnInv
<1> QED BY <1>1, OwnInvInit, PTL DEF Spec

(* Every variable of the pool keeps its type: neither channel exceeds its   *)
(* capacity, and getConn's retry counter stays within its bound.            *)
THEOREM TypeCorrect == Spec => []TypeOK
<1>1. OwnInv => TypeOK
  BY DEF OwnInv
<1> QED BY <1>1, OwnInvariance, PTL

(* No two sessions, and no session and the pool, ever have the same         *)
(* *mysqlConn: what handleQuery, handleStmtPrepare and the opener do with   *)
(* their connections never puts one of them into a second place.            *)
THEOREM ConnectionsExclusive == Spec => []Exclusive
<1>1. OwnInv => Exclusive
  BY DEF OwnInv
<1> QED BY <1>1, OwnInvariance, PTL


-----------------------------------------------------------------------------
(* Every step of the pool is a step of the ledger, or changes no owner. *)
LEMMA LedgerStep == OwnInv /\ [Next]_vars => [Ledger!LNext]_(Ledger!ledger)
<1> SUFFICES ASSUME OwnInv, [Next]_vars PROVE [Ledger!LNext]_(Ledger!ledger)
  OBVIOUS
<1>1. CASE OpenSend
  BY <1>1 DEF OpenSend, openerVars, locals, Ledger!ledger
<1>2. CASE TickerFires
  BY <1>2 DEF TickerFires, openerVars, locals, Ledger!ledger
<1>3. CASE OpenerRecv
  BY <1>3 DEF OpenerRecv, locals, Ledger!ledger
<1>4. CASE NewConnFails
  BY <1>4 DEF NewConnFails, channels, locals, Ledger!ledger
<1>5. CASE NewConnLoad
  <2>1. oconn = NoConn
    BY <1>5 DEF NewConnLoad, OwnInv, PlaceInv
  <2>2. oconn' \in Conns \ Referenced
    BY <1>5 DEF NewConnLoad
  <2>3. oconn' \notin Ledger!Owned
    BY <2>1, <2>2 DEF Referenced, Range, Ledger!Owned, Ledger!Range
  <2>4. Ledger!Create(oconn')
    BY <1>5, <2>1, <2>2, <2>3, PoolAssumption DEF NewConnLoad, channels, locals, Ledger!Create
  <2> QED BY <2>2, <2>4 DEF Ledger!LNext
<1>6. CASE NewConnStore
  BY <1>6 DEF NewConnStore, channels, locals, Ledger!ledger
<1>7. CASE OpenerSend
  <2>1. oconn \in Conns /\ oconn # NoConn
    BY <1>7 DEF OpenerSend, OwnInv, TypeOK, PlaceInv
  <2>2. Range(freeConn') = Range(freeConn) \cup {oconn}
    BY <1>7, <2>1, RangeAppend DEF OpenerSend, OwnInv, TypeOK
  <2>3. Ledger!Deliver(oconn)
    BY <1>7, <2>1, <2>2 DEF OpenerSend, locals, Ledger!Deliver
  <2> QED BY <2>1, <2>3 DEF Ledger!LNext
<1>8. ASSUME NEW c \in Clients, NEW o \in {"query", "prepare"}, Begin(c, o) PROVE [Ledger!LNext]_(Ledger!ledger)
  BY <1>8 DEF Begin, channels, openerVars, Ledger!ledger
<1>9. ASSUME NEW c \in Clients, GetLock(c) PROVE [Ledger!LNext]_(Ledger!ledger)
  BY <1>9 DEF GetLock, LockAndOrder, channels, openerVars, Ledger!ledger
<1>10. ASSUME NEW c \in Clients, MaybeOpenNew(c) PROVE [Ledger!LNext]_(Ledger!ledger)
  BY <1>10 DEF MaybeOpenNew, openerVars, Ledger!ledger
<1>11. ASSUME NEW c \in Clients, GetConn(c) PROVE [Ledger!LNext]_(Ledger!ledger)
  <2> DEFINE k == Head(freeConn)
  <2>1. k \in Conns /\ held[c] = NoConn
    BY <1>11, RangeTail DEF GetConn, Selecting, OwnInv, TypeOK, PlaceInv
  <2>2. k \in Range(freeConn) /\ Range(freeConn') = Range(freeConn) \ {k}
    BY <1>11, RangeTail DEF GetConn, OwnInv, TypeOK, Exclusive
  <2>3. Ledger!Lend(c, k)
    BY <1>11, <2>1, <2>2 DEF GetConn, openerVars, Ledger!Lend
  <2> QED BY <2>1, <2>3 DEF Ledger!LNext
<1>12. ASSUME NEW c \in Clients, GetTick(c) PROVE [Ledger!LNext]_(Ledger!ledger)
  BY <1>12 DEF GetTick, openerVars, Ledger!ledger
<1>13. ASSUME NEW c \in Clients, GetNil(c) PROVE [Ledger!LNext]_(Ledger!ledger)
  <2>1. Ledger!Abandon(c)
    BY <1>13 DEF GetNil, channels, openerVars, Ledger!Abandon
  <2> QED BY <2>1 DEF Ledger!LNext
<1>14. ASSUME NEW c \in Clients, NEW ok \in BOOLEAN, QueryDone(c, ok) PROVE [Ledger!LNext]_(Ledger!ledger)
  <2>1. CASE ok
    BY <1>14, <2>1 DEF QueryDone, channels, openerVars, Ledger!ledger
  <2>2. CASE ~ok
    <3>1. Ledger!Abandon(c)
      BY <1>14, <2>2 DEF QueryDone, channels, openerVars, Ledger!Abandon
    <3> QED BY <3>1 DEF Ledger!LNext
  <2> QED BY <2>1, <2>2
<1>15. ASSUME NEW c \in Clients, NEW ok \in BOOLEAN, PrepareDone(c, ok) PROVE [Ledger!LNext]_(Ledger!ledger)
  <2>1. held[c] # NoConn
    BY <1>15 DEF PrepareDone, OwnInv, PlaceInv
  <2>2. CASE ok
    <3>1. Ledger!Pin(c)
      BY <1>15, <2>1, <2>2 DEF PrepareDone, channels, openerVars, Ledger!Pin
    <3> QED BY <3>1 DEF Ledger!LNext
  <2>3. CASE ~ok
    <3>1. Ledger!Abandon(c)
      BY <1>15, <2>3 DEF PrepareDone, channels, openerVars, Ledger!Abandon
    <3> QED BY <3>1 DEF Ledger!LNext
  <2> QED BY <2>2, <2>3
<1>16. ASSUME NEW c \in Clients, StmtClose(c) PROVE [Ledger!LNext]_(Ledger!ledger)
  <2>1. Ledger!Abandon(c)
    BY <1>16 DEF StmtClose, channels, openerVars, Ledger!Abandon
  <2> QED BY <2>1 DEF Ledger!LNext
<1>17. ASSUME NEW c \in Clients, PutConn(c) PROVE [Ledger!LNext]_(Ledger!ledger)
  <2>1. held[c] \in Conns /\ held[c] # NoConn
    BY <1>17 DEF PutConn, OwnInv, TypeOK, PlaceInv
  <2>2. Range(freeConn') = Range(freeConn) \cup {held[c]}
    BY <1>17, <2>1, RangeAppend DEF PutConn, OwnInv, TypeOK
  <2>3. Ledger!GiveBack(c)
    BY <1>17, <2>1, <2>2 DEF PutConn, openerVars, Ledger!GiveBack
  <2> QED BY <2>3 DEF Ledger!LNext
<1>18. ASSUME NEW c \in Clients, PutLoad(c) PROVE [Ledger!LNext]_(Ledger!ledger)
  BY <1>18 DEF PutLoad, channels, openerVars, Ledger!ledger
<1>19. ASSUME NEW c \in Clients, PutStore(c) PROVE [Ledger!LNext]_(Ledger!ledger)
  <2>1. held[c] # NoConn
    BY <1>19 DEF PutStore, OwnInv, PlaceInv
  <2>2. Ledger!GiveBack(c)
    BY <1>19, <2>1 DEF PutStore, channels, openerVars, Ledger!GiveBack
  <2> QED BY <2>2 DEF Ledger!LNext
<1>20. CASE UNCHANGED vars
  BY <1>20 DEF vars, channels, openerVars, locals, Ledger!ledger
<1>21. CASE Opener
  BY <1>21, <1>3, <1>4, <1>5, <1>6, <1>7 DEF Opener
<1>22. ASSUME NEW c \in Clients, Client(c) PROVE [Ledger!LNext]_(Ledger!ledger)
  BY <1>22, <1>8, <1>9, <1>10, <1>11, <1>12, <1>13, <1>14, <1>15, <1>16, <1>17, <1>18, <1>19 DEF Client
<1> QED
  BY <1>1, <1>2, <1>20, <1>21, <1>22 DEF Next

(* The pool starts with no connection, as the ledger does. *)
LEMMA LedgerInit == Init => Ledger!LInit
  BY DEF Init, Ledger!LInit, Range

(* The detailed pool implements the ledger of connection owners: opener,    *)
(* getConn, putConn and the prepared statements pass connections on as it   *)
(* allows, for every number of clients and whatever m.numOpen says.         *)
THEOREM PoolKeepsLedger == Spec => KeepsLedger
<1>1. Spec => []OwnInv
  BY OwnInvariance
<1>2. OwnInv /\ [Next]_vars => [Ledger!LNext]_(Ledger!ledger)
  BY LedgerStep
<1> QED BY <1>1, <1>2, LedgerInit, PTL DEF Spec, KeepsLedger, Ledger!LSpec

-----------------------------------------------------------------------------
(* The count of the connections, and what waits for what.                   *)
Loading == opc = "store"
Closing(c) == pc[c] = "close"

(* Until Open has returned no client is there, and all connections wait.    *)
BootInv ==
  boot > 0 =>
    /\ \A c \in Clients : pc[c] = "idle"
    /\ mu = NoClient
    /\ numOpen = Len(freeConn) + Sending
    /\ Loading => oseen = numOpen

(* Accounting holds of m.numOpen, and of whatever value will be stored.     *)
BalanceInv ==
  /\ Live <= numOpen + overlaps
  /\ Loading => Live <= oseen + overlaps
  /\ \A c \in Clients :
       /\ Closing(c) => Live <= seen[c] + overlaps
       /\ Closing(c) /\ Loading => Live + 1 <= seen[c] + overlaps

(* A loaded value differs from m.numOpen by at most the overlapping loads.  *)
DriftInv ==
  /\ Loading => oseen <= numOpen + overlaps
  /\ \A c \in Clients : Closing(c) =>
       /\ numOpen <= seen[c] + overlaps
       /\ Loading => oseen + 1 <= seen[c] + overlaps

Limit == 2 * MaxOpen + 1 + overlaps

(* Overshoot holds of m.numOpen, and of whatever value will be stored.      *)
OrderInv ==
  /\ numOpen + Pending <= Limit
  /\ Loading => oseen + Pending <= Limit
  /\ \A c \in Clients : Closing(c) => seen[c] + openCh + Dialing <= Limit

(* What fills the two channels and the opener's hands. *)
Room == Len(freeConn) + Sending + Dialing + openCh

(* What getConn has still to send fits into the two channels, as long as    *)
(* m.numOpen did not underestimate the connections when it was read.        *)
RoomInv ==
  overlaps = 0 =>
    \A c \in Clients : pc[c] = "get" /\ can[c] > 0 =>
      Room + can[c] <= 2 * MaxOpen + 1

CountInv == BootInv /\ BalanceInv /\ DriftInv /\ OrderInv /\ RoomInv

-----------------------------------------------------------------------------
(* The number of clients with a connection of either kind. *)
LEMMA ClientSets ==
  ASSUME OwnInv
  PROVE  /\ IsFiniteSet(Holders) /\ Cardinality(Holders) \in Nat
         /\ IsFiniteSet(Pinners) /\ Cardinality(Pinners) \in Nat
         /\ Len(freeConn) \in Nat /\ Sending \in {0, 1} /\ Live \in Nat
<1>1. IsFiniteSet(Clients)
  BY PoolAssumption
<1>2. IsFiniteSet(Holders) /\ IsFiniteSet(Pinners)
  BY <1>1, FS_Subset DEF Holders, Pinners
<1>3. Cardinality(Holders) \in Nat /\ Cardinality(Pinners) \in Nat
  BY <1>2, FS_CardinalityType
<1>4. Len(freeConn) \in Nat /\ Sending \in {0, 1}
  BY LenProperties DEF OwnInv, TypeOK, Sending
<1> QED BY <1>2, <1>3, <1>4 DEF Live

(* Steps that move no connection leave the number of open ones alone. *)
LEMMA LiveSame ==
  ASSUME UNCHANGED <<freeConn, held, stmt>>, Sending' = Sending
  PROVE  Live' = Live
  BY DEF Live, Holders, Pinners

(* newConn's m.numOpen++ is where its connection begins to be counted as open. *)
LEMMA LiveStore ==
  ASSUME OwnInv, NewConnStore
  PROVE  Live' = Live + 1
<1>1. Sending = 0 /\ Sending' = 1
  BY DEF NewConnStore, Sending
<1>2. UNCHANGED <<freeConn, held, stmt>>
  BY DEF NewConnStore, channels, locals
<1> QED BY <1>1, <1>2, ClientSets DEF Live, Holders, Pinners

(* The opener's send moves a connection into m.freeConn. *)
LEMMA LiveSend ==
  ASSUME OwnInv, OpenerSend
  PROVE  Live' = Live
<1>1. Sending = 1 /\ Sending' = 0 /\ oconn \in Conns
  BY DEF OpenerSend, Sending, OwnInv, TypeOK, PlaceInv
<1>2. Len(freeConn') = Len(freeConn) + 1
  BY <1>1, RangeAppend DEF OpenerSend, OwnInv, TypeOK
<1>3. UNCHANGED <<held, stmt>>
  BY DEF OpenerSend, locals
<1> QED BY <1>1, <1>2, <1>3, ClientSets DEF Live, Holders, Pinners

(* A client gains its connection ... *)
LEMMA HolderAdd ==
  ASSUME OwnInv, NEW c \in Clients, held[c] = NoConn, NEW k \in Conns,
         held' = [held EXCEPT ![c] = k]
  PROVE  Cardinality(Holders') = Cardinality(Holders) + 1
<1>1. c \notin Holders /\ Holders' = Holders \cup {c}
  BY PoolAssumption DEF Holders, OwnInv, TypeOK
<1> QED BY <1>1, ClientSets, FS_AddElement

(* ... and loses it. *)
LEMMA HolderRemove ==
  ASSUME OwnInv, NEW c \in Clients, held[c] # NoConn,
         held' = [held EXCEPT ![c] = NoConn]
  PROVE  Cardinality(Holders') = Cardinality(Holders) - 1
<1>1. c \in Holders /\ Holders' = Holders \ {c}
  BY DEF Holders, OwnInv, TypeOK
<1> QED BY <1>1, ClientSets, FS_RemoveElement

(* getConn moves a connection from m.freeConn to a handler. *)
LEMMA LiveGet ==
  ASSUME OwnInv, NEW c \in Clients, GetConn(c)
  PROVE  Live' = Live
<1>1. Head(freeConn) \in Conns /\ held[c] = NoConn
  BY RangeTail DEF GetConn, Selecting, OwnInv, TypeOK, PlaceInv
<1>2. Len(freeConn') = Len(freeConn) - 1
  BY RangeTail DEF GetConn, Selecting, OwnInv, TypeOK, PlaceInv
<1>3. Cardinality(Holders') = Cardinality(Holders) + 1
  BY <1>1, HolderAdd DEF GetConn
<1>4. Sending' = Sending /\ Pinners' = Pinners
  BY DEF GetConn, openerVars, Sending, Pinners
<1> QED BY <1>2, <1>3, <1>4, ClientSets DEF Live

(* Dropping a statement's connection can only lower the number of open ones. *)
LEMMA LiveDrop ==
  ASSUME OwnInv, NEW c \in Clients, UNCHANGED <<freeConn, opc, held>>,
         stmt' \in {stmt, [stmt EXCEPT ![c] = NoConn]}
  PROVE  Live' <= Live /\ Live' \in Nat
<1>1. Pinners' \subseteq Pinners
  BY DEF Pinners, OwnInv, TypeOK
<1>2. IsFiniteSet(Pinners') /\ Cardinality(Pinners') <= Cardinality(Pinners)
  BY <1>1, ClientSets, FS_Subset
<1>3. Cardinality(Pinners') \in Nat
  BY <1>2, FS_CardinalityType
<1>4. Sending' = Sending /\ Holders' = Holders
  BY DEF Sending, Holders
<1> QED BY <1>2, <1>3, <1>4, ClientSets DEF Live

(* A prepare moves a connection to the statement, or drops it. *)
LEMMA LivePin ==
  ASSUME OwnInv, NEW c \in Clients, NEW ok \in BOOLEAN, PrepareDone(c, ok)
  PROVE  Live' <= Live /\ Live' \in Nat
<1>1. held[c] # NoConn /\ held' = [held EXCEPT ![c] = NoConn]
  BY DEF PrepareDone, OwnInv, PlaceInv
<1>2. Cardinality(Holders') = Cardinality(Holders) - 1
  BY <1>1, HolderRemove
<1>3. Pinners' \subseteq Pinners \cup {c}
  BY DEF PrepareDone, Pinners, OwnInv, TypeOK
<1>4. /\ IsFiniteSet(Pinners \cup {c})
      /\ Cardinality(Pinners \cup {c}) \in Nat
      /\ Cardinality(Pinners \cup {c}) <= Cardinality(Pinners) + 1
  <2>1. IsFiniteSet(Pinners \cup {c})
    BY ClientSets, FS_AddElement
  <2>2. Cardinality(Pinners \cup {c}) <= Cardinality(Pinners) + 1
    <3>1. Cardinality(Pinners \cup {c}) =
            IF c \in Pinners THEN Cardinality(Pinners) ELSE Cardinality(Pinners) + 1
      BY ClientSets, FS_AddElement
    <3> QED BY <3>1, ClientSets
  <2> QED BY <2>1, <2>2, FS_CardinalityType
<1>5. Cardinality(Pinners') <= Cardinality(Pinners) + 1 /\ Cardinality(Pinners') \in Nat
  <2>1. IsFiniteSet(Pinners') /\ Cardinality(Pinners') <= Cardinality(Pinners \cup {c})
    BY <1>3, <1>4, FS_Subset
  <2>2. Cardinality(Pinners') \in Nat
    BY <2>1, FS_CardinalityType
  <2> QED BY <2>1, <2>2, <1>4, ClientSets
<1>6. Sending' = Sending /\ freeConn' = freeConn
  BY DEF PrepareDone, channels, openerVars, Sending
<1>7. Cardinality(Holders) >= 1
  BY <1>1, ClientSets, FS_EmptySet DEF Holders
<1> QED BY <1>2, <1>5, <1>6, <1>7, ClientSets DEF Live

(* putConn moves a connection from a handler to m.freeConn. *)
LEMMA LivePut ==
  ASSUME OwnInv, NEW c \in Clients, PutConn(c)
  PROVE  Live' = Live
<1>1. held[c] \in Conns /\ held[c] # NoConn
  BY DEF PutConn, OwnInv, TypeOK, PlaceInv
<1>2. Len(freeConn') = Len(freeConn) + 1
  BY <1>1, RangeAppend DEF PutConn, OwnInv, TypeOK
<1>3. Cardinality(Holders') = Cardinality(Holders) - 1
  BY <1>1, HolderRemove DEF PutConn
<1>4. Sending' = Sending /\ Pinners' = Pinners
  BY DEF PutConn, openerVars, Sending, Pinners
<1> QED BY <1>2, <1>3, <1>4, ClientSets DEF Live

(* putConn's m.numOpen-- closes one connection. *)
LEMMA LiveClose ==
  ASSUME OwnInv, NEW c \in Clients, PutStore(c)
  PROVE  Live' = Live - 1
<1>1. held[c] # NoConn
  BY DEF PutStore, OwnInv, PlaceInv
<1>2. Cardinality(Holders') = Cardinality(Holders) - 1
  BY <1>1, HolderRemove DEF PutStore
<1>3. Sending' = Sending /\ Pinners' = Pinners /\ freeConn' = freeConn
  BY DEF PutStore, channels, openerVars, Sending, Pinners
<1> QED BY <1>2, <1>3, ClientSets DEF Live

(* The values the counts range over. *)
LEMMA CountTypes ==
  ASSUME OwnInv
  PROVE  /\ Live \in Nat /\ numOpen \in Int /\ oseen \in Int /\ overlaps \in Nat
         /\ openCh \in 0..MaxOpen /\ MaxOpen \in Nat \ {0}
         /\ Len(freeConn) \in 0..MaxOpen /\ Sending \in {0, 1} /\ Dialing \in {0, 1}
         /\ Unsent \in Nat
         /\ \A c \in Clients : seen[c] \in Int /\ can[c] \in Nat
  BY ClientSets, PoolAssumption DEF OwnInv, TypeOK, Sending, Dialing, Unsent

(* The counting invariant holds before Open. *)
LEMMA CountInit == Init => CountInv
<1> SUFFICES ASSUME Init PROVE CountInv
  OBVIOUS
<1>1. OwnInv
  BY OwnInvInit
<1>2. Len(freeConn) = 0 /\ Sending = 0 /\ Dialing = 0 /\ Unsent = 0
  BY EmptySeq DEF Init, Sending, Dialing, Unsent
<1>3. Holders = {} /\ Pinners = {}
  BY DEF Init, Holders, Pinners
<1>4. Live = 0
  BY <1>2, <1>3, FS_EmptySet DEF Live
<1>5. BootInv /\ DriftInv /\ RoomInv
  BY <1>2 DEF Init, BootInv, DriftInv, RoomInv, Loading, Closing
<1>6. BalanceInv
  BY <1>4 DEF Init, BalanceInv, Loading, Closing
<1>7. OrderInv
  BY <1>2, PoolAssumption DEF Init, OrderInv, Limit, Pending, Loading, Closing
<1> QED BY <1>5, <1>6, <1>7 DEF CountInv

(* The steps that neither load nor store m.numOpen. *)
LEMMA NumFrame ==
  ASSUME OwnInv, BalanceInv, DriftInv,
         UNCHANGED <<numOpen, oseen, seen, overlaps>>,
         Live' <= Live, Live' \in Nat,
         opc' = "store" => opc = "store",
         \A c \in Clients : pc'[c] = "close" => pc[c] = "close"
  PROVE  BalanceInv' /\ DriftInv'
<1>1. BalanceInv'
  BY CountTypes DEF BalanceInv, Loading, Closing
<1>2. DriftInv'
  BY DEF DriftInv, Loading, Closing
<1> QED BY <1>1, <1>2

(* No store of m.numOpen makes it fall short of the open connections, and   *)
(* every load that lets two values of it drift apart is counted.            *)
LEMMA NumNext == OwnInv /\ BalanceInv /\ DriftInv /\ [Next]_vars => (BalanceInv /\ DriftInv)'
<1> SUFFICES ASSUME OwnInv /\ BalanceInv /\ DriftInv, [Next]_vars PROVE (BalanceInv /\ DriftInv)'
  OBVIOUS
<1>0. /\ Live \in Nat /\ numOpen \in Int /\ oseen \in Int /\ overlaps \in Nat
      /\ \A c \in Clients : seen[c] \in Int
  BY CountTypes
<1>1. CASE OpenSend
  <2>1. Live' <= Live /\ Live' \in Nat
    BY <1>1, <1>0, LiveSame DEF OpenSend, channels, openerVars, locals, Sending
  <2>2. /\ UNCHANGED <<numOpen, oseen, seen, overlaps>>
        /\ opc' = "store" => opc = "store"
        /\ \A d \in Clients : pc'[d] = "close" => pc[d] = "close"
    BY <1>1 DEF OpenSend, channels, openerVars, locals, OwnInv, TypeOK
  <2> QED BY <2>1, <2>2, NumFrame
<1>2. CASE TickerFires
  <2>1. Live' <= Live /\ Live' \in Nat
    BY <1>2, <1>0, LiveSame DEF TickerFires, channels, openerVars, locals, Sending
  <2>2. /\ UNCHANGED <<numOpen, oseen, seen, overlaps>>
        /\ opc' = "store" => opc = "store"
        /\ \A d \in Clients : pc'[d] = "close" => pc[d] = "close"
    BY <1>2 DEF TickerFires, channels, openerVars, locals, OwnInv, TypeOK
  <2> QED BY <2>1, <2>2, NumFrame
<1>3. CASE OpenerRecv
  <2>1. Live' <= Live /\ Live' \in Nat
    BY <1>3, <1>0, LiveSame DEF OpenerRecv, channels, openerVars, locals, Sending
  <2>2. /\ UNCHANGED <<numOpen, oseen, seen, overlaps>>
        /\ opc' = "store" => opc = "store"
        /\ \A d \in Clients : pc'[d] = "close" => pc[d] = "close"
    BY <1>3 DEF OpenerRecv, channels, openerVars, locals, OwnInv, TypeOK
  <2> QED BY <2>1, <2>2, NumFrame
<1>4. CASE NewConnFails
  <2>1. Live' <= Live /\ Live' \in Nat
    BY <1>4, <1>0, LiveSame DEF NewConnFails, channels, openerVars, locals, Sending
  <2>2. /\ UNCHANGED <<numOpen, oseen, seen, overlaps>>
        /\ opc' = "store" => opc = "store"
        /\ \A d \in Clients : pc'[d] = "close" => pc[d] = "close"
    BY <1>4 DEF NewConnFails, channels, openerVars, locals, OwnInv, TypeOK
  <2> QED BY <2>1, <2>2, NumFrame
<1>5. CASE NewConnLoad
  <2>1. Live' = Live
    BY <1>5, <1>0, LiveSame DEF NewConnLoad, channels, openerVars, locals, Sending
  <2>2. /\ opc # "store" /\ opc' = "store" /\ oseen' = numOpen
        /\ UNCHANGED <<numOpen, pc, seen>>
        /\ IF \E c \in Clients : pc[c] = "close" THEN overlaps' = overlaps + 1 ELSE overlaps' = overlaps
    BY <1>5 DEF NewConnLoad, LoadNumOpen, channels, locals
  <2>3. CASE \E c \in Clients : pc[c] = "close"
    BY <2>1, <2>2, <2>3, <1>0 DEF BalanceInv, DriftInv, Loading, Closing
  <2>4. CASE ~\E c \in Clients : pc[c] = "close"
    BY <2>1, <2>2, <2>4, <1>0 DEF BalanceInv, DriftInv, Loading, Closing
  <2> QED BY <2>3, <2>4
<1>6. CASE NewConnStore
  <2>1. Live' = Live + 1
    BY <1>6, <1>0, LiveStore
  <2>2. /\ opc = "store" /\ opc' = "send" /\ numOpen' = oseen + 1
        /\ UNCHANGED <<pc, seen, overlaps>>
    BY <1>6 DEF NewConnStore, channels, locals
  <2> QED BY <2>1, <2>2, <1>0 DEF BalanceInv, DriftInv, Loading, Closing
<1>7. CASE OpenerSend
  <2>1. Live' <= Live /\ Live' \in Nat
    BY <1>7, <1>0, LiveSend
  <2>2. /\ UNCHANGED <<numOpen, oseen, seen, overlaps>>
        /\ opc' = "store" => opc = "store"
        /\ \A d \in Clients : pc'[d] = "close" => pc[d] = "close"
    BY <1>7 DEF OpenerSend, channels, openerVars, locals, OwnInv, TypeOK
  <2> QED BY <2>1, <2>2, NumFrame
<1>8. ASSUME NEW c \in Clients, NEW o \in {"query", "prepare"}, Begin(c, o) PROVE (BalanceInv /\ DriftInv)'
  <2>1. Live' <= Live /\ Live' \in Nat
    BY <1>8, <1>0, LiveSame DEF Begin, channels, openerVars, locals, Sending
  <2>2. /\ UNCHANGED <<numOpen, oseen, seen, overlaps>>
        /\ opc' = "store" => opc = "store"
        /\ \A d \in Clients : pc'[d] = "close" => pc[d] = "close"
    BY <1>8 DEF Begin, channels, openerVars, locals, OwnInv, TypeOK
  <2> QED BY <2>1, <2>2, NumFrame
<1>9. ASSUME NEW c \in Clients, GetLock(c) PROVE (BalanceInv /\ DriftInv)'
  <2>1. Live' <= Live /\ Live' \in Nat
    BY <1>9, <1>0, LiveSame DEF GetLock, LockAndOrder, channels, openerVars, locals, Sending
  <2>2. /\ UNCHANGED <<numOpen, oseen, seen, overlaps>>
        /\ opc' = "store" => opc = "store"
        /\ \A d \in Clients : pc'[d] = "close" => pc[d] = "close"
    BY <1>9 DEF GetLock, LockAndOrder, channels, openerVars, locals, OwnInv, TypeOK
  <2> QED BY <2>1, <2>2, NumFrame
<1>10. ASSUME NEW c \in Clients, MaybeOpenNew(c) PROVE (BalanceInv /\ DriftInv)'
  <2>1. Live' <= Live /\ Live' \in Nat
    BY <1>10, <1>0, LiveSame DEF MaybeOpenNew, channels, openerVars, locals, Sending
  <2>2. /\ UNCHANGED <<numOpen, oseen, seen, overlaps>>
        /\ opc' = "store" => opc = "store"
        /\ \A d \in Clients : pc'[d] = "close" => pc[d] = "close"
    BY <1>10 DEF MaybeOpenNew, channels, openerVars, locals, OwnInv, TypeOK
  <2> QED BY <2>1, <2>2, NumFrame
<1>11. ASSUME NEW c \in Clients, GetConn(c) PROVE (BalanceInv /\ DriftInv)'
  <2>1. Live' <= Live /\ Live' \in Nat
    BY <1>11, <1>0, LiveGet
  <2>2. /\ UNCHANGED <<numOpen, oseen, seen, overlaps>>
        /\ opc' = "store" => opc = "store"
        /\ \A d \in Clients : pc'[d] = "close" => pc[d] = "close"
    BY <1>11 DEF GetConn, Selecting, channels, openerVars, locals, OwnInv, TypeOK
  <2> QED BY <2>1, <2>2, NumFrame
<1>12. ASSUME NEW c \in Clients, GetTick(c) PROVE (BalanceInv /\ DriftInv)'
  <2>1. Live' <= Live /\ Live' \in Nat
    BY <1>12, <1>0, LiveSame DEF GetTick, channels, openerVars, locals, Sending
  <2>2. /\ UNCHANGED <<numOpen, oseen, seen, overlaps>>
        /\ opc' = "store" => opc = "store"
        /\ \A d \in Clients : pc'[d] = "close" => pc[d] = "close"
    BY <1>12 DEF GetTick, Selecting, channels, openerVars, locals, OwnInv, TypeOK
  <2> QED BY <2>1, <2>2, NumFrame
<1>13. ASSUME NEW c \in Clients, GetNil(c) PROVE (BalanceInv /\ DriftInv)'
  <2>1. Live' <= Live /\ Live' \in Nat
    BY <1>13, <1>0, LiveDrop DEF GetNil, channels, openerVars
  <2>2. /\ UNCHANGED <<numOpen, oseen, seen, overlaps>>
        /\ opc' = "store" => opc = "store"
        /\ \A d \in Clients : pc'[d] = "close" => pc[d] = "close"
    BY <1>13 DEF GetNil, Selecting, channels, openerVars, locals, OwnInv, TypeOK
  <2> QED BY <2>1, <2>2, NumFrame
<1>14. ASSUME NEW c \in Clients, NEW ok \in BOOLEAN, QueryDone(c, ok) PROVE (BalanceInv /\ DriftInv)'
  <2>1. Live' <= Live /\ Live' \in Nat
    BY <1>14, <1>0, LiveDrop DEF QueryDone, channels, openerVars
  <2>2. /\ UNCHANGED <<numOpen, oseen, seen, overlaps>>
        /\ opc' = "store" => opc = "store"
        /\ \A d \in Clients : pc'[d] = "close" => pc[d] = "close"
    BY <1>14 DEF QueryDone, channels, openerVars, locals, OwnInv, TypeOK
  <2> QED BY <2>1, <2>2, NumFrame
<1>15. ASSUME NEW c \in Clients, NEW ok \in BOOLEAN, PrepareDone(c, ok) PROVE (BalanceInv /\ DriftInv)'
  <2>1. Live' <= Live /\ Live' \in Nat
    BY <1>15, <1>0, LivePin
  <2>2. /\ UNCHANGED <<numOpen, oseen, seen, overlaps>>
        /\ opc' = "store" => opc = "store"
        /\ \A d \in Clients : pc'[d] = "close" => pc[d] = "close"
    BY <1>15 DEF PrepareDone, channels, openerVars, locals, OwnInv, TypeOK
  <2> QED BY <2>1, <2>2, NumFrame
<1>16. ASSUME NEW c \in Clients, StmtClose(c) PROVE (BalanceInv /\ DriftInv)'
  <2>1. Live' <= Live /\ Live' \in Nat
    BY <1>16, <1>0, LiveDrop DEF StmtClose, channels, openerVars
  <2>2. /\ UNCHANGED <<numOpen, oseen, seen, overlaps>>
        /\ opc' = "store" => opc = "store"
        /\ \A d \in Clients : pc'[d] = "close" => pc[d] = "close"
    BY <1>16 DEF StmtClose, channels, openerVars, locals, OwnInv, TypeOK
  <2> QED BY <2>1, <2>2, NumFrame
<1>17. ASSUME NEW c \in Clients, PutConn(c) PROVE (BalanceInv /\ DriftInv)'
  <2>1. Live' <= Live /\ Live' \in Nat
    BY <1>17, <1>0, LivePut
  <2>2. /\ UNCHANGED <<numOpen, oseen, seen, overlaps>>
        /\ opc' = "store" => opc = "store"
        /\ \A d \in Clients : pc'[d] = "close" => pc[d] = "close"
    BY <1>17 DEF PutConn, channels, openerVars, locals, OwnInv, TypeOK
  <2> QED BY <2>1, <2>2, NumFrame
<1>18. ASSUME NEW c \in Clients, PutLoad(c) PROVE (BalanceInv /\ DriftInv)'
  <2>1. Live' = Live
    BY <1>18, <1>0, LiveSame DEF PutLoad, channels, openerVars, locals, Sending
  <2>2. /\ pc' = [pc EXCEPT ![c] = "close"] /\ seen' = [seen EXCEPT ![c] = numOpen]
        /\ UNCHANGED <<numOpen, opc, oseen>>
        /\ IF opc = "store" THEN overlaps' = overlaps + 1 ELSE overlaps' = overlaps
    BY <1>18 DEF PutLoad, LoadNumOpen, channels, openerVars
  <2>3. \A d \in Clients : pc[d] # "close"
    BY <1>18, PoolAssumption DEF PutLoad, OwnInv, LockInv
  <2>4. \A d \in Clients : pc'[d] = "close" => d = c
    BY <2>2, <2>3 DEF OwnInv, TypeOK
  <2>5. seen'[c] = numOpen
    BY <2>2 DEF OwnInv, TypeOK
  <2>6. CASE opc = "store"
    BY <2>1, <2>2, <2>4, <2>5, <2>6, <1>0 DEF BalanceInv, DriftInv, Loading, Closing
  <2>7. CASE opc # "store"
    BY <2>1, <2>2, <2>4, <2>5, <2>7, <1>0 DEF BalanceInv, DriftInv, Loading, Closing
  <2> QED BY <2>6, <2>7
<1>19. ASSUME NEW c \in Clients, PutStore(c) PROVE (BalanceInv /\ DriftInv)'
  <2>1. Live' = Live - 1
    BY <1>19, <1>0, LiveClose
  <2>2. /\ pc[c] = "close" /\ pc' = [pc EXCEPT ![c] = "idle"] /\ numOpen' = seen[c] - 1
        /\ UNCHANGED <<opc, oseen, overlaps>>
    BY <1>19 DEF PutStore, channels, openerVars
  <2>3. \A d \in Clients : pc'[d] # "close"
    BY <2>2 DEF OwnInv, TypeOK, LockInv
  <2> QED BY <2>1, <2>2, <2>3, <1>0 DEF BalanceInv, DriftInv, Loading, Closing
<1>20. CASE UNCHANGED vars
  <2>1. Live' = Live
    BY <1>20, LiveSame DEF vars, channels, openerVars, locals, Sending
  <2> QED
    BY <1>20, <2>1, <1>0, NumFrame DEF vars, channels, openerVars, locals
<1>21. CASE Opener
  BY <1>21, <1>3, <1>4, <1>5, <1>6, <1>7 DEF Opener
<1>22. ASSUME NEW c \in Clients, Client(c) PROVE (BalanceInv /\ DriftInv)'
  BY <1>22, <1>8, <1>9, <1>10, <1>11, <1>12, <1>13, <1>14, <1>15, <1>16, <1>17, <1>18, <1>19 DEF Client
<1> QED
  BY <1>1, <1>2, <1>20, <1>21, <1>22 DEF Next

(* While Open is sending, only Open and the opener move. *)
LEMMA BootNext == OwnInv /\ CountInv /\ [Next]_vars => BootInv'
<1> SUFFICES ASSUME OwnInv /\ CountInv, [Next]_vars PROVE BootInv'
  OBVIOUS
<1>1. CASE OpenSend
  BY <1>1, CountTypes DEF OpenSend, channels, openerVars, locals, OwnInv, TypeOK, PlaceInv, CountInv, BootInv, Sending, Loading
<1>2. CASE TickerFires
  BY <1>2, CountTypes DEF TickerFires, channels, openerVars, locals, OwnInv, TypeOK, PlaceInv, CountInv, BootInv, Sending, Loading
<1>3. CASE OpenerRecv
  BY <1>3, CountTypes DEF OpenerRecv, channels, openerVars, locals, OwnInv, TypeOK, PlaceInv, CountInv, BootInv, Sending, Loading
<1>4. CASE NewConnFails
  BY <1>4, CountTypes DEF NewConnFails, channels, openerVars, locals, OwnInv, TypeOK, PlaceInv, CountInv, BootInv, Sending, Loading
<1>5. CASE NewConnLoad
  BY <1>5, CountTypes DEF NewConnLoad, LoadNumOpen, channels, openerVars, locals, OwnInv, TypeOK, PlaceInv, CountInv, BootInv, Sending, Loading
<1>6. CASE NewConnStore
  BY <1>6, CountTypes DEF NewConnStore, channels, openerVars, locals, OwnInv, TypeOK, PlaceInv, CountInv, BootInv, Sending, Loading
<1>7. CASE OpenerSend
  BY <1>7, CountTypes, RangeAppend DEF OpenerSend, channels, openerVars, locals, OwnInv, TypeOK, PlaceInv, CountInv, BootInv, Sending, Loading
<1>8. ASSUME NEW c \in Clients, NEW o \in {"query", "prepare"}, Begin(c, o) PROVE BootInv'
  BY <1>8, CountTypes DEF Begin, channels, openerVars, locals, OwnInv, TypeOK, PlaceInv, CountInv, BootInv, Sending, Loading
<1>9. ASSUME NEW c \in Clients, GetLock(c) PROVE BootInv'
  BY <1>9, CountTypes DEF GetLock, LockAndOrder, channels, openerVars, locals, OwnInv, TypeOK, PlaceInv, CountInv, BootInv, Sending, Loading
<1>10. ASSUME NEW c \in Clients, MaybeOpenNew(c) PROVE BootInv'
  BY <1>10, CountTypes DEF MaybeOpenNew, channels, openerVars, locals, OwnInv, TypeOK, PlaceInv, CountInv, BootInv, Sending, Loading
<1>11. ASSUME NEW c \in Clients, GetConn(c) PROVE BootInv'
  BY <1>11, CountTypes, RangeTail DEF GetConn, Selecting, channels, openerVars, locals, OwnInv, TypeOK, PlaceInv, CountInv, BootInv, Sending, Loading
<1>12. ASSUME NEW c \in Clients, GetTick(c) PROVE BootInv'
  BY <1>12, CountTypes DEF GetTick, Selecting, channels, openerVars, locals, OwnInv, TypeOK, PlaceInv, CountInv, BootInv, Sending, Loading
<1>13. ASSUME NEW c \in Clients, GetNil(c) PROVE BootInv'
  BY <1>13, CountTypes DEF GetNil, Selecting, channels, openerVars, locals, OwnInv, TypeOK, PlaceInv, CountInv, BootInv, Sending, Loading
<1>14. ASSUME NEW c \in Clients, NEW ok \in BOOLEAN, QueryDone(c, ok) PROVE BootInv'
  BY <1>14, CountTypes DEF QueryDone, channels, openerVars, locals, OwnInv, TypeOK, PlaceInv, CountInv, BootInv, Sending, Loading
<1>15. ASSUME NEW c \in Clients, NEW ok \in BOOLEAN, PrepareDone(c, ok) PROVE BootInv'
  BY <1>15, CountTypes DEF PrepareDone, channels, openerVars, locals, OwnInv, TypeOK, PlaceInv, CountInv, BootInv, Sending, Loading
<1>16. ASSUME NEW c \in Clients, StmtClose(c) PROVE BootInv'
  BY <1>16, CountTypes DEF StmtClose, channels, openerVars, locals, OwnInv, TypeOK, PlaceInv, CountInv, BootInv, Sending, Loading
<1>17. ASSUME NEW c \in Clients, PutConn(c) PROVE BootInv'
  BY <1>17, CountTypes, RangeAppend DEF PutConn, channels, openerVars, locals, OwnInv, TypeOK, PlaceInv, CountInv, BootInv, Sending, Loading
<1>18. ASSUME NEW c \in Clients, PutLoad(c) PROVE BootInv'
  BY <1>18, CountTypes DEF PutLoad, LoadNumOpen, channels, openerVars, locals, OwnInv, TypeOK, PlaceInv, CountInv, BootInv, Sending, Loading
<1>19. ASSUME NEW c \in Clients, PutStore(c) PROVE BootInv'
  BY <1>19, CountTypes DEF PutStore, channels, openerVars, locals, OwnInv, TypeOK, PlaceInv, CountInv, BootInv, Sending, Loading
<1>20. CASE UNCHANGED vars
  BY <1>20 DEF vars, channels, openerVars, locals, CountInv, BootInv, Sending, Loading
<1>21. CASE Opener
  BY <1>21, <1>3, <1>4, <1>5, <1>6, <1>7 DEF Opener
<1>22. ASSUME NEW c \in Clients, Client(c) PROVE BootInv'
  BY <1>22, <1>8, <1>9, <1>10, <1>11, <1>12, <1>13, <1>14, <1>15, <1>16, <1>17, <1>18, <1>19 DEF Client
<1> QED
  BY <1>1, <1>2, <1>20, <1>21, <1>22 DEF Next

(* No step orders more connections than the two channels and the opener can   *)
(* carry on top of what m.numOpen says.                                     *)
LEMMA OrderNext == OwnInv /\ CountInv /\ [Next]_vars => OrderInv'
<1> SUFFICES ASSUME OwnInv /\ CountInv, [Next]_vars PROVE OrderInv'
  OBVIOUS
<1>0. /\ openCh \in 0..MaxOpen /\ MaxOpen \in Nat \ {0} /\ overlaps \in Nat
      /\ numOpen \in Int /\ oseen \in Int
      /\ \A c \in Clients : seen[c] \in Int /\ can[c] \in Nat
      /\ NoClient \notin Clients
  BY CountTypes, PoolAssumption
<1>1. CASE OpenSend
  <2>1. /\ mu = NoClient /\ \A c \in Clients : pc[c] = "idle"
        /\ numOpen = Len(freeConn) + Sending
        /\ Loading => oseen = numOpen
    BY <1>1, PoolAssumption DEF OpenSend, OwnInv, TypeOK, CountInv, BootInv
  <2>2. Sending + Dialing <= 1 /\ Len(freeConn) \in 0..MaxOpen /\ Sending \in {0, 1} /\ Dialing \in {0, 1}
    BY CountTypes DEF Sending, Dialing
  <2>3. /\ openCh' = openCh + 1 /\ openCh < MaxOpen
        /\ UNCHANGED <<mu, numOpen, opc, oseen, pc, overlaps>>
    BY <1>1 DEF OpenSend, openerVars, locals
  <2>4. Unsent' = 0 /\ Dialing' = Dialing
    BY <2>1, <2>3 DEF Unsent, Dialing
  <2>5. numOpen' + Pending' <= Limit'
    BY <2>1, <2>2, <2>3, <2>4, <1>0 DEF Pending, Limit
  <2> QED BY <2>1, <2>3, <2>5, <1>0 DEF OrderInv, Loading, Closing
<1>2. CASE TickerFires
  <2>1. /\ UNCHANGED <<mu, openCh, numOpen, opc, oseen, seen, can, overlaps>>
        /\ \A d \in Clients : pc'[d] = "close" => pc[d] = "close"
    BY <1>2 DEF TickerFires, openerVars, locals, OwnInv, TypeOK
  <2>2. Pending' = Pending
    BY <2>1 DEF Pending, Unsent, Dialing
  <2> QED BY <2>1, <2>2 DEF CountInv, OrderInv, Limit, Loading, Closing, Dialing
<1>3. CASE OpenerRecv
  <2>1. /\ opc = "recv" /\ opc' = "dial" /\ openCh' = openCh - 1
        /\ UNCHANGED <<numOpen, overlaps>>
    BY <1>3 DEF OpenerRecv, locals
  <2>2. UNCHANGED <<mu, pc, seen, can>>
    BY <1>3 DEF OpenerRecv, locals
  <2>3. Unsent' = Unsent /\ Unsent \in Nat /\ Dialing = 0 /\ Dialing' = 1
    BY <2>1, <2>2, CountTypes DEF Unsent, Dialing
  <2> QED BY <2>1, <2>2, <2>3, <1>0 DEF CountInv, OrderInv, Pending, Limit, Loading, Closing
<1>4. CASE NewConnFails
  <2>1. /\ opc = "dial" /\ opc' = "recv" /\ UNCHANGED <<openCh, numOpen, overlaps>>
    BY <1>4 DEF NewConnFails, channels, locals
  <2>2. UNCHANGED <<mu, pc, seen, can>>
    BY <1>4 DEF NewConnFails, locals
  <2>3. Unsent' = Unsent /\ Unsent \in Nat /\ Dialing = 1 /\ Dialing' = 0
    BY <2>1, <2>2, CountTypes DEF Unsent, Dialing
  <2> QED BY <2>1, <2>2, <2>3, <1>0 DEF CountInv, OrderInv, Pending, Limit, Loading, Closing
<1>5. CASE NewConnLoad
  <2>1. /\ opc = "dial" /\ opc' = "store" /\ oseen' = numOpen
        /\ UNCHANGED <<mu, openCh, numOpen, pc, seen, can>>
        /\ overlaps' \in {overlaps, overlaps + 1}
    BY <1>5 DEF NewConnLoad, LoadNumOpen, channels, locals
  <2>2. Dialing = 1 /\ Dialing' = 1 /\ Unsent' = Unsent /\ Unsent \in Nat
    BY <2>1, CountTypes DEF Dialing, Unsent
  <2>3. Pending' = Pending /\ Pending \in Nat
    BY <2>1, <2>2, <1>0 DEF Pending
  <2>4. Limit' >= Limit /\ Limit \in Nat /\ Limit' \in Nat
    <3>1. CASE overlaps' = overlaps
      BY <3>1, <1>0 DEF Limit
    <3>2. CASE overlaps' = overlaps + 1
      BY <3>2, <1>0 DEF Limit
    <3> QED BY <2>1, <3>1, <3>2
  <2>5. numOpen' + Pending' <= Limit' /\ oseen' + Pending' <= Limit'
    BY <2>1, <2>3, <2>4, <1>0 DEF CountInv, OrderInv
  <2>6. ASSUME NEW d \in Clients, Closing(d)'
        PROVE  (seen[d] + openCh + Dialing <= Limit)'
    BY <2>1, <2>2, <2>4, <2>6, <1>0 DEF CountInv, OrderInv, Closing
  <2> QED BY <2>5, <2>6 DEF OrderInv
<1>6. CASE NewConnStore
  <2>1. /\ opc = "store" /\ opc' = "send" /\ numOpen' = oseen + 1
        /\ UNCHANGED <<openCh, overlaps>>
    BY <1>6 DEF NewConnStore, channels, locals
  <2>2. UNCHANGED <<mu, pc, seen, can>>
    BY <1>6 DEF NewConnStore, locals
  <2>3. Unsent' = Unsent /\ Unsent \in Nat /\ Dialing = 1 /\ Dialing' = 0
    BY <2>1, <2>2, CountTypes DEF Unsent, Dialing
  <2> QED BY <2>1, <2>2, <2>3, <1>0 DEF CountInv, OrderInv, Pending, Limit, Loading, Closing
<1>7. CASE OpenerSend
  <2>1. /\ opc = "send" /\ opc' = "recv" /\ UNCHANGED <<openCh, numOpen, overlaps>>
    BY <1>7 DEF OpenerSend, locals
  <2>2. UNCHANGED <<mu, pc, seen, can>>
    BY <1>7 DEF OpenerSend, locals
  <2>3. Unsent' = Unsent /\ Unsent \in Nat /\ Dialing = 0 /\ Dialing' = 0
    BY <2>1, <2>2, CountTypes DEF Unsent, Dialing
  <2> QED BY <2>1, <2>2, <2>3, <1>0 DEF CountInv, OrderInv, Pending, Limit, Loading, Closing
<1>8. ASSUME NEW c \in Clients, NEW o \in {"query", "prepare"}, Begin(c, o) PROVE OrderInv'
  <2>1. /\ UNCHANGED <<mu, openCh, numOpen, opc, oseen, seen, can, overlaps>>
        /\ \A d \in Clients : pc'[d] = "close" => pc[d] = "close"
    BY <1>8 DEF Begin, channels, openerVars, OwnInv, TypeOK
  <2>2. Pending' = Pending
    BY <2>1 DEF Pending, Unsent, Dialing
  <2> QED BY <2>1, <2>2 DEF CountInv, OrderInv, Limit, Loading, Closing, Dialing
<1>9. ASSUME NEW c \in Clients, GetLock(c) PROVE OrderInv'
  <2>1. /\ pc[c] = "lock" /\ mu = NoClient /\ mu' = c
        /\ pc' = [pc EXCEPT ![c] = "get"]
        /\ UNCHANGED <<openCh, numOpen, opc, oseen, seen, overlaps>>
    BY <1>9 DEF GetLock, LockAndOrder, channels, openerVars
  <2>2. can'[c] = IF MaxOpen - numOpen > 0 THEN MaxOpen - numOpen ELSE 0
    BY <1>9 DEF GetLock, LockAndOrder, OwnInv, TypeOK
  <2>3. Unsent = 0 /\ Unsent' = can'[c] /\ Dialing' = Dialing /\ Dialing \in {0, 1}
    BY <2>1, <1>0 DEF Unsent, Dialing
  <2>4. \A d \in Clients : pc[d] # "close" /\ pc'[d] # "close"
    BY <2>1, <1>0 DEF OwnInv, TypeOK, LockInv
  <2>5. numOpen' + Pending' <= Limit'
    BY <2>1, <2>2, <2>3, <1>0 DEF CountInv, OrderInv, Pending, Limit
  <2>6. Loading' => oseen' + Pending' <= Limit'
    BY <2>1, <2>2, <2>3, <1>0 DEF CountInv, OrderInv, DriftInv, Pending, Limit, Loading
  <2> QED BY <2>4, <2>5, <2>6 DEF OrderInv, Closing
<1>10. ASSUME NEW c \in Clients, MaybeOpenNew(c) PROVE OrderInv'
  <2>1. /\ mu = c /\ can[c] > 0 /\ openCh' = openCh + 1 /\ can'[c] = can[c] - 1
        /\ UNCHANGED <<mu, numOpen, opc, oseen, seen, pc, overlaps>>
    BY <1>10 DEF MaybeOpenNew, openerVars, OwnInv, TypeOK, LockInv
  <2>2. Unsent = can[c] /\ Unsent' = can[c] - 1 /\ Dialing' = Dialing
    BY <2>1, <1>0 DEF Unsent, Dialing
  <2>3. \A d \in Clients : pc[d] # "close"
    BY <1>10, <2>1, <1>0 DEF MaybeOpenNew, OwnInv, LockInv
  <2>4. Dialing \in {0, 1}
    BY DEF Dialing
  <2>5. Pending' = Pending
    BY <2>1, <2>2, <2>4, <1>0 DEF Pending
  <2> QED BY <2>1, <2>3, <2>5 DEF CountInv, OrderInv, Limit, Loading, Closing
<1>11. ASSUME NEW c \in Clients, GetConn(c) PROVE OrderInv'
  <2>1. /\ mu = c /\ can[c] = 0 /\ mu' = NoClient
        /\ UNCHANGED <<openCh, numOpen, opc, oseen, seen, can, overlaps>>
        /\ \A d \in Clients : pc'[d] = "close" => pc[d] = "close"
    BY <1>11 DEF GetConn, Selecting, channels, openerVars, OwnInv, TypeOK, LockInv
  <2>2. Unsent = 0 /\ Unsent' = 0 /\ Dialing' = Dialing
    BY <2>1, <1>0 DEF Unsent, Dialing
  <2> QED BY <2>1, <2>2, <1>0 DEF CountInv, OrderInv, Pending, Limit, Loading, Closing
<1>12. ASSUME NEW c \in Clients, GetTick(c) PROVE OrderInv'
  <2>1. /\ UNCHANGED <<mu, openCh, numOpen, opc, oseen, seen, can, overlaps>>
        /\ \A d \in Clients : pc'[d] = "close" => pc[d] = "close"
    BY <1>12 DEF GetTick, Selecting, openerVars, OwnInv, TypeOK
  <2>2. Pending' = Pending
    BY <2>1 DEF Pending, Unsent, Dialing
  <2> QED BY <2>1, <2>2 DEF CountInv, OrderInv, Limit, Loading, Closing, Dialing
<1>13. ASSUME NEW c \in Clients, GetNil(c) PROVE OrderInv'
  <2>1. /\ mu = c /\ can[c] = 0 /\ mu' = NoClient
        /\ UNCHANGED <<openCh, numOpen, opc, oseen, seen, can, overlaps>>
        /\ \A d \in Clients : pc'[d] = "close" => pc[d] = "close"
    BY <1>13 DEF GetNil, Selecting, channels, openerVars, OwnInv, TypeOK, LockInv
  <2>2. Unsent = 0 /\ Unsent' = 0 /\ Dialing' = Dialing
    BY <2>1, <1>0 DEF Unsent, Dialing
  <2> QED BY <2>1, <2>2, <1>0 DEF CountInv, OrderInv, Pending, Limit, Loading, Closing
<1>14. ASSUME NEW c \in Clients, NEW ok \in BOOLEAN, QueryDone(c, ok) PROVE OrderInv'
  <2>1. /\ UNCHANGED <<mu, openCh, numOpen, opc, oseen, seen, can, overlaps>>
        /\ \A d \in Clients : pc'[d] = "close" => pc[d] = "close"
    BY <1>14 DEF QueryDone, channels, openerVars, OwnInv, TypeOK
  <2>2. Pending' = Pending
    BY <2>1 DEF Pending, Unsent, Dialing
  <2> QED BY <2>1, <2>2 DEF CountInv, OrderInv, Limit, Loading, Closing, Dialing
<1>15. ASSUME NEW c \in Clients, NEW ok \in BOOLEAN, PrepareDone(c, ok) PROVE OrderInv'
  <2>1. /\ UNCHANGED <<mu, openCh, numOpen, opc, oseen, seen, can, overlaps>>
        /\ \A d \in Clients : pc'[d] = "close" => pc[d] = "close"
    BY <1>15 DEF PrepareDone, channels, openerVars, OwnInv, TypeOK
  <2>2. Pending' = Pending
    BY <2>1 DEF Pending, Unsent, Dialing
  <2> QED BY <2>1, <2>2 DEF CountInv, OrderInv, Limit, Loading, Closing, Dialing
<1>16. ASSUME NEW c \in Clients, StmtClose(c) PROVE OrderInv'
  <2>1. /\ UNCHANGED <<mu, openCh, numOpen, opc, oseen, seen, can, overlaps>>
        /\ \A d \in Clients : pc'[d] = "close" => pc[d] = "close"
    BY <1>16 DEF StmtClose, channels, openerVars, OwnInv, TypeOK
  <2>2. Pending' = Pending
    BY <2>1 DEF Pending, Unsent, Dialing
  <2> QED BY <2>1, <2>2 DEF CountInv, OrderInv, Limit, Loading, Closing, Dialing
<1>17. ASSUME NEW c \in Clients, PutConn(c) PROVE OrderInv'
  <2>1. /\ UNCHANGED <<mu, openCh, numOpen, opc, oseen, seen, can, overlaps>>
        /\ \A d \in Clients : pc'[d] = "close" => pc[d] = "close"
    BY <1>17 DEF PutConn, openerVars, OwnInv, TypeOK
  <2>2. Pending' = Pending
    BY <2>1 DEF Pending, Unsent, Dialing
  <2> QED BY <2>1, <2>2 DEF CountInv, OrderInv, Limit, Loading, Closing, Dialing
<1>18. ASSUME NEW c \in Clients, PutLoad(c) PROVE OrderInv'
  <2>1. /\ mu = NoClient /\ mu' = c /\ pc' = [pc EXCEPT ![c] = "close"]
        /\ seen' = [seen EXCEPT ![c] = numOpen]
        /\ UNCHANGED <<openCh, numOpen, opc, oseen, can>>
        /\ overlaps' \in {overlaps, overlaps + 1}
    BY <1>18 DEF PutLoad, LoadNumOpen, channels, openerVars
  <2>2. Unsent = 0 /\ can[c] = 0 /\ Unsent' = 0 /\ Dialing' = Dialing /\ Dialing \in {0, 1}
    BY <1>18, <2>1, <1>0 DEF PutLoad, Unsent, Dialing, OwnInv, PlaceInv
  <2>3. \A d \in Clients : pc'[d] = "close" => d = c
    BY <2>1, <1>0 DEF OwnInv, TypeOK, LockInv
  <2>4. seen'[c] = numOpen
    BY <2>1 DEF OwnInv, TypeOK
  <2>5. Pending' = Pending /\ Pending = openCh + Dialing /\ Pending \in Nat
    BY <2>1, <2>2, <1>0 DEF Pending
  <2>6. Limit' >= Limit /\ Limit \in Nat /\ Limit' \in Nat
    <3>1. CASE overlaps' = overlaps
      BY <3>1, <1>0 DEF Limit
    <3>2. CASE overlaps' = overlaps + 1
      BY <3>2, <1>0 DEF Limit
    <3> QED BY <2>1, <3>1, <3>2
  <2>7. numOpen' + Pending' <= Limit'
    BY <2>1, <2>5, <2>6, <1>0 DEF CountInv, OrderInv
  <2>8. Loading' => oseen' + Pending' <= Limit'
    BY <2>1, <2>5, <2>6, <1>0 DEF CountInv, OrderInv, Loading
  <2>9. seen'[c] + openCh' + Dialing' <= Limit'
    BY <2>1, <2>2, <2>4, <2>5, <2>7, <1>0
  <2> QED BY <2>3, <2>7, <2>8, <2>9 DEF OrderInv, Closing
<1>19. ASSUME NEW c \in Clients, PutStore(c) PROVE OrderInv'
  <2>1. /\ pc[c] = "close" /\ mu' = NoClient /\ pc' = [pc EXCEPT ![c] = "idle"]
        /\ numOpen' = seen[c] - 1
        /\ UNCHANGED <<openCh, opc, oseen, overlaps>>
    BY <1>19 DEF PutStore, channels, openerVars
  <2>2. Unsent' = 0 /\ Unsent \in Nat /\ Dialing' = Dialing /\ Dialing \in {0, 1}
    BY <2>1, CountTypes DEF Unsent, Dialing
  <2>3. \A d \in Clients : pc'[d] # "close"
    BY <2>1, <1>0 DEF OwnInv, TypeOK, LockInv
  <2>4. seen[c] + openCh + Dialing <= Limit
    BY <2>1 DEF CountInv, OrderInv, Closing
  <2>5. numOpen' + Pending' <= Limit'
    BY <2>1, <2>2, <2>4, <1>0 DEF Pending, Limit
  <2>6. Loading' => oseen' + Pending' <= Limit'
    BY <2>1, <2>2, <1>0 DEF CountInv, OrderInv, Pending, Limit, Loading
  <2> QED BY <2>3, <2>5, <2>6 DEF OrderInv, Closing
<1>20. CASE UNCHANGED vars
  BY <1>20 DEF vars, channels, openerVars, locals, CountInv, OrderInv, Pending, Dialing, Unsent, Limit, Loading, Closing
<1>21. CASE Opener
  BY <1>21, <1>3, <1>4, <1>5, <1>6, <1>7 DEF Opener
<1>22. ASSUME NEW c \in Clients, Client(c) PROVE OrderInv'
  BY <1>22, <1>8, <1>9, <1>10, <1>11, <1>12, <1>13, <1>14, <1>15, <1>16, <1>17, <1>18, <1>19 DEF Client
<1> QED
  BY <1>1, <1>2, <1>20, <1>21, <1>22 DEF Next

(* The steps that take no new place in a channel while a client is sending. *)
LEMMA RoomFrame ==
  ASSUME OwnInv, RoomInv, Room \in Int, Room' \in Int, Room' <= Room,
         UNCHANGED can, overlaps \in Nat, overlaps' \in {overlaps, overlaps + 1},
         \A c \in Clients : pc'[c] = "get" => pc[c] = "get"
  PROVE  RoomInv'
<1> SUFFICES ASSUME overlaps' = 0, NEW c \in Clients, pc'[c] = "get", can'[c] > 0
             PROVE  Room' + can'[c] <= 2 * MaxOpen + 1
  BY DEF RoomInv
<1>1. overlaps = 0 /\ can'[c] = can[c] /\ can[c] \in Nat
  BY DEF OwnInv, TypeOK
<1>2. Room + can[c] <= 2 * MaxOpen + 1
  BY <1>1 DEF RoomInv
<1>3. MaxOpen \in Nat
  BY PoolAssumption
<1> QED BY <1>1, <1>2, <1>3

(* The steps of the opener and of the other clients take no place that a  *)
(* sending getConn needs.                                                  *)
LEMMA RoomNext == OwnInv /\ CountInv /\ [Next]_vars => RoomInv'
<1> SUFFICES ASSUME OwnInv /\ CountInv, [Next]_vars PROVE RoomInv'
  OBVIOUS
<1>0. /\ openCh \in 0..MaxOpen /\ MaxOpen \in Nat \ {0} /\ overlaps \in Nat
      /\ Len(freeConn) \in 0..MaxOpen /\ Sending \in {0, 1} /\ Dialing \in {0, 1}
      /\ numOpen \in Int /\ \A c \in Clients : can[c] \in Nat
      /\ NoClient \notin Clients
  BY CountTypes, PoolAssumption
<1>1. CASE OpenSend
  <2>1. \A d \in Clients : pc'[d] = "idle"
    BY <1>1, PoolAssumption DEF OpenSend, locals, OwnInv, TypeOK, CountInv, BootInv
  <2> QED BY <2>1 DEF RoomInv
<1>2. CASE TickerFires
  <2>1. /\ UNCHANGED <<freeConn, openCh, opc, can>> /\ overlaps' \in {overlaps, overlaps + 1}
        /\ \A d \in Clients : pc'[d] = "get" => pc[d] = "get"
    BY <1>2 DEF TickerFires, openerVars, locals, OwnInv, TypeOK
  <2>2. Room' = Room /\ Room \in Int
    BY <2>1, <1>0 DEF Room, Sending, Dialing
  <2> QED BY <2>1, <2>2, <1>0, RoomFrame DEF CountInv
<1>3. CASE OpenerRecv
  <2>1. /\ opc = "recv" /\ opc' = "dial" /\ openCh' = openCh - 1 /\ freeConn' = freeConn
        /\ UNCHANGED <<pc, can>> /\ overlaps' \in {overlaps, overlaps + 1}
    BY <1>3 DEF OpenerRecv, locals
  <2>2. Room' <= Room /\ Room \in Int /\ Room' \in Int
    BY <2>1, <1>0 DEF Room, Sending, Dialing
  <2> QED BY <2>1, <2>2, <1>0, RoomFrame DEF CountInv
<1>4. CASE NewConnFails
  <2>1. /\ opc = "dial" /\ opc' = "recv" /\ UNCHANGED <<openCh, freeConn>>
        /\ UNCHANGED <<pc, can>> /\ overlaps' \in {overlaps, overlaps + 1}
    BY <1>4 DEF NewConnFails, channels, locals
  <2>2. Room' <= Room /\ Room \in Int /\ Room' \in Int
    BY <2>1, <1>0 DEF Room, Sending, Dialing
  <2> QED BY <2>1, <2>2, <1>0, RoomFrame DEF CountInv
<1>5. CASE NewConnLoad
  <2>1. /\ opc = "dial" /\ opc' = "store" /\ UNCHANGED <<openCh, freeConn>>
        /\ UNCHANGED <<pc, can>> /\ overlaps' \in {overlaps, overlaps + 1}
    BY <1>5 DEF NewConnLoad, LoadNumOpen, channels, locals
  <2>2. Room' <= Room /\ Room \in Int /\ Room' \in Int
    BY <2>1, <1>0 DEF Room, Sending, Dialing
  <2> QED BY <2>1, <2>2, <1>0, RoomFrame DEF CountInv
<1>6. CASE NewConnStore
  <2>1. /\ opc = "store" /\ opc' = "send" /\ UNCHANGED <<openCh, freeConn>>
        /\ UNCHANGED <<pc, can>> /\ overlaps' \in {overlaps, overlaps + 1}
    BY <1>6 DEF NewConnStore, channels, locals
  <2>2. Room' <= Room /\ Room \in Int /\ Room' \in Int
    BY <2>1, <1>0 DEF Room, Sending, Dialing
  <2> QED BY <2>1, <2>2, <1>0, RoomFrame DEF CountInv
<1>7. CASE OpenerSend
  <2>1. /\ opc = "send" /\ opc' = "recv" /\ UNCHANGED <<openCh, pc, can, overlaps>>
        /\ oconn \in Conns /\ freeConn' = Append(freeConn, oconn)
    BY <1>7 DEF OpenerSend, locals, OwnInv, TypeOK, PlaceInv
  <2>2. Len(freeConn') = Len(freeConn) + 1
    BY <2>1, RangeAppend DEF OwnInv, TypeOK
  <2>3. Room' = Room /\ Room \in Int
    BY <2>1, <2>2, <1>0 DEF Room, Sending, Dialing
  <2> QED BY <2>1, <2>3, <1>0, RoomFrame DEF CountInv
<1>8. ASSUME NEW c \in Clients, NEW o \in {"query", "prepare"}, Begin(c, o) PROVE RoomInv'
  <2>1. /\ UNCHANGED <<freeConn, openCh, opc, can>> /\ overlaps' \in {overlaps, overlaps + 1}
        /\ \A d \in Clients : pc'[d] = "get" => pc[d] = "get"
    BY <1>8 DEF Begin, channels, openerVars, OwnInv, TypeOK
  <2>2. Room' = Room /\ Room \in Int
    BY <2>1, <1>0 DEF Room, Sending, Dialing
  <2> QED BY <2>1, <2>2, <1>0, RoomFrame DEF CountInv
<1>9. ASSUME NEW c \in Clients, GetLock(c) PROVE RoomInv'
  <2> SUFFICES ASSUME overlaps' = 0, NEW d \in Clients, pc'[d] = "get", can'[d] > 0
               PROVE  Room' + can'[d] <= 2 * MaxOpen + 1
    BY DEF RoomInv
  <2>1. d = c /\ overlaps = 0
    BY <1>9, <1>0 DEF GetLock, LockAndOrder, OwnInv, TypeOK, LockInv
  <2>2. can'[c] = MaxOpen - numOpen
    BY <1>9, <2>1, <1>0 DEF GetLock, LockAndOrder, OwnInv, TypeOK
  <2>3. Len(freeConn) + Sending <= numOpen
    BY <2>1, <1>0, ClientSets DEF Live, CountInv, BalanceInv
  <2>4. Room' = Room
    BY <1>9 DEF GetLock, LockAndOrder, channels, openerVars, Room, Sending, Dialing
  <2>5. Room + can'[c] <= 2 * MaxOpen + 1
    BY <2>2, <2>3, <1>0 DEF Room
  <2> QED BY <2>1, <2>4, <2>5
<1>10. ASSUME NEW c \in Clients, MaybeOpenNew(c) PROVE RoomInv'
  <2> SUFFICES ASSUME overlaps' = 0, NEW d \in Clients, pc'[d] = "get", can'[d] > 0
               PROVE  Room' + can'[d] <= 2 * MaxOpen + 1
    BY DEF RoomInv
  <2>1. d = c /\ overlaps = 0
    BY <1>10 DEF MaybeOpenNew, OwnInv, TypeOK, LockInv
  <2>2. can'[c] = can[c] - 1 /\ can[c] > 0 /\ pc[c] = "get" /\ openCh' = openCh + 1
    BY <1>10 DEF MaybeOpenNew, OwnInv, TypeOK
  <2>3. Sending' = Sending /\ Dialing' = Dialing /\ freeConn' = freeConn
    BY <1>10 DEF MaybeOpenNew, openerVars, Sending, Dialing
  <2>4. Room + can[c] <= 2 * MaxOpen + 1
    BY <2>1, <2>2 DEF CountInv, RoomInv
  <2>5. Room' = Room + 1 /\ Room \in Int
    BY <2>2, <2>3, <1>0 DEF Room
  <2> QED BY <2>1, <2>2, <2>4, <2>5, <1>0
<1>11. ASSUME NEW c \in Clients, GetConn(c) PROVE RoomInv'
  <2>1. /\ UNCHANGED <<opc, openCh, can, overlaps>> /\ freeConn' = Tail(freeConn) /\ freeConn # <<>>
        /\ \A d \in Clients : pc'[d] = "get" => pc[d] = "get"
    BY <1>11 DEF GetConn, openerVars, OwnInv, TypeOK
  <2>2. Len(freeConn') = Len(freeConn) - 1
    BY <2>1, RangeTail DEF OwnInv, TypeOK
  <2>3. Room' = Room - 1 /\ Room \in Int
    BY <2>1, <2>2, <1>0 DEF Room, Sending, Dialing
  <2> QED BY <2>1, <2>3, <1>0, RoomFrame DEF CountInv
<1>12. ASSUME NEW c \in Clients, GetTick(c) PROVE RoomInv'
  <2>1. /\ UNCHANGED <<freeConn, openCh, opc, can>> /\ overlaps' \in {overlaps, overlaps + 1}
        /\ \A d \in Clients : pc'[d] = "get" => pc[d] = "get"
    BY <1>12 DEF GetTick, Selecting, openerVars, OwnInv, TypeOK
  <2>2. Room' = Room /\ Room \in Int
    BY <2>1, <1>0 DEF Room, Sending, Dialing
  <2> QED BY <2>1, <2>2, <1>0, RoomFrame DEF CountInv
<1>13. ASSUME NEW c \in Clients, GetNil(c) PROVE RoomInv'
  <2>1. /\ UNCHANGED <<freeConn, openCh, opc, can>> /\ overlaps' \in {overlaps, overlaps + 1}
        /\ \A d \in Clients : pc'[d] = "get" => pc[d] = "get"
    BY <1>13 DEF GetNil, Selecting, channels, openerVars, OwnInv, TypeOK
  <2>2. Room' = Room /\ Room \in Int
    BY <2>1, <1>0 DEF Room, Sending, Dialing
  <2> QED BY <2>1, <2>2, <1>0, RoomFrame DEF CountInv
<1>14. ASSUME NEW c \in Clients, NEW ok \in BOOLEAN, QueryDone(c, ok) PROVE RoomInv'
  <2>1. /\ UNCHANGED <<freeConn, openCh, opc, can>> /\ overlaps' \in {overlaps, overlaps + 1}
        /\ \A d \in Clients : pc'[d] = "get" => pc[d] = "get"
    BY <1>14 DEF QueryDone, channels, openerVars, OwnInv, TypeOK
  <2>2. Room' = Room /\ Room \in Int
    BY <2>1, <1>0 DEF Room, Sending, Dialing
  <2> QED BY <2>1, <2>2, <1>0, RoomFrame DEF CountInv
<1>15. ASSUME NEW c \in Clients, NEW ok \in BOOLEAN, PrepareDone(c, ok) PROVE RoomInv'
  <2>1. /\ UNCHANGED <<freeConn, openCh, opc, can>> /\ overlaps' \in {overlaps, overlaps + 1}
        /\ \A d \in Clients : pc'[d] = "get" => pc[d] = "get"
    BY <1>15 DEF PrepareDone, channels, openerVars, OwnInv, TypeOK
  <2>2. Room' = Room /\ Room \in Int
    BY <2>1, <1>0 DEF Room, Sending, Dialing
  <2> QED BY <2>1, <2>2, <1>0, RoomFrame DEF CountInv
<1>16. ASSUME NEW c \in Clients, StmtClose(c) PROVE RoomInv'
  <2>1. /\ UNCHANGED <<freeConn, openCh, opc, can>> /\ overlaps' \in {overlaps, overlaps + 1}
        /\ \A d \in Clients : pc'[d] = "get" => pc[d] = "get"
    BY <1>16 DEF StmtClose, channels, openerVars, OwnInv, TypeOK
  <2>2. Room' = Room /\ Room \in Int
    BY <2>1, <1>0 DEF Room, Sending, Dialing
  <2> QED BY <2>1, <2>2, <1>0, RoomFrame DEF CountInv
<1>17. ASSUME NEW c \in Clients, PutConn(c) PROVE RoomInv'
  <2>1. \A d \in Clients : pc'[d] # "get"
    BY <1>17, <1>0 DEF PutConn, OwnInv, TypeOK, LockInv
  <2> QED BY <2>1 DEF RoomInv
<1>18. ASSUME NEW c \in Clients, PutLoad(c) PROVE RoomInv'
  <2>1. /\ UNCHANGED <<freeConn, openCh, opc, can>> /\ overlaps' \in {overlaps, overlaps + 1}
        /\ \A d \in Clients : pc'[d] = "get" => pc[d] = "get"
    BY <1>18 DEF PutLoad, LoadNumOpen, channels, openerVars, OwnInv, TypeOK
  <2>2. Room' = Room /\ Room \in Int
    BY <2>1, <1>0 DEF Room, Sending, Dialing
  <2> QED BY <2>1, <2>2, <1>0, RoomFrame DEF CountInv
<1>19. ASSUME NEW c \in Clients, PutStore(c) PROVE RoomInv'
  <2>1. /\ UNCHANGED <<freeConn, openCh, opc, can>> /\ overlaps' \in {overlaps, overlaps + 1}
        /\ \A d \in Clients : pc'[d] = "get" => pc[d] = "get"
    BY <1>19 DEF PutStore, channels, openerVars, OwnInv, TypeOK
  <2>2. Room' = Room /\ Room \in Int
    BY <2>1, <1>0 DEF Room, Sending, Dialing
  <2> QED BY <2>1, <2>2, <1>0, RoomFrame DEF CountInv
<1>20. CASE UNCHANGED vars
  BY <1>20 DEF vars, channels, openerVars, locals, CountInv, RoomInv, Room, Sending, Dialing
<1>21. CASE Opener
  BY <1>21, <1>3, <1>4, <1>5, <1>6, <1>7 DEF Opener
<1>22. ASSUME NEW c \in Clients, Client(c) PROVE RoomInv'
  BY <1>22, <1>8, <1>9, <1>10, <1>11, <1>12, <1>13, <1>14, <1>15, <1>16, <1>17, <1>18, <1>19 DEF Client
<1> QED
  BY <1>1, <1>2, <1>20, <1>21, <1>22 DEF Next

-----------------------------------------------------------------------------
(* numOpen stays in its relation to the open and ordered connections, throughout
   (newConn, maybeOpenNew, putConn). *)
THEOREM CountInvariance == Spec => [](OwnInv /\ CountInv)
<1>1. Init => OwnInv /\ CountInv
  BY OwnInvInit, CountInit
<1>2. OwnInv /\ CountInv /\ [Next]_vars => (OwnInv /\ CountInv)'
  <2>1. OwnInv /\ [Next]_vars => OwnInv'
    BY TypeNext, PlaceNext, ExclusiveNext DEF OwnInv
  <2> QED BY <2>1, BootNext, NumNext, OrderNext, RoomNext DEF CountInv
<1> QED BY <1>1, <1>2, PTL DEF Spec

(* However many clients get, pin and give back connections, and wherever    *)
(* the opener is, m.numOpen is at least the number of connections that      *)
(* newConn counted and that are still in use or in the pool, minus one per  *)
(* lost update.                                                             *)
THEOREM NumOpenSound == Spec => []Accounting
<1>1. CountInv => Accounting
  BY DEF CountInv, BalanceInv, Accounting
<1> QED BY <1>1, CountInvariance, PTL

(* maybeOpenNew never orders beyond twice maxOpen plus one (plus one per    *)
(* lost update), though it does not look at what is already on order.       *)
THEOREM OvershootBounded == Spec => []Overshoot
<1>1. CountInv => Overshoot
  BY DEF CountInv, OrderInv, Limit, Overshoot
<1> QED BY <1>1, CountInvariance, PTL

(* The opener and the lock holder in getConn are never blocked on each      *)
(* other's channel, unless an update of m.numOpen was lost.                 *)
THEOREM NoMutualBlocking == Spec => []NoCircularWait
<1>1. OwnInv /\ CountInv => NoCircularWait
  <2> SUFFICES ASSUME OwnInv, CountInv, overlaps = 0, CircularWait PROVE FALSE
    BY DEF NoCircularWait
  <2>1. PICK c \in Clients : pc[c] = "get" /\ can[c] > 0 /\ openCh = MaxOpen
    BY DEF CircularWait
  <2>2. Sending = 1 /\ Dialing = 0 /\ Len(freeConn) = MaxOpen
    BY DEF CircularWait, Sending, Dialing
  <2>3. Room + can[c] <= 2 * MaxOpen + 1
    BY <2>1 DEF CountInv, RoomInv
  <2>4. can[c] \in Nat /\ MaxOpen \in Nat
    BY CountTypes
  <2> QED BY <2>1, <2>2, <2>3, <2>4 DEF Room
<1> QED BY <1>1, CountInvariance, PTL

-----------------------------------------------------------------------------
(* Calls that are under way, and the guards of the steps of the opener and  *)
(* of a call.                                                               *)
Calling(c) == pc[c] \in {"lock", "get", "put", "close"}

OpenerReady ==
  \/ opc = "recv" /\ openCh > 0
  \/ opc = "store"
  \/ opc = "send" /\ Len(freeConn) < MaxOpen

CallReady(c) ==
  \/ pc[c] = "lock" /\ mu = NoClient
  \/ pc[c] = "get" /\ (can[c] = 0 \/ openCh < MaxOpen)
  \/ pc[c] = "put" /\ mu = NoClient /\ (Len(freeConn) < MaxOpen \/ opc # "store")
  \/ pc[c] = "close"

NeverStuck ==
  overlaps = 0 /\ opc # "dial" =>
    /\ mu # NoClient => CallReady(mu) \/ OpenerReady
    /\ (\E c \in Clients : Calling(c)) => OpenerReady \/ \E c \in Clients : CallReady(c)

(* The holder of m.mu, or the opener it waits for, can always go on, and    *)
(* one of them when any getConn or putConn is under way: the mutex and the  *)
(* two channels do not make everybody wait, unless an update of m.numOpen   *)
(* was lost or newConn has no answer.                                       *)
THEOREM PoolNeverStuck == Spec => []NeverStuck
<1>1. OwnInv /\ NoCircularWait => NeverStuck
  <2> SUFFICES ASSUME OwnInv, ~CircularWait, opc # "dial"
               PROVE  /\ mu # NoClient => CallReady(mu) \/ OpenerReady
                      /\ (\E c \in Clients : Calling(c)) => OpenerReady \/ \E c \in Clients : CallReady(c)
    BY DEF NoCircularWait, NeverStuck
  <2>0. /\ TypeOK /\ LockInv /\ openCh \in 0..MaxOpen /\ MaxOpen \in Nat \ {0}
        /\ Len(freeConn) \in Nat /\ Len(freeConn) <= MaxOpen
        /\ \A c \in Clients : can[c] \in Nat
    BY CountTypes DEF OwnInv, TypeOK
  <2>1. ASSUME NEW c \in Clients, mu = c PROVE CallReady(c) \/ OpenerReady
    <3>1. pc[c] \in {"get", "close"}
      BY <2>0, <2>1 DEF LockInv
    <3>2. CASE pc[c] = "get" /\ can[c] > 0 /\ openCh = MaxOpen
      <4>1. opc \in {"recv", "store", "send"}
        BY <2>0 DEF TypeOK
      <4>2. opc = "send" => Len(freeConn) < MaxOpen
        BY <2>0, <3>2 DEF CircularWait
      <4> QED BY <2>0, <3>2, <4>1, <4>2 DEF OpenerReady
    <3> QED BY <2>0, <3>1, <3>2 DEF CallReady
  <2>2. ASSUME NEW c \in Clients, Calling(c), mu = NoClient PROVE CallReady(c) \/ OpenerReady
    <3>1. pc[c] \notin {"get", "close"}
      BY <2>0, <2>2, PoolAssumption DEF LockInv
    <3> QED BY <2>2, <3>1 DEF Calling, CallReady, OpenerReady
  <2>3. mu \in Clients \cup {NoClient}
    BY <2>0 DEF TypeOK
  <2> QED BY <2>1, <2>2, <2>3
<1> QED BY <1>1, OwnInvariance, NoMutualBlocking, PTL

-----------------------------------------------------------------------------
(* How far the holder of m.mu is from unlocking it: the tokens that it has  *)
(* to send, the rounds of getConn's loop, and the opener's work.            *)
OpenerStage ==
  CASE opc = "recv" -> 0 [] opc = "send" -> 1 [] opc = "store" -> 2 [] opc = "dial" -> 3

Work == <<can[mu], try[mu], 4 * openCh + OpenerStage>>

(* In the lexicographic order. *)
Nearer == \E i \in 1..3 : Work'[i] < Work[i] /\ \A j \in 1..i - 1 : Work'[j] = Work[j]

LEMMA NearerIs ==
  /\ can'[mu'] < can[mu] => Nearer
  /\ can'[mu'] = can[mu] /\ try'[mu'] < try[mu] => Nearer
  /\ can'[mu'] = can[mu] /\ try'[mu'] = try[mu]
       /\ 4 * openCh' + OpenerStage' < 4 * openCh + OpenerStage => Nearer
<1>1. ASSUME can'[mu'] < can[mu] PROVE Nearer
  BY <1>1 DEF Nearer, Work
<1>2. ASSUME can'[mu'] = can[mu], try'[mu'] < try[mu] PROVE Nearer
  BY <1>2 DEF Nearer, Work
<1>3. ASSUME can'[mu'] = can[mu], try'[mu'] = try[mu],
             4 * openCh' + OpenerStage' < 4 * openCh + OpenerStage
      PROVE  Nearer
  BY <1>3 DEF Nearer, Work
<1> QED BY <1>1, <1>2, <1>3

(* A token is worth more than the stages that follow its receipt. *)
LEMMA Weighing ==
  \A a, b \in Nat, s, t \in 0..3 :
    (b = a - 1 /\ s = 0 /\ t = 3) \/ (b = a /\ t < s) => 4 * b + t < 4 * a + s
OBVIOUS

(* The opener's steps while m.mu is held. *)
LEMMA OpenerNearer == ASSUME OwnInv, Opener, mu' = mu PROVE Nearer
<1>1. UNCHANGED <<can, try>>
  BY DEF Opener, OpenerRecv, NewConnFails, NewConnLoad, NewConnStore, OpenerSend, locals
<1>2. openCh \in Nat /\ openCh' \in Nat
  <2>1. TypeOK /\ TypeOK'
    BY TypeNext DEF Next, OwnInv
  <2> QED BY <2>1, PoolAssumption DEF TypeOK
<1>3. /\ OpenerStage \in 0..3 /\ OpenerStage' \in 0..3
      /\ \/ openCh' = openCh - 1 /\ OpenerStage = 0 /\ OpenerStage' = 3
         \/ openCh' = openCh /\ OpenerStage' < OpenerStage
  <2>1. CASE OpenerRecv
    BY <2>1 DEF OpenerRecv, OpenerStage
  <2>2. CASE NewConnFails
    BY <2>2 DEF NewConnFails, OpenerStage, channels
  <2>3. CASE NewConnLoad
    BY <2>3 DEF NewConnLoad, OpenerStage, channels
  <2>4. CASE NewConnStore
    BY <2>4 DEF NewConnStore, OpenerStage, channels
  <2>5. CASE OpenerSend
    BY <2>5 DEF OpenerSend, OpenerStage
  <2> QED BY <2>1, <2>2, <2>3, <2>4, <2>5 DEF Opener
<1>4. 4 * openCh' + OpenerStage' < 4 * openCh + OpenerStage
  BY <1>2, <1>3, Weighing, Zenon
<1> QED BY <1>1, <1>4, NearerIs

(* The holder's own, and those of the other clients. *)
LEMMA ClientNearer ==
  ASSUME OwnInv, NEW c \in Clients, Client(c), mu \in Clients, mu' = mu
  PROVE  IF c = mu THEN Nearer ELSE Nearer \/ UNCHANGED Work
<1>0. /\ can \in [Clients -> Nat] /\ try \in [Clients -> 0..MaxTry] /\ NoClient \notin Clients
      /\ MaxTry \in Nat
      /\ c = mu <=> pc[c] \in {"get", "close"}
  BY PoolAssumption DEF OwnInv, TypeOK, LockInv
<1>1. CASE MaybeOpenNew(c)
  <2>1. can' = [can EXCEPT ![c] = @ - 1] /\ c = mu
    BY <1>0, <1>1 DEF MaybeOpenNew
  <2>2. can'[mu'] < can[mu]
    BY <1>0, <2>1
  <2> QED BY <2>2, NearerIs
<1>2. CASE GetTick(c)
  <2>1. can' = can /\ try' = [try EXCEPT ![c] = @ - 1] /\ c = mu
    BY <1>0, <1>2 DEF GetTick, Selecting
  <2>2. try'[mu'] < try[mu]
    BY <1>0, <2>1
  <2> QED BY <2>1, <2>2, NearerIs
<1>3. CASE GetConn(c) \/ GetNil(c) \/ PutStore(c)
  BY <1>0, <1>3 DEF GetConn, GetNil, PutStore
<1>4. CASE GetLock(c) \/ PutLoad(c)
  BY <1>0, <1>4 DEF GetLock, LockAndOrder, PutLoad
<1>5. CASE \/ \E o \in {"query", "prepare"} : Begin(c, o)
           \/ \E ok \in BOOLEAN : QueryDone(c, ok) \/ PrepareDone(c, ok)
           \/ StmtClose(c) \/ PutConn(c)
  <2>1. c # mu
    BY <1>0, <1>5 DEF Begin, QueryDone, PrepareDone, StmtClose, PutConn
  <2>2. UNCHANGED <<can, try, openCh, opc>>
    BY <1>5 DEF Begin, QueryDone, PrepareDone, StmtClose, PutConn, channels, openerVars
  <2> QED BY <2>1, <2>2 DEF Work, OpenerStage
<1> QED BY <1>1, <1>2, <1>3, <1>4, <1>5 DEF Client

(* While a getConn or putConn holds m.mu, each step of it and of the opener *)
(* brings it nearer to unlocking, and no step of anybody leads away.        *)
LockGoesOn ==
  [][mu # NoClient /\ mu' = mu =>
       /\ Nearer \/ UNCHANGED Work
       /\ Opener \/ Client(mu) => Nearer]_vars

(* Work is in Nat^3, whose lexicographic order has no endless descent: no   *)
(* getConn holds m.mu for more than finitely many steps of it and of the    *)
(* opener, though the opener empties m.openCh while maybeOpenNew fills it,  *)
(* and other clients put connections back and come for the lock.            *)
THEOREM LocksGoOn == Spec => [](mu # NoClient => Work \in Nat \X Nat \X Nat) /\ LockGoesOn
<1>1. OwnInv => (mu # NoClient => Work \in Nat \X Nat \X Nat)
  <2> SUFFICES ASSUME OwnInv, mu # NoClient PROVE Work \in Nat \X Nat \X Nat
    OBVIOUS
  <2>1. mu \in Clients /\ openCh \in Nat /\ OpenerStage \in Nat /\ MaxTry \in Nat
    BY PoolAssumption DEF OwnInv, TypeOK, OpenerStage
  <2>2. can[mu] \in Nat /\ try[mu] \in Nat
    BY <2>1 DEF OwnInv, TypeOK
  <2> QED BY <2>1, <2>2 DEF Work
<1>2. OwnInv /\ CountInv /\ [Next]_vars =>
        [mu # NoClient /\ mu' = mu =>
           /\ Nearer \/ UNCHANGED Work
           /\ Opener \/ Client(mu) => Nearer]_vars
  <2> SUFFICES ASSUME OwnInv, CountInv, Next, mu # NoClient, mu' = mu
               PROVE  /\ Nearer \/ UNCHANGED Work
                      /\ Opener \/ Client(mu) => Nearer
    OBVIOUS
  <2>1. mu \in Clients
    BY DEF OwnInv, TypeOK
  <2>2. Opener \/ Client(mu) => Nearer
    BY <2>1, OpenerNearer, ClientNearer
  <2>3. ASSUME NEW c \in Clients, Client(c) PROVE Nearer \/ UNCHANGED Work
    BY <2>1, <2>3, ClientNearer
  <2>4. ~OpenSend
    BY PoolAssumption DEF CountInv, BootInv, OpenSend, OwnInv, TypeOK
  <2>5. TickerFires => UNCHANGED Work
    BY DEF TickerFires, openerVars, locals, Work, OpenerStage
  <2> QED BY <2>2, <2>3, <2>4, <2>5 DEF Next
<1> QED BY <1>1, <1>2, CountInvariance, PTL DEF Spec, LockGoesOn
=============================================================================
