---------------------------- MODULE ServerProofs ----------------------------
(***************************************************************************)
(* Proofs about the limit on the clients, for every number of connections  *)
(* and every maxClient: the counter's slots are exactly the ones that the  *)
(* connections hold, so no more than maxClient are in service, and the     *)
(* server uses its counter as a Counter.                                   *)
(***************************************************************************)
EXTENDS Server, FiniteSetTheorems, TLAPS

(* The inductive invariant: Decr needs the slot that SlotsHeld says its     *)
(* connection has, and Incr the type's bound on the slots.                 *)
SlotInv == TypeOK /\ SlotsHeld

(* No slot is held at the start. *)
LEMMA InitSlotInv == Init => SlotInv
<1> SUFFICES ASSUME Init PROVE SlotInv
  OBVIOUS
<1>1. TypeOK
  BY ServerAssumption DEF Init, TypeOK, Stages
<1>2. Holding = {}
  BY DEF Init, Holding
<1>3. SlotsHeld
  BY <1>2, FS_EmptySet DEF Init, SlotsHeld
<1> QED BY <1>1, <1>3 DEF SlotInv

(* A step that moves one connection between stages of the same side leaves  *)
(* the holders as they are.                                                 *)
LEMMA HoldersStay ==
  ASSUME TypeOK, NEW c \in Conns, NEW from, NEW to,
         Go(c, from, to),
         from \in {"granted", "handshake", "serving", "returned"}
           <=> to \in {"granted", "handshake", "serving", "returned"}
  PROVE  Holding' = Holding
BY DEF TypeOK, Go, Holding

(* A connection that is let in is one more holder of a slot. *)
LEMMA HolderComes ==
  ASSUME TypeOK, NEW c \in Conns, NEW from,
         Go(c, from, "granted"),
         from \notin {"granted", "handshake", "serving", "returned"}
  PROVE  Cardinality(Holding') = Cardinality(Holding) + 1
<1>1. Holding' = Holding \cup {c} /\ c \notin Holding
  BY DEF TypeOK, Go, Holding
<1>2. IsFiniteSet(Holding)
  BY ServerAssumption, FS_Subset DEF Holding
<1> QED BY <1>1, <1>2, FS_AddElement

(* Decr is where a connection stops to hold a slot. *)
LEMMA HolderGoes ==
  ASSUME TypeOK, NEW c \in Conns, NEW to,
         Go(c, "returned", to),
         to \notin {"granted", "handshake", "serving", "returned"}
  PROVE  Cardinality(Holding') = Cardinality(Holding) - 1
<1>1. Holding' = Holding \ {c} /\ c \in Holding
  BY DEF TypeOK, Go, Holding
<1>2. IsFiniteSet(Holding)
  BY ServerAssumption, FS_Subset DEF Holding
<1> QED BY <1>1, <1>2, FS_RemoveElement

(* Every step of accept loop, goroutines, clients and signal keeps the invariant. *)
LEMMA StepSlotInv == SlotInv /\ [Next]_vars => SlotInv'
<1> SUFFICES ASSUME SlotInv, [Next]_vars PROVE SlotInv'
  OBVIOUS
<1> USE ServerAssumption
<1>t. TypeOK /\ slots = Cardinality(Holding)
  BY DEF SlotInv, SlotsHeld
<1>1. ASSUME NEW c \in Conns, Connect(c) PROVE SlotInv'
  <2>1. TypeOK'
    BY <1>t, <1>1 DEF TypeOK, Connect, Go, Stages
  <2>2. Holding' = Holding
    BY <1>t, <1>1, HoldersStay DEF Connect
  <2> QED BY <1>t, <1>1, <2>1, <2>2 DEF Connect, SlotInv, SlotsHeld
<1>2. ASSUME NEW c \in Conns, HangUp(c) PROVE SlotInv'
  BY <1>t, <1>2 DEF TypeOK, HangUp, SlotInv, SlotsHeld, Holding
<1>3. ASSUME NEW c \in Conns, AcceptTCP(c) PROVE SlotInv'
  <2>1. TypeOK'
    BY <1>t, <1>3 DEF TypeOK, AcceptTCP, Go, Stages
  <2>2. Holding' = Holding
    BY <1>t, <1>3, HoldersStay DEF AcceptTCP
  <2> QED BY <1>t, <1>3, <2>1, <2>2 DEF AcceptTCP, SlotInv, SlotsHeld
<1>4. ASSUME NEW c \in Conns, Incr(c) PROVE SlotInv'
  <2>1. TypeOK'
    BY <1>t, <1>4 DEF TypeOK, Incr, Go, Stages
  <2>2. CASE slots < Max
    <3>1. Cardinality(Holding') = Cardinality(Holding) + 1
      BY <1>t, <1>4, <2>2, HolderComes DEF Incr
    <3> QED BY <1>t, <1>4, <2>1, <2>2, <3>1 DEF Incr, SlotInv, SlotsHeld
  <2>3. CASE ~(slots < Max)
    <3>1. Holding' = Holding
      BY <1>t, <1>4, <2>3, HoldersStay DEF Incr
    <3> QED BY <1>t, <1>4, <2>1, <2>3, <3>1 DEF Incr, SlotInv, SlotsHeld
  <2> QED BY <2>2, <2>3
<1>5. ASSUME NEW c \in Conns, RefuseConn(c) PROVE SlotInv'
  <2>1. TypeOK'
    BY <1>t, <1>5 DEF TypeOK, RefuseConn, Go, Stages
  <2>2. Holding' = Holding
    BY <1>t, <1>5, HoldersStay DEF RefuseConn
  <2> QED BY <1>t, <1>5, <2>1, <2>2 DEF RefuseConn, SlotInv, SlotsHeld
<1>6. ASSUME NEW c \in Conns, Spawn(c) PROVE SlotInv'
  <2>1. TypeOK'
    BY <1>t, <1>6 DEF TypeOK, Spawn, Go, Stages
  <2>2. Holding' = Holding
    BY <1>t, <1>6, HoldersStay DEF Spawn
  <2> QED BY <1>t, <1>6, <2>1, <2>2 DEF Spawn, SlotInv, SlotsHeld
<1>7. ASSUME NEW c \in Conns, Handshake(c) PROVE SlotInv'
  <2>1. TypeOK'
    BY <1>t, <1>7 DEF TypeOK, Handshake, Go, Stages
  <2>2. Holding' = Holding
    BY <1>t, <1>7, HoldersStay DEF Handshake
  <2> QED BY <1>t, <1>7, <2>1, <2>2 DEF Handshake, SlotInv, SlotsHeld
<1>8. ASSUME NEW c \in Conns, SessionReturns(c) PROVE SlotInv'
  <2>1. TypeOK'
    BY <1>t, <1>8 DEF TypeOK, SessionReturns, Go, Stages
  <2>2. Holding' = Holding
    BY <1>t, <1>8, HoldersStay DEF SessionReturns
  <2> QED BY <1>t, <1>8, <2>1, <2>2 DEF SessionReturns, SlotInv, SlotsHeld
<1>9. ASSUME NEW c \in Conns, Decr(c) PROVE SlotInv'
  <2>1. TypeOK'
    BY <1>t, <1>9 DEF TypeOK, Decr, Go, Stages
  <2>2. Cardinality(Holding') = Cardinality(Holding) - 1
    BY <1>t, <1>9, HolderGoes DEF Decr
  <2> QED BY <1>t, <1>9, <2>1, <2>2 DEF Decr, SlotInv, SlotsHeld
<1>10. ASSUME NEW c \in Conns, CloseConn(c) PROVE SlotInv'
  <2>1. TypeOK'
    BY <1>t, <1>10 DEF TypeOK, CloseConn, Go, Stages
  <2>2. Holding' = Holding
    BY <1>t, <1>10, HoldersStay DEF CloseConn
  <2> QED BY <1>t, <1>10, <2>1, <2>2 DEF CloseConn, SlotInv, SlotsHeld
<1>11. CASE Signal
  <2>0. /\ stage' = [c \in Conns |-> "out"] /\ cur' = None /\ slots' = 0
        /\ running' = FALSE /\ said' = said /\ there' = there
    BY <1>11 DEF Signal
  <2>a. \A c \in Conns : stage'[c] = "out" /\ cur' # c
    BY <2>0
  <2>1. TypeOK'
    <3>1. running' \in BOOLEAN /\ said' \in BOOLEAN /\ there' \subseteq Conns
      BY <1>t, <2>0 DEF TypeOK
    <3>2. stage' \in [Conns -> Stages] /\ cur' \in Conns \cup {None} /\ slots' \in 0..Max
      BY <2>0 DEF Stages
    <3> QED BY <2>a, <3>1, <3>2 DEF TypeOK
  <2>2. Holding' = {}
    BY <1>11 DEF Signal, Holding
  <2> QED BY <1>11, <2>1, <2>2, FS_EmptySet DEF Signal, SlotInv, SlotsHeld
<1>12. CASE UNCHANGED vars
  BY <1>t, <1>12 DEF vars, TypeOK, SlotInv, SlotsHeld, Holding
<1> QED BY <1>1, <1>2, <1>3, <1>4, <1>5, <1>6, <1>7, <1>8, <1>9, <1>10, <1>11, <1>12
        DEF Next, AcceptLoop, HandleClient

(* In every state the slots taken are those of the connections between a    *)
(* successful Incr and their Decr (SlotsHeld, of Run and handleClient).     *)
THEOREM SlotsConserved == Spec => [](TypeOK /\ SlotsHeld)
<1>1. SlotInv => TypeOK /\ SlotsHeld
  BY DEF SlotInv
<1> QED BY InitSlotInv, StepSlotInv, <1>1, PTL DEF Spec

(* No more than maxClient sessions run at a time (AtMostMax): the limit of  *)
(* the configuration holds though Incr, the refusals and the deferred Decr  *)
(* happen in different goroutines.                                          *)
THEOREM ClientsLimited == Spec => []AtMostMax
<1>1. SlotInv => AtMostMax
  <2> SUFFICES ASSUME SlotInv PROVE AtMostMax
    OBVIOUS
  <2> DEFINE Serving == {c \in Conns : stage[c] \in {"handshake", "serving"}}
  <2>1. Serving \subseteq Holding
    BY DEF Holding
  <2>2. IsFiniteSet(Holding)
    BY ServerAssumption, FS_Subset DEF Holding
  <2>3. Cardinality(Serving) <= Cardinality(Holding)
    BY <2>1, <2>2, FS_Subset
  <2>4. Cardinality(Serving) \in Nat /\ Cardinality(Holding) <= Max
    BY <2>1, <2>2, FS_Subset, FS_CardinalityType DEF SlotInv, TypeOK, SlotsHeld
  <2> QED BY <2>2, <2>3, <2>4, FS_CardinalityType, ServerAssumption DEF AtMostMax
<1> QED BY InitSlotInv, StepSlotInv, <1>1, PTL DEF Spec

(* Until the process exits, every step of the server is one that a Counter  *)
(* allows (KeepsCounter): it is only decreased by those that increased it,  *)
(* so ChanCount.Decr never waits.                                           *)
THEOREM CounterKept == Spec => KeepsCounter
<1>1. SlotInv /\ [Next]_vars => [running' => Promise!CNext]_<<slots, said>>
  <2> SUFFICES ASSUME SlotInv, Next, running', ~UNCHANGED <<slots, said>>
               PROVE  Promise!CNext
    BY DEF vars
  <2> USE ServerAssumption DEF SlotInv, TypeOK
  <2>1. \E c \in Conns : Incr(c) \/ Decr(c)
    BY DEF Next, AcceptLoop, HandleClient, Connect, HangUp, AcceptTCP, RefuseConn, Spawn,
           Handshake, SessionReturns, CloseConn, Signal
  <2>2. ASSUME NEW c \in Conns, Incr(c) PROVE Promise!CNext
    <3>1. CASE slots < Max
      <4>1. slots' = slots + 1 /\ said' = TRUE
        BY <2>2, <3>1 DEF Incr
      <4> QED BY <3>1, <4>1 DEF Promise!CNext, Promise!Grant
    <3>2. CASE ~(slots < Max)
      <4> DEFINE room == slots < Max
      <4>a. said' = room /\ room \in BOOLEAN /\ ~room
        BY <2>2, <3>2 DEF Incr
      <4> HIDE DEF room
      <4>b. said' = FALSE
        BY <4>a, Zenon
      <4>c. slots' = slots
        BY <2>2, <3>2 DEF Incr
      <4>2. slots = Max
        BY <3>2
      <4> QED BY <4>b, <4>c, <4>2 DEF Promise!CNext, Promise!Refuse
    <3> QED BY <3>1, <3>2
  <2>3. ASSUME NEW c \in Conns, Decr(c) PROVE Promise!CNext
    BY <2>3 DEF Decr, Promise!CNext, Promise!GiveBack
  <2> QED BY <2>1, <2>2, <2>3
<1> QED BY InitSlotInv, StepSlotInv, <1>1, PTL DEF Spec, KeepsCounter

-----------------------------------------------------------------------------
DecrNeverWaits == \A c \in Conns : stage[c] = "returned" => slots > 0

(* The deferred function of handleClient never waits on the empty channel   *)
(* (count.go, Decr), however many sessions end at the same time: so the     *)
(* connection is closed after it.                                           *)
THEOREM DecrGoesOn == Spec => []DecrNeverWaits
<1>1. SlotInv => DecrNeverWaits
  <2> SUFFICES ASSUME SlotInv, NEW c \in Conns, stage[c] = "returned" PROVE slots > 0
    BY DEF DecrNeverWaits
  <2>1. IsFiniteSet(Holding) /\ c \in Holding
    BY ServerAssumption, FS_Subset DEF Holding
  <2>2. Cardinality(Holding) # 0 /\ Cardinality(Holding) \in Nat
    BY <2>1, FS_CardinalityType, FS_EmptySet
  <2> QED BY <2>2 DEF SlotInv, SlotsHeld
<1> QED BY <1>1, SlotsConserved, PTL DEF SlotInv

RefusedOnlyWhenFull ==
  [][\A c \in Conns :
       stage[c] = "accepted" /\ stage'[c] = "refused" => Cardinality(Holding) = Max]_vars

(* A client is refused only when maxClient connections hold a slot, whatever *)
(* Incr and Decr go on at the same time: the counter never says no because  *)
(* of slots that nobody has (Run, Incr).                                    *)
THEOREM RefusalsJustified == Spec => RefusedOnlyWhenFull
<1>1. ASSUME SlotInv, Next, NEW c \in Conns, stage[c] = "accepted", stage'[c] = "refused"
      PROVE  Cardinality(Holding) = Max
  <2>1. stage \in [Conns -> Stages] /\ slots \in 0..Max /\ slots = Cardinality(Holding) /\ Max \in Nat
    BY <1>1, ServerAssumption DEF SlotInv, TypeOK, SlotsHeld
  <2>2. \A d \in Conns : d # c =>
          /\ ~Connect(d) /\ ~AcceptTCP(d) /\ ~Incr(d) /\ ~RefuseConn(d) /\ ~Spawn(d)
          /\ ~HandleClient(d)
    BY <1>1, <2>1 DEF Connect, AcceptTCP, Incr, RefuseConn, Spawn, HandleClient,
                      Handshake, SessionReturns, Decr, CloseConn, Go
  <2>3. ~Signal /\ \A d \in Conns : ~HangUp(d)
    BY <1>1 DEF Signal, HangUp
  <2>4. ~Connect(c) /\ ~AcceptTCP(c) /\ ~RefuseConn(c) /\ ~Spawn(c) /\ ~HandleClient(c)
    BY <1>1 DEF Connect, AcceptTCP, RefuseConn, Spawn, HandleClient, Handshake, SessionReturns, Decr, CloseConn, Go
  <2>5. Incr(c)
    BY <1>1, <2>2, <2>3, <2>4 DEF Next, AcceptLoop
  <2>6. ~(slots < Max)
    BY <1>1, <2>1, <2>5 DEF Incr, Go
  <2> QED BY <2>1, <2>6
<1>2. SlotInv /\ [Next]_vars =>
        [\A c \in Conns : stage[c] = "accepted" /\ stage'[c] = "refused" => Cardinality(Holding) = Max]_vars
  BY <1>1
<1> QED BY <1>2, SlotsConserved, PTL DEF Spec, SlotInv, RefusedOnlyWhenFull
=============================================================================
