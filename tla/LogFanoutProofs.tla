--------------------------- MODULE LogFanoutProofs ---------------------------
(***************************************************************************)
(* Proofs about the nsq writer, for every capacity and every set of        *)
(* messages, and about the fan-out: that it uses the writer in no other    *)
(* way, and that a message reaches every adapter.                          *)
(***************************************************************************)
EXTENDS LogFanout, SequenceTheorems, TLAPS

-----------------------------------------------------------------------------
(* A batch is only there while it is being made. *)
BatchInv ==
  /\ pub = "wait" => buf = <<>> /\ n = 0
  /\ pub = "body" => buf = <<>> /\ n = 0

NsqInv == NsqTypeOK /\ BatchInv /\ BatchAsAnnounced /\ Conserved

(* A sequence is its first element before the rest. *)
LEMMA ConsEqual ==
  ASSUME NEW S, NEW c \in Seq(S), NEW h \in Seq(S), NEW t \in Seq(S),
         Len(h) = 1, Len(c) = 1 + Len(t), h[1] = c[1], \A i \in 1..Len(t) : t[i] = c[i + 1]
  PROVE  c = h \o t
<1>1. Len(t) \in Nat
  BY LenProperties
<1>2. /\ h \o t \in Seq(S) /\ Len(h \o t) = Len(c)
      /\ \A i \in 1..Len(c) : (h \o t)[i] = IF i <= 1 THEN h[i] ELSE t[i - 1]
  <2>1. /\ h \o t \in Seq(S) /\ Len(h \o t) = Len(h) + Len(t)
        /\ \A i \in 1..(Len(h) + Len(t)) : (h \o t)[i] = IF i <= Len(h) THEN h[i] ELSE t[i - Len(h)]
    BY ConcatProperties
  <2>2. Len(h) + Len(t) = Len(c)
    BY <1>1
  <2> QED BY <2>1, <2>2, Zenon
<1>3. ASSUME NEW i \in 1..Len(c) PROVE c[i] = (h \o t)[i]
  <2>1. CASE i = 1
    <3>1. i <= 1
      BY <2>1
    <3>2. (h \o t)[i] = h[i]
      BY <1>2, <3>1, Zenon
    <3> QED BY <2>1, <3>2
  <2>2. CASE i > 1
    <3>1. i - 1 \in 1..Len(t) /\ (i - 1) + 1 = i
      BY <1>1, <2>2
    <3>2. t[i - 1] = c[i]
      BY <3>1
    <3>3. ~(i <= 1)
      BY <2>2
    <3>4. (h \o t)[i] = t[i - 1]
      BY <1>2, <3>3, Zenon
    <3> QED BY <3>2, <3>4
  <2>3. i = 1 \/ i > 1
    BY <1>1
  <2> QED BY <2>1, <2>2, <2>3, Zenon
<1> QED BY <1>2, <1>3, SeqEqual

LEMMA HeadTailConcat ==
  ASSUME NEW S, NEW c \in Seq(S), c # <<>>
  PROVE  /\ Head(c) \in S /\ Tail(c) \in Seq(S) /\ <<Head(c)>> \in Seq(S)
         /\ c = <<Head(c)>> \o Tail(c)
<1>1. /\ Head(c) \in S /\ Tail(c) \in Seq(S) /\ Len(Tail(c)) = Len(c) - 1 /\ Len(c) \in Nat \ {0}
      /\ \A i \in 1..Len(Tail(c)) : Tail(c)[i] = c[i + 1]
      /\ Head(c) = c[1]
  BY HeadTailProperties, EmptySeq
<1>2. <<Head(c)>> \in Seq(S) /\ Len(<<Head(c)>>) = 1 /\ <<Head(c)>>[1] = c[1]
  BY <1>1
<1>3. Len(c) = 1 + Len(Tail(c))
  BY <1>1
<1> QED BY <1>1, <1>2, <1>3, ConsEqual

(* A message moves from the head of the channel to the end of the batch.    *)
LEMMA HeadMoves ==
  ASSUME NEW d \in Seq(Msgs), NEW b \in Seq(Msgs), NEW c \in Seq(Msgs), c # <<>>
  PROVE  d \o Append(b, Head(c)) \o Tail(c) = d \o b \o c
<1>1. Head(c) \in Msgs /\ Tail(c) \in Seq(Msgs) /\ c = <<Head(c)>> \o Tail(c)
  BY HeadTailConcat
<1>2. <<Head(c)>> \in Seq(Msgs)
  BY HeadTailConcat
<1>3. Append(b, Head(c)) = b \o <<Head(c)>>
  BY <1>1, AppendIsConcat
<1>4. d \o b \in Seq(Msgs)
  BY ConcatProperties
<1>5. d \o Append(b, Head(c)) = (d \o b) \o <<Head(c)>>
  BY <1>2, <1>3, ConcatAssociative
<1>6. ((d \o b) \o <<Head(c)>>) \o Tail(c) = (d \o b) \o (<<Head(c)>> \o Tail(c))
  BY <1>1, <1>2, <1>4, ConcatAssociative
<1> QED BY <1>1, <1>5, <1>6

(* What is appended to the channel is appended to it all.                   *)
LEMMA AppendMoves ==
  ASSUME NEW S, NEW d \in Seq(S), NEW c \in Seq(S), NEW m \in S
  PROVE  d \o Append(c, m) = Append(d \o c, m)
<1>1. <<m>> \in Seq(S) /\ d \o c \in Seq(S)
  BY ConcatProperties
<1>2. Append(c, m) = c \o <<m>> /\ Append(d \o c, m) = (d \o c) \o <<m>>
  BY <1>1, AppendIsConcat
<1> QED BY <1>1, <1>2, ConcatAssociative

LEMMA NsqStep == NsqInv /\ [NsqNext]_nsqVars => NsqInv'
<1> SUFFICES ASSUME NsqInv, [NsqNext]_nsqVars PROVE NsqInv'
  OBVIOUS
<1> USE NsqAssumption
<1>t. /\ ch \in Seq(Msgs) /\ sent \in Seq(Msgs) /\ buf \in Seq(Msgs) /\ done \in Seq(Msgs)
      /\ Len(ch) \in Nat /\ Len(buf) \in Nat /\ Len(ch) <= Cap /\ n \in Nat
      /\ done \o buf \in Seq(Msgs)
  BY LenProperties, ConcatProperties DEF NsqInv, NsqTypeOK
<1>1. ASSUME NEW m \in Msgs, NsqWriteMsg(m) PROVE NsqInv'
  <2>1. ch' \in Seq(Msgs) /\ Len(ch') = Len(ch) + 1 /\ sent' \in Seq(Msgs)
    BY <1>t, <1>1, AppendProperties DEF NsqWriteMsg
  <2>2. NsqTypeOK' /\ BatchInv' /\ BatchAsAnnounced'
    BY <1>t, <1>1, <2>1 DEF NsqInv, NsqWriteMsg, publisher, NsqTypeOK, BatchInv, BatchAsAnnounced
  <2>3. (done \o buf) \o Append(ch, m) = Append((done \o buf) \o ch, m)
    BY <1>t, <1>1, AppendMoves
  <2>4. Conserved'
    BY <1>1, <2>3 DEF NsqInv, NsqWriteMsg, publisher, Conserved
  <2> QED BY <2>2, <2>4 DEF NsqInv
<1>2. CASE OnTick
  <2>1. Len(buf) = 0 /\ (Len(ch) = 0 \/ Len(ch) > 0)
    BY <1>t, <1>2 DEF OnTick, NsqInv, BatchInv
  <2>2. NsqTypeOK' /\ BatchInv' /\ BatchAsAnnounced'
    BY <1>t, <1>2, <2>1 DEF NsqInv, OnTick, NsqTypeOK, BatchInv, BatchAsAnnounced
  <2> QED BY <1>2, <2>2 DEF NsqInv, OnTick, Conserved
<1>3. CASE Collect
  <2>1. /\ Head(ch) \in Msgs /\ Tail(ch) \in Seq(Msgs) /\ Len(Tail(ch)) = Len(ch) - 1
        /\ Append(buf, Head(ch)) \in Seq(Msgs) /\ Len(Append(buf, Head(ch))) = Len(buf) + 1
    BY <1>t, <1>3, HeadTailProperties, AppendProperties DEF Collect
  <2>2. Len(buf) < n /\ n <= Len(buf) + Len(ch)
    BY <1>3 DEF Collect, NsqInv, BatchAsAnnounced
  <2>3. NsqTypeOK' /\ BatchInv' /\ BatchAsAnnounced'
    BY <1>t, <1>3, <2>1, <2>2 DEF NsqInv, Collect, NsqTypeOK, BatchInv, BatchAsAnnounced
  <2>4. done \o Append(buf, Head(ch)) \o Tail(ch) = done \o buf \o ch
    <3>1. ch # <<>>
      BY <1>3 DEF Collect
    <3> QED BY <1>t, <3>1, HeadMoves
  <2>5. Conserved'
    BY <1>3, <2>4 DEF NsqInv, Collect, Conserved
  <2> QED BY <2>3, <2>5 DEF NsqInv
<1>4. CASE Posted /\ pub' \in {"body", "wait"}
  <2>1. NsqTypeOK' /\ BatchInv' /\ BatchAsAnnounced'
    BY <1>t, <1>4 DEF NsqInv, Posted, NsqTypeOK, BatchInv, BatchAsAnnounced
  <2>2. (done \o buf) \o <<>> = done \o buf
    BY <1>t, ConcatEmptySeq
  <2>3. Conserved'
    BY <1>4, <2>2 DEF NsqInv, Posted, Conserved
  <2> QED BY <2>1, <2>3 DEF NsqInv
<1>5. CASE ReadBody
  <2>1. n = 0
    BY <1>5 DEF ReadBody, NsqInv, BatchInv
  <2>2. NsqTypeOK' /\ BatchInv' /\ BatchAsAnnounced'
    BY <1>5, <2>1 DEF NsqInv, ReadBody, NsqTypeOK, BatchInv, BatchAsAnnounced
  <2> QED BY <1>5, <2>2 DEF NsqInv, ReadBody, Conserved
<1>6. CASE UNCHANGED nsqVars
  BY <1>6 DEF nsqVars, publisher, NsqInv, NsqTypeOK, BatchInv, BatchAsAnnounced, Conserved
<1> QED BY <1>1, <1>2, <1>3, <1>4, <1>5, <1>6 DEF NsqNext, Publish, PostOK, PostFails

(* The invariant of the nsq writer: its types, a batch as its header        *)
(* announces it, and no message lost or sent twice.                         *)
THEOREM NsqInvariance == NsqSpec => []NsqInv
<1>1. NsqInit => NsqInv
  <2> SUFFICES ASSUME NsqInit PROVE NsqInv
    OBVIOUS
  <2>1. <<>> \in Seq(Msgs) /\ Len(<<>>) = 0 /\ <<>> \o <<>> = <<>>
    BY EmptySeq, ConcatEmptySeq
  <2> QED BY <2>1, NsqAssumption DEF NsqInit, NsqInv, NsqTypeOK, BatchInv, BatchAsAnnounced, Conserved
<1> QED BY <1>1, NsqStep, PTL DEF NsqSpec

-----------------------------------------------------------------------------
FanTypes ==
  /\ asynchronous \in BOOLEAN /\ DOMAIN outputs \subseteq Adapters
  /\ lv \in Seq(0..MaxLevel) /\ Len(lv) <= MaxMsgs /\ queue \in Seq(Msgs)
  /\ at \in [Goroutines -> {"idle", "send", "fan", "dial", "made", "print"}]
  /\ task \in [Goroutines -> 0..MaxMsgs] /\ todo \in [Goroutines -> SUBSET Adapters]
  /\ owed \subseteq Msgs \X Adapters

(* What a goroutine's position says of its message and its adapters.        *)
TaskInv ==
  \A g \in Goroutines :
    /\ at[g] # "idle" => task[g] \in Msgs
    /\ at[g] \in {"idle", "send"} => todo[g] = {}

(* With Async only Worker calls the adapters, so nobody takes its           *)
(* connection away; without, the callers do, and the queue stays empty.     *)
ModeInv ==
  /\ lv = <<>> => queue = <<>> /\ \A g \in Goroutines : at[g] = "idle"
  /\ asynchronous =>
       /\ \A g \in Callers : at[g] \in {"idle", "send"}
       /\ at[Worker] \in {"made", "print"} /\ onMsg => link # "none"
       /\ at[Worker] = "print" => lg = TRUE
       /\ at[Worker] # "made" /\ link # "none" => lg = TRUE
  /\ ~asynchronous =>
       /\ queue = <<>> /\ at[Worker] = "idle"
       /\ \A g \in Goroutines : at[g] # "send"

(* Who writes what is owed. *)
Excused(p) == p[2] = "conn" \/ (~asynchronous /\ p[1] \in failed)
Kept(p) == \E g \in Goroutines : task[g] = p[1] /\ p[2] \in todo[g]
OwedInv == \A p \in owed : Excused(p) \/ Kept(p)

FanInv == FanTypes /\ TaskInv /\ ModeInv /\ OwedInv

LEMMA GoroutineFacts == Worker \in Goroutines /\ Callers \subseteq Goroutines
                        /\ \A g \in Goroutines : g # Worker => g \in Callers
BY DEF Goroutines

(* Types and positions, one action at a time. *)
LEMMA ModeStep == FanInv /\ [Next]_vars => FanTypes' /\ TaskInv' /\ ModeInv'
<1> SUFFICES ASSUME FanInv, [Next]_vars PROVE FanTypes' /\ TaskInv' /\ ModeInv'
  OBVIOUS
<1> USE FanoutAssumption, GoroutineFacts
<1>t. FanTypes /\ TaskInv /\ ModeInv
  BY DEF FanInv
<1>1. ASSUME NEW a \in Adapters, NEW l \in 0..MaxLevel, SetLogger(a, l) PROVE FanTypes' /\ TaskInv' /\ ModeInv'
  BY <1>t, <1>1 DEF SetLogger, FanTypes, TaskInv, ModeInv, nsqVars, history
<1>2. ASSUME NEW a \in Adapters, DelLogger(a) PROVE FanTypes' /\ TaskInv' /\ ModeInv'
  BY <1>t, <1>2 DEF DelLogger, Restrict, Quiet, FanTypes, TaskInv, ModeInv, nsqVars, history
<1>3. ASSUME NEW g \in Callers, NEW l \in 0..MaxLevel, Log(g, l) PROVE FanTypes' /\ TaskInv' /\ ModeInv'
  <2>1. /\ lv' \in Seq(0..MaxLevel) /\ Len(lv') = Len(lv) + 1 /\ Len(lv') \in Msgs
        /\ lv' # <<>>
    <3>1. lv \in Seq(0..MaxLevel) /\ lv' = Append(lv, l) /\ Len(lv) \in Nat /\ Len(lv) < MaxMsgs
      BY <1>t, <1>3, LenProperties DEF Log, FanTypes
    <3>2. lv' \in Seq(0..MaxLevel) /\ Len(lv') = Len(lv) + 1
      BY <3>1, AppendProperties
    <3> QED BY <3>1, <3>2
  <2>2. CASE asynchronous
    <3>1. /\ at' = [at EXCEPT ![g] = "send"] /\ task' = [task EXCEPT ![g] = Len(lv')]
          /\ UNCHANGED <<todo, owed, asynchronous, outputs, queue, link, lg, onMsg>>
      BY <1>3, <2>2 DEF Log, history, config, conn
    <3>2. FanTypes' /\ ModeInv'
      BY <1>t, <2>1, <2>2, <3>1 DEF FanTypes, ModeInv
    <3>3. TaskInv'
      BY <1>t, <1>3, <2>1, <3>1 DEF Log, FanTypes, TaskInv
    <3> QED BY <3>2, <3>3
  <2>3. CASE ~asynchronous
    <3>1. PICK to \in SUBSET DOMAIN outputs :
            /\ todo' = [todo EXCEPT ![g] = to]
            /\ task' = [task EXCEPT ![g] = IF to = {} THEN 0 ELSE Len(lv')]
            /\ at' = [at EXCEPT ![g] = IF to = {} THEN "idle" ELSE "fan"]
            /\ owed' = owed \cup {<<Len(lv'), a>> : a \in to}
      BY <1>3, <2>3 DEF Log, FanOut
    <3>2. FanTypes'
      BY <1>t, <1>3, <2>1, <3>1 DEF Log, FanTypes, config
    <3>3. TaskInv'
      BY <1>t, <2>1, <3>1 DEF FanTypes, TaskInv
    <3>4. ModeInv'
      BY <1>t, <1>3, <2>1, <2>3, <3>1 DEF Log, FanTypes, ModeInv, config, conn
    <3> QED BY <3>2, <3>3, <3>4
  <2> QED BY <2>2, <2>3
<1>4. ASSUME NEW g \in Goroutines, Send(g) PROVE FanTypes' /\ TaskInv' /\ ModeInv'
  BY <1>t, <1>4 DEF Send, FanTypes, TaskInv, ModeInv, nsqVars, history, config, conn
<1>5. CASE StartLogger
  BY <1>t, <1>5 DEF StartLogger, FanOut, FanTypes, TaskInv, ModeInv, nsqVars, history, config, conn
<1>6. ASSUME NEW g \in Goroutines, WriteConsole(g) PROVE FanTypes' /\ TaskInv' /\ ModeInv'
  BY <1>t, <1>6 DEF WriteConsole, Wrote, GoOn, FanTypes, TaskInv, ModeInv, nsqVars, history, config, conn
<1>7. ASSUME NEW g \in Goroutines, WriteNsq(g) PROVE FanTypes' /\ TaskInv' /\ ModeInv'
  BY <1>t, <1>7 DEF WriteNsq, Wrote, GoOn, FanTypes, TaskInv, ModeInv, nsqVars, history, config, conn
<1>8. ASSUME NEW g \in Goroutines, NeededConnect(g) PROVE FanTypes' /\ TaskInv' /\ ModeInv'
  BY <1>t, <1>8 DEF NeededConnect, FanTypes, TaskInv, ModeInv, nsqVars, history, config, conn
<1>9. ASSUME NEW g \in Goroutines, ConnectFails(g) PROVE FanTypes' /\ TaskInv' /\ ModeInv'
  <2>1. PICK rest \in SUBSET Adapters : GoOn(g, rest)
    BY <1>t, <1>9 DEF ConnectFails, AdapterFails, FanTypes
  <2>2. UNCHANGED <<config, lv, queue, onMsg, link, lg, owed>>
    BY <1>9 DEF ConnectFails, AdapterFails
  <2>3. at[g] = "dial" /\ (asynchronous => g = Worker) /\ (g = Worker => asynchronous)
    BY <1>t, <1>9 DEF ConnectFails, ModeInv
  <2>4. FanTypes' /\ TaskInv'
    BY <1>t, <2>1, <2>2, <2>3 DEF GoOn, FanTypes, TaskInv, config
  <2>5. ModeInv'
    BY <1>t, <2>1, <2>2, <2>3 DEF GoOn, FanTypes, ModeInv, config
  <2> QED BY <2>4, <2>5
<1>10. ASSUME NEW g \in Goroutines, Connect(g) \/ SetLg(g) PROVE FanTypes' /\ TaskInv' /\ ModeInv'
  <2>1. CASE Connect(g)
    BY <1>t, <1>10, <2>1 DEF Connect, FanTypes, TaskInv, ModeInv, nsqVars, history, config, conn
  <2>2. CASE SetLg(g)
    <3>1. /\ at[g] = "made" /\ lg' = TRUE /\ at' = [at EXCEPT ![g] = "print"]
          /\ UNCHANGED <<asynchronous, outputs, lv, queue, task, todo, link, onMsg, owed>>
      BY <2>2 DEF SetLg, history, config
    <3>2. FanTypes' /\ TaskInv'
      BY <1>t, <3>1 DEF FanTypes, TaskInv
    <3>3. ModeInv'
      BY <1>t, <3>1 DEF FanTypes, ModeInv
    <3> QED BY <3>2, <3>3
  <2> QED BY <1>10, <2>1, <2>2
<1>11. ASSUME NEW g \in Goroutines, PrintConn(g) PROVE FanTypes' /\ TaskInv' /\ ModeInv'
  BY <1>t, <1>11 DEF PrintConn, GoOn, FanTypes, TaskInv, ModeInv, nsqVars, history, config, conn
<1>12. ASSUME NEW g \in Goroutines, Panic(g) PROVE FanTypes' /\ TaskInv' /\ ModeInv'
  BY <1>t, <1>12 DEF Panic, Nil, GoOn, FanTypes, TaskInv, ModeInv, nsqVars, history, config, conn
<1>13. CASE LinkBreaks
  BY <1>t, <1>13 DEF LinkBreaks, FanTypes, TaskInv, ModeInv, nsqVars, history, config, conn
<1>14. CASE Publisher \/ UNCHANGED vars
  BY <1>t, <1>14 DEF Publisher, FanTypes, TaskInv, ModeInv, vars, history, config, conn
<1> QED BY <1>1, <1>2, <1>3, <1>4, <1>5, <1>6, <1>7, <1>8, <1>9, <1>10, <1>11, <1>12, <1>13, <1>14
        DEF Next, Write, Proceed, Log

(* What is owed stays excused, or with the goroutine that has it in hand.   *)
LEMMA OwedStep == FanInv /\ [Next]_vars => OwedInv'
<1> SUFFICES ASSUME FanInv, [Next]_vars, NEW p \in owed' PROVE Excused(p)' \/ Kept(p)'
  BY DEF OwedInv, Excused, Kept
<1> USE FanoutAssumption, GoroutineFacts
<1>t. FanTypes /\ TaskInv /\ ModeInv /\ OwedInv
  BY DEF FanInv
(* Steps that take no adapter away from a goroutine. *)
<1>1. ASSUME p \in owed, UNCHANGED asynchronous, failed \subseteq failed',
             \A g \in Goroutines : todo[g] # {} => task'[g] = task[g] /\ todo'[g] = todo[g]
      PROVE  Excused(p)' \/ Kept(p)'
  BY <1>t, <1>1 DEF OwedInv, Excused, Kept
(* A goroutine begins to write a message: it had none in hand. *)
<1>2. ASSUME NEW g \in Goroutines, NEW m, NEW l, FanOut(g, m, l), at[g] \in {"idle", "send"},
             UNCHANGED asynchronous
      PROVE  Excused(p)' \/ Kept(p)'
  <2>1. PICK to \in SUBSET DOMAIN outputs :
          /\ todo' = [todo EXCEPT ![g] = to]
          /\ task' = [task EXCEPT ![g] = IF to = {} THEN 0 ELSE m]
          /\ owed' = owed \cup {<<m, a>> : a \in to}
    BY <1>2 DEF FanOut
  <2>2. CASE p \in owed
    <3>1. \A h \in Goroutines : todo[h] # {} => task'[h] = task[h] /\ todo'[h] = todo[h]
      BY <1>t, <1>2, <2>1 DEF FanTypes, TaskInv
    <3> QED BY <1>1, <1>2, <2>2, <3>1 DEF FanOut
  <2>3. CASE p \notin owed
    <3>1. PICK a \in to : p = <<m, a>>
      BY <2>1, <2>3
    <3>2. task'[g] = m /\ todo'[g] = to
      BY <1>t, <2>1, <3>1 DEF FanTypes
    <3> QED BY <3>1, <3>2 DEF Kept
  <2> QED BY <2>2, <2>3
(* A goroutine has called adapter a, or gives up: its message is then in failed. *)
<1>3. ASSUME NEW g \in Goroutines, NEW rest \in SUBSET Adapters, GoOn(g, rest),
             p \in owed, UNCHANGED asynchronous, failed \subseteq failed',
             p[1] = task[g] /\ p[2] \in todo[g]
               => p[2] \in rest \/ p[2] = "conn" \/ (~asynchronous /\ p[1] \in failed')
      PROVE  Excused(p)' \/ Kept(p)'
  <2>1. CASE Excused(p)
    BY <1>3, <2>1 DEF Excused
  <2>2. CASE Kept(p) /\ ~Excused(p)'
    <3>1. PICK h \in Goroutines : task[h] = p[1] /\ p[2] \in todo[h]
      BY <2>2 DEF Kept
    <3>2. CASE h # g
      <4>1. task'[h] = p[1] /\ p[2] \in todo'[h]
        BY <1>t, <1>3, <3>1, <3>2 DEF GoOn, FanTypes
      <4> QED BY <4>1 DEF Kept
    <3>3. CASE h = g
      <4>1. p[2] \in rest
        BY <1>3, <2>2, <3>1, <3>3 DEF Excused
      <4>2. task'[g] = p[1] /\ p[2] \in todo'[g]
        BY <1>t, <1>3, <3>1, <3>3, <4>1 DEF GoOn, FanTypes
      <4> QED BY <4>2 DEF Kept
    <3> QED BY <3>2, <3>3
  <2> QED BY <1>t, <1>3, <2>1, <2>2 DEF OwedInv
<1>4. ASSUME NEW g \in Callers, NEW l \in 0..MaxLevel, Log(g, l) PROVE Excused(p)' \/ Kept(p)'
  <2>1. CASE asynchronous
    BY <1>t, <1>1, <1>4, <2>1 DEF Log, FanTypes, TaskInv, history, config
  <2>2. CASE ~asynchronous
    BY <1>2, <1>4, <2>2 DEF Log, config
  <2> QED BY <2>1, <2>2
<1>5. ASSUME NEW g \in Goroutines, Send(g) PROVE Excused(p)' \/ Kept(p)'
  BY <1>t, <1>1, <1>5 DEF Send, FanTypes, TaskInv, history, config
<1>6. CASE StartLogger
  BY <1>2, <1>6 DEF StartLogger, config
<1>7. ASSUME NEW g \in Goroutines, NEW a \in Adapters, Wrote(g, a) PROVE Excused(p)' \/ Kept(p)'
  <2>1. todo[g] \ {a} \in SUBSET Adapters /\ p \in owed /\ p # <<task[g], a>>
    BY <1>t, <1>7 DEF Wrote, FanTypes
  <2>2. p[1] = task[g] /\ p[2] \in todo[g] => p[2] \in todo[g] \ {a}
    BY <1>t, <2>1 DEF FanTypes
  <2> QED BY <1>3, <1>7, <2>1, <2>2 DEF Wrote, config
<1>8. ASSUME NEW g \in Goroutines, NeededConnect(g) \/ Connect(g) \/ SetLg(g) PROVE Excused(p)' \/ Kept(p)'
  BY <1>1, <1>8 DEF NeededConnect, Connect, SetLg, history, config
<1>9. ASSUME NEW g \in Goroutines, ConnectFails(g) PROVE Excused(p)' \/ Kept(p)'
  <2>1. CASE g = Worker
    <3>1. GoOn(g, todo[g] \ {"conn"}) /\ UNCHANGED <<asynchronous, failed, owed>>
      BY <1>9, <2>1 DEF ConnectFails, AdapterFails, config
    <3>2. todo[g] \ {"conn"} \in SUBSET Adapters
      BY <1>t DEF FanTypes
    <3> QED BY <1>3, <3>1, <3>2
  <2>2. CASE g # Worker
    <3>1. GoOn(g, {}) /\ failed' = failed \cup {task[g]} /\ UNCHANGED <<asynchronous, owed>>
      BY <1>9, <2>2 DEF ConnectFails, AdapterFails, config
    <3>2. ~asynchronous
      BY <1>t, <1>9, <2>2 DEF ConnectFails, ModeInv
    <3> QED BY <1>3, <3>1, <3>2
  <2> QED BY <2>1, <2>2
<1>10. ASSUME NEW g \in Goroutines, PrintConn(g) PROVE Excused(p)' \/ Kept(p)'
  <2>1. GoOn(g, todo[g] \ {"conn"}) /\ UNCHANGED <<asynchronous, failed>> /\ p \in owed
    BY <1>10 DEF PrintConn, config
  <2>2. todo[g] \ {"conn"} \in SUBSET Adapters
    BY <1>t DEF FanTypes
  <2> QED BY <1>3, <2>1, <2>2
<1>11. ASSUME NEW g \in Goroutines, Panic(g) PROVE Excused(p)' \/ Kept(p)'
  <2>1. GoOn(g, {}) /\ failed' = failed \cup {task[g]} /\ UNCHANGED <<asynchronous, owed>>
    BY <1>11 DEF Panic, config
  <2>2. ~asynchronous
    BY <1>t, <1>11 DEF Panic, Nil, ModeInv
  <2> QED BY <1>3, <2>1, <2>2
<1>12. CASE \E a \in Adapters : DelLogger(a) \/ \E l \in 0..MaxLevel : SetLogger(a, l)
  BY <1>1, <1>12 DEF DelLogger, SetLogger, history
<1>13. CASE LinkBreaks \/ Publisher \/ UNCHANGED vars
  BY <1>1, <1>13 DEF LinkBreaks, Publisher, vars, history, config
<1> QED BY <1>4, <1>5, <1>6, <1>7, <1>8, <1>9, <1>10, <1>11, <1>12, <1>13
        DEF Next, Write, Proceed, WriteConsole, WriteNsq, Adapters

LEMMA FanInvariance == Spec => []FanInv
<1>1. Init => FanInv
  BY FanoutAssumption, GoroutineFacts
  DEF Init, FanInv, FanTypes, TaskInv, ModeInv, OwedInv, Adapters
<1>2. FanInv /\ [Next]_vars => FanInv'
  BY ModeStep, OwedStep DEF FanInv
<1> QED BY <1>1, <1>2, PTL DEF Spec

(* A message that has been dealt with reached every adapter that admits it, *)
(* but for the connection, and for those after a failure without Async.     *)
THEOREM FanoutReachesAll == Spec => []ReachesAll
<1>1. FanInv => ReachesAll
  BY DEF FanInv, OwedInv, Excused, Kept, ReachesAll, Finished
<1> QED BY <1>1, FanInvariance, PTL

(* The fan-out uses the nsq writer through WriteMsg only: it implements the *)
(* writer's own specification.                                              *)
THEOREM FanoutUsesNsq == Spec => NsqSpec
<1>1. Init => NsqInit
  BY DEF Init
<1>2. FanInv /\ [Next]_vars => [NsqNext]_nsqVars
  <2> SUFFICES ASSUME FanInv, [Next]_vars PROVE NsqNext \/ UNCHANGED nsqVars
    OBVIOUS
  <2>1. ASSUME NEW g \in Goroutines, WriteNsq(g) PROVE NsqNext
    BY <2>1 DEF WriteNsq, NsqNext, FanInv, TaskInv
  <2>2. CASE Publisher
    BY <2>2 DEF Publisher, NsqNext
  <2>3. ASSUME NEW g \in Goroutines, Send(g) \/ Write(g) PROVE UNCHANGED nsqVars
    BY <2>3 DEF Send, Write, Proceed, WriteConsole, NeededConnect, ConnectFails, AdapterFails, Connect, SetLg,
                PrintConn, Panic
  <2>4. CASE StartLogger \/ LinkBreaks \/ UNCHANGED vars
    BY <2>4 DEF StartLogger, LinkBreaks, vars
  <2>5. CASE \/ \E a \in Adapters : DelLogger(a) \/ \E l \in 0..MaxLevel : SetLogger(a, l)
             \/ \E g \in Callers, l \in 0..MaxLevel : Log(g, l)
    BY <2>5 DEF DelLogger, SetLogger, Log
  <2> QED BY <2>1, <2>2, <2>3, <2>4, <2>5 DEF Next
<1> QED BY <1>1, <1>2, FanInvariance, PTL DEF Spec, NsqSpec

(* No message that a logging function put into the nsq channel is lost      *)
(* before its post, or posted twice, whatever the loggers do.               *)
THEOREM FanoutConserves == Spec => []Conserved
<1>1. NsqInv => Conserved
  BY DEF NsqInv
<1> QED BY <1>1, FanoutUsesNsq, NsqInvariance, PTL

(* Each batch has as many messages as its header announces.                 *)
THEOREM FanoutAnnounces == Spec => []BatchAsAnnounced
<1>1. NsqInv => BatchAsAnnounced
  BY DEF NsqInv
<1> QED BY <1>1, FanoutUsesNsq, NsqInvariance, PTL

-----------------------------------------------------------------------------
(* startLogger sends to no channel of its own, and a goroutine that fans    *)
(* out has an adapter to call.                                              *)
HandsInv == at[Worker] # "send" /\ \A g \in Goroutines : at[g] = "fan" => todo[g] # {}

LEMMA HandsInit == Init => HandsInv
BY GoroutineFacts DEF Init, HandsInv

LEMMA HandsStep == FanInv /\ HandsInv /\ [Next]_vars => HandsInv'
<1> SUFFICES ASSUME FanInv, HandsInv, [Next]_vars PROVE HandsInv'
  OBVIOUS
<1>0. /\ at \in [Goroutines -> {"idle", "send", "fan", "dial", "made", "print"}]
      /\ todo \in [Goroutines -> SUBSET Adapters]
      /\ Worker \in Goroutines /\ Worker \notin Callers /\ Callers \subseteq Goroutines
  BY GoroutineFacts, FanoutAssumption DEF FanInv, FanTypes
<1>1. ASSUME NEW g \in Goroutines, NEW rest \in SUBSET Adapters, GoOn(g, rest) PROVE HandsInv'
  BY <1>0, <1>1 DEF GoOn, HandsInv
<1>2. ASSUME NEW g \in Goroutines, NEW m, NEW l, FanOut(g, m, l) PROVE HandsInv'
  BY <1>0, <1>2 DEF FanOut, HandsInv
<1>3. ASSUME NEW g \in Callers, NEW l \in 0..MaxLevel, Log(g, l) PROVE HandsInv'
  <2>1. CASE asynchronous
    BY <1>0, <1>3, <2>1 DEF Log, HandsInv
  <2>2. CASE ~asynchronous
    BY <1>0, <1>2, <1>3, <2>2 DEF Log
  <2> QED BY <2>1, <2>2
<1>4. CASE StartLogger
  BY <1>0, <1>2, <1>4 DEF StartLogger
<1>5. ASSUME NEW g \in Goroutines, Send(g) \/ NeededConnect(g) \/ Connect(g) \/ SetLg(g) PROVE HandsInv'
  BY <1>0, <1>5 DEF Send, NeededConnect, Connect, SetLg, HandsInv
<1>6. ASSUME NEW g \in Goroutines,
             WriteConsole(g) \/ WriteNsq(g) \/ ConnectFails(g) \/ PrintConn(g) \/ Panic(g)
      PROVE  HandsInv'
  <2>1. PICK rest \in SUBSET Adapters : GoOn(g, rest)
    BY <1>0, <1>6 DEF WriteConsole, WriteNsq, Wrote, ConnectFails, AdapterFails, PrintConn, Panic
  <2> QED BY <1>1, <2>1
<1>7. ASSUME UNCHANGED <<at, todo>> PROVE HandsInv'
  BY <1>7 DEF HandsInv
<1>8. CASE \E a \in Adapters : DelLogger(a) \/ \E l \in 0..MaxLevel : SetLogger(a, l)
  BY <1>7, <1>8 DEF DelLogger, SetLogger
<1>9. CASE LinkBreaks \/ Publisher \/ UNCHANGED vars
  BY <1>7, <1>9 DEF LinkBreaks, Publisher, vars
<1> QED BY <1>3, <1>4, <1>5, <1>6, <1>8, <1>9 DEF Next, Write, Proceed

LEMMA HandsAlways == Spec => [](FanInv /\ HandsInv)
BY HandsInit, HandsStep, FanInvariance, PTL DEF Spec

(* A step of a goroutine that logs is possible, and one of startLogger,     *)
(* whatever the log servers do: the guards of Send, WriteNsq, Proceed and   *)
(* StartLogger.                                                             *)
LogReady(g) ==
  \/ at[g] = "send" /\ Len(queue) < QueueLen
  \/ at[g] = "fan" /\ todo[g] \cap {"console", "conn"} # {}
  \/ at[g] = "fan" /\ "nsq" \in todo[g] /\ Len(ch) < Cap
  \/ at[g] \in {"dial", "made"}

(* It prints to the connection, which may take its time. *)
Printing(g) == at[g] = "print"

StartReady == queue # <<>> /\ at[Worker] = "idle"

(* The next tick, or the receiving of a batch, makes room in the channel.   *)
Drains == pub = "wait" \/ (pub = "collect" /\ ch # <<>>)

LogsNeverStuck ==
  /\ \A g \in Goroutines : at[g] # "idle" =>
       \/ LogReady(g) \/ Printing(g)
       \/ at[g] = "send" /\ (StartReady \/ LogReady(Worker) \/ Printing(Worker))
       \/ Len(ch) = Cap
  /\ Drains \/ Unanswered

(* Nobody who logs waits in a circle: a goroutine in a logging function can *)
(* go on, or it prints to the connection, or startLogger does the one or    *)
(* the other, or takes a message from the channel it waits for, or the nsq  *)
(* writer's channel is full, and that one is emptied by publish, which      *)
(* waits for nothing but the tick and the server (Send, StartLogger,        *)
(* WriteNsq, Collect).  So what can stop them is a post that is not         *)
(* answered and a print that is not taken, and nothing of their own.        *)
THEOREM NoLogStuck == Spec => []LogsNeverStuck
<1>1. FanInv /\ HandsInv /\ NsqInv => LogsNeverStuck
  <2> SUFFICES ASSUME FanInv, HandsInv, NsqInv PROVE LogsNeverStuck
    OBVIOUS
  <2>0. /\ at \in [Goroutines -> {"idle", "send", "fan", "dial", "made", "print"}]
        /\ todo \in [Goroutines -> SUBSET Adapters] /\ queue \in Seq(Msgs)
        /\ QueueLen \in Nat \ {0} /\ Len(queue) \in Nat
        /\ Cap \in Nat /\ Len(ch) \in Nat /\ Len(ch) <= Cap
        /\ Worker \in Goroutines
    BY GoroutineFacts, FanoutAssumption, NsqAssumption DEF FanInv, FanTypes, NsqInv, NsqTypeOK
  <2>1. ASSUME NEW g \in Goroutines, at[g] \in {"fan", "dial", "made", "print"}, Len(ch) # Cap
        PROVE  LogReady(g) \/ Printing(g)
    <3>1. Len(ch) < Cap
      BY <2>0, <2>1
    <3>2. at[g] = "fan" => todo[g] # {} /\ todo[g] \subseteq {"console", "nsq", "conn"}
      BY <2>0 DEF HandsInv, Adapters
    <3> QED BY <2>1, <3>1, <3>2 DEF LogReady, Printing
  <2>2. ASSUME NEW g \in Goroutines, at[g] = "send", ~(Len(queue) < QueueLen), Len(ch) # Cap
        PROVE  StartReady \/ LogReady(Worker) \/ Printing(Worker)
    <3>1. queue # <<>>
      BY <2>0, <2>2
    <3>2. at[Worker] \in {"idle", "fan", "dial", "made", "print"}
      BY <2>0 DEF HandsInv
    <3> QED BY <2>0, <2>1, <2>2, <3>1, <3>2 DEF StartReady
  <2>3. Drains \/ Unanswered
    <3>1. pub = "collect" => ch # <<>>
      <4>1. pub = "collect" => Len(buf) < n /\ n <= Len(buf) + Len(ch) /\ n \in Nat /\ Len(buf) \in Nat
        BY DEF NsqInv, BatchAsAnnounced, NsqTypeOK
      <4>2. pub = "collect" => Len(ch) > 0
        BY <2>0, <4>1
      <4> QED BY <4>2, EmptySeq
    <3> QED BY <3>1 DEF Drains, Unanswered, NsqInv, NsqTypeOK
  <2>4. ASSUME NEW g \in Goroutines, at[g] # "idle"
        PROVE  \/ LogReady(g) \/ Printing(g)
               \/ at[g] = "send" /\ (StartReady \/ LogReady(Worker) \/ Printing(Worker))
               \/ Len(ch) = Cap
    <3>1. CASE at[g] = "send" /\ Len(queue) < QueueLen
      BY <3>1 DEF LogReady
    <3>2. CASE at[g] = "send" /\ ~(Len(queue) < QueueLen)
      BY <2>2, <3>2
    <3>3. CASE at[g] # "send"
      BY <2>0, <2>1, <2>4, <3>3
    <3> QED BY <3>1, <3>2, <3>3
  <2> QED BY <2>3, <2>4 DEF LogsNeverStuck
<1>2. Spec => []NsqInv
  BY FanoutUsesNsq, NsqInvariance
<1> QED BY <1>1, <1>2, HandsAlways, PTL

(* The steps that a call of a logging function, or startLogger with a       *)
(* message, has before it.                                                  *)
Call(g, a) == IF a \in todo[g] THEN 1 ELSE 0
LogSteps(g) ==
  Call(g, "console") + Call(g, "nsq") +
    CASE at[g] = "fan" /\ "conn" \in todo[g] -> 4
      [] at[g] = "dial" -> 3
      [] at[g] = "made" -> 2
      [] at[g] \in {"print", "send"} -> 1
      [] OTHER -> 0

(* g begins with a message. *)
Taking(g) == (\E l \in 0..MaxLevel : Log(g, l)) \/ (g = Worker /\ StartLogger)

LogsGoOn ==
  [][\A g \in Goroutines :
       /\ Send(g) \/ WriteNsq(g) \/ Write(g) => LogSteps(g)' < LogSteps(g)
       /\ ~Taking(g) => LogSteps(g)' <= LogSteps(g)]_vars

LEMMA StepsDown ==
  ASSUME FanInv, NEW g \in Goroutines, Send(g) \/ WriteNsq(g) \/ Write(g)
  PROVE  /\ LogSteps(g)' < LogSteps(g)
         /\ \A h \in Goroutines \ {g} : at'[h] = at[h] /\ todo'[h] = todo[h]
<1>0. /\ at \in [Goroutines -> {"idle", "send", "fan", "dial", "made", "print"}]
      /\ todo \in [Goroutines -> SUBSET Adapters]
  BY DEF FanInv, FanTypes
<1>1. ASSUME NEW rest \in SUBSET todo[g], GoOn(g, rest)
      PROVE  /\ todo'[g] = rest /\ at'[g] = IF rest = {} THEN "idle" ELSE "fan"
             /\ \A h \in Goroutines \ {g} : at'[h] = at[h] /\ todo'[h] = todo[h]
  BY <1>0, <1>1 DEF GoOn
<1>2. CASE WriteConsole(g) \/ WriteNsq(g)
  <2>1. PICK a \in {"console", "nsq"} : at[g] = "fan" /\ a \in todo[g] /\ GoOn(g, todo[g] \ {a})
    BY <1>2 DEF WriteConsole, WriteNsq, Wrote
  <2>2. /\ todo'[g] = todo[g] \ {a} /\ (at'[g] = "fan" \/ (at'[g] = "idle" /\ "conn" \notin todo[g]))
        /\ \A h \in Goroutines \ {g} : at'[h] = at[h] /\ todo'[h] = todo[h]
    BY <1>1, <2>1
  <2> QED BY <2>1, <2>2 DEF LogSteps, Call
<1>3. CASE ConnectFails(g) \/ PrintConn(g) \/ Panic(g)
  <2>1. /\ at[g] \in {"dial", "print"}
        /\ GoOn(g, todo[g] \ {"conn"}) \/ GoOn(g, {})
    BY <1>3 DEF ConnectFails, AdapterFails, PrintConn, Panic
  <2>2. /\ todo'[g] \in {todo[g] \ {"conn"}, {}} /\ at'[g] \in {"idle", "fan"} /\ "conn" \notin todo'[g]
        /\ \A h \in Goroutines \ {g} : at'[h] = at[h] /\ todo'[h] = todo[h]
    BY <1>0, <1>1, <2>1
  <2> QED BY <2>1, <2>2 DEF LogSteps, Call
<1>4. CASE Send(g)
  <2>1. /\ at[g] = "send" /\ at'[g] = "idle" /\ todo' = todo
        /\ \A h \in Goroutines \ {g} : at'[h] = at[h] /\ todo'[h] = todo[h]
    BY <1>0, <1>4 DEF Send
  <2> QED BY <2>1 DEF LogSteps, Call
<1>5. CASE NeededConnect(g)
  <2>1. /\ at[g] = "fan" /\ "conn" \in todo[g] /\ at'[g] \in {"dial", "print"} /\ todo' = todo
        /\ \A h \in Goroutines \ {g} : at'[h] = at[h] /\ todo'[h] = todo[h]
    BY <1>0, <1>5 DEF NeededConnect
  <2> QED BY <2>1 DEF LogSteps, Call
<1>6. CASE Connect(g) \/ SetLg(g)
  <2>1. /\ \/ at[g] = "dial" /\ at'[g] = "made"
           \/ at[g] = "made" /\ at'[g] = "print"
        /\ todo' = todo /\ \A h \in Goroutines \ {g} : at'[h] = at[h] /\ todo'[h] = todo[h]
    BY <1>0, <1>6 DEF Connect, SetLg
  <2> QED BY <2>1 DEF LogSteps, Call
<1> QED BY <1>2, <1>3, <1>4, <1>5, <1>6 DEF Write, Proceed

(* A call of a logging function takes at most six steps after its          *)
(* beginning, and so does startLogger with a message, whatever fails and    *)
(* whoever logs at the same time; nobody else adds to them.                 *)
THEOREM LogsAreShort == Spec => [](\A g \in Goroutines : LogSteps(g) \in 0..6) /\ LogsGoOn
<1>1. \A g \in Goroutines : LogSteps(g) \in 0..6
  BY DEF LogSteps, Call
<1>2. ASSUME FanInv, Next, NEW g \in Goroutines
      PROVE  /\ Send(g) \/ WriteNsq(g) \/ Write(g) => LogSteps(g)' < LogSteps(g)
             /\ ~Taking(g) => LogSteps(g)' <= LogSteps(g)
  <2>0. /\ at \in [Goroutines -> {"idle", "send", "fan", "dial", "made", "print"}]
        /\ todo \in [Goroutines -> SUBSET Adapters] /\ LogSteps(g) \in 0..6
        /\ Worker \in Goroutines /\ Callers \subseteq Goroutines
    BY <1>1, <1>2, GoroutineFacts DEF FanInv, FanTypes
  <2>1. Send(g) \/ WriteNsq(g) \/ Write(g) => LogSteps(g)' < LogSteps(g)
    BY <1>2, StepsDown
  <2>2. ASSUME at'[g] = at[g], todo'[g] = todo[g] PROVE LogSteps(g)' <= LogSteps(g)
    <3>1. LogSteps(g)' = LogSteps(g)
      BY <2>2 DEF LogSteps, Call
    <3> QED BY <2>0, <3>1
  <2>3. ASSUME NEW h \in Goroutines, h # g, Send(h) \/ WriteNsq(h) \/ Write(h)
        PROVE  LogSteps(g)' <= LogSteps(g)
    BY <1>2, <2>2, <2>3, StepsDown
  <2>4. ASSUME NEW h \in Callers, h # g, NEW l \in 0..MaxLevel, Log(h, l)
        PROVE  LogSteps(g)' <= LogSteps(g)
    BY <2>0, <2>2, <2>4 DEF Log, FanOut
  <2>5. ASSUME StartLogger, g # Worker PROVE LogSteps(g)' <= LogSteps(g)
    BY <2>0, <2>2, <2>5 DEF StartLogger, FanOut
  <2>6. ASSUME \/ \E a \in Adapters : DelLogger(a) \/ \E l \in 0..MaxLevel : SetLogger(a, l)
               \/ LinkBreaks \/ Publisher
        PROVE  LogSteps(g)' <= LogSteps(g)
    BY <2>2, <2>6 DEF DelLogger, SetLogger, LinkBreaks, Publisher
  <2>7. Send(g) \/ WriteNsq(g) \/ Write(g) => LogSteps(g)' <= LogSteps(g)
    <3>1. LogSteps(g)' \in Int
      BY DEF LogSteps, Call
    <3> QED BY <2>0, <2>1, <3>1
  <2> QED BY <1>2, <2>1, <2>3, <2>4, <2>5, <2>6, <2>7 DEF Next, Taking
<1>3. FanInv /\ [Next]_vars => [\A g \in Goroutines :
                                  /\ Send(g) \/ WriteNsq(g) \/ Write(g) => LogSteps(g)' < LogSteps(g)
                                  /\ ~Taking(g) => LogSteps(g)' <= LogSteps(g)]_vars
  BY <1>2
<1> QED BY <1>1, <1>3, FanInvariance, PTL DEF Spec, LogsGoOn
=============================================================================
