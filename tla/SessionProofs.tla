---------------------------- MODULE SessionProofs ----------------------------
(***************************************************************************)
(* Proofs about a client session, for every cycle of packet numbers and    *)
(* every bound on replies and pipelined commands.                          *)
(***************************************************************************)
EXTENDS Session, SequenceTheorems, FiniteSetTheorems, TLAPS

Stages == {"greet", "login", "ok", "wait", "dispatch", "reply", "check", "exit", "gone"}
Named == [name : Nat, id : StmtIds \cup {0}]
Sent == [kind : Replied \cup Unreplied \cup {"login"}, name : Nat, id : StmtIds \cup {0}, seq : 0..SeqMod-1]

Types ==
  /\ net \in Seq(Sent) /\ buf \in Seq(Sent)
  /\ expect \in 0..SeqMod-1 /\ sequence \in 0..SeqMod-1
  /\ mine \subseteq Named /\ stmt \in Named \cup {None} /\ named \in Nat
  /\ pc \in Stages /\ die \in Nat /\ todo \in Nat /\ torn \in BOOLEAN

(* c.die is closed on the way out only. *)
DieInv == die <= 1 /\ (die = 1 => pc \in {"check", "exit", "gone"})

Second == 2 % SeqMod

(* Before the OK, nothing but the login is on its way. *)
LoginInv ==
  /\ pc = "greet" => net = <<>> /\ buf = <<>> /\ sequence = 0 /\ expect = 0
  /\ pc = "login" =>
       /\ sequence = 1
       /\ net = <<>> \/ buf = <<>>
       /\ Len(net) <= 1 /\ Len(buf) <= 1
       /\ up /\ net = <<>> /\ buf = <<>> => expect = 1
       /\ \A i \in 1..Len(net) : net[i].seq = 1 /\ expect = Second
       /\ \A i \in 1..Len(buf) : buf[i].seq = 1 /\ expect = Second
  /\ pc = "ok" => net = <<>> /\ buf = <<>> /\ sequence = Second /\ expect = Second
  /\ pc \in {"greet", "login", "ok"} => owed = "login" /\ gap = "none" /\ ~torn

(* Then commands come under the number 0, ... *)
NumberInv ==
  /\ pc \notin {"greet", "login", "ok"} =>
       /\ \A i \in 1..Len(net) : net[i].seq = 0 /\ net[i].kind # "login"
       /\ \A i \in 1..Len(buf) : buf[i].seq = 0 /\ buf[i].kind # "login"
  /\ pc = "wait" => sequence = 0
  /\ pc = "dispatch" => cmd \in Sent /\ cmd.kind # "login" /\ sequence = 1

(* ... and one with a reply is the last of them, as long as the client      *)
(* knows which reply it is reading.                                         *)
Waiting == owed # None /\ expect = 1

LastInv == ~torn =>
  /\ \A i \in 1..Len(net) : net[i].kind \in Replied => i = Len(net) /\ Waiting
  /\ \A i \in 1..Len(buf) : buf[i].kind \in Replied => i = Len(buf) /\ net = <<>> /\ Waiting
  /\ pc = "dispatch" /\ cmd.kind \in Replied => net = <<>> /\ buf = <<>> /\ Waiting
  /\ pc = "reply" => net = <<>> /\ buf = <<>> /\ owed # None /\ sequence = expect

(* The statement that a client with one statement knows is c.stmt, and      *)
(* nothing that changes c.stmt is on its way.                               *)
Changing(k) == k \in {"prepare", "stmtclose"}

StmtInv ==
  /\ pc = "reply" /\ cmd.kind = "prepare" => stmt \in Named
  /\ MaxOpenStmts = 1 /\ ~torn /\ pc \notin {"exit", "gone"} /\ mine # {} =>
       /\ mine = {stmt}
       /\ \A i \in 1..Len(net) : ~Changing(net[i].kind)
       /\ \A i \in 1..Len(buf) : ~Changing(buf[i].kind)
       /\ pc \in {"dispatch", "reply"} => ~Changing(cmd.kind)

SessionInv ==
  Types /\ DieInv /\ LoginInv /\ NumberInv /\ LastInv /\ StmtInv /\ RepliesNumbered

-----------------------------------------------------------------------------
(* Packet numbers. *)
LEMMA NextNumber ==
  ASSUME NEW n \in 0..SeqMod-1
  PROVE  /\ (n + 1) % SeqMod \in 0..SeqMod-1
         /\ n = 0 => (n + 1) % SeqMod = 1
         /\ n = 1 => (n + 1) % SeqMod = Second
BY SessionAssumption DEF Second

LEMMA One == 1 % SeqMod = 1 /\ Second \in 0..SeqMod-1
BY SessionAssumption DEF Second

(* A sequence of at most one element. *)
LEMMA JustOne == ASSUME NEW n \in Nat, n > 0, n <= 1 PROVE n = 1
OBVIOUS

LEMMA Single == ASSUME NEW s \in Seq(Sent), s # <<>>, Len(s) <= 1 PROVE Len(s) = 1 /\ 1 \in 1..Len(s)
<1>1. Len(s) \in Nat /\ Len(s) > 0
  OBVIOUS
<1>2. Len(s) = 1
  BY <1>1, JustOne
<1> QED BY <1>2

LEMMA InitSession == Init => SessionInv
<1> SUFFICES ASSUME Init PROVE SessionInv
  OBVIOUS
<1> USE SessionAssumption DEF Init
<1>0. torn \in BOOLEAN
  BY Zenon
<1>1. Types
  BY <1>0 DEF Types, Stages
<1>2. DieInv /\ LoginInv /\ NumberInv /\ LastInv /\ StmtInv /\ RepliesNumbered
  BY DEF DieInv, LoginInv, NumberInv, LastInv, StmtInv, RepliesNumbered
<1> QED BY <1>1, <1>2 DEF SessionInv

(* A payload that is written leaves the two sides with the same number, or  *)
(* the client without an idea of it.                                        *)
LEMMA OneWrite ==
  ASSUME Types, Delivered \/ NotDelivered, torn \/ sequence = expect
  PROVE  /\ sequence' \in {sequence, (sequence + 1) % SeqMod} /\ sequence' \in 0..SeqMod-1
         /\ expect' \in 0..SeqMod-1
         /\ torn' \in BOOLEAN /\ (torn => torn')
         /\ torn' \/ sequence' = expect'
         /\ ~misnumbered => ~misnumbered'
<1>1. /\ sequence' \in {sequence, (sequence + 1) % SeqMod} /\ sequence' \in 0..SeqMod-1
      /\ expect' \in 0..SeqMod-1
  BY NextNumber DEF Types, Delivered, Arrives, NotDelivered, Number
<1>2. CASE Delivered
  <2>1. /\ sequence' = (sequence + 1) % SeqMod /\ expect' = (expect + 1) % SeqMod
        /\ torn' = torn
    BY <1>2 DEF Delivered, Arrives, Number
  <2>2. misnumbered' = (misnumbered \/ (up /\ ~torn /\ sequence # expect))
    BY <1>2, Zenon DEF Delivered, Arrives
  <2>3. ~misnumbered => ~misnumbered'
    BY <2>2, Zenon
  <2>4. torn' \in BOOLEAN
    BY <2>1 DEF Types
  <2>5. sequence = expect => sequence' = expect'
    BY <2>1
  <2> QED BY <1>1, <2>1, <2>3, <2>4, <2>5, Zenon
<1>3. CASE NotDelivered
  <2>1. UNCHANGED <<expect, misnumbered>> /\ (UNCHANGED <<sequence, torn>> \/ torn' = TRUE)
    BY <1>3 DEF NotDelivered
  <2>2. CASE UNCHANGED <<sequence, torn>>
    <3>1. sequence' = sequence /\ torn' = torn /\ expect' = expect /\ misnumbered' = misnumbered
      BY <2>1, <2>2
    <3> QED BY <1>1, <3>1, Zenon DEF Types
  <2>3. CASE torn' = TRUE
    <3>1. misnumbered' = misnumbered
      BY <2>1
    <3> QED BY <1>1, <2>3, <3>1, Zenon
  <2> QED BY <2>1, <2>2, <2>3
<1> QED BY <1>2, <1>3

(* Whatever a client may send, it becomes the last on its way. *)
LEMMA Sending ==
  ASSUME SessionInv, NEW k \in Replied \cup Unreplied, NEW s \in Named, SendPacket(k, s),
         named' = named, mine' \subseteq mine,
         MaxOpenStmts = 1 /\ ~torn /\ Changing(k) /\ pc \notin {"exit", "gone"} => mine' = {}
  PROVE  SessionInv'
<1> USE SessionAssumption DEF SendPacket
<1> DEFINE p == [kind |-> k, name |-> s.name, id |-> s.id, seq |-> 0]
<1>1. /\ p \in Sent /\ net' = Append(net, p) /\ net \in Seq(Sent)
      /\ p.kind = k /\ p.seq = 0
  BY DEF Sent, Named, SessionInv, Types
<1> HIDE DEF p
<1>2. /\ net' \in Seq(Sent) /\ Len(net') = Len(net) + 1 /\ net'[Len(net')] = p
      /\ \A i \in 1..Len(net) : net'[i] = net[i]
      /\ \A i \in 1..Len(net') : i \in 1..Len(net) \/ i = Len(net')
  BY <1>1, AppendProperties, LenProperties
<1>3. owed = None /\ owed' = IF k \in Replied THEN k ELSE IF k = "quit" THEN "bye" ELSE None
  OBVIOUS
<1>4. UNCHANGED <<up, buf, pc, cmd, sequence, die, stmt, todo, err, named, history>>
  OBVIOUS
<1>5. expect' = IF k \in Replied THEN 1 ELSE expect
  BY One
<1>6. pc \notin {"greet", "login", "ok"} /\ (torn \/ pc # "reply")
  BY <1>3 DEF SessionInv, LoginInv, LastInv
<1>7. Types'
  BY <1>2, <1>4, <1>5 DEF SessionInv, Types, history
<1>8. DieInv' /\ LoginInv' /\ RepliesNumbered'
  BY <1>4, <1>6 DEF SessionInv, DieInv, LoginInv, RepliesNumbered, history
<1>9. NumberInv'
  BY <1>1, <1>2, <1>4, <1>6 DEF SessionInv, NumberInv, Unreplied, Replied
<1>10. LastInv'
  <2> SUFFICES ASSUME ~torn PROVE LastInv'
    BY DEF LastInv, history
  <2>1. /\ \A i \in 1..Len(net) : net[i].kind \notin Replied
        /\ \A i \in 1..Len(buf) : buf[i].kind \notin Replied
        /\ pc = "dispatch" => cmd.kind \notin Replied
    BY <1>3 DEF SessionInv, LastInv, Waiting
  <2>2. k \in Replied => Waiting'
    BY <1>3, <1>5 DEF Waiting
  <2> QED BY <1>1, <1>2, <1>4, <1>6, <2>1, <2>2 DEF LastInv
<1>11. StmtInv'
  BY <1>1, <1>2, <1>4, <1>6 DEF SessionInv, StmtInv, Changing, history
<1> QED BY <1>7, <1>8, <1>9, <1>10, <1>11 DEF SessionInv

LEMMA ClientSteps == SessionInv /\ ClientStep => SessionInv'
<1> SUFFICES ASSUME SessionInv, ClientStep PROVE SessionInv'
  OBVIOUS
<1> USE SessionAssumption
<1>1. CASE Login
  <2>1. /\ net = <<>> /\ buf = <<>> /\ up /\ pc = "login" /\ expect = 1
        /\ net' = <<[kind |-> "login", name |-> 0, id |-> 0, seq |-> 1]>>
        /\ expect' = Second
        /\ UNCHANGED <<up, owed, mine, buf, pc, cmd, sequence, die, stmt, todo, err, named, history>>
    BY <1>1, NextNumber DEF Login, SessionInv, Types, LoginInv
  <2>2. [kind |-> "login", name |-> 0, id |-> 0, seq |-> 1] \in Sent
    BY DEF Sent
  <2>3. Types'
    BY <2>1, <2>2, One DEF SessionInv, Types, history
  <2>4. DieInv' /\ LoginInv' /\ NumberInv' /\ RepliesNumbered'
    BY <2>1 DEF SessionInv, DieInv, LoginInv, NumberInv, RepliesNumbered, history
  <2>5. LastInv' /\ StmtInv'
    BY <2>1 DEF SessionInv, LastInv, StmtInv, Replied, Changing, history
  <2> QED BY <2>3, <2>4, <2>5 DEF SessionInv
<1>2. ASSUME NEW k \in (Replied \ {"exec"}) \cup {"quit"}, SendCommand(k) PROVE SessionInv'
  <2>1. /\ SendPacket(k, Plain) /\ mine' = mine /\ named' = named
        /\ k = "prepare" => Cardinality(mine) < MaxOpenStmts
    BY <1>2 DEF SendCommand, SendPacket
  <2>2. Plain \in Named /\ k \in Replied \cup Unreplied /\ k # "stmtclose"
    BY DEF Plain, Named, Replied, Unreplied
  <2>3. ASSUME MaxOpenStmts = 1, ~torn, Changing(k), pc \notin {"exit", "gone"} PROVE mine' = {}
    <3>1. k = "prepare" /\ Cardinality(mine) < 1
      BY <2>1, <2>2, <2>3 DEF Changing
    <3>2. mine = {} \/ mine = {stmt}
      BY <2>3 DEF SessionInv, StmtInv
    <3>3. Cardinality({stmt}) = 1
      BY FS_Singleton
    <3>4. mine = {stmt} => Cardinality(mine) = 1
      BY <3>3, Zenon
    <3>5. ~(Cardinality(mine) = 1)
      BY <3>1
    <3>6. mine # {stmt}
      BY <3>4, <3>5, Zenon
    <3> QED BY <2>1, <3>2, <3>6
  <2> QED BY <2>1, <2>2, <2>3, Sending
<1>3. ASSUME NEW s \in mine \cup Guessed, SendExec(s) PROVE SessionInv'
  <2>1. SendPacket("exec", s) /\ mine' = mine /\ named' = named /\ s \in Named
    BY <1>3 DEF SendExec, SendPacket, SessionInv, Types, Guessed, Plain, Named
  <2> QED BY <2>1, Sending DEF Changing, Replied
<1>4. ASSUME NEW s \in mine \cup Guessed, SendStmtClose(s) PROVE SessionInv'
  <2>1. /\ SendPacket("stmtclose", s) /\ mine' = mine \ {s} /\ named' = named /\ s \in Named
    BY <1>4 DEF SendStmtClose, SendPacket, SessionInv, Types, Guessed, Plain, Named
  <2>2. ASSUME MaxOpenStmts = 1, ~torn, pc \notin {"exit", "gone"} PROVE mine' = {}
    BY <1>4, <2>1, <2>2 DEF SessionInv, StmtInv, Guessed
  <2> QED BY <2>1, <2>2, Sending DEF Unreplied
<1>5. CASE GoAway
  <2>1. /\ net' \in {net, <<>>} /\ up' = FALSE
        /\ UNCHANGED <<owed, expect, mine, buf, pc, cmd, sequence, die, stmt, todo, err, named, history>>
    BY <1>5 DEF GoAway
  <2>2. CASE net' = net
    BY <2>1, <2>2 DEF SessionInv, Types, DieInv, LoginInv, NumberInv, LastInv, Waiting, StmtInv, RepliesNumbered, history
  <2>3. CASE net' = <<>>
    <3>1. Types' /\ DieInv' /\ RepliesNumbered'
      BY <2>1, <2>3 DEF SessionInv, Types, DieInv, RepliesNumbered, history
    <3>2. LoginInv' /\ NumberInv'
      BY <2>1, <2>3 DEF SessionInv, LoginInv, NumberInv, history
    <3>3. LastInv' /\ StmtInv'
      BY <2>1, <2>3 DEF SessionInv, LastInv, Waiting, StmtInv, history
    <3> QED BY <3>1, <3>2, <3>3 DEF SessionInv
  <2> QED BY <2>1, <2>2, <2>3
<1>6. CASE Misread
  <2>1. /\ torn' = TRUE /\ pc \notin {"greet", "login", "ok"}
        /\ UNCHANGED <<up, expect, mine, net, buf, pc, cmd, sequence, die, stmt, todo, err, named,
                       gap, misnumbered, misexecuted>>
    BY <1>6 DEF Misread, SessionInv, LoginInv
  <2>2. Types' /\ DieInv' /\ RepliesNumbered' /\ LoginInv' /\ NumberInv'
    BY <2>1 DEF SessionInv, Types, DieInv, RepliesNumbered, LoginInv, NumberInv
  <2>3. LastInv' /\ StmtInv'
    BY <2>1 DEF SessionInv, LastInv, StmtInv
  <2> QED BY <2>2, <2>3 DEF SessionInv
<1> QED BY <1>1, <1>2, <1>3, <1>4, <1>5, <1>6 DEF ClientStep

(* What has arrived goes to the buffer, in its order.                       *)
LEMMA Filling == SessionInv /\ Fill => SessionInv'
<1> SUFFICES ASSUME SessionInv, Fill PROVE SessionInv'
  OBVIOUS
<1> USE SessionAssumption
<1>1. PICK n \in 1..Len(net) : buf' = SubSeq(net, 1, n) /\ net' = SubSeq(net, n + 1, Len(net))
  BY DEF Fill
<1>2. buf = <<>> /\ pc \in {"login", "wait"} /\ UNCHANGED <<client, pc, cmd, sequence, die, stmt, todo, err, named, history>>
  BY DEF Fill
<1>3. net \in Seq(Sent) /\ Len(net) \in Nat
  BY DEF SessionInv, Types
<1>4. /\ buf' \in Seq(Sent) /\ Len(buf') = n /\ \A i \in 1..n : buf'[i] = net[i]
      /\ net' \in Seq(Sent) /\ Len(net') = Len(net) - n
      /\ \A i \in 1..Len(net) - n : net'[i] = net[n + i] /\ n + i \in 1..Len(net)
  BY <1>1, <1>3
<1>5. /\ \A i \in 1..Len(buf') : i \in 1..Len(net) /\ buf'[i] = net[i]
      /\ \A i \in 1..Len(net') : n + i \in 1..Len(net) /\ net'[i] = net[n + i]
  BY <1>3, <1>4
<1>6. Types' /\ DieInv' /\ RepliesNumbered'
  BY <1>2, <1>4 DEF SessionInv, Types, DieInv, RepliesNumbered, client, history
<1>7. LoginInv'
  <2>1. pc = "login" => Len(net) <= 1
    BY DEF SessionInv, LoginInv
  <2>2. pc = "login" => Len(net) = 1 /\ n = 1 /\ Len(net') = 0
    BY <1>3, <1>4, <2>1
  <2>3. pc = "login" => net' = <<>>
    BY <1>4, <2>2
  <2> QED BY <1>2, <1>3, <1>4, <2>2, <2>3 DEF SessionInv, LoginInv, client, history
<1>8. NumberInv'
  BY <1>2, <1>5 DEF SessionInv, NumberInv, client
<1>9. LastInv'
  <2> SUFFICES ASSUME ~torn PROVE LastInv'
    BY <1>2 DEF LastInv, history
  <2>1. Waiting' = Waiting
    BY <1>2 DEF Waiting, client
  <2>2. ASSUME NEW i \in 1..Len(net'), net'[i].kind \in Replied
        PROVE  i = Len(net') /\ Waiting
    <3>1. net[n + i].kind \in Replied /\ n + i \in 1..Len(net)
      BY <1>5, <2>2
    <3>2. n + i = Len(net) /\ Waiting
      BY <3>1 DEF SessionInv, LastInv
    <3>3. i = Len(net) - n
      BY <1>3, <3>2
    <3> QED BY <1>4, <3>2, <3>3
  <2>3. ASSUME NEW i \in 1..Len(buf'), buf'[i].kind \in Replied
        PROVE  i = Len(buf') /\ net' = <<>> /\ Waiting
    <3>1. net[i].kind \in Replied /\ i \in 1..Len(net)
      BY <1>5, <2>3
    <3>2. i = Len(net) /\ Waiting
      BY <3>1 DEF SessionInv, LastInv
    <3>3. n = Len(net) /\ Len(net') = 0
      BY <1>3, <1>4, <3>2
    <3> QED BY <1>4, <3>2, <3>3
  <2> QED BY <1>2, <2>1, <2>2, <2>3 DEF LastInv
<1>10. StmtInv'
  BY <1>2, <1>5 DEF SessionInv, StmtInv, client, history
<1> QED BY <1>6, <1>7, <1>8, <1>9, <1>10 DEF SessionInv

-----------------------------------------------------------------------------
(* The handshake.                                                           *)
LEMMA Handshakes == SessionInv /\ (Greet \/ ReadLogin \/ WriteOK) => SessionInv'
<1> SUFFICES ASSUME SessionInv, Greet \/ ReadLogin \/ WriteOK PROVE SessionInv'
  OBVIOUS
<1> USE SessionAssumption
<1>1. CASE Greet
  <2>1. /\ pc = "greet" /\ net = <<>> /\ buf = <<>> /\ sequence = 0 /\ expect = 0 /\ owed = "login"
        /\ ~torn /\ gap = "none"
        /\ UNCHANGED <<up, owed, mine, net, buf, cmd, die, stmt, todo, err, named, misexecuted>>
    BY <1>1 DEF Greet, SessionInv, LoginInv
  <2>2. \/ sequence' = 1 /\ expect' = 1 /\ pc' = "login" /\ UNCHANGED <<torn, gap>>
        \/ pc' = "exit"
    BY <1>1, <2>1, NextNumber DEF Greet, Delivered, Arrives, Number
  <2>3. sequence' \in 0..SeqMod-1 /\ expect' \in 0..SeqMod-1 /\ torn' \in BOOLEAN /\ ~misnumbered'
    BY <1>1, <2>1, OneWrite DEF Greet, SessionInv, RepliesNumbered
  <2>4. Types' /\ DieInv' /\ RepliesNumbered'
    BY <2>1, <2>2, <2>3 DEF SessionInv, Types, DieInv, RepliesNumbered, Stages
  <2>5. LoginInv' /\ NumberInv' /\ LastInv' /\ StmtInv'
    BY <2>1, <2>2 DEF SessionInv, LoginInv, NumberInv, LastInv, StmtInv
  <2> QED BY <2>4, <2>5 DEF SessionInv
<1>2. CASE ReadLogin
  <2>1. /\ pc = "login" /\ buf # <<>> /\ buf' = Tail(buf) /\ sequence = 1 /\ owed = "login"
        /\ UNCHANGED <<client, net, cmd, die, stmt, todo, err, named, history>>
    BY <1>2 DEF ReadLogin, SessionInv, LoginInv
  <2>2. buf \in Seq(Sent) /\ Len(buf) = 1 /\ net = <<>> /\ buf[1].seq = 1 /\ expect = Second
    <3>1. buf \in Seq(Sent) /\ Len(buf) <= 1
      BY <2>1 DEF SessionInv, Types, LoginInv
    <3>2. Len(buf) = 1 /\ 1 \in 1..Len(buf)
      BY <2>1, <3>1, Single
    <3> QED BY <2>1, <3>1, <3>2 DEF SessionInv, LoginInv
  <2>3. buf' = <<>> /\ InSync
    BY <2>1, <2>2 DEF InSync, Received
  <2>4. sequence' = Second /\ pc' = "ok"
    BY <1>2, <2>1, <2>3, One, NextNumber DEF ReadLogin, Number
  <2>5. Types' /\ DieInv' /\ RepliesNumbered'
    BY <2>1, <2>2, <2>3, <2>4, One DEF SessionInv, Types, DieInv, RepliesNumbered, client, history, Stages
  <2>6. LoginInv' /\ NumberInv' /\ LastInv'
    <3>1. torn' = FALSE /\ gap' = "none"
      BY <2>1 DEF SessionInv, Types, LoginInv, history
    <3>2. LoginInv'
      BY <2>1, <2>2, <2>3, <2>4, <3>1 DEF LoginInv, client
    <3>3. NumberInv'
      BY <2>4 DEF NumberInv
    <3>4. net' = <<>> /\ buf' = <<>> /\ pc' = "ok"
      BY <2>1, <2>2, <2>3, <2>4
    <3>5. LastInv'
      BY <3>4 DEF LastInv
    <3> QED BY <3>2, <3>3, <3>5
  <2>7. StmtInv'
    BY <2>1, <2>2, <2>3, <2>4 DEF SessionInv, StmtInv, client, history
  <2> QED BY <2>5, <2>6, <2>7 DEF SessionInv
<1>3. CASE WriteOK
  <2>1. /\ pc = "ok" /\ net = <<>> /\ buf = <<>> /\ sequence = expect /\ pc' = "wait" /\ sequence' = 0
        /\ UNCHANGED <<up, mine, net, buf, cmd, die, stmt, todo, err, named, misexecuted>>
    BY <1>3 DEF WriteOK, SessionInv, LoginInv
  <2>2. expect' \in 0..SeqMod-1 /\ torn' \in BOOLEAN
    BY <1>3, NextNumber DEF WriteOK, Arrives, SessionInv, Types
  <2>3. ~misnumbered'
    BY <1>3, <2>1, Zenon DEF WriteOK, Arrives, SessionInv, RepliesNumbered
  <2>4. Types' /\ DieInv' /\ RepliesNumbered'
    BY <2>1, <2>2, <2>3 DEF SessionInv, Types, DieInv, RepliesNumbered, Stages
  <2>5. LoginInv' /\ NumberInv' /\ LastInv' /\ StmtInv'
    BY <2>1 DEF SessionInv, LoginInv, NumberInv, LastInv, StmtInv
  <2> QED BY <2>4, <2>5 DEF SessionInv
<1> QED BY <1>1, <1>2, <1>3

(* Steps that only lead on, or out, and leave what is on its way alone.     *)
LEMMA MovingOn ==
  ASSUME SessionInv, UNCHANGED <<client, net, buf, named, torn, misnumbered>>,
         pc \notin {"exit", "gone"} \/ pc' = "gone",
         pc \notin {"greet", "login", "ok"} \/ (net = <<>> /\ buf = <<>>),
         \/ pc' \in {"exit", "gone"} /\ stmt' \in {stmt, None}
         \/ pc' = "check" /\ stmt' = stmt
         \/ pc' = "check" /\ (MaxOpenStmts = 1 => torn \/ mine = {}) /\ stmt' = None
         \/ pc' = "wait" /\ sequence' = 0 /\ stmt' = stmt,
         sequence' \in {sequence, 0}, todo' \in Nat,
         die' \in {0, 1}, die' = 1 => pc' \in {"check", "exit", "gone"}
  PROVE  SessionInv'
<1>1. Types' /\ DieInv' /\ RepliesNumbered'
  BY SessionAssumption DEF SessionInv, Types, DieInv, RepliesNumbered, client, Stages
<1>2. LoginInv' /\ NumberInv'
  BY DEF SessionInv, LoginInv, NumberInv, client
<1>3. LastInv'
  BY DEF SessionInv, LastInv, Waiting, client
<1>4. StmtInv'
  BY SessionAssumption DEF SessionInv, StmtInv, client
<1> QED BY <1>1, <1>2, <1>3, <1>4 DEF SessionInv

LEMMA Leaving ==
  SessionInv /\ (ReadFails \/ HandleQuit \/ HandleFails \/ HandleStmtClose \/ CheckDie \/ Close) => SessionInv'
<1> SUFFICES ASSUME SessionInv, ReadFails \/ HandleQuit \/ HandleFails \/ HandleStmtClose \/ CheckDie \/ Close
             PROVE  SessionInv'
  OBVIOUS
<1>1. die \in {0, 1} /\ (die = 1 => pc \in {"check", "exit", "gone"}) /\ todo \in Nat
  BY DEF SessionInv, Types, DieInv
<1>2. CASE ReadFails
  BY <1>1, <1>2, MovingOn DEF ReadFails, history
<1>3. CASE HandleQuit
  BY <1>1, <1>3, MovingOn DEF HandleQuit, Dispatching, history
<1>4. CASE HandleFails
  BY <1>1, <1>4, MovingOn DEF HandleFails, Dispatching, history
<1>5. CASE HandleStmtClose
  <2>1. /\ pc = "dispatch" /\ cmd.kind = "stmtclose" /\ pc' \in {"check", "exit"} /\ stmt' \in {stmt, None}
        /\ UNCHANGED <<client, net, buf, cmd, sequence, die, todo, err, named, history>>
    BY <1>5 DEF HandleStmtClose, Dispatching
  <2>2. MaxOpenStmts = 1 => torn \/ mine = {}
    BY <2>1 DEF SessionInv, StmtInv, Changing
  <2> QED BY <1>1, <2>1, <2>2, MovingOn DEF history
<1>6. CASE CheckDie
  BY <1>1, <1>6, MovingOn DEF CheckDie, history
<1>7. CASE Close
  BY <1>1, <1>7, MovingOn DEF Close, history
<1> QED BY <1>2, <1>3, <1>4, <1>5, <1>6, <1>7

-----------------------------------------------------------------------------
(* Accept reads a command, and finds it in sync.                            *)
LEMMA Reading == SessionInv /\ ReadCommand => SessionInv'
<1> SUFFICES ASSUME SessionInv, ReadCommand PROVE SessionInv'
  OBVIOUS
<1> USE SessionAssumption
<1>1. /\ pc = "wait" /\ buf # <<>> /\ buf' = Tail(buf) /\ sequence = 0
      /\ UNCHANGED <<client, net, die, stmt, todo, err, named, history>>
  BY DEF ReadCommand, SessionInv, NumberInv
<1>2. /\ buf \in Seq(Sent) /\ Len(buf) \in Nat /\ 1 \in 1..Len(buf) /\ Head(buf) = buf[1] /\ buf[1] \in Sent
  BY <1>1 DEF SessionInv, Types
<1>3. buf[1].seq = 0 /\ buf[1].kind # "login"
  BY <1>1, <1>2 DEF SessionInv, NumberInv
<1>4. pc' = "dispatch" /\ cmd' = buf[1] /\ sequence' = 1
  BY <1>1, <1>2, <1>3, One, NextNumber DEF ReadCommand, InSync, Received, Number
<1>5. /\ buf' \in Seq(Sent) /\ Len(buf') = Len(buf) - 1
      /\ \A i \in 1..Len(buf') : i + 1 \in 1..Len(buf) /\ buf'[i] = buf[i + 1]
  BY <1>1, <1>2, HeadTailProperties
<1>6. Types' /\ DieInv' /\ RepliesNumbered'
  BY <1>1, <1>4, <1>5 DEF SessionInv, Types, DieInv, RepliesNumbered, client, history, Stages
<1>7. LoginInv' /\ NumberInv'
  BY <1>1, <1>2, <1>3, <1>4, <1>5 DEF SessionInv, LoginInv, NumberInv, client
<1>8. LastInv'
  <2> SUFFICES ASSUME ~torn PROVE LastInv'
    BY <1>1 DEF LastInv, history
  <2>1. Waiting' = Waiting
    BY <1>1 DEF Waiting, client
  <2>2. \A i \in 1..Len(net) : net[i].kind \in Replied => i = Len(net) /\ Waiting
    BY DEF SessionInv, LastInv
  <2>3. \A i \in 1..Len(buf') : buf'[i].kind \in Replied => i = Len(buf') /\ net = <<>> /\ Waiting
    BY <1>2, <1>5 DEF SessionInv, LastInv
  <2>4. buf[1].kind \in Replied => 1 = Len(buf) /\ net = <<>> /\ Waiting
    BY <1>2 DEF SessionInv, LastInv
  <2>5. 1 = Len(buf) => Len(buf') = 0
    BY <1>2, <1>5
  <2>6. buf[1].kind \in Replied => buf' = <<>> /\ net = <<>> /\ Waiting
    BY <1>5, <2>4, <2>5
  <2> QED BY <1>1, <1>4, <2>1, <2>2, <2>3, <2>6 DEF LastInv, client
<1>9. StmtInv'
  BY <1>1, <1>2, <1>4, <1>5 DEF SessionInv, StmtInv, client, history
<1> QED BY <1>6, <1>7, <1>8, <1>9 DEF SessionInv

(* A handler has a reply for the client: nothing else is on its way.        *)
LEMMA Replying ==
  ASSUME SessionInv, NEW n \in Nat, Reply(n), pc = "dispatch", cmd.kind \in Replied,
         UNCHANGED <<client, net, buf, cmd, sequence, die, torn, misnumbered>>,
         named' \in Nat, stmt' \in Named \cup {None},
         \/ stmt' = stmt /\ cmd.kind # "prepare"
         \/ stmt' \in Named /\ cmd.kind = "prepare"
  PROVE  SessionInv'
<1> USE SessionAssumption
<1>1. pc' = "reply" /\ todo' = n
  BY DEF Reply
<1>2. sequence = 1 /\ (torn \/ (net = <<>> /\ buf = <<>> /\ owed # None /\ expect = 1))
  BY DEF SessionInv, LastInv, Waiting, NumberInv
<1>3. Types' /\ DieInv' /\ RepliesNumbered'
  BY <1>1 DEF SessionInv, Types, DieInv, RepliesNumbered, client, Stages
<1>4. LoginInv' /\ NumberInv' /\ LastInv'
  BY <1>1, <1>2 DEF SessionInv, LoginInv, NumberInv, LastInv, client
<1>5. StmtInv'
  BY <1>1, <1>2 DEF SessionInv, StmtInv, Changing, client
<1> QED BY <1>3, <1>4, <1>5 DEF SessionInv

LEMMA Handling == SessionInv /\ (HandleQuery \/ HandleStmtPrepare \/ HandleStmtExec) => SessionInv'
<1> SUFFICES ASSUME SessionInv, HandleQuery \/ HandleStmtPrepare \/ HandleStmtExec PROVE SessionInv'
  OBVIOUS
<1> USE SessionAssumption
<1>1. stmt \in Named \cup {None} /\ named \in Nat /\ die \in {0, 1} /\ (die = 1 => pc \in {"check", "exit", "gone"})
      /\ todo \in Nat
  BY DEF SessionInv, Types, DieInv
<1>2. CASE HandleQuery
  <2>1. PICK n \in 1..MaxReply : Reply(n)
    BY <1>2 DEF HandleQuery
  <2>2. /\ pc = "dispatch" /\ cmd.kind = "query" /\ stmt' = stmt /\ named' = named
        /\ UNCHANGED <<client, net, buf, cmd, sequence, die, torn, misnumbered>>
    BY <1>2 DEF HandleQuery, Dispatching, history
  <2> QED BY <1>1, <2>1, <2>2, Replying DEF Replied
<1>3. CASE HandleStmtPrepare
  <2>1. PICK n \in 1..MaxReply : Reply(n)
    BY <1>3 DEF HandleStmtPrepare
  <2>2. PICK i \in StmtIds : stmt' = [name |-> named', id |-> i]
    BY <1>3 DEF HandleStmtPrepare
  <2>3. /\ pc = "dispatch" /\ cmd.kind = "prepare" /\ named' = named + 1
        /\ UNCHANGED <<client, net, buf, cmd, sequence, die, torn, misnumbered>>
    BY <1>3 DEF HandleStmtPrepare, Dispatching, history
  <2>4. named' \in Nat /\ stmt' \in Named
    BY <1>1, <2>2, <2>3 DEF Named
  <2> QED BY <2>1, <2>3, <2>4, Replying DEF Replied
<1>4. CASE HandleStmtExec
  <2>1. /\ pc = "dispatch" /\ cmd.kind = "exec" /\ stmt' = stmt /\ named' = named
        /\ UNCHANGED <<client, net, buf, cmd, sequence, die, torn, misnumbered>>
    BY <1>4 DEF HandleStmtExec, Dispatching
  <2>2. CASE stmt = None
    BY <1>1, <1>4, <2>1, <2>2, MovingOn DEF HandleStmtExec
  <2>3. CASE stmt # None
    <3>1. PICK n \in 0..MaxReply : Reply(n)
      BY <1>4, <2>3 DEF HandleStmtExec
    <3> QED BY <1>1, <2>1, <3>1, Replying DEF Replied
  <2> QED BY <2>2, <2>3
<1> QED BY <1>2, <1>3, <1>4

(* writeResultPackets. *)
LEMMA Writing == SessionInv /\ (WritePacket \/ WriteDone) => SessionInv'
<1> SUFFICES ASSUME SessionInv, WritePacket \/ WriteDone PROVE SessionInv'
  OBVIOUS
<1> USE SessionAssumption
<1>1. /\ pc = "reply" /\ sequence \in 0..SeqMod-1 /\ expect \in 0..SeqMod-1
      /\ torn \/ (net = <<>> /\ buf = <<>> /\ owed # None /\ sequence = expect)
  BY DEF WritePacket, WriteDone, SessionInv, Types, LastInv
<1>2. ASSUME WritePacket, buf = <<>> PROVE SessionInv'
  <2>1. /\ WriteNext /\ todo > 0 /\ pc' = "reply" /\ todo' = todo - 1
        /\ UNCHANGED <<up, owed, mine, net, buf, cmd, die, stmt, named, misexecuted>>
    BY <1>1, <1>2 DEF WritePacket, WriteNext
  <2>2. /\ sequence' \in 0..SeqMod-1 /\ expect' \in 0..SeqMod-1
        /\ torn' \in BOOLEAN /\ (torn => torn') /\ ~misnumbered'
        /\ torn' \/ sequence' = expect'
    BY <1>1, <2>1, OneWrite DEF WriteNext, SessionInv, RepliesNumbered
  <2>4. Types' /\ DieInv' /\ RepliesNumbered'
    BY <1>1, <2>1, <2>2 DEF SessionInv, Types, DieInv, RepliesNumbered
  <2>5. LoginInv' /\ NumberInv' /\ LastInv'
    BY <1>1, <2>1, <2>2 DEF SessionInv, LoginInv, NumberInv, LastInv
  <2>6. StmtInv'
    BY <1>1, <2>1, <2>2 DEF SessionInv, StmtInv
  <2> QED BY <2>4, <2>5, <2>6 DEF SessionInv
<1>3. ASSUME WritePacket, buf # <<>> PROVE SessionInv'
  <2>1. /\ pc' = "exit" /\ todo \in Nat /\ die \in {0, 1} /\ die # 1
        /\ UNCHANGED <<client, net, buf, cmd, sequence, die, stmt, todo, named, torn, misnumbered>>
    BY <1>1, <1>3 DEF WritePacket, BufferBusy, SessionInv, Types, DieInv, client
  <2> QED BY <1>1, <2>1, MovingOn
<1>4. CASE WriteDone
  <2>1. /\ pc' \in {"exit", "check"} /\ sequence' = 0
        /\ UNCHANGED <<up, expect, net, buf, cmd, die, stmt, todo, err, named, torn, misnumbered, misexecuted>>
        /\ mine' = mine \/ (cmd.kind = "prepare" /\ mine' = mine \cup {stmt})
    BY <1>4 DEF WriteDone
  <2>2. Types' /\ DieInv' /\ RepliesNumbered'
    BY <1>1, <2>1 DEF SessionInv, Types, DieInv, StmtInv, RepliesNumbered, Stages
  <2>3. LoginInv' /\ NumberInv' /\ LastInv'
    BY <1>1, <2>1 DEF SessionInv, LoginInv, NumberInv, LastInv
  <2>4. StmtInv'
    BY <1>1, <2>1 DEF SessionInv, StmtInv, Changing
  <2> QED BY <2>2, <2>3, <2>4 DEF SessionInv
<1> QED BY <1>2, <1>3, <1>4

LEMMA SessionStep == SessionInv /\ [Next]_vars => SessionInv'
<1> SUFFICES ASSUME SessionInv, [Next]_vars PROVE SessionInv'
  OBVIOUS
<1>1. CASE ClientStep
  BY <1>1, ClientSteps
<1>2. CASE Handler
  BY <1>2, Handshakes, Filling, Leaving, Reading, Handling, Writing DEF Handler, OwnStep, Outcome
<1>3. CASE UNCHANGED vars
  BY <1>3 DEF vars, client, history, SessionInv, Types, DieInv, LoginInv, NumberInv, LastInv, Waiting, StmtInv,
              RepliesNumbered
<1> QED BY <1>1, <1>2, <1>3 DEF Next

LEMMA SessionInvariance == Spec => []SessionInv
BY InitSession, SessionStep, PTL DEF Spec

-----------------------------------------------------------------------------
(* c.die is never closed twice, in any order of COM_QUIT, of a failing read *)
(* and of commands: close of a closed channel would panic (client.go:286,   *)
(* packets.go readPacket).                                                  *)
THEOREM DieOnce == Spec => []DieClosedOnce
<1>1. SessionInv => DieClosedOnce
  BY DEF SessionInv, DieInv, DieClosedOnce
<1> QED BY <1>1, SessionInvariance, PTL

(* No command of a legal client is rejected for its number, whatever went   *)
(* before: Accept always reads with c.sequence at 0 (client.go:241).        *)
THEOREM CommandsAccepted == Spec => []CommandsInSync
<1>1. SessionInv => CommandsInSync
  <2> SUFFICES ASSUME SessionInv, pc \in {"login", "wait"}, buf # <<>> PROVE InSync
    BY DEF CommandsInSync
  <2>1. buf \in Seq(Sent) /\ 1 \in 1..Len(buf) /\ Head(buf) = buf[1]
    BY DEF SessionInv, Types
  <2>2. buf[1].seq = sequence
    BY <2>1 DEF SessionInv, LoginInv, NumberInv
  <2> QED BY <2>1, <2>2 DEF InSync, Received
<1> QED BY <1>1, SessionInvariance, PTL

(* Replies are numbered without a gap for every length, over the wrap-around *)
(* of the number, and behind packets of which nothing could be written,     *)
(* until a part of one goes out or the client misreads a reply that lacks   *)
(* one (writePacket, writeResultPackets).                                   *)
THEOREM NumbersFit == Spec => []RepliesNumbered
<1>1. SessionInv => RepliesNumbered
  BY DEF SessionInv
<1> QED BY <1>1, SessionInvariance, PTL

(* A reply is never given up because commands behind it are in the buffer   *)
(* it is written from (takeBuffer in writeResultPackets), unless the client *)
(* has lost track of its replies.                                           *)
THEOREM BufferFree == Spec => []ReplyFindsBufferFree
<1>1. SessionInv => ReplyFindsBufferFree
  BY DEF SessionInv, LastInv, ReplyFindsBufferFree
<1> QED BY <1>1, SessionInvariance, PTL

(* The statement a client keeps is the one that c.stmt holds, between any   *)
(* two commands, if it keeps one at a time (handleStmtPrepare,              *)
(* handleStmtClose) and has not lost track of its replies.                  *)
THEOREM StatementHeld == Spec => []StatementKept
<1>1. SessionInv => StatementKept
  BY DEF SessionInv, StmtInv, StatementKept, Quiet
<1> QED BY <1>1, SessionInvariance, PTL

-----------------------------------------------------------------------------
(* What keeps the session and its client from waiting for each other: a     *)
(* command that the client waits for is on its way, in c.buf, or in work.   *)
Calling(k) == k \in Replied \cup {"quit"}

OwedInv ==
  /\ owed \in Replied \cup {"login", "bye", None}
  /\ gap \in {"none", "write", "exec"}
  /\ gap = "none" /\ up =>
       /\ owed = "login" => pc \in {"greet", "login", "ok", "exit", "gone"}
       /\ owed \in Replied \cup {"bye"} =>
            \/ \E i \in 1..Len(net) : Calling(net[i].kind)
            \/ \E i \in 1..Len(buf) : Calling(buf[i].kind)
            \/ pc = "dispatch" /\ Calling(cmd.kind)
            \/ pc = "reply"
            \/ pc = "check" /\ die = 1
            \/ pc \in {"exit", "gone"}

LEMMA OwedInit == Init => OwedInv
BY DEF Init, OwedInv, Replied

LEMMA OwedByClient == SessionInv /\ OwedInv /\ ClientStep => OwedInv'
<1> SUFFICES ASSUME SessionInv, OwedInv, ClientStep PROVE OwedInv'
  OBVIOUS
<1>1. CASE Login
  <2>1. owed = "login" /\ pc = "login" /\ UNCHANGED <<up, owed, pc, gap>>
    BY <1>1 DEF Login, history
  <2> QED BY <2>1, SessionAssumption DEF OwedInv, Replied
<1>2. ASSUME NEW k \in Replied \cup Unreplied, NEW s \in Named, SendPacket(k, s) PROVE OwedInv'
  <2> DEFINE p == [kind |-> k, name |-> s.name, id |-> s.id, seq |-> 0]
  <2>1. /\ p \in Sent /\ net' = Append(net, p) /\ net \in Seq(Sent) /\ p.kind = k
    BY <1>2, SessionAssumption DEF SendPacket, Sent, Named, SessionInv, Types
  <2> HIDE DEF p
  <2>2. Len(net') \in 1..Len(net') /\ net'[Len(net')].kind = k
    BY <2>1, AppendProperties, LenProperties
  <2>3. /\ owed' = IF k \in Replied THEN k ELSE IF k = "quit" THEN "bye" ELSE None
        /\ UNCHANGED <<gap, up, pc>>
    BY <1>2 DEF SendPacket, history
  <2>4. Calling(k) \/ owed' = None
    BY <2>3 DEF Calling
  <2>5. None \notin Replied \cup {"login", "bye"}
    BY SessionAssumption
  <2>6. owed' # "login" /\ owed' \in Replied \cup {"bye", None}
    BY <2>3, SessionAssumption DEF Replied
  <2> QED BY <2>2, <2>3, <2>4, <2>5, <2>6 DEF OwedInv
<1>3. ASSUME NEW k \in (Replied \ {"exec"}) \cup {"quit"}, SendCommand(k) PROVE OwedInv'
  BY <1>2, <1>3 DEF SendCommand, Plain, Named, Unreplied
<1>4. ASSUME NEW s \in mine \cup Guessed, SendExec(s) \/ SendStmtClose(s) PROVE OwedInv'
  <2>1. s \in Named
    BY <1>4 DEF SessionInv, Types, Guessed, Plain, Named
  <2> QED BY <1>2, <1>4, <2>1 DEF SendExec, SendStmtClose, Replied, Unreplied
<1>5. CASE GoAway
  BY <1>5 DEF GoAway, OwedInv, history
<1>6. CASE Misread
  BY <1>6, SessionAssumption DEF Misread, OwedInv, Replied
<1> QED BY <1>1, <1>3, <1>4, <1>5, <1>6 DEF ClientStep

LEMMA OwedByHandler == SessionInv /\ OwedInv /\ Handler => OwedInv'
<1> SUFFICES ASSUME SessionInv, OwedInv, Handler PROVE OwedInv'
  OBVIOUS
<1>0. net \in Seq(Sent) /\ buf \in Seq(Sent) /\ Len(net) \in Nat /\ Len(buf) \in Nat
  BY DEF SessionInv, Types
<1>1. CASE Greet
  BY <1>1, SessionAssumption
     DEF Greet, Delivered, Arrives, NotDelivered, SessionInv, LoginInv, OwedInv, Replied
<1>2. CASE Fill
  <2>1. PICK n \in 1..Len(net) : buf' = SubSeq(net, 1, n) /\ net' = SubSeq(net, n + 1, Len(net))
    BY <1>2 DEF Fill
  <2>2. buf = <<>> /\ pc \in {"login", "wait"} /\ UNCHANGED <<client, pc, gap>>
    BY <1>2 DEF Fill, history
  <2>3. /\ Len(buf') = n /\ \A i \in 1..n : buf'[i] = net[i]
        /\ Len(net') = Len(net) - n
        /\ \A i \in 1..Len(net) - n : net'[i] = net[n + i]
    BY <1>0, <2>1
  <2>4. ASSUME NEW i \in 1..Len(net), Calling(net[i].kind)
        PROVE  \/ \E j \in 1..Len(net') : Calling(net'[j].kind)
               \/ \E j \in 1..Len(buf') : Calling(buf'[j].kind)
    <3>1. CASE i <= n
      <4>1. i \in 1..Len(buf') /\ buf'[i] = net[i]
        BY <2>3, <3>1
      <4> QED BY <2>4, <4>1
    <3>2. CASE i > n
      <4>1. i - n \in 1..Len(net') /\ i - n \in 1..Len(net) - n /\ n + (i - n) = i
        BY <1>0, <2>3, <3>2
      <4>2. net'[i - n] = net[i]
        BY <2>3, <4>1
      <4> QED BY <2>4, <4>1, <4>2
    <3> QED BY <1>0, <3>1, <3>2
  <2>5. ~\E i \in 1..Len(buf) : Calling(buf[i].kind)
    BY <2>2
  <2> QED BY <2>2, <2>4, <2>5 DEF OwedInv, client
<1>3. CASE ReadLogin \/ WriteOK
  <2>1. owed = "login" /\ UNCHANGED up
    BY <1>3 DEF ReadLogin, WriteOK, SessionInv, LoginInv, client
  <2>2. CASE ReadLogin
    BY <2>1, <2>2, SessionAssumption DEF ReadLogin, OwedInv, client, history, Replied
  <2>3. CASE WriteOK
    BY <2>1, <2>3, SessionAssumption DEF WriteOK, Arrives, OwedInv, Replied
  <2> QED BY <1>3, <2>2, <2>3
<1>4. CASE ReadFails
  BY <1>4 DEF ReadFails, OwedInv, client, history
<1>5. CASE ReadCommand
  <2>1. /\ pc = "wait" /\ buf # <<>> /\ buf' = Tail(buf) /\ UNCHANGED <<client, net, gap>>
        /\ \/ cmd' = Head(buf) /\ pc' = "dispatch"
           \/ pc' = "exit"
    BY <1>5 DEF ReadCommand, Received, history
  <2>2. /\ Head(buf) = buf[1] /\ Len(buf') = Len(buf) - 1
        /\ \A i \in 1..Len(buf) - 1 : buf'[i] = buf[i + 1]
    BY <1>0, <2>1
  <2>3. ASSUME NEW i \in 1..Len(buf), Calling(buf[i].kind), pc' = "dispatch"
        PROVE  Calling(cmd'.kind) \/ \E j \in 1..Len(buf') : Calling(buf'[j].kind)
    <3>1. CASE i = 1
      BY <2>1, <2>2, <2>3, <3>1
    <3>2. CASE i > 1
      <4>1. i - 1 \in 1..Len(buf') /\ i - 1 \in 1..Len(buf) - 1 /\ (i - 1) + 1 = i
        BY <1>0, <2>2, <3>2
      <4>2. buf'[i - 1] = buf[i]
        BY <2>2, <4>1
      <4> QED BY <2>3, <4>1, <4>2
    <3> QED BY <1>0, <3>1, <3>2
  <2>4. pc' = "exit" => OwedInv'
    BY <2>1 DEF OwedInv, client
  <2>5. pc' = "dispatch" => OwedInv'
    BY <2>1, <2>3 DEF OwedInv, client
  <2> QED BY <2>1, <2>4, <2>5
<1>6. CASE HandleQuit
  <2>1. die = 0 /\ die' = 1
    BY <1>6 DEF HandleQuit, Dispatching, SessionInv, Types, DieInv
  <2>2. pc = "dispatch" /\ pc' = "check" /\ UNCHANGED <<client, gap>>
    BY <1>6 DEF HandleQuit, Dispatching, history
  <2> QED BY <2>1, <2>2 DEF OwedInv, client
<1>7. CASE HandleFails
  BY <1>7 DEF HandleFails, Dispatching, OwedInv, client, history
<1>8. CASE HandleQuery \/ HandleStmtPrepare
  <2>1. pc = "dispatch" /\ pc' = "reply" /\ UNCHANGED <<client, gap>>
    BY <1>8 DEF HandleQuery, HandleStmtPrepare, Dispatching, Reply, history
  <2> QED BY <2>1 DEF OwedInv, client
<1>9. CASE HandleStmtExec
  <2>1. /\ pc = "dispatch" /\ pc' \in {"exit", "reply"} /\ UNCHANGED client
        /\ gap' \in {gap, "exec"}
    BY <1>9 DEF HandleStmtExec, Dispatching, Reply
  <2> QED BY <2>1 DEF OwedInv, client
<1>10. CASE HandleStmtClose
  <2>1. /\ pc = "dispatch" /\ ~Calling(cmd.kind) /\ pc' \in {"exit", "check"}
        /\ UNCHANGED <<client, net, buf, gap, cmd>>
    BY <1>10 DEF HandleStmtClose, Dispatching, Calling, Replied, history
  <2> QED BY <2>1 DEF OwedInv, client
<1>11. CASE WritePacket
  <2>1. /\ pc = "reply" /\ pc' \in {"exit", "reply"} /\ UNCHANGED <<up, owed>>
        /\ gap' \in {gap, "write"}
    BY <1>11 DEF WritePacket, WriteNext, Delivered, Arrives, NotDelivered, BufferBusy
  <2> QED BY <2>1 DEF OwedInv
<1>12. CASE WriteDone
  <2>1. pc = "reply" /\ UNCHANGED up /\ ((owed' = None /\ gap' = "none") \/ (gap # "none" /\ UNCHANGED <<owed, gap>>))
    BY <1>12 DEF WriteDone
  <2> QED BY <2>1, SessionAssumption DEF OwedInv
<1>13. CASE CheckDie
  <2>1. /\ pc = "check" /\ UNCHANGED <<client, net, buf, gap>>
        /\ pc' = IF die > 0 THEN "exit" ELSE "wait"
    BY <1>13 DEF CheckDie, history
  <2> QED BY <2>1 DEF OwedInv, client
<1>14. CASE Close
  BY <1>14 DEF Close, OwedInv, client, history
<1> QED BY <1>1, <1>2, <1>3, <1>4, <1>5, <1>6, <1>7, <1>8, <1>9, <1>10, <1>11, <1>12, <1>13, <1>14 DEF Handler, OwnStep, Outcome

LEMMA OwedAlways == Spec => [](SessionInv /\ OwedInv)
<1>1. Init => OwedInv
  BY OwedInit
<1>2. SessionInv /\ OwedInv /\ [Next]_vars => OwedInv'
  <2>1. UNCHANGED vars /\ OwedInv => OwedInv'
    BY DEF OwedInv, vars, client, history
  <2> QED BY <2>1, OwedByClient, OwedByHandler DEF Next
<1> QED BY <1>1, <1>2, SessionInvariance, PTL DEF Spec

(* A step of the session's goroutine is possible: the guards of Handler. *)
Ready ==
  \/ pc \in {"greet", "ok", "check", "exit"}
  \/ pc \in {"login", "wait"} /\ (buf # <<>> \/ net # <<>> \/ ~up)
  \/ pc = "dispatch" /\ cmd.kind \in Replied \cup Unreplied
  \/ pc = "reply" /\ todo >= 0

(* The client may log in, or send a command. *)
ClientsTurn ==
  /\ up
  /\ \/ pc = "login" /\ net = <<>> /\ buf = <<>> /\ owed = "login"
     \/ owed = None /\ Len(net) + Len(buf) < MaxPipe

NeverBothWait == pc = "gone" \/ Ready \/ ClientsTurn \/ (up /\ gap # "none")

(* The session and a legal client never wait for each other: where          *)
(* readPacket waits, the client has its login or its next command to send,  *)
(* whatever was sent ahead and whatever was read into c.buf at once, unless *)
(* a packet of a reply could not be written or an execute failed (gap).     *)
THEOREM NobodyStuck == Spec => []NeverBothWait
<1>1. SessionInv /\ OwedInv => NeverBothWait
  <2> SUFFICES ASSUME SessionInv, OwedInv, pc # "gone", ~Ready
               PROVE  ClientsTurn \/ (up /\ gap # "none")
    BY DEF NeverBothWait
  <2>1. pc \in Stages /\ todo \in Nat
    BY DEF SessionInv, Types
  <2>2. pc # "reply"
    BY <2>1 DEF Ready
  <2>3. pc # "dispatch"
    BY DEF Ready, SessionInv, NumberInv, Sent
  <2>4. pc \in {"login", "wait"} /\ up /\ net = <<>> /\ buf = <<>>
    BY <2>1, <2>2, <2>3 DEF Ready, Stages
  <2>5. CASE pc = "login"
    BY <2>4, <2>5 DEF ClientsTurn, SessionInv, LoginInv
  <2>6. CASE pc = "wait"
    <3>1. gap = "none" => owed = None
      BY <2>4, <2>6 DEF OwedInv
    <3> QED BY <2>4, <3>1, SessionAssumption DEF ClientsTurn
  <2> QED BY <2>4, <2>5, <2>6
<1> QED BY <1>1, OwedAlways, PTL

-----------------------------------------------------------------------------
(* How far the session is from waiting or ending: the packets that it has   *)
(* not read, the stage, the packets to write, and what has not arrived.     *)
Rank ==
  CASE pc = "greet" -> 8 [] pc = "login" -> 7 [] pc = "ok" -> 6
    [] pc = "dispatch" -> 5 [] pc = "reply" -> 4 [] pc = "check" -> 3
    [] pc = "wait" -> 2 [] pc = "exit" -> 1 [] pc = "gone" -> 0

Work == <<Len(net) + Len(buf), Rank, todo, Len(net)>>

(* In the lexicographic order. *)
Nearer == \E i \in 1..4 : Work'[i] < Work[i] /\ \A j \in 1..i - 1 : Work'[j] = Work[j]

LEMMA RankIs == pc \in Stages => Rank \in Nat
BY DEF Rank, Stages

LEMMA NearerByRead ==
  ASSUME Types, buf # <<>>, buf' = Tail(buf), net' = net
  PROVE  Nearer
<1>1. Len(net) \in Nat /\ Len(buf) \in Nat /\ Len(buf') = Len(buf) - 1
  BY DEF Types
<1>2. Len(net') + Len(buf') < Len(net) + Len(buf)
  BY <1>1
<1> QED BY <1>2 DEF Nearer, Work

LEMMA NearerByRank ==
  ASSUME Rank' < Rank, UNCHANGED <<net, buf>>
  PROVE  Nearer
BY DEF Nearer, Work

LEMMA NearerByWrite ==
  ASSUME Rank' = Rank, UNCHANGED <<net, buf>>, todo' < todo
  PROVE  Nearer
BY DEF Nearer, Work

LEMMA NearerByFill == SessionInv /\ Fill => Nearer
<1> SUFFICES ASSUME SessionInv, Fill PROVE Nearer
  OBVIOUS
<1>1. PICK n \in 1..Len(net) : buf' = SubSeq(net, 1, n) /\ net' = SubSeq(net, n + 1, Len(net))
  BY DEF Fill
<1>2. net \in Seq(Sent) /\ Len(net) \in Nat
  BY DEF SessionInv, Types
<1>3. Len(buf') = n /\ Len(net') = Len(net) - n
  BY <1>1, <1>2
<1>4. buf = <<>> /\ Len(buf) = 0 /\ Rank' = Rank /\ todo' = todo
  BY DEF Fill, Rank
<1>5. Len(net') + Len(buf') = Len(net) + Len(buf) /\ Len(net') < Len(net)
  BY <1>2, <1>3, <1>4
<1> QED BY <1>4, <1>5 DEF Nearer, Work

(* Every step of the session. *)
LEMMA NearerByHandler == SessionInv /\ Handler => Nearer
<1> SUFFICES ASSUME SessionInv, Handler PROVE Nearer
  OBVIOUS
<1>0. Types
  BY DEF SessionInv
<1>1. CASE Fill
  BY <1>1, NearerByFill
<1>2. CASE ReadLogin \/ ReadCommand
  BY <1>0, <1>2, NearerByRead DEF ReadLogin, ReadCommand
<1>3. CASE WritePacket
  <2>1. CASE buf = <<>>
    <3>1. Rank' = Rank /\ UNCHANGED <<net, buf>> /\ todo' < todo
      BY <1>0, <1>3, <2>1 DEF WritePacket, WriteNext, Rank, Types
    <3> QED BY <3>1, NearerByWrite
  <2>2. CASE buf # <<>>
    <3>1. pc = "reply" /\ pc' = "exit" /\ UNCHANGED <<net, buf>>
      BY <1>3, <2>2 DEF WritePacket, BufferBusy
    <3> QED BY <3>1, NearerByRank DEF Rank
  <2> QED BY <2>1, <2>2
<1>4. CASE Greet \/ WriteOK \/ ReadFails
  <2>1. /\ UNCHANGED <<net, buf>>
        /\ \/ pc = "greet" /\ pc' \in {"login", "exit"}
           \/ pc = "ok" /\ pc' = "wait"
           \/ pc \in {"login", "wait"} /\ pc' = "exit"
    BY <1>4 DEF Greet, WriteOK, ReadFails
  <2> QED BY <2>1, NearerByRank DEF Rank
<1>5. CASE \/ HandleQuit \/ HandleFails \/ HandleQuery
          \/ HandleStmtPrepare \/ HandleStmtExec \/ HandleStmtClose
  <2>1. /\ UNCHANGED <<net, buf>>
        /\ pc = "dispatch" /\ pc' \in {"check", "exit", "reply"}
    BY <1>5 DEF HandleQuit, HandleFails, HandleQuery, HandleStmtPrepare, HandleStmtExec,
                HandleStmtClose, Dispatching, Reply
  <2> QED BY <2>1, NearerByRank DEF Rank
<1>6. CASE WriteDone \/ CheckDie \/ Close
  <2>1. /\ UNCHANGED <<net, buf>>
        /\ \/ pc = "reply" /\ pc' \in {"exit", "check"}
           \/ pc = "check" /\ pc' \in {"exit", "wait"}
           \/ pc = "exit" /\ pc' = "gone"
    BY <1>6 DEF WriteDone, CheckDie, Close
  <2> QED BY <2>1, NearerByRank DEF Rank
<1> QED BY <1>1, <1>2, <1>3, <1>4, <1>5, <1>6 DEF Handler, OwnStep, Outcome

(***************************************************************************)
(* Every step of the session brings it nearer to the point where it waits, *)
(* or ends, and once the client is gone nothing leads away from it.        *)
(***************************************************************************)
SessionGoesOn ==
  [][/\ Handler => Nearer
     /\ ~up => Nearer]_vars

(* Work is in Nat^4, whose lexicographic order has no endless descent: none *)
(* of the loops (of handleClient, of writeResultPackets) goes round for     *)
(* ever, and a client that went away leaves a session that takes finitely   *)
(* many steps more.  By NobodyStuck the last of them ends it.               *)
THEOREM SessionsGoOn == Spec => [](Work \in Nat \X Nat \X Nat \X Nat) /\ SessionGoesOn
<1>1. SessionInv => Work \in Nat \X Nat \X Nat \X Nat
  <2> SUFFICES ASSUME SessionInv PROVE Work \in Nat \X Nat \X Nat \X Nat
    OBVIOUS
  <2>1. Len(net) \in Nat /\ Len(buf) \in Nat /\ todo \in Nat /\ pc \in Stages
    BY DEF SessionInv, Types
  <2>2. Rank \in Nat
    BY <2>1, RankIs
  <2> QED BY <2>1, <2>2 DEF Work
<1>2. SessionInv /\ Next /\ ~up => Nearer
  <2>1. ~up => ~ClientStep
    BY DEF ClientStep, Login, SendCommand, SendExec, SendStmtClose, SendPacket, Misread, GoAway
  <2> QED BY <2>1, NearerByHandler DEF Next
<1>3. SessionInv /\ [Next]_vars => [/\ Handler => Nearer
                                    /\ ~up => Nearer]_vars
  BY <1>2, NearerByHandler
<1> QED BY <1>1, <1>3, SessionInvariance, PTL DEF Spec, SessionGoesOn
=============================================================================
