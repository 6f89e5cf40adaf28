------------------------------ MODULE Session ------------------------------
(***************************************************************************)
(* One client session: the goroutine of handleClient (server/server.go)    *)
(* with the Client object (server/client.go, server/packets.go), and the   *)
(* MySQL client at the other end of the TCP connection.                    *)
(*                                                                         *)
(* The client is a legal one: it sends a command when it is not waiting    *)
(* for the reply to an earlier one, it may send further commands behind    *)
(* one that has no reply, and it may go away at any time.  After a write   *)
(* that failed it may take what arrives for something else.  What MySQL    *)
(* and the connection pool do for a command is its outcome: a number of    *)
(* reply packets, a failure, or none for ever.                             *)
(***************************************************************************)
EXTENDS Integers, Sequences, FiniteSets

CONSTANTS
  SeqMod,     \* packet numbers are counted modulo SeqMod (256)
  MaxReply,   \* bound on the packets of one reply
  MaxPipe,    \* bound on the commands on their way
  MaxStmts,   \* bound on the statements prepared in a session
  MaxOpenStmts, \* bound on the statements a client keeps prepared at a time
  StmtIds,    \* the statement ids MySQL hands out, anew on every connection
  None        \* no command, no statement

Replied == {"query", "initdb", "fieldlist", "prepare", "exec", "other"}
Unreplied == {"stmtclose", "quit"}

ASSUME SessionAssumption ==
  /\ SeqMod \in Nat \ {0, 1}
  /\ MaxReply \in Nat \ {0} /\ MaxPipe \in Nat \ {0}
  /\ MaxStmts \in Nat /\ MaxOpenStmts \in Nat
  /\ None \notin Replied \cup {"login", "bye"}

VARIABLES
  up,       \* the client's end of the TCP connection is open
  net,      \* packets of the client that the server has not received
  buf,      \* packets in c.buf
  owed,     \* what the client waits for: the reply to a command, "login", "bye"
  expect,   \* the number it expects on the next packet
  mine,     \* the prepared statements it knows, as [name, id] records
  pc,       \* where the session's goroutine is
  cmd,      \* the command in dispatch
  sequence, \* c.sequence
  die,      \* how often c.die has been closed
  stmt,     \* c.stmt, as a [name, id] record
  todo,     \* reply packets that writeResultPackets has still to write
  err,      \* its variable err: the last write failed
  named,    \* number of statements prepared so far
  gap,      \* history: why the client lacks something it waits for
  torn,     \* history: the client has lost track of packets and replies
  misnumbered, \* history: a packet arrived under a number not expected
  misexecuted  \* history: another statement than the one named was executed

client == <<up, owed, expect, mine>>
history == <<gap, torn, misnumbered, misexecuted>>
vars == <<client, net, buf, pc, cmd, sequence, die, stmt, todo, err, named, history>>

Init ==
  /\ up = TRUE /\ net = <<>> /\ buf = <<>>
  /\ owed = "login" /\ expect = 0 /\ mine = {}
  /\ pc = "greet" /\ cmd = None /\ sequence = 0 /\ die = 0
  /\ stmt = None /\ todo = 0 /\ err = FALSE /\ named = 0
  /\ gap = "none" /\ torn = FALSE /\ misnumbered = FALSE /\ misexecuted = FALSE

(***************************************************************************)
(* One payload written by writePacket.  It is numbered c.sequence; the     *)
(* number advances only if the write succeeds.  A write to a client that   *)
(* went away may succeed or fail; one to a client that is there fails when *)
(* the write deadline passes, or at once for a payload that is too long.   *)
(* Then nothing has gone out, or a part of the packet (or the first of the *)
(* packets that a long payload is split into).                             *)
(***************************************************************************)
Number == sequence' = (sequence + 1) % SeqMod

(* The client checks the number, unless it has lost track.                 *)
Arrives ==
  /\ expect' = (expect + 1) % SeqMod
  /\ misnumbered' = (misnumbered \/ (up /\ ~torn /\ sequence # expect))
  /\ UNCHANGED <<torn, gap>>

Delivered == Number /\ Arrives

NotDeliveredNumbered ==  \* fault: counted at once
  /\ Number
  /\ gap' = "write" /\ torn' \in {torn, TRUE}
  /\ UNCHANGED <<expect, misnumbered>>

NotDelivered ==
  /\ \/ UNCHANGED <<sequence, torn>>
     \/ (Number \/ UNCHANGED sequence) /\ torn' = TRUE
  /\ gap' = "write"
  /\ UNCHANGED <<expect, misnumbered>>

-----------------------------------------------------------------------------
(* The client. *)
Login ==
  /\ up /\ pc = "login" /\ net = <<>> /\ buf = <<>> /\ owed = "login"
  /\ net' = <<[kind |-> "login", name |-> 0, id |-> 0, seq |-> expect]>>
  /\ expect' = (expect + 1) % SeqMod
  /\ UNCHANGED <<up, owed, mine, buf, pc, cmd, sequence, die, stmt, todo, err, named, history>>

(* A command packet is numbered 0. *)
SendPacket(k, s) ==
  /\ up /\ owed = None /\ Len(net) + Len(buf) < MaxPipe
  /\ net' = Append(net, [kind |-> k, name |-> s.name, id |-> s.id, seq |-> 0])
  /\ owed' = IF k \in Replied THEN k ELSE IF k = "quit" THEN "bye" ELSE None
  /\ expect' = IF k \in Replied THEN 1 % SeqMod ELSE expect
  /\ UNCHANGED <<up, buf, pc, cmd, sequence, die, stmt, todo, err, named, history>>

Plain == [name |-> 0, id |-> 0]

SendCommand(k) ==
  /\ k = "prepare" => named < MaxStmts /\ Cardinality(mine) < MaxOpenStmts
  /\ SendPacket(k, Plain)
  /\ UNCHANGED mine

(* What a client that has lost track may take for a statement's id.         *)
Guessed == IF torn THEN {Plain} ELSE {}

SendExec(s) == SendPacket("exec", s) /\ UNCHANGED mine

SendStmtClose(s) == SendPacket("stmtclose", s) /\ mine' = mine \ {s}

(* A client that lacks a packet may take the others of the reply for        *)
(* something else, and be done with it too early.                           *)
Misread ==
  /\ up /\ (torn \/ gap = "write") /\ owed \in Replied
  /\ owed' = None
  /\ torn' = TRUE
  /\ UNCHANGED <<up, expect, mine, net, buf, pc, cmd, sequence, die, stmt, todo, err, named,
                 gap, misnumbered, misexecuted>>

(* The connection breaks, and the server hears of it: what is on its way    *)
(* may still arrive.                                                        *)
GoAway ==
  /\ up
  /\ up' = FALSE
  /\ net' \in {net, <<>>}
  /\ UNCHANGED <<owed, expect, mine, buf, pc, cmd, sequence, die, stmt, todo, err, named, history>>

ClientStep ==
  \/ Login
  \/ \E k \in (Replied \ {"exec"}) \cup {"quit"} : SendCommand(k)
  \/ \E s \in mine \cup Guessed : SendExec(s) \/ SendStmtClose(s)
  \/ Misread \/ GoAway

-----------------------------------------------------------------------------
(* Handshake: the greeting, and then the client's response. *)
Greet ==
  /\ pc = "greet"
  /\ \/ Delivered /\ pc' = "login"
     \/ NotDelivered /\ pc' = "exit"
  /\ UNCHANGED <<up, owed, mine, net, buf, cmd, die, stmt, todo, err, named, misexecuted>>

(* readPacket fills c.buf with what has arrived. *)
Fill ==
  /\ pc \in {"login", "wait"} /\ buf = <<>>
  /\ \E n \in 1..Len(net) :
       /\ buf' = SubSeq(net, 1, n)
       /\ net' = SubSeq(net, n + 1, Len(net))
  /\ UNCHANGED <<client, pc, cmd, sequence, die, stmt, todo, err, named, history>>

(* readPacket fails: it closes c.die, and the session ends.  A failing      *)
(* handshake writes an error packet first, which nobody receives.           *)
ReadFailsIgnored ==  \* fault: Accept swallows the error of readPacket
  /\ pc \in {"login", "wait"} /\ buf = <<>> /\ net = <<>> /\ ~up
  /\ pc' = "check"
  /\ UNCHANGED <<client, net, buf, cmd, sequence, die, stmt, todo, err, named, history>>

ReadFails ==
  /\ pc \in {"login", "wait"} /\ buf = <<>> /\ net = <<>> /\ ~up
  /\ die' = die + 1
  /\ pc' = "exit"
  /\ UNCHANGED <<client, net, buf, cmd, sequence, stmt, todo, err, named, history>>

(* A packet with another number than c.sequence is rejected. *)
Received == Head(buf)
InSync == Received.seq = sequence

ReadLogin ==
  /\ pc = "login" /\ buf # <<>>
  /\ buf' = Tail(buf)
  /\ IF InSync THEN Number /\ pc' = "ok" ELSE UNCHANGED sequence /\ pc' = "exit"
  /\ UNCHANGED <<client, net, cmd, die, stmt, todo, err, named, history>>

(* writeOK; Handshake does not look at its result. *)
WriteOK ==
  /\ pc = "ok"
  /\ \/ Arrives /\ owed' = None
     \/ /\ gap' = "write" /\ torn' \in {torn, TRUE}
        /\ UNCHANGED <<expect, misnumbered, owed>>
  /\ sequence' = 0
  /\ pc' = "wait"
  /\ UNCHANGED <<up, mine, net, buf, cmd, die, stmt, todo, err, named, misexecuted>>

(* Accept reads the next command. *)
ReadCommand ==
  /\ pc = "wait" /\ buf # <<>>
  /\ buf' = Tail(buf)
  /\ IF InSync THEN Number /\ cmd' = Received /\ pc' = "dispatch"
               ELSE UNCHANGED <<sequence, cmd>> /\ pc' = "exit"
  /\ UNCHANGED <<client, net, die, stmt, todo, err, named, history>>

-----------------------------------------------------------------------------
(* dispatch.  A handler ends the session by returning an error ... *)
Dispatching(kinds) == pc = "dispatch" /\ cmd.kind \in kinds

Reply(n) ==
  /\ todo' = n /\ err' = FALSE
  /\ pc' = "reply"

HandleQuit ==
  /\ Dispatching({"quit"})
  /\ die' = die + 1
  /\ pc' = "check"
  /\ UNCHANGED <<client, net, buf, cmd, sequence, stmt, todo, err, named, history>>

(* ... when there is no connection, when MySQL answers with an error, for   *)
(* the commands that are not supported, always for COM_INIT_DB (useDB sends *)
(* the text "use <name>" as if its first letter were a command), and always *)
(* for COM_FIELD_LIST: a column definition is no result set header.         *)
HandleFailsQuietly ==  \* fault: the error is logged, and the session goes on
  /\ Dispatching({"query", "fieldlist", "initdb", "prepare", "other"})
  /\ pc' = "check"
  /\ UNCHANGED <<client, net, buf, cmd, sequence, die, stmt, todo, err, named, history>>

HandleFails ==
  /\ Dispatching({"query", "fieldlist", "initdb", "prepare", "other"})
  /\ pc' = "exit"
  /\ UNCHANGED <<client, net, buf, cmd, sequence, die, stmt, todo, err, named, history>>

HandleQuery ==
  /\ Dispatching({"query"})
  /\ \E n \in 1..MaxReply : Reply(n)
  /\ UNCHANGED <<client, net, buf, cmd, sequence, die, stmt, named, history>>

(* The new statement replaces the previous one. *)
HandleStmtPrepare ==
  /\ Dispatching({"prepare"})
  /\ named' = named + 1
  /\ \E i \in StmtIds : stmt' = [name |-> named', id |-> i]
  /\ \E n \in 1..MaxReply : Reply(n)
  /\ UNCHANGED <<client, net, buf, cmd, sequence, die, history>>

(* c.stmt.Query runs on the connection of c.stmt, whatever id is asked for; *)
(* its error is overwritten by the result of writing no packets.            *)
HandleStmtExecOnce ==  \* fault: the statement is dropped after it was executed
  /\ Dispatching({"exec"})
  /\ stmt' = None
  /\ IF stmt = None THEN pc' = "exit" /\ UNCHANGED <<todo, err>>
                    ELSE \E n \in 1..MaxReply : Reply(n)
  /\ UNCHANGED <<client, net, buf, cmd, sequence, die, named, history>>

HandleStmtExec ==
  /\ Dispatching({"exec"})
  /\ IF stmt = None
       THEN /\ pc' = "exit"
            /\ UNCHANGED <<todo, err, gap, misexecuted>>
       ELSE \/ /\ cmd.id = stmt.id
               /\ \E n \in 1..MaxReply : Reply(n)
               /\ misexecuted' = (misexecuted \/ cmd.name # stmt.name)
               /\ UNCHANGED gap
            \/ /\ Reply(0)
               /\ gap' = "exec"
               /\ UNCHANGED misexecuted
  /\ UNCHANGED <<client, net, buf, cmd, sequence, die, stmt, named, torn, misnumbered>>

(* Without a statement the handler panics; a wrong id, or a connection that *)
(* cannot be written, is an error.                                          *)
HandleStmtCloseReplies ==  \* fault: answered like any other command
  /\ Dispatching({"stmtclose"})
  /\ stmt' = None
  /\ Reply(1)
  /\ UNCHANGED <<client, net, buf, cmd, sequence, die, named, history>>

HandleStmtClose ==
  /\ Dispatching({"stmtclose"})
  /\ \/ /\ stmt # None /\ cmd.id = stmt.id
        /\ stmt' = None
        /\ pc' \in {"check", "exit"}
     \/ /\ ~(stmt # None /\ cmd.id = stmt.id)
        /\ pc' = "exit"
        /\ UNCHANGED stmt
  /\ UNCHANGED <<client, net, buf, cmd, sequence, die, todo, err, named, history>>

-----------------------------------------------------------------------------
(* writeResultPackets: a failed write does not stop the loop; only a buffer *)
(* with unread input does.                                                  *)
WriteNext ==
  /\ todo' = todo - 1
  /\ \/ Delivered /\ err' = FALSE
     \/ NotDelivered /\ err' = TRUE
  /\ UNCHANGED pc

BufferBusy ==
  /\ pc' = "exit"
  /\ UNCHANGED <<expect, sequence, todo, err, gap, torn, misnumbered>>

WritePacket ==
  /\ pc = "reply" /\ todo > 0
  /\ IF buf = <<>> THEN WriteNext ELSE BufferBusy
  /\ UNCHANGED <<up, owed, mine, net, buf, cmd, die, stmt, named, misexecuted>>

(* The reply is complete for the client if nothing is missing, and it may   *)
(* take it for complete if a packet before the last is.                     *)
WriteDone ==
  /\ pc = "reply" /\ todo = 0
  /\ sequence' = 0
  /\ pc' = IF err THEN "exit" ELSE "check"
  /\ \/ /\ gap = "none" \/ (gap = "write" /\ ~err /\ ~torn)
        /\ owed' = None /\ gap' = "none"
        /\ mine' = IF cmd.kind = "prepare" THEN mine \cup {stmt} ELSE mine
     \/ /\ gap # "none"
        /\ UNCHANGED <<owed, gap, mine>>
  /\ UNCHANGED <<up, expect, net, buf, cmd, die, stmt, todo, err, named, torn, misnumbered, misexecuted>>

(* Accept returns nil, and handleClient looks at c.die. *)
CheckDieNumbersOn ==  \* fault: only writeResultPackets resets c.sequence
  /\ pc = "check"
  /\ cmd' = None
  /\ pc' = IF die > 0 THEN "exit" ELSE "wait"
  /\ UNCHANGED <<client, net, buf, sequence, die, stmt, todo, err, named, history>>

CheckDieLate ==  \* fault: c.die is not looked at
  /\ pc = "check"
  /\ sequence' = 0
  /\ cmd' = None
  /\ pc' = "wait"
  /\ UNCHANGED <<client, net, buf, die, stmt, todo, err, named, history>>

CheckDie ==
  /\ pc = "check"
  /\ sequence' = 0
  /\ cmd' = None
  /\ pc' = IF die > 0 THEN "exit" ELSE "wait"
  /\ UNCHANGED <<client, net, buf, die, stmt, todo, err, named, history>>

(* The deferred functions of handleClient: the connection is closed. *)
Close ==
  /\ pc = "exit"
  /\ pc' = "gone"
  /\ stmt' = None
  /\ UNCHANGED <<client, net, buf, cmd, sequence, die, todo, err, named, history>>

(* What comes of a command that waits for the pool and for MySQL, ...       *)
Outcome ==
  \/ HandleFails \/ HandleQuery
  \/ HandleStmtPrepare \/ HandleStmtExec \/ HandleStmtClose

(* ... and the steps of the session's goroutine on its own.                 *)
OwnStep ==
  \/ Greet \/ Fill \/ ReadFails \/ ReadLogin \/ WriteOK \/ ReadCommand
  \/ HandleQuit \/ WritePacket \/ WriteDone \/ CheckDie \/ Close

Handler == OwnStep \/ Outcome

Next == ClientStep \/ Handler

Spec == Init /\ [][Next]_vars

(* The session's goroutine runs, and its writes end by their deadline.  No  *)
(* outcome is promised: the pool may keep a handler waiting for its mutex,  *)
(* and the connections to MySQL are read without a deadline.                *)
FairSpec == Spec /\ WF_vars(OwnStep)

-----------------------------------------------------------------------------
Statements == [name : 0..MaxStmts, id : StmtIds \cup {0}]
Packets == [kind : Replied \cup Unreplied \cup {"login"},
            name : 0..MaxStmts, id : StmtIds \cup {0}, seq : 0..SeqMod-1]

(* The session's state keeps its shape; c.sequence is a byte.               *)
TypeOK ==
  /\ up \in BOOLEAN /\ net \in Seq(Packets) /\ buf \in Seq(Packets)
  /\ Len(net) + Len(buf) <= MaxPipe
  /\ owed \in Replied \cup {"login", "bye", None}
  /\ expect \in 0..SeqMod-1 /\ sequence \in 0..SeqMod-1
  /\ mine \subseteq Statements /\ Cardinality(mine) <= MaxOpenStmts
  /\ pc \in {"greet", "login", "ok", "wait", "dispatch", "reply", "check", "exit", "gone"}
  /\ cmd \in Packets \cup {None} /\ stmt \in Statements \cup {None}
  /\ die \in Nat /\ todo \in 0..MaxReply /\ err \in BOOLEAN /\ named \in 0..MaxStmts
  /\ gap \in {"none", "write", "exec"}
  /\ torn \in BOOLEAN /\ misnumbered \in BOOLEAN /\ misexecuted \in BOOLEAN

(* c.die is closed at most once, by COM_QUIT or by a read that fails: a     *)
(* second close of a Go channel panics.                                     *)
DieClosedOnce == die <= 1

(* A command of a legal client is never rejected for its packet number,     *)
(* whichever command went before it and however its reply was written:      *)
(* c.sequence is back at 0 whenever Accept reads.                           *)
CommandsInSync == pc \in {"login", "wait"} /\ buf # <<>> => InSync

(* The packets of a reply arrive under consecutive numbers, also when the   *)
(* numbers wrap around, and behind a packet of which nothing could be       *)
(* written.  It ends where a part of one went out, or where the client      *)
(* misreads a reply that lacks a packet: from there on it reads no numbers. *)
RepliesNumbered == ~misnumbered

(* A reply is never given up because a further command is already in c.buf, *)
(* though commands without a reply are followed by others at once.  (Only a *)
(* client that has lost track sends while it should be waiting.)            *)
ReplyFindsBufferFree == pc = "reply" /\ todo > 0 /\ ~torn => buf = <<>>

(* Between commands, the one statement a client keeps prepared is the one   *)
(* the session holds: an execute will find it (until it has lost track).    *)
Quiet == up /\ ~torn /\ pc = "wait" /\ owed = None /\ net = <<>> /\ buf = <<>>

StatementKept == Quiet /\ MaxOpenStmts = 1 => mine \subseteq {stmt}

(* The premise of what must happen: every command that is taken up comes to *)
(* an outcome, so no handler waits for ever for the pool or for MySQL.      *)
(* The code does not see to it: see CallsAlwaysReturn of Pool, and          *)
(* StopsAtError of MysqlConn.                                               *)
CommandsEnd == []<>(pc # "dispatch")

(* A client that has logged in and waits for a reply gets it, or the        *)
(* session ends and closes the connection.  Two gaps are excepted: a packet *)
(* that could not be written, and a failed execute, whose error             *)
(* handlestmtExec overwrites: it writes nothing, and waits for the next     *)
(* command of a client that waits for the reply.  The third is the premise. *)
Answered ==
  CommandsEnd =>
    ((owed # None /\ pc \notin {"greet", "login"})
       ~> (owed = None \/ pc = "gone" \/ gap # "none"))

(* When the client goes away, the session comes to its end and gives back   *)
(* its slot, if the command it is at does: no command sent ahead, no failed *)
(* write and no closed c.die keeps it going.                                *)
SessionEnds == CommandsEnd => (~up ~> pc = "gone")

(* What Test_Prepare expects of Prepare and Query: the statement that was   *)
(* prepared is the one that is executed.  A Client has one c.stmt, and the  *)
(* statement ids of two MySQL connections coincide.                         *)
RightStatement == ~misexecuted
=============================================================================
