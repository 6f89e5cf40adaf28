----------------------------- MODULE MysqlConn -----------------------------
(***************************************************************************)
(* One connection to MySQL (server/mysql_conn.go, mysql_tx.go, packets.go) *)
(* from newConn's handshake on, and the handlers that use it one after the *)
(* other (server/client.go): the commands, the packets of the replies and  *)
(* their numbers, and what is left of a reply when a handler gives up.     *)
(*                                                                         *)
(* MySQL is a correct server: it answers the commands it gets in order.  A *)
(* packet is two units, its header and its body, since readPacket may stop *)
(* between them.                                                           *)
(***************************************************************************)
EXTENDS Integers, Sequences, SequencesExt

CONSTANTS
  SeqWrap,    \* packet numbers are counted modulo SeqWrap (256)
  MaxDefs,    \* bound on the columns and on the parameters of a reply
  MaxRows,    \* bound on the rows of a result
  MaxUses     \* bound on the handlers that use the connection

ASSUME MysqlConnAssumption ==
  /\ SeqWrap \in Nat /\ SeqWrap > 1
  /\ MaxDefs \in Nat /\ MaxRows \in Nat /\ MaxUses \in Nat

VARIABLES
  pc,        \* where newConn is, or the handler
  todo,      \* commands it has still to send
  sequence,  \* mc.sequence
  result,    \* the packets it has read of the reply
  inbuf,     \* units in mc.buf
  open,      \* mc.netConn is not nil
  stmt,      \* the connection belongs to a prepared statement
  wire,      \* units from MySQL that have not been received
  asked,     \* commands MySQL has not answered
  peer,      \* MySQL has not closed the connection
  uses,      \* handlers so far
  reply,     \* history: the packets of MySQL's latest reply
  dirty      \* history: a handler left a part of a reply behind

proxy == <<pc, todo, sequence, result, open, stmt, uses, dirty>>
mysql == <<asked, peer, reply>>
vars == <<proxy, inbuf, wire, mysql>>

(* newConn has dialled. *)
Init ==
  /\ pc = "greeting" /\ todo = <<>> /\ sequence = 0 /\ result = <<>>
  /\ inbuf = <<>> /\ open = TRUE /\ stmt = FALSE
  /\ wire = <<>> /\ asked = <<"connect">> /\ peer = TRUE
  /\ uses = 0 /\ reply = <<>> /\ dirty = FALSE

-----------------------------------------------------------------------------
(* MySQL.  A packet is its kind and, when it announces definitions, how     *)
(* many.  A table has a column, so a field list is not empty.               *)
Of(kind) == [kind |-> kind, params |-> 0, columns |-> 0]
Many(kind, n) == [i \in 1..n |-> Of(kind)]
Defs(n) == IF n = 0 THEN <<>> ELSE Append(Many("def", n), Of("eof"))

ResultSet(c, r, end) ==
  <<[Of("count") EXCEPT !.columns = c]>> \o Defs(c) \o Many("row", r) \o <<Of(end)>>

PrepareReply(p, c) ==
  <<[kind |-> "prepared", params |-> p, columns |-> c]>> \o Defs(p) \o Defs(c)

Success(cmd) ==
  CASE cmd = "connect" -> {<<Of("greeting")>>, <<Of("old")>>}
    [] cmd = "auth"    -> {<<Of("ok")>>, <<Of("switch")>>}
    [] cmd = "use"     -> {<<Of("ok")>>}
    [] cmd = "query"   -> {<<Of("ok")>>} \cup
                          { ResultSet(c, r, end) :
                              c \in 1..MaxDefs, r \in 0..MaxRows, end \in {"eof", "err"} }
    [] cmd = "fields"  -> {Defs(n) : n \in 1..MaxDefs}
    [] cmd = "u"       -> {}
    [] cmd = "prepare" -> {PrepareReply(p, c) : p \in 0..MaxDefs, c \in 0..MaxDefs}

(* The units of a reply; its packets are numbered after the command's.  In  *)
(* the handshake MySQL begins, and the authentication packet is number 1.   *)
First(cmd) == CASE cmd = "connect" -> 0 [] cmd = "auth" -> 2 [] OTHER -> 1

Units(r, first) ==
  [i \in 1..2 * Len(r) |->
     [part |-> IF i % 2 = 1 THEN "head" ELSE "body",
      seq |-> (first + (i - 1) \div 2) % SeqWrap,
      packet |-> r[(i + 1) \div 2]]]

Answer ==
  /\ peer /\ asked # <<>>
  /\ reply' \in {<<Of("err")>>} \cup Success(Head(asked))
  /\ wire' = wire \o Units(reply', First(Head(asked)))
  /\ asked' = Tail(asked)
  /\ UNCHANGED <<proxy, inbuf, peer>>

(* MySQL goes away, maybe in the middle of a reply, or closes a connection  *)
(* that was idle for too long.                                              *)
PeerCloses ==
  /\ peer
  /\ peer' = FALSE
  /\ \E n \in 0..Len(wire) : wire' = SubSeq(wire, 1, n)
  /\ UNCHANGED <<proxy, inbuf, asked, reply>>

-----------------------------------------------------------------------------
(* A handler gets the connection: handleQuery and handleStmtPrepare send    *)
(* "use" first, handleFieldList does not; handlestmtExec has it already.    *)
(* useDB sends the text "use <db>", whose "u" is no command of MySQL.       *)
Begin(cmds) ==
  /\ pc = IF stmt THEN "pinned" ELSE "pooled"
  /\ uses < MaxUses
  /\ uses' = uses + 1
  /\ todo' = cmds
  /\ pc' = "write"
  /\ UNCHANGED <<sequence, result, inbuf, open, stmt, wire, mysql, dirty>>

BeginQuery == ~stmt /\ Begin(<<"use", "query">>)
BeginFieldList == ~stmt /\ Begin(<<"fields">>)
BeginUseDB == ~stmt /\ Begin(<<"u">>)
BeginPrepare == ~stmt /\ Begin(<<"use", "prepare">>)
BeginExec == stmt /\ Begin(<<"query">>)

(* newConn has failed; or the handler ends: with putConn; for a statement   *)
(* without; and after a prepare that failed nothing refers to the           *)
(* connection any more.                                                     *)
Handshake == {"greeting", "auth", "welcome"}

GiveUp ==
  /\ pc' = CASE pc \in Handshake -> "lost"
             [] pc \notin Handshake /\ stmt -> "pinned"
             [] pc \notin Handshake /\ ~stmt /\ Last(todo) = "prepare" -> "lost"
             [] OTHER -> "pooled"
  /\ todo' = <<>> /\ result' = <<>>

(* mc.sequence++: a uint8. *)
Number(n) == (n + 1) % SeqWrap

(* writeCommandPacketStr: the number starts over. *)
Send(first) ==
  /\ pc = "write" /\ inbuf = <<>> /\ open
  /\ sequence' = Number(first)
  /\ asked' = IF peer THEN Append(asked, Head(todo)) ELSE asked
  /\ pc' = IF Head(todo) = "prepare" THEN "prepared" ELSE "header"
  /\ UNCHANGED <<todo, result, inbuf, open, stmt, wire, peer, uses, reply, dirty>>

WriteNoReset == Send(sequence)  \* fault: mc.sequence = 0 is forgotten
Write == Send(0)

(***************************************************************************)
(* The write is refused while the buffer holds unread input, and when a    *)
(* client's statement exceeds maxPacketAllowed; without a netConn it       *)
(* panics, which ends the handler too (a statement's is checked first); to *)
(* a closed peer it may fail.                                              *)
(***************************************************************************)
WriteFails ==
  /\ pc = "write"
  /\ inbuf # <<>> \/ ~open \/ ~peer \/ Head(todo) # "use"
  /\ GiveUp
  /\ sequence' = IF stmt /\ ~open THEN sequence ELSE 0
  /\ UNCHANGED <<inbuf, open, stmt, wire, mysql, uses, dirty>>

(* writeAuthPacket: the number goes on from the greeting.  The buffer is    *)
(* refused as above, and the write may fail when MySQL has hung up.         *)
WriteAuth ==
  /\ pc = "auth" /\ inbuf = <<>>
  /\ sequence' = Number(sequence)
  /\ asked' = IF peer THEN Append(asked, "auth") ELSE asked
  /\ pc' = "welcome"
  /\ UNCHANGED <<todo, result, inbuf, open, stmt, wire, peer, uses, reply, dirty>>

WriteAuthFails ==
  /\ pc = "auth"
  /\ inbuf # <<>> \/ ~peer
  /\ GiveUp
  /\ open' = FALSE
  /\ UNCHANGED <<sequence, inbuf, stmt, wire, mysql, uses, dirty>>

-----------------------------------------------------------------------------
Reading == {"greeting", "welcome", "header", "columns", "rows", "prepared", "params", "defs"}

(* fill: what has arrived goes to the buffer. *)
Fill ==
  /\ pc \in Reading /\ inbuf = <<>>
  /\ \E n \in 1..Len(wire) :
       /\ inbuf' = SubSeq(wire, 1, n)
       /\ wire' = SubSeq(wire, n + 1, Len(wire))
  /\ UNCHANGED <<proxy, mysql>>

(* A header is accepted by its number. *)
InSyncAlways(u) == TRUE  \* fault: the number is not compared
InSync(u) == u.part = "head" /\ u.seq = sequence

(* The end of the input, at a header or a body: the connection is closed.   *)
ReadFails ==
  /\ pc \in Reading /\ wire = <<>> /\ ~peer
  /\ \/ inbuf = <<>> /\ UNCHANGED sequence
     \/ Len(inbuf) = 1 /\ InSync(inbuf[1]) /\ sequence' = Number(sequence)
  /\ inbuf' = <<>>
  /\ GiveUp
  /\ open' = FALSE
  /\ UNCHANGED <<stmt, wire, mysql, uses, dirty>>

(***************************************************************************)
(* ErrPktSync: the header is consumed, the body is not.  A body read as a  *)
(* header has a number that does not fit, and is longer than a header: its *)
(* rest stays in the buffer ("\3def..." of a definition, an EOF of five    *)
(* bytes).                                                                 *)
(***************************************************************************)
OutOfSyncSkips ==  \* fault: the whole packet is dropped
  /\ pc \in Reading /\ Len(inbuf) > 1 /\ ~InSync(Head(inbuf))
  /\ inbuf' = SubSeq(inbuf, 3, Len(inbuf))
  /\ GiveUp
  /\ dirty' = TRUE
  /\ UNCHANGED <<sequence, open, stmt, wire, mysql, uses>>

OutOfSync ==
  /\ pc \in Reading /\ inbuf # <<>> /\ ~InSync(Head(inbuf))
  /\ inbuf' = IF Head(inbuf).part = "head" THEN Tail(inbuf) ELSE inbuf
  /\ GiveUp
  /\ dirty' = TRUE
  /\ open' = (open /\ pc \notin Handshake)
  /\ UNCHANGED <<sequence, stmt, wire, mysql, uses>>

(* readPacket returns a packet, whose body arrives with its head or later.  *)
ReadPacket(from) ==
  /\ pc = from /\ inbuf # <<>> /\ InSync(Head(inbuf))
  /\ Len(inbuf) + Len(wire) > 1
  /\ sequence' = Number(sequence)
  /\ \/ Len(inbuf) > 1 /\ inbuf' = SubSeq(inbuf, 3, Len(inbuf)) /\ UNCHANGED wire
     \/ Len(inbuf) = 1 /\ \E n \in 1..Len(wire) :
                            /\ inbuf' = SubSeq(wire, 2, n)
                            /\ wire' = SubSeq(wire, n + 1, Len(wire))
  /\ UNCHANGED <<stmt, mysql, uses>>

Read(from) == ReadPacket(from) /\ UNCHANGED open

Packet == Head(inbuf).packet

(* newConn: readInitPacket accepts a greeting of a version it knows, and    *)
(* readInitOK nothing but OK.  On anything else the connection is closed.   *)
NewConnGoesOn(kind, next) ==
  IF Packet.kind = kind
    THEN pc' = next /\ UNCHANGED <<todo, result, open, dirty>>
    ELSE GiveUp /\ open' = FALSE /\ UNCHANGED dirty

ReadInitPacket == ReadPacket("greeting") /\ NewConnGoesOn("greeting", "auth")
ReadInitOK == ReadPacket("welcome") /\ NewConnGoesOn("ok", "pooled")

(* The reply is not finished: the packet is kept, and the next one read.    *)
Keep(next) ==
  /\ pc' = next
  /\ result' = Append(result, Packet)
  /\ UNCHANGED <<todo, dirty>>

Abandon == GiveUp /\ dirty' = TRUE

(* readResultSetHeaderPacket, and the end of Exec: "use" is done.  The      *)
(* first definition of a field list is malformed as a count of columns.     *)
ReadHeader ==
  /\ Read("header")
  /\ CASE Packet.kind = "ok" /\ Len(todo) = 2 ->
            /\ pc' = "write" /\ todo' = Tail(todo)
            /\ UNCHANGED <<result, dirty>>
       [] Packet.kind = "ok" /\ Len(todo) = 1 -> Keep("forward")
       [] Packet.kind = "err" -> GiveUp /\ UNCHANGED dirty
       [] Packet.kind = "count" -> Keep("columns")
       [] OTHER -> Abandon

(* readResultSetPacket: the EOF has to come after as many as were counted.  *)
ReadColumns ==
  /\ Read("columns")
  /\ CASE Packet.kind # "eof" -> Keep("columns")
       [] Packet.kind = "eof" /\ Len(result) = result[1].columns + 1 -> Keep("rows")
       [] OTHER -> Abandon

(* readUntilEOF: everything that is no EOF is kept, an ERR too. *)
UntilEOF(here, next) == Keep(IF Packet.kind = "eof" THEN next ELSE here)

ReadRows == Read("rows") /\ UntilEOF("rows", "forward")

(* Prepare: the parameters first, then the columns, if there are any. *)
ColumnsAlways(p) == "defs"  \* fault: the column count is not looked at
Columns(p) == IF p.columns > 0 THEN "defs" ELSE "forward"

ReadPrepared ==
  /\ Read("prepared")
  /\ CASE Packet.kind = "prepared" ->
            Keep(IF Packet.params > 0 THEN "params" ELSE Columns(Packet))
       [] Packet.kind = "err" -> GiveUp /\ UNCHANGED dirty
       [] OTHER -> Abandon

ReadParamsOnly == Read("params") /\ UntilEOF("params", "forward")  \* fault: no columns
ReadParams == Read("params") /\ UntilEOF("params", Columns(result[1]))

ReadDefs == Read("defs") /\ UntilEOF("defs", "forward")

(* The reply goes to the client, and the handler ends. *)
Forward ==
  /\ pc = "forward"
  /\ stmt' = (stmt \/ todo = <<"prepare">>)
  /\ pc' = IF stmt' THEN "pinned" ELSE "pooled"
  /\ todo' = <<>> /\ result' = <<>>
  /\ UNCHANGED <<sequence, inbuf, open, wire, mysql, uses, dirty>>

(* handleStmtClose, or the end of the session: the connection is dropped.   *)
StmtClose ==
  /\ pc = "pinned"
  /\ pc' = "lost"
  /\ UNCHANGED <<todo, sequence, result, inbuf, open, stmt, wire, mysql, uses, dirty>>

Handler ==
  \/ ReadInitPacket \/ WriteAuth \/ WriteAuthFails \/ ReadInitOK
  \/ Write \/ WriteFails \/ Fill \/ ReadFails \/ OutOfSync
  \/ ReadHeader \/ ReadColumns \/ ReadRows \/ ReadPrepared \/ ReadParams \/ ReadDefs
  \/ Forward

Next ==
  \/ Answer \/ PeerCloses
  \/ BeginQuery \/ BeginFieldList \/ BeginUseDB \/ BeginPrepare \/ BeginExec
  \/ Handler \/ StmtClose

Spec == Init /\ [][Next]_vars

(* The handler's goroutine runs, and MySQL answers what it got.  Nothing is *)
(* said of when a client sends a command or MySQL closes a connection.      *)
FairSpec == Spec /\ WF_vars(Handler) /\ WF_vars(Answer)

-----------------------------------------------------------------------------
Kinds == {"greeting", "old", "switch", "ok", "err", "eof", "count", "def", "row", "prepared"}
Unit == [part : {"head", "body"}, seq : 0..SeqWrap - 1,
         packet : [kind : Kinds, params : 0..MaxDefs, columns : 0..MaxDefs]]

(* The variables have their types (the fields of mysqlConn, buffer). *)
TypeOK ==
  /\ pc \in {"pooled", "pinned", "lost", "write", "forward"} \cup Reading \cup Handshake
  /\ Len(todo) <= 2 /\ Range(todo) \cup Range(asked) \subseteq
       {"connect", "auth", "use", "query", "fields", "u", "prepare"}
  /\ sequence \in 0..SeqWrap - 1
  /\ Range(result) \cup Range(reply) \subseteq [kind : Kinds, params : 0..MaxDefs, columns : 0..MaxDefs]
  /\ Range(inbuf) \cup Range(wire) \subseteq Unit
  /\ open \in BOOLEAN /\ stmt \in BOOLEAN /\ peer \in BOOLEAN /\ dirty \in BOOLEAN
  /\ uses \in 0..MaxUses

(***************************************************************************)
(* What a handler forwards is the whole reply of MySQL to its own command: *)
(* never a part of it, and never what a handler before it left behind on   *)
(* the connection (Query, Prepare, readPacket's check of the number).      *)
(***************************************************************************)
ForwardedWhole == pc = "forward" => ~dirty /\ result = reply

(***************************************************************************)
(* newConn, and handlers that read to the end of their replies, leave      *)
(* nothing behind: an open connection goes to the pool, or waits for the   *)
(* next execution of its statement, with nothing unread and nothing        *)
(* unanswered.  The readers of the code know where each reply ends.        *)
(***************************************************************************)
LeavesNothing ==
  pc \in {"pooled", "pinned"} /\ open /\ ~dirty => inbuf = <<>> /\ wire = <<>> /\ asked = <<>>

(***************************************************************************)
(* As long as no handler left a part of a reply behind, the numbers of     *)
(* MySQL's packets are the expected ones, over any number of commands and  *)
(* past the wrap-around of the number, and in the handshake, where the     *)
(* proxy goes on counting: ErrPktSync is only ever raised by a leftover    *)
(* (readPacket, writeCommandPacketStr, writeAuthPacket).                   *)
(***************************************************************************)
InStep == pc \in Reading /\ inbuf # <<>> /\ ~dirty => InSync(Head(inbuf))

(***************************************************************************)
(* A connection that holds a part of an old reply is of no use any more:   *)
(* nobody repairs or drops it, and putConn gives it to the next handler.   *)
(* Its users fail one after the other; none accepts a packet, which could  *)
(* be a late answer to another client's command.                           *)
(***************************************************************************)
NeverRepaired == [][dirty => result' \in {<<>>, result}]_vars

InError == pc = "rows" /\ Last(result).kind = "err"
Working == pc \in Reading \cup {"auth", "write", "forward"}

(***************************************************************************)
(* newConn and every handler that has the connection come to their end, on *)
(* a leftover or a closed connection too, unless MySQL ends the rows with  *)
(* an error (see StopsAtError).                                            *)
(***************************************************************************)
HandlerReturns == Working ~> (~Working \/ InError)

(***************************************************************************)
(* "Reads Packets until EOF-Packet or an Error appears"                    *)
(* (mysql_conn.go:150): reading of rows ends after an ERR packet.          *)
(***************************************************************************)
StopsAtError == InError ~> ~InError
=============================================================================
