------------------------------- MODULE NsqLog -------------------------------
(***************************************************************************)
(* The log writer for nsq (log/nsq.go): WriteMsg puts a message into a     *)
(* channel, and the goroutine publish takes what is there every ten        *)
(* milliseconds and posts it to the server as one batch.                   *)
(***************************************************************************)
EXTENDS Naturals, Sequences

CONSTANTS
  Msgs,  \* the messages
  Cap    \* capacity of c.ch (4096)

ASSUME NsqAssumption == Cap \in Nat \ {0}

VARIABLES
  ch,     \* the messages in c.ch
  pub,    \* where publish is
  n,      \* publish's n, also written into the batch's header
  buf,    \* publish's buf
  sent,   \* history: the messages WriteMsg put into c.ch, in order
  done    \* history: the messages of the posts that have come to an end

publisher == <<pub, n, buf, done>>
nsqVars == <<ch, sent, publisher>>

(* NewNsqWriter has made the channel and started publish. *)
NsqInit ==
  /\ ch = <<>> /\ sent = <<>>
  /\ pub = "wait" /\ n = 0 /\ buf = <<>>
  /\ done = <<>>

(* WriteMsg, for a message of a level that is written: it waits for room.   *)
NsqWriteMsg(m) ==
  /\ Len(ch) < Cap
  /\ ch' = Append(ch, m) /\ sent' = Append(sent, m)
  /\ UNCHANGED publisher

-----------------------------------------------------------------------------
(* A tick may come at any time, and is taken when publish waits for it.     *)
OnTickEnds ==  \* fault: an empty channel ends the goroutine
  /\ pub = "wait"
  /\ n' = Len(ch)
  /\ pub' = IF Len(ch) = 0 THEN "ended" ELSE "collect"
  /\ UNCHANGED <<ch, sent, buf, done>>

OnTickWhenFull ==  \* fault: a batch is only begun when the channel is full
  /\ pub = "wait"
  /\ n' = Len(ch)
  /\ pub' = IF Len(ch) < Cap THEN "wait" ELSE "collect"
  /\ UNCHANGED <<ch, sent, buf, done>>

OnTick ==
  /\ pub = "wait"
  /\ n' = Len(ch)
  /\ pub' = IF Len(ch) = 0 THEN "wait" ELSE "collect"
  /\ UNCHANGED <<ch, sent, buf, done>>

(* n messages are received, while others are being sent.                    *)
CollectAll ==  \* fault: until the channel is empty, whatever the header says
  /\ pub = "collect" /\ ch # <<>>
  /\ buf' = Append(buf, Head(ch)) /\ ch' = Tail(ch)
  /\ pub' = IF Len(ch) = 1 THEN "post" ELSE "collect"
  /\ UNCHANGED <<sent, n, done>>

Collect ==
  /\ pub = "collect" /\ ch # <<>>
  /\ buf' = Append(buf, Head(ch)) /\ ch' = Tail(ch)
  /\ pub' = IF Len(buf) + 1 = n THEN "post" ELSE "collect"
  /\ UNCHANGED <<sent, n, done>>

(* http.Post has returned: without an error, whatever the status says, the  *)
(* body is read; with one, the batch is printed and forgotten.              *)
Posted ==
  /\ pub = "post"
  /\ done' = done \o buf
  /\ buf' = <<>> /\ n' = 0
  /\ UNCHANGED <<ch, sent>>

PostOK == Posted /\ pub' = "body"

PostFailsKeeps ==  \* fault: the buffer is used for the next batch as well
  /\ pub = "post"
  /\ done' = done \o buf
  /\ pub' = "wait" /\ n' = 0
  /\ UNCHANGED <<ch, sent, buf>>

PostFails == Posted /\ pub' = "wait"

(* The body has been read, or could not be. *)
ReadBody ==
  /\ pub = "body"
  /\ pub' = "wait"
  /\ UNCHANGED <<ch, sent, n, buf, done>>

Publish == OnTick \/ Collect \/ PostOK \/ PostFails \/ ReadBody

NsqNext == (\E m \in Msgs : NsqWriteMsg(m)) \/ Publish

NsqSpec == NsqInit /\ [][NsqNext]_nsqVars

-----------------------------------------------------------------------------
NsqTypeOK ==
  /\ ch \in Seq(Msgs) /\ Len(ch) <= Cap
  /\ sent \in Seq(Msgs) /\ buf \in Seq(Msgs) /\ done \in Seq(Msgs)
  /\ n \in Nat
  /\ pub \in {"wait", "collect", "post", "body"}

(***************************************************************************)
(* Each message that WriteMsg accepted is in the channel, in the batch     *)
(* that is being made, or in one post, and one only, in the order of the   *)
(* calls: a failed post costs its batch, and no other message.             *)
(***************************************************************************)
Conserved == done \o buf \o ch = sent

(***************************************************************************)
(* publish announces in the header how many messages a batch has before it *)
(* has them.  It gets them without waiting, and posts as many as announced *)
(* although WriteMsg goes on: publish alone receives from the channel.     *)
(***************************************************************************)
BatchAsAnnounced ==
  /\ pub = "collect" => Len(buf) < n /\ n <= Len(buf) + Len(ch)
  /\ pub = "post" => Len(buf) = n
=============================================================================
