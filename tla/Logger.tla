------------------------------- MODULE Logger -------------------------------
(***************************************************************************)
(* SimpleLogger (log/log.go) with the file as its adapter: the messages    *)
(* written by their goroutines, or through the channel by startLogger, and *)
(* Close, which takes from the channel too.                                *)
(***************************************************************************)
EXTENDS FileLog

CONSTANTS
  Worker,         \* the goroutine of startLogger, or without Async one that logs
  Closer,         \* the goroutine that calls Close, and may log before
  ChanLen         \* capacity of bl.msg

ASSUME LoggerAssumption ==
  /\ Worker \in Writers /\ Closer \in Writers /\ Worker # Closer
  /\ ChanLen \in Nat \ {0}

VARIABLES
  asynchronous, \* Async was called
  queue,        \* messages in bl.msg
  closing,      \* where Close is
  sent,         \* history: messages that were sent to bl.msg
  before        \* history: the ones sent before Close was called

fileVars == vars
channel == <<queue, sent>>
close == <<closing, before>>
lvars == <<fileVars, asynchronous, channel, close>>

LInit ==
  /\ Init
  /\ asynchronous \in BOOLEAN
  /\ queue = 0 /\ sent = 0
  /\ closing = "no" /\ before = 0

-----------------------------------------------------------------------------
(* writerMsg without Async: the caller writes the message itself. *)
LogSync(w) ==
  /\ ~asynchronous
  /\ w = Closer => closing = "no"
  /\ Begin(w)
  /\ UNCHANGED <<asynchronous, channel, close>>

(* writerMsg with Async: it blocks while the channel is full. *)
LogAsync ==
  /\ asynchronous /\ sent < MaxMsgs
  /\ queue < ChanLen
  /\ queue' = queue + 1 /\ sent' = sent + 1
  /\ UNCHANGED <<fileVars, asynchronous, close>>

(* A message is received from bl.msg, and WriteMsg called for it. *)
Receive(w) ==
  /\ queue > 0
  /\ queue' = queue - 1
  /\ Begin(w)
  /\ UNCHANGED sent

StartLogger ==
  /\ asynchronous
  /\ Receive(Worker)
  /\ UNCHANGED <<asynchronous, close>>

(* A WriteMsg goes on. *)
Writing(w) == WriteMsg(w) /\ UNCHANGED <<asynchronous, channel, close>>

-----------------------------------------------------------------------------
Close ==
  /\ closing = "no" /\ at[Closer] = "idle"
  /\ closing' = "len"
  /\ before' = sent
  /\ UNCHANGED <<fileVars, asynchronous, channel>>

(* len(bl.msg) > 0 is read first, and the channel received from after it.   *)
CloseLenAlways ==  \* fault: the length is not looked at
  /\ closing = "len" /\ at[Closer] = "idle"
  /\ closing' = "receive"
  /\ UNCHANGED <<fileVars, asynchronous, channel, before>>

CloseLen ==
  /\ closing = "len" /\ at[Closer] = "idle"
  /\ closing' = IF queue > 0 THEN "receive" ELSE "destroy"
  /\ UNCHANGED <<fileVars, asynchronous, channel, before>>

CloseReceiveOnly ==  \* fault: the loop ends after the message
  /\ closing = "receive"
  /\ Receive(Closer)
  /\ closing' = "destroy"
  /\ UNCHANGED <<asynchronous, before>>

CloseReceive ==
  /\ closing = "receive"
  /\ Receive(Closer)
  /\ closing' = "len"
  /\ UNCHANGED <<asynchronous, before>>

CloseDestroy ==
  /\ closing = "destroy" /\ at[Closer] = "idle"
  /\ Destroy
  /\ closing' = "closed"
  /\ UNCHANGED <<asynchronous, channel, before>>

(* The program starts again; what was in the channel is gone. *)
Restart ==
  /\ Restarted
  /\ queue' = 0
  /\ closing' = "no" /\ before' = 0
  /\ UNCHANGED <<asynchronous, sent>>

LEnvironment ==
  \/ (DeleteOldLog \/ NextDay) /\ UNCHANGED <<asynchronous, channel, close>>
  \/ Restart

LNext ==
  \/ \E w \in Writers : LogSync(w)
  \/ LogAsync \/ StartLogger
  \/ \E w \in Writers : Writing(w)
  \/ Close \/ CloseLen \/ CloseReceive \/ CloseDestroy
  \/ LEnvironment

LSpec == LInit /\ [][LNext]_lvars

(***************************************************************************)
(* Goroutines run.  A mutex goes in the end to a goroutine that waits for  *)
(* it (sync.Mutex's starvation mode), and so does the channel.             *)
(***************************************************************************)
LFairSpec ==
  /\ LSpec
  /\ \A w \in Writers : SF_lvars(Writing(w))
  /\ WF_lvars(StartLogger)
  /\ WF_lvars(CloseLen) /\ SF_lvars(CloseReceive) /\ WF_lvars(CloseDestroy)

-----------------------------------------------------------------------------
(* The variables have their types (SimpleLogger), those of the file too.    *)
LTypeOK ==
  /\ TypeOK
  /\ asynchronous \in BOOLEAN
  /\ queue \in 0..ChanLen /\ sent \in 0..MaxMsgs
  /\ closing \in {"no", "len", "receive", "destroy", "closed"} /\ before \in 0..MaxMsgs

(***************************************************************************)
(* Close destroys the adapters only when every message that was sent       *)
(* before it has left the channel, whoever else sends and receives         *)
(* ("flush all chan data", log.go:299).                                    *)
(***************************************************************************)
ClosedAfterDraining == closing = "closed" => sent - queue >= before

(***************************************************************************)
(* A call of WriteMsg returns, whatever fails in a rotation: a goroutine   *)
(* that logs, and startLogger, are not stopped by the file (docheck's and  *)
(* DoRotate's deferred unlocks).                                           *)
(***************************************************************************)
WriteReturns == \A w \in Writers : at[w] # "idle" ~> at[w] = "idle"

(* Close waits for a message that startLogger took after len(bl.msg) was    *)
(* read.                                                                    *)
Robbed == asynchronous /\ closing = "receive" /\ queue = 0

(* No more messages are sent.  In the code nothing sees to that: Close does *)
(* not stop the goroutines that log, and its loop ends when it once finds   *)
(* the channel empty (log.go:301-313).  Here it is MaxMsgs that does.       *)
LoggingStops == <>[][~LogAsync]_lvars

(***************************************************************************)
(* When logging stops, Close comes to its end unless startLogger takes the *)
(* message that Close has seen in the channel: then it waits for one that  *)
(* may never be sent.                                                      *)
(***************************************************************************)
CloseReturns == LoggingStops => (closing = "len" ~> closing \in {"no", "closed"} \/ Robbed)
=============================================================================
