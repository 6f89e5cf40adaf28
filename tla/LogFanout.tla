------------------------------ MODULE LogFanout ------------------------------
(***************************************************************************)
(* SimpleLogger (log/log.go) with several adapters: the console, nsq       *)
(* (module NsqLog) and a connection (log/conn.go).  A message goes to each *)
(* adapter whose level admits it, by the goroutine that logs, or with      *)
(* Async by the one of startLogger.                                        *)
(*                                                                         *)
(* bl.lock does not cover writing, so adapters are set before anybody logs, *)
(* as init does, and deleted while nobody does.  A call whose level is not *)
(* below bl.level does nothing, and is left out.                           *)
(* The connection writer is not registered (log/init.go:9): a program that *)
(* uses it registers NewConn before it calls SetLogger.                    *)
(***************************************************************************)
EXTENDS NsqLog, FiniteSets, SequencesExt

CONSTANTS
  Callers,   \* goroutines that log
  Worker,    \* the goroutine of startLogger
  MaxLevel,  \* the least important level (LevelDebug)
  QueueLen,  \* capacity of bl.msg
  Configs,   \* the <<adapter, Level>> that SetLogger is called with
  MaxOutputs,  \* bound on the adapters that are set at a time
  MaxMsgs    \* bound on the messages

Adapters == {"console", "nsq", "conn"}

ASSUME FanoutAssumption ==
  /\ Worker \notin Callers
  /\ Configs \subseteq Adapters \X (0..MaxLevel)
  /\ MaxLevel \in Nat /\ QueueLen \in Nat \ {0}
  /\ MaxMsgs \in Nat /\ Msgs = 1..MaxMsgs

VARIABLES
  asynchronous,  \* Async was called
  outputs,    \* bl.outputs: the name of an adapter -> its Level
  lv,         \* message -> its level; messages are numbered
  queue,      \* bl.msg
  at,         \* where a goroutine is
  task,       \* the message it has in hand
  todo,       \* the adapters that it has still to call
  link,       \* c.innerWriter of the connection: "none", "up" or "gone"
  lg,         \* c.lg is not nil
  onMsg,      \* c.ReconnectOnMsg; c.Reconnect only says once what a nil innerWriter does
  owed,       \* history: <<message, adapter>> to be written, and not written
  failed      \* history: messages for which writerMsg returned an error, or panicked

Goroutines == Callers \cup {Worker}

config == <<asynchronous, outputs>>
conn == <<link, lg, onMsg>>
history == <<owed, failed>>
vars == <<nsqVars, config, lv, queue, at, task, todo, conn, history>>

(* init of log/init.go: the console is set. *)
Init ==
  /\ NsqInit
  /\ asynchronous \in BOOLEAN
  /\ outputs = [a \in {"console"} |-> MaxLevel]
  /\ lv = <<>> /\ queue = <<>>
  /\ at = [g \in Goroutines |-> "idle"]
  /\ task = [g \in Goroutines |-> 0]
  /\ todo = [g \in Goroutines |-> {}]
  /\ link = "none" /\ lg = FALSE /\ onMsg = FALSE
  /\ owed = {} /\ failed = {}

-----------------------------------------------------------------------------
Quiet == queue = <<>> /\ \A g \in Goroutines : at[g] = "idle"

(* An adapter is kept if its Init fails too. *)
SetLogger(a, l) ==
  /\ <<a, l>> \in Configs
  /\ lv = <<>> /\ a \notin DOMAIN outputs /\ Cardinality(DOMAIN outputs) < MaxOutputs
  /\ outputs' = [b \in DOMAIN outputs \cup {a} |-> IF b = a THEN l ELSE outputs[b]]
  /\ onMsg' \in IF a = "conn" THEN BOOLEAN ELSE {onMsg}
  /\ UNCHANGED <<nsqVars, asynchronous, lv, queue, at, task, todo, link, lg, history>>

(* The nsq writer's publish goes on with what is in its channel.  An        *)
(* adapter deleted before the first message is one that was not set.        *)
DelLogger(a) ==
  /\ lv # <<>>
  /\ Quiet
  /\ a \in DOMAIN outputs
  /\ outputs' = Restrict(outputs, DOMAIN outputs \ {a})
  /\ link' = IF a = "conn" /\ link = "up" THEN "gone" ELSE link
  /\ UNCHANGED <<nsqVars, asynchronous, lv, queue, at, task, todo, lg, onMsg, history>>

-----------------------------------------------------------------------------
(* Goroutine g begins to write m, whose level is l, to every adapter; one   *)
(* whose level does not admit it returns at once.                           *)
FanOut(g, m, l) ==
  LET to == {a \in DOMAIN outputs : l <= outputs[a]}
  IN  /\ todo' = [todo EXCEPT ![g] = to]
      /\ task' = [task EXCEPT ![g] = IF to = {} THEN 0 ELSE m]
      /\ at' = [at EXCEPT ![g] = IF to = {} THEN "idle" ELSE "fan"]
      /\ owed' = owed \cup {<<m, a>> : a \in to}
      /\ UNCHANGED failed

(* Emergency to Trace, and writerMsg. *)
Log(g, l) ==
  /\ g \in Callers /\ at[g] = "idle"
  /\ Len(lv) < MaxMsgs
  /\ lv' = Append(lv, l)
  /\ IF asynchronous
     THEN /\ at' = [at EXCEPT ![g] = "send"]
          /\ task' = [task EXCEPT ![g] = Len(lv')]
          /\ UNCHANGED <<todo, history>>
     ELSE FanOut(g, Len(lv'), l)
  /\ UNCHANGED <<nsqVars, config, queue, conn>>

Send(g) ==
  /\ at[g] = "send" /\ Len(queue) < QueueLen
  /\ queue' = Append(queue, task[g])
  /\ at' = [at EXCEPT ![g] = "idle"] /\ task' = [task EXCEPT ![g] = 0]
  /\ UNCHANGED <<nsqVars, config, lv, todo, conn, history>>

StartLogger ==
  /\ queue # <<>> /\ at[Worker] = "idle"
  /\ queue' = Tail(queue)
  /\ FanOut(Worker, Head(queue), lv[Head(queue)])
  /\ UNCHANGED <<nsqVars, config, lv, conn>>

(* The adapters in rest are still to be called. *)
GoOn(g, rest) ==
  /\ todo' = [todo EXCEPT ![g] = rest]
  /\ at' = [at EXCEPT ![g] = IF rest = {} THEN "idle" ELSE "fan"]
  /\ task' = [task EXCEPT ![g] = IF rest = {} THEN 0 ELSE @]

Wrote(g, a) ==
  /\ GoOn(g, todo[g] \ {a})
  /\ owed' = owed \ {<<task[g], a>>}
  /\ UNCHANGED <<config, lv, queue, failed>>

WriteConsole(g) ==
  /\ at[g] = "fan" /\ "console" \in todo[g]
  /\ Wrote(g, "console")
  /\ UNCHANGED <<nsqVars, conn>>

WriteNsq(g) ==
  /\ at[g] = "fan" /\ "nsq" \in todo[g]
  /\ NsqWriteMsg(task[g])
  /\ Wrote(g, "nsq")
  /\ UNCHANGED conn

(* An error: writerMsg returns it, startLogger prints it and goes on.       *)
AdapterFailsStops(g) ==  \* fault: startLogger leaves its loop too
  /\ GoOn(g, {})
  /\ failed' = failed \cup {task[g]}
  /\ UNCHANGED <<nsqVars, config, lv, queue, lg, onMsg, owed>>

AdapterFails(g) ==
  /\ IF g = Worker THEN GoOn(g, todo[g] \ {"conn"}) /\ UNCHANGED failed
                   ELSE GoOn(g, {}) /\ failed' = failed \cup {task[g]}
  /\ UNCHANGED <<nsqVars, config, lv, queue, lg, onMsg, owed>>

-----------------------------------------------------------------------------
(* ConnWriter.WriteMsg: is a new connection needed?  No lock covers this.   *)
NeededConnect(g) ==
  /\ at[g] = "fan" /\ "conn" \in todo[g]
  /\ IF link = "none" \/ onMsg
     THEN at' = [at EXCEPT ![g] = "dial"] /\ link' = "none"
     ELSE at' = [at EXCEPT ![g] = "print"] /\ UNCHANGED link
  /\ UNCHANGED <<nsqVars, config, lv, queue, task, todo, lg, onMsg, history>>

ConnectFails(g) ==
  /\ at[g] = "dial"
  /\ AdapterFails(g)
  /\ UNCHANGED link

(* c.innerWriter is set, ... *)
Connect(g) ==
  /\ at[g] = "dial"
  /\ link' = "up"
  /\ at' = [at EXCEPT ![g] = "made"]
  /\ UNCHANGED <<nsqVars, config, lv, queue, task, todo, lg, onMsg, history>>

(* ... and then c.lg, on the connection that this goroutine has made.       *)
SetLg(g) ==
  /\ at[g] = "made"
  /\ lg' = TRUE
  /\ at' = [at EXCEPT ![g] = "print"]
  /\ UNCHANGED <<nsqVars, config, lv, queue, task, todo, link, onMsg, history>>

(* Another goroutine is connecting: c.innerWriter or c.lg is nil.           *)
Nil == ~lg \/ (onMsg /\ link = "none")

(* Println, whose error nobody looks at: nothing notices a connection that  *)
(* is gone.  With ReconnectOnMsg c.lg may still print to the one before, and *)
(* the deferred Close comes in the same step: the connection is closed, but *)
(* not nil.                                                                 *)
PrintConn(g) ==
  /\ at[g] = "print" /\ ~Nil
  /\ GoOn(g, todo[g] \ {"conn"})
  /\ \/ link = "up" /\ owed' = owed \ {<<task[g], "conn">>}
     \/ (link # "up" \/ onMsg) /\ UNCHANGED owed
  /\ link' = IF onMsg THEN "gone" ELSE link
  /\ UNCHANGED <<nsqVars, config, lv, queue, lg, onMsg, failed>>

(* The caller panics; a Close that is deferred already comes after it.      *)
Panic(g) ==
  /\ at[g] = "print" /\ Nil
  /\ GoOn(g, {})
  /\ failed' = failed \cup {task[g]}
  /\ link' = IF onMsg /\ link = "up" THEN "gone" ELSE link
  /\ UNCHANGED <<nsqVars, config, lv, queue, lg, onMsg, owed>>

(* The connection breaks. *)
LinkBreaks ==
  /\ link = "up"
  /\ link' = "gone"
  /\ UNCHANGED <<nsqVars, config, lv, queue, at, task, todo, lg, onMsg, history>>

-----------------------------------------------------------------------------
(* What a goroutine does without waiting for anybody, but for the dialling. *)
Proceed(g) ==
  \/ WriteConsole(g) \/ NeededConnect(g)
  \/ ConnectFails(g) \/ Connect(g) \/ SetLg(g) \/ Panic(g)

Write(g) == Proceed(g) \/ PrintConn(g)

Publisher ==
  /\ Publish
  /\ UNCHANGED <<config, lv, queue, at, task, todo, conn, history>>

Next ==
  \/ \E a \in Adapters : DelLogger(a) \/ \E l \in 0..MaxLevel : SetLogger(a, l)
  \/ \E g \in Callers, l \in 0..MaxLevel : Log(g, l)
  \/ \E g \in Goroutines : Send(g) \/ WriteNsq(g) \/ Write(g)
  \/ StartLogger \/ LinkBreaks \/ Publisher

Spec == Init /\ [][Next]_vars

(* Goroutines run, ticks come, dialling ends (the system gives up), and the *)
(* console takes what is printed.                                           *)
(* Those that wait at a channel are served in order.  Nothing is assumed of *)
(* the servers: neither a post nor a write to the connection has a timeout. *)
Unanswered == pub \in {"post", "body"}

FairSpec ==
  /\ Spec
  /\ \A g \in Goroutines : WF_vars(Proceed(g)) /\ SF_vars(Send(g)) /\ SF_vars(WriteNsq(g))
  /\ WF_vars(StartLogger)
  /\ WF_vars(Publisher /\ ~Unanswered)

-----------------------------------------------------------------------------
Finished(m) == ~Contains(queue, m) /\ \A g \in Goroutines : task[g] # m

(***************************************************************************)
(* A message that has been dealt with was written to every adapter that    *)
(* admits it, whatever order the map has: with Async an adapter that fails *)
(* costs itself the message, and no other; without, writerMsg returns at   *)
(* the first error, and the rest of the adapters do not get it.            *)
(***************************************************************************)
ReachesAll ==
  \A p \in owed :
    Finished(p[1]) => p[2] = "conn" \/ (~asynchronous /\ p[1] \in failed)

(* The premises: the nsq server always answers in the end, and no print to  *)
(* the connection waits for ever for a log server that does not read.       *)
Answers == []<>~Unanswered
Accepts == \A g \in Goroutines : []<>(at[g] # "print")

(***************************************************************************)
(* As long as the nsq server answers its posts, with an error or without,  *)
(* and the log server at the end of the connection reads, or the           *)
(* connection fails, a call of a logging function returns, full channels   *)
(* and failing adapters notwithstanding.  No timeout guards http.Post, and *)
(* no deadline the connection: one post that is not answered, or one print *)
(* that is not taken, stops every goroutine that logs.                     *)
(***************************************************************************)
LoggingReturns ==
  Answers /\ Accepts => \A g \in Goroutines : at[g] # "idle" ~> at[g] = "idle"

(***************************************************************************)
(* When nobody logs any more, and the server answers, what is in the       *)
(* channel is posted, also after the writer has been deleted.              *)
(***************************************************************************)
AllPublished == Answers => <>[](ch = <<>> /\ buf = <<>>)
=============================================================================
