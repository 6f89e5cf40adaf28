------------------------------ MODULE FileLog ------------------------------
(***************************************************************************)
(* The rotating log file (log/file.go): goroutines that write messages,    *)
(* the check before a message that may rotate the file, the archives, and  *)
(* the failures of rename and open.                                        *)
(*                                                                         *)
(* A file is its number of lines and the day of its last one.  The limit   *)
(* on the size works like the one on the lines and is left out; a file     *)
(* that is open can be examined (initFd).  deleteOldLog runs within days   *)
(* of the rotation, when the new file is not old itself.                   *)
(***************************************************************************)
EXTENDS Integers, FiniteSets, Functions

CONSTANTS
  Writers,    \* goroutines that call WriteMsg
  None,       \* no goroutine
  Maxlines,   \* lines after which the file is rotated
  Maxdays,    \* days an archive is kept
  MonthDays,  \* days of a month
  MaxNum,     \* archives of a day (999)
  MaxDate,    \* bound on the days that pass
  MaxMsgs     \* bound on the messages

ASSUME FileLogAssumption ==
  /\ IsFiniteSet(Writers) /\ Writers # {} /\ None \notin Writers
  /\ Maxlines \in Nat \ {0} /\ Maxdays \in Nat /\ MonthDays \in Nat \ {0}
  /\ MaxNum \in Nat /\ MaxDate \in Nat /\ MaxMsgs \in Nat

VARIABLES
  at,         \* where each writer is
  startLock, mw,  \* the holders of the two mutexes
  fname,      \* the archive's name in DoRotate
  cur,        \* w.maxlines_curlines
  opendate,   \* w.daily_opendate, a day of the month; 0 before initFd
  fd,         \* "open" on the file named Filename, or "closed"
  exists, lines, mtime,  \* the file named Filename
  archives,   \* <<date, num>> -> the archive
  cleaning,   \* a deleteOldLog is to run
  today,      \* the date
  msgs,       \* messages so far
  destroyed,  \* Destroy closed the file
  lost,       \* history: messages that were written nowhere
  failed      \* history: the last rotation, or the start, failed

locks == <<startLock, mw>>
file == <<fd, exists, lines, mtime>>
disk == <<archives, cleaning>>
vars == <<at, locks, fname, cur, opendate, file, disk, today, msgs, destroyed, lost, failed>>

DayOf(date) == 1 + (date % MonthDays)
NoName == <<0, 0>>

Init ==
  /\ at = [w \in Writers |-> "idle"]
  /\ startLock = None /\ mw = None /\ fname = NoName
  /\ cur = 0 /\ opendate = DayOf(0)
  /\ fd = "open" /\ exists = TRUE /\ lines = 0 /\ mtime = 0
  /\ archives = <<>> /\ cleaning = FALSE
  /\ today = 0 /\ msgs = 0 /\ destroyed = FALSE
  /\ lost = 0 /\ failed = FALSE

Goto(w, stage) == at' = [at EXCEPT ![w] = stage]

-----------------------------------------------------------------------------
(* WriteMsg, for a message that the writer's level lets through. *)
Begin(w) ==
  /\ at[w] = "idle" /\ msgs < MaxMsgs
  /\ msgs' = msgs + 1
  /\ Goto(w, "check")
  /\ UNCHANGED <<locks, fname, cur, opendate, file, disk, today, lost, failed, destroyed>>

DueLate == cur > Maxlines \/ DayOf(today) # opendate  \* fault: one line more
Due == cur >= Maxlines \/ DayOf(today) # opendate

(* The first number of the day that no archive has. *)
NumOne(d) == IF MaxNum > 0 THEN {1} ELSE {}  \* fault: the archives are not looked at
FreeNums(d) == {n \in 1..MaxNum : <<d, n>> \notin DOMAIN archives}

Checking(w) == at[w] = "check" /\ startLock = None

(* docheck counts the message.  There is nothing to rotate without a file.  *)
Count(w) ==
  /\ Checking(w)
  /\ Due => ~exists
  /\ cur' = cur + 1
  /\ Goto(w, "print")
  /\ UNCHANGED <<locks, fname, opendate, file, disk, today, msgs, lost, failed, destroyed>>

(* Every number of the day is taken: the message goes to the file uncounted. *)
NoFreeNumber(w) ==
  /\ Checking(w) /\ Due /\ exists
  /\ FreeNums(today) = {}
  /\ failed' = TRUE
  /\ Goto(w, "print")
  /\ UNCHANGED <<locks, fname, cur, opendate, file, disk, today, msgs, lost, destroyed>>

StartRotate(w) ==
  /\ Checking(w) /\ Due /\ exists
  /\ \E n \in FreeNums(today) :
       /\ \A m \in FreeNums(today) : n <= m
       /\ fname' = <<today, n>>
  /\ startLock' = w
  /\ Goto(w, "rotate")
  /\ UNCHANGED <<mw, cur, opendate, file, disk, today, msgs, lost, failed, destroyed>>

(* DoRotate: the writers are kept out, and the file is closed. *)
CloseFdUnlocked(w) ==  \* fault: MuxWriter is not locked
  /\ at[w] = "rotate"
  /\ fd' = "closed"
  /\ Goto(w, "rename")
  /\ UNCHANGED <<locks, fname, cur, opendate, exists, lines, mtime, disk, today, msgs, lost, failed, destroyed>>

CloseFd(w) ==
  /\ at[w] = "rotate" /\ mw = None
  /\ mw' = w
  /\ fd' = "closed"
  /\ Goto(w, "rename")
  /\ UNCHANGED <<startLock, fname, cur, opendate, exists, lines, mtime, disk, today, msgs, lost, failed, destroyed>>

Rename(w) ==
  /\ at[w] = "rename"
  /\ archives' = [n \in DOMAIN archives \cup {fname} |->
                    IF n = fname THEN [lines |-> lines, mtime |-> mtime] ELSE archives[n]]
  /\ exists' = FALSE /\ lines' = 0
  /\ Goto(w, "reopen")
  /\ UNCHANGED <<locks, fname, cur, opendate, fd, mtime, cleaning, today, msgs, lost, failed, destroyed>>

Unlocked == startLock' = None /\ mw' = None /\ fname' = NoName

RotateFailsLocked(w) ==  \* fault: the mutexes are not released
  /\ at[w] \in {"rename", "reopen"}
  /\ failed' = TRUE
  /\ Goto(w, "print")
  /\ UNCHANGED <<locks, fname, cur, opendate, file, disk, today, msgs, lost, destroyed>>

(* The rename fails, or the open after it: docheck does not count. *)
RotateFails(w) ==
  /\ at[w] \in {"rename", "reopen"}
  /\ Unlocked
  /\ failed' = TRUE
  /\ Goto(w, "print")
  /\ UNCHANGED <<cur, opendate, file, disk, today, msgs, lost, destroyed>>

(* startLogger opens a new file, initFd looks at it, docheck counts.        *)
Reopen(w) ==
  /\ at[w] = "reopen"
  /\ fd' = "open" /\ exists' = TRUE /\ mtime' = today
  /\ cur' = lines + 1 /\ opendate' = DayOf(today)
  /\ Unlocked /\ destroyed' = FALSE
  /\ failed' = FALSE /\ cleaning' = TRUE
  /\ Goto(w, "print")
  /\ UNCHANGED <<lines, archives, today, msgs, lost>>

(* The write to the open file fails, the disk being full, say: at most a   *)
(* part of the line is written.                                            *)
WriteFails ==
  /\ fd = "open"
  /\ lost' = lost + 1
  /\ mtime' \in {mtime, today}
  /\ UNCHANGED lines

(* Println: MuxWriter.Write, whose error log.Logger's Println drops.        *)
Println(w) ==
  /\ at[w] = "print" /\ mw = None
  /\ \/ fd = "open" /\ lines' = lines + 1 /\ mtime' = today /\ UNCHANGED lost
     \/ WriteFails
     \/ fd = "closed" /\ lost' = lost + 1 /\ UNCHANGED <<lines, mtime>>
  /\ Goto(w, "idle")
  /\ UNCHANGED <<locks, fname, cur, opendate, fd, exists, disk, today, msgs, failed, destroyed>>

WriteMsg(w) ==
  \/ Count(w) \/ NoFreeNumber(w) \/ StartRotate(w)
  \/ CloseFd(w) \/ Rename(w) \/ Reopen(w) \/ RotateFails(w)
  \/ Println(w)

-----------------------------------------------------------------------------
(* deleteOldLog, the goroutine that a rotation starts. *)
Old(a) == a.mtime < today - Maxdays

DeleteOldLog ==
  /\ cleaning
  /\ archives' = Restrict(archives, {n \in DOMAIN archives : ~Old(archives[n])})
  /\ cleaning' = FALSE
  /\ UNCHANGED <<at, locks, fname, cur, opendate, file, today, msgs, lost, failed, destroyed>>

NextDay ==
  /\ today < MaxDate
  /\ today' = today + 1
  /\ UNCHANGED <<at, locks, fname, cur, opendate, file, disk, msgs, lost, failed, destroyed>>

(* The program ends at any point and is started again: Init.  SetLogger     *)
(* keeps a writer whose Init failed.                                        *)
Restarted ==
  /\ at' = [w \in Writers |-> "idle"]
  /\ Unlocked /\ destroyed' = FALSE
  /\ cleaning' = FALSE
  /\ \/ /\ fd' = "open" /\ exists' = TRUE
        /\ mtime' = IF exists THEN mtime ELSE today
        /\ cur' = lines /\ opendate' = DayOf(today)
        /\ UNCHANGED failed
     \/ /\ fd' = "closed" /\ cur' = 0 /\ opendate' = 0
        /\ failed' = TRUE
        /\ UNCHANGED <<exists, mtime>>
  /\ UNCHANGED <<lines, archives, today, msgs, lost>>

(* Destroy takes no lock. *)
Destroyed ==
  /\ fd' = "closed" /\ destroyed' = TRUE
  /\ UNCHANGED <<exists, lines, mtime>>

Destroy ==
  /\ Destroyed
  /\ UNCHANGED <<at, locks, fname, cur, opendate, disk, today, msgs, lost, failed>>

Environment == Destroy \/ DeleteOldLog \/ NextDay \/ Restarted

Next == (\E w \in Writers : Begin(w) \/ WriteMsg(w)) \/ Environment

Spec == Init /\ [][Next]_vars

-----------------------------------------------------------------------------
Dates == 0..MaxDate

(* The variables have their types (FileLogWriter, MuxWriter, the files).    *)
TypeOK ==
  /\ at \in [Writers -> {"idle", "check", "rotate", "rename", "reopen", "print"}]
  /\ startLock \in Writers \cup {None} /\ mw \in Writers \cup {None}
  /\ cur \in Nat /\ opendate \in 0..MonthDays
  /\ fd \in {"open", "closed"} /\ exists \in BOOLEAN /\ lines \in Nat /\ mtime \in Dates
  /\ DOMAIN archives \subseteq Dates \X (1..MaxNum)
  /\ \A n \in DOMAIN archives : archives[n] \in [lines : Nat, mtime : Dates]
  /\ cleaning \in BOOLEAN /\ failed \in BOOLEAN /\ destroyed \in BOOLEAN
  /\ today \in Dates /\ msgs \in 0..MaxMsgs /\ lost \in Nat

(***************************************************************************)
(* Maxlines holds although a message is counted before it is written, and  *)
(* written without startLock: a file has at most one line too many for     *)
(* each other writer, over restarts too, as long as rotations succeed      *)
(* (docheck and WriteMsg).  A message is one line: docheck counts messages, *)
(* and initFd after a restart counts lines.                                *)
(***************************************************************************)
LinesBounded == ~failed => lines <= Maxlines + Cardinality(Writers) - 1

(***************************************************************************)
(* A file that was rotated away is never written, replaced or renamed      *)
(* again, and it is only removed when its last line is older than Maxdays: *)
(* DoRotate's choice of a number, closing before renaming, deleteOldLog.   *)
(***************************************************************************)
ArchivesKept ==
  [][\A n \in DOMAIN archives :
       IF n \in DOMAIN archives' THEN archives'[n] = archives[n]
                                 ELSE archives[n].mtime < today - Maxdays]_vars

(***************************************************************************)
(* Until a rotation fails or Destroy, a message is lost only when its own   *)
(* write to the open file fails: none is written to a file that another     *)
(* goroutine has closed to rotate it ("use MuxWriter instead direct use     *)
(* os.File for lock write when rotate", file.go:76).                       *)
(***************************************************************************)
LostOnlyAfterFailure == [][lost' > lost => WriteFails \/ failed \/ destroyed]_vars
=============================================================================
