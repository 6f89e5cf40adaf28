--------------------------- MODULE FileLogProofs ---------------------------
(***************************************************************************)
(* Proofs about the rotating log file, for every number of goroutines,     *)
(* every limit and every history of failures and restarts: the limit on    *)
(* the lines, the safety of the archives, when messages are lost; that     *)
(* SimpleLogger uses the file in no other way.                             *)
(***************************************************************************)
EXTENDS Logger, FiniteSetTheorems, TLAPS

Printing == {w \in Writers : at[w] = "print"}
N == Cardinality(Writers)

Types ==
  /\ at \in [Writers -> {"idle", "check", "rotate", "rename", "reopen", "print"}]
  /\ startLock \in Writers \cup {None} /\ mw \in Writers \cup {None}
  /\ cur \in Nat /\ lines \in Nat /\ lost \in Nat
  /\ failed \in BOOLEAN /\ exists \in BOOLEAN /\ destroyed \in BOOLEAN
  /\ fd \in {"open", "closed"}

(* Who is inside the critical sections of docheck and DoRotate. *)
LockInv ==
  \A w \in Writers :
    /\ startLock = w <=> at[w] \in {"rotate", "rename", "reopen"}
    /\ mw = w <=> at[w] \in {"rename", "reopen"}

(* What the goroutine that rotates the file has done so far. *)
RotateInv ==
  /\ \A w \in Writers :
       /\ at[w] = "reopen" => lines = 0
       /\ at[w] \in {"rotate", "rename"} => fname \notin DOMAIN archives
  /\ ~exists => failed \/ \E w \in Writers : at[w] = "reopen"
  /\ fd = "closed" => failed \/ destroyed \/ mw # None

(***************************************************************************)
(* The lines written and about to be written: all but N - 1 of them are    *)
(* counted (the rest were counted in the file before), and a message is    *)
(* only counted below Maxlines.  The second bound is not a consequence of  *)
(* the first: a restart counts all the lines it finds.                     *)
(***************************************************************************)
Counted ==
  ~failed => /\ lines + Cardinality(Printing) <= cur + N - 1
             /\ lines + Cardinality(Printing) <= Maxlines + N - 1

FileInv == Types /\ LockInv /\ RotateInv /\ Counted

-----------------------------------------------------------------------------
(* The goroutines that are about to print. *)
LEMMA PrintingFinite ==
  /\ IsFiniteSet(Printing) /\ Cardinality(Printing) \in Nat
  /\ N \in Nat /\ N >= 1 /\ Cardinality(Printing) <= N
<1>1. IsFiniteSet(Writers) /\ Writers # {} /\ Printing \subseteq Writers
  BY FileLogAssumption DEF Printing
<1>2. N \in Nat /\ N # 0
  BY <1>1, FS_CardinalityType, FS_EmptySet DEF N
<1>3. IsFiniteSet(Printing) /\ Cardinality(Printing) <= N
  BY <1>1, FS_Subset DEF N
<1>4. Cardinality(Printing) \in Nat
  BY <1>3, FS_CardinalityType
<1> QED BY <1>2, <1>3, <1>4

(* The printing goroutines of the next state are finitely many, too. *)
LEMMA PrintingFiniteNext ==
  Cardinality(Printing') \in Nat /\ Cardinality(Printing') <= N
<1>1. IsFiniteSet(Writers) /\ Printing' \subseteq Writers
  BY FileLogAssumption DEF Printing
<1>2. IsFiniteSet(Printing') /\ Cardinality(Printing') <= N
  BY <1>1, FS_Subset DEF N
<1> QED BY <1>2, FS_CardinalityType

(* A writer that comes to Println is one more printing goroutine. *)
LEMMA StartsPrinting ==
  ASSUME Types, NEW w \in Writers, Goto(w, "print"), at[w] # "print"
  PROVE  Cardinality(Printing') = Cardinality(Printing) + 1
<1>1. Printing' = Printing \cup {w} /\ w \notin Printing
  BY DEF Types, Goto, Printing
<1> QED BY <1>1, PrintingFinite, FS_AddElement

(* A writer that has printed is one printing goroutine less. *)
LEMMA StopsPrinting ==
  ASSUME Types, NEW w \in Writers, Goto(w, "idle"), at[w] = "print"
  PROVE  Cardinality(Printing') = Cardinality(Printing) - 1
<1>1. Printing' = Printing \ {w} /\ w \in Printing
  BY DEF Types, Goto, Printing
<1> QED BY <1>1, PrintingFinite, FS_RemoveElement

(* Steps that neither come to Println nor end it leave the printing goroutines alone. *)
LEMMA PrintsOn ==
  ASSUME Types, NEW w \in Writers, NEW stage, Goto(w, stage), at[w] # "print", stage # "print"
  PROVE  Printing' = Printing
BY DEF Types, Goto, Printing

-----------------------------------------------------------------------------
(* The new file of the start satisfies the invariant. *)
LEMMA InitFileInv == Init => FileInv
<1> SUFFICES ASSUME Init PROVE FileInv
  OBVIOUS
<1> USE FileLogAssumption
<1>1. Types
  BY DEF Init, Types
<1>2. LockInv
  BY DEF Init, LockInv
<1>3. RotateInv
  BY DEF Init, RotateInv
<1>4. Counted
  <2>1. Printing = {}
    BY DEF Init, Printing
  <2>2. Cardinality(Printing) = 0
    BY <2>1, FS_EmptySet
  <2> QED BY <2>2, PrintingFinite DEF Init, Counted
<1> QED BY <1>1, <1>2, <1>3, <1>4 DEF FileInv

(* Every step keeps who is where in the critical sections. *)
LEMMA StepLocks == FileInv /\ [Next]_vars => Types' /\ LockInv' /\ RotateInv'
<1> SUFFICES ASSUME FileInv, [Next]_vars PROVE Types' /\ LockInv' /\ RotateInv'
  OBVIOUS
<1> USE FileLogAssumption DEF FileInv
<1>1. ASSUME NEW w \in Writers, Begin(w) PROVE Types' /\ LockInv' /\ RotateInv'
  BY <1>1 DEF Begin, Goto, Types, LockInv, RotateInv, locks, file, disk
<1>2. ASSUME NEW w \in Writers, Count(w) PROVE Types' /\ LockInv' /\ RotateInv'
  BY <1>2 DEF Count, Checking, Goto, Types, LockInv, RotateInv, locks, file, disk
<1>3. ASSUME NEW w \in Writers, NoFreeNumber(w) PROVE Types' /\ LockInv' /\ RotateInv'
  BY <1>3 DEF NoFreeNumber, Checking, Goto, Types, LockInv, RotateInv, locks, file, disk
<1>4. ASSUME NEW w \in Writers, StartRotate(w) PROVE Types' /\ LockInv' /\ RotateInv'
  <2>1. fname' \notin DOMAIN archives
    BY <1>4 DEF StartRotate, FreeNums
  <2> QED BY <1>4, <2>1 DEF StartRotate, Checking, Goto, Types, LockInv, RotateInv, locks, file, disk
<1>5. ASSUME NEW w \in Writers, CloseFd(w) PROVE Types' /\ LockInv' /\ RotateInv'
  BY <1>5 DEF CloseFd, Goto, Types, LockInv, RotateInv, locks, file, disk
<1>6. ASSUME NEW w \in Writers, Rename(w) PROVE Types' /\ LockInv' /\ RotateInv'
  BY <1>6 DEF Rename, Goto, Types, LockInv, RotateInv, locks, file, disk
<1>7. ASSUME NEW w \in Writers, Reopen(w) PROVE Types' /\ LockInv' /\ RotateInv'
  <2>1. /\ at' = [at EXCEPT ![w] = "print"] /\ at[w] = "reopen"
        /\ startLock' = None /\ mw' = None
        /\ fd' = "open" /\ exists' = TRUE /\ cur' = lines + 1 /\ lines' = lines
        /\ failed' = FALSE /\ destroyed' = FALSE /\ lost' = lost
    BY <1>7 DEF Reopen, Unlocked, Goto
  <2>2. \A v \in Writers : at'[v] \notin {"rotate", "rename", "reopen"}
    BY <2>1 DEF Types, LockInv
  <2>3. Types'
    <3>1. lines \in Nat /\ lines + 1 \in Nat /\ lost \in Nat
      BY DEF Types
    <3>2. at' \in [Writers -> {"idle", "check", "rotate", "rename", "reopen", "print"}]
      BY <2>1 DEF Types
    <3> QED BY <2>1, <3>1, <3>2 DEF Types
  <2>4. LockInv' /\ RotateInv'
    BY <2>1, <2>2 DEF LockInv, RotateInv
  <2> QED BY <2>3, <2>4
<1>8. ASSUME NEW w \in Writers, RotateFails(w) PROVE Types' /\ LockInv' /\ RotateInv'
  BY <1>8 DEF RotateFails, Unlocked, Goto, Types, LockInv, RotateInv, locks, file, disk
<1>9. ASSUME NEW w \in Writers, Println(w) PROVE Types' /\ LockInv' /\ RotateInv'
  BY <1>9 DEF Println, WriteFails, Goto, Types, LockInv, RotateInv, locks, file, disk
<1>10. CASE DeleteOldLog
  <2>1. DOMAIN archives' \subseteq DOMAIN archives
    BY <1>10 DEF DeleteOldLog, Restrict
  <2> QED BY <1>10, <2>1 DEF DeleteOldLog, Types, LockInv, RotateInv, locks, file, disk
<1>11. CASE NextDay
  BY <1>11 DEF NextDay, Types, LockInv, RotateInv, locks, file, disk
<1>12. CASE Restarted
  <2>1. /\ at' = [w \in Writers |-> "idle"]
        /\ startLock' = None /\ mw' = None /\ lines' = lines /\ destroyed' = FALSE
        /\ lost' = lost
    BY <1>12 DEF Restarted, Unlocked
  <2>2. \/ fd' = "open" /\ exists' = TRUE /\ cur' = lines /\ failed' = failed
        \/ fd' = "closed" /\ exists' = exists /\ cur' = 0 /\ failed' = TRUE
    BY <1>12 DEF Restarted
  <2>3. Types'
    <3>1. lines \in Nat /\ lost \in Nat /\ failed \in BOOLEAN /\ exists \in BOOLEAN
      BY DEF Types
    <3>2. at' \in [Writers -> {"idle", "check", "rotate", "rename", "reopen", "print"}]
      BY <2>1
    <3>3. fd' \in {"open", "closed"} /\ cur' \in Nat
      BY <2>2, <3>1
    <3>4. failed' \in BOOLEAN /\ exists' \in BOOLEAN
      BY <2>2, <3>1, Zenon
    <3> QED BY <2>1, <3>1, <3>2, <3>3, <3>4 DEF Types
  <2>4. LockInv' /\ RotateInv'
    BY <2>1, <2>2 DEF LockInv, RotateInv
  <2> QED BY <2>3, <2>4
<1>13. CASE Destroy
  BY <1>13 DEF Destroy, Destroyed, Types, LockInv, RotateInv, locks, file, disk
<1>14. CASE UNCHANGED vars
  BY <1>14 DEF vars, Types, LockInv, RotateInv, locks, file, disk
<1> QED BY <1>1, <1>2, <1>3, <1>4, <1>5, <1>6, <1>7, <1>8, <1>9, <1>10, <1>11, <1>12, <1>13, <1>14
        DEF Next, WriteMsg, Environment

(* Every step keeps the count of the lines. *)
LEMMA StepCounted == FileInv /\ [Next]_vars => Counted'
<1> SUFFICES ASSUME FileInv, [Next]_vars, ~failed' PROVE Counted'
  BY DEF Counted
<1> DEFINE P == Cardinality(Printing)
           Q == Cardinality(Printing')
<1>i. Types /\ LockInv /\ RotateInv /\ Counted
  BY DEF FileInv
<1>a. /\ cur \in Nat /\ lines \in Nat /\ P \in Nat /\ Q \in Nat /\ N \in Nat
      /\ Maxlines \in Nat /\ Maxlines >= 1
      /\ N >= 1 /\ Q <= N
  BY FileLogAssumption, PrintingFinite, PrintingFiniteNext DEF FileInv, Types
<1> HIDE DEF P, Q
<1>q. ASSUME lines' \in Nat, cur' \in Nat,
             lines' + Q <= cur' + N - 1, lines' + Q <= Maxlines + N - 1
      PROVE  Counted'
  BY <1>q DEF Counted, Q, N
<1>b. ~failed => lines + P <= cur + N - 1 /\ lines + P <= Maxlines + N - 1
  BY <1>i DEF Counted, P
(* A step that keeps the counters and lets nobody begin to print. *)
<1>k. ASSUME ~failed, Q = P, lines' = lines \/ lines' = 0, cur' = cur PROVE Counted'
  <2>a. lines + P <= cur + N - 1 /\ lines + P <= Maxlines + N - 1
    BY <1>b, <1>k
  <2>1. lines' + Q <= cur' + N - 1 /\ lines' + Q <= Maxlines + N - 1
    BY <1>a, <1>k, <2>a
  <2>2. lines' \in Nat /\ cur' \in Nat
    BY <1>a, <1>k
  <2> QED BY <1>q, <2>1, <2>2
<1>1. ASSUME NEW w \in Writers, Begin(w) PROVE Counted'
  <2>1. Q = P
    BY <1>1, <1>i, PrintsOn DEF Begin, P, Q
  <2>2. lines' = lines /\ cur' = cur /\ failed' = failed
    BY <1>1 DEF Begin, file
  <2> QED BY <1>a, <1>k, <2>1, <2>2
<1>2. ASSUME NEW w \in Writers, Count(w) PROVE Counted'
  <2>1. Q = P + 1
    BY <1>2, <1>i, StartsPrinting DEF Count, Checking, P, Q
  <2>2. lines' = lines /\ cur' = cur + 1 /\ failed' = failed
    BY <1>2 DEF Count, file
  <2>3. exists
    BY <1>2, <1>i, <2>2, FileLogAssumption DEF Count, Checking, LockInv, RotateInv
  <2>4. cur < Maxlines
    BY <1>2, <1>a, <1>i, <2>3 DEF Count, Due
  <2>5. lines' + Q <= cur' + N - 1 /\ lines' + Q <= Maxlines + N - 1
    BY <1>a, <1>b, <2>1, <2>2, <2>4
  <2> QED BY <1>a, <1>q, <2>2, <2>5
<1>3. ASSUME NEW w \in Writers, NoFreeNumber(w) \/ RotateFails(w) PROVE Counted'
  BY <1>3 DEF NoFreeNumber, RotateFails
<1>4. ASSUME NEW w \in Writers, StartRotate(w) \/ CloseFd(w) PROVE Counted'
  <2>1. Q = P
    BY <1>4, <1>i, PrintsOn DEF StartRotate, Checking, CloseFd, P, Q
  <2>2. lines' = lines /\ cur' = cur /\ failed' = failed
    BY <1>4 DEF StartRotate, CloseFd, file
  <2> QED BY <1>a, <1>k, <2>1, <2>2
<1>5. ASSUME NEW w \in Writers, Rename(w) PROVE Counted'
  <2>1. Q = P
    BY <1>5, <1>i, PrintsOn DEF Rename, P, Q
  <2>2. lines' = 0 /\ cur' = cur /\ failed' = failed
    BY <1>5 DEF Rename
  <2> QED BY <1>a, <1>k, <2>1, <2>2
<1>6. ASSUME NEW w \in Writers, Reopen(w) PROVE Counted'
  <2>1. lines = 0 /\ lines' = lines /\ cur' = lines + 1
    BY <1>6, <1>i DEF Reopen, RotateInv
  <2>2. lines' + Q <= cur' + N - 1 /\ lines' + Q <= Maxlines + N - 1
    BY <1>a, <2>1
  <2> QED BY <1>a, <1>q, <2>1, <2>2
<1>7. ASSUME NEW w \in Writers, Println(w) PROVE Counted'
  <2>1. Q = P - 1
    BY <1>7, <1>i, StopsPrinting DEF Println, P, Q
  <2>2. /\ lines' = lines \/ lines' = lines + 1
        /\ cur' = cur /\ failed' = failed
    BY <1>7 DEF Println, WriteFails
  <2>3. lines' + Q <= cur' + N - 1 /\ lines' + Q <= Maxlines + N - 1
    BY <1>a, <1>b, <2>1, <2>2
  <2> QED BY <1>a, <1>q, <2>2, <2>3
<1>8. CASE DeleteOldLog \/ NextDay \/ Destroy
  <2>1. at' = at /\ lines' = lines /\ cur' = cur /\ failed' = failed
    BY <1>8 DEF DeleteOldLog, NextDay, Destroy, Destroyed, file
  <2>2. Q = P
    BY <2>1 DEF Printing, P, Q
  <2> QED BY <1>a, <1>k, <2>1, <2>2
<1>9. CASE Restarted
  <2>1. lines' = lines /\ failed' = failed /\ cur' = lines
    BY <1>9 DEF Restarted
  <2>2. Printing' = {}
    BY <1>9 DEF Restarted, Printing
  <2>3. Q = 0
    BY <2>2, FS_EmptySet DEF Q
  <2>4. lines' + Q <= cur' + N - 1 /\ lines' + Q <= Maxlines + N - 1
    BY <1>a, <1>b, <2>1, <2>3
  <2> QED BY <1>a, <1>q, <2>1, <2>4
<1>10. CASE UNCHANGED vars
  <2>1. at' = at /\ lines' = lines /\ cur' = cur /\ failed' = failed
    BY <1>10 DEF vars, file
  <2>2. Q = P
    BY <2>1 DEF Printing, P, Q
  <2> QED BY <1>a, <1>k, <2>1, <2>2
<1> QED BY <1>1, <1>2, <1>3, <1>4, <1>5, <1>6, <1>7, <1>8, <1>9, <1>10
        DEF Next, WriteMsg, Environment

(* The inductive invariant holds throughout. *)
LEMMA FileInvariant == Spec => []FileInv
<1>1. FileInv /\ [Next]_vars => FileInv'
  BY StepLocks, StepCounted DEF FileInv
<1> QED BY InitFileInv, <1>1, PTL DEF Spec

-----------------------------------------------------------------------------
(* The limit on the lines of a file holds up to one line for each goroutine *)
(* but one (LinesBounded: docheck counts before, and Println writes after,  *)
(* startLock is released), as long as rotations succeed.                    *)
THEOREM FileBounded == Spec => []LinesBounded
<1>1. FileInv => LinesBounded
  <2> SUFFICES ASSUME FileInv, ~failed PROVE lines <= Maxlines + N - 1
    BY DEF LinesBounded, N
  <2>1. lines + Cardinality(Printing) <= Maxlines + N - 1 /\ lines \in Nat /\ Maxlines \in Nat
    BY FileLogAssumption DEF FileInv, Counted, Types
  <2> QED BY <2>1, PrintingFinite
<1> QED BY FileInvariant, <1>1, PTL

(* A file that was rotated away is not changed, and not removed before its  *)
(* time (ArchivesKept: the number that DoRotate finds stays free until the  *)
(* rename, since startLock is held).                                        *)
THEOREM ArchivesSafe == Spec => ArchivesKept
<1> DEFINE Kept == \A n \in DOMAIN archives :
                     IF n \in DOMAIN archives' THEN archives'[n] = archives[n]
                                               ELSE archives[n].mtime < today - Maxdays
<1>1. FileInv /\ [Next]_vars => [Kept]_vars
  <2> SUFFICES ASSUME FileInv, Next PROVE Kept
    OBVIOUS
  <2>1. ASSUME NEW w \in Writers, Rename(w) PROVE Kept
    <3>1. fname \notin DOMAIN archives
      BY <2>1 DEF FileInv, RotateInv, Rename
    <3>2. \A n \in DOMAIN archives : n \in DOMAIN archives' /\ archives'[n] = archives[n]
      BY <2>1, <3>1 DEF Rename
    <3> QED BY <3>2
  <2>2. CASE DeleteOldLog
    <3>1. archives' = [n \in {n \in DOMAIN archives : ~Old(archives[n])} |-> archives[n]]
      BY <2>2 DEF DeleteOldLog, Restrict
    <3> QED BY <3>1 DEF Old
  <2>3. ASSUME archives' = archives PROVE Kept
    BY <2>3
  <2> QED BY <2>1, <2>2, <2>3 DEF Next, WriteMsg, Environment, Begin, Count, NoFreeNumber, StartRotate,
          CloseFd, Reopen, RotateFails, Println, NextDay, Restarted, Destroy, disk
<1> QED BY FileInvariant, <1>1, PTL DEF Spec, ArchivesKept

(* Before a rotation fails or Destroy, a message is lost only by a failure  *)
(* of its own write to the open file (LostOnlyAfterFailure: MuxWriter keeps *)
(* the writers out while the file is closed, and does nothing more).        *)
THEOREM MessagesKept == Spec => LostOnlyAfterFailure
<1>1. FileInv /\ [Next]_vars => [lost' > lost => WriteFails \/ failed \/ destroyed]_vars
  <2> SUFFICES ASSUME FileInv, Next, lost' > lost, ~WriteFails PROVE failed \/ destroyed
    OBVIOUS
  <2>0. lost \in Nat
    BY DEF FileInv, Types
  <2>1. CASE lost' = lost
    BY <2>0, <2>1
  <2>2. ASSUME NEW w \in Writers, Println(w) PROVE failed \/ destroyed
    <3>1. fd = "closed" /\ mw = None
      BY <2>0, <2>2 DEF Println, FileInv, Types
    <3> QED BY <3>1 DEF FileInv, RotateInv
  <2> QED BY <2>1, <2>2 DEF Next, WriteMsg, Environment, Begin, Count, NoFreeNumber, StartRotate,
          CloseFd, Rename, Reopen, RotateFails, DeleteOldLog, NextDay, Restarted, Destroy
<1> QED BY FileInvariant, <1>1, PTL DEF Spec, LostOnlyAfterFailure

(* SimpleLogger, synchronous or not, uses the file as FileLog says: what    *)
(* holds of the file holds of the file of a logger.                         *)
THEOREM LoggerUsesFile == LSpec => Spec
<1>1. LInit => Init
  BY DEF LInit
<1>2. [LNext]_lvars => [Next]_vars
  <2> SUFFICES ASSUME LNext PROVE [Next]_vars
    BY DEF lvars, fileVars
  <2> USE LoggerAssumption
  <2>1. ASSUME NEW w \in Writers, LogSync(w) \/ Receive(w) PROVE Next
    BY <2>1 DEF LogSync, Receive, Next
  <2>2. ASSUME NEW w \in Writers, Writing(w) PROVE Next
    BY <2>2 DEF Writing, Next
  <2>3. CASE StartLogger \/ CloseReceive
    BY <2>1, <2>3 DEF StartLogger, CloseReceive
  <2>4. CASE CloseDestroy \/ LEnvironment
    BY <2>4 DEF CloseDestroy, LEnvironment, Restart, Next, Environment
  <2>5. CASE LogAsync \/ Close \/ CloseLen
    BY <2>5 DEF LogAsync, Close, CloseLen, fileVars
  <2> QED BY <2>1, <2>2, <2>3, <2>4, <2>5 DEF LNext
<1> QED BY <1>1, <1>2, PTL DEF LSpec, Spec
-----------------------------------------------------------------------------
(* The types that the proofs above do not need: dates and archives.  The    *)
(* name of an archive is made before the file is closed.                    *)
FileTypes ==
  /\ TypeOK
  /\ \A w \in Writers : at[w] \in {"rotate", "rename"} => fname \in Dates \X (1..MaxNum)

LEMMA DayRange == ASSUME NEW d \in Nat PROVE DayOf(d) \in 0..MonthDays
<1>1. d % MonthDays \in 0..(MonthDays - 1)
  BY FileLogAssumption
<1> QED BY <1>1, FileLogAssumption DEF DayOf

LEMMA StepTypes == FileInv /\ FileTypes /\ [Next]_vars => FileTypes'
<1> SUFFICES ASSUME FileInv, FileTypes, [Next]_vars PROVE FileTypes'
  OBVIOUS
<1> USE FileLogAssumption DEF FileTypes, TypeOK
<1>0. DayOf(today) \in 0..MonthDays
  BY DayRange DEF Dates
<1>1. ASSUME NEW w \in Writers, Begin(w) PROVE FileTypes'
  BY <1>1 DEF Begin, Goto, locks, file, disk, Dates
<1>2. ASSUME NEW w \in Writers, Count(w) PROVE FileTypes'
  BY <1>2 DEF Count, Checking, Goto, locks, file, disk, Dates
<1>3. ASSUME NEW w \in Writers, NoFreeNumber(w) PROVE FileTypes'
  BY <1>3 DEF NoFreeNumber, Checking, Goto, locks, file, disk, Dates
<1>4. ASSUME NEW w \in Writers, StartRotate(w) PROVE FileTypes'
  <2>1. fname' \in Dates \X (1..MaxNum)
    BY <1>4 DEF StartRotate, FreeNums, Dates
  <2> QED BY <1>4, <2>1 DEF StartRotate, Checking, Goto, locks, file, disk, Dates
<1>5. ASSUME NEW w \in Writers, CloseFd(w) PROVE FileTypes'
  BY <1>5 DEF CloseFd, Goto, locks, file, disk, Dates
<1>6. ASSUME NEW w \in Writers, Rename(w) PROVE FileTypes'
  <2>1. /\ DOMAIN archives' = DOMAIN archives \cup {fname}
        /\ \A n \in DOMAIN archives' : archives'[n] \in [lines : Nat, mtime : Dates]
    BY <1>6 DEF Rename, Dates
  <2>2. DOMAIN archives' \subseteq Dates \X (1..MaxNum)
    BY <1>6, <2>1 DEF Rename
  <2> QED BY <1>6, <2>1, <2>2 DEF Rename, Goto, locks, Dates
<1>7. ASSUME NEW w \in Writers, Reopen(w) PROVE FileTypes'
  <2>1. \A v \in Writers : at[v] \in {"rotate", "rename"} => FALSE
    BY <1>7 DEF Reopen, FileInv, LockInv
  <2>2. /\ at' = [at EXCEPT ![w] = "print"] /\ startLock' = None /\ mw' = None
        /\ fd' = "open" /\ exists' = TRUE /\ mtime' = today /\ cur' = lines + 1
        /\ opendate' = DayOf(today) /\ destroyed' = FALSE /\ failed' = FALSE /\ cleaning' = TRUE
        /\ UNCHANGED <<lines, archives, today, msgs, lost>>
    BY <1>7 DEF Reopen, Unlocked, Goto
  <2>3. /\ at' \in [Writers -> {"idle", "check", "rotate", "rename", "reopen", "print"}]
        /\ \A v \in Writers : at'[v] \notin {"rotate", "rename"}
    BY <2>1, <2>2
  <2>4. /\ lines \in Nat /\ lines + 1 \in Nat /\ today \in Dates /\ msgs \in 0..MaxMsgs /\ lost \in Nat
        /\ DOMAIN archives \subseteq Dates \X (1..MaxNum)
        /\ \A n \in DOMAIN archives : archives[n] \in [lines : Nat, mtime : Dates]
    OBVIOUS
  <2>5. Dates' = Dates
    BY DEF Dates
  <2> HIDE DEF FileTypes, TypeOK
  <2> QED BY <1>0, <2>2, <2>3, <2>4, <2>5 DEF FileTypes, TypeOK
<1>8. ASSUME NEW w \in Writers, RotateFails(w) PROVE FileTypes'
  <2>1. \A v \in Writers : v # w => at[v] \notin {"rotate", "rename"}
    BY <1>8 DEF RotateFails, FileInv, LockInv
  <2> QED BY <1>8, <2>1 DEF RotateFails, Unlocked, Goto, file, disk, Dates
<1>9. ASSUME NEW w \in Writers, Println(w) PROVE FileTypes'
  BY <1>9 DEF Println, WriteFails, Goto, locks, disk, Dates
<1>10. CASE DeleteOldLog
  <2>1. archives' = [n \in {n \in DOMAIN archives : ~Old(archives[n])} |-> archives[n]]
    BY <1>10 DEF DeleteOldLog, Restrict
  <2> QED BY <1>10, <2>1 DEF DeleteOldLog, locks, file, Dates
<1>11. CASE NextDay
  BY <1>11 DEF NextDay, locks, file, disk, Dates
<1>12. CASE Restarted
  <2>1. \A w \in Writers : at'[w] \notin {"rotate", "rename"}
    BY <1>12 DEF Restarted
  <2>2. /\ at' = [w \in Writers |-> "idle"] /\ startLock' = None /\ mw' = None
        /\ destroyed' = FALSE /\ cleaning' = FALSE /\ UNCHANGED <<lines, archives, today, msgs, lost>>
    BY <1>12 DEF Restarted, Unlocked
  <2>3. /\ fd' \in {"open", "closed"} /\ cur' \in Nat /\ opendate' \in 0..MonthDays
        /\ mtime' \in Dates
    BY <1>0, <1>12 DEF Restarted
  <2>4. exists' \in BOOLEAN /\ failed' \in BOOLEAN
    BY <1>12, Zenon DEF Restarted
  <2> QED BY <2>1, <2>2, <2>3, <2>4 DEF Dates
<1>13. CASE Destroy
  BY <1>13 DEF Destroy, Destroyed, locks, disk, Dates
<1>14. CASE UNCHANGED vars
  BY <1>14 DEF vars, locks, file, disk, Dates
<1> QED BY <1>1, <1>2, <1>3, <1>4, <1>5, <1>6, <1>7, <1>8, <1>9, <1>10, <1>11, <1>12, <1>13, <1>14
        DEF Next, WriteMsg, Environment

(* The file's type invariant: dates, numbers and archives included.         *)
THEOREM FileTyped == Spec => []TypeOK
<1>1. Init => FileTypes
  <2> SUFFICES ASSUME Init PROVE FileTypes
    OBVIOUS
  <2>1. DayOf(0) \in 0..MonthDays
    BY DayRange
  <2>2. archives = <<>> /\ DOMAIN archives = {}
    BY DEF Init
  <2>3. 0 \in Dates
    BY FileLogAssumption DEF Dates
  <2>4. /\ at \in [Writers -> {"idle", "check", "rotate", "rename", "reopen", "print"}]
        /\ \A w \in Writers : at[w] = "idle"
        /\ cur = 0 /\ lines = 0 /\ lost = 0 /\ msgs \in 0..MaxMsgs /\ today = 0 /\ mtime = 0
        /\ startLock = None /\ mw = None /\ fd = "open" /\ opendate = DayOf(0)
    BY FileLogAssumption DEF Init
  <2>5. exists \in BOOLEAN /\ cleaning \in BOOLEAN /\ failed \in BOOLEAN /\ destroyed \in BOOLEAN
    BY DEF Init
  <2> QED BY <2>1, <2>2, <2>3, <2>4, <2>5 DEF FileTypes, TypeOK
<1>2. FileTypes => TypeOK
  BY DEF FileTypes
<1> QED BY <1>1, <1>2, FileInvariant, StepTypes, PTL DEF Spec

(***************************************************************************)
(* While Close looks at the channel, nothing is promised of the messages   *)
(* in it; when it has found the channel empty, whoever emptied it, the     *)
(* messages sent before Close was called are out.                          *)
(***************************************************************************)
DrainInv ==
  /\ asynchronous \in BOOLEAN
  /\ queue \in 0..ChanLen /\ sent \in 0..MaxMsgs /\ before \in 0..MaxMsgs
  /\ closing \in {"no", "len", "receive", "destroy", "closed"}
  /\ before <= sent
  /\ closing \in {"destroy", "closed"} => sent - queue >= before

LEMMA StepDrain == DrainInv /\ [LNext]_lvars => DrainInv'
<1> SUFFICES ASSUME DrainInv, [LNext]_lvars PROVE DrainInv'
  OBVIOUS
<1> USE FileLogAssumption, LoggerAssumption DEF DrainInv
<1>1. ASSUME NEW w \in Writers, LogSync(w) \/ Writing(w) PROVE DrainInv'
  BY <1>1 DEF LogSync, Writing, channel, close
<1>2. CASE LogAsync
  BY <1>2 DEF LogAsync, close
<1>3. CASE StartLogger
  BY <1>3 DEF StartLogger, Receive, close
<1>4. CASE Close \/ CloseLen
  BY <1>4 DEF Close, CloseLen, channel
<1>5. CASE CloseReceive
  BY <1>5 DEF CloseReceive, Receive
<1>6. CASE CloseDestroy
  BY <1>6 DEF CloseDestroy, channel
<1>7. CASE LEnvironment
  BY <1>7 DEF LEnvironment, Restart, channel, close
<1>8. CASE UNCHANGED lvars
  BY <1>8 DEF lvars, channel, close
<1> QED BY <1>1, <1>2, <1>3, <1>4, <1>5, <1>6, <1>7, <1>8 DEF LNext

LEMMA DrainInvariant == LSpec => []DrainInv
<1>1. LInit => DrainInv
  BY FileLogAssumption, LoggerAssumption DEF LInit, DrainInv
<1> QED BY <1>1, StepDrain, PTL DEF LSpec

(* The type invariant of the logger. *)
THEOREM LoggerTyped == LSpec => []LTypeOK
<1>1. TypeOK /\ DrainInv => LTypeOK
  BY DEF DrainInv, LTypeOK
<1> QED BY <1>1, FileTyped, LoggerUsesFile, DrainInvariant, PTL

(* Close destroys the adapters after the channel is drained, however many   *)
(* goroutines send while it and startLogger receive.                        *)
THEOREM CloseDrains == LSpec => []ClosedAfterDraining
<1>1. DrainInv => ClosedAfterDraining
  BY DEF DrainInv, ClosedAfterDraining
<1> QED BY <1>1, DrainInvariant, PTL

-----------------------------------------------------------------------------
(* A step of a WriteMsg is possible: the guards of WriteMsg. *)
WriteReady(w) ==
  \/ at[w] = "check" /\ startLock = None
  \/ at[w] \in {"rotate", "print"} /\ mw = None
  \/ at[w] \in {"rename", "reopen"}

WritesNeverStuck ==
  \A w \in Writers : at[w] # "idle" =>
    WriteReady(w) \/ (startLock # None /\ WriteReady(startLock))

(* The two mutexes are taken in one order: a goroutine in WriteMsg can go   *)
(* on, or waits for the one that rotates the file, and that one can go on,  *)
(* whatever failed before and whoever prints (docheck, DoRotate).           *)
THEOREM NoWriteStuck == Spec => []WritesNeverStuck
<1>1. FileInv => WritesNeverStuck
  <2> SUFFICES ASSUME FileInv, NEW w \in Writers, at[w] # "idle"
               PROVE  WriteReady(w) \/ (startLock # None /\ WriteReady(startLock))
    BY DEF WritesNeverStuck
  <2>1. Types /\ LockInv /\ None \notin Writers
    BY FileLogAssumption DEF FileInv
  <2>2. ASSUME NEW v \in Writers, startLock = v PROVE WriteReady(v)
    <3>1. at[v] \in {"rotate", "rename", "reopen"}
      BY <2>1, <2>2 DEF LockInv
    <3>2. ASSUME NEW u \in Writers, mw = u PROVE u = v /\ at[v] # "rotate"
      BY <2>1, <2>2, <3>2 DEF LockInv
    <3>3. at[v] = "rotate" => mw = None
      BY <2>1, <3>2 DEF Types
    <3> QED BY <3>1, <3>3 DEF WriteReady
  <2>3. CASE startLock \in Writers
    BY <2>1, <2>2, <2>3
  <2>4. CASE startLock = None
    <3>1. mw = None
      BY <2>1, <2>4 DEF Types, LockInv
    <3> QED BY <2>1, <2>4, <3>1 DEF Types, WriteReady
  <2> QED BY <2>1, <2>3, <2>4 DEF Types
<1> QED BY <1>1, FileInvariant, PTL

(* The steps that a WriteMsg has before it. *)
StepsLeft(w) ==
  CASE at[w] = "idle" -> 0 [] at[w] = "print" -> 1 [] at[w] = "reopen" -> 2
    [] at[w] = "rename" -> 3 [] at[w] = "rotate" -> 4 [] at[w] = "check" -> 5

WritesGoOn ==
  [][\A w \in Writers :
       /\ WriteMsg(w) => StepsLeft(w)' < StepsLeft(w)
       /\ ~Begin(w) => StepsLeft(w)' <= StepsLeft(w)]_vars

(* A WriteMsg takes at most five steps, and no other goroutine, no failure  *)
(* and no restart ever adds one.  With NoWriteStuck: who waits for a mutex  *)
(* waits for a goroutine that rotates the file, and unlocks it within three *)
(* steps.                                                                   *)
THEOREM WritesAreShort == Spec => [](\A w \in Writers : StepsLeft(w) \in 0..5) /\ WritesGoOn
<1>1. FileInv => \A w \in Writers : StepsLeft(w) \in 0..5
  <2> SUFFICES ASSUME FileInv, NEW w \in Writers PROVE StepsLeft(w) \in 0..5
    OBVIOUS
  <2>1. at[w] \in {"idle", "check", "rotate", "rename", "reopen", "print"}
    BY DEF FileInv, Types
  <2> QED BY <2>1 DEF StepsLeft
<1>2. ASSUME FileInv, Next, NEW w \in Writers
      PROVE  /\ WriteMsg(w) => StepsLeft(w)' < StepsLeft(w)
             /\ ~Begin(w) => StepsLeft(w)' <= StepsLeft(w)
  <2>1. /\ at \in [Writers -> {"idle", "check", "rotate", "rename", "reopen", "print"}]
    BY <1>2 DEF FileInv, Types
  <2>2. ASSUME NEW v \in Writers, Begin(v) \/ WriteMsg(v), v # w PROVE at'[w] = at[w]
    BY <2>1, <2>2 DEF Begin, WriteMsg, Count, NoFreeNumber, StartRotate, CloseFd, Rename, Reopen, RotateFails, Println, Goto
  <2>3. Environment => at'[w] \in {at[w], "idle"}
    BY <2>1 DEF Environment, Destroy, DeleteOldLog, NextDay, Restarted
  <2>4. WriteMsg(w) => \/ at[w] = "check" /\ at'[w] \in {"print", "rotate"}
                       \/ at[w] = "rotate" /\ at'[w] = "rename"
                       \/ at[w] = "rename" /\ at'[w] \in {"reopen", "print"}
                       \/ at[w] = "reopen" /\ at'[w] = "print"
                       \/ at[w] = "print" /\ at'[w] = "idle"
    BY <2>1 DEF WriteMsg, Count, NoFreeNumber, StartRotate, Checking, CloseFd, Rename, Reopen, RotateFails, Println, Goto
  <2>5. WriteMsg(w) => StepsLeft(w)' < StepsLeft(w)
    BY <2>4 DEF StepsLeft
  <2>6. at[w] \in {"idle", "check", "rotate", "rename", "reopen", "print"}
    BY <2>1
  <2>7. at'[w] \in {at[w], "idle"} => StepsLeft(w)' <= StepsLeft(w)
    BY <2>6 DEF StepsLeft
  <2>8. ~Begin(w) => WriteMsg(w) \/ at'[w] \in {at[w], "idle"}
    BY <1>2, <2>2, <2>3 DEF Next
  <2> QED BY <2>4, <2>5, <2>6, <2>7, <2>8 DEF StepsLeft
<1>3. FileInv /\ [Next]_vars => [\A w \in Writers :
                                   /\ WriteMsg(w) => StepsLeft(w)' < StepsLeft(w)
                                   /\ ~Begin(w) => StepsLeft(w)' <= StepsLeft(w)]_vars
  BY <1>2
<1> QED BY <1>1, <1>3, FileInvariant, PTL DEF Spec, WritesGoOn
=============================================================================
