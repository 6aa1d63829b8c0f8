--------------------------- MODULE IntervalRotator ---------------------------
(***************************************************************************)
(* The rotation by interval of file/rotator.go and interval.rotator.go: a  *)
(* backup is named after an interval and numbered within it, and the       *)
(* oldest names are purged.  The process may be killed between any two     *)
(* system calls that change the directory, any of them may fail, and the   *)
(* next process may be given another configuration.                        *)
(*                                                                         *)
(* Days are counted from 1.  Of the intervals of initialize two are kept,  *)
(* a calendar day and a calendar month: what tells them apart is that the  *)
(* prefix of the one begins with the prefix of the other.  Data is of      *)
(* length 1, and the files of no other program match the rotator's.        *)
(***************************************************************************)
EXTENDS Integers, FiniteSets

CONSTANTS
  Rotations,    \* configurations NewFileRotator may be given: the interval,
                \* maxBackups and rotateOnStartup
  DaysPerMonth,
  MaxSize,      \* r.maxSizeBytes
  MaxDay,       \* bound on the clock
  MaxRecords,   \* bound on the records written
  MaxFailures   \* bound on crashes and failed system calls

VARIABLES
  now,        \* r.clock.Now()
  active,     \* the set of the files named filename: one, or none
  backups,    \* the set of the backups
  rotation,   \* configuration of the running process
  lastRotate, \* r.intervalRotator.lastRotate; 0 is the zero time
  open,       \* r.file # nil
  length,     \* r.size
  at,         \* where the call under way is
  writing,    \* whether it is a Write
  count,      \* history: number of records written so far
  dropped,    \* history: records given up when Stat failed
  changed,    \* history: a restart has changed the interval
  failures    \* history: crashes and failures so far

intervalVars == <<now, active, backups, rotation, lastRotate, open, length, at,
                  writing, count, dropped, changed, failures>>
settings     == <<now, rotation, changed>>

Init ==
  /\ now = 1
  /\ active = {} /\ backups = {}
  /\ rotation \in Rotations
  /\ lastRotate = 0
  /\ open = FALSE /\ length = 0
  /\ at = "idle" /\ writing = FALSE
  /\ count = 0 /\ dropped = {} /\ changed = FALSE /\ failures = 0

-----------------------------------------------------------------------------
(* Names *)

\* newDay and newMonth compare these, and LogPrefix formats them: the month,
\* and the day of the month unless whole months are told apart.
Period(day) ==
  [month |-> ((day - 1) \div DaysPerMonth) + 1,
   day   |-> IF rotation.interval = "day" THEN ((day - 1) % DaysPerMonth) + 1 ELSE 0]

\* The zero time is in no interval of the present.
NewInterval == lastRotate = 0 \/ Period(lastRotate) # Period(now)

\* The interval of the active file's next name.
LogPrefix(file) == Period(IF lastRotate = 0 THEN file.modTime ELSE lastRotate)

\* OrderIntervalLogs: names in the order of their text, the padded number
\* last.  What follows the month is a day of two digits or a number of
\* twenty, which is the lesser one, hence the day 0 of Period.
Before(a, b) ==
  \/ a.month < b.month
  \/ a.month = b.month /\ a.day < b.day
  \/ a.month = b.month /\ a.day = b.day /\ a.index < b.index

\* Glob(logPrefix + "*"): the prefix of a month takes in all of its days.
Glob(p) == {b \in backups : b.month = p.month /\ p.day \in {0, b.day}}

\* Seeded fault: backups are numbered by how many there are.
NextIndex_Count(p) == Cardinality(Glob(p)) + 1

\* One more than the number of the last name.
NextIndex(p) ==
  IF Glob(p) = {} THEN 1
  ELSE 1 + (CHOOSE b \in Glob(p) : \A a \in Glob(p) \ {b} : Before(a, b)).index

-----------------------------------------------------------------------------
(* The calls; r.mutex allows one at a time *)

Go(where) == at' = where /\ UNCHANGED writing

Done == at' = "idle" /\ writing' = FALSE

AfterPurge == IF writing THEN Go("openFile") ELSE Done

\* closeFile; that Close itself fails is in SystemFault.
CloseFile == open' = FALSE /\ length' = 0

\* Write, up to its first system call.
WriteRecord ==
  /\ at = "idle" /\ count < MaxRecords
  /\ writing' = TRUE
  /\ IF ~ open
     THEN at' = "openNew" /\ UNCHANGED <<open, length>>
     ELSE IF NewInterval \/ length + 1 > MaxSize
     THEN at' = "rotate" /\ CloseFile
     ELSE at' = "write" /\ UNCHANGED <<open, length>>
  /\ UNCHANGED <<settings, active, backups, lastRotate, count, dropped, failures>>

\* Rotate, up to its first system call.
RotateNow ==
  /\ at = "idle"
  /\ CloseFile
  /\ at' = "rotate" /\ UNCHANGED writing
  /\ UNCHANGED <<settings, active, backups, lastRotate, count, dropped, failures>>

CloseRotator ==
  /\ at = "idle" /\ open
  /\ CloseFile
  /\ UNCHANGED <<settings, active, backups, lastRotate, at, writing, count, dropped, failures>>

\* openNew: an existing file is rotated away or appended to.
OpenNew ==
  /\ at = "openNew"
  /\ IF active = {} THEN Go("openFile") /\ UNCHANGED open
     ELSE IF rotation.rotateOnStartup THEN Go("rotate") /\ UNCHANGED open
     ELSE Go("write") /\ open' = TRUE
  /\ UNCHANGED <<settings, active, backups, lastRotate, length, count, dropped, failures>>

\* rotateByInterval: a file that is not there is not rotated.  Rename would
\* overwrite a backup of the new name.
RotateByInterval ==
  /\ at = "rotate"
  /\ IF active = {}
     THEN UNCHANGED <<active, backups, lastRotate>>
     ELSE \E file \in active :
            LET p    == LogPrefix(file)
                new  == [month |-> p.month, day |-> p.day, index |-> NextIndex(p),
                         records |-> file.records]
            IN  /\ backups' = {b \in backups : Before(b, new) \/ Before(new, b)} \cup {new}
                /\ active' = {}
                /\ lastRotate' = now
  /\ Go("purge")
  /\ UNCHANGED <<settings, open, length, count, dropped, failures>>

\* One turn of the loop of purgeOldIntervalBackups, or its end: of the
\* backups that are too many the last one goes first.  A loop cut short
\* is made up for by the next.
Purge ==
  /\ at = "purge"
  /\ \/ /\ Cardinality(backups) <= rotation.maxBackups
        /\ AfterPurge /\ UNCHANGED backups
     \/ \E b \in backups :
          /\ Cardinality({a \in backups : Before(b, a)}) = rotation.maxBackups
          /\ backups' = backups \ {b}
          /\ Go("purge")
  /\ UNCHANGED <<settings, active, lastRotate, open, length, count, dropped, failures>>

\* openFile creates the file, or truncates it.
OpenFile ==
  /\ at = "openFile"
  /\ active' = {[records |-> {}, modTime |-> now]}
  /\ open' = TRUE
  /\ Go("write")
  /\ UNCHANGED <<settings, backups, lastRotate, length, count, dropped, failures>>

\* r.file.Write.
WriteData ==
  /\ at = "write"
  /\ active' = {[records |-> f.records \cup {count + 1}, modTime |-> now] : f \in active}
  /\ length' = length + 1
  /\ count' = count + 1
  /\ Done
  /\ UNCHANGED <<settings, backups, lastRotate, open, dropped, failures>>

-----------------------------------------------------------------------------
(* What happens around the calls *)

\* Time passes, also during a call.
Tick ==
  /\ now < MaxDay
  /\ now' = now + 1
  /\ UNCHANGED <<active, backups, rotation, lastRotate, open, length, at, writing,
                 count, dropped, changed, failures>>

\* The system call that the call under way has come to fails, and the call
\* returns its error.
SystemFault ==
  /\ at # "idle" /\ failures < MaxFailures
  /\ failures' = failures + 1
  /\ Done
  /\ UNCHANGED <<settings, active, backups, lastRotate, open, length, count, dropped>>

\* openNew takes any error of Stat for a file that does not exist.
StatFails ==
  /\ at = "openNew" /\ failures < MaxFailures
  /\ failures' = failures + 1
  /\ dropped' = dropped \cup UNION {f.records : f \in active}
  /\ Go("openFile")
  /\ UNCHANGED <<settings, active, backups, lastRotate, open, length, count>>

\* The process dies, and another one starts without a lastRotate.
Restart ==
  /\ failures < MaxFailures
  /\ failures' = failures + 1
  /\ rotation' \in Rotations
  /\ changed' = (changed \/ rotation'.interval # rotation.interval)
  /\ lastRotate' = 0
  /\ open' = FALSE /\ length' = 0
  /\ Done
  /\ UNCHANGED <<now, active, backups, count, dropped>>

Next ==
  \/ WriteRecord
  \/ RotateNow
  \/ CloseRotator
  \/ OpenNew
  \/ RotateByInterval
  \/ Purge
  \/ OpenFile
  \/ WriteData
  \/ Tick
  \/ SystemFault
  \/ StatFails
  \/ Restart

Spec == Init /\ [][Next]_intervalVars

-----------------------------------------------------------------------------
(* Properties *)

Written == UNION {f.records : f \in active \cup backups}

\* A record is only lost to younger backups, as many as are to be kept:
\* neither a name that is used again, nor the order in which names sort, nor
\* a purge cut short or a restart loses any other, as long as the interval
\* stays the same.  (What openNew truncates when Stat fails is lost, too.)
NewestKept ==
  [][~ changed' =>
       \A a \in Written \ (Written' \cup dropped) :
         rotation.maxBackups
           <= Cardinality({b \in backups' : \A r \in b.records : r > a})]_intervalVars
=============================================================================
