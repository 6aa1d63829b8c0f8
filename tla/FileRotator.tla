---------------------------- MODULE FileRotator ----------------------------
(***************************************************************************)
(* The size-based rotation of file/rotator.go: one Rotator, the files it   *)
(* leaves in its directory, and the process around it, which may be killed *)
(* between any two system calls and started again, possibly with another   *)
(* configuration.                                                          *)
(*                                                                         *)
(* r.mutex makes the calls of one Rotator exclusive, so there is at most   *)
(* one call under way; but its system calls are separate steps, each may   *)
(* fail, and a failure returns from the middle of the work.  A file is the *)
(* set of the records written to it and its length.                        *)
(***************************************************************************)
EXTENDS Integers

CONSTANTS
  MaxBackupsLimit,  \* the constant of rotator.go, 1024 there
  Configs,          \* configurations NewFileRotator may be given
  DataLens,         \* lengths of the data of a Write
  MaxWrites,        \* bound on the records written
  MaxFaults         \* bound on crashes and failed system calls

\* NewFileRotator refuses other configurations (rotator.go:142-147).
ASSUME RotatorAssumption ==
  /\ MaxBackupsLimit \in Nat \ {0}
  /\ Configs \subseteq [ maxSizeBytes : Nat \ {0}, maxBackups : 0 .. MaxBackupsLimit,
                         rotateOnStartup : BOOLEAN ]
  /\ DataLens \subseteq Nat \ {0}

VARIABLES
  disk,      \* disk[n]: the file backupName(n), or NoFile
  conf,      \* configuration of the running process
  opened,    \* r.file # nil
  size,      \* r.size
  pc,        \* where the call under way is
  i,         \* its loop variable
  dataLen,   \* length of the data it writes; 0 for Rotate
  written,   \* history: number of records written so far
  truncated, \* history: records given up when Stat failed
  faults     \* history: crashes and failures so far

vars == <<disk, conf, opened, size, pc, i, dataLen, written, truncated, faults>>
call == <<pc, i, dataLen>>

NoFile == [records |-> {}, bytes |-> -1]
Empty  == [records |-> {}, bytes |-> 0]

Exists(n) == disk[n] # NoFile

\* No name beyond the limit's successor is ever used.
Names == 0 .. MaxBackupsLimit + 1

\* A return from the call under way.
Return == pc' = "idle" /\ i' = 0 /\ dataLen' = 0

Goto(where, index) == pc' = where /\ i' = index /\ dataLen' = dataLen

\* After a rotation Rotate returns and Write goes on.
AfterRotate == IF dataLen = 0 THEN Return ELSE Goto("openFile", 0)

\* The turn n of the loop of purgeOldSizedBackups, or its end.
PurgeFrom(n) == IF n < MaxBackupsLimit THEN Goto("purge", n) ELSE AfterRotate

\* Seeded faults: a loop that does not get past a missing file, and a purge
\* that starts one too high.
ShiftFrom_Stuck(n) == Goto("shift", n + 1)

ShiftFrom_Spares(n) ==
  IF n > 0 THEN Goto("shift", n) ELSE PurgeFrom(conf.maxBackups + 1)

\* The turn n of the loop of rotateBySize, or its end.
ShiftFrom(n) == IF n > 0 THEN Goto("shift", n) ELSE PurgeFrom(conf.maxBackups)

Init ==
  /\ disk = [n \in Names |-> NoFile]
  /\ conf \in Configs
  /\ opened = FALSE
  /\ size = 0
  /\ pc = "idle" /\ i = 0 /\ dataLen = 0
  /\ written = 0
  /\ truncated = {}
  /\ faults = 0

\* closeFile; that Close itself fails is in Fault.
closeFile == opened' = FALSE /\ size' = 0

-----------------------------------------------------------------------------
(* The calls *)

\* Seeded fault: the data to come is not counted.
Fits_Late(n) == size <= conf.maxSizeBytes

\* Whether n more bytes go into the file.
Fits(n) == size + n <= conf.maxSizeBytes

\* Write, up to its first system call; longer data is refused.
Write(n) ==
  /\ pc = "idle" /\ written < MaxWrites
  /\ n <= conf.maxSizeBytes
  /\ dataLen' = n
  /\ IF ~ opened
     THEN pc' = "openNew" /\ i' = 0 /\ UNCHANGED <<opened, size>>
     ELSE IF ~ Fits(n)
     THEN pc' = "shift" /\ i' = conf.maxBackups + 1 /\ closeFile
     ELSE pc' = "write" /\ i' = 0 /\ UNCHANGED <<opened, size>>
  /\ UNCHANGED <<disk, conf, written, truncated, faults>>

\* Rotate, up to its first system call.
Rotate ==
  /\ pc = "idle"
  /\ closeFile
  /\ pc' = "shift" /\ i' = conf.maxBackups + 1 /\ dataLen' = 0
  /\ UNCHANGED <<disk, conf, written, truncated, faults>>

Close ==
  /\ pc = "idle" /\ opened
  /\ closeFile
  /\ UNCHANGED <<disk, conf, call, written, truncated, faults>>

\* Seeded fault: an existing file is neither appended to nor rotated away.
openNew_Truncates ==
  /\ pc = "openNew"
  /\ Goto("openFile", 0)
  /\ UNCHANGED <<disk, conf, opened, size, written, truncated, faults>>

\* openNew: an existing file is appended to or rotated away.
openNew ==
  /\ pc = "openNew"
  /\ IF ~ Exists(0)
     THEN Goto("openFile", 0)
     ELSE IF conf.rotateOnStartup
     THEN Goto("shift", conf.maxBackups + 1)
     ELSE Goto("appendToFile", 0)
  /\ UNCHANGED <<disk, conf, opened, size, written, truncated, faults>>

\* appendToFile; r.size stays as closeFile or NewFileRotator left it.
appendToFile ==
  /\ pc = "appendToFile"
  /\ opened' = TRUE
  /\ Goto("write", 0)
  /\ UNCHANGED <<disk, conf, size, written, truncated, faults>>

\* One turn of the loop of rotateBySize, up to Remove(older) ...
shift ==
  /\ pc = "shift"
  /\ IF Exists(i - 1)
     THEN Goto("rename", i) /\ disk' = [disk EXCEPT ![i] = NoFile]
     ELSE ShiftFrom(i - 1) /\ disk' = disk
  /\ UNCHANGED <<conf, opened, size, written, truncated, faults>>

\* Seeded fault: the file is copied.
rename_Copies ==
  /\ pc = "rename"
  /\ disk' = [disk EXCEPT ![i] = disk[i - 1]]
  /\ ShiftFrom(i - 1)
  /\ UNCHANGED <<conf, opened, size, written, truncated, faults>>

\* ... and Rename(old, older).
rename ==
  /\ pc = "rename"
  /\ disk' = [disk EXCEPT ![i] = disk[i - 1], ![i - 1] = NoFile]
  /\ ShiftFrom(i - 1)
  /\ UNCHANGED <<conf, opened, size, written, truncated, faults>>

\* One turn of the loop of purgeOldSizedBackups, which ends at a gap.
purge ==
  /\ pc = "purge"
  /\ IF Exists(i + 1)
     THEN PurgeFrom(i + 1) /\ disk' = [disk EXCEPT ![i + 1] = NoFile]
     ELSE AfterRotate /\ disk' = disk
  /\ UNCHANGED <<conf, opened, size, written, truncated, faults>>

\* openFile creates the file, or truncates it.
openFile ==
  /\ pc = "openFile"
  /\ disk' = [disk EXCEPT ![0] = Empty]
  /\ opened' = TRUE
  /\ Goto("write", 0)
  /\ UNCHANGED <<conf, size, written, truncated, faults>>

\* r.file.Write.
write ==
  /\ pc = "write"
  /\ disk' = [disk EXCEPT ![0] = [records |-> @.records \cup {written + 1},
                                  bytes   |-> @.bytes + dataLen]]
  /\ size' = size + dataLen
  /\ written' = written + 1
  /\ Return
  /\ UNCHANGED <<conf, opened, truncated, faults>>

\* A call of the rotator takes its next step.
Step ==
  \/ openNew \/ appendToFile \/ shift \/ rename \/ purge \/ openFile \/ write

-----------------------------------------------------------------------------
(* What goes wrong *)

\* The system call that the call under way has come to fails, and the call
\* returns its error.
Fault ==
  /\ pc # "idle" /\ faults < MaxFaults
  /\ faults' = faults + 1
  /\ Return
  /\ UNCHANGED <<disk, conf, opened, size, written, truncated>>

\* A failing Write may have written a part of the data.
WriteFault(n) ==
  /\ pc = "write" /\ faults < MaxFaults
  /\ faults' = faults + 1
  /\ disk' = [disk EXCEPT ![0].bytes = @ + n]
  /\ size' = size + n
  /\ Return
  /\ UNCHANGED <<conf, opened, written, truncated>>

\* openNew takes any error of Stat for a file that does not exist.
StatFault ==
  /\ pc = "openNew" /\ faults < MaxFaults
  /\ faults' = faults + 1
  /\ truncated' = truncated \cup disk[0].records
  /\ Goto("openFile", 0)
  /\ UNCHANGED <<disk, conf, opened, size, written>>

\* The process dies and is started again.
Crash ==
  /\ faults < MaxFaults
  /\ faults' = faults + 1
  /\ conf' \in Configs
  /\ opened' = FALSE
  /\ size' = 0
  /\ Return
  /\ UNCHANGED <<disk, written, truncated>>

Next ==
  \/ \E n \in DataLens : Write(n)
  \/ Rotate
  \/ Close
  \/ Step
  \/ Fault
  \/ StatFault
  \/ \E n \in 1 .. dataLen - 1 : WriteFault(n)
  \/ Crash

Spec == Init /\ [][Next]_vars

\* A call under way goes on: after r.mutex, which the call holds, nothing in
\* Write, Rotate or Close waits for another call.
FairSpec == Spec /\ WF_vars(Step)

-----------------------------------------------------------------------------
(* Properties *)

Files == {n \in Names : Exists(n)}

Survivors == UNION {disk[n].records : n \in Names}

\* A backup with a higher number is older, in the middle of a rotation and
\* after one that a crash or an error cut short.
BackupsInOrder ==
  \A m, n \in Names : \A a \in disk[m].records, b \in disk[n].records :
    m < n => a > b

\* What is lost is always the oldest: no record goes before an older one,
\* except those that openNew truncates when Stat fails.
OnlyOldestLost ==
  \A a \in Survivors : a .. written \subseteq Survivors \cup truncated

\* r.size is the length of the file, and no more than the maximum, also
\* after partial writes; a file that was appended to is another matter.
SizeWithinLimit ==
  opened /\ conf.rotateOnStartup => size = disk[0].bytes /\ size <= conf.maxSizeBytes

\* Whatever crashes and errors have left on the disk, a Write that nothing
\* disturbs gets its record written.
RetrySucceeds ==
  \A w \in 0 .. MaxWrites :
    (dataLen > 0 /\ faults = MaxFaults /\ written = w) ~> (written = w + 1)

\* A rotation that comes to its end leaves no backup above maxBackups: "oldest
\* files will be purged" when there are that many (rotator.go:44-45).
RotationPurges ==
  [][faults' = faults /\ pc \in {"shift", "rename", "purge"} /\ pc' \in {"idle", "openFile"}
       => \A n \in Names : n > conf.maxBackups => disk'[n] = NoFile]_vars

\* The log as its reader finds it: the files that have records.
Segments == {disk[n].records : n \in Names} \ {{}}

Readable == INSTANCE RotatedLog WITH
  segments <- Segments,
  last     <- written,
  given    <- truncated

\* Seen from outside no step of a rotation, no crash and no error does anything
\* to the log but what RotatedLog allows: nothing is split, joined, repeated or
\* brought back while files are renamed, a record goes to the end of the log,
\* and only the oldest file goes.
ImplementsLog == Readable!Spec

\* maxSizeBytes is "the maximum number of bytes that a file should contain
\* before being rotated" (rotator.go:70-71), and a write rotates first "to
\* avoid going over the max size" (rotator.go:171-173).
FileWithinMaxSize == opened => disk[0].bytes <= conf.maxSizeBytes

=============================================================================
