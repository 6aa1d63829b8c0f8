-------------------------- MODULE FileRotatorProofs --------------------------
(***************************************************************************)
(* The safety properties of FileRotator for every set of configurations,   *)
(* every length of data and any number of crashes and failures.            *)
(*                                                                         *)
(* Two of them, OnlyOldestLost and RotationPurges, are true only while     *)
(* restarts keep maxBackups: a Rotator with fewer backups than the one     *)
(* before removes a file between others first, and purgeOldSizedBackups    *)
(* ends at a gap.  They are proved for configurations that agree on it.    *)
(***************************************************************************)
EXTENDS FileRotator, TLAPS

\* A file holds some of the records written so far.
FilesOf(n) == [records : SUBSET (1 .. n), bytes : Nat]

Places ==
  {"idle", "openNew", "appendToFile", "shift", "rename", "purge", "openFile", "write"}

Typed ==
  /\ written \in Nat
  /\ disk \in [Names -> FilesOf(written) \cup {NoFile}]
  /\ conf \in Configs
  /\ opened \in BOOLEAN
  /\ size \in Nat
  /\ pc \in Places
  /\ i \in Int
  /\ dataLen \in Nat
  /\ truncated \subseteq Nat
  /\ faults \in Nat

\* What the call under way has made sure of when it comes to a system call.
Reached ==
  /\ pc \in {"shift", "rename"} => i \in 1 .. conf.maxBackups + 1
  /\ pc = "rename" => disk[i] = NoFile
  /\ pc = "purge" => i \in conf.maxBackups .. MaxBackupsLimit - 1
  /\ pc \in {"openNew", "appendToFile", "openFile", "write"} => dataLen > 0
  /\ pc = "appendToFile" => ~ conf.rotateOnStartup
  /\ pc # "idle" => dataLen <= conf.maxSizeBytes
  /\ pc \notin {"idle", "write"} => ~ opened
  /\ pc = "write" =>
       opened /\ (conf.rotateOnStartup => size + dataLen <= conf.maxSizeBytes)
  /\ ~ opened => size = 0

IInv == Typed /\ Reached /\ SizeWithinLimit /\ BackupsInOrder

\* Restarts do not change maxBackups.
SameMaxBackups == \A c, d \in Configs : c.maxBackups = d.maxBackups

\* Where records may be then, in the middle of a rotation too.
Rotated ==
  /\ \A n \in Names : n > conf.maxBackups + 1 => disk[n] = NoFile
  /\ pc = "shift" /\ i <= conf.maxBackups => disk[i] = NoFile
  /\ pc = "purge" => disk[0] = NoFile
  /\ pc = "purge" /\ i > conf.maxBackups => disk[conf.maxBackups + 1] = NoFile
  /\ pc = "openFile" => disk[0].records \subseteq truncated

LossInv == SameMaxBackups /\ IInv /\ Rotated /\ OnlyOldestLost

-----------------------------------------------------------------------------
(* Types, sizes and the order of the backups, for any restarts *)

\* What Typed and the assumption on Configs say of the configuration.
LEMMA ConfIs ==
  ASSUME Typed
  PROVE  /\ conf.maxSizeBytes \in Nat \ {0}
         /\ conf.maxBackups \in 0 .. MaxBackupsLimit
         /\ conf.rotateOnStartup \in BOOLEAN
         /\ MaxBackupsLimit \in Nat \ {0}
  BY RotatorAssumption DEF Typed

\* Where a rotation goes when it has purged.
LEMMA AfterRotateGoes ==
  ASSUME AfterRotate
  PROVE  \/ pc' = "idle" /\ i' = 0 /\ dataLen' = 0
         \/ pc' = "openFile" /\ i' = 0 /\ dataLen' = dataLen /\ dataLen # 0
  BY DEF AfterRotate, Return, Goto

\* Where a turn of the loop of purgeOldSizedBackups goes.
LEMMA PurgeFromGoes ==
  ASSUME NEW n \in Int, PurgeFrom(n)
  PROVE  \/ pc' = "purge" /\ i' = n /\ dataLen' = dataLen /\ n < MaxBackupsLimit
         \/ n >= MaxBackupsLimit /\ pc' = "idle" /\ i' = 0 /\ dataLen' = 0
         \/ n >= MaxBackupsLimit /\ pc' = "openFile" /\ i' = 0 /\ dataLen' = dataLen /\ dataLen # 0
<1>1. MaxBackupsLimit \in Int
  BY RotatorAssumption
<1>2. CASE n < MaxBackupsLimit
  BY <1>2 DEF PurgeFrom, Goto
<1>3. CASE ~ (n < MaxBackupsLimit)
  BY <1>1, <1>3, AfterRotateGoes DEF PurgeFrom
<1> QED
  BY <1>2, <1>3

\* Where a turn of the loop of rotateBySize goes.
LEMMA ShiftFromGoes ==
  ASSUME Typed, NEW n \in Int, ShiftFrom(n)
  PROVE  \/ pc' = "shift" /\ i' = n /\ dataLen' = dataLen /\ n > 0
         \/ n <= 0 /\ pc' = "purge" /\ i' = conf.maxBackups /\ dataLen' = dataLen
              /\ conf.maxBackups < MaxBackupsLimit
         \/ n <= 0 /\ conf.maxBackups >= MaxBackupsLimit
              /\ pc' = "idle" /\ i' = 0 /\ dataLen' = 0
         \/ n <= 0 /\ conf.maxBackups >= MaxBackupsLimit
              /\ pc' = "openFile" /\ i' = 0 /\ dataLen' = dataLen /\ dataLen # 0
<1>1. CASE n > 0
  BY <1>1 DEF ShiftFrom, Goto
<1>2. CASE ~ (n > 0)
  <2>1. PurgeFrom(conf.maxBackups) /\ conf.maxBackups \in Int
    BY <1>2, ConfIs DEF ShiftFrom
  <2> QED
    BY <1>2, <2>1, PurgeFromGoes
<1> QED
  BY <1>1, <1>2

\* The files that a step has changed, if their records are in place.
LEMMA OrderKept ==
  ASSUME BackupsInOrder, disk' \in [Names -> FilesOf(written') \cup {NoFile}],
         \A n \in Names : disk'[n].records \subseteq disk[n].records
  PROVE  BackupsInOrder'
  BY DEF BackupsInOrder

\* A place that holds no file holds no records.
LEMMA NoRecords == NoFile.records = {} /\ Empty.records = {} /\ Empty.bytes = 0
  BY DEF NoFile, Empty

\* Steps that leave the disk alone keep its type and the order.
LEMMA DiskKept ==
  ASSUME IInv, UNCHANGED <<disk, written>>
  PROVE  BackupsInOrder' /\ disk' \in [Names -> FilesOf(written') \cup {NoFile}]
  BY DEF IInv, Typed, BackupsInOrder

\* Write, Rotate and Close.
LEMMA CallsInv ==
  ASSUME IInv, (\E n \in DataLens : Write(n)) \/ Rotate \/ Close
  PROVE  IInv'
<1> USE DEF IInv, Places
<1>1. /\ conf.maxBackups \in Nat /\ conf.maxSizeBytes \in Nat
      /\ Typed /\ Reached /\ SizeWithinLimit
  BY ConfIs
<1>2. UNCHANGED <<disk, written, conf, truncated, faults>>
  BY DEF Write, Rotate, Close
<1>3. BackupsInOrder' /\ disk' \in [Names -> FilesOf(written') \cup {NoFile}]
  BY <1>2, DiskKept
<1>4. ASSUME NEW n \in DataLens, Write(n) PROVE IInv'
  <2>1. n \in Nat /\ n > 0 /\ n <= conf.maxSizeBytes /\ pc = "idle" /\ dataLen' = n
    BY <1>4, RotatorAssumption DEF Write
  <2>2. CASE ~ opened
    <3>1. pc' = "openNew" /\ i' = 0 /\ opened' = opened /\ size' = size
      BY <1>4, <2>2 DEF Write
    <3> QED
      BY <1>1, <1>2, <1>3, <2>1, <2>2, <3>1 DEF Typed, Reached, SizeWithinLimit
  <2>3. CASE opened /\ ~ Fits(n)
    <3>1. pc' = "shift" /\ i' = conf.maxBackups + 1 /\ opened' = FALSE /\ size' = 0
      BY <1>4, <2>3 DEF Write, closeFile
    <3>2. conf.maxBackups + 1 \in 1 .. conf.maxBackups + 1
      BY <1>1
    <3>3. Typed'
      <4>1. opened' \in BOOLEAN
        BY <3>1
      <4>2. i' \in Int
        BY <1>1, <3>1
      <4> QED
        BY <1>1, <1>2, <1>3, <2>1, <3>1, <4>1, <4>2 DEF Typed
    <3>4. Reached' /\ SizeWithinLimit'
      BY <1>2, <2>1, <3>1, <3>2 DEF Reached, SizeWithinLimit
    <3> QED
      BY <1>3, <3>3, <3>4
  <2>4. CASE opened /\ Fits(n)
    <3>1. pc' = "write" /\ i' = 0 /\ opened' = opened /\ size' = size
      BY <1>4, <2>4 DEF Write
    <3> QED
      BY <1>1, <1>2, <1>3, <2>1, <2>4, <3>1 DEF Typed, Reached, SizeWithinLimit, Fits
  <2> QED
    BY <2>2, <2>3, <2>4
<1>5. CASE Rotate
  <2>1. /\ pc' = "shift" /\ i' = conf.maxBackups + 1 /\ dataLen' = 0
        /\ opened' = FALSE /\ size' = 0
    BY <1>5 DEF Rotate, closeFile
  <2>2. conf.maxBackups + 1 \in 1 .. conf.maxBackups + 1 /\ 0 <= conf.maxSizeBytes
    BY <1>1
  <2>3. Typed'
    <3>1. opened' \in BOOLEAN
      BY <2>1
    <3>2. i' \in Int
      BY <1>1, <2>1
    <3> QED
      BY <1>1, <1>2, <1>3, <2>1, <3>1, <3>2 DEF Typed
  <2>4. Reached' /\ SizeWithinLimit'
    BY <1>2, <2>1, <2>2 DEF Reached, SizeWithinLimit
  <2> QED
    BY <1>3, <2>3, <2>4
<1>6. CASE Close
  BY <1>1, <1>2, <1>3, <1>6 DEF Close, closeFile, call, Typed, Reached, SizeWithinLimit
<1> QED
  BY <1>4, <1>5, <1>6

\* openNew and appendToFile, which find out what to do with the file.
LEMMA OpensInv ==
  ASSUME IInv, openNew \/ appendToFile
  PROVE  IInv'
<1> USE DEF IInv, Places
<1>1. /\ conf.maxBackups \in Nat /\ conf.maxSizeBytes \in Nat
      /\ Typed /\ Reached /\ SizeWithinLimit
  BY ConfIs
<1>2. UNCHANGED <<disk, written, conf, size, truncated, faults>>
  BY DEF openNew, appendToFile
<1>3. BackupsInOrder' /\ disk' \in [Names -> FilesOf(written') \cup {NoFile}]
  BY <1>2, DiskKept
<1>4. CASE openNew
  BY <1>1, <1>2, <1>3, <1>4 DEF openNew, Goto, Typed, Reached, SizeWithinLimit
<1>5. CASE appendToFile
  BY <1>1, <1>2, <1>3, <1>5 DEF appendToFile, Goto, Typed, Reached, SizeWithinLimit
<1> QED
  BY <1>4, <1>5

\* The steps of a rotation.
LEMMA RotationInv ==
  ASSUME IInv, shift \/ rename \/ purge
  PROVE  IInv'
<1> USE DEF IInv, Places
<1>1. /\ conf.maxBackups \in 0 .. MaxBackupsLimit /\ conf.maxSizeBytes \in Nat
      /\ MaxBackupsLimit \in Nat
      /\ Typed /\ Reached /\ SizeWithinLimit /\ BackupsInOrder
  BY ConfIs
<1>2. UNCHANGED <<conf, opened, size, written, truncated, faults>> /\ ~ opened
  BY DEF shift, rename, purge, Reached
<1>3. SizeWithinLimit'
  BY <1>2 DEF SizeWithinLimit
<1>4. ASSUME disk' \in [Names -> FilesOf(written) \cup {NoFile}], BackupsInOrder',
             \/ /\ pc' = "shift" /\ i' \in 1 .. conf.maxBackups + 1 /\ dataLen' = dataLen
             \/ /\ pc' = "rename" /\ i' \in 1 .. conf.maxBackups + 1 /\ dataLen' = dataLen
                /\ disk'[i'] = NoFile
             \/ /\ pc' = "purge" /\ i' \in conf.maxBackups .. MaxBackupsLimit - 1
                /\ dataLen' = dataLen
             \/ pc' = "idle" /\ i' = 0 /\ dataLen' = 0
             \/ pc' = "openFile" /\ i' = 0 /\ dataLen' = dataLen /\ dataLen # 0,
             pc # "idle"
      PROVE  IInv'
  <2>1. Typed'
    BY <1>1, <1>2, <1>4 DEF Typed
  <2>2. Reached'
    BY <1>1, <1>2, <1>4 DEF Reached, Typed
  <2> QED
    BY <1>3, <1>4, <2>1, <2>2
<1>5. CASE shift
  <2>1. pc = "shift" /\ i \in 1 .. conf.maxBackups + 1 /\ i \in Names
    BY <1>1, <1>5 DEF shift, Reached, Names
  <2>2. CASE Exists(i - 1)
    <3>1. disk' = [disk EXCEPT ![i] = NoFile] /\ pc' = "rename" /\ i' = i /\ dataLen' = dataLen
      BY <1>5, <2>2 DEF shift, Goto
    <3>2. disk' \in [Names -> FilesOf(written) \cup {NoFile}] /\ disk'[i] = NoFile
      BY <1>1, <2>1, <3>1 DEF Typed
    <3>3. \A n \in Names : disk'[n].records \subseteq disk[n].records
      BY <1>1, <2>1, <3>1, NoRecords DEF Typed
    <3>4. BackupsInOrder'
      BY <1>1, <1>2, <3>2, <3>3, OrderKept
    <3> QED
      BY <1>4, <2>1, <3>1, <3>2, <3>4
  <2>3. CASE ~ Exists(i - 1)
    <3>1. ShiftFrom(i - 1) /\ disk' = disk
      BY <1>5, <2>3 DEF shift
    <3>2. disk' \in [Names -> FilesOf(written) \cup {NoFile}] /\ BackupsInOrder'
      BY <1>2, <3>1, DiskKept
    <3> QED
      BY <1>1, <1>4, <2>1, <3>1, <3>2, ShiftFromGoes
  <2> QED
    BY <2>2, <2>3
<1>6. CASE rename
  <2>1. /\ pc = "rename" /\ i \in 1 .. conf.maxBackups + 1 /\ i \in Names /\ i - 1 \in Names
        /\ disk[i] = NoFile /\ ShiftFrom(i - 1)
        /\ disk' = [disk EXCEPT ![i] = disk[i - 1], ![i - 1] = NoFile]
    BY <1>1, <1>6 DEF rename, Reached, Names
  <2>2. /\ disk' \in [Names -> FilesOf(written) \cup {NoFile}]
        /\ \A n \in Names : disk'[n] = IF n = i THEN disk[i - 1]
                                       ELSE IF n = i - 1 THEN NoFile ELSE disk[n]
    BY <1>1, <2>1 DEF Typed
  <2>3. BackupsInOrder'
    <3> SUFFICES ASSUME NEW m \in Names, NEW n \in Names, m < n,
                        NEW a \in disk'[m].records, NEW b \in disk'[n].records
                 PROVE  a > b
      BY DEF BackupsInOrder
    <3>1. m # i - 1 /\ n # i - 1
      BY <2>1, <2>2, NoRecords
    <3> DEFINE from(k) == IF k = i THEN i - 1 ELSE k
    <3>2. a \in disk[from(m)].records /\ b \in disk[from(n)].records
      BY <2>2, <3>1
    <3>3. from(m) < from(n) /\ from(m) \in Names /\ from(n) \in Names
      BY <2>1, <3>1 DEF Names
    <3> QED
      BY <1>1, <3>2, <3>3 DEF BackupsInOrder
  <2> QED
    BY <1>1, <1>4, <2>1, <2>2, <2>3, ShiftFromGoes
<1>7. CASE purge
  <2>1. pc = "purge" /\ i \in conf.maxBackups .. MaxBackupsLimit - 1 /\ i + 1 \in Names
    BY <1>1, <1>7 DEF purge, Reached, Names
  <2>2. CASE Exists(i + 1)
    <3>1. disk' = [disk EXCEPT ![i + 1] = NoFile] /\ PurgeFrom(i + 1)
      BY <1>7, <2>2 DEF purge
    <3>2. disk' \in [Names -> FilesOf(written) \cup {NoFile}]
      BY <1>1, <2>1, <3>1 DEF Typed
    <3>3. \A n \in Names : disk'[n].records \subseteq disk[n].records
      BY <1>1, <2>1, <3>1, NoRecords DEF Typed
    <3>4. BackupsInOrder'
      BY <1>1, <1>2, <3>2, <3>3, OrderKept
    <3> QED
      BY <1>1, <1>4, <2>1, <3>1, <3>2, <3>4, PurgeFromGoes
  <2>3. CASE ~ Exists(i + 1)
    <3>1. AfterRotate /\ disk' = disk
      BY <1>7, <2>3 DEF purge
    <3>2. disk' \in [Names -> FilesOf(written) \cup {NoFile}] /\ BackupsInOrder'
      BY <1>2, <3>1, DiskKept
    <3> QED
      BY <1>4, <2>1, <3>1, <3>2, AfterRotateGoes
  <2> QED
    BY <2>2, <2>3
<1> QED
  BY <1>5, <1>6, <1>7

\* openFile and the system call write, which change the file itself.
LEMMA FileInv ==
  ASSUME IInv, openFile \/ write \/ \E n \in 1 .. dataLen - 1 : WriteFault(n)
  PROVE  IInv'
<1> USE DEF IInv, Places
<1>1. /\ conf.maxBackups \in Nat /\ conf.maxSizeBytes \in Nat /\ 0 \in Names
      /\ Typed /\ Reached /\ SizeWithinLimit /\ BackupsInOrder
  BY ConfIs DEF Names
<1>2. disk[0].bytes \in Int /\ disk[0].bytes >= -1 /\ disk[0].records \subseteq 1 .. written
  <2>1. disk[0] \in FilesOf(written) \cup {NoFile}
    BY <1>1 DEF Typed
  <2>2. NoFile.bytes = -1 /\ NoFile.records = {}
    BY DEF NoFile
  <2> QED
    BY <2>1, <2>2 DEF FilesOf
<1>3. CASE openFile
  <2>1. /\ disk' = [disk EXCEPT ![0] = Empty] /\ opened' = TRUE
        /\ pc = "openFile" /\ pc' = "write" /\ i' = 0 /\ dataLen' = dataLen
        /\ UNCHANGED <<conf, size, written, truncated, faults>>
    BY <1>3 DEF openFile, Goto
  <2>2. Empty \in FilesOf(written)
    BY DEF Empty, FilesOf
  <2>3. disk' \in [Names -> FilesOf(written) \cup {NoFile}] /\ disk'[0] = Empty
    BY <1>1, <2>1, <2>2 DEF Typed
  <2>4. \A n \in Names : disk'[n].records \subseteq disk[n].records
    BY <1>1, <2>1, NoRecords DEF Typed
  <2>5. BackupsInOrder'
    BY <1>1, <2>1, <2>3, <2>4, OrderKept
  <2> QED
    BY <1>1, <2>1, <2>3, <2>5, NoRecords DEF Typed, Reached, SizeWithinLimit
<1>4. CASE write
  <2> DEFINE file == [records |-> disk[0].records \cup {written + 1},
                      bytes |-> disk[0].bytes + dataLen]
  <2>1. /\ disk' = [disk EXCEPT ![0] = file]
        /\ pc = "write" /\ size' = size + dataLen /\ written' = written + 1
        /\ pc' = "idle" /\ i' = 0 /\ dataLen' = 0
        /\ UNCHANGED <<conf, opened, truncated, faults>>
    BY <1>1, <1>4 DEF write, Return, Typed
  <2>2. dataLen \in Nat /\ dataLen > 0 /\ written \in Nat /\ size \in Nat
    BY <1>1, <2>1 DEF Reached, Typed
  <2>3. file \in FilesOf(written + 1) /\ file.bytes = disk[0].bytes + dataLen
        /\ file.records = disk[0].records \cup {written + 1}
    BY <1>2, <2>2 DEF FilesOf
  <2> HIDE DEF file
  <2>4. FilesOf(written) \subseteq FilesOf(written + 1)
    BY <2>2 DEF FilesOf
  <2>5. disk' \in [Names -> FilesOf(written') \cup {NoFile}]
        /\ \A n \in Names : disk'[n] = IF n = 0 THEN file ELSE disk[n]
    BY <1>1, <2>1, <2>3, <2>4 DEF Typed
  <2>6. BackupsInOrder'
    <3> SUFFICES ASSUME NEW m \in Names, NEW n \in Names, m < n,
                        NEW a \in disk'[m].records, NEW b \in disk'[n].records
                 PROVE  a > b
      BY DEF BackupsInOrder
    <3>1. n # 0 /\ b \in disk[n].records
      BY <2>5 DEF Names
    <3>2. b \in 1 .. written
      <4>1. disk[n] \in FilesOf(written) \cup {NoFile}
        BY <1>1 DEF Typed
      <4> QED
        BY <3>1, <4>1, NoRecords DEF FilesOf
    <3>3. CASE a = written + 1
      BY <2>2, <3>2, <3>3
    <3>4. CASE a # written + 1
      <4>1. a \in disk[m].records
        BY <2>3, <2>5, <3>4
      <4> QED
        BY <1>1, <3>1, <4>1 DEF BackupsInOrder
    <3> QED
      BY <3>3, <3>4
  <2>7. SizeWithinLimit'
    BY <1>1, <2>1, <2>3, <2>5 DEF Reached, SizeWithinLimit
  <2>8. Typed' /\ Reached'
    BY <1>1, <2>1, <2>2, <2>5 DEF Typed, Reached
  <2> QED
    BY <2>6, <2>7, <2>8
<1>5. ASSUME NEW n \in 1 .. dataLen - 1, WriteFault(n) PROVE IInv'
  <2> DEFINE file == [disk[0] EXCEPT !.bytes = @ + n]
  <2>1. /\ disk' = [disk EXCEPT ![0].bytes = @ + n]
        /\ pc = "write" /\ size' = size + n /\ faults' = faults + 1
        /\ pc' = "idle" /\ i' = 0 /\ dataLen' = 0
        /\ UNCHANGED <<conf, opened, written, truncated>>
    BY <1>5 DEF WriteFault, Return
  <2>2. n \in Nat /\ n > 0 /\ dataLen \in Nat /\ n < dataLen /\ size \in Nat /\ faults \in Nat
    BY <1>1 DEF Typed
  <2>3. /\ file \in FilesOf(written) /\ file.bytes = disk[0].bytes + n
        /\ file.records = disk[0].records
    <3>1. disk[0] = [records |-> disk[0].records, bytes |-> disk[0].bytes]
      <4>1. disk[0] \in FilesOf(written) \cup {NoFile}
        BY <1>1 DEF Typed
      <4> QED
        BY <4>1 DEF FilesOf, NoFile
    <3>2. file = [records |-> disk[0].records, bytes |-> disk[0].bytes + n]
      BY <3>1
    <3> HIDE DEF file
    <3> QED
      BY <1>2, <2>2, <3>2 DEF FilesOf
  <2>4. disk' = [disk EXCEPT ![0] = file]
    BY <1>1, <2>1 DEF Typed
  <2> HIDE DEF file
  <2>5. disk' \in [Names -> FilesOf(written) \cup {NoFile}]
        /\ \A m \in Names : disk'[m] = IF m = 0 THEN file ELSE disk[m]
    BY <1>1, <2>3, <2>4 DEF Typed
  <2>6. BackupsInOrder'
    BY <1>1, <2>1, <2>3, <2>5, OrderKept
  <2>7. SizeWithinLimit'
    BY <1>1, <2>1, <2>2, <2>3, <2>5 DEF Reached, SizeWithinLimit
  <2>8. Typed' /\ Reached'
    BY <1>1, <2>1, <2>2, <2>5 DEF Typed, Reached
  <2> QED
    BY <2>6, <2>7, <2>8
<1> QED
  BY <1>3, <1>4, <1>5

\* Failed system calls and crashes, and steps that change nothing.
LEMMA FaultsInv ==
  ASSUME IInv, Fault \/ StatFault \/ Crash \/ UNCHANGED vars
  PROVE  IInv'
<1> USE DEF IInv, Places
<1>1. /\ conf.maxBackups \in Nat /\ conf.maxSizeBytes \in Nat /\ 0 \in Names
      /\ Typed /\ Reached /\ SizeWithinLimit /\ BackupsInOrder
  BY ConfIs DEF Names
<1>2. UNCHANGED <<disk, written>>
  BY DEF Fault, StatFault, Crash, vars
<1>3. BackupsInOrder' /\ disk' \in [Names -> FilesOf(written') \cup {NoFile}]
  BY <1>2, DiskKept
<1>4. CASE Fault
  BY <1>1, <1>2, <1>3, <1>4 DEF Fault, Return, Typed, Reached, SizeWithinLimit
<1>5. CASE StatFault
  <2>1. disk[0].records \subseteq Nat
    <3>1. disk[0] \in FilesOf(written) \cup {NoFile}
      BY <1>1 DEF Typed
    <3> QED
      BY <1>1, <3>1, NoRecords DEF FilesOf, Typed
  <2> QED
    <3>1. /\ pc = "openNew" /\ pc' = "openFile" /\ i' = 0 /\ dataLen' = dataLen
          /\ faults' = faults + 1 /\ truncated' = truncated \cup disk[0].records
          /\ UNCHANGED <<disk, conf, opened, size, written>>
      BY <1>5 DEF StatFault, Goto
    <3>2. Typed'
      <4>1. truncated' \subseteq Nat
        BY <1>1, <2>1, <3>1 DEF Typed
      <4>2. faults \in Nat
        BY <1>1 DEF Typed
      <4>3. faults' \in Nat
        BY <3>1, <4>2
      <4> QED
        BY <1>1, <1>3, <3>1, <4>1, <4>3 DEF Typed
    <3>3. Reached' /\ SizeWithinLimit'
      BY <1>1, <3>1 DEF Reached, SizeWithinLimit
    <3> QED
      BY <1>3, <3>2, <3>3
<1>6. CASE Crash
  <2>1. /\ conf' \in Configs /\ opened' = FALSE /\ size' = 0
        /\ pc' = "idle" /\ i' = 0 /\ dataLen' = 0
        /\ faults' = faults + 1 /\ UNCHANGED <<disk, written, truncated>>
    BY <1>6 DEF Crash, Return
  <2>2. Typed'
    <3>1. opened' \in BOOLEAN
      BY <2>1
    <3> QED
      BY <1>1, <1>3, <2>1, <3>1 DEF Typed
  <2>3. Reached' /\ SizeWithinLimit'
    BY <2>1 DEF Reached, SizeWithinLimit
  <2> QED
    BY <1>3, <2>2, <2>3
<1>7. CASE UNCHANGED vars
  BY <1>1, <1>3, <1>7 DEF vars, Typed, Reached, SizeWithinLimit
<1> QED
  BY <1>4, <1>5, <1>6, <1>7

\* The invariant holds at first ...
LEMMA InvariantInit == Init => IInv
<1> SUFFICES ASSUME Init PROVE IInv
  OBVIOUS
<1>1. \A n \in Names : disk[n] = NoFile /\ disk[n].records = {}
  BY NoRecords DEF Init
<1>2. disk \in [Names -> FilesOf(written) \cup {NoFile}]
  BY DEF Init
<1>3. BackupsInOrder
  BY <1>1 DEF BackupsInOrder
<1>4. Typed
  <2>1. opened \in BOOLEAN
    BY DEF Init
  <2> QED
    BY <1>2, <2>1 DEF Init, Typed, Places
<1>5. Reached /\ SizeWithinLimit
  BY DEF Init, Reached, SizeWithinLimit
<1> QED
  BY <1>3, <1>4, <1>5 DEF IInv

\* ... and every step keeps it.
LEMMA InvariantStep == IInv /\ [Next]_vars => IInv'
  BY CallsInv, OpensInv, RotationInv, FileInv, FaultsInv DEF Next, Step

\* The invariant of the rotator under any crashes, failures and restarts with
\* any configuration.
THEOREM Invariant == Spec => []IInv
  BY InvariantInit, InvariantStep, PTL DEF Spec

\* r.size is the length of an open file that was not appended to, and within
\* the limit, also after partial writes and failed rotations.
THEOREM SizeKept == Spec => []SizeWithinLimit
<1>1. IInv => SizeWithinLimit
  BY DEF IInv
<1> QED
  BY <1>1, Invariant, PTL

\* A backup with a higher number is older, whenever the process is killed and
\* whatever it is started with again.
THEOREM Ordered == Spec => []BackupsInOrder
<1>1. IInv => BackupsInOrder
  BY DEF IInv
<1> QED
  BY <1>1, Invariant, PTL

-----------------------------------------------------------------------------
(* What is lost, while restarts keep maxBackups *)

\* The record b is on disk d.
Kept(b, d) == \E n \in Names : b \in d[n].records

\* OnlyOldestLost, of a record and a younger one.
LEMMA LossIs ==
  OnlyOldestLost <=>
    \A n \in Names : \A a \in disk[n].records : \A b \in a .. written :
      b \in truncated \/ Kept(b, disk)
  BY DEF OnlyOldestLost, Survivors, Kept

\* While no record leaves the disk, and none is written, nothing more is lost.
LEMMA NoLoss ==
  ASSUME OnlyOldestLost, written' = written, truncated \subseteq truncated',
         \A b : Kept(b, disk) <=> Kept(b, disk')
  PROVE  OnlyOldestLost'
<1>1. Survivors' = Survivors
  BY DEF Survivors, Kept
<1> QED
  BY <1>1 DEF OnlyOldestLost

\* Nor when the records of one place go that were all older than the others, or
\* given up.
LEMMA OldestLost ==
  ASSUME Typed, OnlyOldestLost, NEW p \in Names, written' = written, truncated' = truncated,
         \A n \in Names : disk'[n].records = IF n = p THEN {} ELSE disk[n].records,
         \/ \A n \in Names \ {p} : \A a \in disk[n].records, b \in disk[p].records : a > b
         \/ disk[p].records \subseteq truncated
  PROVE  OnlyOldestLost'
<1> SUFFICES ASSUME NEW n \in Names, NEW a \in disk'[n].records, NEW b \in a .. written,
                    b \notin truncated
             PROVE  \E m \in Names : b \in disk'[m].records
  BY DEF OnlyOldestLost, Survivors
<1>1. n # p /\ a \in disk[n].records
  OBVIOUS
<1>2. a \in Int /\ b \in Int /\ a <= b
  <2>1. disk[n] \in FilesOf(written) \cup {NoFile} /\ written \in Int
    BY DEF Typed
  <2> QED
    BY <1>1, <2>1, NoRecords DEF FilesOf
<1>3. PICK m \in Names : b \in disk[m].records
  BY <1>1, LossIs DEF Kept
<1>4. m # p
  <2>1. ASSUME m = p, a > b PROVE FALSE
    BY <1>2, <2>1
  <2> QED
    BY <1>1, <1>3, <2>1
<1> QED
  BY <1>3, <1>4

\* The steps of a rotation remove the oldest records only.
LEMMA RotationLoss ==
  ASSUME LossInv, shift \/ rename \/ purge
  PROVE  Rotated' /\ OnlyOldestLost'
<1>1. /\ Typed /\ Reached /\ BackupsInOrder /\ Rotated /\ OnlyOldestLost
      /\ conf.maxBackups \in 0 .. MaxBackupsLimit /\ MaxBackupsLimit \in Nat /\ 0 \in Names
  BY ConfIs DEF LossInv, IInv, Names
<1>2. UNCHANGED <<conf, opened, size, written, truncated, faults>>
  BY DEF shift, rename, purge
<1> DEFINE B == conf.maxBackups
\* The last backup, if it is removed, is the oldest.
<1>3. ASSUME disk' = [disk EXCEPT ![B + 1] = NoFile]
      PROVE  OnlyOldestLost'
  <2>1. B + 1 \in Names
    BY <1>1 DEF Names
  <2>2. \A n \in Names : disk'[n].records = IF n = B + 1 THEN {} ELSE disk[n].records
    BY <1>1, <1>3, <2>1, NoRecords DEF Typed
  <2>3. ASSUME NEW n \in Names \ {B + 1}, NEW a \in disk[n].records,
               NEW b \in disk[B + 1].records
        PROVE  a > b
    <3>1. ~ (n > B + 1)
      BY <1>1, NoRecords DEF Rotated
    <3>2. n < B + 1
      BY <1>1, <3>1 DEF Names
    <3> QED
      BY <1>1, <2>1, <3>2 DEF BackupsInOrder
  <2> QED
    BY <1>1, <1>2, <2>1, <2>2, <2>3, OldestLost
<1>4. ASSUME disk' = disk PROVE OnlyOldestLost'
  BY <1>1, <1>2, <1>4, NoLoss
<1>5. CASE shift
  <2>1. pc = "shift" /\ i \in 1 .. B + 1 /\ i \in Names
    BY <1>1, <1>5 DEF shift, Reached, Names
  <2>2. CASE Exists(i - 1)
    <3>1. disk' = [disk EXCEPT ![i] = NoFile] /\ pc' = "rename" /\ i' = i
      BY <1>5, <2>2 DEF shift, Goto
    <3>2. CASE i = B + 1
      <4>1. OnlyOldestLost'
        BY <1>3, <3>1, <3>2
      <4>2. Rotated'
        BY <1>1, <1>2, <2>1, <3>1 DEF Rotated, Typed
      <4> QED
        BY <4>1, <4>2
    <3>3. CASE i # B + 1
      <4>1. disk[i] = NoFile
        BY <1>1, <2>1, <3>3 DEF Rotated
      <4>2. disk' = disk
        BY <1>1, <2>1, <3>1, <4>1 DEF Typed
      <4>3. Rotated'
        BY <1>1, <1>2, <3>1, <4>2 DEF Rotated
      <4> QED
        BY <1>4, <4>2, <4>3
    <3> QED
      BY <3>2, <3>3
  <2>3. CASE ~ Exists(i - 1)
    <3>1. ShiftFrom(i - 1) /\ disk' = disk /\ disk[i - 1] = NoFile
      BY <1>5, <2>3 DEF shift, Exists
    <3>2. Rotated'
      <4>1. i - 1 <= 0 => disk'[0] = NoFile
        BY <2>1, <3>1
      <4> QED
        BY <1>1, <1>2, <2>1, <3>1, <4>1, ShiftFromGoes, NoRecords DEF Rotated
    <3> QED
      BY <1>4, <3>1, <3>2
  <2> QED
    BY <2>2, <2>3
<1>6. CASE rename
  <2>1. /\ pc = "rename" /\ i \in 1 .. B + 1 /\ i \in Names /\ i - 1 \in Names
        /\ disk[i] = NoFile /\ ShiftFrom(i - 1)
        /\ disk' = [disk EXCEPT ![i] = disk[i - 1], ![i - 1] = NoFile]
    BY <1>1, <1>6 DEF rename, Reached, Names
  <2>2. \A n \in Names : disk'[n] = IF n = i THEN disk[i - 1]
                                    ELSE IF n = i - 1 THEN NoFile ELSE disk[n]
    BY <1>1, <2>1 DEF Typed
  <2>3. OnlyOldestLost'
    <3>1. \A b : Kept(b, disk) => Kept(b, disk')
      <4> SUFFICES ASSUME NEW b, NEW n \in Names, b \in disk[n].records
                   PROVE  Kept(b, disk')
        BY DEF Kept
      <4>1. n # i
        BY <2>1, NoRecords
      <4>2. CASE n = i - 1
        BY <2>1, <2>2, <4>2 DEF Kept
      <4>3. CASE n # i - 1
        BY <2>2, <4>1, <4>3 DEF Kept
      <4> QED
        BY <4>2, <4>3
    <3>2. \A b : Kept(b, disk') => Kept(b, disk)
      <4> SUFFICES ASSUME NEW b, NEW n \in Names, b \in disk'[n].records
                   PROVE  Kept(b, disk)
        BY DEF Kept
      <4> QED
        BY <2>1, <2>2, NoRecords DEF Kept
    <3> QED
      BY <1>1, <1>2, <3>1, <3>2, NoLoss
  <2>4. Rotated'
    <3>1. ASSUME NEW n \in Names, n > B + 1 PROVE disk'[n] = NoFile
      <4>1. n # i /\ n # i - 1
        BY <1>1, <2>1, <3>1 DEF Names
      <4> QED
        BY <1>1, <2>2, <3>1, <4>1 DEF Rotated
    <3>2. disk'[i - 1] = NoFile
      BY <2>1, <2>2
    <3>3. i - 1 <= 0 => disk'[0] = NoFile
      <4>1. i - 1 <= 0 => i - 1 = 0
        BY <1>1, <2>1
      <4> QED
        BY <3>2, <4>1
    <3>4. \/ pc' = "shift" /\ i' = i - 1
          \/ pc' \in {"purge", "idle", "openFile"} /\ i - 1 <= 0
             /\ (pc' = "purge" => i' = B)
      <4>1. i - 1 \in Int
        BY <1>1 DEF Typed
      <4> QED
        BY <1>1, <2>1, <4>1, ShiftFromGoes
    <3> QED
      BY <1>1, <1>2, <3>1, <3>2, <3>3, <3>4, NoRecords DEF Rotated
  <2> QED
    BY <2>3, <2>4
<1>7. CASE purge
  <2>1. pc = "purge" /\ i \in B .. MaxBackupsLimit - 1 /\ i + 1 \in Names /\ disk[0] = NoFile
    BY <1>1, <1>7 DEF purge, Reached, Rotated, Names
  <2>2. CASE Exists(i + 1)
    <3>1. disk' = [disk EXCEPT ![i + 1] = NoFile] /\ PurgeFrom(i + 1)
      BY <1>7, <2>2 DEF purge
    <3>2. i = B
      BY <1>1, <2>1, <2>2 DEF Rotated, Exists
    <3>3. /\ \A n \in Names : n > B + 1 => disk'[n] = NoFile
          /\ disk'[0] = NoFile /\ disk'[B + 1] = NoFile
      BY <1>1, <2>1, <3>1, <3>2 DEF Rotated, Typed
    <3>4. Rotated'
      BY <1>1, <1>2, <2>1, <3>1, <3>3, PurgeFromGoes, NoRecords DEF Rotated
    <3> QED
      BY <1>3, <3>1, <3>2, <3>4
  <2>3. CASE ~ Exists(i + 1)
    <3>1. AfterRotate /\ disk' = disk
      BY <1>7, <2>3 DEF purge
    <3>2. Rotated'
      BY <1>1, <1>2, <2>1, <3>1, AfterRotateGoes, NoRecords DEF Rotated
    <3> QED
      BY <1>4, <3>1, <3>2
  <2> QED
    BY <2>2, <2>3
<1> QED
  BY <1>5, <1>6, <1>7

\* The other steps lose nothing but what StatFault gives up.
LEMMA OtherLoss ==
  ASSUME LossInv, [Next]_vars, ~ (shift \/ rename \/ purge)
  PROVE  Rotated' /\ OnlyOldestLost'
<1>1. /\ Typed /\ Reached /\ BackupsInOrder /\ Rotated /\ OnlyOldestLost /\ SameMaxBackups
      /\ conf.maxBackups \in 0 .. MaxBackupsLimit /\ 0 \in Names /\ conf \in Configs
  BY ConfIs DEF LossInv, IInv, Names, Typed
<1>2. ASSUME disk' = disk, written' = written, truncated \subseteq truncated'
      PROVE  OnlyOldestLost'
  BY <1>1, <1>2, NoLoss
<1>3. CASE (\E n \in DataLens : Write(n)) \/ Rotate \/ Close \/ appendToFile \/ Fault \/ UNCHANGED vars
  <2>1. /\ UNCHANGED <<disk, written, truncated, conf>>
        /\ \/ pc' = pc /\ i' = i
           \/ pc' = "shift" /\ i' = conf.maxBackups + 1
           \/ pc' \in {"idle", "openNew", "write"}
    BY <1>3 DEF Write, Rotate, Close, appendToFile, Fault, vars, Return, Goto, call
  <2>2. Rotated'
    BY <1>1, <2>1 DEF Rotated
  <2> QED
    BY <1>2, <2>1, <2>2
<1>4. CASE openNew
  <2>1. /\ UNCHANGED <<disk, written, truncated, conf>>
        /\ \/ pc' = "openFile" /\ disk[0] = NoFile
           \/ pc' = "shift" /\ i' = conf.maxBackups + 1
           \/ pc' = "appendToFile"
    BY <1>4 DEF openNew, Goto, Exists
  <2>2. Rotated'
    BY <1>1, <2>1, NoRecords DEF Rotated
  <2> QED
    BY <1>2, <2>1, <2>2
<1>5. CASE openFile
  <2>1. /\ disk' = [disk EXCEPT ![0] = Empty] /\ pc = "openFile" /\ pc' = "write"
        /\ UNCHANGED <<conf, written, truncated>>
    BY <1>5 DEF openFile, Goto
  <2>2. \A n \in Names : disk'[n] = IF n = 0 THEN Empty ELSE disk[n]
    BY <1>1, <2>1 DEF Typed
  <2>3. \A n \in Names : disk'[n].records = IF n = 0 THEN {} ELSE disk[n].records
    BY <2>2, NoRecords
  <2>4. disk[0].records \subseteq truncated
    BY <1>1, <2>1 DEF Rotated
  <2>5. OnlyOldestLost'
    BY <1>1, <2>1, <2>3, <2>4, OldestLost
  <2>6. Rotated'
    BY <1>1, <2>1, <2>2 DEF Rotated
  <2> QED
    BY <2>5, <2>6
<1>6. CASE write
  <2>1. /\ disk' = [disk EXCEPT ![0] = [records |-> @.records \cup {written + 1},
                                        bytes |-> @.bytes + dataLen]]
        /\ written' = written + 1 /\ pc' = "idle" /\ UNCHANGED <<conf, truncated>>
    BY <1>6 DEF write, Return
  <2>2. /\ \A n \in Names \ {0} : disk'[n] = disk[n]
        /\ disk'[0].records = disk[0].records \cup {written + 1}
    BY <1>1, <2>1 DEF Typed
  <2>3. Survivors' = Survivors \cup {written + 1}
    BY <1>1, <2>2 DEF Survivors
  <2>4. OnlyOldestLost'
    <3> SUFFICES ASSUME NEW a \in Survivors', NEW b \in a .. written + 1
                 PROVE  b \in Survivors' \cup truncated
      BY <2>1 DEF OnlyOldestLost
    <3>1. written \in Int /\ b \in Int
      BY <1>1 DEF Typed
    <3>2. CASE b = written + 1
      BY <2>3, <3>2
    <3>3. CASE b # written + 1
      <4>1. b <= written
        BY <3>1, <3>3
      <4>2. a # written + 1
        BY <3>1, <4>1
      <4>3. a \in Survivors
        BY <2>3, <4>2
      <4>4. a \in Int
        <5>1. PICK n \in Names : a \in disk[n].records
          BY <4>3 DEF Survivors
        <5>2. disk[n] \in FilesOf(written) \cup {NoFile}
          BY <1>1 DEF Typed
        <5> QED
          BY <5>1, <5>2, NoRecords DEF FilesOf
      <4>5. b \in a .. written
        BY <3>1, <4>1, <4>4
      <4> QED
        BY <1>1, <2>3, <4>3, <4>5 DEF OnlyOldestLost
    <3> QED
      BY <3>2, <3>3
  <2>5. Rotated'
    BY <1>1, <2>1, <2>2 DEF Rotated, Names
  <2> QED
    BY <2>4, <2>5
<1>7. CASE StatFault
  <2>1. /\ UNCHANGED <<disk, written, conf>> /\ pc' = "openFile"
        /\ truncated' = truncated \cup disk[0].records
    BY <1>7 DEF StatFault, Goto
  <2>2. Rotated'
    BY <1>1, <2>1 DEF Rotated
  <2> QED
    BY <1>2, <2>1, <2>2
<1>8. ASSUME NEW n \in 1 .. dataLen - 1, WriteFault(n) PROVE Rotated' /\ OnlyOldestLost'
  <2>1. /\ disk' = [disk EXCEPT ![0].bytes = @ + n] /\ pc' = "idle"
        /\ UNCHANGED <<conf, written, truncated>>
    BY <1>8 DEF WriteFault, Return
  <2>2. disk'[0].records = disk[0].records /\ \A m \in Names \ {0} : disk'[m] = disk[m]
    <3>1. disk[0] \in FilesOf(written) \cup {NoFile}
      BY <1>1 DEF Typed
    <3>2. [disk[0] EXCEPT !.bytes = @ + n].records = disk[0].records
      BY <3>1 DEF FilesOf, NoFile
    <3>3. disk'[0] = [disk[0] EXCEPT !.bytes = @ + n]
      BY <1>1, <2>1 DEF Typed
    <3> QED
      BY <1>1, <2>1, <3>2, <3>3 DEF Typed
  <2>3. \A b : Kept(b, disk) <=> Kept(b, disk')
    BY <1>1, <2>2 DEF Kept
  <2>4. Rotated'
    BY <1>1, <2>1, <2>2 DEF Rotated, Names
  <2> QED
    BY <1>1, <2>1, <2>3, <2>4, NoLoss
<1>9. CASE Crash
  <2>1. /\ UNCHANGED <<disk, written, truncated>> /\ pc' = "idle" /\ conf' \in Configs
    BY <1>9 DEF Crash, Return
  <2>2. conf'.maxBackups = conf.maxBackups
    BY <1>1, <2>1 DEF SameMaxBackups
  <2>3. Rotated'
    BY <1>1, <2>1, <2>2 DEF Rotated
  <2> QED
    BY <1>2, <2>1, <2>3
<1> QED
  BY <1>3, <1>4, <1>5, <1>6, <1>7, <1>8, <1>9 DEF Next, Step

\* Where records may be, and that none goes before an older one.
LEMMA LossInvariant ==
  ASSUME SameMaxBackups
  PROVE  Spec => []LossInv
<1>1. Init => LossInv
  <2> SUFFICES ASSUME Init PROVE Rotated /\ OnlyOldestLost
    BY InvariantInit DEF LossInv
  <2>1. \A n \in Names : disk[n] = NoFile /\ disk[n].records = {}
    BY NoRecords DEF Init
  <2>2. Survivors = {}
    BY <2>1 DEF Survivors
  <2> QED
    BY <2>1, <2>2 DEF Init, Rotated, OnlyOldestLost
<1>2. LossInv /\ [Next]_vars => LossInv'
  BY InvariantStep, RotationLoss, OtherLoss DEF LossInv, SameMaxBackups
<1> QED
  BY <1>1, <1>2, PTL DEF Spec

\* While restarts keep maxBackups, no record is lost before an older one, but
\* those that openNew truncates when Stat fails: whatever fails, and whenever
\* the process is killed in rotateBySize, purgeOldSizedBackups or Write.
THEOREM OldestFirst ==
  ASSUME SameMaxBackups
  PROVE  Spec => []OnlyOldestLost
<1>1. LossInv => OnlyOldestLost
  BY DEF LossInv
<1> QED
  BY <1>1, LossInvariant, PTL

\* And every rotation that comes to its end leaves no backup above maxBackups,
\* as long as that is below the limit of purgeOldSizedBackups's loop.
THEOREM Purged ==
  ASSUME SameMaxBackups, \A c \in Configs : c.maxBackups < MaxBackupsLimit
  PROVE  Spec => RotationPurges
<1> DEFINE Ends == faults' = faults /\ pc \in {"shift", "rename", "purge"}
                     /\ pc' \in {"idle", "openFile"}
           Left == \A n \in Names : n > conf.maxBackups => disk'[n] = NoFile
<1>1. ASSUME LossInv, [Next]_vars, Ends PROVE Left
  <2>1. /\ Typed /\ Reached /\ Rotated
        /\ conf.maxBackups \in Nat /\ conf.maxBackups < MaxBackupsLimit /\ MaxBackupsLimit \in Nat
    <3>1. Typed /\ Reached /\ Rotated /\ conf \in Configs
      BY <1>1 DEF LossInv, IInv, Typed
    <3> QED
      BY <3>1, ConfIs
  <2>2. shift \/ rename \/ purge
    <3>1. faults' # faults + 1
      BY <1>1, <2>1 DEF Typed
    <3>2. ~ (Fault \/ StatFault \/ Crash \/ \E n \in 1 .. dataLen - 1 : WriteFault(n))
      BY <3>1 DEF Fault, StatFault, WriteFault, Crash
    <3>3. ~ ((\E n \in DataLens : Write(n)) \/ Rotate \/ Close \/ UNCHANGED vars)
      BY <1>1 DEF Write, Rotate, Close, vars
    <3>4. ~ (openNew \/ appendToFile \/ openFile \/ write)
      BY <1>1 DEF openNew, appendToFile, openFile, write
    <3> QED
      BY <1>1, <3>2, <3>3, <3>4 DEF Next, Step
  <2>3. ~ shift /\ ~ rename
    <3>1. ASSUME ShiftFrom(i - 1) PROVE pc' \in {"shift", "purge"}
      <4>1. i - 1 \in Int
        BY <2>1 DEF Typed
      <4> QED
        BY <2>1, <3>1, <4>1, ShiftFromGoes
    <3> QED
      BY <1>1, <3>1 DEF shift, rename, Goto
  <2>4. purge /\ pc = "purge" /\ i \in conf.maxBackups .. MaxBackupsLimit - 1
    BY <2>1, <2>2, <2>3 DEF purge, Reached
  <2>5. CASE Exists(i + 1)
    <3>1. disk' = [disk EXCEPT ![i + 1] = NoFile] /\ i + 1 \in Names
      BY <2>1, <2>4, <2>5 DEF purge, Names
    <3>2. i = conf.maxBackups
      BY <2>1, <2>4, <2>5, <3>1 DEF Rotated, Exists
    <3> QED
      BY <2>1, <3>1, <3>2 DEF Rotated, Typed, Names
  <2>6. CASE ~ Exists(i + 1)
    <3>1. disk' = disk /\ disk[i + 1] = NoFile
      BY <2>4, <2>6 DEF purge, Exists
    <3>2. disk[conf.maxBackups + 1] = NoFile
      BY <2>1, <2>4, <3>1 DEF Rotated
    <3> QED
      BY <2>1, <3>1, <3>2 DEF Rotated, Names
  <2> QED
    BY <2>5, <2>6
<1>2. LossInv /\ [Next]_vars => [Ends => Left]_vars
  BY <1>1
<1>3. Spec => [][Ends => Left]_vars
  BY <1>2, LossInvariant, PTL DEF Spec
<1> QED
  BY <1>3 DEF RotationPurges

-----------------------------------------------------------------------------
(* The log as its reader finds it, while restarts keep maxBackups *)

\* A segment is the records of some file.
LEMMA SegmentIs ==
  \A S : S \in Segments <=> S # {} /\ \E n \in Names : S = disk[n].records
  BY DEF Segments

\* The records of a file are newer than those of the files above it, and no two
\* files have a record in common.
LEMMA FilesOrdered ==
  ASSUME IInv, NEW m \in Names, NEW n \in Names, m < n
  PROVE  Readable!Before(disk[n].records, disk[m].records)
<1> SUFFICES ASSUME NEW b \in disk[n].records, NEW a \in disk[m].records PROVE b < a
  BY DEF Readable!Before
<1>1. a > b
  BY DEF IInv, BackupsInOrder
<1>2. a \in Int /\ b \in Int
  <2>1. disk[m] \in FilesOf(written) \cup {NoFile} /\ disk[n] \in FilesOf(written) \cup {NoFile}
        /\ written \in Int
    BY DEF IInv, Typed
  <2> QED
    BY <2>1, NoRecords DEF FilesOf
<1> QED
  BY <1>1, <1>2

LEMMA FilesApart ==
  ASSUME IInv, NEW m \in Names, NEW n \in Names, disk[m].records = disk[n].records
  PROVE  m = n \/ disk[m].records = {}
<1> SUFFICES ASSUME m # n, NEW a \in disk[m].records PROVE FALSE
  OBVIOUS
<1>1. a \in Int
  <2>1. disk[m] \in FilesOf(written) \cup {NoFile} /\ written \in Int
    BY DEF IInv, Typed
  <2> QED
    BY <2>1, NoRecords DEF FilesOf
<1>2. m \in Int /\ n \in Int
  BY DEF Names
<1>3. m < n \/ n < m
  BY <1>2
<1>4. a > a
  BY <1>3 DEF IInv, BackupsInOrder
<1> QED
  BY <1>1, <1>4

\* The active file is the newest segment, the last file the oldest.
LEMMA ActiveIsNewest ==
  ASSUME IInv, 0 \in Names
  PROVE  Readable!Newest(disk[0].records)
<1> SUFFICES ASSUME NEW T \in Segments \ {disk[0].records}
             PROVE  Readable!Before(T, disk[0].records)
  BY DEF Readable!Newest
<1>1. PICK n \in Names : T = disk[n].records
  BY SegmentIs
<1>2. 0 < n
  BY <1>1 DEF Names
<1> QED
  BY <1>1, <1>2, FilesOrdered

LEMMA LastIsOldest ==
  ASSUME IInv, NEW p \in Names, \A n \in Names : n > p => disk[n].records = {}
  PROVE  Readable!Oldest(disk[p].records)
<1> SUFFICES ASSUME NEW T \in Segments \ {disk[p].records}
             PROVE  Readable!Before(disk[p].records, T)
  BY DEF Readable!Oldest
<1>1. PICK n \in Names : T = disk[n].records /\ T # {}
  BY SegmentIs
<1>2. n < p
  BY <1>1 DEF Names
<1> QED
  BY <1>1, <1>2, FilesOrdered

\* As long as every file's records are those of some file, before and after, the
\* segments are the same.
LEMMA SegmentsKept ==
  ASSUME \A n \in Names : disk'[n].records = {} \/ \E m \in Names : disk'[n].records = disk[m].records,
         \A m \in Names : disk[m].records = {} \/ \E n \in Names : disk'[n].records = disk[m].records
  PROVE  Segments' = Segments
  BY DEF Segments

\* A file that goes takes its segment along.
LEMMA SegmentGone ==
  ASSUME IInv, NEW p \in Names,
         \A n \in Names : disk'[n].records = IF n = p THEN {} ELSE disk[n].records
  PROVE  Segments' = Segments \ {disk[p].records}
<1>1. \A S : S \in Segments' <=> S # {} /\ \E n \in Names \ {p} : S = disk[n].records
  BY DEF Segments
<1>2. \A n \in Names \ {p} : disk[n].records = disk[p].records => disk[n].records = {}
  BY FilesApart
<1> QED
  BY <1>1, <1>2, SegmentIs

\* If that was the last file, it is Drop; nothing happens if it had no records.
LEMMA LastGone ==
  ASSUME IInv, NEW p \in Names, UNCHANGED <<written, truncated>>,
         \A n \in Names : disk'[n].records = IF n = p THEN {} ELSE disk[n].records,
         \A n \in Names : n > p => disk[n].records = {}
  PROVE  Readable!Drop \/ UNCHANGED Readable!vars
<1>1. Segments' = Segments \ {disk[p].records}
  BY SegmentGone
<1>2. CASE disk[p].records = {}
  BY <1>1, <1>2, SegmentIs DEF Readable!vars
<1>3. CASE disk[p].records # {}
  <2>1. disk[p].records \in Segments
    BY <1>3, SegmentIs
  <2> QED
    BY <1>1, <2>1, LastIsOldest DEF Readable!Drop
<1> QED
  BY <1>2, <1>3

\* The turns of rotateBySize and purgeOldSizedBackups rename segments, or remove
\* the oldest.
LEMMA RotationRefines ==
  ASSUME LossInv, shift \/ rename \/ purge
  PROVE  Readable!Drop \/ UNCHANGED Readable!vars
<1> DEFINE B == conf.maxBackups
<1>1. /\ Typed /\ Reached /\ Rotated /\ IInv
      /\ B \in 0 .. MaxBackupsLimit /\ MaxBackupsLimit \in Nat /\ 0 \in Names
  BY ConfIs DEF LossInv, IInv, Names
<1>2. UNCHANGED <<written, truncated>>
  BY DEF shift, rename, purge
<1>3. ASSUME disk' = disk PROVE UNCHANGED Readable!vars
  BY <1>2, <1>3 DEF Readable!vars, Segments
<1>4. ASSUME disk' = [disk EXCEPT ![B + 1] = NoFile]
      PROVE  Readable!Drop \/ UNCHANGED Readable!vars
  <2>1. B + 1 \in Names
    BY <1>1 DEF Names
  <2>2. \A n \in Names : disk'[n].records = IF n = B + 1 THEN {} ELSE disk[n].records
    BY <1>1, <1>4, <2>1, NoRecords DEF Typed
  <2>3. \A n \in Names : n > B + 1 => disk[n].records = {}
    BY <1>1, NoRecords DEF Rotated
  <2> QED
    BY <1>1, <1>2, <2>1, <2>2, <2>3, LastGone
<1>5. CASE shift
  <2>1. pc = "shift" /\ i \in 1 .. B + 1 /\ i \in Names
    BY <1>1, <1>5 DEF shift, Reached, Names
  <2>2. CASE ~ Exists(i - 1)
    BY <1>3, <1>5, <2>2 DEF shift
  <2>3. CASE Exists(i - 1) /\ i = B + 1
    BY <1>4, <1>5, <2>3 DEF shift
  <2>4. CASE Exists(i - 1) /\ i # B + 1
    <3>1. disk[i] = NoFile /\ disk' = [disk EXCEPT ![i] = NoFile]
      BY <1>1, <1>5, <2>1, <2>4 DEF shift, Rotated
    <3>2. disk' = disk
      BY <1>1, <2>1, <3>1 DEF Typed
    <3> QED
      BY <1>3, <3>2
  <2> QED
    BY <2>2, <2>3, <2>4
<1>6. CASE rename
  <2>1. /\ i \in Names /\ i - 1 \in Names /\ i # i - 1 /\ disk[i].records = {}
        /\ disk' = [disk EXCEPT ![i] = disk[i - 1], ![i - 1] = NoFile]
    BY <1>1, <1>6, NoRecords DEF rename, Reached, Names
  <2>2. \A n \in Names : disk'[n] = IF n = i THEN disk[i - 1]
                                    ELSE IF n = i - 1 THEN NoFile ELSE disk[n]
    BY <1>1, <2>1 DEF Typed
  <2>3. \A n \in Names : disk'[n].records = {} \/ \E m \in Names : disk'[n].records = disk[m].records
    BY <2>1, <2>2, NoRecords
  <2>4. \A m \in Names : disk[m].records = {} \/ \E n \in Names : disk'[n].records = disk[m].records
    <3> SUFFICES ASSUME NEW m \in Names, disk[m].records # {}
                 PROVE  \E n \in Names : disk'[n].records = disk[m].records
      OBVIOUS
    <3>1. m # i
      BY <2>1
    <3>2. CASE m = i - 1
      <4>1. disk'[i].records = disk[m].records
        BY <2>1, <2>2, <3>2
      <4> QED
        BY <2>1, <4>1
    <3>3. CASE m # i - 1
      <4>1. disk'[m].records = disk[m].records
        BY <2>2, <3>1, <3>3
      <4> QED
        BY <4>1
    <3> QED
      BY <3>2, <3>3
  <2>5. Segments' = Segments
    BY <2>3, <2>4, SegmentsKept
  <2> QED
    BY <1>2, <2>5 DEF Readable!vars
<1>7. CASE purge
  <2>1. pc = "purge" /\ i \in B .. MaxBackupsLimit - 1 /\ i + 1 \in Names
    BY <1>1, <1>7 DEF purge, Reached, Names
  <2>2. CASE Exists(i + 1)
    <3>1. i = B
      BY <1>1, <2>1, <2>2 DEF Rotated, Exists
    <3> QED
      BY <1>4, <1>7, <2>2, <3>1 DEF purge
  <2>3. CASE ~ Exists(i + 1)
    BY <1>3, <1>7, <2>3 DEF purge
  <2> QED
    BY <2>2, <2>3
<1> QED
  BY <1>5, <1>6, <1>7

\* A record that is written is the end of the log.
LEMMA WriteRefines ==
  ASSUME IInv, 0 \in Names, write
  PROVE  Readable!Begin \/ Readable!Extend
<1> DEFINE S == disk[0].records
           w == written + 1
<1>1. /\ disk' = [disk EXCEPT ![0] = [records |-> S \cup {w}, bytes |-> @.bytes + dataLen]]
      /\ written' = w /\ truncated' = truncated
  BY DEF write
<1>2. disk'[0].records = S \cup {w} /\ \A n \in Names \ {0} : disk'[n] = disk[n]
  BY <1>1 DEF IInv, Typed
<1>3. \A T : T \in Segments' <=>
        T # {} /\ (T = S \cup {w} \/ \E n \in Names \ {0} : T = disk[n].records)
  BY <1>2 DEF Segments
<1>4. CASE S = {}
  <2>1. S \cup {w} = {w}
    BY <1>4
  <2> HIDE DEF S, w
  <2>2. \A T : T \in Segments <=> T # {} /\ \E n \in Names \ {0} : T = disk[n].records
    BY <1>4, SegmentIs DEF S
  <2>3. Segments' = Segments \cup {{w}}
    BY <1>3, <2>1, <2>2
  <2> QED
    BY <1>1, <2>3 DEF Readable!Begin, w
<1>5. CASE S # {}
  <2>1. S \in Segments /\ Readable!Newest(S)
    BY <1>5, SegmentIs, ActiveIsNewest
  <2>2. ASSUME NEW n \in Names \ {0} PROVE disk[n].records # S
    BY <1>5, FilesApart
  <2> HIDE DEF S, w
  <2>3. \A T : T \in Segments \ {S} <=> T # {} /\ \E n \in Names \ {0} : T = disk[n].records
    BY <2>2, SegmentIs DEF S
  <2>4. Segments' = (Segments \ {S}) \cup {S \cup {w}}
    <3>1. S \cup {w} # {}
      BY <1>5
    <3> QED
      BY <1>3, <2>3, <3>1
  <2> QED
    BY <1>1, <2>1, <2>4 DEF Readable!Extend, w
<1> QED
  BY <1>4, <1>5

\* openFile truncates nothing, or what StatFault gave up.
LEMMA OpenFileRefines ==
  ASSUME LossInv, 0 \in Names, openFile
  PROVE  Readable!Truncate \/ UNCHANGED Readable!vars
<1>1. /\ IInv /\ disk[0].records \subseteq truncated
      /\ disk' = [disk EXCEPT ![0] = Empty] /\ UNCHANGED <<written, truncated>>
  BY DEF LossInv, Rotated, openFile
<1>2. \A n \in Names : disk'[n].records = IF n = 0 THEN {} ELSE disk[n].records
  BY <1>1, NoRecords DEF IInv, Typed
<1>3. Segments' = Segments \ {disk[0].records}
  BY <1>1, <1>2, SegmentGone
<1>4. CASE disk[0].records = {}
  BY <1>1, <1>3, <1>4, SegmentIs DEF Readable!vars
<1>5. CASE disk[0].records # {}
  <2>1. disk[0].records \in Segments
    BY <1>5, SegmentIs
  <2> QED
    BY <1>1, <1>3, <2>1, ActiveIsNewest DEF Readable!Truncate
<1> QED
  BY <1>4, <1>5

\* Stat failing gives the active file up.
LEMMA StatFaultRefines ==
  ASSUME IInv, 0 \in Names, StatFault
  PROVE  Readable!GiveUp \/ UNCHANGED Readable!vars
<1>1. /\ UNCHANGED <<disk, written>> /\ truncated' = truncated \cup disk[0].records
  BY DEF StatFault
<1>2. Segments' = Segments
  BY <1>1 DEF Segments
<1>3. CASE disk[0].records = {}
  BY <1>1, <1>2, <1>3 DEF Readable!vars
<1>4. CASE disk[0].records # {}
  <2>1. disk[0].records \in Segments
    BY <1>4, SegmentIs
  <2> QED
    BY <1>1, <1>2, <2>1, ActiveIsNewest DEF Readable!GiveUp
<1> QED
  BY <1>3, <1>4

\* All other steps are not seen by a reader: a part of a record is none.
LEMMA OthersRefine ==
  ASSUME IInv, 0 \in Names, [Next]_vars,
         ~ (shift \/ rename \/ purge \/ write \/ openFile \/ StatFault)
  PROVE  UNCHANGED Readable!vars
<1>1. CASE UNCHANGED <<disk, written, truncated>>
  BY <1>1 DEF Readable!vars, Segments
<1>2. ASSUME NEW n \in 1 .. dataLen - 1, WriteFault(n) PROVE UNCHANGED Readable!vars
  <2>1. disk' = [disk EXCEPT ![0].bytes = @ + n] /\ UNCHANGED <<written, truncated>>
    BY <1>2 DEF WriteFault
  <2>2. [disk[0] EXCEPT !.bytes = @ + n].records = disk[0].records
    <3>1. disk[0] \in FilesOf(written) \cup {NoFile}
      BY DEF IInv, Typed
    <3> QED
      BY <3>1 DEF FilesOf, NoFile
  <2>3. disk'[0] = [disk[0] EXCEPT !.bytes = @ + n] /\ \A m \in Names \ {0} : disk'[m] = disk[m]
    BY <2>1 DEF IInv, Typed
  <2>4. \A m \in Names : disk'[m].records = disk[m].records
    BY <2>2, <2>3
  <2>5. Segments' = Segments
    BY <2>4, SegmentsKept
  <2> QED
    BY <2>1, <2>5 DEF Readable!vars
<1>3. (\E n \in 1 .. dataLen - 1 : WriteFault(n)) \/ UNCHANGED <<disk, written, truncated>>
  BY DEF Next, Step, Write, Rotate, Close, openNew, appendToFile, Fault, Crash, vars
<1> QED
  BY <1>1, <1>2, <1>3

\* While restarts keep maxBackups the rotator implements the log without any
\* machinery: through every rename of a rotation and whatever cuts it short, a
\* reader finds each record in one file, in order; records are added at the end
\* only, and files go whole, the oldest first.  LossInv says which file is the
\* last one and that openFile truncates only what was given up.
THEOREM LogImplemented ==
  ASSUME SameMaxBackups
  PROVE  Spec => ImplementsLog
<1>1. 0 \in Names
  BY RotatorAssumption DEF Names
<1>2. Init => Readable!Init
  <2> SUFFICES ASSUME Init PROVE Readable!Init
    OBVIOUS
  <2>1. \A n \in Names : disk[n].records = {}
    BY NoRecords DEF Init
  <2>2. Segments = {}
    BY <2>1 DEF Segments
  <2> QED
    BY <2>2 DEF Init, Readable!Init
<1>3. LossInv /\ [Next]_vars => [Readable!Next]_Readable!vars
  <2> SUFFICES ASSUME LossInv, [Next]_vars
               PROVE  Readable!Next \/ UNCHANGED Readable!vars
    OBVIOUS
  <2>1. IInv
    BY DEF LossInv
  <2> QED
    BY <1>1, <2>1, RotationRefines, WriteRefines, OpenFileRefines, StatFaultRefines, OthersRefine
       DEF Readable!Next
<1> QED
  BY <1>2, <1>3, LossInvariant, PTL DEF Spec, ImplementsLog, Readable!Spec

=============================================================================
