--------------------------- MODULE MCFileRotator ---------------------------
(* Small instances of FileRotator for TLC. *)
EXTENDS FileRotator

Config(max, backups, startup) ==
  [maxSizeBytes |-> max, maxBackups |-> backups, rotateOnStartup |-> startup]

\* Restarts with any size limit, always rotating away the file of before.
RotatingConfigs == {Config(2, 2, TRUE), Config(4, 2, TRUE)}

\* Restarts that may also append to the file of before.
AllConfigs == RotatingConfigs \cup {Config(2, 2, FALSE)}

AppendingConfigs == {Config(2, 2, FALSE)}
=============================================================================
