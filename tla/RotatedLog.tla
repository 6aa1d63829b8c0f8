----------------------------- MODULE RotatedLog -----------------------------
(***************************************************************************)
(* What the size-based rotation of file/rotator.go promises to whoever     *)
(* reads the log, without its machinery: the records that can be read, cut *)
(* into segments.  There are no names, no renames, no configuration, no    *)
(* call under way and no crash; FileRotator implements this module         *)
(* although it has all of them.                                            *)
(*                                                                         *)
(* Records are numbered as they are written, so that a segment, the set of *)
(* its records, is its content in order.                                   *)
(***************************************************************************)
EXTENDS Naturals

VARIABLES
  segments,  \* the segments that have records
  last,      \* the number of the last record that was written
  given      \* the records that were given up

vars == <<segments, last, given>>

Before(S, T) == \A a \in S, b \in T : a < b

Newest(S) == \A T \in segments \ {S} : Before(T, S)
Oldest(S) == \A T \in segments \ {S} : Before(S, T)

Init == segments = {} /\ last = 0 /\ given = {}

\* A record is written to a segment of its own.
Begin ==
  /\ segments' = segments \cup {{last + 1}}
  /\ last' = last + 1
  /\ UNCHANGED given

\* A record is written to the newest segment.
Extend ==
  /\ \E S \in segments :
       /\ Newest(S)
       /\ segments' = (segments \ {S}) \cup {S \cup {last + 1}}
  /\ last' = last + 1
  /\ UNCHANGED given

\* The oldest segment goes, and as a whole.
Drop ==
  /\ \E S \in segments : Oldest(S) /\ segments' = segments \ {S}
  /\ UNCHANGED <<last, given>>

\* The newest segment is taken for missing ...
GiveUp ==
  /\ \E S \in segments : Newest(S) /\ given' = given \cup S
  /\ UNCHANGED <<segments, last>>

\* ... and may be lost for that.
Truncate ==
  /\ \E S \in segments : Newest(S) /\ S \subseteq given /\ segments' = segments \ {S}
  /\ UNCHANGED <<last, given>>

Next ==
  \/ Begin
  \/ Extend
  \/ Drop
  \/ GiveUp
  \/ Truncate

Spec == Init /\ [][Next]_vars

=============================================================================
