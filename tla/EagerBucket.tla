---------------------------- MODULE EagerBucket ----------------------------
(***************************************************************************)
(* What the token bucket of flowcontrol/tokenbucket promises its callers,  *)
(* without its machinery: a level that is raised by Quantum at every tick  *)
(* (eagerly, never above Capacity), that a caller may overdraw, and a due  *)
(* tick before which an overdrawing caller is not let through.  There is   *)
(* no clock between two ticks, no latestTick, no lazy refill and no stale  *)
(* clock reading; TokenBucket implements this module although it has all   *)
(* of them.                                                                *)
(***************************************************************************)
EXTENDS Integers

CONSTANTS
  Callers,   \* goroutines that share the bucket
  Counts,    \* token counts a caller may ask for
  Capacity,  \* level of a full bucket
  Quantum    \* tokens added at each tick

VARIABLES
  tick,      \* ticks since the bucket was created
  level,     \* tokens that could be taken now; negative when overdrawn
  due        \* due[c]: the tick at which c is let through, or NotWaiting

vars == <<tick, level, due>>

NotWaiting == -1

Init ==
  /\ tick = 0
  /\ level = Capacity
  /\ due = [c \in Callers |-> NotWaiting]

\* A tick of the refill clock.
Fill ==
  /\ tick' = tick + 1
  /\ level' = IF level + Quantum > Capacity THEN Capacity ELSE level + Quantum
  /\ due' = due

\* Tokens that are there are taken at once.
Grant(n) ==
  /\ n > 0 /\ n <= level
  /\ level' = level - n
  /\ UNCHANGED <<tick, due>>

\* Tokens that are not there yet are reserved: the caller waits for the
\* first tick at which the level would be back at zero.
Reserve(c, n) ==
  /\ due[c] = NotWaiting
  /\ n > 0 /\ n > level
  /\ level' = level - n
  /\ \E d \in (tick + 1) .. (tick - level') :
       /\ level' + (d - tick) * Quantum >= 0
       /\ level' + (d - 1 - tick) * Quantum < 0
       /\ due' = [due EXCEPT ![c] = d]
  /\ tick' = tick

\* A waiting caller is let through, never before its tick.
Pass(c) ==
  /\ due[c] # NotWaiting
  /\ tick >= due[c]
  /\ due' = [due EXCEPT ![c] = NotWaiting]
  /\ UNCHANGED <<tick, level>>

Next ==
  \/ Fill
  \/ \E n \in 1 .. level : Grant(n)
  \/ \E c \in Callers : Pass(c)
  \/ \E c \in Callers, n \in Counts : Reserve(c, n)

Spec == Init /\ [][Next]_vars

=============================================================================
