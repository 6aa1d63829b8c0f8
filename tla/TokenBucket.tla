---------------------------- MODULE TokenBucket ----------------------------
(***************************************************************************)
(* One bucket of flowcontrol/tokenbucket shared by several goroutines.     *)
(*                                                                         *)
(* Take, TakeMaxDuration and TakeAvailable read the clock under tb.mu and  *)
(* are one step each.  Available reads the clock BEFORE it locks           *)
(* (limiter.go:217-225), so it is two steps and its reading may be stale   *)
(* by any number of ticks.  Wait and WaitMaxDuration take and then sleep;  *)
(* the sleeper goes on at or after the end of its sleep.                   *)
(*                                                                         *)
(* granted, mark and passed are history: tokens are numbered in the order  *)
(* they are removed from the bucket, mark[c] is the number of the last     *)
(* token of the sleeping caller c, and passed the highest number a caller  *)
(* has returned with.                                                      *)
(***************************************************************************)
EXTENDS TokenBucketOps

CONSTANTS
  Callers,    \* goroutines that share the bucket
  Counts,     \* token counts they ask for, zero and negative ones included
  MaxWaits,   \* maxWait durations of WaitMaxDuration
  MaxTime     \* bound on the clock, and on the end of every sleep

ASSUME CallersAssumption ==
  /\ Counts \subseteq Int
  /\ MaxWaits \subseteq Nat
  /\ MaxTime \in Nat

VARIABLES
  now,        \* the system clock
  tb,         \* the Bucket
  seen,       \* seen[c]: clock reading of c's call of Available, or None
  until,      \* until[c]: end of c's sleep, or None
  granted,    \* history: tokens removed from the bucket
  mark,       \* history: mark[c], number of the last token of a sleeper
  passed      \* history: highest token number returned with

vars == <<now, tb, seen, until, granted, mark, passed>>

None == -1

Idle(c) == seen[c] = None /\ until[c] = None

Init ==
  /\ now = 0
  /\ tb = NewBucket(0)
  /\ seen = [c \in Callers |-> None]
  /\ until = [c \in Callers |-> None]
  /\ granted = 0
  /\ mark = [c \in Callers |-> 0]
  /\ passed = 0

\* Time passes.
Advance ==
  /\ now < MaxTime
  /\ now' = now + 1
  /\ UNCHANGED <<tb, seen, until, granted, mark, passed>>

\* A caller removes r.took tokens and returns with them, or sleeps first.
Leave(c, r) ==
  /\ tb' = r.tb
  /\ granted' = granted + r.took
  /\ IF r.wait > 0
     THEN /\ now + r.wait <= MaxTime
          /\ until' = [until EXCEPT ![c] = now + r.wait]
          /\ mark' = [mark EXCEPT ![c] = granted']
          /\ passed' = passed
     ELSE /\ passed' = IF r.took > 0 THEN granted' ELSE passed
          /\ UNCHANGED <<until, mark>>
  /\ UNCHANGED <<now, seen>>

\* Take, and Wait, which sleeps for what Take returns.
Wait(c, count) ==
  /\ Idle(c)
  /\ Leave(c, TakeOp(tb, now, count, Forever))

\* TakeMaxDuration, and WaitMaxDuration, which sleeps likewise.
WaitMaxDuration(c, count, maxWait) ==
  /\ Idle(c)
  /\ Leave(c, TakeOp(tb, now, count, maxWait))

\* The end of clock.Sleep, at or after the time asked for.
Wake(c) ==
  /\ until[c] # None
  /\ now >= until[c]
  /\ until' = [until EXCEPT ![c] = None]
  /\ mark' = [mark EXCEPT ![c] = 0]
  /\ passed' = IF mark[c] > passed THEN mark[c] ELSE passed
  /\ UNCHANGED <<now, tb, seen, granted>>

\* TakeAvailable, and TakeOneAvailable, which is TakeAvailable(1).
TakeAvailable(c, count) ==
  LET r == TakeAvailableOp(tb, now, count)
  IN  /\ Idle(c)
      /\ tb' = r.tb
      /\ granted' = granted + r.took
      /\ passed' = IF r.took > 0 THEN granted' ELSE passed
      /\ UNCHANGED <<now, seen, until, mark>>

\* Available evaluates tb.clock.Now() ...
AvailableReadsClock(c) ==
  /\ Idle(c)
  /\ seen' = [seen EXCEPT ![c] = now]
  /\ UNCHANGED <<now, tb, until, granted, mark, passed>>

\* ... and then locks and adjusts the bucket to that reading.
AvailableAdjusts(c) ==
  /\ seen[c] # None
  /\ tb' = Adjust(tb, CurrentTick(tb, seen[c]), now)
  /\ seen' = [seen EXCEPT ![c] = None]
  /\ UNCHANGED <<now, until, granted, mark, passed>>

Next ==
  \/ Advance
  \/ \E c \in Callers, n \in Counts : Wait(c, n)
  \/ \E c \in Callers, n \in Counts, d \in MaxWaits : WaitMaxDuration(c, n, d)
  \/ \E c \in Callers : Wake(c)
  \/ \E c \in Callers, n \in Counts : TakeAvailable(c, n)
  \/ \E c \in Callers : AvailableReadsClock(c)
  \/ \E c \in Callers : AvailableAdjusts(c)

Spec == Init /\ [][Next]_vars

-----------------------------------------------------------------------------
(* Properties *)

Tick == CurrentTick(tb, now)

\* The tokens a call would find there now: the lazy count brought up to date.
Level == Adjust(tb, Tick, now).availableTokens

Buckets == [ startTime : {0}, latestTick : Nat, availableTokens : Int,
             lastTakeTime : Nat \cup {Never} ]

\* The type invariant.
TypeOK ==
  /\ now \in 0 .. MaxTime
  /\ tb \in Buckets
  /\ seen \in [Callers -> Nat \cup {None}]
  /\ until \in [Callers -> Nat \cup {None}]
  /\ granted \in Nat
  /\ mark \in [Callers -> Nat]
  /\ passed \in Nat

\* No token leaves twice: what was removed and what is left never exceed the
\* first filling plus Quantum per tick, whatever stale readings Available
\* moved latestTick back to.
Conservation == granted + Level <= Capacity + Quantum * Tick

\* The promise to whoever is protected by the bucket: token k is in use only
\* once the bucket has been filled k times over, sleepers included.
RateBound == passed <= Capacity + Quantum * Tick

\* The bucket is overdrawn exactly while somebody sleeps for its tokens
\* ("It will be negative when there are consumers waiting", limiter.go:211).
OverdrawnIffWaiting ==
  Level < 0 <=> \E c \in Callers : until[c] # None /\ until[c] > now

\* take refuses exactly the callers whose tokens would not be there in time.
RefusalExact ==
  \A n \in Counts, d \in MaxWaits :
    LET deadline == CurrentTick(tb, now + d)
    IN  TakeOp(tb, now, n, d).ok
          <=> n <= 0 \/ n <= Level + (deadline - Tick) * Quantum

\* First come, first served: while somebody sleeps for tokens nobody takes
\* any without sleeping at least as long.
NoOvertaking ==
  [][\A c \in Callers :
       until[c] > now /\ granted' > granted
         => \E d \in Callers : until[d] = None /\ until'[d] >= until[c]]_vars

\* Seen from outside the bucket is one that is refilled eagerly.
Eager == INSTANCE EagerBucket WITH
  tick  <- Tick,
  level <- Level,
  due   <- [c \in Callers |-> IF until[c] = None THEN None
                              ELSE until[c] \div FillInterval]

ImplementsEager == Eager!Spec

=============================================================================
