--------------------------- MODULE TokenBucketOps ---------------------------
(***************************************************************************)
(* The functions of flowcontrol/tokenbucket/limiter.go on one bucket, as   *)
(* operators from a bucket to what a call makes of it.  A call runs under  *)
(* tb.mu, so each operator is one indivisible step of whoever uses it.     *)
(* Times are integers (nanoseconds), Never is the zero time.Time.          *)
(***************************************************************************)
EXTENDS Integers

CONSTANTS
  Capacity,      \* tb.capacity
  Quantum,       \* tb.quantum
  FillInterval   \* tb.fillInterval

\* The three panics of NewBucketWithQuantumAndClock (limiter.go:109-117).
ASSUME BucketAssumption ==
  /\ Capacity \in Nat \ {0}
  /\ Quantum \in Nat \ {0}
  /\ FillInterval \in Nat \ {0}

Never == -1

\* A bucket starts full, at the tick 0 of its own clock.
NewBucket(at) ==
  [ startTime       |-> at,
    latestTick      |-> 0,
    availableTokens |-> Capacity,
    lastTakeTime    |-> Never ]

\* The tick a clock reading falls in.
CurrentTick(tb, at) == (at - tb.startTime) \div FillInterval

\* Seeded faults: two wrong forms of Adjust, used by nothing.  The first
\* forgets the capacity, the second does not move latestTick on.
Adjust_NoClamp(tb, tick, clock) ==
  [tb EXCEPT !.latestTick = tick, !.lastTakeTime = clock,
             !.availableTokens = @ + (tick - tb.latestTick) * Quantum]

Adjust_SameTick(tb, tick, clock) ==
  LET refilled == tb.availableTokens + (tick - tb.latestTick) * Quantum
  IN  [tb EXCEPT !.lastTakeTime = clock,
                 !.availableTokens = IF refilled > Capacity THEN Capacity ELSE refilled]

\* adjustavailableTokens: a full bucket only moves its latestTick, another
\* one is refilled for the ticks since then and stamped with the clock.
Adjust(tb, tick, clock) ==
  LET refilled == tb.availableTokens + (tick - tb.latestTick) * Quantum
  IN  IF tb.availableTokens >= Capacity
      THEN [tb EXCEPT !.latestTick = tick]
      ELSE [ startTime       |-> tb.startTime,
             latestTick      |-> tick,
             availableTokens |-> IF refilled > Capacity THEN Capacity ELSE refilled,
             lastTakeTime    |-> clock ]

\* Seeded faults: rounding down, and a tick too many.
EndTick_Down(tick, avail) == tick + (- avail) \div Quantum

EndTick_Late(tick, avail) == tick + (Quantum - avail) \div Quantum

\* The tick at which a bucket left with avail < 0 tokens is back at zero.
EndTick(tick, avail) == tick + (Quantum - 1 - avail) \div Quantum

\* The maxWait of Take: infinityDuration, which no wait exceeds.
Forever == -1

\* Seeded faults: a refusal one too early, and tokens that are promised but
\* not taken off the bucket.
TakeOp_Strict(tb, at, count, maxWait) ==
  LET tick == CurrentTick(tb, at)
      adj  == Adjust(tb, tick, at)
      left == adj.availableTokens - count
      wait == tb.startTime + EndTick(tick, left) * FillInterval - at
  IN  IF count > 0 /\ left < 0 /\ maxWait # Forever /\ wait >= maxWait
      THEN [tb |-> adj, took |-> 0, wait |-> 0, ok |-> FALSE]
      ELSE IF count > 0
      THEN [tb |-> [adj EXCEPT !.availableTokens = left], took |-> count,
            wait |-> IF left < 0 THEN wait ELSE 0, ok |-> TRUE]
      ELSE [tb |-> tb, took |-> 0, wait |-> 0, ok |-> TRUE]

TakeOp_NotTaken(tb, at, count, maxWait) ==
  LET tick == CurrentTick(tb, at)
      adj  == Adjust(tb, tick, at)
      left == adj.availableTokens - count
      wait == tb.startTime + EndTick(tick, left) * FillInterval - at
  IN  IF count <= 0
      THEN [tb |-> tb, took |-> 0, wait |-> 0, ok |-> TRUE]
      ELSE [tb |-> adj, took |-> count, wait |-> IF left < 0 THEN wait ELSE 0, ok |-> TRUE]

\* What take returns to a caller that asks for count tokens at time at and
\* would wait at most maxWait: the bucket it leaves behind, the tokens it
\* removed, the time to wait and whether it let the caller in.
TakeOp(tb, at, count, maxWait) ==
  LET tick == CurrentTick(tb, at)
      adj  == Adjust(tb, tick, at)
      left == adj.availableTokens - count
      wait == tb.startTime + EndTick(tick, left) * FillInterval - at
  IN  IF count <= 0
      THEN [tb |-> tb, took |-> 0, wait |-> 0, ok |-> TRUE]
      ELSE IF left >= 0
      THEN [tb |-> [adj EXCEPT !.availableTokens = left],
            took |-> count, wait |-> 0, ok |-> TRUE]
      ELSE IF maxWait # Forever /\ wait > maxWait
      THEN [tb |-> adj, took |-> 0, wait |-> 0, ok |-> FALSE]
      ELSE [tb |-> [adj EXCEPT !.availableTokens = left],
            took |-> count, wait |-> wait, ok |-> TRUE]

\* Seeded fault: the test of count is missing.
TakeAvailableOp_AnyCount(tb, at, count) ==
  LET adj  == Adjust(tb, CurrentTick(tb, at), at)
      took == IF count > adj.availableTokens THEN adj.availableTokens ELSE count
  IN  IF adj.availableTokens <= 0
      THEN [tb |-> adj, took |-> 0]
      ELSE [tb |-> [adj EXCEPT !.availableTokens = @ - took], took |-> took]

\* takeAvailable: at most what is there, nothing from an overdrawn bucket.
TakeAvailableOp(tb, at, count) ==
  LET adj  == Adjust(tb, CurrentTick(tb, at), at)
      took == IF count > adj.availableTokens THEN adj.availableTokens ELSE count
  IN  IF count <= 0
      THEN [tb |-> tb, took |-> 0]
      ELSE IF adj.availableTokens <= 0
           THEN [tb |-> adj, took |-> 0]
           ELSE [tb   |-> [adj EXCEPT !.availableTokens = @ - took],
                 took |-> took]

=============================================================================
