------------------------- MODULE TokenBucketProofs -------------------------
(***************************************************************************)
(* The properties of TokenBucket for every capacity, quantum, interval and *)
(* set of callers.  The lemmas about the operators of limiter.go come      *)
(* first; then every step of TokenBucket is reduced to what it does to     *)
(* Tick and Level, and the invariant and the refinement are proved from    *)
(* that.                                                                   *)
(***************************************************************************)
EXTENDS TokenBucket, TLAPS

-----------------------------------------------------------------------------
(* Arithmetic of ticks *)

\* What integer division by a positive number is.
LEMMA DivIs ==
  ASSUME NEW n \in Int, NEW d \in Nat \ {0}
  PROVE  /\ n \div d \in Int
         /\ d * (n \div d) <= n
         /\ n < d * (n \div d) + d
  BY SMT

\* The quotient is the only number with that property.
LEMMA DivUnique ==
  ASSUME NEW n \in Int, NEW d \in Nat \ {0}, NEW q \in Int,
         d * q <= n, n < d * q + d
  PROVE  n \div d = q
<1> DEFINE p == n \div d
<1>1. p \in Int /\ d * p <= n /\ n < d * p + d
  BY DivIs
<1>2. ~ p >= q + 1
  <2>1. p >= q + 1 => d * p >= d * q + d
    BY <1>1, SMT
  <2> QED
    BY <2>1, <1>1, SMT
<1>3. ~ q >= p + 1
  <2>1. q >= p + 1 => d * q >= d * p + d
    BY <1>1, SMT
  <2> QED
    BY <2>1, <1>1, SMT
<1> QED
  BY <1>1, <1>2, <1>3, SMT

\* A tick has come exactly when its time has.
LEMMA TickReached ==
  ASSUME NEW n \in Int, NEW d \in Nat \ {0}, NEW q \in Int
  PROVE  n \div d >= q <=> n >= q * d
<1> DEFINE p == n \div d
<1>1. p \in Int /\ d * p <= n /\ n < d * p + d
  BY DivIs
<1>2. p >= q => d * p >= d * q
  BY <1>1, SMT
<1>3. p + 1 <= q => d * p + d <= d * q
  BY <1>1, SMT
<1> QED
  BY <1>1, <1>2, <1>3, SMT

-----------------------------------------------------------------------------
(* The operators of limiter.go *)

\* The tokens that bucket b has at tick t.
LevelAt(b, t) == Adjust(b, t, 0).availableTokens

\* A bucket that is never above its capacity.
Sound(b) == b \in Buckets /\ b.availableTokens <= Capacity

\* The tokens at a tick, spelled out.
LEMMA LevelAtIs ==
  ASSUME NEW b \in Buckets, Sound(b), NEW t \in Int
  PROVE  LET refilled == b.availableTokens + (t - b.latestTick) * Quantum
         IN  LevelAt(b, t) = IF b.availableTokens = Capacity \/ refilled > Capacity
                             THEN Capacity ELSE refilled
<1>1. b.availableTokens \in Int /\ b.latestTick \in Nat /\ b.availableTokens <= Capacity
  BY DEF Sound, Buckets
<1>2. CASE b.availableTokens >= Capacity
  <2>1. LevelAt(b, t) = b.availableTokens
    BY <1>2 DEF LevelAt, Adjust, Buckets
  <2> QED
    BY <1>1, <1>2, <2>1, BucketAssumption
<1>3. CASE ~ (b.availableTokens >= Capacity)
  BY <1>1, <1>3, BucketAssumption DEF LevelAt, Adjust
<1> QED
  BY <1>2, <1>3

\* adjustavailableTokens, to any tick, leaves a bucket sound and keeps its
\* tokens at that tick and at every later one: the reason why a stale clock
\* reading of Available does no harm.
LEMMA AdjustKeepsLevel ==
  ASSUME NEW b \in Buckets, Sound(b), NEW s \in Nat, NEW clock \in Nat
  PROVE  /\ Sound(Adjust(b, s, clock))
         /\ Adjust(b, s, clock).latestTick = s
         /\ Adjust(b, s, clock).availableTokens = LevelAt(b, s)
         /\ \A t \in Nat : t >= s => LevelAt(Adjust(b, s, clock), t) = LevelAt(b, t)
<1> DEFINE a == Adjust(b, s, clock)
           refilled(t) == b.availableTokens + (t - b.latestTick) * Quantum
<1>1. /\ Quantum \in Nat \ {0} /\ Capacity \in Nat \ {0}
      /\ b.availableTokens \in Int /\ b.latestTick \in Nat
      /\ b.availableTokens <= Capacity
  BY BucketAssumption DEF Sound, Buckets
<1>2. a \in Buckets /\ a.latestTick = s /\ a.availableTokens = LevelAt(b, s)
  BY <1>1 DEF Adjust, LevelAt, Sound, Buckets
<1>3. LevelAt(b, s) = IF b.availableTokens = Capacity \/ refilled(s) > Capacity
                      THEN Capacity ELSE refilled(s)
  BY LevelAtIs
<1>4. LevelAt(b, s) <= Capacity /\ Sound(a)
  BY <1>1, <1>2, <1>3 DEF Sound
<1>5. ASSUME NEW t \in Nat, t >= s
      PROVE  LevelAt(a, t) = LevelAt(b, t)
  <2>1. LevelAt(b, t) = IF b.availableTokens = Capacity \/ refilled(t) > Capacity
                        THEN Capacity ELSE refilled(t)
    BY LevelAtIs
  <2>2. LevelAt(a, t) =
          IF LevelAt(b, s) = Capacity \/ LevelAt(b, s) + (t - s) * Quantum > Capacity
          THEN Capacity ELSE LevelAt(b, s) + (t - s) * Quantum
    BY <1>2, <1>4, LevelAtIs
  <2>3. /\ refilled(t) = refilled(s) + (t - s) * Quantum
        /\ (t - s) * Quantum >= 0
    BY <1>1, <1>5, SMT
  <2> HIDE DEF refilled
  <2>4. refilled(s) \in Int /\ refilled(t) \in Int
    BY <1>1 DEF refilled
  <2>5. (t - s) * Quantum \in Int
    BY <1>1
  <2> QED
    BY <1>1, <1>3, <2>1, <2>2, <2>3, <2>4, <2>5
<1> QED
  BY <1>2, <1>4, <1>5

\* A sound bucket whose latestTick is t or a past tick: what take and
\* takeAvailable leave of it when they remove n tokens at tick t.
LEMMA RemoveTokens ==
  ASSUME NEW b \in Buckets, Sound(b), NEW t \in Nat, NEW clock \in Nat,
         NEW n \in Nat
  PROVE  LET r == [Adjust(b, t, clock) EXCEPT !.availableTokens = LevelAt(b, t) - n]
         IN  /\ Sound(r)
             /\ r.latestTick = t
             /\ LevelAt(r, t) = LevelAt(b, t) - n
<1> DEFINE a == Adjust(b, t, clock)
           r == [a EXCEPT !.availableTokens = LevelAt(b, t) - n]
<1>1. /\ a \in Buckets /\ a.availableTokens <= Capacity
      /\ a.latestTick = t /\ a.availableTokens = LevelAt(b, t)
  BY AdjustKeepsLevel DEF Sound
<1>2. LevelAt(b, t) \in Int /\ LevelAt(b, t) <= Capacity
  BY <1>1 DEF Buckets
<1> HIDE DEF a
<1>3. /\ r \in Buckets
      /\ r.availableTokens = LevelAt(b, t) - n
      /\ r.latestTick = t
  BY <1>1, <1>2 DEF Buckets
<1> HIDE DEF r
<1>4. Sound(r)
  BY <1>2, <1>3, BucketAssumption DEF Sound
<1>5. (t - r.latestTick) * Quantum = 0
  BY <1>3, BucketAssumption
<1>6. LevelAt(r, t) = r.availableTokens
  BY <1>2, <1>3, <1>4, <1>5, LevelAtIs, BucketAssumption
<1> QED
  BY <1>3, <1>4, <1>6 DEF r, a

\* What take makes of a sound bucket, and what it returns: it refuses, or
\* there are tokens enough, or the caller waits for the first tick at which
\* the tokens it overdraws are back.
TakesAt(b, t, at, n, r) ==
  /\ Sound(r.tb)
  /\ r.tb.latestTick \in {b.latestTick, t}
  /\ \/ /\ r.took = 0 /\ r.wait = 0
        /\ LevelAt(r.tb, t) = LevelAt(b, t)
     \/ /\ n > 0 /\ r.took = n /\ r.wait = 0 /\ n <= LevelAt(b, t)
        /\ LevelAt(r.tb, t) = LevelAt(b, t) - n
     \/ /\ n > 0 /\ r.took = n /\ n > LevelAt(b, t)
        /\ LevelAt(r.tb, t) = LevelAt(b, t) - n
        /\ \E d \in (t + 1) .. (t - (LevelAt(b, t) - n)) :
             /\ r.wait = d * FillInterval - at
             /\ LevelAt(b, t) - n + (d - t) * Quantum >= 0
             /\ LevelAt(b, t) - n + (d - 1 - t) * Quantum < 0

\* The tick that take makes an overdrawing caller wait for.
LEMMA EndTickIs ==
  ASSUME NEW t \in Nat, NEW avail \in Int, avail < 0
  PROVE  /\ EndTick(t, avail) \in (t + 1) .. (t - avail)
         /\ avail + (EndTick(t, avail) - t) * Quantum >= 0
         /\ avail + (EndTick(t, avail) - 1 - t) * Quantum < 0
<1> DEFINE q == (Quantum - 1 - avail) \div Quantum
<1>1. Quantum \in Nat \ {0}
  BY BucketAssumption
<1>2. /\ q \in Int /\ Quantum * q <= Quantum - 1 - avail
      /\ Quantum - 1 - avail < Quantum * q + Quantum
  <2>1. Quantum - 1 - avail \in Int
    BY <1>1
  <2> QED
    BY <1>1, <2>1, DivIs
<1>3. EndTick(t, avail) = t + q
  BY DEF EndTick
<1> HIDE DEF q
<1>4. avail + q * Quantum >= 0 /\ avail + (q - 1) * Quantum < 0
  BY <1>1, <1>2, SMT
<1>5. q >= 1
  <2>1. q <= 0 => q * Quantum <= 0
    BY <1>1, <1>2, SMT
  <2> QED
    BY <2>1, <1>1, <1>2, <1>4, SMT
<1>6. q <= - avail
  <2>1. q - 1 >= - avail => (q - 1) * Quantum >= (q - 1)
    BY <1>1, <1>2, SMT
  <2> QED
    BY <2>1, <1>1, <1>2, <1>4, SMT
<1> QED
  BY <1>2, <1>3, <1>4, <1>5, <1>6

\* take, with the bucket's level and tick named.
LEMMA TakeOpIs ==
  ASSUME NEW b \in Buckets, Sound(b), NEW at \in Nat,
         NEW n \in Int, NEW m \in Nat \cup {Forever}
  PROVE  LET t == at \div FillInterval
             adj == Adjust(b, t, at)
             left == LevelAt(b, t) - n
             wait == EndTick(t, left) * FillInterval - at
         IN  TakeOp(b, at, n, m) =
               IF n <= 0
               THEN [tb |-> b, took |-> 0, wait |-> 0, ok |-> TRUE]
               ELSE IF left >= 0
               THEN [tb |-> [adj EXCEPT !.availableTokens = left],
                     took |-> n, wait |-> 0, ok |-> TRUE]
               ELSE IF m # Forever /\ wait > m
               THEN [tb |-> adj, took |-> 0, wait |-> 0, ok |-> FALSE]
               ELSE [tb |-> [adj EXCEPT !.availableTokens = left],
                     took |-> n, wait |-> wait, ok |-> TRUE]
<1> DEFINE t == at \div FillInterval
           adj == Adjust(b, t, at)
           left == LevelAt(b, t) - n
           wait == EndTick(t, left) * FillInterval - at
           r == TakeOp(b, at, n, m)
<1>1. t \in Nat /\ b.startTime = 0
  BY BucketAssumption, TickReached DEF Buckets
<1>2. CurrentTick(b, at) = t
  BY <1>1 DEF CurrentTick
<1>3. /\ Sound(adj) /\ adj \in Buckets /\ adj.latestTick = t
      /\ adj.availableTokens = LevelAt(b, t)
      /\ LevelAt(adj, t) = LevelAt(b, t)
  <2> HIDE DEF t
  <2> QED
    BY <1>1, AdjustKeepsLevel DEF Sound
<1>4. LevelAt(b, t) \in Int /\ left \in Int
  BY <1>3 DEF Buckets
<1> DEFINE result(a, l, w) ==
       IF n <= 0
       THEN [tb |-> b, took |-> 0, wait |-> 0, ok |-> TRUE]
       ELSE IF l >= 0
       THEN [tb |-> [a EXCEPT !.availableTokens = l],
             took |-> n, wait |-> 0, ok |-> TRUE]
       ELSE IF m # Forever /\ w > m
       THEN [tb |-> a, took |-> 0, wait |-> 0, ok |-> FALSE]
       ELSE [tb |-> [a EXCEPT !.availableTokens = l],
             took |-> n, wait |-> w, ok |-> TRUE]
<1>5. r = LET a == Adjust(b, CurrentTick(b, at), at)
              l == a.availableTokens - n
          IN  result(a, l, b.startTime + EndTick(CurrentTick(b, at), l)
                               * FillInterval - at)
  BY DEF TakeOp
<1>6. r = result(adj, left, wait)
  <2> HIDE DEF result, r, t
  <2>1. r = LET l == adj.availableTokens - n
            IN  result(adj, l, b.startTime + EndTick(t, l) * FillInterval - at)
    BY ONLY <1>2, <1>5
  <2>2. adj.availableTokens - n = left
    BY <1>3
  <2>3. b.startTime + EndTick(t, left) * FillInterval - at = wait
    <3> DEFINE s == b.startTime
               e == EndTick(t, left) * FillInterval
    <3>1. s = 0 /\ e \in Int
      BY <1>1, <1>4, BucketAssumption DEF EndTick
    <3> HIDE DEF s, e
    <3>2. s + e - at = e - at
      BY <3>1
    <3> QED
      BY <3>2 DEF s, e
  <2> HIDE DEF adj, left, wait
  <2> QED
    BY ONLY <2>1, <2>2, <2>3, Zenon
<1> QED
  BY <1>6

LEMMA TakeOpTakes ==
  ASSUME NEW b \in Buckets, Sound(b), NEW at \in Nat,
         NEW n \in Int, NEW m \in Nat \cup {Forever}
  PROVE  TakesAt(b, at \div FillInterval, at, n, TakeOp(b, at, n, m))
<1> DEFINE t == at \div FillInterval
           adj == Adjust(b, t, at)
           left == LevelAt(b, t) - n
           wait == EndTick(t, left) * FillInterval - at
           r == TakeOp(b, at, n, m)
<1>1. t \in Nat /\ b.startTime = 0
  BY BucketAssumption, TickReached DEF Buckets
<1>3. /\ Sound(adj) /\ adj \in Buckets /\ adj.latestTick = t
      /\ adj.availableTokens = LevelAt(b, t)
      /\ LevelAt(adj, t) = LevelAt(b, t)
  <2> HIDE DEF t
  <2> QED
    BY <1>1, AdjustKeepsLevel DEF Sound
<1>4. LevelAt(b, t) \in Int /\ left \in Int
  BY <1>3 DEF Buckets
<1>5. r = IF n <= 0
          THEN [tb |-> b, took |-> 0, wait |-> 0, ok |-> TRUE]
          ELSE IF left >= 0
          THEN [tb |-> [adj EXCEPT !.availableTokens = left],
                took |-> n, wait |-> 0, ok |-> TRUE]
          ELSE IF m # Forever /\ wait > m
          THEN [tb |-> adj, took |-> 0, wait |-> 0, ok |-> FALSE]
          ELSE [tb |-> [adj EXCEPT !.availableTokens = left],
                took |-> n, wait |-> wait, ok |-> TRUE]
  BY TakeOpIs
<1>6. n > 0 => LET x == [adj EXCEPT !.availableTokens = left]
               IN  Sound(x) /\ x.latestTick = t /\ LevelAt(x, t) = left
  BY <1>1, RemoveTokens
<1>7. CASE n <= 0
  <2>1. r.tb = b /\ r.took = 0 /\ r.wait = 0
    BY <1>5, <1>7
  <2> HIDE DEF r, t
  <2> QED
    BY <2>1 DEF TakesAt, t, r
<1>8. CASE n > 0 /\ left >= 0
  <2> DEFINE x == [adj EXCEPT !.availableTokens = left]
  <2>1. r.tb = x /\ r.took = n /\ r.wait = 0
    BY <1>5, <1>8
  <2>2. Sound(x) /\ x.latestTick = t /\ LevelAt(x, t) = left
    BY <1>6, <1>8
  <2>3. n <= LevelAt(b, t)
    BY <1>4, <1>8
  <2> HIDE DEF x, r
  <2> QED
    BY <1>8, <2>1, <2>2, <2>3 DEF TakesAt, r
<1>9. CASE n > 0 /\ left < 0 /\ m # Forever /\ wait > m
  <2>1. r.tb = adj /\ r.took = 0 /\ r.wait = 0
    BY <1>4, <1>5, <1>9
  <2> HIDE DEF r, adj
  <2> QED
    BY <1>3, <2>1 DEF TakesAt, r
<1>10. CASE n > 0 /\ left < 0 /\ ~ (m # Forever /\ wait > m)
  <2> DEFINE x == [adj EXCEPT !.availableTokens = left]
             d == EndTick(t, left)
  <2>1. r.tb = x /\ r.took = n /\ r.wait = d * FillInterval - at
    BY <1>4, <1>5, <1>10
  <2>2. Sound(x) /\ x.latestTick = t /\ LevelAt(x, t) = left
    BY <1>6, <1>10
  <2>3. n > LevelAt(b, t)
    BY <1>4, <1>10
  <2>4. /\ d \in (t + 1) .. (t - left)
        /\ left + (d - t) * Quantum >= 0
        /\ left + (d - 1 - t) * Quantum < 0
    <3> HIDE DEF t, left
    <3> QED
      BY <1>1, <1>4, <1>10, EndTickIs
  <2> HIDE DEF x, r, d
  <2> QED
    BY <1>10, <2>1, <2>2, <2>3, <2>4 DEF TakesAt, r
<1> QED
  BY <1>4, <1>7, <1>8, <1>9, <1>10

\* takeAvailable takes nothing, or what it takes is there.
LEMMA TakeAvailableOpTakes ==
  ASSUME NEW b \in Buckets, Sound(b), NEW at \in Nat, NEW n \in Int
  PROVE  LET t == at \div FillInterval
             r == TakeAvailableOp(b, at, n)
         IN  /\ Sound(r.tb)
             /\ r.tb.latestTick \in {b.latestTick, t}
             /\ r.took \in Nat
             /\ LevelAt(r.tb, t) = LevelAt(b, t) - r.took
             /\ r.took > 0 => r.took <= LevelAt(b, t)
<1> DEFINE t == at \div FillInterval
           adj == Adjust(b, t, at)
           level == LevelAt(b, t)
           took == IF n > level THEN level ELSE n
           r == TakeAvailableOp(b, at, n)
<1>1. t \in Nat /\ b.startTime = 0
  BY BucketAssumption, TickReached DEF Buckets
<1>2. CurrentTick(b, at) = t
  BY <1>1 DEF CurrentTick
<1>3. /\ Sound(adj) /\ adj \in Buckets /\ adj.latestTick = t
      /\ adj.availableTokens = level
      /\ LevelAt(adj, t) = level
  <2> HIDE DEF t
  <2> QED
    BY <1>1, AdjustKeepsLevel DEF Sound
<1>4. level \in Int
  BY <1>3 DEF Buckets
<1>5. r = IF n <= 0 THEN [tb |-> b, took |-> 0]
          ELSE IF level <= 0 THEN [tb |-> adj, took |-> 0]
          ELSE [tb |-> [adj EXCEPT !.availableTokens = level - took], took |-> took]
  BY <1>1, <1>2, <1>3 DEF TakeAvailableOp
<1>6. CASE n <= 0
  <2>1. r.tb = b /\ r.took = 0
    BY <1>5, <1>6
  <2> HIDE DEF r, t
  <2> QED
    BY <1>4, <2>1 DEF t, r
<1>7. CASE n > 0 /\ level <= 0
  <2>1. r.tb = adj /\ r.took = 0
    BY <1>5, <1>7
  <2> HIDE DEF r, adj
  <2> QED
    BY <1>3, <1>4, <2>1 DEF r
<1>8. CASE n > 0 /\ level > 0
  <2> DEFINE x == [adj EXCEPT !.availableTokens = level - took]
  <2>1. r.tb = x /\ r.took = took
    BY <1>4, <1>5, <1>8
  <2>2. took \in Nat /\ took > 0 /\ took <= level
    BY <1>4, <1>8
  <2> HIDE DEF took
  <2>3. Sound(x) /\ x.latestTick = t /\ LevelAt(x, t) = level - took
    BY <1>1, <2>2, RemoveTokens
  <2> HIDE DEF x, r
  <2> QED
    BY <2>1, <2>2, <2>3 DEF r
<1> QED
  BY <1>4, <1>6, <1>7, <1>8

\* One tick adds Quantum tokens, up to Capacity, however long ago the bucket
\* was adjusted.
LEMMA LevelAtNextTick ==
  ASSUME NEW b \in Buckets, Sound(b), NEW t \in Nat
  PROVE  LevelAt(b, t + 1) = IF LevelAt(b, t) + Quantum > Capacity
                             THEN Capacity ELSE LevelAt(b, t) + Quantum
<1> DEFINE x == (t - b.latestTick) * Quantum
           y == ((t + 1) - b.latestTick) * Quantum
<1>1. /\ Quantum \in Nat \ {0} /\ Capacity \in Nat \ {0}
      /\ b.availableTokens \in Int /\ b.latestTick \in Nat
  BY BucketAssumption DEF Sound, Buckets
<1>2. x \in Int /\ y = x + Quantum
  BY <1>1, SMT
<1>3. LevelAt(b, t) =
        IF b.availableTokens = Capacity \/ b.availableTokens + x > Capacity
        THEN Capacity ELSE b.availableTokens + x
  BY LevelAtIs
<1>4. LevelAt(b, t + 1) =
        IF b.availableTokens = Capacity \/ b.availableTokens + y > Capacity
        THEN Capacity ELSE b.availableTokens + y
  <2>1. t + 1 \in Int
    OBVIOUS
  <2> QED
    BY <2>1, LevelAtIs
<1> HIDE DEF x, y
<1> QED
  BY <1>1, <1>2, <1>3, <1>4

-----------------------------------------------------------------------------
(* What the steps do to Tick and Level *)

\* The part of the invariant that needs no other: types, a bucket that is
\* never above its capacity, and clock readings that are not in the future.
Base ==
  /\ TypeOK
  /\ Sound(tb)
  /\ \A c \in Callers : seen[c] <= now

\* Tick and Level of a bucket at a clock reading; stated of any bucket and
\* reading so that it can be used before and after a step.
LEMMA LevelOf ==
  ASSUME NEW b \in Buckets, Sound(b), NEW at \in Nat
  PROVE  LET t == CurrentTick(b, at)
         IN  /\ t = at \div FillInterval /\ t \in Nat
             /\ t * FillInterval <= at /\ at < (t + 1) * FillInterval
             /\ Adjust(b, t, at).availableTokens = LevelAt(b, t)
             /\ LevelAt(b, t) \in Int /\ LevelAt(b, t) <= Capacity
<1> DEFINE t == CurrentTick(b, at)
<1>1. b.startTime = 0
  BY DEF Buckets
<1>2. t = at \div FillInterval
  BY <1>1 DEF CurrentTick
<1>3. t \in Nat /\ t * FillInterval <= at /\ at < (t + 1) * FillInterval
  BY <1>2, DivIs, TickReached, BucketAssumption
<1> HIDE DEF t
<1>4. /\ Sound(Adjust(b, t, at))
      /\ Adjust(b, t, at).availableTokens = LevelAt(b, t)
  BY <1>3, AdjustKeepsLevel
<1>5. LevelAt(b, t) \in Int /\ LevelAt(b, t) <= Capacity
  BY <1>4 DEF Sound, Buckets
<1> QED
  BY <1>2, <1>3, <1>4, <1>5 DEF t

LEMMA LevelIs ==
  ASSUME Base
  PROVE  /\ now \in Nat /\ tb \in Buckets /\ Sound(tb)
         /\ Tick = now \div FillInterval /\ Tick \in Nat
         /\ Tick * FillInterval <= now /\ now < (Tick + 1) * FillInterval
         /\ Level = LevelAt(tb, Tick)
         /\ Level \in Int /\ Level <= Capacity
<1>1. now \in Nat /\ tb \in Buckets /\ Sound(tb)
  BY CallersAssumption DEF Base, TypeOK
<1> QED
  BY <1>1, LevelOf DEF Tick, Level

LEMMA LevelIsNext ==
  ASSUME Base'
  PROVE  /\ now' \in Nat /\ tb' \in Buckets /\ Sound(tb')
         /\ Tick' = now' \div FillInterval /\ Tick' \in Nat
         /\ Tick' * FillInterval <= now' /\ now' < (Tick' + 1) * FillInterval
         /\ Level' = LevelAt(tb', Tick')
         /\ Level' \in Int /\ Level' <= Capacity
<1>1. now' \in Nat /\ tb' \in Buckets /\ Sound(tb')
  BY CallersAssumption DEF Base, TypeOK
<1> QED
  BY <1>1, LevelOf DEF Tick, Level

\* Nothing is taken and nobody comes or goes; time may pass.
Passage ==
  /\ UNCHANGED <<until, mark, granted, passed>>
  /\ \/ now' = now /\ Tick' = Tick /\ Level' = Level
     \/ now' = now + 1 /\ Tick' = Tick /\ Level' = Level
     \/ /\ now' = now + 1 /\ Tick' = Tick + 1
        /\ Level' = IF Level + Quantum > Capacity THEN Capacity ELSE Level + Quantum

\* n tokens that are there are taken.
Granted(n) ==
  /\ n > 0 /\ n <= Level
  /\ Level' = Level - n /\ Tick' = Tick /\ now' = now
  /\ granted' = granted + n /\ passed' = granted'
  /\ UNCHANGED <<until, mark>>

\* c overdraws the bucket by taking n tokens and sleeps.
Reserved(c, n) ==
  /\ n > 0 /\ n > Level
  /\ Level' = Level - n /\ Tick' = Tick /\ now' = now
  /\ granted' = granted + n /\ passed' = passed
  /\ until[c] = None
  /\ mark' = [mark EXCEPT ![c] = granted']
  /\ \E d \in (Tick + 1) .. (Tick - Level') :
       /\ until' = [until EXCEPT ![c] = d * FillInterval]
       /\ Level' + (d - Tick) * Quantum >= 0
       /\ Level' + (d - 1 - Tick) * Quantum < 0

\* A sleeper goes on.
Woken(c) ==
  /\ Level' = Level /\ Tick' = Tick /\ now' = now /\ granted' = granted
  /\ until[c] # None /\ now >= until[c]
  /\ until' = [until EXCEPT ![c] = None]
  /\ mark' = [mark EXCEPT ![c] = 0]
  /\ passed' = IF mark[c] > passed THEN mark[c] ELSE passed

\* Every step is one of these.
Abstractly ==
  \/ Passage
  \/ \E n \in Nat : Granted(n)
  \/ \E c \in Callers, n \in Counts : Reserved(c, n)
  \/ \E c \in Callers : Woken(c)

LEMMA AdvanceStep ==
  ASSUME Base, Advance
  PROVE  Base' /\ Abstractly
<1>1. now' = now + 1 /\ tb' = tb /\ UNCHANGED <<seen, until, granted, mark, passed>>
  BY DEF Advance
<1>2. Base'
  <2>1. now' \in 0 .. MaxTime
    BY CallersAssumption DEF Base, TypeOK, Advance
  <2>2. TypeOK'
    BY <1>1, <2>1 DEF Base, TypeOK
  <2>3. ASSUME NEW c \in Callers
        PROVE  seen'[c] <= now'
    BY <1>1, LevelIs DEF Base, TypeOK, None
  <2> QED
    BY <1>1, <2>2, <2>3 DEF Base
<1>3. FillInterval \in Nat \ {0} /\ now' \in Int /\ now' < (Tick + 1) * FillInterval + 1
  BY <1>1, LevelIs, BucketAssumption
<1>4. CASE now' < (Tick + 1) * FillInterval
  <2>1. FillInterval * Tick <= now' /\ now' < FillInterval * Tick + FillInterval
    BY <1>1, <1>3, <1>4, LevelIs, SMT
  <2>2. Tick' = Tick
    BY <1>2, <1>3, <2>1, LevelIs, LevelIsNext, DivUnique
  <2>3. Level' = Level
    BY <1>1, <1>2, <2>2, LevelIs, LevelIsNext
  <2> QED
    BY <1>1, <1>2, <2>2, <2>3 DEF Abstractly, Passage
<1>5. CASE ~ (now' < (Tick + 1) * FillInterval)
  <2>1. /\ FillInterval * (Tick + 1) <= now'
        /\ now' < FillInterval * (Tick + 1) + FillInterval
    BY <1>3, <1>5, LevelIs, SMT
  <2>2. Tick' = Tick + 1
    BY <1>2, <1>3, <2>1, LevelIs, LevelIsNext, DivUnique
  <2>3. Level' = IF Level + Quantum > Capacity THEN Capacity ELSE Level + Quantum
    BY <1>1, <1>2, <2>2, LevelIs, LevelIsNext, LevelAtNextTick
  <2> QED
    BY <1>1, <1>2, <2>2, <2>3 DEF Abstractly, Passage
<1> QED
  BY <1>4, <1>5

LEMMA LeaveStep ==
  ASSUME Base, NEW c \in Callers, NEW n \in Counts, NEW m \in Nat \cup {Forever},
         until[c] = None, Leave(c, TakeOp(tb, now, n, m))
  PROVE  Base' /\ Abstractly
<1> DEFINE r == TakeOp(tb, now, n, m)
<1>1. n \in Int /\ FillInterval \in Nat \ {0}
  BY CallersAssumption, BucketAssumption
<1>2. TakesAt(tb, Tick, now, n, r)
  BY <1>1, LevelIs, TakeOpTakes
<1>3. /\ tb' = r.tb /\ granted' = granted + r.took
      /\ now' = now /\ seen' = seen
      /\ \/ /\ r.wait > 0
            /\ until' = [until EXCEPT ![c] = now + r.wait]
            /\ mark' = [mark EXCEPT ![c] = granted']
            /\ passed' = passed
         \/ /\ ~ (r.wait > 0)
            /\ passed' = IF r.took > 0 THEN granted' ELSE passed
            /\ until' = until /\ mark' = mark
  BY DEF Leave
<1> HIDE DEF r
<1>4. Sound(tb') /\ tb' \in Buckets
  BY <1>2, <1>3 DEF TakesAt, Sound
<1>5. /\ now \in Nat /\ granted \in Nat /\ passed \in Nat
      /\ until \in [Callers -> Nat \cup {None}]
      /\ mark \in [Callers -> Nat]
  BY LevelIs DEF Base, TypeOK
<1>6. Tick' = Tick
  BY <1>3, <1>4, LevelIs, LevelOf DEF Tick
<1>7. Level' = LevelAt(tb', Tick)
  BY <1>3, <1>4, <1>6, LevelIs, LevelOf DEF Tick, Level
<1>8. ASSUME granted' \in Nat, passed' \in Nat,
             until' \in [Callers -> Nat \cup {None}], mark' \in [Callers -> Nat]
      PROVE  Base'
  <2>1. TypeOK'
    BY <1>3, <1>4, <1>8 DEF Base, TypeOK
  <2> QED
    BY <1>3, <1>4, <2>1 DEF Base
<1>9. CASE r.took = 0 /\ r.wait = 0 /\ LevelAt(r.tb, Tick) = LevelAt(tb, Tick)
  <2>1. UNCHANGED <<until, mark, granted, passed>>
    BY <1>3, <1>5, <1>9
  <2>2. Base'
    BY <1>5, <1>8, <2>1
  <2> QED
    BY <1>3, <1>6, <1>7, <1>9, <2>1, <2>2, LevelIs DEF Abstractly, Passage
<1>10. CASE /\ n > 0 /\ r.took = n /\ r.wait = 0 /\ n <= LevelAt(tb, Tick)
            /\ LevelAt(r.tb, Tick) = LevelAt(tb, Tick) - n
  <2>1. /\ granted' = granted + n /\ passed' = granted'
        /\ until' = until /\ mark' = mark
    BY <1>3, <1>10
  <2>2. n \in Nat
    BY <1>1, <1>10
  <2>3. Base'
    BY <1>5, <1>8, <2>1, <2>2
  <2>4. Granted(n)
    BY <1>3, <1>6, <1>7, <1>10, <2>1, LevelIs DEF Granted
  <2> QED
    BY <2>2, <2>3, <2>4 DEF Abstractly
<1>11. CASE /\ n > 0 /\ r.took = n /\ n > LevelAt(tb, Tick)
            /\ LevelAt(r.tb, Tick) = LevelAt(tb, Tick) - n
            /\ \E d \in (Tick + 1) .. (Tick - (LevelAt(tb, Tick) - n)) :
                 /\ r.wait = d * FillInterval - now
                 /\ LevelAt(tb, Tick) - n + (d - Tick) * Quantum >= 0
                 /\ LevelAt(tb, Tick) - n + (d - 1 - Tick) * Quantum < 0
  <2>1. Level' = Level - n
    BY <1>3, <1>7, <1>11, LevelIs
  <2>2. PICK d \in (Tick + 1) .. (Tick - (LevelAt(tb, Tick) - n)) :
              /\ r.wait = d * FillInterval - now
              /\ LevelAt(tb, Tick) - n + (d - Tick) * Quantum >= 0
              /\ LevelAt(tb, Tick) - n + (d - 1 - Tick) * Quantum < 0
    BY <1>11
  <2>3. /\ d \in (Tick + 1) .. (Tick - Level')
        /\ Level' + (d - Tick) * Quantum >= 0
        /\ Level' + (d - 1 - Tick) * Quantum < 0
    BY <2>1, <2>2, LevelIs
  <2>4. d \in Nat /\ d >= Tick + 1 /\ d * FillInterval \in Nat
    <3>1. Tick \in Nat /\ Tick - Level' \in Int
      BY <1>1, <2>1, LevelIs
    <3>2. d \in Nat /\ d >= Tick + 1
      BY <2>3, <3>1
    <3> QED
      BY <1>1, <3>2
  <2>5. d * FillInterval >= (Tick + 1) * FillInterval
    BY <1>1, <2>4, LevelIs, SMT
  <2>6. r.wait > 0 /\ now + r.wait = d * FillInterval
    BY <1>1, <1>5, <2>2, <2>4, <2>5, LevelIs
  <2>7. /\ until' = [until EXCEPT ![c] = d * FillInterval]
        /\ mark' = [mark EXCEPT ![c] = granted']
        /\ passed' = passed /\ granted' = granted + n
    BY <1>3, <1>11, <2>6
  <2>8. Base'
    <3>1. granted' \in Nat
      BY <1>1, <1>5, <1>11, <2>7
    <3> QED
      BY <1>5, <1>8, <2>4, <2>7, <3>1
  <2>9. Reserved(c, n)
    BY <1>3, <1>6, <1>11, <2>1, <2>3, <2>7, LevelIs DEF Reserved
  <2> QED
    BY <2>8, <2>9 DEF Abstractly
<1> QED
  BY <1>2, <1>9, <1>10, <1>11 DEF TakesAt

LEMMA TakeAvailableStep ==
  ASSUME Base, NEW c \in Callers, NEW n \in Counts, TakeAvailable(c, n)
  PROVE  Base' /\ Abstractly
<1> DEFINE r == TakeAvailableOp(tb, now, n)
<1>1. n \in Int
  BY CallersAssumption
<1>2. /\ Sound(r.tb) /\ r.took \in Nat
      /\ LevelAt(r.tb, Tick) = LevelAt(tb, Tick) - r.took
      /\ r.took > 0 => r.took <= LevelAt(tb, Tick)
  BY <1>1, LevelIs, TakeAvailableOpTakes
<1>3. /\ tb' = r.tb /\ granted' = granted + r.took
      /\ passed' = IF r.took > 0 THEN granted' ELSE passed
      /\ UNCHANGED <<now, seen, until, mark>>
  BY DEF TakeAvailable
<1> HIDE DEF r
<1>4. Sound(tb') /\ tb' \in Buckets
  BY <1>2, <1>3 DEF Sound
<1>5. now \in Nat /\ granted \in Nat /\ passed \in Nat
  BY LevelIs DEF Base, TypeOK
<1>6. Tick' = Tick
  BY <1>3, <1>4, LevelIs, LevelOf DEF Tick
<1>7. Level' = Level - r.took
  BY <1>2, <1>3, <1>4, <1>6, LevelIs, LevelOf DEF Tick, Level
<1>8. Base'
  <2>1. granted' \in Nat /\ passed' \in Nat
    BY <1>2, <1>3, <1>5
  <2>2. TypeOK'
    BY <1>3, <1>4, <2>1 DEF Base, TypeOK
  <2> QED
    BY <1>3, <1>4, <2>2 DEF Base
<1>9. CASE r.took = 0
  BY <1>3, <1>5, <1>6, <1>7, <1>8, <1>9, LevelIs DEF Abstractly, Passage
<1>10. CASE r.took > 0
  <2>1. Granted(r.took)
    BY <1>2, <1>3, <1>6, <1>7, <1>10, LevelIs DEF Granted
  <2> QED
    BY <1>2, <1>8, <2>1 DEF Abstractly
<1> QED
  BY <1>2, <1>9, <1>10

LEMMA AvailableReadsClockStep ==
  ASSUME Base, NEW c \in Callers, AvailableReadsClock(c)
  PROVE  Base' /\ Abstractly
<1>1. /\ UNCHANGED <<now, tb, until, granted, mark, passed>>
      /\ seen' = [seen EXCEPT ![c] = now]
  BY DEF AvailableReadsClock
<1>2. TypeOK'
  BY <1>1, LevelIs DEF Base, TypeOK
<1>3. ASSUME NEW d \in Callers
      PROVE  seen'[d] <= now'
  BY <1>1, LevelIs DEF Base, TypeOK
<1>4. Base'
  BY <1>1, <1>2, <1>3 DEF Base
<1>5. Tick' = Tick /\ Level' = Level
  BY <1>1 DEF Tick, Level
<1> QED
  BY <1>1, <1>4, <1>5 DEF Abstractly, Passage

\* The step of a stale clock reading: the bucket changes, Level does not.
LEMMA AvailableAdjustsStep ==
  ASSUME Base, NEW c \in Callers, AvailableAdjusts(c)
  PROVE  Base' /\ Abstractly
<1> DEFINE s == CurrentTick(tb, seen[c])
<1>1. /\ UNCHANGED <<now, until, granted, mark, passed>>
      /\ seen' = [seen EXCEPT ![c] = None]
      /\ tb' = Adjust(tb, s, now)
  BY DEF AvailableAdjusts
<1>2. seen[c] \in Nat /\ seen[c] <= now
  BY DEF Base, TypeOK, AvailableAdjusts
<1>3. s \in Nat /\ s <= Tick
  <2>1. /\ s \in Nat /\ s * FillInterval <= seen[c] /\ s = seen[c] \div FillInterval
    BY <1>2, LevelIs, LevelOf
  <2>2. s * FillInterval <= now
    BY <1>2, <2>1, LevelIs, BucketAssumption
  <2> HIDE DEF s
  <2>3. now \div FillInterval >= s
    BY <2>1, <2>2, LevelIs, TickReached, BucketAssumption
  <2> QED
    BY <2>1, <2>3, LevelIs
<1> HIDE DEF s
<1>4. Sound(tb') /\ tb' \in Buckets /\ LevelAt(tb', Tick) = LevelAt(tb, Tick)
  <2>1. /\ Sound(Adjust(tb, s, now))
        /\ LevelAt(Adjust(tb, s, now), Tick) = LevelAt(tb, Tick)
    BY <1>3, LevelIs, AdjustKeepsLevel
  <2> QED
    BY <1>1, <2>1 DEF Sound
<1>5. Tick' = Tick
  BY <1>1, <1>4, LevelIs, LevelOf DEF Tick
<1>6. Level' = Level
  BY <1>1, <1>4, <1>5, LevelIs, LevelOf DEF Tick, Level
<1>7. Base'
  <2>1. TypeOK'
    BY <1>1, <1>4 DEF Base, TypeOK
  <2>2. ASSUME NEW d \in Callers
        PROVE  seen'[d] <= now'
    BY <1>1, LevelIs DEF Base, TypeOK, None
  <2> QED
    BY <1>4, <2>1, <2>2 DEF Base
<1> QED
  BY <1>1, <1>5, <1>6, <1>7 DEF Abstractly, Passage

LEMMA WakeStep ==
  ASSUME Base, NEW c \in Callers, Wake(c)
  PROVE  Base' /\ Abstractly
<1>1. UNCHANGED <<now, tb, seen, granted>>
  BY DEF Wake
<1>2. TypeOK'
  BY <1>1 DEF Base, TypeOK, Wake
<1>3. Base'
  BY <1>1, <1>2 DEF Base
<1>4. Tick' = Tick /\ Level' = Level
  BY <1>1 DEF Tick, Level
<1>5. Woken(c)
  BY <1>4 DEF Woken, Wake
<1> QED
  BY <1>3, <1>5 DEF Abstractly

LEMMA EveryStep ==
  ASSUME Base, [Next]_vars
  PROVE  Base' /\ Abstractly
<1>1. ASSUME NEW c \in Callers, NEW n \in Counts, Wait(c, n)
      PROVE  Base' /\ Abstractly
  BY <1>1, LeaveStep DEF Wait, Idle, Leave
<1>2. ASSUME NEW c \in Callers, NEW n \in Counts, NEW d \in MaxWaits,
             WaitMaxDuration(c, n, d)
      PROVE  Base' /\ Abstractly
  <2>1. d \in Nat \cup {Forever}
    BY CallersAssumption
  <2> QED
    BY <1>2, <2>1, LeaveStep DEF WaitMaxDuration, Idle
<1>3. CASE UNCHANGED vars
  <2>1. Base'
    BY <1>3 DEF vars, Base, TypeOK
  <2>2. Tick' = Tick /\ Level' = Level
    BY <1>3 DEF vars, Tick, Level
  <2> QED
    BY <1>3, <2>1, <2>2 DEF vars, Abstractly, Passage
<1> QED
  BY <1>1, <1>2, <1>3, AdvanceStep, WakeStep, TakeAvailableStep,
     AvailableReadsClockStep, AvailableAdjustsStep DEF Next

LEMMA InitBase ==
  ASSUME Init
  PROVE  Base /\ Tick = 0 /\ Level = Capacity
<1>1. now = 0 /\ tb = NewBucket(0)
  BY DEF Init
<1>2. tb \in Buckets /\ tb.availableTokens = Capacity /\ Sound(tb)
  BY <1>1, BucketAssumption DEF NewBucket, Buckets, Sound
<1>3. Base
  BY <1>1, <1>2, CallersAssumption DEF Init, Base, TypeOK, None
<1>4. Tick = 0
  <2>1. FillInterval * 0 <= now /\ now < FillInterval * 0 + FillInterval
    BY <1>1, BucketAssumption
  <2> QED
    BY <1>1, <1>3, <2>1, LevelIs, DivUnique, BucketAssumption
<1>5. Level = Capacity
  BY <1>2, <1>3, <1>4, LevelIs, LevelAtIs
<1> QED
  BY <1>3, <1>4, <1>5

-----------------------------------------------------------------------------
(* The inductive invariant *)

Due(c) == until[c] \div FillInterval

\* A sleeper sleeps to the beginning of a tick, and by then the bucket has
\* been filled up to the number of its last token.
SleepersPaidFor ==
  \A c \in Callers : until[c] # None =>
    /\ until[c] = Due(c) * FillInterval
    /\ mark[c] <= Capacity + Quantum * Due(c)

\* The tick before a sleeper's is too early for the overdraft ...
SleepersNeeded ==
  \A c \in Callers : until[c] # None /\ Due(c) > Tick =>
    Level + (Due(c) - 1 - Tick) * Quantum < 0

\* ... and one sleeper, the last to overdraw, waits until it is paid back.
OverdraftCovered ==
  Level < 0 => \E c \in Callers : /\ until[c] # None
                                  /\ Level + (Due(c) - Tick) * Quantum >= 0

IInv ==
  /\ Base
  /\ Conservation
  /\ RateBound
  /\ SleepersPaidFor
  /\ SleepersNeeded
  /\ OverdraftCovered

LEMMA InitIInv ==
  ASSUME Init
  PROVE  IInv
<1>1. Base /\ Tick = 0 /\ Level = Capacity
  BY InitBase
<1>2. \A c \in Callers : until[c] = None
  BY DEF Init
<1>3. granted = 0 /\ passed = 0
  BY DEF Init
<1> QED
  BY <1>1, <1>2, <1>3, BucketAssumption
     DEF IInv, Conservation, RateBound, SleepersPaidFor, SleepersNeeded,
         OverdraftCovered

\* While somebody's tick is still to come the bucket is overdrawn.
LEMMA WaitingMeansOverdrawn ==
  ASSUME IInv, NEW c \in Callers, until[c] # None, Due(c) > Tick
  PROVE  Level < 0
<1>1. Level + (Due(c) - 1 - Tick) * Quantum < 0
  BY DEF IInv, SleepersNeeded
<1>2. Level \in Int /\ Tick \in Nat
  BY LevelIs DEF IInv
<1>3. Due(c) \in Int
  BY BucketAssumption, DivIs DEF IInv, Base, TypeOK, Due
<1>4. (Due(c) - 1 - Tick) * Quantum >= 0
  BY <1>2, <1>3, BucketAssumption, SMT
<1> QED
  BY <1>1, <1>2, <1>3, <1>4, BucketAssumption

\* A sleep is over exactly when its tick has come.
LEMMA DueReached ==
  ASSUME IInv, NEW c \in Callers, until[c] # None
  PROVE  /\ Due(c) \in Nat /\ until[c] = Due(c) * FillInterval
         /\ until[c] > now <=> Due(c) > Tick
<1>1. until[c] \in Nat
  BY DEF IInv, Base, TypeOK
<1>2. Due(c) \in Nat
  BY <1>1, BucketAssumption, TickReached, DivIs DEF Due
<1>3. until[c] = Due(c) * FillInterval
  BY DEF IInv, SleepersPaidFor
<1>4. now \div FillInterval >= Due(c) <=> now >= Due(c) * FillInterval
  BY <1>2, LevelIs, TickReached, BucketAssumption DEF IInv
<1>5. Tick >= Due(c) <=> now >= until[c]
  BY <1>3, <1>4, LevelIs DEF IInv
<1> QED
  BY <1>1, <1>2, <1>3, <1>5, LevelIs DEF IInv

LEMMA PassageKeepsIInv ==
  ASSUME IInv, Base', Passage
  PROVE  IInv'
<1>1. /\ until' = until /\ mark' = mark /\ granted' = granted /\ passed' = passed
      /\ \A c \in Callers : Due(c)' = Due(c)
  BY DEF Passage, Due
<1>2. /\ Level \in Int /\ Level <= Capacity /\ Tick \in Nat
      /\ granted \in Nat /\ passed \in Nat
      /\ Quantum \in Nat \ {0} /\ Capacity \in Nat \ {0}
  BY LevelIs, BucketAssumption DEF IInv, Base, TypeOK
<1>3. SleepersPaidFor'
  BY <1>1 DEF IInv, SleepersPaidFor
<1>4. CASE Tick' = Tick /\ Level' = Level
  <2>1. Conservation' /\ RateBound'
    BY <1>1, <1>4 DEF IInv, Conservation, RateBound
  <2>2. SleepersNeeded' /\ OverdraftCovered'
    BY <1>1, <1>4 DEF IInv, SleepersNeeded, OverdraftCovered
  <2> QED
    BY <1>3, <2>1, <2>2 DEF IInv
<1>5. CASE /\ Tick' = Tick + 1
           /\ Level' = IF Level + Quantum > Capacity THEN Capacity ELSE Level + Quantum
  <2>1. Quantum * (Tick + 1) = Quantum * Tick + Quantum /\ Quantum * Tick \in Nat
    BY <1>2, SMT
  <2>2. Conservation' /\ RateBound'
    BY <1>1, <1>2, <1>5, <2>1 DEF IInv, Conservation, RateBound
  <2>3. ASSUME NEW c \in Callers, until'[c] # None, Due(c)' > Tick'
        PROVE  Level' + (Due(c)' - 1 - Tick') * Quantum < 0
    <3>1. Due(c)' = Due(c) /\ until[c] # None /\ Due(c) > Tick + 1 /\ Due(c) \in Nat
      BY <1>1, <1>5, <2>3, DueReached
    <3>2. Level + (Due(c) - 1 - Tick) * Quantum < 0
      BY <1>2, <3>1 DEF IInv, SleepersNeeded
    <3> DEFINE e == Due(c) - 1 - (Tick + 1)
    <3>3. e \in Nat /\ Due(c) - 1 - Tick = e + 1
      BY <1>2, <3>1
    <3>4. e * Quantum \in Nat /\ (e + 1) * Quantum = e * Quantum + Quantum
      BY <1>2, <3>3, SMT
    <3> QED
      BY <1>1, <1>2, <1>5, <3>1, <3>2, <3>3, <3>4
  <2>4. OverdraftCovered'
    <3> SUFFICES ASSUME Level' < 0
                 PROVE  \E c \in Callers :
                          until'[c] # None /\ Level' + (Due(c)' - Tick') * Quantum >= 0
      BY DEF OverdraftCovered
    <3>1. Level < 0 /\ Level' = Level + Quantum
      BY <1>2, <1>5
    <3>2. PICK c \in Callers : until[c] # None /\ Level + (Due(c) - Tick) * Quantum >= 0
      BY <3>1 DEF IInv, OverdraftCovered
    <3>3. Due(c) \in Nat
      BY <3>2, DueReached
    <3>4. (Due(c) - Tick) * Quantum = (Due(c) - (Tick + 1)) * Quantum + Quantum
      BY <1>2, <3>3, SMT
    <3>5. (Due(c) - (Tick + 1)) * Quantum \in Int
      BY <1>2, <3>3
    <3> QED
      BY <1>1, <1>2, <1>5, <3>1, <3>2, <3>4, <3>5
  <2> QED
    BY <1>3, <2>2, <2>3, <2>4 DEF IInv, SleepersNeeded
<1> QED
  BY <1>4, <1>5 DEF Passage

LEMMA GrantedKeepsIInv ==
  ASSUME IInv, Base', NEW n \in Nat, Granted(n)
  PROVE  IInv'
<1>1. /\ n > 0 /\ n <= Level /\ Level' = Level - n /\ Tick' = Tick
      /\ until' = until /\ mark' = mark
      /\ granted' = granted + n /\ passed' = granted'
      /\ \A c \in Callers : Due(c)' = Due(c)
  BY DEF Granted, Due
<1>2. /\ Level \in Int /\ Tick \in Nat /\ granted \in Nat
      /\ Quantum * Tick \in Nat /\ Capacity \in Nat
  BY LevelIs, BucketAssumption DEF IInv, Base, TypeOK
<1>3. Conservation' /\ RateBound'
  BY <1>1, <1>2 DEF IInv, Conservation, RateBound
<1>4. SleepersPaidFor'
  BY <1>1 DEF IInv, SleepersPaidFor
<1>5. SleepersNeeded'
  <2>1. \A c \in Callers : ~ (until[c] # None /\ Due(c) > Tick)
    BY <1>1, <1>2, WaitingMeansOverdrawn
  <2> QED
    BY <1>1, <2>1 DEF SleepersNeeded
<1>6. OverdraftCovered'
  BY <1>1, <1>2 DEF OverdraftCovered
<1> QED
  BY <1>3, <1>4, <1>5, <1>6 DEF IInv

LEMMA ReservedKeepsIInv ==
  ASSUME IInv, Base', NEW c \in Callers, NEW n \in Counts, Reserved(c, n)
  PROVE  IInv'
<1>1. /\ n > 0 /\ n > Level /\ Level' = Level - n /\ Tick' = Tick
      /\ granted' = granted + n /\ passed' = passed
      /\ mark' = [mark EXCEPT ![c] = granted']
  BY DEF Reserved
<1>2. /\ Level \in Int /\ Tick \in Nat /\ granted \in Nat /\ n \in Nat
      /\ Quantum \in Nat \ {0} /\ FillInterval \in Nat \ {0} /\ Capacity \in Nat
      /\ until \in [Callers -> Nat \cup {None}] /\ mark \in [Callers -> Nat]
  <2>1. n \in Nat
    BY <1>1, CallersAssumption
  <2> QED
    BY <2>1, LevelIs, BucketAssumption DEF IInv, Base, TypeOK
<1>3. PICK d \in (Tick + 1) .. (Tick - Level') :
            /\ until' = [until EXCEPT ![c] = d * FillInterval]
            /\ Level' + (d - Tick) * Quantum >= 0
            /\ Level' + (d - 1 - Tick) * Quantum < 0
  BY DEF Reserved
<1>4. d \in Nat /\ d > Tick
  BY <1>1, <1>2
<1>5. /\ until'[c] = d * FillInterval /\ mark'[c] = granted'
      /\ \A e \in Callers \ {c} : until'[e] = until[e] /\ mark'[e] = mark[e]
  BY <1>1, <1>2, <1>3
<1>6. Due(c)' = d
  <2> DEFINE u == d * FillInterval
  <2>1. /\ u \in Int /\ FillInterval * d <= u /\ u < FillInterval * d + FillInterval
    BY <1>2, <1>4
  <2>2. u \div FillInterval = d
    <3> HIDE DEF u
    <3> QED
      BY <1>2, <1>4, <2>1, DivUnique
  <2> QED
    BY <1>5, <2>2 DEF Due
<1>7. \A e \in Callers \ {c} : Due(e)' = Due(e)
  BY <1>5 DEF Due
<1>8. Conservation' /\ RateBound'
  <2>1. Quantum * Tick \in Nat
    BY <1>2
  <2> QED
    BY <1>1, <1>2, <2>1 DEF IInv, Conservation, RateBound
<1>9. SleepersPaidFor'
  <2>1. Quantum * d = Quantum * Tick + (d - Tick) * Quantum
    BY <1>2, <1>4, SMT
  <2>2. Quantum * d \in Nat /\ Quantum * Tick \in Nat /\ (d - Tick) * Quantum \in Int
    BY <1>2, <1>4
  <2>3. mark'[c] <= Capacity + Quantum * d
    BY <1>1, <1>2, <1>3, <1>5, <2>1, <2>2 DEF IInv, Conservation
  <2> QED
    BY <1>5, <1>6, <1>7, <2>3 DEF IInv, SleepersPaidFor
<1>10. SleepersNeeded'
  <2>1. ASSUME NEW e \in Callers \ {c}, until[e] # None, Due(e) > Tick
        PROVE  Level' + (Due(e) - 1 - Tick) * Quantum < 0
    <3>1. Level + (Due(e) - 1 - Tick) * Quantum < 0 /\ Due(e) \in Nat
      BY <2>1, DueReached DEF IInv, SleepersNeeded
    <3>2. (Due(e) - 1 - Tick) * Quantum \in Int
      BY <1>2, <3>1
    <3> QED
      BY <1>1, <1>2, <3>1, <3>2
  <2>2. Level' + (Due(c)' - 1 - Tick') * Quantum < 0
    BY <1>1, <1>3, <1>6
  <2> QED
    BY <1>1, <1>5, <1>7, <2>1, <2>2 DEF SleepersNeeded
<1>11. OverdraftCovered'
  <2>1. until'[c] # None
    BY <1>2, <1>4, <1>5 DEF None
  <2> QED
    BY <1>1, <1>3, <1>6, <2>1 DEF OverdraftCovered
<1> QED
  BY <1>8, <1>9, <1>10, <1>11 DEF IInv

LEMMA WokenKeepsIInv ==
  ASSUME IInv, Base', NEW c \in Callers, Woken(c)
  PROVE  IInv'
<1>1. /\ Level' = Level /\ Tick' = Tick /\ now' = now /\ granted' = granted
      /\ until[c] # None /\ now >= until[c]
      /\ until' = [until EXCEPT ![c] = None]
      /\ mark' = [mark EXCEPT ![c] = 0]
      /\ passed' = IF mark[c] > passed THEN mark[c] ELSE passed
  BY DEF Woken
<1>2. /\ Level \in Int /\ Tick \in Nat /\ Quantum \in Nat \ {0} /\ Capacity \in Nat
      /\ until \in [Callers -> Nat \cup {None}] /\ mark \in [Callers -> Nat]
      /\ passed \in Nat /\ now \in Nat
  BY LevelIs, BucketAssumption DEF IInv, Base, TypeOK
<1>3. /\ until'[c] = None
      /\ \A e \in Callers \ {c} :
           until'[e] = until[e] /\ mark'[e] = mark[e] /\ Due(e)' = Due(e)
  BY <1>1, <1>2 DEF Due
<1>4. Due(c) \in Nat /\ Due(c) <= Tick
  BY <1>1, <1>2, DueReached
<1>5. RateBound'
  <2>1. mark[c] <= Capacity + Quantum * Due(c)
    BY <1>1 DEF IInv, SleepersPaidFor
  <2>2. /\ Quantum * Due(c) <= Quantum * Tick
        /\ Quantum * Due(c) \in Nat /\ Quantum * Tick \in Nat
    BY <1>2, <1>4, SMT
  <2> QED
    BY <1>1, <1>2, <2>1, <2>2 DEF IInv, RateBound
<1>6. Conservation'
  BY <1>1 DEF IInv, Conservation
<1>7. SleepersPaidFor' /\ SleepersNeeded'
  BY <1>1, <1>3 DEF IInv, SleepersPaidFor, SleepersNeeded
<1>8. OverdraftCovered'
  <2> SUFFICES ASSUME Level < 0
               PROVE  \E e \in Callers :
                        until'[e] # None /\ Level' + (Due(e)' - Tick') * Quantum >= 0
    BY <1>1 DEF OverdraftCovered
  <2>1. PICK e \in Callers : until[e] # None /\ Level + (Due(e) - Tick) * Quantum >= 0
    BY DEF IInv, OverdraftCovered
  <2>2. (Due(c) - Tick) * Quantum <= 0
    BY <1>2, <1>4, SMT
  <2>3. e # c
    <3>1. (Due(c) - Tick) * Quantum \in Int
      BY <1>2, <1>4
    <3> QED
      BY <1>2, <2>1, <2>2, <3>1
  <2> QED
    BY <1>1, <1>3, <2>1, <2>3
<1> QED
  BY <1>5, <1>6, <1>7, <1>8 DEF IInv

LEMMA NextKeepsIInv ==
  ASSUME IInv, [Next]_vars
  PROVE  IInv'
<1>1. Base' /\ Abstractly
  BY EveryStep DEF IInv
<1> QED
  BY <1>1, PassageKeepsIInv, GrantedKeepsIInv, ReservedKeepsIInv, WokenKeepsIInv
     DEF Abstractly

\* IInv is an invariant of the bucket.
THEOREM Invariant == Spec => []IInv
<1>1. Init => IInv
  BY InitIInv
<1>2. IInv /\ [Next]_vars => IInv'
  BY NextKeepsIInv
<1> QED
  BY <1>1, <1>2, PTL DEF Spec

-----------------------------------------------------------------------------
(* The properties *)

\* Every variable keeps its type, the bucket's counters included.
THEOREM TypeCorrect == Spec => []TypeOK
<1>1. IInv => TypeOK
  BY DEF IInv, Base
<1> QED
  BY <1>1, Invariant, PTL

\* No token is handed out twice, stale readings of Available included.
THEOREM Conserved == Spec => []Conservation
<1>1. IInv => Conservation
  BY DEF IInv
<1> QED
  BY <1>1, Invariant, PTL

\* Nobody returns with a token before the bucket has been filled up to it.
THEOREM RateBounded == Spec => []RateBound
<1>1. IInv => RateBound
  BY DEF IInv
<1> QED
  BY <1>1, Invariant, PTL

\* The bucket is overdrawn exactly while somebody sleeps for its tokens.
THEOREM OverdrawnExactly == Spec => []OverdrawnIffWaiting
<1>1. ASSUME IInv
      PROVE  OverdrawnIffWaiting
  <2>1. ASSUME NEW c \in Callers, until[c] # None, until[c] > now
        PROVE  Level < 0
    BY <1>1, <2>1, DueReached, WaitingMeansOverdrawn
  <2>2. ASSUME Level < 0
        PROVE  \E c \in Callers : until[c] # None /\ until[c] > now
    <3>1. PICK c \in Callers : until[c] # None /\ Level + (Due(c) - Tick) * Quantum >= 0
      BY <1>1, <2>2 DEF IInv, OverdraftCovered
    <3>2. Due(c) \in Nat /\ Level \in Int /\ Tick \in Nat
      BY <1>1, <3>1, DueReached, LevelIs DEF IInv
    <3>3. Due(c) <= Tick => (Due(c) - Tick) * Quantum <= 0
      BY <3>2, BucketAssumption, SMT
    <3>4. Due(c) > Tick
      <4>1. (Due(c) - Tick) * Quantum \in Int
        BY <3>2, BucketAssumption
      <4> QED
        BY <2>2, <3>1, <3>2, <3>3, <4>1
    <3> QED
      BY <1>1, <3>1, <3>4, DueReached
  <2> QED
    BY <2>1, <2>2 DEF OverdrawnIffWaiting
<1> QED
  BY <1>1, Invariant, PTL

\* take refuses exactly those whose tokens would not be there in time.
THEOREM RefusesExactly == Spec => []RefusalExact
<1>1. ASSUME IInv, NEW n \in Counts, NEW d \in MaxWaits
      PROVE  LET deadline == CurrentTick(tb, now + d)
             IN  TakeOp(tb, now, n, d).ok
                   <=> n <= 0 \/ n <= Level + (deadline - Tick) * Quantum
  <2> DEFINE left == Level - n
             e == EndTick(Tick, left)
             deadline == CurrentTick(tb, now + d)
             ok == TakeOp(tb, now, n, d).ok
  <2>1. /\ n \in Int /\ d \in Nat /\ d # Forever /\ d \in Nat \cup {Forever}
        /\ Quantum \in Nat \ {0} /\ FillInterval \in Nat \ {0}
    BY CallersAssumption, BucketAssumption DEF Forever
  <2>2. /\ now \in Nat /\ tb \in Buckets /\ Sound(tb) /\ Tick \in Nat
        /\ Tick = now \div FillInterval /\ Level = LevelAt(tb, Tick)
        /\ Level \in Int /\ Tick * FillInterval <= now
    BY <1>1, LevelIs DEF IInv
  <2>3. ok <=> n <= 0 \/ left >= 0 \/ ~ (e * FillInterval - now > d)
    <3>1. TakeOp(tb, now, n, d) =
            IF n <= 0
            THEN [tb |-> tb, took |-> 0, wait |-> 0, ok |-> TRUE]
            ELSE IF left >= 0
            THEN [tb |-> [Adjust(tb, Tick, now) EXCEPT !.availableTokens = left],
                  took |-> n, wait |-> 0, ok |-> TRUE]
            ELSE IF d # Forever /\ e * FillInterval - now > d
            THEN [tb |-> Adjust(tb, Tick, now), took |-> 0, wait |-> 0, ok |-> FALSE]
            ELSE [tb |-> [Adjust(tb, Tick, now) EXCEPT !.availableTokens = left],
                  took |-> n, wait |-> e * FillInterval - now, ok |-> TRUE]
      BY <2>1, <2>2, TakeOpIs
    <3> HIDE DEF e, left
    <3> QED
      BY <2>1, <3>1
  <2>4. /\ deadline \in Nat /\ deadline = (now + d) \div FillInterval
        /\ deadline >= Tick
    <3>1. now + d \in Nat /\ Tick * FillInterval <= now + d
      BY <2>1, <2>2
    <3>2. deadline \in Nat /\ deadline = (now + d) \div FillInterval
      BY <2>2, <3>1, LevelOf
    <3> HIDE DEF deadline
    <3> QED
      BY <2>1, <2>2, <3>1, <3>2, TickReached
  <2> HIDE DEF deadline, ok
  <2>5. CASE n <= 0
    BY <2>3, <2>5 DEF ok, deadline
  <2>6. CASE n > 0 /\ left >= 0
    <3>1. (deadline - Tick) * Quantum \in Nat
      BY <2>1, <2>2, <2>4, SMT
    <3>2. n <= Level + (deadline - Tick) * Quantum
      BY <2>1, <2>2, <2>6, <3>1
    <3> QED
      BY <2>3, <2>6, <3>2 DEF ok, deadline
  <2>7. CASE n > 0 /\ left < 0
    <3>1. left \in Int
      BY <2>1, <2>2
    <3> HIDE DEF left
    <3>2. /\ e \in Int
          /\ left + (e - Tick) * Quantum >= 0
          /\ left + (e - 1 - Tick) * Quantum < 0
      BY <2>2, <2>7, <3>1, EndTickIs
    <3> HIDE DEF e
    <3>3. ~ (e * FillInterval - now > d) <=> deadline >= e
      <4>1. now + d \in Int
        BY <2>1, <2>2
      <4>2. deadline >= e <=> now + d >= e * FillInterval
        BY <2>1, <2>4, <3>2, <4>1, TickReached
      <4>3. e * FillInterval \in Int
        BY <2>1, <3>2
      <4> QED
        BY <2>1, <2>2, <4>2, <4>3
    <3>4. deadline >= e => left + (deadline - Tick) * Quantum >= 0
      <4>1. deadline >= e => (deadline - Tick) * Quantum >= (e - Tick) * Quantum
        BY <2>1, <2>2, <2>4, <3>2, SMT
      <4> QED
        BY <2>1, <2>2, <2>4, <3>1, <3>2, <4>1
    <3>5. deadline < e => left + (deadline - Tick) * Quantum < 0
      <4>1. deadline < e => (deadline - Tick) * Quantum <= (e - 1 - Tick) * Quantum
        BY <2>1, <2>2, <2>4, <3>2, SMT
      <4> QED
        BY <2>1, <2>2, <2>4, <3>1, <3>2, <4>1
    <3>6. (deadline - Tick) * Quantum \in Int
      BY <2>1, <2>2, <2>4
    <3>7. left + (deadline - Tick) * Quantum >= 0
            <=> n <= Level + (deadline - Tick) * Quantum
      BY <2>1, <2>2, <3>6 DEF left
    <3>8. ok <=> left + (deadline - Tick) * Quantum >= 0
      BY <2>1, <2>3, <2>4, <2>7, <3>1, <3>2, <3>3, <3>4, <3>5, <3>6
    <3> QED
      BY <2>1, <2>7, <3>7, <3>8 DEF ok, deadline
  <2> QED
    BY <2>1, <2>2, <2>5, <2>6, <2>7
<1>2. IInv => RefusalExact
  BY <1>1 DEF RefusalExact
<1> QED
  BY <1>2, Invariant, PTL

\* First come, first served: while somebody sleeps for tokens nobody takes
\* any without sleeping at least as long.
THEOREM NobodyOvertakes == Spec => NoOvertaking
<1> DEFINE Fair == \A c \in Callers :
                     until[c] > now /\ granted' > granted
                       => \E d \in Callers : until[d] = None /\ until'[d] >= until[c]
<1>1. ASSUME IInv, [Next]_vars
      PROVE  Fair
  <2>1. Base' /\ Abstractly
    BY <1>1, EveryStep DEF IInv
  <2>2. /\ Level \in Int /\ Tick \in Nat /\ granted \in Nat /\ now \in Nat
        /\ Quantum \in Nat \ {0} /\ FillInterval \in Nat \ {0}
        /\ until \in [Callers -> Nat \cup {None}]
    BY <1>1, LevelIs, BucketAssumption DEF IInv, Base, TypeOK
  <2> SUFFICES ASSUME NEW c \in Callers, until[c] > now, granted' > granted
               PROVE  \E e \in Callers : until[e] = None /\ until'[e] >= until[c]
    OBVIOUS
  <2>3. /\ until[c] # None /\ Due(c) \in Nat /\ Due(c) > Tick
        /\ until[c] = Due(c) * FillInterval
    <3>1. until[c] # None
      BY <2>2 DEF None
    <3> QED
      BY <1>1, <3>1, DueReached
  <2>4. Level < 0 /\ Level + (Due(c) - 1 - Tick) * Quantum < 0
    BY <1>1, <2>3, WaitingMeansOverdrawn DEF IInv, SleepersNeeded
  <2>5. PICK e \in Callers : \E n \in Counts : Reserved(e, n)
    BY <2>1, <2>2, <2>4 DEF Abstractly, Passage, Granted, Woken
  <2>6. PICK n \in Counts : Reserved(e, n)
    BY <2>5
  <2>7. PICK d \in (Tick + 1) .. (Tick - Level') :
              /\ until' = [until EXCEPT ![e] = d * FillInterval]
              /\ Level' + (d - Tick) * Quantum >= 0
    BY <2>6 DEF Reserved
  <2>8. n \in Nat /\ n > 0 /\ Level' = Level - n /\ until[e] = None
    BY <2>6, CallersAssumption DEF Reserved
  <2>9. d \in Nat
    BY <2>2, <2>7, <2>8
  <2>10. (d - Tick) * Quantum > (Due(c) - 1 - Tick) * Quantum
    <3>1. (d - Tick) * Quantum \in Int /\ (Due(c) - 1 - Tick) * Quantum \in Int
      BY <2>2, <2>3, <2>9
    <3> QED
      BY <2>2, <2>4, <2>7, <2>8, <3>1
  <2>11. d >= Due(c)
    <3>1. d <= Due(c) - 1 => (d - Tick) * Quantum <= (Due(c) - 1 - Tick) * Quantum
      BY <2>2, <2>3, <2>9, SMT
    <3>2. (d - Tick) * Quantum \in Int /\ (Due(c) - 1 - Tick) * Quantum \in Int
      BY <2>2, <2>3, <2>9
    <3> QED
      BY <2>3, <2>9, <2>10, <3>1, <3>2
  <2>12. d * FillInterval >= Due(c) * FillInterval
    BY <2>2, <2>3, <2>9, <2>11, SMT
  <2> QED
    BY <2>2, <2>3, <2>7, <2>8, <2>12
<1>2. IInv /\ [Next]_vars => [Fair]_vars
  BY <1>1
<1> QED
  BY <1>2, Invariant, PTL DEF Spec, NoOvertaking

-----------------------------------------------------------------------------
(* The refinement *)

LEMMA InitImplements ==
  ASSUME Init
  PROVE  Eager!Init
<1>1. Tick = 0 /\ Level = Capacity
  BY InitBase
<1>2. \A c \in Callers : until[c] = None
  BY DEF Init
<1> QED
  BY <1>1, <1>2 DEF Eager!Init, Eager!NotWaiting, None

\* Every step of the bucket is a step of the eager one, or changes nothing
\* that can be seen from outside.
LEMMA NextImplements ==
  ASSUME IInv, [Next]_vars
  PROVE  [Eager!Next]_(Eager!vars)
<1> DEFINE due == [c \in Callers |-> IF until[c] = None THEN None ELSE Due(c)]
<1>1. Base' /\ Abstractly
  BY EveryStep DEF IInv
<1>2. /\ Level \in Int /\ Tick \in Nat /\ now \in Nat
      /\ Quantum \in Nat \ {0} /\ FillInterval \in Nat \ {0}
      /\ until \in [Callers -> Nat \cup {None}]
  BY LevelIs, BucketAssumption DEF IInv, Base, TypeOK
<1>3. CASE Passage
  <2>1. due' = due
    BY <1>3 DEF Passage, Due
  <2> QED
    BY <1>3, <2>1 DEF Passage, Eager!Next, Eager!Fill, Eager!vars, Due
<1>4. ASSUME NEW n \in Nat, Granted(n)
      PROVE  Eager!Next
  <2>1. due' = due
    BY <1>4 DEF Granted, Due
  <2>2. n \in 1 .. Level
    BY <1>2, <1>4 DEF Granted
  <2>3. Eager!Grant(n)
    BY <1>4, <2>1 DEF Granted, Eager!Grant, Due
  <2> QED
    BY <2>2, <2>3 DEF Eager!Next
<1>5. ASSUME NEW c \in Callers, NEW n \in Counts, Reserved(c, n)
      PROVE  Eager!Next
  <2>1. PICK d \in (Tick + 1) .. (Tick - Level') :
              /\ until' = [until EXCEPT ![c] = d * FillInterval]
              /\ Level' + (d - Tick) * Quantum >= 0
              /\ Level' + (d - 1 - Tick) * Quantum < 0
    BY <1>5 DEF Reserved
  <2>2. d \in Nat /\ until[c] = None
    <3>1. n \in Nat /\ Level' = Level - n /\ until[c] = None
      BY <1>5, CallersAssumption DEF Reserved
    <3> QED
      BY <1>2, <2>1, <3>1
  <2>3. (d * FillInterval) \div FillInterval = d
    <3> DEFINE u == d * FillInterval
    <3>1. u \in Int /\ FillInterval * d <= u /\ u < FillInterval * d + FillInterval
      BY <1>2, <2>2
    <3> HIDE DEF u
    <3>2. u \div FillInterval = d
      BY <1>2, <2>2, <3>1, DivUnique
    <3> QED
      BY <3>2 DEF u
  <2>4. until'[c] = d * FillInterval /\ until'[c] # None
    BY <1>2, <2>1, <2>2 DEF None
  <2>5. due' = [due EXCEPT ![c] = d]
    <3>1. ASSUME NEW e \in Callers \ {c}
          PROVE  due'[e] = due[e]
      BY <1>2, <2>1 DEF Due
    <3>2. due'[c] = d
      BY <2>3, <2>4 DEF Due
    <3> QED
      BY <3>1, <3>2
  <2>6. due[c] = Eager!NotWaiting
    BY <2>2 DEF None, Eager!NotWaiting
  <2>7. Eager!Reserve(c, n)
    BY <1>5, <2>1, <2>5, <2>6 DEF Reserved, Eager!Reserve, Due
  <2> QED
    BY <2>7 DEF Eager!Next
<1>6. ASSUME NEW c \in Callers, Woken(c)
      PROVE  Eager!Next
  <2>1. /\ Level' = Level /\ Tick' = Tick /\ until[c] # None /\ now >= until[c]
        /\ until' = [until EXCEPT ![c] = None]
    BY <1>6 DEF Woken
  <2>2. Due(c) \in Nat /\ Due(c) <= Tick
    BY <1>2, <2>1, DueReached
  <2>3. due[c] = Due(c) /\ due[c] # Eager!NotWaiting
    BY <2>1, <2>2 DEF Eager!NotWaiting
  <2>4. due' = [due EXCEPT ![c] = Eager!NotWaiting]
    BY <1>2, <2>1 DEF Due, None, Eager!NotWaiting
  <2>5. Eager!Pass(c)
    BY <2>1, <2>2, <2>3, <2>4 DEF Eager!Pass, Due
  <2> QED
    BY <2>5 DEF Eager!Next
<1> QED
  BY <1>1, <1>3, <1>4, <1>5, <1>6 DEF Abstractly

\* The lazily refilled bucket implements the eagerly refilled one.
THEOREM Refinement == Spec => ImplementsEager
<1>1. Init => Eager!Init
  BY InitImplements
<1>2. IInv /\ [Next]_vars => [Eager!Next]_(Eager!vars)
  BY NextImplements
<1> QED
  BY <1>1, <1>2, Invariant, PTL DEF Spec, ImplementsEager, Eager!Spec
=============================================================================
