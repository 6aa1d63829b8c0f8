--------------------------- MODULE FlowLimitProofs ---------------------------
(***************************************************************************)
(* The safety properties of FlowLimit for every number of handlers and     *)
(* keys, and for every rate and expiry.                                    *)
(***************************************************************************)
EXTENDS FlowLimit, FiniteSetTheorems, TLAPS

TokenBuckets ==
  [startTime : Nat, latestTick : Nat, availableTokens : Nat, lastTakeTime : Int]

BucketEntries == [key : Keys, tb : TokenBuckets, given : Nat, usedAt : Nat \cup {Never}]

\* A handler is idle, has missed a key, or holds one of n buckets.
HandlerState(s, n) ==
  \/ s = Idle
  \/ \E k \in Keys : s = Missed(k)
  \/ \E k \in Keys, b \in 1 .. n : s = Taking(k, b)

\* The types of the variables.
Typed ==
  /\ now \in Nat
  /\ limiters \in [Keys -> 0 .. Len(buckets)]
  /\ count \in Int
  /\ maxSize \in Nat
  /\ buckets \in Seq(BucketEntries)
  /\ handler = [h \in Handlers |-> handler[h]]
  /\ \A h \in Handlers : HandlerState(handler[h], Len(buckets))
  /\ evictions \in [Keys -> Nat]

\* The buckets made for k, and the handlers that have missed k.
Of(k) == {b \in BucketIds : buckets[b].key = k}
Missing(k) == {h \in Handlers : handler[h] = Missed(k)}

\* The buckets a key may have: while the map has none for k, any handler may
\* still miss it; once the map has one, those that have missed it add the last
\* ones before k is evicted.
AddsCovered ==
  \A k \in Keys :
    IF limiters[k] = Absent
    THEN Cardinality(Of(k)) <= Cardinality(Handlers) * evictions[k]
    ELSE Cardinality(Of(k)) + Cardinality(Missing(k))
           <= Cardinality(Handlers) * (evictions[k] + 1)

\* What a bucket gave and what it has left, its refills have brought.
GivenCovered ==
  \A b \in BucketIds :
    LET tb == buckets[b].tb
    IN  /\ tb.startTime <= now
        /\ tb.latestTick * FillInterval <= now - tb.startTime
        /\ tb.availableTokens <= Capacity
        /\ buckets[b].given + tb.availableTokens <= Capacity + Quantum * tb.latestTick

IInv == Typed /\ ChargedToOwnKey /\ CountCoversMap /\ AddsCovered /\ GivenCovered

-----------------------------------------------------------------------------
(* What the proofs need of division and of the map *)

\* The tick that a time falls in has begun, and the next one has not.
LEMMA TickBounds ==
  ASSUME NEW n \in Nat
  PROVE  /\ n \div FillInterval \in Nat
         /\ (n \div FillInterval) * FillInterval <= n
         /\ n < (n \div FillInterval) * FillInterval + FillInterval
  BY BucketAssumption, SMT

\* A tick that has begun by the time n is not after the tick of n.
LEMMA TickReached ==
  ASSUME NEW n \in Nat, NEW t \in Nat, t * FillInterval <= n
  PROVE  t <= n \div FillInterval
<1> DEFINE q == n \div FillInterval
<1>1. q \in Nat /\ n < q * FillInterval + FillInterval
  BY TickBounds
<1> HIDE DEF q
<1>2. t >= q + 1 => t * FillInterval >= q * FillInterval + FillInterval
  BY <1>1, BucketAssumption, SMT
<1>3. t <= q
  BY <1>1, <1>2, BucketAssumption, SMT
<1> QED
  BY <1>3 DEF q

\* The products that AddsCovered is about.
LEMMA ProductAfter ==
  ASSUME NEW m \in Nat, NEW e \in Nat
  PROVE  m * e \in Nat /\ m * (e + 1) = m * e + m /\ m * ((e + 1) + 1) = m * e + 2 * m
  BY SMT

\* The fields of an entry of buckets.
LEMMA EntryFields ==
  ASSUME NEW e \in BucketEntries
  PROVE  /\ e.key \in Keys /\ e.tb \in TokenBuckets /\ e.given \in Nat
         /\ e.tb.startTime \in Nat /\ e.tb.latestTick \in Nat
         /\ e.tb.availableTokens \in Nat
         /\ e.tb.latestTick * FillInterval \in Nat /\ Quantum * e.tb.latestTick \in Nat
<1>1. e.key \in Keys /\ e.tb \in TokenBuckets /\ e.given \in Nat
  BY DEF BucketEntries
<1>2. /\ e.tb.startTime \in Nat /\ e.tb.latestTick \in Nat
      /\ e.tb.availableTokens \in Nat
  BY <1>1 DEF TokenBuckets
<1> QED
  BY <1>1, <1>2, BucketAssumption

\* An entry after Serve.
LEMMA EntryAfter ==
  ASSUME NEW e \in BucketEntries, NEW tb, NEW n, NEW at
  PROVE  [e EXCEPT !.tb = tb, !.given = @ + n, !.usedAt = at]
           = [key |-> e.key, tb |-> tb, given |-> e.given + n, usedAt |-> at]
<1> DEFINE a == [e EXCEPT !.tb = tb]
           c == [a EXCEPT !.given = e.given + n]
<1>1. a = [key |-> e.key, tb |-> tb, given |-> e.given, usedAt |-> e.usedAt]
  BY DEF BucketEntries
<1>2. c = [key |-> e.key, tb |-> tb, given |-> e.given + n, usedAt |-> e.usedAt]
  <2> HIDE DEF a
  <2> QED
    BY <1>1
<1>3. [c EXCEPT !.usedAt = at] = [key |-> e.key, tb |-> tb, given |-> e.given + n, usedAt |-> at]
  <2> HIDE DEF c
  <2> QED
    BY <1>2
<1>4. [e EXCEPT !.tb = tb, !.given = @ + n, !.usedAt = at] = [c EXCEPT !.usedAt = at]
  BY Zenon DEF BucketEntries
<1> QED
  BY <1>3, <1>4

\* What has begun stays begun.
LEMMA StillBegun ==
  ASSUME NEW start \in Int, NEW begun \in Int, NEW n \in Int, NEW m \in Int,
         start <= n, begun <= n - start, n <= m
  PROVE  start <= m /\ begun <= m - start
  OBVIOUS

\* A handler about to take holds one of the buckets.
LEMMA HoldsBucket ==
  ASSUME NEW s, NEW n \in Nat, HandlerState(s, n), s.at = "take"
  PROVE  \E k \in Keys, b \in 1 .. n : s = Taking(k, b) /\ s.bucket = b
<1>1. s # Idle /\ \A k \in Keys : s # Missed(k)
  BY DEF Idle, Missed
<1>2. PICK k \in Keys, b \in 1 .. n : s = Taking(k, b)
  BY <1>1 DEF HandlerState
<1> QED
  BY <1>2 DEF Taking

\* There are finitely many buckets.
LEMMA BucketIdsFinite ==
  ASSUME Typed
  PROVE  IsFiniteSet(BucketIds)
<1>1. Len(buckets) \in Int /\ 1 \in Int
  BY DEF Typed
<1> QED
  BY <1>1, FS_Interval DEF BucketIds

\* And finitely many handlers.
LEMMA HandlersFinite ==
  /\ Cardinality(Handlers) \in Nat
  /\ \A S \in SUBSET Handlers :
       IsFiniteSet(S) /\ Cardinality(S) \in Nat /\ Cardinality(S) <= Cardinality(Handlers)
  BY FlowAssumption, FS_Subset, FS_CardinalityType

\* Part of a finite set.
LEMMA CardinalityWithout ==
  ASSUME NEW S, IsFiniteSet(S), NEW T \in SUBSET S
  PROVE  Cardinality(S \ T) = Cardinality(S) - Cardinality(T)
<1> DEFINE R == S \ T
<1>1. R \cup T = S /\ R \cap T = {}
  OBVIOUS
<1>2. R \in SUBSET S
  OBVIOUS
<1>3. IsFiniteSet(R) /\ IsFiniteSet(T)
  BY <1>2, FS_Subset
<1> HIDE DEF R
<1>4. Cardinality(R \cup T) = Cardinality(R) + Cardinality(T) - Cardinality(R \cap T)
  BY <1>3, FS_Union
<1>5. Cardinality(S) = Cardinality(R) + Cardinality(T) - 0
  BY <1>1, <1>4, FS_EmptySet
<1>6. Cardinality(R) \in Nat /\ Cardinality(T) \in Nat
  BY <1>3, FS_CardinalityType
<1> QED
  BY <1>5, <1>6 DEF R

\* One more element.
LEMMA CardinalityWith ==
  ASSUME NEW S, IsFiniteSet(S), NEW e
  PROVE  Cardinality(S \cup {e}) <= Cardinality(S) + 1
<1>1. Cardinality(S) \in Nat
  BY FS_CardinalityType
<1>2. Cardinality(S \cup {e}) = IF e \in S THEN Cardinality(S) ELSE Cardinality(S) + 1
  BY FS_AddElement
<1> QED
  BY <1>1, <1>2

\* A key that the map has is told from the others by its bucket, so there are
\* at most as many as buckets.
LEMMA PresentFinite ==
  ASSUME Typed, ChargedToOwnKey
  PROVE  IsFiniteSet(Present)
<1> DEFINE f == [k \in Present |-> limiters[k]]
<1>1. f \in [Present -> BucketIds]
  BY DEF Typed, Present, Absent, BucketIds
<1>2. \A j, k \in Present : f[j] = f[k] => j = k
  BY DEF ChargedToOwnKey
<1>3. f \in Injection(Present, BucketIds)
  BY <1>1, <1>2 DEF Injection, IsInjective
<1> QED
  BY <1>3, BucketIdsFinite, FS_Injection

\* The sets that AddsCovered counts.
LEMMA CountedFinite ==
  ASSUME Typed, NEW k \in Keys
  PROVE  /\ IsFiniteSet(Of(k)) /\ Cardinality(Of(k)) \in Nat
         /\ IsFiniteSet(Missing(k)) /\ Cardinality(Missing(k)) \in Nat
         /\ Cardinality(Missing(k)) <= Cardinality(Handlers)
         /\ Cardinality(Handlers) \in Nat
<1>1. Of(k) \in SUBSET BucketIds /\ Missing(k) \in SUBSET Handlers
  BY DEF Of, Missing
<1>2. IsFiniteSet(Of(k)) /\ Cardinality(Of(k)) \in Nat
  BY <1>1, BucketIdsFinite, FS_Subset, FS_CardinalityType
<1> QED
  BY <1>1, <1>2, HandlersFinite

-----------------------------------------------------------------------------
(* The invariant is inductive, action by action *)

LEMMA InitInv == Init => IInv
<1> SUFFICES ASSUME Init PROVE IInv
  OBVIOUS
<1>1. Typed
  <2>1. buckets \in Seq(BucketEntries) /\ Len(buckets) = 0
    BY DEF Init
  <2> QED
    BY <2>1, FlowAssumption DEF Init, Typed, HandlerState, Absent
<1>2. BucketIds = {} /\ Present = {}
  BY DEF Init, BucketIds, Present
<1>3. ChargedToOwnKey
  BY <1>2 DEF Init, ChargedToOwnKey, Idle
<1>4. CountCoversMap
  BY <1>2, FS_EmptySet DEF Init, CountCoversMap
<1>5. AddsCovered
  <2>1. ASSUME NEW k \in Keys
        PROVE  /\ Cardinality(Of(k)) = 0
               /\ limiters[k] = Absent /\ evictions[k] = 0
    BY <1>2, FS_EmptySet DEF Of, Init
  <2> QED
    BY <2>1, <1>1, CountedFinite DEF AddsCovered
<1>6. GivenCovered
  BY <1>2 DEF GivenCovered
<1> QED
  BY <1>1, <1>3, <1>4, <1>5, <1>6 DEF IInv

\* Steps that touch neither the map nor a bucket nor what handlers hold.
LEMMA QuietInv ==
  ASSUME IInv, UNCHANGED <<limiters, count, buckets, handler, evictions>>,
         maxSize' \in Nat, now' \in Nat, now' >= now
  PROVE  IInv'
<1>1. Typed'
  BY DEF IInv, Typed, HandlerState, BucketIds
<1>2. ChargedToOwnKey'
  BY DEF IInv, ChargedToOwnKey, Present
<1>3. CountCoversMap'
  BY DEF IInv, CountCoversMap, Present
<1>4. AddsCovered'
  BY DEF IInv, AddsCovered, Of, Missing, BucketIds
<1>5. GivenCovered'
  <2> SUFFICES ASSUME NEW b \in BucketIds
               PROVE  LET tb == buckets[b].tb
                      IN  /\ tb.startTime <= now'
                          /\ tb.latestTick * FillInterval <= now' - tb.startTime
    BY DEF IInv, GivenCovered, BucketIds
  <2>1. buckets[b] \in BucketEntries
    BY DEF IInv, Typed, BucketIds
  <2> DEFINE s == buckets[b].tb.startTime
             begun == buckets[b].tb.latestTick * FillInterval
  <2>2. s \in Int /\ begun \in Int /\ now \in Int
    BY <2>1, EntryFields DEF IInv, Typed
  <2>3. s <= now /\ begun <= now - s
    BY DEF IInv, GivenCovered
  <2>4. s <= now' /\ begun <= now' - s
    <3>1. now' \in Int /\ now <= now'
      BY <2>2
    <3> HIDE DEF s, begun
    <3> QED
      BY <2>2, <2>3, <3>1, StillBegun
  <2> QED
    BY <2>4
<1> QED
  BY <1>1, <1>2, <1>3, <1>4, <1>5 DEF IInv

LEMMA GetLimiterInv ==
  ASSUME IInv, NEW h \in Handlers, NEW k \in Keys, GetLimiter(h, k)
  PROVE  IInv'
<1> DEFINE s == IF limiters[k] = Absent THEN Missed(k) ELSE Taking(k, limiters[k])
<1>1. /\ Typed /\ ChargedToOwnKey
      /\ handler' = [handler EXCEPT ![h] = s]
      /\ UNCHANGED <<now, limiters, count, maxSize, buckets, evictions>>
  BY DEF IInv, GetLimiter
<1>2. \A g \in Handlers : handler'[g] = IF g = h THEN s ELSE handler[g]
  BY <1>1 DEF Typed
<1>3. limiters[k] # Absent => limiters[k] \in BucketIds
  BY <1>1 DEF Typed, BucketIds, Absent
<1>4. Typed'
  <2>1. HandlerState(s, Len(buckets))
    BY <1>1, <1>3 DEF HandlerState, BucketIds
  <2> HIDE DEF s
  <2> QED
    BY <1>1, <1>2, <2>1 DEF Typed
<1>5. ChargedToOwnKey'
  BY <1>1, <1>2 DEF ChargedToOwnKey, Present, Missed, Taking
<1>6. CountCoversMap'
  BY <1>1 DEF IInv, CountCoversMap, Present
<1>7. AddsCovered'
  <2> SUFFICES ASSUME NEW j \in Keys
               PROVE  IF limiters[j] = Absent
                      THEN Cardinality(Of(j)') <= Cardinality(Handlers) * evictions[j]
                      ELSE Cardinality(Of(j)') + Cardinality(Missing(j)')
                             <= Cardinality(Handlers) * (evictions[j] + 1)
    BY <1>1 DEF AddsCovered
  <2>1. Of(j)' = Of(j)
    BY <1>1 DEF Of, BucketIds
  <2>2. limiters[j] # Absent => Missing(j)' \subseteq Missing(j)
    BY <1>1, <1>2 DEF Missing, Missed, Taking
  <2>3. limiters[j] # Absent => Cardinality(Missing(j)') <= Cardinality(Missing(j))
    BY <1>1, <2>2, CountedFinite, FS_Subset
  <2>4. Cardinality(Missing(j)') \in Nat
    BY HandlersFinite DEF Missing
  <2> QED
    BY <1>1, <2>1, <2>3, <2>4, CountedFinite DEF IInv, AddsCovered, Typed
<1>8. GivenCovered'
  BY <1>1 DEF IInv, GivenCovered, BucketIds
<1> QED
  BY <1>4, <1>5, <1>6, <1>7, <1>8 DEF IInv

\* What addLimiter adds: one bucket for k, which h had missed.
LEMMA addLimiterIs ==
  ASSUME IInv, NEW h \in Handlers, addLimiter(h)
  PROVE  \E k \in Keys :
           LET b == Len(buckets) + 1
           IN  /\ handler[h] = Missed(k)
               /\ BucketIds' = BucketIds \cup {b} /\ b \notin BucketIds
               /\ b = Len(buckets') /\ b \in Nat \ {0}
               /\ buckets' \in Seq(BucketEntries)
               /\ \A i \in BucketIds : buckets'[i] = buckets[i]
               /\ buckets'[b] = [key |-> k, tb |-> NewBucket(now), given |-> 0, usedAt |-> Never]
               /\ limiters' = [i \in Keys |-> IF i = k THEN b
                                              ELSE IF i \in Expired THEN Absent ELSE limiters[i]]
               /\ \A g \in Handlers : handler'[g] = IF g = h THEN Taking(k, b) ELSE handler[g]
<1>1. PICK k \in Keys : handler[h] = Missed(k)
  BY DEF IInv, Typed, HandlerState, addLimiter, Idle, Missed, Taking
<1> DEFINE b == Len(buckets) + 1
           e == [key |-> k, tb |-> NewBucket(now), given |-> 0, usedAt |-> Never]
<1>2. handler[h].key = k
  BY <1>1 DEF Missed
<1>3. buckets \in Seq(BucketEntries) /\ Len(buckets) \in Nat /\ b \in Nat \ {0}
  BY DEF IInv, Typed
<1>4. e \in BucketEntries
  BY BucketAssumption DEF IInv, Typed, BucketEntries, TokenBuckets, NewBucket, Never
<1>5. /\ buckets' = Append(buckets, e)
      /\ limiters' = [i \in Keys |-> IF i = k THEN b
                                     ELSE IF i \in Expired THEN Absent ELSE limiters[i]]
      /\ handler' = [handler EXCEPT ![h] = Taking(k, b)]
  BY <1>2 DEF addLimiter
<1> HIDE DEF e
<1>6. /\ buckets' \in Seq(BucketEntries) /\ Len(buckets') = b
      /\ \A i \in 1 .. Len(buckets) : buckets'[i] = buckets[i]
      /\ buckets'[b] = e
  BY <1>3, <1>4, <1>5
<1>7. BucketIds' = BucketIds \cup {b} /\ b \notin BucketIds
  BY <1>3, <1>6 DEF BucketIds
<1>8. \A g \in Handlers : handler'[g] = IF g = h THEN Taking(k, b) ELSE handler[g]
  BY <1>5 DEF IInv, Typed
<1> HIDE DEF b
<1> QED
  BY <1>1, <1>3, <1>5, <1>6, <1>7, <1>8 DEF BucketIds, e, b

LEMMA addLimiterInv ==
  ASSUME IInv, NEW h \in Handlers, addLimiter(h)
  PROVE  IInv'
<1> DEFINE b == Len(buckets) + 1
<1>1. PICK k \in Keys :
        /\ handler[h] = Missed(k)
        /\ BucketIds' = BucketIds \cup {b} /\ b \notin BucketIds
        /\ b = Len(buckets') /\ b \in Nat \ {0}
        /\ buckets' \in Seq(BucketEntries)
        /\ \A i \in BucketIds : buckets'[i] = buckets[i]
        /\ buckets'[b] = [key |-> k, tb |-> NewBucket(now), given |-> 0, usedAt |-> Never]
        /\ limiters' = [i \in Keys |-> IF i = k THEN b
                                       ELSE IF i \in Expired THEN Absent ELSE limiters[i]]
        /\ \A g \in Handlers : handler'[g] = IF g = h THEN Taking(k, b) ELSE handler[g]
  BY addLimiterIs
<1>2. /\ Typed /\ ChargedToOwnKey /\ CountCoversMap /\ AddsCovered /\ GivenCovered
      /\ UNCHANGED <<now, maxSize>> /\ now \in Nat
      /\ evictions' = [i \in Keys |-> IF i \in Expired THEN evictions[i] + 1 ELSE evictions[i]]
      /\ handler' = [handler EXCEPT ![h] = handler'[h]]
      /\ count' = count - Cardinality(Expired) + 1
  BY <1>1 DEF IInv, Typed, addLimiter, CountAfterAdd
<1> HIDE DEF b
<1>3. Expired \in SUBSET Present /\ Present \in SUBSET Keys
  BY DEF Expired, Present
<1>4. \A j \in Keys : limiters[j] # Absent => limiters[j] \in BucketIds
  BY <1>2 DEF Typed, BucketIds, Absent
<1>5. Present' = (Present \ Expired) \cup {k}
  BY <1>1, <1>3 DEF Present, Absent
<1>6. Typed'
  <2>1. limiters' \in [Keys -> 0 .. Len(buckets')]
    BY <1>1, <1>2 DEF Typed, Absent, BucketIds, b
  <2>2. HandlerState(Taking(k, b), Len(buckets'))
    BY <1>1 DEF HandlerState
  <2>3. \A g \in Handlers : HandlerState(handler'[g], Len(buckets'))
    <3> SUFFICES ASSUME NEW g \in Handlers
                 PROVE  HandlerState(handler'[g], Len(buckets'))
      OBVIOUS
    <3>1. CASE g = h
      BY <1>1, <2>2, <3>1
    <3>2. CASE g # h
      <4>1. HandlerState(handler[g], Len(buckets)) /\ handler'[g] = handler[g]
        BY <1>1, <1>2, <3>2 DEF Typed
      <4>2. 1 .. Len(buckets) \subseteq 1 .. Len(buckets')
        BY <1>1, <1>2 DEF BucketIds
      <4> QED
        BY <4>1, <4>2 DEF HandlerState
    <3> QED
      BY <3>1, <3>2
  <2>4. handler' = [g \in Handlers |-> handler'[g]]
    BY <1>2 DEF Typed
  <2>5. evictions' \in [Keys -> Nat]
    BY <1>2 DEF Typed
  <2>6. count' \in Int
    BY <1>2, <1>3, PresentFinite, FS_Subset, FS_CardinalityType DEF Typed
  <2> QED
    BY <1>1, <1>2, <2>1, <2>3, <2>4, <2>5, <2>6 DEF Typed
<1>7. ChargedToOwnKey'
  <2>1. \A j \in Present' : buckets'[limiters'[j]].key = j
    BY <1>1, <1>2, <1>3, <1>4, <1>5 DEF ChargedToOwnKey, Present
  <2>2. ASSUME NEW g \in Handlers, handler'[g].at = "take"
        PROVE  buckets'[handler'[g].bucket].key = handler'[g].key
    <3>1. CASE g = h
      BY <1>1, <3>1 DEF Taking
    <3>2. CASE g # h
      <4>1. handler'[g] = handler[g]
        BY <1>1, <3>2
      <4>2. HandlerState(handler[g], Len(buckets)) /\ handler[g].at = "take"
        BY <1>2, <2>2, <4>1 DEF Typed
      <4>3. Len(buckets) \in Nat
        BY <1>2 DEF Typed
      <4>4. handler[g].bucket \in BucketIds
        BY <4>2, <4>3, HoldsBucket DEF BucketIds
      <4> QED
        BY <1>1, <1>2, <4>1, <4>2, <4>4 DEF ChargedToOwnKey
    <3> QED
      BY <3>1, <3>2
  <2> QED
    BY <2>1, <2>2 DEF ChargedToOwnKey
<1>8. CountCoversMap'
  <2>1. IsFiniteSet(Present) /\ IsFiniteSet(Expired) /\ IsFiniteSet(Present \ Expired)
    BY <1>2, <1>3, PresentFinite, FS_Subset
  <2>2. Cardinality(Present \ Expired) = Cardinality(Present) - Cardinality(Expired)
    BY <1>3, <2>1, CardinalityWithout
  <2>3. Cardinality(Present') <= Cardinality(Present \ Expired) + 1
    BY <1>5, <2>1, CardinalityWith
  <2>4. /\ Cardinality(Present) \in Nat /\ Cardinality(Expired) \in Nat
        /\ Cardinality(Present') \in Nat
    <3>1. IsFiniteSet(Present')
      BY <1>5, <2>1, FS_AddElement
    <3> QED
      BY <2>1, <3>1, FS_CardinalityType
  <2>5. count \in Int /\ count >= Cardinality(Present)
    BY <1>2 DEF Typed, CountCoversMap
  <2> QED
    BY <1>2, <2>2, <2>3, <2>4, <2>5 DEF CountCoversMap
<1>9. AddsCovered'
  <2> SUFFICES ASSUME NEW j \in Keys
               PROVE  IF limiters'[j] = Absent
                      THEN Cardinality(Of(j)') <= Cardinality(Handlers) * evictions'[j]
                      ELSE Cardinality(Of(j)') + Cardinality(Missing(j)')
                             <= Cardinality(Handlers) * (evictions'[j] + 1)
    BY DEF AddsCovered
  <2> DEFINE H == Cardinality(Handlers)
             o == Cardinality(Of(j))
             m == Cardinality(Missing(j))
             e == evictions[j]
  <2>1. o \in Nat /\ m \in Nat /\ m <= H /\ H \in Nat /\ e \in Nat
    BY <1>2, CountedFinite DEF Typed
  <2>2. IF limiters[j] = Absent THEN o <= H * e ELSE o + m <= H * (e + 1)
    BY <1>2 DEF AddsCovered
  <2> DEFINE x == H * e
  <2>3. x \in Nat /\ H * (e + 1) = x + H /\ H * ((e + 1) + 1) = x + 2 * H
    BY <2>1, ProductAfter
  <2>4. /\ evictions'[j] = IF j \in Expired THEN e + 1 ELSE e
        /\ j \in Expired => limiters[j] # Absent
    BY <1>2, <1>3 DEF Present
  <2>5. /\ H * evictions'[j] = IF j \in Expired THEN x + H ELSE x
        /\ H * (evictions'[j] + 1) = IF j \in Expired THEN x + 2 * H ELSE x + H
    BY <2>3, <2>4
  <2>6. IF limiters[j] = Absent THEN o <= x ELSE o + m <= x + H
    BY <2>2, <2>3
  <2> DEFINE o2 == Cardinality(Of(j)')
             m2 == Cardinality(Missing(j)')
  <2>7. CASE j = k
    <3>1. Of(j)' = Of(j) \cup {Len(buckets')} /\ Len(buckets') \notin Of(j)
      BY <1>1, <2>7 DEF Of
    <3>2. Cardinality(Of(j)') = o + 1
      BY <1>2, <3>1, CountedFinite, FS_AddElement
    <3>3. Missing(j)' = Missing(j) \ {h} /\ h \in Missing(j)
      BY <1>1, <2>7 DEF Missing, Missed, Taking
    <3>4. Cardinality(Missing(j)') = m - 1
      BY <1>2, <3>3, CountedFinite, FS_RemoveElement
    <3>5. limiters'[j] # Absent
      BY <1>1, <2>7 DEF Absent
    <3>6. o2 + m2 <= IF j \in Expired THEN x + 2 * H ELSE x + H
      <4> HIDE DEF H, o, m, x, o2, m2
      <4> QED
        BY <2>1, <2>3, <2>4, <2>6, <3>2, <3>4 DEF o2, m2
    <3> QED
      BY <2>5, <3>5, <3>6
  <2>8. CASE j # k
    <3>1. Of(j)' = Of(j)
      BY <1>1, <2>8 DEF Of
    <3>2. Missing(j)' = Missing(j)
      BY <1>1, <2>8 DEF Missing, Missed, Taking
    <3>3. limiters'[j] = IF j \in Expired THEN Absent ELSE limiters[j]
      BY <1>1, <2>8
    <3>4. /\ Cardinality(Of(j)') = o /\ Cardinality(Missing(j)') = m
      BY <3>1, <3>2
    <3>5. IF limiters'[j] = Absent
          THEN o2 <= IF j \in Expired THEN x + H ELSE x
          ELSE o2 + m2 <= IF j \in Expired THEN x + 2 * H ELSE x + H
      <4> HIDE DEF H, o, m, x, o2, m2
      <4> QED
        BY <2>1, <2>3, <2>4, <2>6, <3>3, <3>4 DEF o2, m2
    <3> QED
      BY <2>5, <3>5
  <2> QED
    BY <2>7, <2>8
<1>10. GivenCovered'
  <2> SUFFICES ASSUME NEW i \in BucketIds'
               PROVE  LET tb == buckets'[i].tb
                      IN  /\ tb.startTime <= now
                          /\ tb.latestTick * FillInterval <= now - tb.startTime
                          /\ tb.availableTokens <= Capacity
                          /\ buckets'[i].given + tb.availableTokens
                               <= Capacity + Quantum * tb.latestTick
    BY <1>2 DEF GivenCovered
  <2>1. CASE i \in BucketIds
    BY <1>1, <1>2, <2>1 DEF GivenCovered
  <2>2. CASE i = b
    <3>1. buckets'[i].tb = NewBucket(now) /\ buckets'[i].given = 0
      BY <1>1, <2>2
    <3> QED
      BY <1>2, <3>1, BucketAssumption DEF NewBucket
  <2> QED
    BY <1>1, <2>1, <2>2
<1> QED
  BY <1>6, <1>7, <1>8, <1>9, <1>10 DEF IInv

\* TakeOneAvailable brings the bucket to the tick of the clock, and what it
\* gives and leaves is what there was with the refills since.
LEMMA TakeOneIs ==
  ASSUME NEW tb \in TokenBuckets, NEW n \in Nat, tb.startTime <= n,
         tb.latestTick * FillInterval <= n - tb.startTime,
         tb.availableTokens <= Capacity
  PROVE  LET r == TakeAvailableOp(tb, n, 1)
             t == CurrentTick(tb, n)
         IN  /\ r.tb \in TokenBuckets /\ r.took \in Nat
             /\ r.tb.startTime = tb.startTime
             /\ r.tb.latestTick = t
             /\ t * FillInterval <= n - tb.startTime
             /\ r.tb.availableTokens <= Capacity
             /\ r.took + r.tb.availableTokens
                  <= tb.availableTokens + (t - tb.latestTick) * Quantum
<1> DEFINE t == CurrentTick(tb, n)
           adj == Adjust(tb, t, n)
           r == TakeAvailableOp(tb, n, 1)
           refill == (t - tb.latestTick) * Quantum
           a == tb.availableTokens
<1>1. /\ tb.startTime \in Nat /\ tb.latestTick \in Nat /\ a \in Nat
      /\ tb.lastTakeTime \in Int /\ n - tb.startTime \in Nat
  BY DEF TokenBuckets
<1>2. t \in Nat /\ t * FillInterval <= n - tb.startTime /\ tb.latestTick <= t
  BY <1>1, TickBounds, TickReached DEF CurrentTick
<1>3. refill \in Nat
  <2>1. t - tb.latestTick \in Nat
    BY <1>1, <1>2
  <2> QED
    BY <2>1, BucketAssumption
<1> HIDE DEF t, refill
<1>4. /\ adj \in TokenBuckets /\ adj.startTime = tb.startTime /\ adj.latestTick = t
      /\ adj.availableTokens <= Capacity /\ adj.availableTokens <= a + refill
  <2>1. CASE a >= Capacity
    <3>1. adj = [tb EXCEPT !.latestTick = t]
      BY <2>1 DEF Adjust
    <3> HIDE DEF adj
    <3> QED
      BY <1>1, <1>2, <1>3, <3>1 DEF TokenBuckets
  <2>2. CASE ~ (a >= Capacity)
    <3>1. adj = [ startTime |-> tb.startTime, latestTick |-> t,
                  availableTokens |-> IF a + refill > Capacity THEN Capacity ELSE a + refill,
                  lastTakeTime |-> n ]
      BY <2>2 DEF Adjust, refill
    <3> HIDE DEF adj
    <3> QED
      BY <1>1, <1>2, <1>3, <3>1, BucketAssumption DEF TokenBuckets
  <2> QED
    BY <2>1, <2>2
<1>5. adj.availableTokens \in Nat
  BY <1>4 DEF TokenBuckets
<1>6. r = IF adj.availableTokens <= 0 THEN [tb |-> adj, took |-> 0]
          ELSE [tb |-> [adj EXCEPT !.availableTokens = @ - 1], took |-> 1]
  BY <1>5 DEF TakeAvailableOp, t
<1> HIDE DEF adj, r
<1>7. CASE adj.availableTokens <= 0
  BY <1>1, <1>2, <1>3, <1>4, <1>5, <1>6, <1>7 DEF t, r, refill
<1>8. CASE ~ (adj.availableTokens <= 0)
  <2>1. r.tb = [adj EXCEPT !.availableTokens = @ - 1] /\ r.took = 1
    BY <1>6, <1>8
  <2>2. /\ r.tb \in TokenBuckets /\ r.tb.availableTokens = adj.availableTokens - 1
        /\ r.tb.startTime = tb.startTime /\ r.tb.latestTick = t
    BY <1>4, <1>5, <1>8, <2>1 DEF TokenBuckets
  <2>3. r.tb.availableTokens <= Capacity /\ r.took + r.tb.availableTokens <= a + refill
    BY <1>1, <1>3, <1>4, <1>5, <2>1, <2>2, BucketAssumption
  <2> QED
    BY <1>2, <2>1, <2>2, <2>3 DEF t, r, refill
<1> QED
  BY <1>7, <1>8

\* Serve takes from the bucket it holds and touches no other.
LEMMA ServeInv ==
  ASSUME IInv, NEW h \in Handlers, Serve(h)
  PROVE  IInv'
<1> DEFINE b == handler[h].bucket
           tb == buckets[b].tb
           r == TakeAvailableOp(tb, now, 1)
<1>1. /\ Typed /\ ChargedToOwnKey /\ CountCoversMap /\ AddsCovered /\ GivenCovered
      /\ handler[h].at = "take" /\ handler' = [handler EXCEPT ![h] = Idle]
      /\ UNCHANGED <<now, limiters, count, maxSize, evictions>>
      /\ buckets' = [buckets EXCEPT ![b].tb = r.tb, ![b].given = @ + r.took, ![b].usedAt = now]
  BY DEF IInv, Serve
<1>2. b \in BucketIds /\ now \in Nat
  <2>1. HandlerState(handler[h], Len(buckets))
    BY <1>1 DEF Typed
  <2>2. Len(buckets) \in Nat
    BY <1>1 DEF Typed
  <2> QED
    BY <1>1, <2>1, <2>2, HoldsBucket DEF BucketIds, Typed
<1>3. buckets \in Seq(BucketEntries) /\ buckets[b] \in BucketEntries /\ tb \in TokenBuckets
  <2>1. buckets \in Seq(BucketEntries) /\ buckets[b] \in BucketEntries
    BY <1>1, <1>2 DEF Typed, BucketIds
  <2> QED
    BY <2>1, EntryFields
<1>4. /\ tb.startTime <= now /\ tb.latestTick * FillInterval <= now - tb.startTime
      /\ tb.availableTokens <= Capacity
      /\ buckets[b].given + tb.availableTokens <= Capacity + Quantum * tb.latestTick
  BY <1>1, <1>2 DEF GivenCovered
<1> DEFINE t == CurrentTick(tb, now)
<1>5. /\ r.tb \in TokenBuckets /\ r.took \in Nat
      /\ r.tb.startTime = tb.startTime /\ r.tb.latestTick = t
      /\ t * FillInterval <= now - tb.startTime
      /\ r.tb.availableTokens <= Capacity
      /\ r.took + r.tb.availableTokens <= tb.availableTokens + (t - tb.latestTick) * Quantum
  BY <1>2, <1>3, <1>4, TakeOneIs
<1> DEFINE e == [key |-> buckets[b].key, tb |-> r.tb, given |-> buckets[b].given + r.took,
                 usedAt |-> now]
<1> HIDE DEF b, tb, r, t
<1>6. e \in BucketEntries
  BY <1>2, <1>3, <1>5 DEF BucketEntries
<1>7. buckets' = [buckets EXCEPT ![b] = e]
  <2>1. buckets' = [buckets EXCEPT ![b] = [buckets[b] EXCEPT !.tb = r.tb, !.given = @ + r.took,
                                                             !.usedAt = now]]
    BY <1>1, <1>2, <1>3 DEF BucketIds, BucketEntries
  <2>2. [buckets[b] EXCEPT !.tb = r.tb, !.given = @ + r.took, !.usedAt = now] = e
    BY <1>3, EntryAfter DEF e
  <2> QED
    BY <2>1, <2>2
<1>8. e.key = buckets[b].key /\ e.tb = r.tb /\ e.given = buckets[b].given + r.took
  OBVIOUS
<1> HIDE DEF e
<1>9. /\ buckets' \in Seq(BucketEntries) /\ Len(buckets') = Len(buckets)
      /\ \A i \in BucketIds : buckets'[i] = IF i = b THEN e ELSE buckets[i]
  BY <1>2, <1>3, <1>6, <1>7 DEF BucketIds
<1>10. BucketIds' = BucketIds /\ \A i \in BucketIds : buckets'[i].key = buckets[i].key
  BY <1>8, <1>9 DEF BucketIds
<1>11. \A g \in Handlers : handler'[g] = IF g = h THEN Idle ELSE handler[g]
  BY <1>1 DEF Typed
<1>12. Typed'
  <2>1. \A g \in Handlers : HandlerState(handler'[g], Len(buckets))
    BY <1>1, <1>11 DEF Typed, HandlerState
  <2>2. handler' = [g \in Handlers |-> handler'[g]]
    BY <1>1 DEF Typed
  <2> QED
    BY <1>1, <1>9, <2>1, <2>2 DEF Typed
<1>13. ChargedToOwnKey'
  <2>1. \A j \in Present : limiters[j] \in BucketIds
    BY <1>1 DEF Typed, Present, Absent, BucketIds
  <2>2. ASSUME NEW g \in Handlers, handler'[g].at = "take"
        PROVE  buckets'[handler'[g].bucket].key = handler'[g].key
    <3>1. g # h /\ handler'[g] = handler[g]
      BY <1>11, <2>2 DEF Idle
    <3>2. HandlerState(handler[g], Len(buckets)) /\ handler[g].at = "take"
      BY <1>1, <2>2, <3>1 DEF Typed
    <3>3. Len(buckets) \in Nat
      BY <1>1 DEF Typed
    <3>4. handler[g].bucket \in BucketIds
      BY <3>2, <3>3, HoldsBucket DEF BucketIds
    <3>5. buckets[handler[g].bucket].key = handler[g].key
      BY <1>1, <3>2 DEF ChargedToOwnKey
    <3> QED
      BY <1>10, <3>1, <3>4, <3>5
  <2>3. Present' = Present
    BY <1>1 DEF Present
  <2> QED
    BY <1>1, <1>10, <2>1, <2>2, <2>3 DEF ChargedToOwnKey
<1>14. CountCoversMap'
  BY <1>1 DEF CountCoversMap, Present
<1>15. AddsCovered'
  <2>1. \A j \in Keys : Of(j)' = Of(j)
    BY <1>10 DEF Of
  <2>2. \A j \in Keys : Missing(j)' = Missing(j)
    <3>1. \A j \in Keys : Idle # Missed(j) /\ handler[h] # Missed(j)
      BY <1>1 DEF Idle, Missed
    <3> QED
      BY <1>11, <3>1 DEF Missing
  <2> QED
    BY <1>1, <2>1, <2>2 DEF AddsCovered
<1>16. GivenCovered'
  <2> SUFFICES ASSUME NEW i \in BucketIds
               PROVE  /\ buckets'[i].tb.startTime <= now
                      /\ buckets'[i].tb.latestTick * FillInterval <= now - buckets'[i].tb.startTime
                      /\ buckets'[i].tb.availableTokens <= Capacity
                      /\ buckets'[i].given + buckets'[i].tb.availableTokens
                           <= Capacity + Quantum * buckets'[i].tb.latestTick
    BY <1>1, <1>10 DEF GivenCovered
  <2>1. CASE i # b
    BY <1>1, <1>9, <2>1 DEF GivenCovered
  <2>2. CASE i = b
    <3>1. buckets'[i] = e
      BY <1>9, <2>2
    <3> DEFINE old == Quantum * tb.latestTick
               new == Quantum * t
               given == buckets[b].given
               a == tb.availableTokens
               left == r.tb.availableTokens
               took == r.took
    <3>2. tb.latestTick \in Nat /\ t \in Nat /\ given \in Nat /\ a \in Nat /\ left \in Nat /\ took \in Nat
      BY <1>3, <1>5 DEF TokenBuckets, BucketEntries
    <3>3. old \in Int /\ new \in Int /\ (t - tb.latestTick) * Quantum = new - old
      BY <3>2, BucketAssumption
    <3>4. given + a <= Capacity + old /\ took + left <= a + (new - old)
      BY <1>4, <1>5, <3>3
    <3>5. (given + took) + left <= Capacity + new
      <4> HIDE DEF old, new, given, a, left, took
      <4> QED
        BY <3>2, <3>3, <3>4, BucketAssumption
    <3> QED
      BY <1>4, <1>5, <1>8, <3>1, <3>5
  <2> QED
    BY <2>1, <2>2
<1> QED
  BY <1>12, <1>13, <1>14, <1>15, <1>16 DEF IInv

-----------------------------------------------------------------------------
(* The theorems *)

\* The invariant of the flow limit middleware, which the properties follow
\* from: types, charging, l.count, the adds that may still come and what every
\* bucket has given.
THEOREM Invariant == Spec => []IInv
<1>1. IInv /\ [Next]_vars => IInv'
  <2> SUFFICES ASSUME IInv, [Next]_vars PROVE IInv'
    OBVIOUS
  <2>1. now \in Nat /\ maxSize \in Nat
    BY DEF IInv, Typed
  <2>2. CASE Advance
    BY <2>1, <2>2, QuietInv DEF Advance
  <2>3. ASSUME NEW max \in MaxSizes, SetMaxSize(max) PROVE IInv'
    BY <2>1, <2>3, FlowAssumption, QuietInv DEF SetMaxSize
  <2>4. ASSUME NEW h \in Handlers, NEW k \in Keys, GetLimiter(h, k) PROVE IInv'
    BY <2>4, GetLimiterInv
  <2>5. ASSUME NEW h \in Handlers, addLimiter(h) PROVE IInv'
    BY <2>5, addLimiterInv
  <2>6. ASSUME NEW h \in Handlers, Serve(h) PROVE IInv'
    BY <2>6, ServeInv
  <2>7. CASE UNCHANGED vars
    BY <2>1, <2>7, QuietInv DEF vars
  <2> QED
    BY <2>2, <2>3, <2>4, <2>5, <2>6, <2>7 DEF Next
<1> QED
  BY <1>1, InitInv, PTL DEF Spec

\* The map, and every handler, holds only buckets that were made for the key
\* it holds them for, whatever adds and evictions race with each other
\* (GetLimiter and addLimiter of flowlimit.go).
THEOREM Charged == Spec => []ChargedToOwnKey
<1>1. IInv => ChargedToOwnKey
  BY DEF IInv
<1> QED
  BY <1>1, Invariant, PTL

\* l.count is never less than the entries of the map, so removeExpired is
\* never put off by the adds that raced.
THEOREM Counted == Spec => []CountCoversMap
<1>1. IInv => CountCoversMap
  BY DEF IInv
<1> QED
  BY <1>1, Invariant, PTL

\* The check of GetLimiter and the add of addLimiter, which are not one step,
\* make at most one bucket per handler between two evictions of a key.
THEOREM FewBuckets == Spec => []BucketsPerKey
<1>1. ASSUME IInv, NEW k \in Keys
      PROVE  Cardinality(Of(k)) <= Cardinality(Handlers) * (evictions[k] + 1)
  <2> DEFINE H == Cardinality(Handlers)
             e == evictions[k]
             o == Cardinality(Of(k))
             m == Cardinality(Missing(k))
             x == H * e
  <2>1. H \in Nat /\ e \in Nat /\ o \in Nat /\ m \in Nat
    BY <1>1, CountedFinite DEF IInv, Typed
  <2>2. x \in Nat /\ H * (e + 1) = x + H
    BY <2>1
  <2>3. o <= x \/ o + m <= x + H
    BY <1>1, <2>2 DEF IInv, AddsCovered
  <2>4. o <= x + H
    <3> HIDE DEF H, e, o, m, x
    <3> QED
      BY <2>1, <2>2, <2>3
  <2> QED
    BY <2>2, <2>4
<1>2. IInv => BucketsPerKey
  BY <1>1 DEF BucketsPerKey, Of
<1> QED
  BY <1>2, Invariant, PTL

\* No bucket, in the map or lost by it, gives more than its capacity and its
\* quantum for each tick since it was made.
THEOREM Rated == Spec => []BucketRate
<1>1. ASSUME IInv, NEW b \in BucketIds
      PROVE  buckets[b].given <= Capacity + Quantum * CurrentTick(buckets[b].tb, now)
  <2> DEFINE tb == buckets[b].tb
             t == CurrentTick(tb, now)
             old == Quantum * tb.latestTick
             new == Quantum * t
             given == buckets[b].given
             a == tb.availableTokens
  <2>1. /\ tb \in TokenBuckets /\ given \in Nat /\ now \in Nat
        /\ tb.latestTick \in Nat /\ a \in Nat /\ tb.startTime \in Nat
    <3>1. buckets[b] \in BucketEntries /\ now \in Nat
      BY <1>1 DEF IInv, Typed, BucketIds
    <3> QED
      BY <3>1, EntryFields
  <2>2. /\ tb.startTime <= now /\ tb.latestTick * FillInterval <= now - tb.startTime
        /\ given + a <= Capacity + old
    BY <1>1 DEF IInv, GivenCovered
  <2>3. now - tb.startTime \in Nat
    BY <2>1, <2>2
  <2>4. t \in Nat /\ tb.latestTick <= t
    BY <2>1, <2>2, <2>3, TickBounds, TickReached DEF CurrentTick
  <2> HIDE DEF t
  <2>5. old \in Int /\ new \in Int /\ old <= new
    <3>1. t - tb.latestTick \in Nat /\ new - old = Quantum * (t - tb.latestTick)
      BY <2>1, <2>4, BucketAssumption
    <3>2. Quantum * (t - tb.latestTick) >= 0
      BY <3>1, BucketAssumption
    <3> QED
      BY <2>1, <2>4, <3>1, <3>2, BucketAssumption
  <2>6. given <= Capacity + new
    <3> HIDE DEF old, new, given, a
    <3> QED
      BY <2>1, <2>2, <2>5, BucketAssumption
  <2> QED
    BY <2>6 DEF t
<1>2. IInv => BucketRate
  BY <1>1 DEF BucketRate
<1> QED
  BY <1>2, Invariant, PTL

=============================================================================
