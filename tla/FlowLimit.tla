----------------------------- MODULE FlowLimit -----------------------------
(***************************************************************************)
(* http/middleware/flowlimit: one token bucket per key (remote IP, header, *)
(* cookie, or "*" in global mode), kept in a map that request handlers     *)
(* share.                                                                  *)
(*                                                                         *)
(* A handler looks its key up under the read lock, and only if it finds    *)
(* nothing takes the write lock to add a bucket, without looking again; it *)
(* then takes one token with no lock of the limiter held, from a bucket    *)
(* that the map may no longer have.  These are three steps.                *)
(*                                                                         *)
(* removeExpired reads a bucket's lastTakeTime, three words, without that  *)
(* bucket's lock, so it may see words of the old and of the new time.  It  *)
(* only asks whether that time is long ago, and either answer is already   *)
(* given by the step that evicts before the take or by the one after it:   *)
(* the old time is zero or stale whenever the two answers differ.          *)
(***************************************************************************)
EXTENDS TokenBucketOps, Sequences, FiniteSetsExt

CONSTANTS
  Handlers,    \* goroutines that serve requests
  Keys,        \* what getLimiterID tells requests apart by
  MaxSizes,    \* arguments of SetMaxSize
  Expiry,      \* the three minutes of removeExpired
  MaxTime,     \* bound on the clock
  MaxBuckets   \* bound on the buckets created

ASSUME FlowAssumption ==
  /\ MaxSizes \subseteq Nat /\ MaxSizes # {}
  /\ Expiry \in Nat /\ MaxTime \in Nat /\ MaxBuckets \in Nat
  /\ IsFiniteSet(Handlers)

VARIABLES
  now,         \* the system clock
  limiters,    \* limiters[k]: the bucket the map has for k, or Absent
  count,       \* l.count
  maxSize,     \* l.maxSize
  buckets,     \* every bucket created: its key and its state tb; history:
               \* the tokens it gave and the time it was last asked for
               \* one, Never before the first request
  handler,     \* handler[h]: where h is, with the id and the bucket it holds
  evictions    \* history: evictions[k], times removeExpired dropped k

vars == <<now, limiters, count, maxSize, buckets, handler, evictions>>

Absent == 0

Idle == [at |-> "idle"]
Missed(k) == [at |-> "missed", key |-> k]
Taking(k, b) == [at |-> "take", key |-> k, bucket |-> b]

Present == {k \in Keys : limiters[k] # Absent}

Init ==
  /\ now = 0
  /\ limiters = [k \in Keys |-> Absent]
  /\ count = 0
  /\ maxSize \in MaxSizes
  /\ buckets = <<>>
  /\ handler = [h \in Handlers |-> Idle]
  /\ evictions = [k \in Keys |-> 0]

Advance ==
  /\ now < MaxTime
  /\ now' = now + 1
  /\ UNCHANGED <<limiters, count, maxSize, buckets, handler, evictions>>

SetMaxSize(max) ==
  /\ maxSize' = max
  /\ UNCHANGED <<now, limiters, count, buckets, handler, evictions>>

\* Seeded faults: a lookup that never finds the key, and one that returns
\* the bucket made last, as if it were kept in a field of the Limiter.
GetLimiter_NeverFinds(h, k) ==
  /\ handler[h] = Idle
  /\ handler' = [handler EXCEPT ![h] = Missed(k)]
  /\ UNCHANGED <<now, limiters, count, maxSize, buckets, evictions>>

GetLimiter_Latest(h, k) ==
  /\ handler[h] = Idle
  /\ handler' = [handler EXCEPT ![h] = IF limiters[k] = Absent THEN Missed(k)
                                       ELSE Taking(k, Len(buckets))]
  /\ UNCHANGED <<now, limiters, count, maxSize, buckets, evictions>>

\* GetLimiter up to RUnlock.
GetLimiter(h, k) ==
  /\ handler[h] = Idle
  /\ handler' = [handler EXCEPT ![h] = IF limiters[k] = Absent THEN Missed(k)
                                       ELSE Taking(k, limiters[k])]
  /\ UNCHANGED <<now, limiters, count, maxSize, buckets, evictions>>

\* A bucket whose lastTakeTime is too long ago; the zero time always is.
IsExpired(tb) == tb.lastTakeTime = Never \/ now - tb.lastTakeTime > Expiry

\* The keys that addLimiter drops first.
Expired ==
  IF count >= maxSize
  THEN {k \in Present : IsExpired(buckets[limiters[k]].tb)}
  ELSE {}

\* Seeded fault: count-- for every limiter looked at.
CountAfterAdd_AllLeave ==
  IF count >= maxSize THEN count - Cardinality(Present) + 1 ELSE count + 1

\* l.count after removeExpired and the add.
CountAfterAdd == count - Cardinality(Expired) + 1

\* addLimiter, in one critical section.
addLimiter(h) ==
  LET k == handler[h].key
      b == Len(buckets) + 1
  IN  /\ handler[h].at = "missed"
      /\ b <= MaxBuckets
      /\ buckets' = Append(buckets, [key |-> k, tb |-> NewBucket(now),
                                     given |-> 0, usedAt |-> Never])
      /\ limiters' = [i \in Keys |-> IF i = k THEN b
                                     ELSE IF i \in Expired THEN Absent ELSE limiters[i]]
      /\ count' = CountAfterAdd
      /\ evictions' = [i \in Keys |-> IF i \in Expired THEN evictions[i] + 1
                                      ELSE evictions[i]]
      /\ handler' = [handler EXCEPT ![h] = Taking(k, b)]
      /\ UNCHANGED <<now, maxSize>>

\* TakeOneAvailable, and the answer: next.ServeHTTP or 429.
Serve(h) ==
  LET b == handler[h].bucket
      r == TakeAvailableOp(buckets[b].tb, now, 1)
  IN  /\ handler[h].at = "take"
      /\ buckets' = [buckets EXCEPT ![b].tb = r.tb,
                                    ![b].given = @ + r.took,
                                    ![b].usedAt = now]
      /\ handler' = [handler EXCEPT ![h] = Idle]
      /\ UNCHANGED <<now, limiters, count, maxSize, evictions>>

Next ==
  \/ Advance
  \/ \E max \in MaxSizes : SetMaxSize(max)
  \/ \E h \in Handlers, k \in Keys : GetLimiter(h, k)
  \/ \E h \in Handlers : addLimiter(h)
  \/ \E h \in Handlers : Serve(h)

Spec == Init /\ [][Next]_vars

-----------------------------------------------------------------------------
(* Properties *)

BucketIds == 1 .. Len(buckets)

\* Requests are charged to their own key: the map and every handler hold
\* buckets that were made for the key, also after evictions and races.
ChargedToOwnKey ==
  /\ \A k \in Present : buckets[limiters[k]].key = k
  /\ \A h \in Handlers : handler[h].at = "take" =>
       buckets[handler[h].bucket].key = handler[h].key

\* l.count, which decides when removeExpired runs, never falls behind the
\* map, whatever adds race with each other and with evictions.
CountCoversMap == count >= Cardinality(Present)

\* The check in GetLimiter and the add in addLimiter are not atomic, so a
\* key may get several buckets; but only one per handler, and again that
\* many for each time the key was evicted.
BucketsPerKey ==
  \A k \in Keys :
    Cardinality({b \in BucketIds : buckets[b].key = k})
      <= Cardinality(Handlers) * (evictions[k] + 1)

\* Every bucket, also one the map has lost, admits no more than its rate.
BucketRate ==
  \A b \in BucketIds :
    buckets[b].given <= Capacity + Quantum * CurrentTick(buckets[b].tb, now)

\* The limiter of a key limits all its requests ("限制所有的请求",
\* flowlimit.go:14): together they get no more than one bucket gives.
KeyRate ==
  \A k \in Keys :
    MapThenSumSet(LAMBDA b : buckets[b].given,
                  {b \in BucketIds : buckets[b].key = k})
      <= Capacity + Quantum * (now \div FillInterval)

\* removeExpired drops limiters without access for three minutes
\* ("清理3分钟内无访问的限制器", flowlimit.go:75): one that a request took
\* a token from stays until that request is so long ago.
EvictsOnlyUnused ==
  [][\A k \in Keys :
       LET used == buckets[limiters[k]].usedAt
       IN  evictions'[k] > evictions[k] /\ used # Never => now - used > Expiry]_vars

=============================================================================
