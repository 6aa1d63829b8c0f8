---------------------------- MODULE ServiceProofs ----------------------------
(***************************************************************************)
(* What the parts of a generated program keep (MCService): the services it *)
(* registers, its cache, the files it logs to, how it was generated, its   *)
(* sets and its pagers, for any number of keys, values, days, applications *)
(* and names, and any rates and sizes of pages.                            *)
(***************************************************************************)
EXTENDS MCService, Sequences, FiniteSetTheorems, WellFoundedInduction, TLAPS

\* A step is one of a single subject, and leaves the variables of the others.
LEMMA OneSubject ==
  ASSUME [BenchNext]_BenchVars
  PROVE  /\ RegistryNext \/ UNCHANGED registryVars
         /\ CacheNext \/ UNCHANGED cacheVars
         /\ LogNext \/ UNCHANGED logVars
         /\ GeneratorNext \/ UNCHANGED genVars
         /\ SetsNext \/ UNCHANGED setVars
         /\ PagerNext \/ UNCHANGED pagerVars
<1>1. CASE LifecycleNext
  BY <1>1 DEF LifecycleNext, OfLifecycle
<1>2. CASE RegistryNext
  BY <1>2 DEF RegistryNext, OfRegistry
<1>3. CASE CacheNext
  BY <1>3 DEF CacheNext, OfCache
<1>4. CASE LogNext
  BY <1>4 DEF LogNext, OfLog
<1>5. CASE GeneratorNext
  BY <1>5 DEF GeneratorNext, OfGenerator
<1>6. CASE SetsNext
  BY <1>6 DEF SetsNext, OfSets
<1>7. CASE PagerNext
  BY <1>7 DEF PagerNext, OfPager
<1>8. CASE UNCHANGED BenchVars
  BY <1>8 DEF BenchVars
<1> QED
  BY <1>1, <1>2, <1>3, <1>4, <1>5, <1>6, <1>7, <1>8 DEF BenchNext

-----------------------------------------------------------------------------
(* Services (ServiceRegistry) *)

\* A loop of InitAllService has seen the loops before it through, and what is
\* served has seen them all; what a Config got was in a map, and from then on
\* nothing else is registered.
RegistryInv ==
  /\ maps \subseteq Packages /\ turn \in 1 .. Len(Registry!Kinds) + 1
  /\ phase = "packages" => turn = 1 /\ gets = {}
  /\ phase = "serving" => turn = Len(Registry!Kinds) + 1
  /\ phase # "serving" => served = {}
  /\ served \subseteq maps
  /\ \A s \in maps : \A i \in 1 .. Len(Registry!Kinds) :
       i < turn /\ s.kind = Registry!Kinds[i] => s \in configured
  /\ \A g \in gets : g.of \in maps
  /\ \A g \in gets :
       \/ g.of.kind = "internal" /\ g.by.kind # "internal"
       \/ g.of.kind = "grpc" /\ g.by.kind \in {"restful", "http", "gin"}
       => g.ready

LEMMA RegistryInit == BenchInit => RegistryInv
  BY DEF BenchInit, Registry!Init, RegistryInv, Registry!Kinds

\* A loop that runs over the services of s has internal services behind it,
\* if s is none, and grpc services, if s serves HTTP.
LEMMA EarlierKinds ==
  ASSUME RegistryInv, NEW s \in Packages, Registry!Turn(s), NEW r \in maps,
         \/ r.kind = "internal" /\ s.kind # "internal"
         \/ r.kind = "grpc" /\ s.kind \in {"restful", "http", "gin"}
  PROVE  r \in configured
<1>1. turn \in 1 .. 5 /\ s.kind = Registry!Kinds[turn]
  BY DEF RegistryInv, Registry!Turn, Registry!Left, Registry!Kinds
<1>2. CASE r.kind = "internal" /\ s.kind # "internal"
  <2>1. 1 < turn
    BY <1>1, <1>2 DEF Registry!Kinds
  <2> QED
    BY <1>2, <2>1 DEF RegistryInv, Registry!Kinds
<1>3. CASE r.kind = "grpc" /\ s.kind \in {"restful", "http", "gin"}
  <2>1. 2 < turn
    BY <1>1, <1>3 DEF Registry!Kinds
  <2> QED
    BY <1>3, <2>1 DEF RegistryInv, Registry!Kinds
<1> QED
  BY <1>2, <1>3

LEMMA RegistryStep == RegistryInv /\ [BenchNext]_BenchVars => RegistryInv'
<1> SUFFICES ASSUME RegistryInv, [BenchNext]_BenchVars PROVE RegistryInv'
  OBVIOUS
<1>1. CASE UNCHANGED registryVars
  BY <1>1 DEF RegistryInv, registryVars
<1>2. ASSUME NEW s \in Packages, Registry!Registry(s) PROVE RegistryInv'
  BY <1>2 DEF Registry!Registry, RegistryInv, Registry!Kinds
<1>3. CASE Registry!InitAllService
  BY <1>3 DEF Registry!InitAllService, RegistryInv
<1>4. ASSUME NEW s \in Packages, Registry!ConfigFails(s) PROVE RegistryInv'
  BY <1>4 DEF Registry!ConfigFails, Registry!Turn, RegistryInv
<1>5. ASSUME NEW s \in Packages, Registry!Config(s) PROVE RegistryInv'
  <2>1. \A r \in maps :
          \/ r.kind = "internal" /\ s.kind # "internal"
          \/ r.kind = "grpc" /\ s.kind \in {"restful", "http", "gin"}
          => r \in configured
    BY <1>5, EarlierKinds DEF Registry!Config
  <2>2. \A g \in gets' :
          \/ g \in gets
          \/ \E r \in maps : g = [by |-> s, of |-> r, ready |-> r \in configured]
    BY <1>5 DEF Registry!Config
  <2>3. ASSUME NEW g \in gets', g \notin gets
        PROVE  /\ g.of \in maps
               /\ \/ g.of.kind = "internal" /\ g.by.kind # "internal"
                  \/ g.of.kind = "grpc" /\ g.by.kind \in {"restful", "http", "gin"}
                  => g.ready
    <3>1. PICK r \in maps : g = [by |-> s, of |-> r, ready |-> r \in configured]
      BY <2>2, <2>3
    <3>2. g.by = s /\ g.of = r /\ (g.ready <=> r \in configured)
      BY <3>1, Zenon
    <3> QED
      BY <2>1, <3>2
  <2>4. /\ UNCHANGED <<maps, phase, turn, served>> /\ configured \subseteq configured'
        /\ phase = "configuring"
    BY <1>5 DEF Registry!Config, Registry!Turn
  <2>5. \A g \in gets' :
          /\ g.of \in maps
          /\ \/ g.of.kind = "internal" /\ g.by.kind # "internal"
             \/ g.of.kind = "grpc" /\ g.by.kind \in {"restful", "http", "gin"}
             => g.ready
    BY <2>3 DEF RegistryInv
  <2>6. \A r \in maps : \A i \in 1 .. Len(Registry!Kinds) :
          i < turn /\ r.kind = Registry!Kinds[i] => r \in configured'
    BY <2>4 DEF RegistryInv
  <2> QED
    BY <2>4, <2>5, <2>6 DEF RegistryInv
<1>6. CASE Registry!NextKind
  BY <1>6 DEF Registry!NextKind, Registry!Left, RegistryInv, Registry!Kinds
<1>7. CASE Registry!InitDone
  BY <1>7 DEF Registry!InitDone, RegistryInv
<1>8. ASSUME NEW s \in Packages, Registry!Load(s) PROVE RegistryInv'
  BY <1>8 DEF Registry!Load, RegistryInv
<1>9. CASE RegistryNext
  BY <1>9, <1>2, <1>3, <1>4, <1>5, <1>6, <1>7, <1>8 DEF RegistryNext, OfRegistry
<1> QED
  BY <1>1, <1>9, OneSubject

\* A Config finds configured what it gets of an earlier kind, because the
\* loop over that kind is through; and what a request reaches is configured,
\* itself and all that it got, because every kind has a loop.
THEOREM ServicesConfigured == BenchSpec => []GetsConfigured
<1>1. RegistryInv => GetsConfigured
  <2> SUFFICES ASSUME RegistryInv PROVE GetsConfigured
    OBVIOUS
  <2>1. ASSUME NEW s \in maps, phase = "serving" PROVE s \in configured
    <3>1. \E i \in 1 .. Len(Registry!Kinds) : s.kind = Registry!Kinds[i]
      BY PackagesAssumption DEF RegistryInv, Registry!Kinds
    <3> QED
      BY <2>1, <3>1 DEF RegistryInv
  <2> QED
    BY <2>1 DEF RegistryInv, GetsConfigured, Registry!GetsConfigured
<1> QED
  BY <1>1, RegistryInit, RegistryStep, PTL DEF BenchSpec

-----------------------------------------------------------------------------
(* The cache (Cache) *)

Entries == [value : Values, left : Int]

\* The back ends have the same entries that live for a key that was not last
\* written as they do not agree on, with the same time left.
CacheInv ==
  /\ memory \in [Keys -> SUBSET Entries]
  /\ redis \in [Keys -> SUBSET Entries]
  /\ ttl \in [Store!Handles -> Int]
  /\ \A k \in Keys \ differing : Store!Live(memory[k]) = Store!Live(redis[k])

LEMMA CacheInit == BenchInit => CacheInv
<1> SUFFICES ASSUME Store!Init PROVE CacheInv
  BY DEF BenchInit
<1> QED
  BY TTLAssumption DEF Store!Init, CacheInv

\* An entry is put under k in both, and other keys are given up by one.
LEMMA CachePut ==
  ASSUME CacheInv, NEW h \in Store!Handles, NEW k \in Keys, NEW v \in Values, NEW t \in Int,
         Store!PutWithTTL(h, k, v, t)
  PROVE  CacheInv'
<1> DEFINE inMemory == [value |-> v, left |-> Store!Lifetime(h)]
           inRedis == [value |-> v, left |-> Store!Expiry(t)]
<1>1. inMemory \in Entries /\ inRedis \in Entries
  BY DEF CacheInv, Entries, Store!Lifetime, Store!Expiry, Store!Forever
<1>2. t = ttl[h] /\ t > 0 => inMemory = inRedis
  BY DEF Store!Lifetime, Store!Expiry
<1>3. /\ memory' = [j \in Keys |-> IF j = k THEN {inMemory}
                                   ELSE IF j \in Store!Evicted(k) THEN {} ELSE memory[j]]
      /\ redis' = [redis EXCEPT ![k] = {inRedis}]
      /\ ttl' = ttl
      /\ differing' = (differing \ {k}) \cup Store!Evicted(k)
                        \cup (IF t = ttl[h] /\ t > 0 THEN {} ELSE {k})
  BY DEF Store!PutWithTTL
<1> HIDE DEF inMemory, inRedis
<1>4. /\ memory' \in [Keys -> SUBSET Entries]
      /\ redis' \in [Keys -> SUBSET Entries]
      /\ \A j \in Keys : redis'[j] = IF j = k THEN {inRedis} ELSE redis[j]
  BY <1>1, <1>3 DEF CacheInv
<1>5. ASSUME NEW j \in Keys \ differing'
      PROVE  \/ memory'[j] = redis'[j]
             \/ j \notin differing /\ memory'[j] = memory[j] /\ redis'[j] = redis[j]
  <2>1. CASE j = k
    BY <2>1, <1>2, <1>3, <1>4
  <2>2. CASE j # k
    BY <2>2, <1>3, <1>4
  <2> QED
    BY <2>1, <2>2
<1>6. ASSUME NEW j \in Keys \ differing' PROVE Store!Live(memory'[j]) = Store!Live(redis'[j])
  BY <1>5, <1>6 DEF CacheInv
<1> QED
  BY <1>3, <1>4, <1>6 DEF CacheInv, Store!Live

\* What has expired is removed by Get.
LEMMA CacheGet ==
  ASSUME CacheInv, NEW k \in Keys, Store!Get(k)
  PROVE  CacheInv'
<1>1. /\ memory' = [memory EXCEPT ![k] = Store!Live(memory[k])]
      /\ redis' = redis /\ ttl' = ttl /\ differing' = differing
  BY DEF Store!Get
<1>2. Store!Live(memory[k]) \subseteq memory[k]
  BY DEF Store!Live
<1>3. Store!Live(Store!Live(memory[k])) = Store!Live(memory[k])
  BY DEF Store!Live
<1>4. /\ memory' \in [Keys -> SUBSET Entries]
      /\ \A j \in Keys : memory'[j] = IF j = k THEN Store!Live(memory[k]) ELSE memory[j]
  BY <1>1, <1>2 DEF CacheInv
<1>5. ASSUME NEW j \in Keys \ differing' PROVE Store!Live(memory'[j]) = Store!Live(redis'[j])
  BY <1>1, <1>3, <1>4, <1>5 DEF CacheInv
<1> QED
  BY <1>1, <1>4, <1>5 DEF CacheInv, Store!Live

Older(entries) == {[e EXCEPT !.left = IF e.left > 0 THEN @ - 1 ELSE @] : e \in entries}

\* Entries that have expired do not come back.
LEMMA OlderLive ==
  ASSUME NEW S \in SUBSET Entries
  PROVE  /\ Older(S) \in SUBSET Entries
         /\ Store!Live(Older(S)) = Store!Live(Older(Store!Live(S)))
<1> DEFINE older(e) == [e EXCEPT !.left = IF e.left > 0 THEN e.left - 1 ELSE e.left]
<1>1. Older(S) = {older(e) : e \in S} /\ Older(Store!Live(S)) = {older(e) : e \in Store!Live(S)}
  BY DEF Older
<1>2. ASSUME NEW e \in Entries
      PROVE  older(e) \in Entries /\ (e.left = 0 => older(e).left = 0)
  BY DEF Entries
<1> HIDE DEF older
<1>3. Older(S) \in SUBSET Entries
  BY <1>1, <1>2
<1>4. ASSUME NEW x PROVE x \in Store!Live(Older(S)) <=> x \in Store!Live(Older(Store!Live(S)))
  BY <1>1, <1>2 DEF Store!Live
<1> QED
  BY <1>3, <1>4

\* Time passes.
LEMMA CacheElapse ==
  ASSUME CacheInv, Store!Elapse
  PROVE  CacheInv'
<1>1. /\ memory' = [k \in Keys |-> Older(memory[k])]
      /\ redis' = [k \in Keys |-> Store!Live(Older(redis[k]))]
      /\ ttl' = ttl /\ differing' = differing
  BY DEF Store!Elapse, Older
<1>2. ASSUME NEW S PROVE Store!Live(S) \subseteq S /\ Store!Live(Store!Live(S)) = Store!Live(S)
  BY DEF Store!Live
<1>3. ASSUME NEW k \in Keys
      PROVE  memory[k] \in SUBSET Entries /\ redis[k] \in SUBSET Entries
  BY DEF CacheInv
<1>4. memory' \in [Keys -> SUBSET Entries] /\ redis' \in [Keys -> SUBSET Entries]
  BY <1>1, <1>2, <1>3, OlderLive
<1>5. ASSUME NEW k \in Keys \ differing PROVE Store!Live(memory'[k]) = Store!Live(redis'[k])
  <2>1. Store!Live(memory[k]) = Store!Live(redis[k])
    BY DEF CacheInv
  <2>2. Store!Live(Older(memory[k])) = Store!Live(Older(redis[k]))
    BY <2>1, <1>3, OlderLive
  <2> QED
    BY <2>2, <1>1, <1>2
<1> QED
  BY <1>1, <1>4, <1>5 DEF CacheInv, Store!Live

LEMMA CacheStep == CacheInv /\ [BenchNext]_BenchVars => CacheInv'
<1> SUFFICES ASSUME CacheInv, [BenchNext]_BenchVars PROVE CacheInv'
  OBVIOUS
<1>1. CASE UNCHANGED cacheVars
  BY <1>1 DEF CacheInv, cacheVars, Store!Live
<1>2. ASSUME NEW h \in Store!Handles, NEW k \in Keys, NEW v \in Values, NEW t \in TTLs,
             Store!PutWithTTL(h, k, v, t)
      PROVE  CacheInv'
  BY <1>2, TTLAssumption, CachePut
<1>3. ASSUME NEW h \in Store!Handles, NEW k \in Keys, NEW v \in Values, Store!Put(h, k, v)
      PROVE  CacheInv'
  <2>1. ttl[h] \in Int
    BY DEF CacheInv
  <2> QED
    BY <1>3, <2>1, CachePut DEF Store!Put
<1>4. ASSUME NEW k \in Keys, Store!Get(k) PROVE CacheInv'
  BY <1>4, CacheGet
<1>5. ASSUME NEW k \in Keys, Store!Delete(k) PROVE CacheInv'
  <2>1. /\ memory' = [memory EXCEPT ![k] = {}]
        /\ redis' = [redis EXCEPT ![k] = {}]
        /\ ttl' = ttl /\ differing' = differing \ {k}
    BY <1>5 DEF Store!Delete
  <2> QED
    BY <2>1 DEF CacheInv, Store!Live
<1>6. CASE Store!Clear
  BY <1>6 DEF Store!Clear, CacheInv, Store!Live
<1>7. ASSUME NEW h \in Store!Handles, NEW t \in TTLs, Store!SetDefaultTTL(h, t) PROVE CacheInv'
  BY <1>7, TTLAssumption DEF Store!SetDefaultTTL, CacheInv, Store!Live
<1>8. CASE Store!WithContext
  BY <1>8 DEF Store!WithContext, Store!Handles, CacheInv, Store!Live
<1>9. CASE Store!Elapse
  BY <1>9, CacheElapse
<1>10. CASE CacheNext
  BY <1>10, <1>2, <1>3, <1>4, <1>5, <1>6, <1>7, <1>8, <1>9 DEF CacheNext, OfCache
<1> QED
  BY <1>1, <1>10, OneSubject

\* IsExist and Get find the same in both back ends, for any size of the
\* memory, any order of calls and times to live of any sign, under every key
\* but one that was evicted, or last put with a time to live of its own or
\* one that is not positive: what both keep, they keep for the same time.
THEOREM BackendsAlike == BenchSpec => []BackendsAgree
<1>1. CacheInv => BackendsAgree
  BY DEF CacheInv, BackendsAgree, Store!BackendsAgree, Store!Found
<1> QED
  BY <1>1, CacheInit, CacheStep, PTL DEF BenchSpec

-----------------------------------------------------------------------------
(* The log (IntervalRotator) *)

\* All records of the one file are older than all of the other.
AllOlder(f, g) == \A q \in f.records, r \in g.records : q < r

\* The interval that b is named after is that of p or an earlier one.
NotAfter(b, p) == b.month < p.month \/ (b.month = p.month /\ b.day <= p.day)

SameInterval(b, p) == b.month = p.month /\ b.day = p.day

LogFiles(n, day) == [records : SUBSET (1 .. n), modTime : 1 .. day]

LogBackups(n) == [month : Nat, day : Nat, index : Nat, records : SUBSET (1 .. n)]

LogTypeOK ==
  /\ now \in Nat \ {0} /\ lastRotate \in 0 .. now /\ count \in Nat
  /\ rotation \in IntervalConfigs
  /\ active \in SUBSET LogFiles(count, now)
  /\ backups \in SUBSET LogBackups(count)
  /\ IsFiniteSet(backups)

\* What openFile truncates is not a record that is still to be kept.
LogTruncated ==
  /\ \A f \in active, g \in active : f = g
  /\ at = "purge" => active = {}
  /\ at = "openFile" => \A f \in active : f.records \subseteq dropped

\* Names sort by age, and no two backups have the same.
BackupsSorted ==
  /\ \A b \in backups : b.day = 0 <=> rotation.interval = "month"
  /\ \A a \in backups, b \in backups : a = b \/ Log!Before(a, b) \/ Log!Before(b, a)
  /\ \A a \in backups, b \in backups : Log!Before(a, b) => AllOlder(a, b)

\* The backup that the active file becomes will be the last of all: it is
\* named after no earlier interval, whether or not the process knows when it
\* rotated last.
ActiveIsNewest ==
  /\ \A b \in backups, f \in active : AllOlder(b, f) /\ NotAfter(b, Log!Period(f.modTime))
  /\ lastRotate # 0 => \A b \in backups : NotAfter(b, Log!Period(lastRotate))
  /\ \A b \in backups : NotAfter(b, Log!Period(now))

\* All of it as long as the interval is the same.
IntervalInv ==
  /\ changed \in BOOLEAN
  /\ ~ changed => LogTypeOK /\ LogTruncated /\ BackupsSorted /\ ActiveIsNewest

LEMMA IntervalInit == BenchInit => IntervalInv
<1> SUFFICES ASSUME Log!Init PROVE IntervalInv
  BY DEF BenchInit
<1>1. LogTypeOK
  BY FS_EmptySet DEF Log!Init, LogTypeOK
<1> QED
  BY <1>1 DEF Log!Init, IntervalInv, LogTruncated, BackupsSorted, ActiveIsNewest

\* A later day is in no earlier interval.
LEMMA PeriodGrows ==
  ASSUME NEW c \in Nat \ {0}, NEW d \in Nat \ {0}, c <= d
  PROVE  /\ Log!Period(c).month \in Nat /\ Log!Period(c).day \in Nat
         /\ Log!Period(c).day = 0 <=> rotation.interval # "day"
         /\ Log!Period(c).month <= Log!Period(d).month
         /\ Log!Period(c).month = Log!Period(d).month => Log!Period(c).day <= Log!Period(d).day
<1> DEFINE p == (c - 1) \div DaysPerMonth
           q == (d - 1) \div DaysPerMonth
           x == (c - 1) % DaysPerMonth
           y == (d - 1) % DaysPerMonth
<1>1. /\ p \in Nat /\ x \in 0 .. DaysPerMonth - 1 /\ c - 1 = DaysPerMonth * p + x
      /\ q \in Nat /\ y \in 0 .. DaysPerMonth - 1 /\ d - 1 = DaysPerMonth * q + y
  BY DaysAssumption
<1>2. /\ Log!Period(c) = [month |-> p + 1, day |-> IF rotation.interval = "day" THEN x + 1 ELSE 0]
      /\ Log!Period(d) = [month |-> q + 1, day |-> IF rotation.interval = "day" THEN y + 1 ELSE 0]
  BY DEF Log!Period
<1> HIDE DEF p, q, x, y
<1>3. p <= q
  <2> SUFFICES ASSUME q < p PROVE FALSE
    BY <1>1
  <2>1. DaysPerMonth * (q + 1) <= DaysPerMonth * p
    BY <1>1, DaysAssumption
  <2>2. DaysPerMonth * (q + 1) = DaysPerMonth * q + DaysPerMonth
    BY <1>1, DaysAssumption
  <2> QED
    BY <2>1, <2>2, <1>1, DaysAssumption
<1>4. p = q => x <= y
  BY <1>1, DaysAssumption
<1>5. /\ Log!Period(c).month = p + 1 /\ Log!Period(d).month = q + 1
      /\ rotation.interval = "day" => Log!Period(c).day = x + 1 /\ Log!Period(d).day = y + 1
      /\ rotation.interval # "day" => Log!Period(c).day = 0 /\ Log!Period(d).day = 0
  BY <1>2
<1>6. /\ x + 1 \in Nat \ {0} /\ y + 1 \in Nat \ {0} /\ p + 1 \in Nat
      /\ p + 1 <= q + 1 /\ (p + 1 = q + 1 => x + 1 <= y + 1)
  BY <1>1, <1>3, <1>4, DaysAssumption
<1> QED
  BY <1>5, <1>6

\* A set of numbers has a least one.
LEMMA LeastOf ==
  ASSUME NEW T \in SUBSET Nat, T # {}
  PROVE  \E x \in T : \A y \in T : x <= y
<1>1. PICK x \in T : \A y \in T : <<y, x>> \notin OpToRel(<, Nat)
  BY NatLessThanWellFounded, WFMin
<1>2. \A y \in T : ~ (y < x)
  BY <1>1 DEF OpToRel
<1> QED
  BY <1>2

LEMMA BackupFields ==
  ASSUME LogTypeOK, NEW b \in backups
  PROVE  b.month \in Nat /\ b.day \in Nat /\ b.index \in Nat /\ b.records \subseteq 1 .. count
  BY DEF LogTypeOK, LogBackups

\* The number of a new backup is after all that its interval has.
LEMMA NextIndexIsNew ==
  ASSUME LogTypeOK, BackupsSorted,
         NEW p, p.month \in Nat, p.day \in Nat, p.day = 0 <=> rotation.interval = "month"
  PROVE  /\ Log!NextIndex(p) \in Nat
         /\ \A b \in backups : SameInterval(b, p) => b.index < Log!NextIndex(p)
<1> DEFINE G == Log!Glob(p)
           after(b) == {a \in G : Log!Before(b, a)}
<1>1. ASSUME NEW b PROVE b \in G <=> b \in backups /\ SameInterval(b, p)
  <2>1. \A d \in backups : d.day = 0 <=> p.day = 0
    BY DEF BackupsSorted
  <2> QED
    BY <2>1 DEF Log!Glob, SameInterval
<1>2. G \subseteq backups /\ IsFiniteSet(G)
  BY <1>1, FS_Subset DEF LogTypeOK
<1>3. ASSUME NEW a \in G PROVE a.month = p.month /\ a.day = p.day /\ a.index \in Nat
  BY <1>1, <1>3, BackupFields DEF SameInterval
<1>4. ASSUME NEW a \in G, NEW b \in G PROVE Log!Before(a, b) <=> a.index < b.index
  BY <1>3, <1>4 DEF Log!Before
<1>5. ASSUME NEW b \in G
      PROVE  /\ after(b) \in SUBSET G /\ IsFiniteSet(after(b)) /\ Cardinality(after(b)) \in Nat
  BY <1>2, FS_Subset, FS_CardinalityType
<1>6. CASE G = {}
  BY <1>1, <1>6 DEF Log!NextIndex
<1>7. CASE G # {}
  <2>1. PICK m \in G : \A b \in G : Cardinality(after(m)) <= Cardinality(after(b))
    <3> DEFINE T == {Cardinality(after(b)) : b \in G}
    <3>1. T \in SUBSET Nat /\ T # {}
      BY <1>5, <1>7
    <3>2. PICK x \in T : \A y \in T : x <= y
      BY <3>1, LeastOf
    <3> QED
      BY <3>2
  <2>2. ASSUME NEW a \in G \ {m} PROVE Log!Before(a, m)
    <3> SUFFICES ASSUME Log!Before(m, a) PROVE FALSE
      BY <1>2 DEF BackupsSorted
    <3>1. after(a) \in SUBSET after(m)
      BY <1>3, <1>4
    <3>2. a \in after(m) /\ a \notin after(a)
      BY <1>3, <1>4
    <3>3. after(a) # after(m)
      BY <3>2
    <3>4. Cardinality(after(a)) # Cardinality(after(m)) /\ Cardinality(after(a)) <= Cardinality(after(m))
      BY <3>1, <3>3, <1>5, FS_Subset
    <3>5. Cardinality(after(m)) <= Cardinality(after(a))
      BY <2>1
    <3> QED
      BY <3>4, <3>5, <1>5
  <2> DEFINE last == CHOOSE b \in G : \A a \in G \ {b} : Log!Before(a, b)
  <2>3. last \in G /\ \A a \in G \ {last} : Log!Before(a, last)
    BY <2>2
  <2>4. Log!NextIndex(p) = 1 + last.index
    BY <1>7 DEF Log!NextIndex
  <2> HIDE DEF last
  <2>5. ASSUME NEW b \in G PROVE b.index <= last.index
    BY <2>3, <1>3, <1>4
  <2> QED
    BY <2>3, <2>4, <2>5, <1>1, <1>3
<1> QED
  BY <1>6, <1>7

IntervalState == LogTypeOK /\ LogTruncated /\ BackupsSorted /\ ActiveIsNewest

\* The periods of days do not depend on what a step changes but for the
\* interval that is configured.
LEMMA PeriodKept ==
  ASSUME rotation'.interval = rotation.interval, NEW d
  PROVE  Log!Period(d)' = Log!Period(d)
  BY DEF Log!Period

\* The active file becomes the last of the backups, and none makes room.
LEMMA IntervalRotate ==
  ASSUME IntervalState, Log!RotateByInterval
  PROVE  IntervalState' /\ Log!Written \subseteq Log!Written'
<1> USE DEF IntervalState
<1>0. /\ rotation' = rotation /\ now' = now /\ count' = count /\ dropped' = dropped
      /\ at' = "purge"
  BY DEF Log!RotateByInterval, Log!settings, Log!Go
<1>1. ASSUME NEW d PROVE Log!Period(d)' = Log!Period(d)
  BY <1>0, PeriodKept
<1>2. Log!Period(now)' = Log!Period(now)
  BY <1>0 DEF Log!Period
<1>3. CASE active = {}
  <2>1. active' = active /\ backups' = backups /\ lastRotate' = lastRotate
    BY <1>3 DEF Log!RotateByInterval
  <2>2. Log!Period(lastRotate)' = Log!Period(lastRotate)
    BY <1>0, <2>1 DEF Log!Period
  <2>3. LogTypeOK'
    BY <1>0, <2>1 DEF LogTypeOK
  <2>4. LogTruncated'
    BY <1>0, <1>3, <2>1 DEF LogTruncated
  <2>5. BackupsSorted'
    BY <1>0, <2>1 DEF BackupsSorted, Log!Before, AllOlder
  <2>6. ActiveIsNewest'
    BY <1>2, <2>1, <2>2, <1>3 DEF ActiveIsNewest, NotAfter
  <2> QED
    BY <2>1, <2>3, <2>4, <2>5, <2>6 DEF Log!Written
<1>4. CASE active # {}
  <2> DEFINE x(file) == IF lastRotate = 0 THEN file.modTime ELSE lastRotate
             newOf(file) == [month |-> Log!Period(x(file)).month, day |-> Log!Period(x(file)).day,
                             index |-> Log!NextIndex(Log!Period(x(file))), records |-> file.records]
  <2>1. PICK file \in active :
          /\ backups' = {b \in backups : Log!Before(b, newOf(file)) \/ Log!Before(newOf(file), b)}
                          \cup {newOf(file)}
          /\ active' = {}
          /\ lastRotate' = now
    BY <1>4 DEF Log!RotateByInterval, Log!LogPrefix
  <2> DEFINE p == Log!Period(x(file))
             n == Log!NextIndex(p)
             new == newOf(file)
  <2>2. /\ x(file) \in Nat \ {0} /\ x(file) <= now /\ now \in Nat \ {0}
        /\ file.records \subseteq 1 .. count
        /\ rotation.interval \in {"day", "month"}
    BY DEF LogTypeOK, LogFiles, IntervalConfigs
  <2>3. /\ p.month \in Nat /\ p.day \in Nat /\ (p.day = 0 <=> rotation.interval = "month")
        /\ NotAfter(p, Log!Period(now))
        /\ Log!Period(now).month \in Nat /\ Log!Period(now).day \in Nat
    <3> HIDE DEF x
    <3>1. /\ Log!Period(now).month \in Nat /\ Log!Period(now).day \in Nat
      BY <2>2, PeriodGrows
    <3>2. /\ p.month \in Nat /\ p.day \in Nat /\ (p.day = 0 <=> rotation.interval # "day")
          /\ p.month <= Log!Period(now).month
          /\ p.month = Log!Period(now).month => p.day <= Log!Period(now).day
      BY <2>2, PeriodGrows
    <3> HIDE DEF p
    <3> QED
      BY <3>1, <3>2, <2>2 DEF NotAfter
  <2>4. \A b \in backups : NotAfter(b, p) /\ AllOlder(b, file)
    BY DEF ActiveIsNewest
  <2>5. /\ new.month = p.month /\ new.day = p.day /\ new.index = n /\ new.records = file.records
        /\ new = [month |-> p.month, day |-> p.day, index |-> n, records |-> file.records]
    OBVIOUS
  <2> HIDE DEF x, newOf, new, p
  <2>6. n \in Nat /\ \A b \in backups : SameInterval(b, p) => b.index < n
    BY <2>3, NextIndexIsNew
  <2> HIDE DEF n
  <2>7. ASSUME NEW b \in backups
        PROVE  /\ Log!Before(b, new) /\ ~ Log!Before(new, b) /\ AllOlder(b, new)
    <3>1. b.month \in Nat /\ b.day \in Nat /\ b.index \in Nat
      BY BackupFields
    <3>2. AllOlder(b, new)
      BY <2>4, <2>5 DEF AllOlder
    <3> QED
      BY <3>1, <3>2, <2>3, <2>4, <2>5, <2>6 DEF Log!Before, NotAfter, SameInterval
  <2>8. backups' = backups \cup {new} /\ ~ Log!Before(new, new)
    <3>1. backups' = {b \in backups : Log!Before(b, new) \/ Log!Before(new, b)} \cup {new}
      BY <2>1 DEF new
    <3> QED
      BY <3>1, <2>3, <2>5, <2>6, <2>7 DEF Log!Before
  <2>9. LogTypeOK'
    <3>1. new \in LogBackups(count)
      BY <2>2, <2>3, <2>5, <2>6 DEF LogBackups
    <3>2. IsFiniteSet(backups')
      BY <2>8, FS_AddElement DEF LogTypeOK
    <3> QED
      BY <3>1, <3>2, <1>0, <2>1, <2>2, <2>8 DEF LogTypeOK
  <2>10. LogTruncated'
    BY <1>0, <2>1 DEF LogTruncated
  <2>11. BackupsSorted'
    <3>1. \A b \in backups' : b.day = 0 <=> rotation'.interval = "month"
      BY <1>0, <2>3, <2>5, <2>8 DEF BackupsSorted
    <3>2. ASSUME NEW a \in backups', NEW b \in backups'
          PROVE  /\ a = b \/ Log!Before(a, b) \/ Log!Before(b, a)
                 /\ Log!Before(a, b) => AllOlder(a, b)
      <4>1. CASE a \in backups /\ b \in backups
        BY <4>1 DEF BackupsSorted
      <4>2. CASE ~ (a \in backups /\ b \in backups)
        BY <4>2, <3>2, <2>7, <2>8
      <4> QED
        BY <4>1, <4>2
    <3> QED
      BY <3>1, <3>2 DEF BackupsSorted, Log!Before, AllOlder
  <2>12. ActiveIsNewest'
    <3>1. NotAfter(new, Log!Period(now))
      BY <2>3, <2>5 DEF NotAfter
    <3>2. \A b \in backups' : NotAfter(b, Log!Period(now))
      BY <3>1, <2>8 DEF ActiveIsNewest
    <3>3. Log!Period(lastRotate)' = Log!Period(now)
      BY <1>0, <2>1 DEF Log!Period
    <3> QED
      BY <3>2, <3>3, <1>2, <2>1 DEF ActiveIsNewest, NotAfter
  <2>13. ASSUME NEW r \in Log!Written PROVE r \in Log!Written'
    <3>1. PICK f \in active \cup backups : r \in f.records
      BY <2>13 DEF Log!Written
    <3>2. CASE f \in active
      BY <3>1, <3>2, <2>5, <2>8 DEF LogTruncated, Log!Written
    <3>3. CASE f \in backups
      BY <3>1, <3>3, <2>8 DEF Log!Written
    <3> QED
      BY <3>2, <3>3
  <2> QED
    BY <2>9, <2>10, <2>11, <2>12, <2>13
<1> QED
  BY <1>3, <1>4

\* The backups all of whose records are younger than a.
Younger(a) == {b \in backups : \A r \in b.records : r > a}

\* What a step may lose is older than as many backups as are to be kept.
LostAreOld ==
  \A a \in Log!Written \ (Log!Written' \cup dropped) :
    rotation.maxBackups <= Cardinality(Younger(a)')

\* The instance counts as FiniteSets does.
LEMMA LogCardinality == \A S : Log!Cardinality(S) = Cardinality(S)
  BY DEF Log!Cardinality, Cardinality

\* A purge removes a backup that has maxBackups younger ones.
LEMMA IntervalPurge ==
  ASSUME IntervalState, Log!Purge
  PROVE  IntervalState' /\ LostAreOld
<1> USE DEF IntervalState
<1>0. /\ rotation' = rotation /\ now' = now /\ count' = count /\ dropped' = dropped
      /\ active' = active /\ lastRotate' = lastRotate /\ active = {}
  BY DEF Log!Purge, Log!settings, LogTruncated
<1>1. \/ backups' = backups
      \/ \E b \in backups :
           /\ Cardinality({a \in backups : Log!Before(b, a)}) = rotation.maxBackups
           /\ backups' = backups \ {b}
  <2>1. \A S : Log!Cardinality(S) = Cardinality(S)
    BY LogCardinality
  <2>2. \/ backups' = backups
        \/ \E b \in backups :
             /\ Log!Cardinality({a \in backups : Log!Before(b, a)}) = rotation.maxBackups
             /\ backups' = backups \ {b}
    BY DEF Log!Purge
  <2> QED
    BY <2>1, <2>2
<1>2. backups' \in SUBSET backups
  BY <1>1
<1>3. Log!Period(now)' = Log!Period(now) /\ Log!Period(lastRotate)' = Log!Period(lastRotate)
  BY <1>0 DEF Log!Period
<1>4. LogTypeOK'
  BY <1>0, <1>2, FS_Subset DEF LogTypeOK
<1>5. LogTruncated'
  BY <1>0 DEF LogTruncated
<1>6. BackupsSorted'
  BY <1>0, <1>2 DEF BackupsSorted, Log!Before, AllOlder
<1>7. ActiveIsNewest'
  BY <1>0, <1>2, <1>3 DEF ActiveIsNewest, NotAfter
<1>8. ASSUME NEW a \in Log!Written \ (Log!Written' \cup dropped)
      PROVE  rotation.maxBackups <= Cardinality(Younger(a)')
  <2>1. PICK f \in backups : a \in f.records /\ f \notin backups'
    BY <1>0 DEF Log!Written
  <2>0. PICK b \in backups :
          /\ Cardinality({c \in backups : Log!Before(b, c)}) = rotation.maxBackups
          /\ backups' = backups \ {b}
    BY <1>1, <2>1
  <2> DEFINE after == {c \in backups : Log!Before(b, c)}
  <2>2. /\ f = b /\ b \in backups /\ Cardinality(after) = rotation.maxBackups
        /\ backups' = backups \ {b}
    BY <2>0, <2>1
  <2>3. ASSUME NEW c \in after PROVE c \in Younger(a)'
    <3>1. c # b
      BY <2>2, BackupFields DEF Log!Before
    <3>2. \A r \in c.records : a < r
      BY <2>1, <2>2 DEF BackupsSorted, AllOlder
    <3>3. \A r \in c.records : r \in Nat
      BY BackupFields DEF LogTypeOK
    <3>4. a \in Nat
      BY <2>1, BackupFields DEF LogTypeOK
    <3> QED
      BY <2>2, <3>1, <3>2, <3>3, <3>4 DEF Younger
  <2>4. Younger(a)' \in SUBSET backups'
    BY DEF Younger
  <2>5. IsFiniteSet(Younger(a)')
    BY <2>4, <1>4, FS_Subset DEF LogTypeOK
  <2>6. after \in SUBSET Younger(a)'
    BY <2>3
  <2> HIDE DEF after
  <2>7. Cardinality(after) <= Cardinality(Younger(a)')
    BY <2>5, <2>6, FS_Subset
  <2> QED
    BY <2>2, <2>7
<1> QED
  BY <1>4, <1>5, <1>6, <1>7, <1>8 DEF LostAreOld

LEMMA IntervalActions ==
  ASSUME IntervalState, LogNext, ~ changed'
  PROVE  IntervalState' /\ LostAreOld
<1> USE DEF IntervalState
<1>k. ASSUME Log!Written \subseteq Log!Written' PROVE LostAreOld
  BY <1>k DEF LostAreOld
<1>1. CASE Log!WriteRecord
  <2>1. /\ rotation' = rotation /\ now' = now /\ count' = count /\ dropped' = dropped
        /\ active' = active /\ lastRotate' = lastRotate /\ backups' = backups
        /\ at' \in {"openNew", "rotate", "write"}
    BY <1>1 DEF Log!WriteRecord, Log!settings
  <2> QED
    BY <2>1, <1>k DEF Log!Written, Log!Period, LogTypeOK, LogTruncated, BackupsSorted, ActiveIsNewest, Log!Before, AllOlder, NotAfter
<1>2. CASE Log!RotateNow
  <2>1. /\ rotation' = rotation /\ now' = now /\ count' = count /\ dropped' = dropped
        /\ active' = active /\ lastRotate' = lastRotate /\ backups' = backups
        /\ at' = "rotate"
    BY <1>2 DEF Log!RotateNow, Log!settings
  <2> QED
    BY <2>1, <1>k DEF Log!Written, Log!Period, LogTypeOK, LogTruncated, BackupsSorted, ActiveIsNewest, Log!Before, AllOlder, NotAfter
<1>3. CASE Log!CloseRotator
  <2>1. /\ rotation' = rotation /\ now' = now /\ count' = count /\ dropped' = dropped
        /\ active' = active /\ lastRotate' = lastRotate /\ backups' = backups
        /\ at' = at
    BY <1>3 DEF Log!CloseRotator, Log!settings
  <2> QED
    BY <2>1, <1>k DEF Log!Written, Log!Period, LogTypeOK, LogTruncated, BackupsSorted, ActiveIsNewest, Log!Before, AllOlder, NotAfter
<1>4. CASE Log!OpenNew
  <2>1. /\ rotation' = rotation /\ now' = now /\ count' = count /\ dropped' = dropped
        /\ active' = active /\ lastRotate' = lastRotate /\ backups' = backups
        /\ at' \in {"openFile", "rotate", "write"} /\ (at' = "openFile" => active = {})
    BY <1>4 DEF Log!OpenNew, Log!settings, Log!Go
  <2> QED
    BY <2>1, <1>k DEF Log!Written, Log!Period, LogTypeOK, LogTruncated, BackupsSorted, ActiveIsNewest, Log!Before, AllOlder, NotAfter
<1>5. CASE Log!RotateByInterval
  BY <1>5, <1>k, IntervalRotate
<1>6. CASE Log!Purge
  BY <1>6, IntervalPurge
<1>7. CASE Log!OpenFile
  <2> DEFINE new == [records |-> {}, modTime |-> now]
  <2>1. /\ rotation' = rotation /\ now' = now /\ count' = count /\ dropped' = dropped
        /\ active' = {new} /\ lastRotate' = lastRotate /\ backups' = backups
        /\ at = "openFile" /\ at' = "write"
    BY <1>7 DEF Log!OpenFile, Log!settings, Log!Go
  <2>2. new \in LogFiles(count, now) /\ new.records = {} /\ new.modTime = now
    BY DEF LogFiles, LogTypeOK
  <2> HIDE DEF new
  <2>3. LogTypeOK'
    BY <2>1, <2>2 DEF LogTypeOK
  <2>4. LogTruncated'
    BY <2>1 DEF LogTruncated
  <2>5. BackupsSorted'
    BY <2>1 DEF BackupsSorted, Log!Before, AllOlder
  <2>6. ActiveIsNewest'
    <3>1. /\ Log!Period(now)' = Log!Period(now)
          /\ Log!Period(lastRotate)' = Log!Period(lastRotate)
      BY <2>1 DEF Log!Period
    <3>2. ASSUME NEW f \in active', NEW b \in backups
          PROVE  AllOlder(b, f) /\ Log!Period(f.modTime)' = Log!Period(now)
      <4>1. f.records = {} /\ f.modTime = now
        BY <2>1, <2>2
      <4>2. Log!Period(f.modTime)' = Log!Period(f.modTime)
        BY <2>1, PeriodKept
      <4> QED
        BY <4>1, <4>2 DEF AllOlder
    <3> QED
      BY <2>1, <3>1, <3>2 DEF ActiveIsNewest, AllOlder, NotAfter
  <2>7. LostAreOld
    <3>1. \A r \in Log!Written : r \in Log!Written' \/ r \in dropped
      BY <2>1 DEF LogTruncated, Log!Written
    <3> QED
      BY <3>1 DEF LostAreOld
  <2> QED
    BY <2>3, <2>4, <2>5, <2>6, <2>7
<1>8. CASE Log!WriteData
  <2> DEFINE more(f) == [records |-> f.records \cup {count + 1}, modTime |-> now]
  <2>1. /\ rotation' = rotation /\ now' = now /\ count' = count + 1 /\ dropped' = dropped
        /\ active' = {more(f) : f \in active} /\ lastRotate' = lastRotate /\ backups' = backups
        /\ at' = "idle"
    BY <1>8 DEF Log!WriteData, Log!settings, Log!Done
  <2>2. ASSUME NEW f \in active
        PROVE  /\ more(f) \in LogFiles(count + 1, now)
               /\ more(f).records = f.records \cup {count + 1} /\ more(f).modTime = now
    BY DEF LogFiles, LogTypeOK
  <2> HIDE DEF more
  <2>3. LogTypeOK'
    <3>1. backups \in SUBSET LogBackups(count + 1)
      BY DEF LogTypeOK, LogBackups
    <3>2. active' \in SUBSET LogFiles(count + 1, now)
      BY <2>1, <2>2
    <3> QED
      BY <3>1, <3>2, <2>1 DEF LogTypeOK
  <2>4. LogTruncated'
    BY <2>1 DEF LogTruncated
  <2>5. BackupsSorted'
    BY <2>1 DEF BackupsSorted, Log!Before, AllOlder
  <2>6. ActiveIsNewest'
    <3>1. Log!Period(now)' = Log!Period(now) /\ Log!Period(lastRotate)' = Log!Period(lastRotate)
      BY <2>1 DEF Log!Period
    <3>3. ASSUME NEW b \in backups, NEW f \in active PROVE AllOlder(b, more(f))
      <4>1. b.records \subseteq 1 .. count
        BY BackupFields
      <4> QED
        BY <4>1, <2>2 DEF LogTypeOK, ActiveIsNewest, AllOlder
    <3>4. ASSUME NEW b \in backups', NEW g \in active'
          PROVE  AllOlder(b, g) /\ NotAfter(b, Log!Period(g.modTime)')
      <4>1. PICK f \in active : g = more(f)
        BY <2>1
      <4>2. g.modTime = now
        BY <2>2, <4>1
      <4>3. Log!Period(g.modTime)' = Log!Period(g.modTime)
        BY <2>1, PeriodKept
      <4> QED
        BY <2>1, <3>3, <4>1, <4>2, <4>3 DEF ActiveIsNewest
    <3> QED
      BY <2>1, <3>1, <3>4 DEF ActiveIsNewest, AllOlder, NotAfter
  <2>7. \A r \in Log!Written : r \in Log!Written'
    BY <2>1, <2>2 DEF Log!Written
  <2> QED
    BY <2>3, <2>4, <2>5, <2>6, <2>7, <1>k
<1>9. CASE Log!Tick
  <2>1. /\ rotation' = rotation /\ now' = now + 1 /\ count' = count /\ dropped' = dropped
        /\ active' = active /\ lastRotate' = lastRotate /\ backups' = backups /\ at' = at
    BY <1>9 DEF Log!Tick
  <2>2. LogTypeOK'
    BY <2>1 DEF LogTypeOK, LogFiles
  <2>3. LogTruncated' /\ BackupsSorted'
    BY <2>1 DEF LogTruncated, BackupsSorted, Log!Before, AllOlder
  <2>4. \A b \in backups : NotAfter(b, Log!Period(now + 1))
    <3>1. /\ now \in Nat \ {0} /\ now + 1 \in Nat \ {0} /\ now <= now + 1
      BY DEF LogTypeOK
    <3>2. /\ Log!Period(now).month \in Nat /\ Log!Period(now).day \in Nat
          /\ Log!Period(now).month <= Log!Period(now + 1).month
          /\ Log!Period(now).month = Log!Period(now + 1).month =>
                Log!Period(now).day <= Log!Period(now + 1).day
      BY <3>1, PeriodGrows
    <3>3. Log!Period(now + 1).month \in Nat /\ Log!Period(now + 1).day \in Nat
      BY <3>1, PeriodGrows
    <3> QED
      BY <3>2, <3>3, BackupFields DEF ActiveIsNewest, NotAfter
  <2>5. ActiveIsNewest'
    <3>1. Log!Period(now)' = Log!Period(now + 1) /\ Log!Period(lastRotate)' = Log!Period(lastRotate)
      BY <2>1 DEF Log!Period
    <3>2. \A f \in active : Log!Period(f.modTime)' = Log!Period(f.modTime)
      BY <2>1 DEF Log!Period
    <3> QED
      BY <2>1, <2>4, <3>1, <3>2 DEF ActiveIsNewest, AllOlder, NotAfter
  <2>6. Log!Written' = Log!Written
    BY <2>1 DEF Log!Written
  <2> QED
    BY <2>2, <2>3, <2>5, <2>6, <1>k
<1>10. CASE Log!SystemFault
  <2>1. /\ rotation' = rotation /\ now' = now /\ count' = count /\ dropped' = dropped
        /\ active' = active /\ lastRotate' = lastRotate /\ backups' = backups
        /\ at' = "idle"
    BY <1>10 DEF Log!SystemFault, Log!settings, Log!Done
  <2> QED
    BY <2>1, <1>k DEF Log!Written, Log!Period, LogTypeOK, LogTruncated, BackupsSorted, ActiveIsNewest, Log!Before, AllOlder, NotAfter
<1>11. CASE Log!StatFails
  <2>1. /\ rotation' = rotation /\ now' = now /\ count' = count
        /\ dropped' = dropped \cup UNION {f.records : f \in active}
        /\ active' = active /\ lastRotate' = lastRotate /\ backups' = backups
        /\ at' = "openFile"
    BY <1>11 DEF Log!StatFails, Log!settings, Log!Go
  <2> QED
    BY <2>1, <1>k DEF Log!Written, Log!Period, LogTypeOK, LogTruncated, BackupsSorted, ActiveIsNewest, Log!Before, AllOlder, NotAfter
<1>12. CASE Log!Restart
  <2>1. /\ rotation' \in IntervalConfigs /\ now' = now /\ count' = count /\ dropped' = dropped
        /\ active' = active /\ lastRotate' = 0 /\ backups' = backups
        /\ at' = "idle" /\ rotation'.interval = rotation.interval
    BY <1>12 DEF Log!Restart, Log!Done
  <2> QED
    BY <2>1, <1>k DEF Log!Written, Log!Period, LogTypeOK, LogTruncated, BackupsSorted, ActiveIsNewest, Log!Before, AllOlder, NotAfter
<1> QED
  BY <1>1, <1>2, <1>3, <1>4, <1>5, <1>6, <1>7, <1>8, <1>9, <1>10, <1>11, <1>12 DEF LogNext, OfLog

LEMMA IntervalStep == IntervalInv /\ [BenchNext]_BenchVars => IntervalInv'
<1> SUFFICES ASSUME IntervalInv, [BenchNext]_BenchVars PROVE IntervalInv'
  OBVIOUS
<1>1. CASE UNCHANGED logVars
  BY <1>1 DEF logVars, IntervalInv, Log!Period, LogTypeOK, LogTruncated, BackupsSorted,
       ActiveIsNewest, Log!Before, AllOlder, NotAfter
<1>2. CASE LogNext
  <2>1. changed' \in BOOLEAN /\ (changed => changed')
    BY <1>2 DEF LogNext, OfLog, IntervalInv, Log!WriteRecord, Log!RotateNow, Log!CloseRotator,
         Log!OpenNew, Log!RotateByInterval, Log!Purge, Log!OpenFile, Log!WriteData, Log!Tick,
         Log!SystemFault, Log!StatFails, Log!Restart, Log!settings
  <2>2. CASE changed'
    BY <2>1, <2>2 DEF IntervalInv
  <2>3. CASE ~ changed'
    BY <1>2, <2>1, <2>3, IntervalActions DEF IntervalInv, IntervalState
  <2> QED
    BY <2>2, <2>3
<1> QED
  BY <1>1, <1>2, OneSubject

\* Records are lost only to as many younger backups as are to be kept, through
\* any number of crashes, failed calls and restarts with another maxBackups,
\* as long as the interval is the same: names sort by age, because no interval
\* is named before an earlier one and no number of it is used twice.
THEOREM YoungestKept == BenchSpec => NewestKept
<1>1. ASSUME IntervalInv, [BenchNext]_BenchVars
      PROVE  [~ changed' =>
                \A a \in Log!Written \ (Log!Written' \cup dropped) :
                  rotation.maxBackups
                    <= Log!Cardinality({b \in backups' : \A r \in b.records : r > a})]_Log!intervalVars
  <2>1. CASE UNCHANGED logVars
    BY <1>1, <2>1 DEF logVars, Log!intervalVars
  <2>2. ASSUME LogNext, ~ changed' PROVE LostAreOld
    <3>1. changed => changed'
      BY <2>2 DEF LogNext, OfLog, Log!WriteRecord, Log!RotateNow, Log!CloseRotator,
           Log!OpenNew, Log!RotateByInterval, Log!Purge, Log!OpenFile, Log!WriteData, Log!Tick,
           Log!SystemFault, Log!StatFails, Log!Restart, Log!settings
    <3> QED
      BY <1>1, <2>2, <3>1, IntervalActions DEF IntervalInv, IntervalState
  <2>3. ASSUME LostAreOld, NEW a \in Log!Written \ (Log!Written' \cup dropped)
        PROVE  rotation.maxBackups
                 <= Log!Cardinality({b \in backups' : \A r \in b.records : r > a})
    <3>1. Younger(a)' = {b \in backups' : \A r \in b.records : r > a}
      BY DEF Younger
    <3> QED
      BY <2>3, <3>1, LogCardinality DEF LostAreOld
  <2> QED
    BY <1>1, <2>1, <2>2, <2>3, OneSubject
<1> QED
  BY <1>1, IntervalInit, IntervalStep, PTL DEF BenchSpec, NewestKept, Log!NewestKept

-----------------------------------------------------------------------------
(* How the program came about (ProjectGenerator) *)

None == Generator!None

\* The directory of an application, and the files that `add` makes in it.
AppDir(app) == <<"GOPATH", app>>
AddFile(p, app, t) == Generator!FileOf("add", p, "GOPATH", app, t)

IsFile(f) == f = None \/ (f = [imports |-> f.imports, text |-> f.text] /\ \E S : f.imports \in Seq(S))

IsDisk(d) ==
  /\ d = [files |-> d.files, dirs |-> d.dirs, settings |-> d.settings, api |-> d.api, impl |-> d.impl]
  /\ IsFile(d.api) /\ IsFile(d.impl)

IsJob(j) ==
  \/ j = Generator!NoJob
  \/ /\ j = [cmd |-> j.cmd, at |-> j.at, p |-> j.p, app |-> j.app, tree |-> j.tree]
     /\ j.cmd \in {"init", "add", "register"}
     /\ j.at \in Nat \ {0}

NoneAdded(f) == f # None => Generator!Added(f) = {}
NotAdded(f, app) == f # None => \A m \in Generator!Added(f) : f.imports[m].app # app

\* What a file of apps/all names by `add` it names once, and on the disk d are
\* its files and its directory.
Whole(d, f) ==
  f # None =>
    \A m \in Generator!Added(f) :
      /\ \A n \in Generator!Added(f) : f.imports[n].app = f.imports[m].app => n = m
      /\ Generator!AddFiles(f.imports[m].p, f.imports[m].app) \subseteq d.files
      /\ AppDir(f.imports[m].app) \in d.dirs

\* A run of `add` has made a file for every template it has come to, and what
\* it adds is not named before it is registered.  A run of init has made the
\* files of apps/all anew before it comes to an application.
RunUnderWay(d, j) ==
  /\ j.cmd \in {"add", "register"} => j.tree = "GOPATH" /\ NotAdded(d.impl, j.app)
  /\ j.cmd = "add" =>
       /\ NotAdded(d.api, j.app)
       /\ \A i \in 1 .. 16 :
            i < j.at /\ ~ Generator!AddSkips(j.p, BenchTemplates[i])
              => AddFile(j.p, j.app, BenchTemplates[i]) \in d.files /\ AppDir(j.app) \in d.dirs
  /\ j.cmd = "register" =>
       Generator!AddFiles(j.p, j.app) \subseteq d.files /\ AppDir(j.app) \in d.dirs
  /\ j.cmd = "init" => (j.at > 1 => NoneAdded(d.api)) /\ (j.at > 2 => NoneAdded(d.impl))

GeneratorInv ==
  /\ strayed \in BOOLEAN /\ IsDisk(disk) /\ IsJob(job)
  /\ ~ strayed => Whole(disk, disk.api) /\ Whole(disk, disk.impl) /\ RunUnderWay(disk, job)

LEMMA GeneratorInit == BenchInit => GeneratorInv
<1> SUFFICES ASSUME Generator!Init PROVE GeneratorInv
  BY DEF BenchInit
<1> QED
  BY DEF Generator!Init, GeneratorInv, Generator!NewDisk, Generator!NoJob, None, IsDisk, IsFile,
     IsJob, Whole, RunUnderWay

LEMMA TemplateFields ==
  ASSUME NEW t, NEW area, NEW file, NEW variant, NEW uses, t = Template(area, file, variant, uses)
  PROVE  t.area = area /\ t.file = file /\ t.variant = variant /\ t.uses = uses
  BY DEF Template

LEMMA TemplatesCount == Len(BenchTemplates) = 16
  BY DEF BenchTemplates

\* The indices of sixteen templates.
LEMMA Sixteen ==
  ASSUME NEW a1, NEW a2, NEW a3, NEW a4, NEW a5, NEW a6, NEW a7, NEW a8,
         NEW b1, NEW b2, NEW b3, NEW b4, NEW b5, NEW b6, NEW b7, NEW b8
  PROVE  DOMAIN <<a1, a2, a3, a4, a5, a6, a7, a8, b1, b2, b3, b4, b5, b6, b7, b8>> = 1 .. 16
  OBVIOUS

LEMMA TemplatesDomain == DOMAIN BenchTemplates = 1 .. 16
  BY Sixteen, ZenonT(60) DEF BenchTemplates

\* The first templates are those of apps/all, which init never skips.
LEMMA AllFirst ==
  /\ BenchTemplates[1].area = "all" /\ BenchTemplates[1].file = "api.go"
  /\ BenchTemplates[2].area = "all" /\ BenchTemplates[2].file = "impl.go"
  /\ \A p : ~ Generator!InitSkips(p, BenchTemplates[1]) /\ ~ Generator!InitSkips(p, BenchTemplates[2])
<1>0. PICK none : none = ""
  OBVIOUS
<1>1. BenchTemplates[1] = Template("all", "api.go", none, {})
  <2>1. BenchTemplates[1] = Template("all", "api.go", "", {})
    BY DEF BenchTemplates
  <2> QED
    BY <1>0, <2>1, Zenon
<1>2. BenchTemplates[2] = Template("all", "impl.go", none, {})
  <2>1. BenchTemplates[2] = Template("all", "impl.go", "", {})
    BY DEF BenchTemplates
  <2> QED
    BY <1>0, <2>1, Zenon
<1>3. /\ BenchTemplates[1].area = "all" /\ BenchTemplates[1].file = "api.go"
      /\ BenchTemplates[2].area = "all" /\ BenchTemplates[2].file = "impl.go"
  BY <1>1, <1>2, TemplateFields
<1> QED
  BY <1>3 DEF Generator!InitSkips, Generator!OfApp, Generator!NeedsSQL

\* app.go is a template that add never skips.
LEMMA AppGo == \A p : ~ Generator!AddSkips(p, BenchTemplates[7])
<1>0. PICK none : none = ""
  OBVIOUS
<1>1. BenchTemplates[7] = Template("app", "app.go", "", {})
  BY DEF BenchTemplates
<1>2. BenchTemplates[7] = Template("app", "app.go", none, {})
  BY <1>0, <1>1, Zenon
<1>3. BenchTemplates[7].area = "app" /\ BenchTemplates[7].variant = none
  BY <1>2, TemplateFields
<1> QED
  BY <1>0, <1>3, Zenon DEF Generator!AddSkips, Generator!OfApp, Generator!Example, Generator!NeedsSQL

\* The files that add makes of an application are none of another.
LEMMA AddFilesOf ==
  ASSUME NEW p, NEW app, NEW x \in Generator!AddFiles(p, app)
  PROVE  x.app = app /\ x.area # "all"
<1>1. PICK t : x = Generator!FileOf("add", p, "GOPATH", app, t) /\ ~ Generator!AddSkips(p, t)
  BY DEF Generator!AddFiles
<1>2. Generator!OfApp(t)
  BY <1>1 DEF Generator!AddSkips
<1>3. x.app = app /\ x.area = t.area
  BY <1>1, <1>2 DEF Generator!FileOf
<1> QED
  BY <1>2, <1>3 DEF Generator!OfApp

\* The tool does not take away more than it says.
LEMMA WholeStays ==
  ASSUME NEW d, NEW e, NEW f, Whole(d, f), d.dirs \subseteq e.dirs,
         f # None => \A m \in Generator!Added(f) :
           Generator!AddFiles(f.imports[m].p, f.imports[m].app) \cap d.files \subseteq e.files
  PROVE  Whole(e, f)
  BY DEF Whole

LEMMA NoneAddedWhole ==
  ASSUME NEW f, NoneAdded(f)
  PROVE  \A d : Whole(d, f)
  BY DEF NoneAdded, Whole

\* The template that is the next, if one is left.
LEMMA NextTemplate ==
  ASSUME IsJob(job), Generator!Walking
  PROVE  LET m == Generator!Min(Generator!Pending) IN
           /\ m \in 1 .. 16 /\ m >= job.at /\ Generator!Template = BenchTemplates[m]
           /\ ~ Generator!Skips(BenchTemplates[m])
           /\ \A i \in 1 .. 16 : job.at <= i /\ i < m => Generator!Skips(BenchTemplates[i])
<1>1. /\ job.at \in Nat \ {0}
      /\ Generator!Pending = {i \in job.at .. 16 : ~ Generator!Skips(BenchTemplates[i])}
      /\ Generator!Pending # {}
  BY TemplatesCount DEF Generator!Walking, Generator!Pending, IsJob, Generator!NoJob
<1>2. Generator!Pending \in SUBSET Nat
  BY <1>1
<1>3. PICK x \in Generator!Pending : \A y \in Generator!Pending : x <= y
  BY <1>1, <1>2, LeastOf
<1> DEFINE m == Generator!Min(Generator!Pending)
<1>4. m \in Generator!Pending /\ \A i \in Generator!Pending : m <= i
  BY <1>3 DEF Generator!Min
<1>5. Generator!Template = BenchTemplates[m]
  BY DEF Generator!Template
<1> HIDE DEF m
<1>6. /\ m \in 1 .. 16 /\ m >= job.at
      /\ ~ Generator!Skips(BenchTemplates[m])
  BY <1>1, <1>4
<1>7. ASSUME NEW i \in 1 .. 16, job.at <= i, i < m PROVE Generator!Skips(BenchTemplates[i])
  BY <1>1, <1>4, <1>6, <1>7
<1> QED
  BY <1>5, <1>6, <1>7 DEF m

\* A run of init comes to the files of apps/all one after the other, and to
\* nothing else before them.
LEMMA InitOrder ==
  ASSUME IsJob(job), Generator!Walking, job.cmd = "init"
  PROVE  LET m == Generator!Min(Generator!Pending) IN
           (job.at <= 1 => m = 1) /\ (job.at <= 2 => m <= 2)
<1> DEFINE m == Generator!Min(Generator!Pending)
<1>1. /\ m \in 1 .. 16 /\ m >= job.at
      /\ \A i \in 1 .. 16 : job.at <= i /\ i < m => Generator!Skips(BenchTemplates[i])
  BY NextTemplate
<1>2. ~ Generator!Skips(BenchTemplates[1]) /\ ~ Generator!Skips(BenchTemplates[2])
  BY AllFirst DEF Generator!Skips
<1>3. job.at \in Nat
  BY DEF IsJob, Generator!Walking, Generator!NoJob
<1> HIDE DEF m
<1>4. job.at <= 1 => ~ (1 < m)
  BY <1>1, <1>2, <1>3
<1>5. job.at <= 2 => ~ (2 < m)
  BY <1>1, <1>2, <1>3
<1>6. (job.at <= 1 => m = 1) /\ (job.at <= 2 => m <= 2)
  BY <1>1, <1>3, <1>4, <1>5
<1> QED
  BY <1>6 DEF m

\* Only init writes a file of apps/all, and then anew.
LEMMA AllWritten ==
  ASSUME IsDisk(disk), IsJob(job), Generator!Walking, NEW c
  PROVE  LET e == Generator!InAll(disk, c)
             m == Generator!Min(Generator!Pending) IN
           /\ e = [files |-> disk.files, dirs |-> disk.dirs, settings |-> disk.settings,
                   api |-> e.api, impl |-> e.impl]
           /\ e.api = disk.api \/ e.api = c
           /\ e.impl = disk.impl \/ e.impl = c
           /\ job.cmd = "add" => e.api = disk.api /\ e.impl = disk.impl
           /\ job.cmd = "init" /\ m = 1 => e.api = c
           /\ job.cmd = "init" /\ m = 2 => e.impl = c
<1> DEFINE m == Generator!Min(Generator!Pending)
           t == Generator!Template
           e == Generator!InAll(disk, c)
<1>1. disk = [files |-> disk.files, dirs |-> disk.dirs, settings |-> disk.settings,
              api |-> disk.api, impl |-> disk.impl]
  BY DEF IsDisk
<1>2. e = CASE t.area = "all" /\ t.file = "api.go" -> [disk EXCEPT !.api = c]
            [] t.area = "all" /\ t.file = "impl.go" -> [disk EXCEPT !.impl = c]
            [] OTHER -> disk
  BY DEF Generator!InAll
<1>3. t = BenchTemplates[m] /\ ~ Generator!Skips(t)
  BY NextTemplate
<1> HIDE DEF e, m, t
<1>4. \/ t.area = "all" /\ t.file = "api.go" /\ e = [disk EXCEPT !.api = c]
      \/ t.area = "all" /\ t.file = "impl.go" /\ t.file # "api.go" /\ e = [disk EXCEPT !.impl = c]
      \/ ~ (t.area = "all" /\ t.file = "api.go") /\ ~ (t.area = "all" /\ t.file = "impl.go") /\ e = disk
  BY <1>2
<1>5. /\ [disk EXCEPT !.api = c] = [files |-> disk.files, dirs |-> disk.dirs, settings |-> disk.settings,
                                    api |-> c, impl |-> disk.impl]
      /\ [disk EXCEPT !.impl = c] = [files |-> disk.files, dirs |-> disk.dirs, settings |-> disk.settings,
                                     api |-> disk.api, impl |-> c]
  BY <1>1
<1>6. job.cmd = "add" => t.area # "all"
  BY <1>3 DEF Generator!Skips, Generator!AddSkips, Generator!OfApp
<1>7. m = 1 => t.area = "all" /\ t.file = "api.go"
  BY <1>3, AllFirst
<1>8. m = 2 => t.area = "all" /\ t.file = "impl.go"
  BY <1>3, AllFirst
<1>9. /\ e = [files |-> disk.files, dirs |-> disk.dirs, settings |-> disk.settings,
              api |-> e.api, impl |-> e.impl]
      /\ \/ t.area = "all" /\ t.file = "api.go" /\ e.api = c /\ e.impl = disk.impl
         \/ t.area = "all" /\ t.file = "impl.go" /\ t.file # "api.go" /\ e.impl = c /\ e.api = disk.api
         \/ /\ ~ (t.area = "all" /\ t.file = "api.go") /\ ~ (t.area = "all" /\ t.file = "impl.go")
            /\ e.api = disk.api /\ e.impl = disk.impl
  <2>1. CASE t.area = "all" /\ t.file = "api.go" /\ e = [disk EXCEPT !.api = c]
    BY <1>5, <2>1
  <2>2. CASE t.area = "all" /\ t.file = "impl.go" /\ t.file # "api.go" /\ e = [disk EXCEPT !.impl = c]
    BY <1>5, <2>2
  <2>3. CASE ~ (t.area = "all" /\ t.file = "api.go") /\ ~ (t.area = "all" /\ t.file = "impl.go") /\ e = disk
    BY <1>1, <2>3
  <2> QED
    BY <1>4, <2>1, <2>2, <2>3
<1> QED
  BY <1>6, <1>7, <1>8, <1>9 DEF e, m

\* Whatever becomes of the next template, so long as the disk d loses nothing
\* but its file and a file of apps/all is only replaced by one with nothing
\* added: what is registered stays whole.
LEMMA WalkKeepsWhole ==
  ASSUME GeneratorInv, ~ strayed, Generator!Walking, NEW c, NoneAdded(c), NEW d,
         disk.files \ {Generator!Target} \subseteq d.files, disk.dirs \subseteq d.dirs,
         d.api = Generator!InAll(disk, c).api, d.impl = Generator!InAll(disk, c).impl
  PROVE  Whole(d, d.api) /\ Whole(d, d.impl)
<1> DEFINE m == Generator!Min(Generator!Pending)
           t == Generator!Template
           target == Generator!Target
<1>1. /\ IsDisk(disk) /\ IsJob(job) /\ Whole(disk, disk.api) /\ Whole(disk, disk.impl)
      /\ RunUnderWay(disk, job) /\ job.cmd \in {"init", "add"} /\ job.at \in Nat \ {0}
  BY DEF GeneratorInv, Generator!Walking, IsJob, Generator!NoJob
<1>2. /\ d.api = disk.api \/ d.api = c
      /\ d.impl = disk.impl \/ d.impl = c
      /\ job.cmd = "add" => d.api = disk.api /\ d.impl = disk.impl
      /\ job.cmd = "init" /\ m = 1 => d.api = c
      /\ job.cmd = "init" /\ m = 2 => d.impl = c
  BY <1>1, AllWritten
<1>3. m \in 1 .. 16 /\ m >= job.at /\ t = BenchTemplates[m] /\ ~ Generator!Skips(t)
  BY <1>1, NextTemplate
<1>4. target.area = t.area /\ (Generator!OfApp(t) => target.app = job.app)
  BY DEF Generator!Target, Generator!FileOf
<1>5. job.cmd = "init" => (job.at <= 1 => m = 1) /\ (job.at <= 2 => m <= 2)
  BY <1>1, InitOrder
<1> HIDE DEF m, t, target
<1>6. ASSUME NEW f, Whole(disk, f),
             f # None => \A k \in Generator!Added(f) :
               target \notin Generator!AddFiles(f.imports[k].p, f.imports[k].app)
      PROVE  Whole(d, f)
  BY <1>6, WholeStays DEF target
<1>7. CASE job.cmd = "add"
  <2>1. target.app = job.app
    BY <1>3, <1>4, <1>7 DEF Generator!Skips, Generator!AddSkips
  <2>2. NotAdded(disk.api, job.app) /\ NotAdded(disk.impl, job.app)
    BY <1>1, <1>7 DEF RunUnderWay
  <2>3. ASSUME NEW f, Whole(disk, f), NotAdded(f, job.app) PROVE Whole(d, f)
    BY <1>6, <2>1, <2>3, AddFilesOf DEF NotAdded
  <2> QED
    BY <1>1, <1>2, <1>7, <2>2, <2>3
<1>8. CASE job.cmd = "init" /\ m = 1
  <2>1. target.area = "all"
    BY <1>3, <1>4, <1>8, AllFirst
  <2>2. ASSUME NEW f, Whole(disk, f) PROVE Whole(d, f)
    BY <1>6, <2>1, <2>2, AddFilesOf
  <2> QED
    BY <1>1, <1>2, <2>2, NoneAddedWhole
<1>9. CASE job.cmd = "init" /\ m # 1
  <2>1. NoneAdded(disk.api)
    BY <1>1, <1>5, <1>9 DEF RunUnderWay
  <2>2. m = 2 \/ NoneAdded(disk.impl)
    BY <1>1, <1>3, <1>5, <1>9 DEF RunUnderWay
  <2> QED
    BY <1>2, <1>9, <2>1, <2>2, NoneAddedWhole
<1> QED
  BY <1>1, <1>7, <1>8, <1>9

\* What init writes to a file of apps/all names no other application.
LEMMA NewInAll ==
  ASSUME NEW c \in {Generator!Rendered, Generator!Blank}
  PROVE  IsFile(c) /\ NoneAdded(c)
<1> DEFINE entry == [app |-> Generator!Example, root |-> "PKG", p |-> Generator!Saved(job.p)]
<1>1. c = [imports |-> c.imports, text |-> c.text] /\ (c.imports = <<entry>> \/ c.imports = <<>>)
  BY DEF Generator!Rendered, Generator!Blank
<1>2. entry.root = "PKG"
  OBVIOUS
<1> HIDE DEF entry
<1>3. c.imports \in Seq({entry})
  <2>1. <<entry>> \in Seq({entry}) /\ <<>> \in Seq({entry})
    OBVIOUS
  <2> QED
    BY <1>1, <2>1, Zenon
<1>4. \A k \in DOMAIN c.imports : c.imports[k] = entry
  BY <1>1
<1> QED
  BY <1>1, <1>2, <1>3, <1>4 DEF IsFile, NoneAdded, Generator!Added

\* A run of init starts.
LEMMA GeneratorInitProject ==
  ASSUME GeneratorInv, NEW p, Generator!InitProject(p)
  PROVE  GeneratorInv'
<1>1. /\ disk' = disk /\ strayed' = strayed
      /\ job' = [cmd |-> "init", at |-> 1, p |-> p, app |-> Generator!Example, tree |-> "GOPATH"]
  BY DEF Generator!InitProject, Generator!Start
<1>2. job'.cmd = "init" /\ job'.at = 1
  BY <1>1
<1>3. IsJob(job')
  BY <1>1 DEF IsJob
<1>4. RunUnderWay(disk', job')
  BY <1>2 DEF RunUnderWay
<1> QED
  BY <1>1, <1>3, <1>4 DEF GeneratorInv

\* A run of add starts, for an application that has no directory.
LEMMA GeneratorAddApp ==
  ASSUME GeneratorInv, NEW app, NEW tree, Generator!AddApp(app, tree)
  PROVE  GeneratorInv'
<1>1. /\ disk' = disk /\ strayed' = (strayed \/ tree # "GOPATH")
      /\ job' = [cmd |-> "add", at |-> 1, p |-> disk.settings, app |-> app, tree |-> tree]
      /\ AppDir(app) \notin disk.dirs
  BY DEF Generator!AddApp, Generator!Start, AppDir
<1>2. job'.cmd = "add" /\ job'.at = 1 /\ job'.app = app /\ job'.tree = tree
  BY <1>1
<1>3. IsJob(job')
  BY <1>1 DEF IsJob
<1>4. ASSUME NEW f, Whole(disk, f) PROVE NotAdded(f, app)
  BY <1>1, <1>4 DEF Whole, NotAdded
<1>5. ASSUME ~ strayed' PROVE RunUnderWay(disk', job')
  <2>1. tree = "GOPATH" /\ NotAdded(disk.api, app) /\ NotAdded(disk.impl, app)
    BY <1>1, <1>4, <1>5 DEF GeneratorInv
  <2>2. \A i \in 1 .. 16 : ~ (i < job'.at)
    BY <1>2
  <2> QED
    BY <1>1, <1>2, <2>1, <2>2 DEF RunUnderWay
<1> QED
  BY <1>1, <1>3, <1>5 DEF GeneratorInv

\* What a template does to the disk.
LEMMA NewDirsAndFiles ==
  ASSUME NEW e,
         e = [files |-> e.files, dirs |-> e.dirs, settings |-> e.settings, api |-> e.api, impl |-> e.impl]
  PROVE  \A W, F : [e EXCEPT !.dirs = W, !.files = F]
                     = [files |-> F, dirs |-> W, settings |-> e.settings, api |-> e.api, impl |-> e.impl]
<1> TAKE W, F
<1> DEFINE g == [e EXCEPT !.dirs = W, !.files = F]
           h == [files |-> F, dirs |-> W, settings |-> e.settings, api |-> e.api, impl |-> e.impl]
<1>1. DOMAIN e = {"files", "dirs", "settings", "api", "impl"}
  OBVIOUS
<1>2. DOMAIN h = {"files", "dirs", "settings", "api", "impl"}
  OBVIOUS
<1>3. g = [x \in DOMAIN e |-> g[x]] /\ DOMAIN g = DOMAIN e
  BY Zenon
<1>4. h = [x \in DOMAIN h |-> h[x]]
  BY Zenon
<1>5. g.files = F
  BY <1>1
<1>6. g.dirs = W
  BY <1>1
<1>7. g.settings = e.settings
  BY <1>1
<1>8. g.api = e.api
  BY <1>1
<1>9. g.impl = e.impl
  BY <1>1
<1>10. /\ h.files = F /\ h.dirs = W /\ h.settings = e.settings /\ h.api = e.api /\ h.impl = e.impl
  OBVIOUS
<1> HIDE DEF g, h
<1>11. \A x \in DOMAIN e : g[x] = h[x]
  BY <1>1, <1>5, <1>6, <1>7, <1>8, <1>9, <1>10
<1> QED
  BY <1>1, <1>2, <1>3, <1>4, <1>11, Zenon DEF g, h

\* What a run leaves when it ends, however it does.
LEMMA GeneratorEnds ==
  ASSUME GeneratorInv, job' = Generator!NoJob, strayed' = strayed, IsDisk(disk'),
         ~ strayed => Whole(disk', disk'.api) /\ Whole(disk', disk'.impl)
  PROVE  GeneratorInv'
<1>1. IsJob(job') /\ RunUnderWay(disk', job')
  BY DEF IsJob, RunUnderWay, Generator!NoJob
<1> QED
  BY <1>1 DEF GeneratorInv

\* It may end with the disk as it was, or in the middle of a template.
LEMMA GeneratorBreaksOff ==
  ASSUME GeneratorInv, job' = Generator!NoJob, strayed' = strayed,
         disk' = disk \/ (Generator!Walking /\ disk' \in Generator!HalfWay)
  PROVE  GeneratorInv'
<1>1. IsDisk(disk) /\ IsJob(job)
  BY DEF GeneratorInv
<1>2. disk.dirs \subseteq Generator!WithDir
  BY DEF Generator!WithDir
<1>3. CASE disk' = disk
  BY <1>1, <1>3, GeneratorEnds DEF GeneratorInv
<1>4. CASE disk' = [disk EXCEPT !.dirs = Generator!WithDir]
  <2>1. disk' = [files |-> disk.files, dirs |-> Generator!WithDir, settings |-> disk.settings,
                 api |-> disk.api, impl |-> disk.impl]
    BY <1>1, <1>4 DEF IsDisk
  <2>2. /\ disk'.files = disk.files /\ disk.dirs \subseteq disk'.dirs
        /\ disk'.api = disk.api /\ disk'.impl = disk.impl
    BY <1>2, <2>1
  <2>3. IsDisk(disk')
    BY <1>1, <2>1 DEF IsDisk
  <2>4. ~ strayed => Whole(disk', disk'.api) /\ Whole(disk', disk'.impl)
    BY <2>2, WholeStays DEF GeneratorInv
  <2> QED
    BY <2>3, <2>4, GeneratorEnds
<1>5. CASE Generator!Walking /\ disk' = Generator!Opened
  <2> DEFINE c == Generator!Blank
             e == Generator!InAll(disk, c)
  <2>1. disk' = [e EXCEPT !.dirs = Generator!WithDir, !.files = @ \ {Generator!Target}]
    BY <1>5 DEF Generator!Opened
  <2>2. /\ e = [files |-> disk.files, dirs |-> disk.dirs, settings |-> disk.settings,
                api |-> e.api, impl |-> e.impl]
        /\ e.api = disk.api \/ e.api = c
        /\ e.impl = disk.impl \/ e.impl = c
    BY <1>1, <1>5, AllWritten
  <2>3. IsFile(c) /\ NoneAdded(c)
    BY NewInAll
  <2> HIDE DEF c, e
  <2>4. disk' = [files |-> disk.files \ {Generator!Target}, dirs |-> Generator!WithDir,
                 settings |-> disk.settings, api |-> e.api, impl |-> e.impl]
    <3>1. e.files = disk.files
      BY <2>2
    <3>2. disk' = [e EXCEPT !.dirs = Generator!WithDir, !.files = disk.files \ {Generator!Target}]
      BY <2>1, <3>1
    <3>3. e.settings = disk.settings
          /\ e = [files |-> e.files, dirs |-> e.dirs, settings |-> e.settings, api |-> e.api, impl |-> e.impl]
      BY <2>2
    <3> QED
      BY <3>2, <3>3, NewDirsAndFiles, Zenon
  <2>5. /\ disk'.files = disk.files \ {Generator!Target} /\ disk'.dirs = Generator!WithDir
        /\ disk'.api = e.api /\ disk'.impl = e.impl
    BY <2>4
  <2>6. IsDisk(disk')
    BY <1>1, <2>2, <2>3, <2>4, <2>5 DEF IsDisk
  <2>7. ASSUME ~ strayed PROVE Whole(disk', disk'.api) /\ Whole(disk', disk'.impl)
    BY <1>2, <1>5, <2>3, <2>5, <2>7, WalkKeepsWhole DEF e
  <2> QED
    BY <2>6, <2>7, GeneratorEnds
<1> QED
  BY <1>3, <1>4, <1>5 DEF Generator!HalfWay

\* A template is rendered: the next file is there.
LEMMA GeneratorRender ==
  ASSUME GeneratorInv, Generator!Render
  PROVE  GeneratorInv'
<1> DEFINE m == Generator!Min(Generator!Pending)
           t == Generator!Template
           target == Generator!Target
           c == Generator!Rendered
           e == Generator!InAll(disk, c)
<1>1. /\ Generator!Walking /\ strayed' = strayed /\ IsDisk(disk) /\ IsJob(job)
      /\ job.cmd \in {"init", "add"} /\ job # Generator!NoJob /\ job.at \in Nat \ {0}
  BY DEF Generator!Render, Generator!Walking, GeneratorInv, IsJob, Generator!NoJob
<1>2. /\ disk' = [e EXCEPT !.dirs = Generator!WithDir, !.files = @ \cup {target}]
      /\ job' = [job EXCEPT !.at = m + 1]
  BY DEF Generator!Render
<1>3. /\ e = [files |-> disk.files, dirs |-> disk.dirs, settings |-> disk.settings,
              api |-> e.api, impl |-> e.impl]
      /\ e.api = disk.api \/ e.api = c
      /\ e.impl = disk.impl \/ e.impl = c
      /\ job.cmd = "add" => e.api = disk.api /\ e.impl = disk.impl
      /\ job.cmd = "init" /\ m = 1 => e.api = c
      /\ job.cmd = "init" /\ m = 2 => e.impl = c
  BY <1>1, AllWritten
<1>4. IsFile(c) /\ NoneAdded(c)
  BY NewInAll
<1>5. /\ m \in 1 .. 16 /\ m >= job.at /\ t = BenchTemplates[m] /\ ~ Generator!Skips(t)
      /\ \A i \in 1 .. 16 : job.at <= i /\ i < m => Generator!Skips(BenchTemplates[i])
  BY <1>1, NextTemplate
<1>6. /\ disk.dirs \subseteq Generator!WithDir
      /\ Generator!OfApp(t) => <<job.tree, job.app>> \in Generator!WithDir
  BY DEF Generator!WithDir
<1>7. job.cmd = "add" => target = Generator!FileOf("add", job.p, job.tree, job.app, t)
  BY DEF Generator!Target
<1>8. job.cmd = "init" => (job.at <= 1 => m = 1) /\ (job.at <= 2 => m <= 2)
  BY <1>1, InitOrder
<1>9. /\ e.api = Generator!InAll(disk, c).api /\ e.impl = Generator!InAll(disk, c).impl
      /\ target = Generator!Target
  OBVIOUS
<1> HIDE DEF m, t, target, c, e
<1>10. /\ disk' = [files |-> disk.files \cup {target}, dirs |-> Generator!WithDir,
                   settings |-> disk.settings, api |-> e.api, impl |-> e.impl]
       /\ job' = [cmd |-> job.cmd, at |-> m + 1, p |-> job.p, app |-> job.app, tree |-> job.tree]
       /\ m + 1 \in Nat \ {0}
  <2>1. e.files = disk.files
    BY <1>3
  <2>2. disk' = [e EXCEPT !.dirs = Generator!WithDir, !.files = disk.files \cup {target}]
    BY <1>2, <2>1
  <2>3. disk' = [files |-> disk.files \cup {target}, dirs |-> Generator!WithDir,
                 settings |-> disk.settings, api |-> e.api, impl |-> e.impl]
    <3>1. e.settings = disk.settings
          /\ e = [files |-> e.files, dirs |-> e.dirs, settings |-> e.settings, api |-> e.api, impl |-> e.impl]
      BY <1>3
    <3> QED
      BY <2>2, <3>1, NewDirsAndFiles, Zenon
  <2>4. job' = [cmd |-> job.cmd, at |-> m + 1, p |-> job.p, app |-> job.app, tree |-> job.tree]
    BY <1>1, <1>2 DEF IsJob
  <2> QED
    BY <1>5, <2>3, <2>4
<1>11. /\ disk'.files = disk.files \cup {target} /\ disk'.dirs = Generator!WithDir
       /\ disk'.api = e.api /\ disk'.impl = e.impl
       /\ job'.cmd = job.cmd /\ job'.at = m + 1 /\ job'.p = job.p
       /\ job'.app = job.app /\ job'.tree = job.tree
  BY <1>10
<1>12. IsDisk(disk')
  BY <1>1, <1>3, <1>4, <1>10, <1>11 DEF IsDisk
<1>13. IsJob(job')
  BY <1>1, <1>10, <1>11 DEF IsJob
<1>14. ASSUME ~ strayed PROVE Whole(disk', disk'.api) /\ Whole(disk', disk'.impl)
  <2>1. /\ disk.files \ {Generator!Target} \subseteq disk'.files /\ disk.dirs \subseteq disk'.dirs
        /\ disk'.api = Generator!InAll(disk, c).api /\ disk'.impl = Generator!InAll(disk, c).impl
    BY <1>6, <1>9, <1>11
  <2> QED
    BY <1>1, <1>4, <1>14, <2>1, WalkKeepsWhole
<1>15. ASSUME ~ strayed, job.cmd = "add" PROVE RunUnderWay(disk', job')
  <2>1. /\ job.tree = "GOPATH" /\ NotAdded(disk.api, job.app) /\ NotAdded(disk.impl, job.app)
        /\ \A i \in 1 .. 16 :
             i < job.at /\ ~ Generator!AddSkips(job.p, BenchTemplates[i])
               => /\ AddFile(job.p, job.app, BenchTemplates[i]) \in disk.files
                  /\ AppDir(job.app) \in disk.dirs
    BY <1>15 DEF GeneratorInv, RunUnderWay
  <2>2. \A s : Generator!Skips(s) <=> Generator!AddSkips(job.p, s)
    BY <1>15 DEF Generator!Skips
  <2>3. target = AddFile(job.p, job.app, t) /\ AppDir(job.app) \in disk'.dirs
    BY <1>5, <1>6, <1>7, <1>11, <1>15, <2>1, <2>2 DEF AddFile, AppDir, Generator!AddSkips
  <2>4. ASSUME NEW i \in 1 .. 16, i < m + 1, ~ Generator!AddSkips(job.p, BenchTemplates[i])
        PROVE  AddFile(job.p, job.app, BenchTemplates[i]) \in disk'.files
    <3>1. CASE i < job.at
      BY <1>11, <2>1, <2>4, <3>1
    <3>2. CASE i >= job.at
      <4>1. i = m
        BY <1>1, <1>5, <2>2, <2>4, <3>2
      <4> QED
        BY <1>5, <1>11, <2>3, <4>1
    <3> QED
      BY <1>1, <3>1, <3>2
  <2> QED
    BY <1>3, <1>11, <1>15, <2>1, <2>3, <2>4 DEF RunUnderWay
<1>16. ASSUME ~ strayed, job.cmd = "init" PROVE RunUnderWay(disk', job')
  <2>1. /\ job.at > 1 => NoneAdded(disk.api)
        /\ job.at > 2 => NoneAdded(disk.impl)
    BY <1>16 DEF GeneratorInv, RunUnderWay
  <2>2. NoneAdded(e.api)
    <3>1. m = 1 \/ job.at > 1
      BY <1>1, <1>8, <1>16
    <3> QED
      BY <1>3, <1>4, <1>16, <2>1, <3>1
  <2>3. m + 1 > 2 => NoneAdded(e.impl)
    <3>1. m + 1 > 2 => m = 2 \/ job.at > 2
      BY <1>1, <1>5, <1>8, <1>16
    <3> QED
      BY <1>3, <1>4, <1>16, <2>1, <3>1
  <2> QED
    BY <1>11, <1>16, <2>2, <2>3 DEF RunUnderWay
<1> QED
  BY <1>1, <1>12, <1>13, <1>14, <1>15, <1>16 DEF GeneratorInv

\* A run of add that is through the templates has made all files.
LEMMA AllFiles ==
  ASSUME GeneratorInv, ~ strayed, Generator!Through("add")
  PROVE  /\ Generator!AddFiles(job.p, job.app) \subseteq disk.files
         /\ AppDir(job.app) \in disk.dirs
<1>1. /\ job.cmd = "add" /\ job.at \in Nat \ {0} /\ RunUnderWay(disk, job)
      /\ {i \in job.at .. 16 : ~ Generator!Skips(BenchTemplates[i])} = {}
  BY TemplatesCount DEF Generator!Through, Generator!Pending, GeneratorInv, IsJob, Generator!NoJob
<1>2. ASSUME NEW i \in 1 .. 16, ~ Generator!AddSkips(job.p, BenchTemplates[i])
      PROVE  AddFile(job.p, job.app, BenchTemplates[i]) \in disk.files /\ AppDir(job.app) \in disk.dirs
  <2>1. ~ Generator!Skips(BenchTemplates[i])
    BY <1>1, <1>2 DEF Generator!Skips
  <2>2. i < job.at
    BY <1>1, <2>1
  <2> QED
    BY <1>1, <1>2, <2>2 DEF RunUnderWay
<1>3. AppDir(job.app) \in disk.dirs
  BY <1>2, AppGo
<1>4. ASSUME NEW x \in Generator!AddFiles(job.p, job.app) PROVE x \in disk.files
  <2>1. PICK s \in Generator!ToSet(BenchTemplates) :
          ~ Generator!AddSkips(job.p, s) /\ x = AddFile(job.p, job.app, s)
    BY <1>4 DEF Generator!AddFiles, AddFile
  <2>2. PICK i \in 1 .. 16 : s = BenchTemplates[i]
    BY TemplatesDomain DEF Generator!ToSet
  <2> QED
    BY <1>2, <2>1, <2>2
<1> QED
  BY <1>3, <1>4

\* An application that is not named yet is registered.
LEMMA Registered ==
  ASSUME NEW f, IsFile(f), f # None
  PROVE  /\ IsFile(Generator!Register(f))
         /\ \A d :
              /\ Whole(d, f) /\ NotAdded(f, job.app)
              /\ Generator!AddFiles(job.p, job.app) \subseteq d.files /\ AppDir(job.app) \in d.dirs
              => Whole(d, Generator!Register(f))
<1> DEFINE entry == [app |-> job.app, root |-> "Name", p |-> job.p]
           g == Generator!Register(f)
<1>1. PICK S : f.imports \in Seq(S)
  BY DEF IsFile
<1>2. g = [imports |-> Append(f.imports, entry), text |-> "not Go"]
  BY DEF Generator!Register
<1>3. entry.app = job.app /\ entry.p = job.p
  OBVIOUS
<1> HIDE DEF entry, g
<1>4. g.imports = Append(f.imports, entry) /\ g = [imports |-> g.imports, text |-> g.text]
  BY <1>2
<1> DEFINE n == Len(f.imports)
<1>5. /\ n \in Nat /\ DOMAIN f.imports = 1 .. n /\ f.imports \in [1 .. n -> S]
  BY <1>1
<1>6. f.imports \in Seq(S \cup {entry})
  BY <1>1, <1>5
<1>7. /\ g.imports \in Seq(S \cup {entry}) /\ DOMAIN g.imports = 1 .. n + 1
      /\ g.imports[n + 1] = entry /\ \A k \in 1 .. n : g.imports[k] = f.imports[k]
  BY <1>4, <1>5, <1>6
<1> HIDE DEF n
<1>8. Generator!Added(g) \subseteq Generator!Added(f) \cup {n + 1}
  BY <1>5, <1>7 DEF Generator!Added
<1>9. ASSUME NEW d, Whole(d, f), NotAdded(f, job.app),
             Generator!AddFiles(job.p, job.app) \subseteq d.files, AppDir(job.app) \in d.dirs
      PROVE  Whole(d, g)
  <2>1. ASSUME NEW k \in Generator!Added(f)
        PROVE  /\ k \in 1 .. n /\ k # n + 1 /\ g.imports[k] = f.imports[k]
               /\ g.imports[k].app # job.app
    <3>1. k \in 1 .. n
      BY <1>5 DEF Generator!Added
    <3> QED
      BY <1>5, <1>7, <1>9, <3>1 DEF NotAdded
  <2>2. ASSUME NEW k \in Generator!Added(g)
        PROVE  /\ \A l \in Generator!Added(g) : g.imports[l].app = g.imports[k].app => l = k
               /\ Generator!AddFiles(g.imports[k].p, g.imports[k].app) \subseteq d.files
               /\ AppDir(g.imports[k].app) \in d.dirs
    <3>1. CASE k = n + 1
      BY <1>3, <1>7, <1>8, <1>9, <2>1, <3>1
    <3>2. CASE k \in Generator!Added(f)
      <4>1. /\ \A l \in Generator!Added(f) : f.imports[l].app = f.imports[k].app => l = k
            /\ Generator!AddFiles(f.imports[k].p, f.imports[k].app) \subseteq d.files
            /\ AppDir(f.imports[k].app) \in d.dirs
        BY <1>9, <3>2 DEF Whole
      <4> QED
        BY <1>3, <1>7, <1>8, <2>1, <3>2, <4>1
    <3> QED
      BY <1>8, <3>1, <3>2
  <2> QED
    BY <2>2 DEF Whole
<1> QED
  BY <1>4, <1>7, <1>9 DEF IsFile, g

LEMMA GeneratorRegisterApi ==
  ASSUME GeneratorInv, NEW works \in BOOLEAN, Generator!RegisterApi(works)
  PROVE  GeneratorInv'
<1>1. /\ Generator!Through("add") /\ strayed' = strayed /\ (works => disk.api # None)
      /\ job # Generator!NoJob /\ job.cmd = "add" /\ IsJob(job) /\ IsDisk(disk)
  BY DEF Generator!RegisterApi, Generator!Through, GeneratorInv, None
<1>2. CASE job' = Generator!NoJob /\ disk' = disk
  BY <1>1, <1>2, GeneratorBreaksOff
<1>3. CASE /\ job' = [job EXCEPT !.cmd = "register"]
           /\ disk' = IF works THEN [disk EXCEPT !.api = Generator!Register(@)] ELSE disk
  <2> DEFINE g == IF works THEN Generator!Register(disk.api) ELSE disk.api
  <2>1. disk' = [files |-> disk.files, dirs |-> disk.dirs, settings |-> disk.settings,
                 api |-> g, impl |-> disk.impl]
    BY <1>1, <1>3 DEF IsDisk
  <2>2. IsFile(g)
    BY <1>1, Registered DEF IsDisk
  <2>3. ASSUME ~ strayed
        PROVE  /\ Whole(disk, g) /\ Whole(disk, disk.impl) /\ NotAdded(disk.impl, job.app)
               /\ Generator!AddFiles(job.p, job.app) \subseteq disk.files
               /\ AppDir(job.app) \in disk.dirs /\ job.tree = "GOPATH"
    <3>1. /\ Generator!AddFiles(job.p, job.app) \subseteq disk.files
          /\ AppDir(job.app) \in disk.dirs
      BY <1>1, <2>3, AllFiles
    <3>2. /\ Whole(disk, disk.api) /\ Whole(disk, disk.impl) /\ job.tree = "GOPATH"
          /\ NotAdded(disk.impl, job.app) /\ NotAdded(disk.api, job.app)
      BY <1>1, <2>3 DEF GeneratorInv, RunUnderWay
    <3>3. Whole(disk, g)
      BY <1>1, <3>1, <3>2, Registered DEF IsDisk
    <3> QED
      BY <3>1, <3>2, <3>3
  <2> HIDE DEF g
  <2>4. /\ disk'.files = disk.files /\ disk'.dirs = disk.dirs /\ disk'.api = g
        /\ disk'.impl = disk.impl
    BY <2>1
  <2>5. job' = [cmd |-> "register", at |-> job.at, p |-> job.p, app |-> job.app, tree |-> job.tree]
    BY <1>1, <1>3 DEF IsJob
  <2>6. /\ job'.cmd = "register" /\ job'.p = job.p /\ job'.app = job.app /\ job'.tree = job.tree
        /\ job'.at = job.at /\ job.at \in Nat \ {0}
    BY <1>1, <2>5 DEF IsJob
  <2>7. IsJob(job') /\ IsDisk(disk')
    BY <1>1, <2>1, <2>2, <2>4, <2>5, <2>6 DEF IsJob, IsDisk
  <2>8. ASSUME ~ strayed PROVE Whole(disk', disk'.api) /\ Whole(disk', disk'.impl)
    BY <2>3, <2>4, <2>8, WholeStays
  <2>9. ASSUME ~ strayed PROVE RunUnderWay(disk', job')
    BY <2>3, <2>4, <2>6, <2>9 DEF RunUnderWay
  <2> QED
    BY <1>1, <2>7, <2>8, <2>9 DEF GeneratorInv
<1> QED
  BY <1>2, <1>3 DEF Generator!RegisterApi

LEMMA GeneratorRegisterImpl ==
  ASSUME GeneratorInv, NEW works \in BOOLEAN, Generator!RegisterImpl(works)
  PROVE  GeneratorInv'
<1>1. /\ strayed' = strayed /\ job' = Generator!NoJob /\ (works => disk.impl # None)
      /\ job.cmd = "register" /\ IsJob(job) /\ IsDisk(disk)
  BY DEF Generator!RegisterImpl, GeneratorInv, None
<1>2. CASE disk' = disk
  BY <1>1, <1>2, GeneratorBreaksOff
<1>3. CASE disk' = IF works THEN [disk EXCEPT !.impl = Generator!Register(@)] ELSE disk
  <2> DEFINE g == IF works THEN Generator!Register(disk.impl) ELSE disk.impl
  <2>1. disk' = [files |-> disk.files, dirs |-> disk.dirs, settings |-> disk.settings,
                 api |-> disk.api, impl |-> g]
    BY <1>1, <1>3 DEF IsDisk
  <2>2. IsFile(g)
    BY <1>1, Registered DEF IsDisk
  <2>3. ASSUME ~ strayed PROVE Whole(disk, g) /\ Whole(disk, disk.api)
    BY <1>1, <2>3, Registered DEF GeneratorInv, RunUnderWay, IsDisk
  <2> HIDE DEF g
  <2>4. /\ disk'.files = disk.files /\ disk'.dirs = disk.dirs /\ disk'.api = disk.api
        /\ disk'.impl = g
    BY <2>1
  <2>5. IsDisk(disk')
    BY <1>1, <2>1, <2>2, <2>4 DEF IsDisk
  <2>6. ASSUME ~ strayed PROVE Whole(disk', disk'.api) /\ Whole(disk', disk'.impl)
    BY <2>3, <2>4, <2>6, WholeStays
  <2> QED
    BY <1>1, <2>5, <2>6, GeneratorEnds
<1> QED
  BY <1>2, <1>3 DEF Generator!RegisterImpl

LEMMA GeneratorStep == GeneratorInv /\ [BenchNext]_BenchVars => GeneratorInv'
<1> SUFFICES ASSUME GeneratorInv, [BenchNext]_BenchVars PROVE GeneratorInv'
  OBVIOUS
<1>1. CASE UNCHANGED genVars
  BY <1>1 DEF genVars, GeneratorInv
<1>2. ASSUME NEW a \in BenchAnswers, Generator!InitProject(Generator!LoadConfigFromCLI(a))
      PROVE  GeneratorInv'
  BY <1>2, GeneratorInitProject
<1>3. ASSUME NEW app \in AppNames, NEW tree \in {"GOPATH", "elsewhere"}, Generator!AddApp(app, tree)
      PROVE  GeneratorInv'
  BY <1>3, GeneratorAddApp
<1>4. CASE Generator!Render
  BY <1>4, GeneratorRender
<1>5. CASE Generator!RenderError
  BY <1>5, GeneratorBreaksOff DEF Generator!RenderError
<1>6. ASSUME NEW works \in BOOLEAN, Generator!SaveFile(works) PROVE GeneratorInv'
  <2>1. /\ disk' = IF works THEN [disk EXCEPT !.settings = Generator!Saved(job.p)] ELSE disk
        /\ job' = Generator!NoJob /\ strayed' = strayed /\ IsDisk(disk)
    BY <1>6 DEF Generator!SaveFile, GeneratorInv
  <2>2. CASE disk' = disk
    BY <2>1, <2>2, GeneratorBreaksOff
  <2>3. CASE disk' = [disk EXCEPT !.settings = Generator!Saved(job.p)]
    <3>1. disk' = [files |-> disk.files, dirs |-> disk.dirs, settings |-> Generator!Saved(job.p),
                   api |-> disk.api, impl |-> disk.impl]
      BY <2>1, <2>3 DEF IsDisk
    <3>2. /\ disk'.files = disk.files /\ disk'.dirs = disk.dirs /\ disk'.api = disk.api
          /\ disk'.impl = disk.impl
      BY <3>1
    <3>3. IsDisk(disk')
      BY <2>1, <3>1, <3>2 DEF IsDisk
    <3>4. ~ strayed => Whole(disk', disk'.api) /\ Whole(disk', disk'.impl)
      BY <3>2, WholeStays DEF GeneratorInv
    <3> QED
      BY <2>1, <3>3, <3>4, GeneratorEnds
  <2> QED
    BY <2>1, <2>2, <2>3
<1>7. ASSUME NEW works \in BOOLEAN, Generator!RegisterApi(works) PROVE GeneratorInv'
  BY <1>7, GeneratorRegisterApi
<1>8. ASSUME NEW works \in BOOLEAN, Generator!RegisterImpl(works) PROVE GeneratorInv'
  BY <1>8, GeneratorRegisterImpl
<1>9. CASE Generator!Kill
  BY <1>9, GeneratorBreaksOff DEF Generator!Kill
<1>10. CASE GeneratorNext
  BY <1>10, <1>2, <1>3, <1>4, <1>5, <1>6, <1>7, <1>8, <1>9 DEF GeneratorNext, OfGenerator
<1> QED
  BY <1>1, <1>10, OneSubject

\* What `add` registers in a file of apps/all it names once there, and every
\* file that it was to make of it is on the disk, written to its end, through
\* any number of runs of either command for applications of any name that are
\* interrupted, fail, panic or are killed: `add` refuses an application that
\* has a directory, makes the directory first and registers last, and `init`
\* makes the files of apps/all anew before it touches an application.
THEOREM RegisteredApps == BenchSpec => []RegisteredIsWhole
<1>1. ASSUME GeneratorInv PROVE RegisteredIsWhole
  <2>1. ASSUME ~ strayed, NEW f \in {disk.api, disk.impl} \ {None}, NEW m \in Generator!Added(f)
        PROVE  /\ \A n \in Generator!Added(f) : f.imports[n].app = f.imports[m].app => n = m
               /\ Generator!AddFiles(f.imports[m].p, f.imports[m].app) \subseteq disk.files
    BY <1>1, <2>1 DEF GeneratorInv, Whole
  <2> QED
    BY <2>1 DEF RegisteredIsWhole, Generator!RegisteredIsWhole, None
<1> QED
  BY <1>1, GeneratorInit, GeneratorStep, PTL DEF BenchSpec

\* A section has no other fields than those that are asked for.
LEMMA FieldsAsked ==
  ASSUME NEW questions, NEW len \in Nat, Len(questions) = len, NEW n \in Nat,
         NEW x, \A i \in 1 .. len : questions[i] # x
  PROVE  Generator!Answered(questions, n) # {x}
<1> DEFINE last == IF n < len THEN n ELSE len
<1>1. last \in Nat /\ last <= len
  OBVIOUS
<1>2. Generator!Answered(questions, n) = {questions[i] : i \in 1 .. last}
  BY DEF Generator!Answered
<1> HIDE DEF last
<1>3. x \notin {questions[i] : i \in 1 .. last}
  BY <1>1
<1> QED
  BY <1>2, <1>3

\* A dialog has made its section, wherever it was interrupted.
LEMMA DialogsMakeSections ==
  ASSUME NEW n \in Nat
  PROVE  /\ Generator!LoadMySQLConfig(n) # Generator!NotAsked
         /\ Generator!LoadMongoDBConfig(n) # Generator!NotAsked
         /\ Generator!LoadMemoryConfig(n) # Generator!NotAsked
         /\ Generator!LoadRedisConfig(n) # Generator!NotAsked
<1>0. PICK x : x = "not asked"
  OBVIOUS
<1>1. Generator!LoadMySQLConfig(n) # Generator!NotAsked
  <2> DEFINE q == <<"Host:Port", "Database", "UserName", "Password">>
  <2>1. Len(q) = 4 /\ 4 \in Nat
    OBVIOUS
  <2>2. q[1] # x /\ q[2] # x /\ q[3] # x /\ q[4] # x
    BY <1>0, Zenon
  <2> HIDE DEF q
  <2>3. \A i \in 1 .. 4 : q[i] # x
    BY <2>2
  <2>4. Generator!Answered(q, n) # {x}
    BY <2>1, <2>3, FieldsAsked
  <2> QED
    BY <1>0, <2>4, Zenon DEF Generator!LoadMySQLConfig, Generator!NotAsked, q
<1>2. Generator!LoadMongoDBConfig(n) # Generator!NotAsked
  <2> DEFINE q == <<"Endpoints", "AuthDB", "UserName", "Password", "Database">>
  <2>1. Len(q) = 5 /\ 5 \in Nat
    OBVIOUS
  <2>2. q[1] # x /\ q[2] # x /\ q[3] # x /\ q[4] # x /\ q[5] # x
    BY <1>0, Zenon
  <2> HIDE DEF q
  <2>3. \A i \in 1 .. 5 : q[i] # x
    BY <2>2
  <2>4. Generator!Answered(q, n) # {x}
    BY <2>1, <2>3, FieldsAsked
  <2> QED
    BY <1>0, <2>4, Zenon DEF Generator!LoadMongoDBConfig, Generator!NotAsked, q
<1>3. Generator!LoadMemoryConfig(n) # Generator!NotAsked
  <2> DEFINE q == <<"TTL", "Size">>
  <2>1. Len(q) = 2 /\ 2 \in Nat
    OBVIOUS
  <2>2. q[1] # x /\ q[2] # x
    BY <1>0, Zenon
  <2> HIDE DEF q
  <2>3. \A i \in 1 .. 2 : q[i] # x
    BY <2>2
  <2>4. Generator!Answered(q, n) # {x}
    BY <2>1, <2>3, FieldsAsked
  <2> QED
    BY <1>0, <2>4, Zenon DEF Generator!LoadMemoryConfig, Generator!NotAsked, q
<1>4. Generator!LoadRedisConfig(n) # Generator!NotAsked
  <2> DEFINE q == <<"Address", "Password", "Prefix", "DB", "DefaultTTL">>
  <2>1. Len(q) = 5 /\ 5 \in Nat
    OBVIOUS
  <2>2. q[1] # x /\ q[2] # x /\ q[3] # x /\ q[4] # x /\ q[5] # x
    BY <1>0, Zenon
  <2> HIDE DEF q
  <2>3. \A i \in 1 .. 5 : q[i] # x
    BY <2>2
  <2>4. Generator!Answered(q, n) # {x}
    BY <2>1, <2>3, FieldsAsked
  <2> QED
    BY <1>0, <2>4, Zenon DEF Generator!LoadRedisConfig, Generator!NotAsked, q
<1> QED
  BY <1>1, <1>2, <1>3, <1>4

\* Whatever is answered, and wherever the dialogs are interrupted: the sections
\* of what is enabled are made, except that of PostgreSQL if it is asked for at
\* all.
LEMMA EnabledSections ==
  ASSUME NEW a, a.n \in Nat, a.m \in Nat, a.db \in {"MySQL", "PostgreSQL", "MongoDB"},
         a.cache \in {"Memory", "Redis"},
         NEW s \in Generator!LoadConfigFromCLI(a).enabled
  PROVE  \/ s = "" \/ s = "PostgreSQL"
         \/ Generator!LoadConfigFromCLI(a).sections[s] # Generator!NotAsked
<1> DEFINE p == Generator!LoadConfigFromCLI(a)
           auth == IF a.auth THEN Generator!LoadGlacierAuthConfig(a.n, a.cache, a.m) ELSE Generator!NoAuth
           sections == [ GlacierAuth |-> auth.GlacierAuth, Memory |-> auth.Memory, Redis |-> auth.Redis,
                         MySQL |-> Generator!LoadMySQLConfig(a.m),
                         PostgreSQL |-> Generator!LoadPostgreSQLConfig(a.m),
                         MongoDB |-> Generator!LoadMongoDBConfig(a.m) ]
           asked == {a.db, "GlacierAuth", "Memory", "Redis"}
<1>1. p.enabled = {a.db, auth.cache}
  BY Zenon DEF Generator!LoadConfigFromCLI
<1>2. p.sections = [t \in DOMAIN sections |-> IF t \in asked THEN sections[t] ELSE Generator!NotAsked]
  BY Zenon DEF Generator!LoadConfigFromCLI
<1>3. PICK none : none = ""
  OBVIOUS
<1>4. auth.cache = none \/ (auth = Generator!LoadGlacierAuthConfig(a.n, a.cache, a.m) /\ ~ (a.n < 4))
  <2>1. CASE ~ a.auth
    BY <1>3, <2>1, Zenon DEF Generator!NoAuth
  <2>2. CASE a.auth /\ a.n < 4
    BY <1>3, <2>2, Zenon DEF Generator!LoadGlacierAuthConfig
  <2> QED
    BY <2>1, <2>2, Zenon
<1>5. ASSUME ~ (a.n < 4)
      PROVE  LET c == Generator!LoadGlacierAuthConfig(a.n, a.cache, a.m) IN
               /\ c.cache = a.cache
               /\ a.cache = "Memory" => c.Memory = Generator!LoadMemoryConfig(a.m)
               /\ a.cache = "Redis" => c.Redis = Generator!LoadRedisConfig(a.m)
  <2> DEFINE c == Generator!LoadGlacierAuthConfig(a.n, a.cache, a.m)
  <2>1. a.n >= 4
    BY <1>5
  <2>2. c.cache = a.cache
    BY <1>5, Zenon DEF Generator!LoadGlacierAuthConfig
  <2>3. a.cache = "Memory" => c.Memory = Generator!LoadMemoryConfig(a.m)
    BY <2>1, Zenon DEF Generator!LoadGlacierAuthConfig
  <2>4. a.cache = "Redis" => c.Redis = Generator!LoadRedisConfig(a.m)
    BY <2>1, Zenon DEF Generator!LoadGlacierAuthConfig
  <2> QED
    BY <2>2, <2>3, <2>4
<1> HIDE DEF p, auth
<1>6. s = a.db \/ s = auth.cache
  BY <1>1, Zenon DEF p
<1>7. CASE s = none
  BY <1>3, <1>7, Zenon
<1>8. /\ Generator!LoadMySQLConfig(a.m) # Generator!NotAsked
      /\ Generator!LoadMongoDBConfig(a.m) # Generator!NotAsked
      /\ Generator!LoadMemoryConfig(a.m) # Generator!NotAsked
      /\ Generator!LoadRedisConfig(a.m) # Generator!NotAsked
  BY DialogsMakeSections
<1>9. CASE s = a.db
  <2>1. CASE s = "MySQL"
    <3>1. p.sections[s] = Generator!LoadMySQLConfig(a.m)
      BY <1>2, <1>9, <2>1
    <3> QED
      BY <1>8, <3>1, Zenon DEF p
  <2>2. CASE s = "MongoDB"
    <3>1. p.sections[s] = Generator!LoadMongoDBConfig(a.m)
      BY <1>2, <1>9, <2>2
    <3> QED
      BY <1>8, <3>1, Zenon DEF p
  <2>3. CASE s = "PostgreSQL"
    BY <2>3, Zenon
  <2> QED
    BY <1>9, <2>1, <2>2, <2>3, Zenon
<1>10. CASE s = auth.cache /\ s # none
  <2>1. /\ s = a.cache
        /\ a.cache = "Memory" => auth.Memory = Generator!LoadMemoryConfig(a.m)
        /\ a.cache = "Redis" => auth.Redis = Generator!LoadRedisConfig(a.m)
    BY <1>4, <1>5, <1>10, Zenon
  <2>2. CASE a.cache = "Memory"
    <3>1. p.sections[s] = Generator!LoadMemoryConfig(a.m)
      BY <1>2, <2>1, <2>2
    <3> QED
      BY <1>8, <3>1, Zenon DEF p
  <2>3. CASE a.cache = "Redis"
    <3>1. p.sections[s] = Generator!LoadRedisConfig(a.m)
      BY <1>2, <2>1, <2>3
    <3> QED
      BY <1>8, <3>1, Zenon DEF p
  <2> QED
    BY <2>2, <2>3, Zenon
<1> QED
  BY <1>6, <1>7, <1>9, <1>10, Zenon

LEMMA TemplateUses ==
  ASSUME NEW t, NEW uses, \E area, file, variant : t = Template(area, file, variant, uses)
  PROVE  t.uses = uses
  BY DEF Template

\* All that a template uses has a name.
LEMMA UsesNamed ==
  ASSUME NEW t \in Generator!ToSet(BenchTemplates)
  PROVE  "" \notin t.uses
<1> DEFINE databases == {"MySQL", "PostgreSQL", "MongoDB", "Memory", "Redis"}
<1>1. PICK i \in 1 .. 16 : t = BenchTemplates[i]
  BY TemplatesDomain DEF Generator!ToSet
<1>2. \E uses \in {{}, databases} : \E area, file, variant : t = Template(area, file, variant, uses)
  <2>1. CASE i = 1
    BY <1>1, <2>1, Zenon DEF BenchTemplates
  <2>2. CASE i = 2
    BY <1>1, <2>2, Zenon DEF BenchTemplates
  <2>3. CASE i = 3
    BY <1>1, <2>3, Zenon DEF BenchTemplates
  <2>4. CASE i = 4
    BY <1>1, <2>4, Zenon DEF BenchTemplates
  <2>5. CASE i = 5
    BY <1>1, <2>5, Zenon DEF BenchTemplates
  <2>6. CASE i = 6
    BY <1>1, <2>6, Zenon DEF BenchTemplates
  <2>7. CASE i = 7
    BY <1>1, <2>7, Zenon DEF BenchTemplates
  <2>8. CASE i = 8
    BY <1>1, <2>8, Zenon DEF BenchTemplates
  <2>9. CASE i = 9
    BY <1>1, <2>9, Zenon DEF BenchTemplates
  <2>10. CASE i = 10
    BY <1>1, <2>10, Zenon DEF BenchTemplates
  <2>11. CASE i = 11
    BY <1>1, <2>11, Zenon DEF BenchTemplates
  <2>12. CASE i = 12
    BY <1>1, <2>12, Zenon DEF BenchTemplates
  <2>13. CASE i = 13
    BY <1>1, <2>13, Zenon DEF BenchTemplates
  <2>14. CASE i = 14
    BY <1>1, <2>14, Zenon DEF BenchTemplates
  <2>15. CASE i = 15
    BY <1>1, <2>15, Zenon DEF BenchTemplates
  <2>16. CASE i = 16
    BY <1>1, <2>16, Zenon DEF BenchTemplates
  <2> QED
    BY <2>1, <2>2, <2>3, <2>4, <2>5, <2>6, <2>7, <2>8, <2>9, <2>10, <2>11, <2>12, <2>13, <2>14, <2>15, <2>16
<1>3. PICK uses \in {{}, databases} : \E area, file, variant : t = Template(area, file, variant, uses)
  BY <1>2, Zenon
<1>4. t.uses = uses
  BY <1>3, TemplateUses, Zenon
<1>5. "" \notin {}
  OBVIOUS
<1>6. "" \notin databases
  BY Zenon
<1> HIDE DEF databases
<1> QED
  BY <1>3, <1>4, <1>5, <1>6, Zenon

\* What init renders from was answered.
AnswersInv ==
  job # Generator!NoJob /\ job.cmd = "init" =>
    \E a \in BenchAnswers : job.p = Generator!LoadConfigFromCLI(a)

LEMMA AnswersStep == GeneratorInv /\ AnswersInv /\ [BenchNext]_BenchVars => AnswersInv'
<1> SUFFICES ASSUME GeneratorInv, AnswersInv, [BenchNext]_BenchVars PROVE AnswersInv'
  OBVIOUS
<1>1. CASE UNCHANGED genVars
  BY <1>1 DEF genVars, AnswersInv
<1>2. ASSUME NEW a \in BenchAnswers, Generator!InitProject(Generator!LoadConfigFromCLI(a))
      PROVE  AnswersInv'
  <2>1. job'.p = Generator!LoadConfigFromCLI(a)
    BY <1>2 DEF Generator!InitProject, Generator!Start
  <2> QED
    BY <2>1 DEF AnswersInv
<1>3. ASSUME NEW app \in AppNames, NEW tree \in {"GOPATH", "elsewhere"}, Generator!AddApp(app, tree)
      PROVE  AnswersInv'
  BY <1>3 DEF AnswersInv, Generator!AddApp, Generator!Start
<1>4. CASE Generator!Render
  <2>1. /\ job' = [job EXCEPT !.at = Generator!Min(Generator!Pending) + 1]
        /\ job # Generator!NoJob /\ IsJob(job)
    BY <1>4 DEF Generator!Render, Generator!Walking, GeneratorInv
  <2>2. job'.p = job.p /\ job'.cmd = job.cmd
    BY <2>1 DEF IsJob
  <2> QED
    BY <2>1, <2>2 DEF AnswersInv
<1>5. ASSUME job' = Generator!NoJob PROVE AnswersInv'
  BY <1>5 DEF AnswersInv
<1>6. ASSUME NEW works \in BOOLEAN, Generator!RegisterApi(works) PROVE AnswersInv'
  <2>1. /\ job' = Generator!NoJob \/ job' = [job EXCEPT !.cmd = "register"]
        /\ job # Generator!NoJob /\ IsJob(job)
    BY <1>6, Zenon DEF Generator!RegisterApi, Generator!Through, GeneratorInv
  <2>2. CASE job' = [job EXCEPT !.cmd = "register"]
    <3>1. job'.cmd = "register"
      BY <2>1, <2>2 DEF IsJob
    <3> QED
      BY <3>1 DEF AnswersInv
  <2> QED
    BY <1>5, <2>1, <2>2
<1>7. CASE GeneratorNext
  BY <1>2, <1>3, <1>4, <1>5, <1>6, <1>7 DEF GeneratorNext, OfGenerator, Generator!RenderError,
     Generator!SaveFile, Generator!RegisterImpl, Generator!Kill
<1> QED
  BY <1>1, <1>7, OneSubject

\* No template that init renders fails for want of a section, whichever
\* questions were interrupted: a dialog makes its section first, and what is
\* enabled is only what was asked about.
THEOREM SectionsMade == BenchSpec => []SectionsReady
<1>1. BenchInit => AnswersInv
  BY DEF BenchInit, Generator!Init, AnswersInv
<1>2. ASSUME AnswersInv PROVE SectionsReady
  <2> SUFFICES ASSUME job # Generator!NoJob, job.cmd = "init",
                      NEW t \in Generator!ToSet(BenchTemplates),
                      Generator!RenderFails(job.p, t)
               PROVE  "PostgreSQL" \in job.p.enabled
    BY DEF SectionsReady, Generator!SectionsReady
  <2>1. PICK a \in BenchAnswers : job.p = Generator!LoadConfigFromCLI(a)
    BY <1>2 DEF AnswersInv
  <2>2. /\ a.n \in Nat /\ a.m \in Nat /\ a.db \in {"MySQL", "PostgreSQL", "MongoDB"}
        /\ a.cache \in {"Memory", "Redis"}
    <3>1. PICK n \in {0, 3, 4}, m \in {0, 1, 5}, db \in {"MySQL", "PostgreSQL", "MongoDB"},
               cache \in {"Memory", "Redis"} :
            \E auth, f : a = Answering(auth, n, cache, m, db, f)
      BY Zenon DEF BenchAnswers
    <3> QED
      BY <3>1 DEF Answering
  <2>3. PICK s \in t.uses \cap job.p.enabled :
          s = "PostgreSQL" \/ job.p.sections[s] = Generator!NotAsked
    BY Zenon DEF Generator!RenderFails
  <2>4. s # ""
    BY <2>3, UsesNamed, Zenon
  <2>5. s = "" \/ s = "PostgreSQL" \/ job.p.sections[s] # Generator!NotAsked
    BY <2>1, <2>2, <2>3, EnabledSections, Zenon
  <2> QED
    BY <2>3, <2>4, <2>5, Zenon
<1> QED
  BY <1>1, <1>2, GeneratorInit, GeneratorStep, AnswersStep, PTL DEF BenchSpec

-----------------------------------------------------------------------------
(* Sets *)

\* What a name means is what its owner may expect, except of Byte.
SetsInv ==
  /\ type \in Set!Types \cup {"none"}
  /\ names \in [Names -> Names]
  /\ sets \in [Names -> SUBSET Members]
  /\ value \in [Names -> SUBSET Members]
  /\ type # "Byte" => \A n \in Names : Set!Content(n) = value[n]

LEMMA SetsInit == BenchInit => SetsInv
  BY DEF BenchInit, Set!Init, SetsInv, Set!Content

\* A set that is not meant by the names but one: there are fewer others.
LEMMA FreshReference ==
  ASSUME names \in [Names -> Names], NEW to \in Names
  PROVE  \E r \in Names : r \notin {names[n] : n \in Names \ {to}}
<1> DEFINE rest == Names \ {to}
           others == {names[n] : n \in rest}
           f == [n \in rest |-> names[n]]
<1>1. SUFFICES ASSUME Names \subseteq others PROVE FALSE
  OBVIOUS
<1>2. IsFiniteSet(rest) /\ Cardinality(rest) = Cardinality(Names) - 1
  BY SetsAssumption, FS_RemoveElement
<1>3. f \in Surjection(rest, others)
  BY DEF Surjection
<1>4. IsFiniteSet(others) /\ Cardinality(others) <= Cardinality(rest)
  <2> HIDE DEF f, others, rest
  <2> QED
    BY <1>2, <1>3, FS_Surjection
<1>5. Cardinality(Names) <= Cardinality(others)
  BY <1>1, <1>4, FS_Subset
<1> QED
  BY <1>2, <1>4, <1>5, SetsAssumption, FS_CardinalityType

\* The methods keep to the members, and those of all types but Byte compute
\* what they are named for.
LEMMA MethodsCompute ==
  ASSUME type \in Set!Types, NEW s \in SUBSET Members, NEW s2 \in SUBSET Members
  PROVE  /\ \A name \in {"Insert", "Delete", "Difference", "Union", "Intersection"} :
              Set!Do(name, s, s2) \in SUBSET Members
         /\ type # "Byte" =>
              /\ Set!Do("Insert", s, s2) = s \cup s2
              /\ Set!Do("Delete", s, s2) = s \ s2
              /\ \A name \in {"Difference", "Union", "Intersection"} :
                   Set!Do(name, s, s2) = Set!Mathematical(name, s, s2)
<1>1. /\ Set!Method("Insert", s, s2) = s \cup s2
      /\ Set!Method("Delete", s, s2) = s \ s2
      /\ Set!Method("Difference", s, s2) = s \ s2
      /\ Set!Method("Union", s, s2) = s \cup s2
      /\ Set!Method("Intersection", s, s2) = s \cap s2
  BY DEF Set!Method, Set!Union, Set!Difference, Set!Intersection, Set!Has
<1>2. /\ Set!Mathematical("Difference", s, s2) = s \ s2
      /\ Set!Mathematical("Union", s, s2) = s \cup s2
      /\ Set!Mathematical("Intersection", s, s2) = s \cap s2
  BY DEF Set!Mathematical
<1>3. \A name : type # "Byte" => Set!Do(name, s, s2) = Set!Method(name, s, s2)
  BY DEF Set!Do, Set!Types, Set!Int, Set!Int32, Set!Int64, Set!String
<1>4. \A name : type = "Byte" => Set!Do(name, s, s2) \in {s2, Set!Method(name, s, s2)}
  BY DEF Set!Do, Set!Byte
<1> QED
  BY <1>1, <1>2, <1>3, <1>4

\* What a name means is kept when the sets that no name means are gone.
LEMMA ClearedKeeps ==
  ASSUME NEW content \in [Names -> SUBSET Members], NEW means \in [Names -> Names]
  PROVE  /\ Set!Cleared(content, means) \in [Names -> SUBSET Members]
         /\ \A n \in Names : Set!Cleared(content, means)[means[n]] = content[means[n]]
  BY DEF Set!Cleared, Set!Live

\* A name comes to mean a set of its own.
LEMMA FreshIsAlone ==
  ASSUME SetsInv, NEW to \in Names, NEW content \in SUBSET Members, Set!Fresh(to, content)
  PROVE  /\ names' \in [Names -> Names] /\ sets' \in [Names -> SUBSET Members]
         /\ sets'[names'[to]] = content
         /\ \A n \in Names \ {to} : sets'[names'[n]] = sets[names[n]]
<1> DEFINE r == CHOOSE x \in Names : x \notin {names[n] : n \in Names \ {to}}
<1>1. r \in Names /\ \A n \in Names \ {to} : r # names[n]
  BY FreshReference DEF SetsInv
<1>2. /\ names' = [names EXCEPT ![to] = r]
      /\ sets' = Set!Cleared([sets EXCEPT ![r] = content], names')
  BY DEF Set!Fresh
<1> HIDE DEF r
<1>3. names' \in [Names -> Names] /\ [sets EXCEPT ![r] = content] \in [Names -> SUBSET Members]
  BY <1>1, <1>2 DEF SetsInv
<1>4. /\ sets' \in [Names -> SUBSET Members]
      /\ \A n \in Names : sets'[names'[n]] = [sets EXCEPT ![r] = content][names'[n]]
  BY <1>2, <1>3, ClearedKeeps
<1>5. names'[to] = r /\ \A n \in Names \ {to} : names'[n] = names[n]
  BY <1>2 DEF SetsInv
<1>6. /\ [sets EXCEPT ![r] = content][r] = content
      /\ \A n \in Names \ {to} : [sets EXCEPT ![r] = content][names[n]] = sets[names[n]]
  BY <1>1 DEF SetsInv
<1> QED
  BY <1>3, <1>4, <1>5, <1>6

LEMMA SetsChange ==
  ASSUME SetsInv, NEW name \in {"Insert", "Delete"}, NEW to \in Names, NEW from \in Names,
         NEW items \in SUBSET Members, Set!Change(name, to, from, items)
  PROVE  SetsInv'
<1> DEFINE r == names[from]
           content == Set!Do(name, sets[r], items)
           expected == IF name = "Insert" THEN value[from] \cup items ELSE value[from] \ items
<1>1. /\ type \in Set!Types /\ type' = type
      /\ names' = [names EXCEPT ![to] = r]
      /\ sets' = Set!Cleared([sets EXCEPT ![r] = content], names')
      /\ value' = [n \in Names |-> IF n = to \/ names[n] = r THEN expected ELSE value[n]]
  BY DEF Set!Change, SetsInv
<1>2. r \in Names /\ sets[r] \in SUBSET Members /\ value[from] \in SUBSET Members
  BY DEF SetsInv
<1>3. content \in SUBSET Members /\ expected \in SUBSET Members
  BY <1>1, <1>2, MethodsCompute
<1>4. type # "Byte" => content = expected
  <2>1. type # "Byte" => sets[r] = value[from]
    BY DEF SetsInv, Set!Content
  <2> QED
    BY <1>1, <1>2, <2>1, MethodsCompute, ZenonT(40)
<1> HIDE DEF r, content, expected
<1>5. names' \in [Names -> Names] /\ [sets EXCEPT ![r] = content] \in [Names -> SUBSET Members]
  BY <1>1, <1>2, <1>3 DEF SetsInv
<1>6. /\ sets' \in [Names -> SUBSET Members]
      /\ \A n \in Names : sets'[names'[n]] = [sets EXCEPT ![r] = content][names'[n]]
  BY <1>1, <1>5, ClearedKeeps
<1>7. value' \in [Names -> SUBSET Members]
  BY <1>1, <1>3 DEF SetsInv
<1>8. ASSUME NEW n \in Names, type # "Byte" PROVE sets'[names'[n]] = value'[n]
  <2>1. CASE n = to \/ names[n] = r
    <3>1. names'[n] = r
      BY <1>1, <2>1 DEF SetsInv
    <3>2. [sets EXCEPT ![r] = content][r] = content
      BY <1>2 DEF SetsInv
    <3>3. value'[n] = expected
      BY <1>1, <2>1
    <3> QED
      BY <1>4, <1>6, <1>8, <3>1, <3>2, <3>3
  <2>2. CASE n # to /\ names[n] # r
    <3>1. sets[names[n]] = value[n]
      BY <1>8 DEF SetsInv, Set!Content
    <3>2. names'[n] = names[n] /\ value'[n] = value[n]
      BY <1>1, <2>2 DEF SetsInv
    <3>3. [sets EXCEPT ![r] = content][names[n]] = sets[names[n]]
      BY <2>2 DEF SetsInv
    <3> QED
      BY <1>6, <3>1, <3>2, <3>3
  <2> QED
    BY <2>1, <2>2
<1> QED
  BY <1>1, <1>5, <1>6, <1>7, <1>8 DEF SetsInv, Set!Content

LEMMA SetsPopAny ==
  ASSUME SetsInv, NEW from \in Names, Set!PopAny(from)
  PROVE  SetsInv'
<1> DEFINE r == names[from]
<1>1. PICK x \in sets[r] :
        /\ sets' = [sets EXCEPT ![r] = Set!Do("Delete", sets[r], {x})]
        /\ value' = [n \in Names |-> IF names[n] = r THEN value[n] \ {x} ELSE value[n]]
  BY DEF Set!PopAny, Set!Content
<1>2. /\ type \in Set!Types /\ type' = type /\ names' = names
      /\ r \in Names /\ sets[r] \in SUBSET Members
  BY DEF Set!PopAny, SetsInv
<1> DEFINE content == Set!Do("Delete", sets[r], {x})
<1>3. content \in SUBSET Members /\ (type # "Byte" => content = sets[r] \ {x})
  BY <1>2, MethodsCompute
<1>4. ASSUME NEW n \in Names, type # "Byte" PROVE sets[names[n]] = value[n]
  BY <1>4 DEF SetsInv, Set!Content
<1> HIDE DEF r, content
<1>5. sets' = [sets EXCEPT ![r] = content]
  BY <1>1 DEF content
<1>6. sets' \in [Names -> SUBSET Members] /\ value' \in [Names -> SUBSET Members]
  BY <1>1, <1>2, <1>3, <1>5 DEF SetsInv
<1>7. ASSUME NEW n \in Names, type # "Byte" PROVE sets'[names[n]] = value'[n]
  BY <1>1, <1>2, <1>3, <1>4, <1>5, <1>7 DEF SetsInv
<1> QED
  BY <1>2, <1>6, <1>7 DEF SetsInv, Set!Content

LEMMA SetsStep == SetsInv /\ [BenchNext]_BenchVars => SetsInv'
<1> SUFFICES ASSUME SetsInv, [BenchNext]_BenchVars PROVE SetsInv'
  OBVIOUS
<1>1. CASE UNCHANGED setVars
  BY <1>1 DEF setVars, SetsInv, Set!Content
<1>2. ASSUME NEW t \in Set!Types, Set!Choose(t) PROVE SetsInv'
  <2>1. type = "none" /\ type' = t /\ names' = names /\ sets' = sets /\ value' = value
    BY <1>2 DEF Set!Choose
  <2> QED
    BY <2>1 DEF SetsInv, Set!Content
<1>3. ASSUME NEW to \in Names, NEW items \in SUBSET Members, Set!New(to, items) PROVE SetsInv'
  <2>1. /\ Set!Fresh(to, items) /\ type' = type
        /\ value' = [value EXCEPT ![to] = items]
    BY <1>3 DEF Set!New
  <2>2. /\ names' \in [Names -> Names] /\ sets' \in [Names -> SUBSET Members]
        /\ sets'[names'[to]] = items
        /\ \A n \in Names \ {to} : sets'[names'[n]] = sets[names[n]]
    BY <2>1, FreshIsAlone
  <2> QED
    BY <2>1, <2>2 DEF SetsInv, Set!Content
<1>4. ASSUME NEW name \in {"Insert", "Delete"}, NEW to \in Names, NEW from \in Names,
             NEW items \in SUBSET Members, Set!Change(name, to, from, items)
      PROVE  SetsInv'
  BY <1>4, SetsChange
<1>5. ASSUME NEW from \in Names, Set!PopAny(from) PROVE SetsInv'
  BY <1>5, SetsPopAny
<1>6. ASSUME NEW name \in {"Difference", "Union", "Intersection"}, NEW to \in Names,
             NEW a \in Names, NEW b \in Names, Set!Combine(name, to, a, b)
      PROVE  SetsInv'
  <2> DEFINE content == Set!Do(name, Set!Content(a), Set!Content(b))
             expected == Set!Mathematical(name, value[a], value[b])
  <2>1. /\ type \in Set!Types /\ type' = type
        /\ Set!Fresh(to, content) /\ value' = [value EXCEPT ![to] = expected]
    BY <1>6 DEF Set!Combine, SetsInv
  <2>2. /\ Set!Content(a) \in SUBSET Members /\ Set!Content(b) \in SUBSET Members
        /\ value[a] \in SUBSET Members /\ value[b] \in SUBSET Members
    BY DEF SetsInv, Set!Content
  <2>3. content \in SUBSET Members /\ (type # "Byte" => content = expected)
    <3>1. type # "Byte" => Set!Content(a) = value[a] /\ Set!Content(b) = value[b]
      BY DEF SetsInv
    <3>2. PICK s, s2 : s = Set!Content(a) /\ s2 = Set!Content(b)
      OBVIOUS
    <3>3. /\ Set!Do(name, s, s2) \in SUBSET Members
          /\ type # "Byte" => Set!Do(name, s, s2) = Set!Mathematical(name, s, s2)
      <4>1. /\ type \in Set!Types /\ s \in SUBSET Members /\ s2 \in SUBSET Members
            /\ name \in {"Insert", "Delete", "Difference", "Union", "Intersection"}
        BY <2>1, <2>2, <3>2
      <4>2. /\ \A m \in {"Insert", "Delete", "Difference", "Union", "Intersection"} :
                 Set!Do(m, s, s2) \in SUBSET Members
            /\ type # "Byte" => \A m \in {"Difference", "Union", "Intersection"} :
                 Set!Do(m, s, s2) = Set!Mathematical(m, s, s2)
        BY <4>1, MethodsCompute, Zenon
      <4> HIDE DEF content, expected
      <4> QED
        BY <4>1, <4>2
    <3> QED
      BY <3>1, <3>2, <3>3
  <2>4. expected \in SUBSET Members
    BY <2>2 DEF Set!Mathematical
  <2> HIDE DEF content, expected
  <2>5. /\ names' \in [Names -> Names] /\ sets' \in [Names -> SUBSET Members]
        /\ sets'[names'[to]] = content
        /\ \A n \in Names \ {to} : sets'[names'[n]] = sets[names[n]]
    BY <2>1, <2>3, FreshIsAlone
  <2> QED
    BY <2>1, <2>3, <2>4, <2>5 DEF SetsInv, Set!Content
<1>7. CASE SetsNext
  BY <1>2, <1>3, <1>4, <1>5, <1>6, <1>7 DEF SetsNext, OfSets
<1> QED
  BY <1>1, <1>7, OneSubject

\* The instance counts as FiniteSets does.
LEMMA SetCardinality == \A S : Set!Cardinality(S) = Cardinality(S)
  BY DEF Set!Cardinality, Cardinality

\* Every name's set is what its owner may expect, for any names and members:
\* what an operation of two sets returns stands on its own, because there is
\* always a set that no other name means, and the tests see the difference.
THEOREM SetsStandAlone == BenchSpec => []SetsAreTheirOwn
<1>1. ASSUME SetsInv PROVE SetsAreTheirOwn
  <2> SUFFICES ASSUME type # "Byte", NEW n \in Names, NEW m \in Names
               PROVE  LET s == Set!Content(n)
                          s2 == Set!Content(m)
                      IN  /\ s = value[n]
                          /\ Set!Equal(s, s2) <=> value[n] = value[m]
                          /\ Set!HasAll(s, s2) <=> value[m] \subseteq value[n]
                          /\ Set!HasAny(s, s2) <=> value[m] \cap value[n] # {}
    BY DEF SetsAreTheirOwn, Set!SetsAreTheirOwn
  <2>1. PICK s, s2 : s = Set!Content(n) /\ s2 = Set!Content(m)
    OBVIOUS
  <2>2. s = value[n] /\ s2 = value[m] /\ s \in SUBSET Members
    BY <1>1, <2>1 DEF SetsInv
  <2>3. Set!Equal(s, s2) <=> s = s2
    <3>1. IsFiniteSet(s)
      BY <2>2, SetsAssumption, FS_Subset
    <3>2. s2 \subseteq s /\ Cardinality(s) = Cardinality(s2) => s = s2
      BY <3>1, FS_Subset
    <3> QED
      BY <3>2, SetCardinality DEF Set!Equal, Set!Len, Set!IsSuperset, Set!Has
  <2>4. /\ Set!HasAll(s, s2) <=> s2 \subseteq s
        /\ Set!HasAny(s, s2) <=> s2 \cap s # {}
    BY DEF Set!HasAll, Set!HasAny, Set!Has
  <2> QED
    BY <2>1, <2>2, <2>3, <2>4
<1> QED
  BY <1>1, SetsInit, SetsStep, PTL DEF BenchSpec

-----------------------------------------------------------------------------
(* The pages (Pager) *)

\* The tokens that the pager's bucket has at a tick of its rate.
Filled(t) ==
  LET refilled == bucket.availableTokens + (t - bucket.latestTick) * rate.quantum
  IN  IF bucket.availableTokens >= 1 \/ refilled > 1 THEN 1 ELSE refilled

Ticks(time) == time \div rate.interval

PagerTyped ==
  /\ pager \in [pageSize : Nat, pageNumber : Nat \ {0}, hasNext : BOOLEAN]
  /\ bucket \in [startTime : {0}, latestTick : Nat, availableTokens : Int, lastTakeTime : {-1}]
  /\ bucket.availableTokens <= 1
  /\ rate \in [interval : Nat \ {0}, quantum : Nat \ {0}]
  /\ clock \in Nat /\ wakeAt \in Nat
  /\ stage \in {"before", "asleep", "within", "after"}
  /\ rows \in 0..MaxRows /\ present \in 0..rows
  /\ reads \in [1..MaxRows -> Nat]
  /\ resized \in BOOLEAN
  /\ pages \in Nat /\ since \in 0..Ticks(clock)

\* What an integer division by a positive number is.
LEMMA Quotient ==
  ASSUME NEW n \in Int, NEW d \in Nat \ {0}
  PROVE  /\ n \div d \in Int
         /\ d * (n \div d) <= n
         /\ n < d * (n \div d) + d
  BY SMT

\* A later time has no earlier tick, and a tick begins at its time.
LEMMA Quotients ==
  ASSUME NEW m \in Nat, NEW n \in Nat, m <= n, NEW d \in Nat \ {0}
  PROVE  /\ m \div d \in Nat /\ m \div d <= n \div d
         /\ (m * d) \div d = m
<1> DEFINE p == m \div d
           q == n \div d
           r == (m * d) \div d
<1>1. p \in Int /\ d * p <= m /\ m < d * p + d
  BY Quotient
<1>2. q \in Int /\ d * q <= n /\ n < d * q + d
  BY Quotient
<1>3. r \in Int /\ d * r <= m * d /\ m * d < d * r + d
  <2>1. m * d \in Int
    OBVIOUS
  <2> QED
    BY <2>1, Quotient
<1> HIDE DEF p, q, r
<1>4. p >= q + 1 => d * p >= d * q + d
  BY <1>1, <1>2, SMT
<1>5. p <= -1 => d * p <= - d
  BY <1>1, SMT
<1>6. r >= m + 1 => d * r >= m * d + d
  BY <1>3, SMT
<1>7. m >= r + 1 => m * d >= d * r + d
  BY <1>3, SMT
<1>8. p <= q /\ p >= 0
  BY <1>1, <1>2, <1>4, <1>5, SMT
<1>9. r = m
  BY <1>3, <1>6, <1>7, SMT
<1> QED
  BY <1>1, <1>8, <1>9 DEF p, q, r

\* Next leaves one token less, and sleeps until the bucket is out of debt.
LEMMA NextIs ==
  ASSUME PagerTyped, Reader!NextTakes
  PROVE  LET t    == Ticks(clock)
             left == Filled(t) - 1
         IN  /\ bucket' \in [startTime : {0}, latestTick : {t}, availableTokens : {left},
                             lastTakeTime : {-1}]
             /\ t \in Nat /\ left \in Int /\ left <= 0
             /\ wakeAt' \in Nat
             /\ left + ((wakeAt' \div rate.interval) - t) * rate.quantum >= 0
<1> DEFINE t == Ticks(clock)
           F == rate.interval
           Q == rate.quantum
           left == Filled(t) - 1
           adj == Reader!Bucket!Adjust(bucket, t, clock)
           take == Reader!Bucket!TakeOp(bucket, clock, 1, Reader!Bucket!Forever)
           endTick == t + (Q - 1 - left) \div Q
<1>1. /\ F \in Nat \ {0} /\ Q \in Nat \ {0} /\ clock \in Nat
      /\ bucket \in [startTime : {0}, latestTick : Nat, availableTokens : Int, lastTakeTime : {-1}]
      /\ bucket.availableTokens \in Int /\ bucket.availableTokens <= 1 /\ bucket.latestTick \in Nat
      /\ bucket.startTime = 0
  BY DEF PagerTyped
<1>2. t \in Nat /\ Reader!Bucket!CurrentTick(bucket, clock) = t
  BY <1>1, Quotients DEF Reader!Bucket!CurrentTick, Ticks
<1> HIDE DEF t
<1>3. Filled(t) \in Int /\ Filled(t) <= 1
  BY <1>1, <1>2 DEF Filled
<1>4. adj = [startTime |-> 0, latestTick |-> t, availableTokens |-> Filled(t),
             lastTakeTime |-> adj.lastTakeTime]
  BY <1>1, <1>2 DEF Reader!Bucket!Adjust, Filled
<1> HIDE DEF adj
<1>5. left \in Int /\ left <= 0
  BY <1>3
<1>6. take.tb = [adj EXCEPT !.availableTokens = left]
      /\ take.wait = IF left >= 0 THEN 0 ELSE endTick * F - clock
  BY <1>1, <1>2, <1>4, <1>5 DEF Reader!Bucket!TakeOp, Reader!Bucket!Forever, Reader!Bucket!EndTick, adj
<1> HIDE DEF take
<1>7. /\ bucket' = [take.tb EXCEPT !.lastTakeTime = -1]
      /\ wakeAt' = clock + take.wait
  BY DEF Reader!NextTakes, Reader!Bucket!Never, take
<1>8. bucket' = [startTime |-> 0, latestTick |-> t, availableTokens |-> left, lastTakeTime |-> -1]
  <2> HIDE DEF left
  <2>1. PICK l : adj = [startTime |-> 0, latestTick |-> t, availableTokens |-> Filled(t),
                        lastTakeTime |-> l]
    BY <1>4
  <2>2. take.tb = [startTime |-> 0, latestTick |-> t, availableTokens |-> left, lastTakeTime |-> l]
    BY <2>1, <1>6
  <2> QED
    BY <2>2, <1>7
<1>9. wakeAt' \in Nat /\ left + ((wakeAt' \div F) - t) * Q >= 0
  <2>1. CASE left >= 0
    BY <2>1, <1>1, <1>2, <1>5, <1>6, <1>7 DEF Ticks, t
  <2>2. CASE left < 0
    <3> DEFINE q == (Q - 1 - left) \div Q
    <3>1. /\ q \in Int /\ Q * q <= Q - 1 - left /\ Q - 1 - left < Q * q + Q
      <4>1. Q - 1 - left \in Int
        BY <1>1, <1>5
      <4> QED
        BY <4>1, <1>1, Quotient
    <3>2. endTick = t + q
      OBVIOUS
    <3> HIDE DEF q, endTick, left
    <3>3. left + q * Q >= 0
      BY <3>1, <1>1, <1>5, SMT
    <3>4. q >= 1
      <4>1. q <= 0 => q * Q <= 0
        BY <3>1, <1>1, SMT
      <4>2. left \in Int /\ q * Q \in Int
        BY <3>1, <1>1, <1>5
      <4> QED
        BY <4>1, <4>2, <3>1, <3>3, <2>2
    <3>5. endTick \in Nat /\ endTick * F \in Nat
      BY <3>1, <3>2, <3>4, <1>1, <1>2
    <3>6. wakeAt' = endTick * F
      <4>1. take.wait = endTick * F - clock
        BY <2>2, <1>5, <1>6
      <4> QED
        BY <4>1, <3>5, <1>1, <1>7
    <3>7. wakeAt' \div F = endTick
      BY <3>5, <3>6, <1>1, Quotients
    <3> QED
      BY <3>2, <3>3, <3>5, <3>6, <3>7, <3>1, <1>2
  <2> QED
    BY <2>1, <2>2, <1>5
<1> QED
  BY <1>2, <1>5, <1>8, <1>9 DEF t

\* What has been taken since the last change of the rate, and what is left,
\* never exceed one token and those of the new rate; and a sleep ends when the
\* bucket is out of debt.
PacedInv ==
  /\ pages + (IF stage = "asleep" THEN 1 ELSE 0) + Filled(Ticks(clock))
       <= 1 + (Ticks(clock) - since) * rate.quantum
  /\ stage = "asleep" =>
       bucket.availableTokens + (Ticks(wakeAt) - bucket.latestTick) * rate.quantum >= 0
  /\ pages <= 1 + (Ticks(clock) - since) * rate.quantum

Offset == pager.pageSize * (pager.pageNumber - 1)

\* The rows that were read are the first ones: those before the next page, or
\* all that were there.
RowsInv ==
  /\ stage = "within" => pager.hasNext
  /\ ~ resized =>
       \E n \in 0..rows :
         /\ n = IF pager.hasNext THEN Offset ELSE present
         /\ \A r \in 1..MaxRows : reads[r] = IF r <= n THEN 1 ELSE 0

PagerInv == PagerTyped /\ PacedInv /\ RowsInv

\* The bucket gains at most the quantum a tick, and is never above 1.
LEMMA FilledIs ==
  ASSUME PagerTyped, NEW s \in Nat, NEW t \in Nat, s <= t
  PROVE  /\ Filled(s) \in Int /\ Filled(t) \in Int /\ Filled(t) <= 1
         /\ (t - s) * rate.quantum \in Nat
         /\ Filled(t) <= Filled(s) + (t - s) * rate.quantum
<1> DEFINE Q == rate.quantum
           a == bucket.availableTokens
           l == bucket.latestTick
<1>1. Q \in Nat \ {0} /\ a \in Int /\ a <= 1 /\ l \in Nat
  BY DEF PagerTyped
<1> HIDE DEF Q, a, l
<1>2. (t - s) * Q \in Nat /\ (t - l) * Q \in Int /\ (s - l) * Q \in Int
  BY <1>1, SMT
<1>3. (t - l) * Q = (s - l) * Q + (t - s) * Q
  BY <1>1, SMT
<1>4. \A u \in Nat : Filled(u) = IF a >= 1 \/ a + (u - l) * Q > 1 THEN 1 ELSE a + (u - l) * Q
  BY DEF Filled, a, l, Q
<1>5. /\ Filled(t) = IF a >= 1 \/ a + (t - l) * Q > 1 THEN 1 ELSE a + (t - l) * Q
      /\ Filled(s) = IF a >= 1 \/ a + (s - l) * Q > 1 THEN 1 ELSE a + (s - l) * Q
  BY <1>4
<1> QED
  BY <1>1, <1>2, <1>3, <1>5 DEF Q

\* A pager begins with the first page and a full bucket.
LEMMA PagerStart == BenchInit => PagerInv
<1> SUFFICES ASSUME BenchInit PROVE PagerInv
  OBVIOUS
<1>1. /\ pager = [pageSize |-> DefaultPageSize, pageNumber |-> 1, hasNext |-> TRUE]
      /\ bucket = [startTime |-> 0, latestTick |-> 0, availableTokens |-> 1, lastTakeTime |-> -1]
      /\ rate = [interval |-> Second, quantum |-> 1]
      /\ clock = 0 /\ stage = "before" /\ wakeAt = 0
      /\ rows = 0 /\ reads = [r \in 1..MaxRows |-> 0] /\ present = 0
      /\ resized = FALSE /\ pages = 0 /\ since = 0
  BY DEF BenchInit, Reader!Init, Reader!Bucket!NewBucket, Reader!Bucket!Never
<1>2. Ticks(clock) = 0
  <2>1. Second \in Nat \ {0} /\ 0 * Second = 0
    BY PagerAssumption
  <2>2. (0 * Second) \div Second = 0
    BY <2>1, Quotients
  <2> QED
    BY <1>1, <2>1, <2>2 DEF Ticks
<1>3. PagerTyped
  <2>1. /\ DefaultPageSize \in Nat /\ Second \in Nat \ {0} /\ MaxRows \in Nat
        /\ 1 \in Nat \ {0} /\ 0 \in 0..0 /\ 0 \in 0..MaxRows
    BY PagerAssumption
  <2>2. reads \in [1..MaxRows -> Nat]
    BY <1>1
  <2>3. /\ pager \in [pageSize : Nat, pageNumber : Nat \ {0}, hasNext : BOOLEAN]
        /\ bucket \in [startTime : {0}, latestTick : Nat, availableTokens : Int, lastTakeTime : {-1}]
        /\ bucket.availableTokens <= 1
        /\ rate \in [interval : Nat \ {0}, quantum : Nat \ {0}]
    BY <1>1, <2>1
  <2> QED
    BY <1>1, <1>2, <2>1, <2>2, <2>3 DEF PagerTyped
<1>4. PacedInv
  BY <1>1, <1>2 DEF PacedInv, Filled
<1>5. RowsInv
  BY <1>1, PagerAssumption DEF RowsInv, Offset
<1> QED
  BY <1>3, <1>4, <1>5 DEF PagerInv

\* The others' steps.
LEMMA PagerIdle == PagerInv /\ UNCHANGED pagerVars => PagerInv'
<1> SUFFICES ASSUME PagerInv, UNCHANGED pagerVars PROVE PagerInv'
  OBVIOUS
<1>1. PagerTyped'
  BY DEF PagerInv, PagerTyped, pagerVars, Ticks
<1>2. PacedInv'
  BY DEF PagerInv, PacedInv, pagerVars, Ticks, Filled
<1>3. RowsInv'
  BY DEF PagerInv, RowsInv, pagerVars, Offset
<1> QED
  BY <1>1, <1>2, <1>3 DEF PagerInv

\* A token goes over to the page that Next will return.
LEMMA NextTakesStep == PagerInv /\ Reader!NextTakes => PagerInv'
<1> SUFFICES ASSUME PagerInv, Reader!NextTakes PROVE PagerInv'
  OBVIOUS
<1> DEFINE t == Ticks(clock)
           left == Filled(t) - 1
<1>1. /\ bucket' \in [startTime : {0}, latestTick : {t}, availableTokens : {left}, lastTakeTime : {-1}]
      /\ t \in Nat /\ left \in Int /\ left <= 0
      /\ wakeAt' \in Nat
      /\ left + ((wakeAt' \div rate.interval) - t) * rate.quantum >= 0
  BY NextIs DEF PagerInv
<1>2. /\ UNCHANGED <<pager, rate, clock, rows, reads, present, resized, pages, since>>
      /\ stage = "before" /\ stage' = "asleep"
  BY DEF Reader!NextTakes
<1> HIDE DEF left, t
<1>3. bucket'.availableTokens = left /\ bucket'.latestTick = t
      /\ bucket' \in [startTime : {0}, latestTick : Nat, availableTokens : Int, lastTakeTime : {-1}]
  BY <1>1
<1>4. PagerTyped'
  <2>1. Ticks(clock)' = Ticks(clock)
    BY <1>2 DEF Ticks
  <2> QED
    BY <1>1, <1>2, <1>3, <2>1 DEF PagerInv, PagerTyped
<1>5. PacedInv'
  <2>1. Ticks(clock)' = t /\ Ticks(wakeAt)' = wakeAt' \div rate.interval
    BY <1>2 DEF Ticks, t
  <2>2. rate.quantum \in Nat \ {0} /\ (t - t) * rate.quantum = 0
    BY <1>1 DEF PagerInv, PagerTyped
  <2>3. Filled(Ticks(clock))' = left
    BY <1>1, <1>2, <1>3, <2>1, <2>2 DEF Filled
  <2>4. pages \in Nat /\ (t - since) * rate.quantum \in Int /\ Filled(t) \in Int
    <3>1. since \in Nat /\ pages \in Nat
      BY DEF PagerInv, PagerTyped
    <3>2. Filled(t) \in Int
      BY <1>1, FilledIs DEF PagerInv
    <3> QED
      BY <1>1, <2>2, <3>1, <3>2
  <2>5. pages + 0 + Filled(t) <= 1 + (t - since) * rate.quantum
    BY <1>2 DEF PagerInv, PacedInv, t
  <2> QED
    BY <1>1, <1>2, <1>3, <2>1, <2>3, <2>4, <2>5 DEF PagerInv, PacedInv, left, t
<1>6. RowsInv'
  BY <1>2 DEF PagerInv, RowsInv, Offset
<1> QED
  BY <1>4, <1>5, <1>6 DEF PagerInv

\* Next returns when the bucket is out of debt.
LEMMA NextReturnsStep == PagerInv /\ Reader!NextReturns => PagerInv'
<1> SUFFICES ASSUME PagerInv, Reader!NextReturns PROVE PagerInv'
  OBVIOUS
<1> DEFINE t == Ticks(clock)
<1>1. /\ UNCHANGED <<pager, bucket, rate, clock, wakeAt, rows, reads, present, resized, since>>
      /\ stage = "asleep" /\ clock >= wakeAt /\ pages' = pages + 1
      /\ stage' = IF pager.hasNext THEN "within" ELSE "after"
  BY DEF Reader!NextReturns
<1>2. Ticks(clock)' = t /\ Filled(Ticks(clock))' = Filled(t)
  BY <1>1 DEF Ticks, Filled
<1>3. PagerTyped'
  BY <1>1, <1>2 DEF PagerInv, PagerTyped
<1>4. Ticks(wakeAt) \in Nat /\ t \in Nat /\ Ticks(wakeAt) <= t
  BY <1>1, Quotients DEF PagerInv, PagerTyped, Ticks
<1>5. rate.quantum \in Nat \ {0} /\ bucket.latestTick \in Nat /\ bucket.availableTokens \in Int /\ since \in Nat
      /\ pages \in Nat
  BY DEF PagerInv, PagerTyped
<1> HIDE DEF t
<1>6. Filled(t) >= 0 /\ Filled(t) \in Int
  <2>1. (Ticks(wakeAt) - bucket.latestTick) * rate.quantum <= (t - bucket.latestTick) * rate.quantum
    BY <1>4, <1>5, SMT
  <2>2. bucket.availableTokens + (Ticks(wakeAt) - bucket.latestTick) * rate.quantum >= 0
    BY <1>1 DEF PagerInv, PacedInv
  <2>3. /\ (Ticks(wakeAt) - bucket.latestTick) * rate.quantum \in Int
        /\ (t - bucket.latestTick) * rate.quantum \in Int
    BY <1>4, <1>5
  <2> QED
    BY <2>1, <2>2, <2>3, <1>5 DEF Filled
<1>7. PacedInv'
  <2>1. pages + 1 + Filled(t) <= 1 + (t - since) * rate.quantum
    BY <1>1 DEF PagerInv, PacedInv, t
  <2>2. (t - since) * rate.quantum \in Int
    BY <1>4, <1>5
  <2>3. (Ticks(clock) - since)' * rate.quantum' = (t - since) * rate.quantum
    BY <1>1, <1>2
  <2>4. stage' # "asleep"
    BY <1>1
  <2> QED
    BY <1>1, <1>2, <1>5, <1>6, <2>1, <2>2, <2>3, <2>4 DEF PacedInv
<1>8. RowsInv'
  BY <1>1 DEF PagerInv, RowsInv, Offset
<1> QED
  BY <1>3, <1>7, <1>8 DEF PagerInv

\* Whatever latestTick means in the new ticks, the bucket holds one token at
\* most.
LEMMA SetRateStep == ASSUME PagerInv, NEW r \in Reader!Rates, Reader!SetRate(r) PROVE PagerInv'
<1>1. /\ UNCHANGED <<pager, bucket, clock, stage, wakeAt, rows, reads, present, resized>>
      /\ stage # "asleep" /\ pages' = 0 /\ rate' = r /\ since' = clock \div r.interval
  BY DEF Reader!SetRate
<1>2. r \in [interval : Nat \ {0}, quantum : Nat \ {0}]
  BY PagerAssumption DEF Reader!Rates
<1>3. Ticks(clock)' = since' /\ since' \in Nat
  BY <1>1, <1>2, Quotients DEF Ticks, PagerInv, PagerTyped
<1>4. PagerTyped'
  BY <1>1, <1>2, <1>3 DEF PagerInv, PagerTyped
<1>5. Filled(Ticks(clock))' <= 1 /\ Filled(Ticks(clock))' \in Int
  <2>1. /\ r.quantum \in Nat \ {0} /\ bucket.latestTick \in Nat
        /\ bucket.availableTokens \in Int /\ bucket.availableTokens <= 1
        /\ (since' - bucket.latestTick) * r.quantum \in Int
    BY <1>2, <1>3 DEF PagerInv, PagerTyped
  <2> QED
    BY <2>1, <1>1, <1>3 DEF Filled
<1>6. PacedInv'
  <2>1. r.quantum \in Nat /\ (since' - since') * r.quantum = 0
    BY <1>2, <1>3
  <2> QED
    BY <1>1, <1>3, <1>5, <2>1 DEF PacedInv
<1>7. RowsInv'
  BY <1>1 DEF PagerInv, RowsInv, Offset
<1> QED
  BY <1>4, <1>6, <1>7 DEF PagerInv

\* A tick brings the quantum, at most.
LEMMA PagerTickStep == PagerInv /\ Reader!Tick => PagerInv'
<1> SUFFICES ASSUME PagerInv, Reader!Tick PROVE PagerInv'
  OBVIOUS
<1> DEFINE s == Ticks(clock)
           t == (clock + 1) \div rate.interval
<1>1. /\ UNCHANGED <<pager, bucket, rate, stage, wakeAt, rows, reads, present, resized, pages, since>>
      /\ clock' = clock + 1
  BY DEF Reader!Tick
<1>2. s \in Nat /\ t \in Nat /\ s <= t
  <2>1. rate.interval \in Nat \ {0} /\ clock \in Nat /\ clock + 1 \in Nat /\ clock <= clock + 1
    BY DEF PagerInv, PagerTyped
  <2> QED
    BY <2>1, Quotients DEF Ticks
<1>3. Ticks(clock)' = t
  BY <1>1 DEF Ticks
<1> HIDE DEF s, t
<1>4. /\ Filled(s) \in Int /\ Filled(t) \in Int /\ (t - s) * rate.quantum \in Nat
      /\ Filled(t) <= Filled(s) + (t - s) * rate.quantum
  BY <1>2, FilledIs DEF PagerInv
<1>5. Filled(Ticks(clock))' = Filled(t)
  BY <1>1, <1>3 DEF Filled
<1>6. PagerTyped'
  <2>1. since \in 0..t
    BY <1>2 DEF PagerInv, PagerTyped, s
  <2> QED
    BY <1>1, <1>3, <2>1 DEF PagerInv, PagerTyped
<1>7. PacedInv'
  <2>1. rate.quantum \in Nat \ {0} /\ pages \in Nat /\ since \in Nat
    BY DEF PagerInv, PagerTyped
  <2>2. (t - since) * rate.quantum = (s - since) * rate.quantum + (t - s) * rate.quantum
    BY <1>2, <2>1, SMT
  <2>3. (t - since) * rate.quantum \in Int /\ (s - since) * rate.quantum \in Int
    BY <1>2, <2>1
  <2>4. /\ pages + (IF stage = "asleep" THEN 1 ELSE 0) + Filled(s) <= 1 + (s - since) * rate.quantum
        /\ pages <= 1 + (s - since) * rate.quantum
    BY DEF PagerInv, PacedInv, s
  <2>5. /\ pages + (IF stage = "asleep" THEN 1 ELSE 0) + Filled(t) <= 1 + (t - since) * rate.quantum
        /\ pages <= 1 + (t - since) * rate.quantum
    BY <1>2, <1>4, <2>1, <2>2, <2>3, <2>4
  <2>6. Ticks(wakeAt)' = Ticks(wakeAt)
    BY <1>1 DEF Ticks
  <2> QED
    BY <1>1, <1>3, <1>5, <2>5, <2>6 DEF PagerInv, PacedInv
<1>8. RowsInv'
  BY <1>1 DEF PagerInv, RowsInv, Offset
<1> QED
  BY <1>6, <1>7, <1>8 DEF PagerInv

\* The pages do not touch the bucket.
LEMMA SamePace ==
  ASSUME PacedInv, UNCHANGED <<bucket, rate, clock, wakeAt, pages, since>>,
         stage # "asleep", stage' # "asleep"
  PROVE  PacedInv'
<1>1. /\ Ticks(clock)' = Ticks(clock)
      /\ Filled(Ticks(clock))' = Filled(Ticks(clock))
  BY DEF Ticks, Filled
<1> QED
  BY <1>1 DEF PacedInv

\* The instance counts as FiniteSets does.
LEMMA ReaderCardinality == \A S : Reader!Cardinality(S) = Cardinality(S)
  BY DEF Reader!Cardinality, Cardinality

\* The page is the next rows, as many as its size or all that are left.
LEMMA PageIs ==
  ASSUME PagerTyped, NEW n \in 0..rows, n = Offset
  PROVE  LET last == IF n + pager.pageSize <= rows THEN n + pager.pageSize ELSE rows
         IN  /\ Reader!Page = (n + 1)..last
             /\ last \in n..rows
             /\ Reader!Cardinality(Reader!Page) = last - n
<1> DEFINE last == IF n + pager.pageSize <= rows THEN n + pager.pageSize ELSE rows
<1>1. pager.pageSize \in Nat /\ rows \in Nat /\ n \in Nat
  BY DEF PagerTyped
<1>2. last \in n..rows
  BY <1>1
<1>3. Reader!Page = {r \in 1..rows : n < r /\ r <= n + pager.pageSize}
  BY DEF Reader!Page, Reader!Offset, Offset
<1>4. Reader!Page = (n + 1)..last
  BY <1>1, <1>2, <1>3
<1>5. Cardinality((n + 1)..last) = last - n
  <2> HIDE DEF last
  <2>1. n + 1 \in Int /\ last \in Int /\ last >= n
    BY <1>1, <1>2
  <2>2. Cardinality((n + 1)..last) = IF n + 1 > last THEN 0 ELSE last - (n + 1) + 1
    BY <2>1, FS_Interval
  <2> QED
    BY <2>1, <2>2, <1>1
<1> QED
  BY <1>2, <1>4, <1>5, ReaderCardinality

\* A full page moves the offset over what was read, another one is the rest.
LEMMA ScanStep == PagerInv /\ Reader!Scan => PagerInv'
<1> SUFFICES ASSUME PagerInv, Reader!Scan PROVE PagerInv'
  OBVIOUS
<1> DEFINE found == Reader!Cardinality(Reader!Page)
<1>1. /\ stage = "within" /\ stage' = "before"
      /\ reads' = [r \in 1..MaxRows |-> reads[r] + (IF r \in Reader!Page THEN 1 ELSE 0)]
      /\ present' = rows
      /\ pager' = Reader!CheckHasNext(found)
      /\ UNCHANGED <<bucket, rate, clock, wakeAt, rows, resized, pages, since>>
  BY DEF Reader!Scan
<1> HIDE DEF found
<1>2. /\ pager \in [pageSize : Nat, pageNumber : Nat \ {0}, hasNext : BOOLEAN]
      /\ rows \in 0..MaxRows /\ present \in 0..rows /\ reads \in [1..MaxRows -> Nat]
      /\ resized \in BOOLEAN
  BY DEF PagerInv, PagerTyped
<1>3. pager' = IF found < pager.pageSize THEN [pager EXCEPT !.hasNext = FALSE]
                                          ELSE [pager EXCEPT !.pageNumber = pager.pageNumber + 1]
  BY <1>1 DEF Reader!CheckHasNext
<1>4. PagerTyped'
  <2>1. pager' \in [pageSize : Nat, pageNumber : Nat \ {0}, hasNext : BOOLEAN]
    <3>1. pager.pageNumber + 1 \in Nat \ {0}
      BY <1>2
    <3>2. CASE found < pager.pageSize
      BY <3>2, <1>2, <1>3
    <3>3. CASE ~ (found < pager.pageSize)
      BY <3>1, <3>3, <1>2, <1>3
    <3> QED
      BY <3>2, <3>3
  <2>2. reads' \in [1..MaxRows -> Nat]
    BY <1>1, <1>2
  <2>3. present' \in 0..rows
    BY <1>1, <1>2, PagerAssumption
  <2>4. Ticks(clock)' = Ticks(clock)
    BY <1>1 DEF Ticks
  <2> QED
    BY <1>1, <2>1, <2>2, <2>3, <2>4 DEF PagerInv, PagerTyped
<1>5. PacedInv'
  BY <1>1, SamePace DEF PagerInv
<1>6. RowsInv'
  <2>1. SUFFICES ASSUME ~ resized
                 PROVE  \E m \in 0..rows :
                          /\ m = IF pager'.hasNext THEN Offset' ELSE present'
                          /\ \A r \in 1..MaxRows : reads'[r] = IF r <= m THEN 1 ELSE 0
    BY <1>1 DEF RowsInv
  <2>2. pager.hasNext
    BY <1>1 DEF PagerInv, RowsInv
  <2>3. PICK n \in 0..rows :
          /\ n = Offset
          /\ \A r \in 1..MaxRows : reads[r] = IF r <= n THEN 1 ELSE 0
    BY <2>1, <2>2 DEF PagerInv, RowsInv
  <2> DEFINE last == IF n + pager.pageSize <= rows THEN n + pager.pageSize ELSE rows
  <2>4. Reader!Page = (n + 1)..last /\ last \in n..rows /\ found = last - n
    BY <2>3, PageIs DEF PagerInv, found
  <2>5. pager.pageSize \in Nat /\ pager.pageNumber \in Nat /\ rows \in Nat /\ n \in Nat
    BY <1>2
  <2>6. last = IF pager'.hasNext THEN Offset' ELSE present'
    <3>1. CASE n + pager.pageSize <= rows
      <4>1. found = pager.pageSize
        BY <2>4, <2>5, <3>1
      <4>2. /\ pager'.hasNext = pager.hasNext /\ pager'.pageSize = pager.pageSize
            /\ pager'.pageNumber = pager.pageNumber + 1
        <5>1. ~ (found < pager.pageSize)
          BY <4>1, <2>5
        <5>2. pager' = [pager EXCEPT !.pageNumber = pager.pageNumber + 1]
          BY <5>1, <1>3
        <5> QED
          BY <5>2, <1>2
      <4>3. Offset' = Offset + pager.pageSize
        <5>1. \A x, y : pager'.pageSize = x /\ pager'.pageNumber = y => Offset' = x * (y - 1)
          BY DEF Offset
        <5>2. Offset' = pager.pageSize * (pager.pageNumber + 1 - 1)
          <6>1. /\ pager'.pageSize \in Nat /\ pager'.pageNumber \in Nat
                /\ pager'.pageSize = pager.pageSize /\ pager'.pageNumber = pager.pageNumber + 1
            BY <4>2, <2>5
          <6> QED
            BY <5>1, <6>1, <2>5
        <5>3. pager.pageSize * (pager.pageNumber + 1 - 1)
                = pager.pageSize * (pager.pageNumber - 1) + pager.pageSize
          BY <2>5, SMT
        <5> QED
          BY <5>2, <5>3 DEF Offset
      <4> QED
        BY <4>2, <4>3, <2>2, <2>3, <3>1
    <3>2. CASE ~ (n + pager.pageSize <= rows)
      <4>1. found < pager.pageSize
        BY <2>4, <2>5, <3>2
      <4>2. ~ pager'.hasNext
        BY <4>1, <1>2, <1>3
      <4> QED
        BY <4>2, <1>1, <3>2
    <3> QED
      BY <3>1, <3>2
  <2> HIDE DEF last
  <2>7. last \in 0..rows
    BY <2>4, <2>5
  <2>8. ASSUME NEW r \in 1..MaxRows PROVE reads'[r] = IF r <= last THEN 1 ELSE 0
    <3>1. reads'[r] = reads[r] + (IF r \in (n + 1)..last THEN 1 ELSE 0)
      BY <1>1, <2>4
    <3>2. reads[r] = IF r <= n THEN 1 ELSE 0
      BY <2>3
    <3>3. r \in Int /\ last \in Int /\ last >= n
      BY <2>4, <2>5
    <3> QED
      BY <3>1, <3>2, <3>3, <2>5
  <2> QED
    BY <2>6, <2>7, <2>8
<1> QED
  BY <1>4, <1>5, <1>6 DEF PagerInv

\* A page that was not read is the next one.
LEMMA ScanFailsStep == PagerInv /\ Reader!ScanFails => PagerInv'
<1> SUFFICES ASSUME PagerInv, Reader!ScanFails PROVE PagerInv'
  OBVIOUS
<1>1. /\ stage = "within" /\ stage' = "before"
      /\ UNCHANGED <<pager, bucket, rate, clock, wakeAt, rows, reads, present, resized, pages, since>>
  BY DEF Reader!ScanFails
<1>2. PagerTyped'
  BY <1>1 DEF PagerInv, PagerTyped, Ticks
<1>3. PacedInv'
  BY <1>1, SamePace DEF PagerInv
<1>4. RowsInv'
  BY <1>1 DEF PagerInv, RowsInv, Offset
<1> QED
  BY <1>2, <1>3, <1>4 DEF PagerInv

\* A size that changes on the first page, or not at all, leaves the offset.
LEMMA SetPageSizeStep ==
  ASSUME PagerInv, NEW ps \in PageSizes, Reader!SetPageSize(ps) PROVE PagerInv'
<1>1. /\ pager' = [pager EXCEPT !.pageSize = ps]
      /\ resized' = (resized \/ (pager.pageNumber > 1 /\ ps # pager.pageSize))
      /\ stage # "asleep"
      /\ UNCHANGED <<bucket, rate, clock, stage, wakeAt, rows, reads, present, pages, since>>
  BY DEF Reader!SetPageSize
<1>2. /\ pager \in [pageSize : Nat, pageNumber : Nat \ {0}, hasNext : BOOLEAN]
      /\ ps \in Nat
  BY PagerAssumption DEF PagerInv, PagerTyped
<1>3. /\ pager' \in [pageSize : Nat, pageNumber : Nat \ {0}, hasNext : BOOLEAN]
      /\ pager'.pageSize = ps /\ pager'.pageNumber = pager.pageNumber /\ pager'.hasNext = pager.hasNext
  BY <1>1, <1>2
<1>4. PagerTyped'
  BY <1>1, <1>3 DEF PagerInv, PagerTyped, Ticks
<1>5. PacedInv'
  BY <1>1, SamePace DEF PagerInv
<1>6. RowsInv'
  <2>1. ~ resized' => Offset' = Offset
    <3>1. /\ Offset' = ps * (pager.pageNumber - 1)
          /\ Offset = pager.pageSize * (pager.pageNumber - 1)
      BY <1>3 DEF Offset
    <3>2. /\ pager.pageNumber \in Nat \ {0} /\ pager.pageSize \in Nat
      BY <1>2
    <3>3. CASE pager.pageNumber = 1
      <4>1. ps * (1 - 1) = 0 /\ pager.pageSize * (1 - 1) = 0
        BY <1>2, <3>2
      <4> QED
        BY <3>1, <3>3, <4>1
    <3>4. CASE pager.pageNumber > 1
      BY <1>1, <3>1, <3>4
    <3> QED
      BY <3>2, <3>3, <3>4
  <2>2. ~ resized' => ~ resized
    BY <1>1
  <2> QED
    BY <1>1, <1>3, <2>1, <2>2 DEF PagerInv, RowsInv
<1> QED
  BY <1>4, <1>5, <1>6 DEF PagerInv

\* A new row is behind all that was read.
LEMMA InsertStep == PagerInv /\ Reader!Insert => PagerInv'
<1> SUFFICES ASSUME PagerInv, Reader!Insert PROVE PagerInv'
  OBVIOUS
<1>1. /\ rows < MaxRows /\ rows' = rows + 1
      /\ UNCHANGED <<pager, bucket, rate, clock, stage, wakeAt, reads, present, resized, pages, since>>
  BY DEF Reader!Insert
<1>2. rows \in 0..MaxRows /\ present \in 0..rows /\ MaxRows \in Nat
  BY PagerAssumption DEF PagerInv, PagerTyped
<1>3. PagerTyped'
  <2>1. rows' \in 0..MaxRows /\ present \in 0..rows'
    BY <1>1, <1>2
  <2> QED
    BY <1>1, <2>1 DEF PagerInv, PagerTyped, Ticks
<1>4. PacedInv'
  BY <1>1 DEF PagerInv, PacedInv, Ticks, Filled
<1>5. RowsInv'
  <2>1. 0..rows \subseteq 0..rows'
    BY <1>1, <1>2
  <2> QED
    BY <1>1, <2>1 DEF PagerInv, RowsInv, Offset
<1> QED
  BY <1>3, <1>4, <1>5 DEF PagerInv

\* Every step keeps the invariant.
LEMMA PagerStep == PagerInv /\ (PagerNext \/ UNCHANGED pagerVars) => PagerInv'
<1> SUFFICES ASSUME PagerInv, PagerNext \/ UNCHANGED pagerVars PROVE PagerInv'
  OBVIOUS
<1>1. CASE UNCHANGED pagerVars
  BY <1>1, PagerIdle
<1>2. CASE PagerNext
  <2>1. \/ Reader!NextTakes \/ Reader!NextReturns \/ Reader!Tick
        \/ Reader!Scan \/ Reader!ScanFails \/ Reader!Insert
        \/ \E r \in Reader!Rates : Reader!SetRate(r)
        \/ \E ps \in PageSizes : Reader!SetPageSize(ps)
    BY <1>2 DEF PagerNext, OfPager
  <2> QED
    BY <2>1, NextTakesStep, NextReturnsStep, SetRateStep, PagerTickStep, ScanStep, ScanFailsStep,
       SetPageSizeStep, InsertStep
<1> QED
  BY <1>1, <1>2

\* ... of the bench.
LEMMA PagerInvStep == PagerInv /\ [BenchNext]_BenchVars => PagerInv'
  BY PagerStep, OneSubject

\* While all pages have one size, no row is read twice and none is left out,
\* for any sizes, numbers of rows, failing Scans and rows added meanwhile; when
\* hasNext is false, all is read that was there at the last Scan.
THEOREM PagesOnce == BenchSpec => []EachRowOnce
<1>1. ASSUME PagerInv PROVE EachRowOnce
  <2>1. SUFFICES ASSUME ~ resized
                 PROVE  /\ \A r \in 1..MaxRows : reads[r] <= 1
                        /\ \A r \in 1..MaxRows : reads[r] = 1 => \A s \in 1..r : reads[s] = 1
                        /\ ~ pager.hasNext => \A r \in 1..present : reads[r] = 1
    BY DEF EachRowOnce, Reader!EachRowOnce
  <2>2. PICK n \in 0..rows :
          /\ n = IF pager.hasNext THEN Offset ELSE present
          /\ \A r \in 1..MaxRows : reads[r] = IF r <= n THEN 1 ELSE 0
    BY <1>1, <2>1 DEF PagerInv, RowsInv
  <2>3. /\ n \in Nat /\ present \in Nat /\ rows \in Nat /\ MaxRows \in Nat
        /\ present <= rows /\ rows <= MaxRows
    BY <1>1, PagerAssumption DEF PagerInv, PagerTyped
  <2>4. \A r \in 1..MaxRows : r \in Int /\ (reads[r] = 1 <=> r <= n) /\ reads[r] <= 1
    BY <2>2, <2>3
  <2>5. \A r \in 1..MaxRows : \A s \in 1..r : s \in 1..MaxRows /\ s <= r
    BY <2>3
  <2>6. \A r \in 1..present : r \in 1..MaxRows /\ r <= present
    <3>1. present <= MaxRows
      BY <2>3
    <3> QED
      BY <2>3, <3>1
  <2>7. ~ pager.hasNext => n = present
    BY <2>2
  <2>8. ASSUME NEW r \in 1..MaxRows, reads[r] = 1, NEW s \in 1..r PROVE reads[s] = 1
    <3>1. s \in 1..MaxRows /\ s <= r /\ r <= n /\ r \in Int /\ s \in Int
      BY <2>4, <2>5, <2>8
    <3> QED
      BY <3>1, <2>3, <2>4
  <2>9. ASSUME ~ pager.hasNext, NEW r \in 1..present PROVE reads[r] = 1
    BY <2>4, <2>6, <2>7, <2>9
  <2> QED
    BY <2>4, <2>8, <2>9
<1> QED
  BY <1>1, PagerStart, PagerInvStep, PTL DEF BenchSpec

\* Since SetRate last changed the bucket in use, to whatever interval and
\* quantum, Next has returned once, and once for each token of the new rate,
\* at most.
THEOREM PagesPaced == BenchSpec => []Paced
<1>1. ASSUME PagerInv PROVE Paced
  <2>1. /\ rate.quantum \in Nat /\ since \in Nat /\ Ticks(clock) \in Nat
    BY <1>1, Quotients DEF PagerInv, PagerTyped, Ticks
  <2>2. pages <= 1 + (Ticks(clock) - since) * rate.quantum
    BY <1>1 DEF PagerInv, PacedInv
  <2> QED
    BY <2>1, <2>2 DEF Paced, Reader!Paced, Ticks
<1> QED
  BY <1>1, PagerStart, PagerInvStep, PTL DEF BenchSpec

=============================================================================
