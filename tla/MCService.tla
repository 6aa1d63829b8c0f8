----------------------------- MODULE MCService -----------------------------
(***************************************************************************)
(* A generated program in small instances, side by side: the subject of a  *)
(* behaviour is one of them, and the others rest.                          *)
(*   lifecycle  ServiceLifecycle: its servers and how they stop            *)
(*   registry   ServiceRegistry: the services it registers and configures  *)
(*   cache      Cache: the cache it was configured with                    *)
(*   log        IntervalRotator: the files it logs to                      *)
(*   generator  ProjectGenerator: how it came about                        *)
(*   sets       Sets: the sets that it keeps things in                     *)
(*   pager      Pager: how it reads what is too much to read at once       *)
(***************************************************************************)
EXTENDS ServiceLifecycle, Integers, FiniteSets

CONSTANTS
  Packages, Needs,
  Keys, Values, TTLs, DefaultTTL, Size,
  DaysPerMonth, MaxSize, MaxDay, MaxRecords, MaxFailures,
  AppNames, MaxRuns,
  Names, Members,
  DefaultPageSize, PageSizes, Second, Intervals, Quanta, MaxRows, MaxClock, MaxPages

\* Each package registers its service with one of the RegistryXService.
ASSUME PackagesAssumption ==
  \A s \in Packages : s.kind \in {"internal", "grpc", "restful", "http", "gin"}

\* A time to live is a number of units of time (time.Duration).
ASSUME TTLAssumption == TTLs \subseteq Int /\ DefaultTTL \in Int

\* A month has days.
ASSUME DaysAssumption == DaysPerMonth \in Nat \ {0}

\* A program has finitely many names for sets, and no set is infinite.
ASSUME SetsAssumption == IsFiniteSet(Names) /\ IsFiniteSet(Members)

\* Pages have sizes, of which 0 is one; SetRate leaves an interval that is
\* not 0 (limiter.go:254), and a quantum of 1 or more.
ASSUME PagerAssumption ==
  /\ {DefaultPageSize} \cup PageSizes \subseteq Nat
  /\ {Second} \cup Intervals \subseteq Nat \ {0}
  /\ Quanta \subseteq Nat \ {0}
  /\ MaxRows \in Nat

VARIABLES
  subject,
  maps, phase, turn, configured, gets, served,
  memory, recent, redis, ttl, differing,
  now, active, backups, rotation, lastRotate, open, length, at, writing, count,
  dropped, changed, failures,
  disk, job, runs, failed, strayed,
  type, names, sets, value,
  pager, bucket, rate, clock, stage, wakeAt, rows, reads, present, resized, pages, since

\* Two packages register a service of the same kind and name; others get
\* what is configured before them, in any order, or was not registered.
Package(kind, name, from) == [kind |-> kind, name |-> name, from |-> from]

BenchPackages ==
  { Package("internal", "a", 1), Package("grpc", "a", 1), Package("grpc", "a", 2),
    Package("grpc", "b", 1), Package("http", "a", 1), Package("gin", "a", 1) }

BenchNeeds ==
  [s \in BenchPackages |->
     IF s.kind \in {"http", "gin"} THEN {[kind |-> "grpc", name |-> s.name]}
     ELSE IF s.name = "b" THEN {[kind |-> "grpc", name |-> "a"], [kind |-> "internal", name |-> "a"]}
     ELSE {}]

Registry == INSTANCE ServiceRegistry

\* A time of either sign, none, and two that differ.
BenchTTLs == {-1, 0, 1, 2}

Store == INSTANCE Cache

\* Restarts with another number of backups and with another interval.
IntervalConfigs ==
  { [interval |-> "day", maxBackups |-> 2, rotateOnStartup |-> TRUE],
    [interval |-> "day", maxBackups |-> 1, rotateOnStartup |-> FALSE],
    [interval |-> "month", maxBackups |-> 2, rotateOnStartup |-> TRUE] }

Log == INSTANCE IntervalRotator WITH Rotations <- IntervalConfigs

\* At least one template of each area, and of those that are skipped.
Template(area, file, variant, uses) ==
  [area |-> area, file |-> file, variant |-> variant, uses |-> uses]

BenchTemplates ==
  << Template("all", "api.go", "", {}), Template("all", "impl.go", "", {}),
     Template("api", "http.go", "gin", {}), Template("api", "http.go", "httprouter", {}),
     Template("api", "http.go", "", {}),
     Template("app", "app.go", "example", {}), Template("app", "app.go", "", {}),
     Template("impl", "sql.go", "example", {}), Template("impl", "impl.go", "", {}),
     Template("impl", "sql.go", "", {}),
     Template("pb", "example.proto", "example", {}), Template("pb", "example.proto", "", {}),
     Template("client", "client.go", "", {}),
     Template("etc", "config.toml", "", {"MySQL", "PostgreSQL", "MongoDB", "Memory", "Redis"}),
     Template("protocol", "http.go", "gin", {}), Template("protocol", "http.go", "httprouter", {}) >>

Answering(auth, n, cache, m, db, framework) ==
  [auth |-> auth, n |-> n, cache |-> cache, m |-> m, db |-> db, framework |-> framework]

\* Dialogs that are gone through and interrupted, with and without example.
BenchAnswers ==
  { Answering(FALSE, 0, "Redis", 0, "MySQL", "gin"), Answering(TRUE, 4, "Memory", 1, "MongoDB", "httprouter"),
    Answering(TRUE, 0, "Memory", 5, "MySQL", ""), Answering(TRUE, 4, "Redis", 0, "PostgreSQL", "gin"),
    Answering(TRUE, 3, "Redis", 5, "MongoDB", "") }

Generator == INSTANCE ProjectGenerator WITH Templates <- BenchTemplates, Answers <- BenchAnswers

Set == INSTANCE Sets WITH held <- names

Reader == INSTANCE Pager

registryVars == <<maps, phase, turn, configured, gets, served>>
cacheVars == <<memory, recent, redis, ttl, differing>>
logVars ==
  <<now, active, backups, rotation, lastRotate, open, length, at, writing, count,
    dropped, changed, failures>>
genVars == <<disk, job, runs, failed, strayed>>
setVars == <<type, names, sets, value>>
pagerVars ==
  <<pager, bucket, rate, clock, stage, wakeAt, rows, reads, present, resized, pages, since>>

BenchVars == <<subject, vars, registryVars, cacheVars, logVars, genVars, setVars, pagerVars>>

BenchInit ==
  /\ subject \in {"lifecycle", "registry", "cache", "log", "generator", "sets", "pager"}
  /\ Init /\ Registry!Init /\ Store!Init /\ Log!Init /\ Generator!Init /\ Set!Init
  /\ Reader!Init
  /\ subject # "log" => rotation.interval = "month"

\* The steps of each subject.
OfLifecycle(A) ==
  /\ subject = "lifecycle" /\ Running /\ A
  /\ UNCHANGED <<subject, registryVars, cacheVars, logVars, genVars, setVars, pagerVars>>

OfRegistry(A) ==
  /\ subject = "registry" /\ A
  /\ UNCHANGED <<subject, vars, cacheVars, logVars, genVars, setVars, pagerVars>>

OfCache(A) ==
  /\ subject = "cache" /\ A
  /\ UNCHANGED <<subject, vars, registryVars, logVars, genVars, setVars, pagerVars>>

OfLog(A) ==
  /\ subject = "log" /\ A
  /\ UNCHANGED <<subject, vars, registryVars, cacheVars, genVars, setVars, pagerVars>>

OfGenerator(A) ==
  /\ subject = "generator" /\ A
  /\ UNCHANGED <<subject, vars, registryVars, cacheVars, logVars, setVars, pagerVars>>

OfSets(A) ==
  /\ subject = "sets" /\ A
  /\ UNCHANGED <<subject, vars, registryVars, cacheVars, logVars, genVars, pagerVars>>

OfPager(A) ==
  /\ subject = "pager" /\ A
  /\ UNCHANGED <<subject, vars, registryVars, cacheVars, logVars, genVars, setVars>>

LifecycleNext ==
  \/ OfLifecycle(newService)
  \/ OfLifecycle(newServicePanics)
  \/ OfLifecycle(start)
  \/ OfLifecycle(RegistryEndpoint)
  \/ OfLifecycle(ListenAndServe)
  \/ OfLifecycle(ServerClosed)
  \/ OfLifecycle(ListenFails)
  \/ OfLifecycle(CloseChannel)
  \/ OfLifecycle(Exit)
  \/ OfLifecycle(Signal)
  \/ OfLifecycle(waitSign)
  \/ OfLifecycle(StopHttp)
  \/ OfLifecycle(StopReturns)
  \/ OfLifecycle(grpcServes)
  \/ OfLifecycle(grpcEnds)
  \/ \E s \in Servers, r \in Requests : OfLifecycle(Arrive(s, r))
  \/ \E s \in Servers, r \in Requests : OfLifecycle(Answer(s, r))

RegistryNext ==
  \/ \E s \in Packages : OfRegistry(Registry!Registry(s))
  \/ OfRegistry(Registry!InitAllService)
  \/ \E s \in Packages : OfRegistry(Registry!ConfigFails(s))
  \/ \E s \in Packages : OfRegistry(Registry!Config(s))
  \/ OfRegistry(Registry!NextKind)
  \/ OfRegistry(Registry!InitDone)
  \/ \E s \in Packages : OfRegistry(Registry!Load(s))

CacheNext ==
  \/ \E h \in Store!Handles, k \in Keys, v \in Values, t \in TTLs :
       OfCache(Store!PutWithTTL(h, k, v, t))
  \/ \E h \in Store!Handles, k \in Keys, v \in Values : OfCache(Store!Put(h, k, v))
  \/ \E k \in Keys : OfCache(Store!Get(k))
  \/ \E k \in Keys : OfCache(Store!Delete(k))
  \/ OfCache(Store!Clear)
  \/ \E h \in Store!Handles, t \in TTLs : OfCache(Store!SetDefaultTTL(h, t))
  \/ OfCache(Store!WithContext)
  \/ OfCache(Store!Elapse)

LogNext ==
  \/ OfLog(Log!WriteRecord)
  \/ OfLog(Log!RotateNow)
  \/ OfLog(Log!CloseRotator)
  \/ OfLog(Log!OpenNew)
  \/ OfLog(Log!RotateByInterval)
  \/ OfLog(Log!Purge)
  \/ OfLog(Log!OpenFile)
  \/ OfLog(Log!WriteData)
  \/ OfLog(Log!Tick)
  \/ OfLog(Log!SystemFault)
  \/ OfLog(Log!StatFails)
  \/ OfLog(Log!Restart)

GeneratorNext ==
  \/ \E a \in BenchAnswers : OfGenerator(Generator!InitProject(Generator!LoadConfigFromCLI(a)))
  \/ \E app \in AppNames, tree \in {"GOPATH", "elsewhere"} :
       OfGenerator(Generator!AddApp(app, tree))
  \/ OfGenerator(Generator!Render)
  \/ OfGenerator(Generator!RenderError)
  \/ \E works \in BOOLEAN : OfGenerator(Generator!SaveFile(works))
  \/ \E works \in BOOLEAN : OfGenerator(Generator!RegisterApi(works))
  \/ \E works \in BOOLEAN : OfGenerator(Generator!RegisterImpl(works))
  \/ OfGenerator(Generator!Kill)

SetsNext ==
  \/ \E t \in Set!Types : OfSets(Set!Choose(t))
  \/ \E to \in Names, items \in SUBSET Members : OfSets(Set!New(to, items))
  \/ \E name \in {"Insert", "Delete"}, to, from \in Names, items \in SUBSET Members :
       OfSets(Set!Change(name, to, from, items))
  \/ \E from \in Names : OfSets(Set!PopAny(from))
  \/ \E name \in {"Difference", "Union", "Intersection"}, to, a, b \in Names :
       OfSets(Set!Combine(name, to, a, b))

PagerNext ==
  \/ OfPager(Reader!NextTakes)
  \/ OfPager(Reader!NextReturns)
  \/ \E r \in Reader!Rates : OfPager(Reader!SetRate(r))
  \/ OfPager(Reader!Tick)
  \/ OfPager(Reader!Scan)
  \/ OfPager(Reader!ScanFails)
  \/ \E ps \in PageSizes : OfPager(Reader!SetPageSize(ps))
  \/ OfPager(Reader!Insert)

BenchNext ==
  \/ LifecycleNext \/ RegistryNext \/ CacheNext \/ LogNext \/ GeneratorNext \/ SetsNext
  \/ PagerNext

\* The fairness is that of FairSpec.
BenchSpec ==
  /\ BenchInit /\ [][BenchNext]_BenchVars
  /\ WF_vars(OfLifecycle(Main))
  /\ WF_vars(OfLifecycle(Waiter))
  /\ \A s \in Servers, r \in Requests : WF_vars(OfLifecycle(Answer(s, r)))

-----------------------------------------------------------------------------
(* The properties of the instances, as they are stated there *)

\* ServiceRegistry: what a Config gets of an earlier kind, and all that a
\* request reaches, is configured.
GetsConfigured == Registry!GetsConfigured

\* Cache: both back ends find the same, but for what is excepted.
BackendsAgree == Store!BackendsAgree

\* IntervalRotator: records are lost only to as many younger backups as are
\* to be kept.
NewestKept == Log!NewestKept

\* ProjectGenerator: no template fails for want of a section.
SectionsReady == Generator!SectionsReady

\* ProjectGenerator: what `add` registers was generated as a whole.
RegisteredIsWhole == Generator!RegisteredIsWhole

\* Sets: every name's set is what its owner may expect.
SetsAreTheirOwn == Set!SetsAreTheirOwn

\* Pager: no row is read twice or left out.
EachRowOnce == Reader!EachRowOnce

\* Pager: a change of the rate gives nothing beyond the new rate.
Paced == Reader!Paced
=============================================================================
