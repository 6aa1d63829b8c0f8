# A verification project for glacier-toolchain

glacier-toolchain is a Go toolkit for microservices: a project generator and
the libraries the generated services are built on (routing and middleware for
http, flow control, file logging, caches, tracing, small containers). This
directory holds TLA+ modules translated from its source, TLC configurations
that check them on small instances, and proofs that TLAPS checks. The
repository has no tests; the code itself is the reference for every module.
File names below are relative to `src/`.

## 1. Inventory

| component | code | state it keeps | operations | hard behaviour | what makes it correct |
|---|---|---|---|---|---|
| token bucket | `flowcontrol/tokenbucket` | tokens, latest tick, start and last take time, one mutex | Take, TakeMaxDuration, TakeAvailable, Available, Wait, WaitMaxDuration, SetRate, SetCapacity | lazy refill; overdrafts by sleeping callers; a clock reading before the lock; rounded-up division | no token twice, nobody early or out of turn, no wrong refusal |
| flow limit | `http/middleware/flowlimit` | map from client to bucket, count, maximum | GetLimiter, addLimiter, removeExpired, SetMaxSize, Handler | lookup and add in two critical sections; eviction by a timestamp that is not always written | one rate per client, charged to the right one |
| file rotator | `file/rotator.go` | open file, its cached size, the backups on disk | Write, Rotate, Close, Sync | crash or error between the renames; restarts with another configuration; numeric edges of three loops | ordered backups, only the oldest lost, size bounded, recovery |
| interval rotation | `file/interval.rotator.go`, `file/rotator.go` | last rotation, names by date and index, the backups on disk | NewInterval, Write, Rotate, purge | zero start value; purge by a file name pattern; restarts with another interval; crashes | records are lost only to enough younger backups |
| zap logger | `logger/zap` | global logger, core, level, derived loggers | Configure, SetLevel, NewLogger, With, Named, Sync | replaced while in use; a level set on a core that is no longer current | a logger writes what its own configuration says |
| http router | `http/router/httprouter`, `pb/http` | middleware chains, labels, flags, allowed targets, entries | Use, With, SubRouter, ResourceRouter, Handle, decorators | slices that share backing arrays; what a sub-router inherits | a route has exactly what it was given |
| http response | `http/response` | status, size, hooks | WriteHeader, Write, Flush, Before, Failed | a second WriteHeader; recovery after a partial answer | recorded status and size are those sent |
| recovery, access log | `http/middleware/recovery`, `accesslog` | none | Handler | panics before, within and after the answer | a panic is answered |
| cors | `http/middleware/cors` | what New derived from its options | New, the preflight and the actual handler | wildcards, spelling, functions, a preflight and a request that disagree | admitted exactly what `options.go` says of the options |
| service registry | `service` | five maps from name to service | Registry, Load, Get, InitAllService | random map order, duplicates, start order | a `Config` finds configured what the program relies on to come first; what requests reach is configured with all that it got |
| generated service | `cmd/glacier-toolchain/project/templates` | two servers, a signal channel, the process | start, waitSign, Stop | three goroutines and a signal; the drain against the end of main | the process stops when told to and drains first |
| project generator | `cmd/glacier-toolchain` | the tree it writes, the settings file, the imports of `apps/all` | init, add | interrupted dialogs, templates that fail, a tool killed between two files, a second run | what `add` registers was generated as a whole |
| rest client | `client/rest` | shared headers and configuration; what was read of an answer | NewRequest, Header, Do, Into | one header map for all requests; a body read twice or halfway | requests do not see each other's headers; no part of a body passes for all |
| caches | `cache` | entries with a time to live | Put, PutWithTTL, Get, Delete, WithContext | expiry and eviction in two back ends with their own conventions | a program finds the same in both, where their conventions agree |
| nested string map | `utils/smap` | nested maps by reference | Put, Delete, DeepUpdate, Clone, MergeFields | aliasing, keys with dots that are also paths, maps made on the way to a key | what was put is found, an operation that fails changes nothing; a clone is apart |
| sets | `utils/set` | Go maps, by reference | set algebra, Insert, Delete, PopAny | results that are an operand | agree with their definitions and share nothing |
| request binding | `http/build` | none; the object bound to keeps what earlier bindings set | Bind | recursion over types, an error in the middle | what succeeds is whole, what fails leaves no list and no new pointer half set |
| tracing | `trace/thttp` | one tracer per request, one span per hop | TraceRequest, RoundTrip, hooks, Close | redirects, resends, late hooks, bodies closed twice | each hop has a span of its own |
| pager | `pager`, `flowcontrol/tokenbucket` | size and number of the page, whether there is a next one, a bucket | Next, Scan, SetPageSize, SetRate | rows that are added meanwhile, pages that fail, a rate that changes while the bucket is in use | every row once; never faster than the rate that was set last |
| query builder, contexts, grpc recovery, exceptions, crypto, helpers, code generators | rest of the repository | plain data, or none kept between calls | | | not modelled, see section 7 |

How they interact: a generated service (`start.go.tpl`) configures the logger
(which owns file rotators) and the cache, initialises the registered services,
mounts their routes on the router behind the recovery, access log and cors
middleware, and runs the http and grpc servers until a signal. The flow limit
middleware and the pager own token buckets. The recovery middleware and every
handler answer through the response writer.


The behaviours that are hard to test, each at its line, are listed as hazards in
`PROJECT.json`, with the properties that cover them.

## 2. Plan

The order follows what a service of this toolkit depends on most: what limits
its load, what its logs survive, how it stops, what its clients are told.

| step | modules | content | state |
|---|---|---|---|
| 1 | `TokenBucketOps`, `TokenBucket`, `EagerBucket`, `TokenBucketProofs` | the bucket, its abstract specification, the refinement, all safety properties proved | done |
| 2 | `FlowLimit`, `FlowLimitProofs` | the map of buckets behind the middleware, composed of `TokenBucketOps` | done, safety proved |
| 3 | `RotatedLog`, `FileRotator`, `FileRotatorProofs` | rotation by size, system call by system call, with crashes, errors and restarts; what it promises to a reader, the refinement | done, safety and the refinement proved |
| 4 | `ServiceLifecycle`, `ServiceLifecycleProofs` | start, signal, drain and exit of a generated service | done, drain of grpc proved |
| 5 | `HttpResponse`, `HttpResponseProofs` | response writer, recovery, access log | done, safety proved |
| 6 | `GoSlice`, `Router`, `RouterProofs` | registration: `With`, `SubRouter`, `ResourceRouter` and the decorators over Go slices that share backing arrays | done, safety proved |
| 7 | `IntervalRotator` | rotation by interval, with names as (interval, index), the glob of `rotateByInterval`, and `purgeOldIntervalBackups`, with crashes and restarts | done, proved in `ServiceProofs` |
| 8 | `ServiceRegistry`, `Cache`, `ProjectGenerator`, `Sets`, composed with `ServiceLifecycle` in `MCService`; `ServiceProofs` | what a generated program is made from, configures and keeps | done, safety proved |
| 9 | `LoggerCore`, `RestClient`, `RestResponse`, `Cors`, `TraceTransport`, composed with `HttpResponse` in `MCHttp`; `HttpProofs` | what a request passes on its way in and out | done, safety proved |
| 10 | `StringMap`, `FormBinding`, composed with `Router` in `MCToolkit` | the maps programs build on, and how a request's texts become an object | done, checked |
| 11 | `Pager` over `TokenBucketOps`, in `MCService` | pages of rows that are added meanwhile; `SetRate` on a bucket in use | done, proved in `ServiceProofs` |
| 12 | `Request`, composed of `Router` and `HttpResponse` | a request's way through root middleware, authentication, the route's chain, handler and audit | open |
| 13 | `SetCapacity` on a bucket in use, `SqlBuilder` | a data race on one number; a text joined from lists | open, little to be learnt |
| 14 | two rotators on one file | what a second `Configure` leaves behind | open |

Abstract specifications: `EagerBucket`, a bucket without laziness, implemented by
`TokenBucket`; `RotatedLog`, a log that is its segments and loses only the oldest,
implemented by `FileRotator`. Both refinements are checked and proved. Still worth
stating: a router as a set of routes, each with the requirements it was given,
implemented by `Router` over shared slices; a cache as a function from key to
(value, end of life), which both back ends of `Cache` implement outside
`differing`.

Theorems that are left: that a router over shared slices implements one over
values as long as no list has more than three elements (`FirstThreeSafe` is its
core); that the two caches implement one function, likewise. `StringMap` and
`FormBinding` are recursive over trees of data and stay with TLC.

## 3. The modules and the code

Every mapped definition is listed with its lines in `PROJECT.json`. Definitions
marked "seeded fault" are wrong on purpose: each property is shown to fail when
one of them replaces the definition it imitates, and nothing else uses them.

**TokenBucketOps** (`limiter.go`) holds one bucket as a record with the fields
of `Bucket`: `startTime`, `latestTick`, `availableTokens`, `lastTakeTime`.
`Adjust` is `adjustavailableTokens`, with its early return for a full bucket;
`EndTick` the rounded-up division of `take`; `TakeOp` and `TakeAvailableOp` are
`take` and `takeAvailable`. `infinityDuration` is `Forever`. Integers are
unbounded here and int64 in the code: the products at `limiter.go:288` and
`:312` are assumed not to overflow.

**TokenBucket** puts goroutines around it. A call that reads the clock under
`tb.mu` is one step. `Available` reads the clock and then locks, so it is two
(`AvailableReadsClock`, `AvailableAdjusts`), with any steps of others and any
time between them. `Wait` and `WaitMaxDuration` leave a sleeper behind
(`until`), which `Wake` lets go at or after its end. `TakeMaxDuration` and
`Take` are the first halves of these. `granted`, `mark` and `passed` are
history: tokens are numbered as they leave the bucket. `SetRate`,
`SetCapacity`, `Rate` and the readers and writers of `reader.go` are not in
this module.

**EagerBucket** is what a caller may rely on: a level that rises at every tick,
reservations that overdraw it, and a due tick. `TokenBucket` implements it with
`tick <- Tick`, `level <- Level` (the lazy count brought up to date) and
`due` the tick of `until`.

**FlowLimit** (`flowlimit.go`) has a map from key to bucket. A request is three
steps: `GetLimiter` up to `RUnlock`, `addLimiter` under the write lock if the
key was missing, `Serve`, which takes one token with no lock held. A bucket
keeps living after the map has dropped it, because a handler may hold it: the
buckets are a sequence and the map holds indices. What the three modes use as
key is abstracted to `Keys`.

**FileRotator** (`rotator.go`) has the directory as a function from backup
number to file, where 0 is the log itself. `Write`, `Rotate` and `Close` run to
their first system call; `openNew`, `appendToFile`, `shift` (Stat and Remove),
`rename`, `purge`, `openFile` and `write` are the system calls, and `i` the loop
variable. Stat and Remove are one step, because nothing happens in the code
between them that a crash could tell apart. `Fault` makes the next call return
an error, `WriteFault` is a partial write, `StatFault` an error of Stat in
`openNew`, which the code takes for "no file" (`rotator.go:265`), and `Crash`
kills the process and starts it again with any configuration of `Configs`.

**RotatedLog** is what a reader of the log may rely on: segments that have
records, of which the newest grows, the oldest goes as a whole, and the newest may
be lost once it was given up. There are no names, renames, configurations, calls
or crashes in it. `FileRotator` implements it (`ImplementsLog`) with `segments <-
Segments`, the record sets of the files that have any, whatever they are called;
`last <- written` and `given <- truncated`. A rename, an empty file, a crash, a
restart and every failed call but one are stutters: `StatFault` gives the active
file up, and only `openFile` after it truncates. It says more than the invariant
`OnlyOldestLost` (which it implies and which is proved, but no longer run): that
no record changes its file, and no file is cut.

**ServiceLifecycle** (`start.go.tpl`, `http.go.httprouter.tpl`, `grpc.go.tpl`)
has one program counter for each of the three goroutines (`main`, `waiter`,
`server`), the one-place channel of signals `ch`, the servers closed to new
requests, and the state of every request. `net/http` and grpc are external and
modelled from how the templates use them. The gin and go-restful templates have
the same `Start` and `Stop`.

**HttpResponse** (`write.go`, `send.go`, `recovery.go`, `log.go`,
`httprouter.go`) is one request. The methods of the writer are operators from a
record (writer, what net/http has sent, whether a panic is under way) to such a
record; hooks run inside `WriteHeader`, from the last to the first. `callBefore`
says what the loop over the hooks comes to, without recursion; `MCHttp` has the
loop as written (`CallHook`), and TLC evaluates that the two agree for lists of up
to four hooks, before and after the header (`CallBeforeIsTheLoop`). The actions
are the calls a handler can make, its return, its panic, the access log and the
deferred recovery.

**GoSlice** is the part of Go that `Router` depends on: `append` in place while
the backing array has room, into a new array of twice the size when it has none
(`runtime.growslice`; for the lengths reached here the allocator rounds nothing
up). A slice carries what it was made with and what was appended through it, so
that "what its owner was given" can be compared with what it holds.

**Router** (`httprouter.go`, `subrouter.go`, `entry.go`, `pb/http/entry.ext.go`)
is the sequence of registration calls. A router is a record with the fields of
`httpRouter` or `subRouter`; the four switches are a function from `Flags`. The
assignments that share slices are `Share`: in `With`, in `ResourceRouter` (twice)
and in `Handle`, whose entry takes the router's `allow`. The chain of an entry is
a copy, because `combineHandler` wraps the handler at once. Every middleware,
label and target is a new number, so that nothing can be replaced unseen.

**IntervalRotator** (`rotator.go`, `interval.rotator.go`) is the same rotator with
an interval. Backups are records of (unit, interval, index), and `Before` is
the order of their names as strings, which is what `purgeOldIntervalBackups`
sorts by. Two of the seven intervals are kept, day and month, because the name
of a month is a prefix of the names of its days, and the glob of
`rotateByInterval` matches by prefix. System calls, faults and restarts are as in
`FileRotator`; `Restart` may change interval and number of backups.

**LoggerCore** (`core.go`, `logger.go`, `global.go`, `selective.go`) has the cores
that were configured, which of them `_log` points to, and the loggers made from
them. `Configure` is two steps, `Build` (up to the Sync of the core before it)
and `Store`; so is `SetLevel` (`SetLevel`, `SetAtom`), which looks the core up and
then sets its level.

**RestClient** (`client.go`, `request.go`) has header maps by reference, because a
request gets the client's map and net/http gets the request's. `Do` builds the
http.Request; `Send` is when net/http reads the headers. **RestResponse**
(`response.go`) is what happens to the answer: the body is read once, kept, and
decoded by every `Into`.

**Cors** (`cors.go`, `utils.go`) is `New` and the handlers over names that carry
whether they are spelled normally, and over origin patterns that stand for sets
of origins; the properties compare the headers of the answers with the options
as the comments of `options.go` (`:10-32`) describe them, in operators of their own
(`OriginPermitted`, `MethodPermitted`, `HeadersPermitted`): `New` and its defaults are
not used there. Where comment and code have different defaults, for an empty list
of headers, see section 7. The list that `parseHeaderList` returns is a set here: it
is looked up in and never walked in order.

**TraceTransport** (`client.go`) has the caller's request headers, the tracer and a
span per hop. Hooks come from goroutines of net/http (`Event`), at any time and
to whichever span the tracer holds then.

**FormBinding** (`form.mapping.go`) is `mapping`, `tryToSetValue` and the setters as
functions on values, over types that are trees (pointers, slices, arrays,
embedded and unexported structs, maps). `Unmarshal` is what a JSON text does to a
struct or a map: it goes on after a member that its place cannot take.
`Right` and `NotHalfway` say independently what a binding should leave.

**ServiceRegistry** (`service/*.go`) has the five maps, filled by the packages'
`init`, and `InitAllService`, which runs kind by kind (`Kinds`, `NextKind`) and
within a kind in the random order of Go's maps. What a `Config` asks for is the
constant `Needs`; `gets` remembers what each got and whether it was configured
then.

**Cache** (`cache/memory`, `cache/redis`) makes every call to both back ends and
keeps their entries side by side, with the time each has left. A time to live that
is not positive is over at once in memory (`Lifetime`: gcache's
`SetWithExpire`) and endless in Redis (`Expiry`). gcache and Redis are external.

**ProjectGenerator** (`cmd`, `project`, and the templates it walks) has the tree on
disk and one run of the tool at a time. `LoadConfigFromCLI` is a function of the
answers and of how far each dialog was gone through; `Render`, `SaveFile` and the
two registrations in `apps/all` are steps, and `Kill` ends the tool between any two,
or with a file opened and not written. A file of `apps/all` is what it imports: what
the template put there, and what `registryAdd` wrote, which names the application
but is no Go (section 7), and which panics on an empty file.

**StringMap** (`utils/smap`) has a heap of maps; the methods are functions from a
heap to a heap and an error. **Sets** (`utils/set`) has names and what they refer
to; the five files of the package are one definition where they are alike and a
`type` where they are not.

**Pager** (`pager/pager.go`) is the loop its interface is documented with. `Next` is
two steps, because `Wait` takes its token (`NextTakes`, which is
`TokenBucketOps!TakeOp` of a bucket of capacity 1) and then sleeps
(`NextReturns`); rows may be added at any time behind the others, and between the
calls of the loop the rate and the page size may change. `Scan` is the
interface's, and no implementation of it is in the repository: it reads the rows
from `Offset` on, as many as `PageSize`, into a set of its own, and calls
`CheckHasNext`; `ScanFails` reads none. `TokenBucketOps` is instantiated with the
variable `rate` for quantum and interval, so that `SetRate` is what it is in the
code: a new quantum and a new interval over the old tokens and the old
`latestTick`. Which quantum and interval the search of `SetRate` ends with is any
of the constants, and a search that fails leaves some of them as well.

**The benches.** `MCHttp`, `MCService` and `MCToolkit` each hold several components
side by side. The variable `subject` chooses at the start which of them moves in
a behaviour, and the others rest in their initial states; the state space is the
sum of the small instances and not their product. The parts of a bench share no
state in the code either: what one hands another is a constant of the model
(`BenchPackages`, `FormTypes`, `CorsOptions`), and every action appears under the
name it has in its module.

## 4. The runs

| run | what it asks | bounds, and why they are enough |
|---|---|---|
| `bucket` | all properties of `TokenBucket`, and that it implements `EagerBucket` | two callers; capacity 3, quantum 2, interval 2, so that no division is exact and a tick is not a unit of time; counts -1, 0, 1 and one above the capacity; clock to 9, which is four ticks, more than it takes to refill. The proofs cover the rest |
| `flow_safety` | keys, counts and rates of `FlowLimit` | two handlers and two keys are enough for a double add of one key and an eviction of another; three buckets: a double add and one more; a maximum of 1 and 3, so that the map is over-full and has room |
| `flow_key_rate` | violation: a key gets more than one bucket gives | found with one key and two handlers that miss together |
| `flow_evicts` | violation: a limiter in use is dropped | found by one handler: it adds a bucket, takes from it while it is full, which sets no time, and then adds another key's with the map at its maximum of one. The time a bucket was made is no access: `usedAt` starts as `Never` |
| `rotator` | `FileRotator` with its faults, and that it recovers | two backups, so that there is a middle one; a limit of 4, so that the purge has room to go on; records of length 1 and 2 in files of 2 and 4; five records, more than two backups hold; two faults, so that one may hit the recovery from the other; restarts that change the size and whether to append |
| `rotator_append` | violation: a file grows beyond its maximum | a restart that appends to a file |
| `lifecycle` | a generated program (`MCService`): the drain of grpc and that a signal stops the process; that a `Config` and a request find what they rely on configured; that the caches agree; that the log loses only what it may; that what `add` registers was generated as a whole; whether sets are right and their owner's; that a pager reads every row once and keeps to its rate | lifecycle: two requests per server, two signals, one to be handled and one to be dropped or to find the channel closed. Registry: six packages, two with one name, needs within a kind and across. Cache: two keys in a cache of one entry, so that there is eviction; times to live of -1, 0, 1 and 2, the default among them. Log: three days in months of two, two or one backup, four records in files of two, two failures. Generator: five ways through the dialogs, each database and each way of interrupting, an application of any name and one of the example's, three runs. Sets: three members and two names, so that operands may be one set, smaller and larger. Pager: three rows, sizes of 0, 1 and 2, four pages; intervals of 1 and 2, one token and two, so that a change multiplies or divides the ticks; four units of time |
| `lifecycle_drain` | violation: http requests are cut without the time-out | one request, one signal |
| `response` | what a request passes (`MCHttp`): size, written flag and answer of every request; whose headers and credentials a client sends; whole answers; who is admitted by cors; whose span a hop has; what a logger writes | response: five calls of a handler, in any order, with up to two bytes each: hooks before and after the header, short writes, panics in each place. Client: two clients, two requests, two values given, two sends: a value given between another's Do and its Send. Answer: three calls of Into. Cors: lists of up to two origins with and without either function, and both functions together; lists of methods and headers (`Origin`, one of the defaults of `New`, one that is neither) with the others at their defaults. Hops: three, so that one is neither first nor last, one late hook, bodies closed twice. Logger: two cores, two loggers, one change of level |
| `response_status` | violation: `Status()` is not what was sent | two calls of WriteHeader, or a panic after a partial answer |
| `router` | the toolkit (`MCToolkit`): whether lists that share arrays keep what they were given; whether clones stand apart and failing operations change nothing; what a form sets | router: three routers (a root, one made from it, one made from that), two entries, six calls: three to fill a list, one to share it, two to append; one flag stands for four that the code treats alike. Map: two maps that callers hold, a key, the key fields are merged under and a path below it, three operations: to share a map, to clone, to change it. Form: seven types with each kind of setter and each kind of nesting, texts that are numbers, too large ones, JSON objects and neither, two bindings |
| `router_with` | violation: a router runs another's middleware | found by three `Use`, one `With` and one more `Use` |

The bounds are constants named in the modules: `MaxTime` and `MaxDay` (clocks),
`MaxBuckets`, `MaxWrites`, `MaxRecords`, `MaxFaults`, `MaxFailures`, `MaxSignals`,
`MaxCalls`, `MaxOps`, `MaxSize`, `MaxRouters`, `MaxEntries`, `MaxRequests`,
`MaxGiven`, `MaxSends`, `MaxInto`, `MaxBinds`, `MaxHops`, `MaxEvents`, `MaxClosed`,
`MaxCores`, `MaxLoggers`, `MaxSets`, `MaxRuns`, `MaxRows`, `MaxClock`, `MaxPages`. Deadlock is checked where the
system does not stop (`bucket`, `rotator`); a service stops, a request ends, the
benches come to their bounds, and in `FlowLimit` the bounded clock and
`MaxBuckets` can leave nothing to do. Symmetry (of `Paths`, in `router`) is used
with invariants only.

What the passing runs show beyond single steps:

- A stale clock reading of `Available` moves `latestTick` and the stored count
  back, and yet nothing a caller can see changes: `Conservation` and
  `ImplementsEager`.
- Overdrafts and refusals agree exactly with what the refills deliver, rounding
  included, and nobody is overtaken: `OverdrawnIffWaiting`, `RefusalExact`,
  `NoOvertaking`.
- The race between lookup and add is bounded by the number of handlers
  (`BucketsPerKey`), and never charges another client (`ChargedToOwnKey`).
- The order of the backups and the rule that only the oldest are lost survive
  crashes and errors at every system call, restarts with another size, and
  `Rotate` and `Close` at any time (`BackupsInOrder`, `ImplementsLog`); one
  undisturbed `Write` recovers from all of it (`RetrySucceeds`).
- A process that ends well has answered its grpc calls, though not its http
  requests.
- The first three elements of any list of middleware, labels or targets are
  safe however it is shared (`FirstThreeKept`), which is why small services and
  small tests never see what `router_with` finds; the root's own chain and labels
  are safe at any length (`RootKept`).
- Recovery answers after a panic anywhere, except when a `Before` function
  panics inside recovery itself.

- Records of an interval rotator are lost only to as many younger backups as are
  to be kept, through crashes, errors and restarts, as long as the interval stays
  the same (`NewestKept`); without that condition TLC finds the loss described in
  section 7.
- A rest client without default headers keeps its requests apart
  (`PrivateWithoutDefaults`); with defaults all of them write to one map, and what
  still holds is that a request which nobody overlapped goes out with its own
  credentials (`OwnCredentials`).
- A failed read never passes for a short answer (`IntoIsWhole`).
- The two handlers of cors agree with each other and with what `options.go` says,
  functions that override lists included (`AdmitsThePermitted`,
  `PreflightPromises`), but for the default of the headers (section 7).
- A form that fails leaves no slice and no new pointer half set
  (`BindsWhatWasAsked`), over any nesting of the types of the instance. An object
  that is there and was to become a JSON text may be half set, in the members that
  the text names and in no others (section 7).
- A logger follows the configuration it was made from, not the one that replaced
  it (`WritesAsConfigured`).
- The order of the kinds in `InitAllService` is enough: internal services and grpc
  services are configured when a `Config` of a later kind gets them, whatever the
  order of imports and of Go's maps, and what is served got nothing that was left
  unconfigured (`GetsConfigured`). Within a kind chance decides, see section 7.
- The caches differ only over a key put with a time to live of its own or with one
  that is not positive, or one that memory evicted (`BackendsAgree`).
- `Clone` is deep (`CloneStands`). `Put` and the tag operations make maps on the way
  to a key before they come to what may fail; they never fail after they made one,
  because a map that was just made holds nothing in the way, and what was put
  without an error is found, be its key a path, a name with dots or both
  (`AllOrNothing`).
- A bucket whose rate is changed while it is in use never gives more than the new
  rate and the one token it holds (`Paced`); it may give less, see section 7. A
  pager reads every row once as long as its pages have one size (`EachRowOnce`).
- `add` registers an application in `apps/all` once, and only when every file that
  it was to make is there to its end, whenever a run fails or is killed
  (`RegisteredIsWhole`), as long as `add` is run below `GOPATH`. That what it writes there does not compile is another
  matter, see section 7. No interrupted dialog leaves a template without its section
  (`SectionsReady`), PostgreSQL excepted.

## 5. Fairness

`FileRotator!FairSpec` has weak fairness of `Step`, the next system call of the
call under way. The call holds `r.mutex` and waits for nothing but the operating
system. Nothing forces a crash, a fault or a new call, and `RetrySucceeds`
speaks of a `Write` under way when the bound on faults is used up.

`ServiceLifecycle!FairSpec` has weak fairness of the main goroutine on the path
where nothing fails, of `waitSign` and what it calls, and of every request's
answer; `MCService!BenchSpec` has the same, for its lifecycle. The first two are the scheduler's; they also assume that the auth
service answers `RegistryEndpoint`, which has no limit of its own. The third is
an assumption about the handlers: `GracefulStop` (`grpc.go.tpl`) waits for grpc
calls without a limit, so a handler that hangs keeps the process alive.
`Shutdown` has a limit of 30 seconds, so `StopReturns` needs no condition. No
fairness is assumed of signals, of new requests or of failures.

The other modules have no liveness property and no fairness.

## 6. The proofs

All proofs are for every value of the constants that the named assumptions
allow, and TLC evaluates the assumptions in every run of the modules. They are
types, and what a constructor refuses:

| assumption | of | says | why the code has it |
|---|---|---|---|
| `BucketAssumption` | `TokenBucketOps` | capacity, quantum and fill interval are positive | the three panics of the constructor |
| `CallersAssumption` | `TokenBucket` | `None` is no caller; bounds are numbers | types |
| `FlowAssumption` | `FlowLimit` | finitely many handlers; a size, an expiry and bounds are numbers | requests under way are goroutines |
| `RotatorAssumption` | `FileRotator` | a positive size, at most `MaxBackupsLimit` backups, records with a length | `rotator.go:142-147`; a Write of no bytes is left out (section 7) |
| `SignalsAssumption` | `ServiceLifecycle` | the bound is a number | type |
| `ResponseAssumption` | `HttpResponse` | statuses are 200 to 599 but 204 and 304, codes are none of 0 to 199, 204 and 304 | `Statuses`: what net/http writes; 1xx and statuses without a body are left out (section 7) |
| `RouterAssumption` | `Router` | bounds are numbers | types |
| `PackagesAssumption` | `MCService` | a service is of one of the five kinds | the five `RegistryXService` |
| `TTLAssumption` | `MCService` | times to live are integers, of any sign | `time.Duration` |
| `DaysAssumption` | `MCService` | a month has a day | the calendar |
| `SetsAssumption` | `MCService` | finitely many names and members | `len` of a Go map is finite |
| `PagerAssumption` | `MCService` | sizes of pages are numbers, intervals and quanta are positive | `limiter.go:252-258`; a negative page size is left out |
| `CallBeforeIsTheLoop` | `MCHttp` | a check for TLC, no proof uses it | see `HttpResponse` in section 3 |

**TokenBucketProofs** proves the six safety properties of `TokenBucket` and the
refinement. Its lemmas come in three layers: integer division (`DivIs`,
`DivUnique`, `TickReached`); the operators of `limiter.go` (what `Adjust` keeps,
when `TakeOp` refuses, what it leaves and how long it makes the caller wait);
and the steps of `TokenBucket`, each reduced to what it does to `Tick` and
`Level`. The inductive invariant is `IInv`. The properties alone are not
inductive: `Conservation` bounds tokens, and `RateBound` a caller's return, and
what links them is that each sleeper's token number is covered by the tick it
sleeps to, that the latest sleeper's tick is exactly where the overdraft ends,
and that the bucket is never above its capacity and its `latestTick` never in
the future. The lemma that carries the rest is `AdjustKeepsLevel`: to adjust
a bucket to any tick, also one in the past, leaves its tokens at every later
tick as they were. The refinement follows from the same reduction: a step that
changes neither tick nor level nor due is a stutter.

**ServiceLifecycleProofs** proves `TypeOK` and `GrpcDrained`. The second is not
inductive: it needs `StopOrder`, which says how far `waitSign` is when the http
server is closed, that no grpc call is under way from then on, and that main
ends well only after that; and `CutAtExit`, that a call is cut by nothing but
the end of the process.

**FlowLimitProofs** proves the four safety properties of `FlowLimit`.
`ChargedToOwnKey` and `CountCoversMap` are inductive with the types:
an eviction is subtracted once for each key it drops, and an add counts whether or
not its key is there. `BucketsPerKey` is not: it needs `AddsCovered`, which counts the
handlers that have missed a key and not added it yet. While the map has none
for the key any handler may still come to miss it; from the moment it has one
only those that did can add another. `BucketRate` needs `GivenCovered`: what a
bucket gave and what it has left is what it began with and its refills.

**FileRotatorProofs** proves `SizeWithinLimit` and `BackupsInOrder` for any
restarts. The inductive invariant `IInv` adds `Reached`, what the call under way
has made sure of at each system call; the essential part is that at `rename` the
slot it renames to is empty, so that no backup is written over. `OnlyOldestLost`
and `RotationPurges` are proved under the hypothesis `SameMaxBackups`, that
restarts keep `maxBackups`: without it both are false of the code. A restart with
fewer leaves backups beyond the first hole, which the purge does not come to,
while younger ones are lost before them; TLC finds it with configurations of
(size, backups) (2, 2), (4, 1) and (3, 4). `RotationPurges` is also proved only
below `MaxBackupsLimit`, where the loop of `rotator.go:359` does not run. With
the hypothesis `Rotated` is inductive: no file above `maxBackups + 1`, and the
slots already moved are empty.

`LogImplemented`, the refinement of `RotatedLog`, is proved under the same
hypothesis, for the same reason. Each step is reduced to what it does to the set
`Segments`: a rename onto an empty slot leaves it as it is (`SegmentsKept`), a
removal takes one segment out of it (`SegmentGone`), a write adds a record to the
segment of file 0 or begins one. That the abstract step is then allowed needs two
facts of the inductive invariant turned into facts about segments: file 0, if it
has records, is the newest (`ActiveIsNewest`), and the file that a rotation
removes, at `maxBackups + 1`, is the oldest (`LastIsOldest`), because the invariant
of `OnlyOldestLost`, `LossInv`, has no file beyond it.

**HttpResponseProofs** proves `SentIsRecorded`, whose two parts are `SizeIsSent` and
`WrittenIfSent`, and `PanicAnswered`,
which with the types are inductive. The work is in the lemmas about the writer:
what `WriteHeader` and `Write` do to a record that satisfies the invariant
satisfies it again, whatever the hooks do and wherever one panics.

**RouterProofs** proves `FirstThreeKept` and `RootKept`. The invariant says of
every list that it fits its array and that its first three elements are those it
was given (`SlicesFit`), and of the root's middleware and labels that nobody else
has their arrays (`RootAlone`). The first is inductive because `append` doubles:
an array of three elements or fewer that is shared has either no room, or room
only behind the third. All calls reduce to two facts, to append through an owner
and to assign one owner's slice to another.

**HttpProofs** proves the seven properties of the other subjects of `MCHttp`.
`AnswerInv`: a body is closed exactly if it was kept as a whole, and it is kept
before it is marked as read. `LogInv`: a logger filters exactly if the
configuration of its core says so, and the configuration of a core never changes.
`HopInv`: the tracer holds the span of the last hop and only that one may be
under way, so what comes late logs to the span of a later hop or to its own.
`RestInv`: the map a request of a client without headers made is in nobody
else's hands and has what that request was given (`OwnMap`), and a request on
its way that nobody disturbed still has its credentials in the map net/http will
read (`HasCredentials`). For cors the invariant, `CorsInv`, only says that what
was answered is what the middleware made of the options answers to the request;
the theorems are then about `New` and the two handlers (`OptionsAre`: what `New` makes
of each list; `HeadersDecision`, `Decisions`), against what `options.go` says, for any
origins, methods and header names.

**ServiceProofs** proves the properties of `MCService` other than those of the
life cycle. `RegistryInv`: the services of the kinds before the one that is being
configured are (`EarlierKinds`), and stay so; what a `Config` got it got from the
maps, which do not change any more, so all of it is configured when the last kind is
done. `CacheInv`: the entries that are still alive are the same in both
back ends, with what is left of their lives, which is stronger than that a
reader finds the same. `IntervalInv`, as long as the interval stays the same:
the names of backups sort as their ages do (`BackupsSorted`) and what the active
file will be named sorts after all of them (`ActiveIsNewest`), whether or not the
process knows when it rotated last; so each backup that a purge removes has
`maxBackups` younger ones, although it begins with the newest of the surplus.
`GeneratorInv` follows the run of `add` under way (`RunUnderWay`):
its application was not there before, every file the walk has come to was written to
its end, and nothing is registered before the walk is through; what was registered is
`Whole`, and no step removes a file or opens one of a registered application.
`AnswersInv`: what `init` renders is what
`LoadConfigFromCLI` made of some answers; `SectionsReady` follows from what the
dialogs make of any number of answered questions. `SetsInv` is the first conjunct of
`SetsAreTheirOwn` with the types; a new set is nobody else's because there are as
many sets as names and fewer other names (`FreshReference`, from the surjection of
the names onto what they mean). `AppNames` is
not restricted.

`PagerInv` has two halves. `PacedInv` bounds the pages since the last `SetRate`, the
one that is being waited for included, together with what the bucket has left
(`Filled`) by one token and the new rate's; neither alone is inductive. It holds
after a `SetRate` whatever `latestTick` has come to mean, because all that the
argument needs of the old count is that it is never above 1, and the operator
`Adjust` sees to that; and a sleep ends when the bucket is out of debt (`NextIs`,
from the rounded-up division of `EndTick`). `RowsInv` says that the rows read are
the first ones, up to the offset of the next page or all that there were; it needs
the cardinality of a page (`PageIs`), and products of size and number.

Only model-checked:

- the two liveness properties, `RetrySucceeds` and `StopsOnSignal`: liveness under
  fairness and ENABLED are out of the prover's reach;
- `CloneStands`, `AllOrNothing` and `BindsWhatWasAsked`: `StringMap` and `FormBinding`
  are recursive over nested maps and types, and what a recursive definition
  computes for every input is induction over data;
- `CallBeforeIsTheLoop`, for up to four hooks.

The type invariants are proved with the others; only that of `TokenBucket` is also
checked by a run. `ServiceLifecycleProofs!TypeCorrect`, `FileRotatorProofs!OldestFirst`
and the conjuncts of the inductive invariants are proved without a run of their
own.

## 7. Not modelled, and observations

Left out for good: cryptography, code generators, generated protobuf code, error
values, log sinks, file helpers, contexts and labels, small helpers, the real ip
and trace middleware, the recovery of grpc (one deferred `recover` around one
call), the hook of `tredis` (one span around one command), the query builder: they
keep no state between calls, are input and output only, or join lists to a text.
Of request binding, the binders that call one decoder of a library each,
multipart files and the validator. Open: the rest of the table in section 2.

Abstracted inside the modelled parts: log lines and stacks; names and
permissions of files; headers of an answer; informational statuses (1xx), of which
net/http sends any number, and 204 and 304, with which it refuses a body; a Write of no bytes, which the rotator treats like
any other; ports and addresses; a torn read of `LastTakeTime` without the lock.

Where code and comments part without a run of their own:

- `limiter.go:303-305` says the tick given to `adjustavailableTokens` must not
  be in the past; `Available` (`:217-225`) may give one that is. It does no harm,
  see `AdjustKeepsLevel`.
- `limiter.go:18`: `lastTakeTime` "holds the last take time", but a take from
  a full bucket does not set it and `Available` does. `flow_evicts` shows the
  consequence.
- `limiter.go:251`: `SetRate` does not convert `latestTick`. From a longer interval
  to a shorter the bucket is simply full. From a shorter to a longer, by a factor
  k, `latestTick` is in the future of the new count, and the next take from a
  bucket that is not full subtracts the difference: a bucket of age A makes its
  next caller sleep for about (k - 1) A. `Paced` says that nobody gets too much;
  that nobody waits too long does not hold.
- `limiter.go:288` and `:312` are int64 products. A bucket with a quantum near the
  2^50 that the search of `SetRate` may come to overflows soon; the models have
  unbounded integers.
- `pager.go:60`: `SetPageSize` after the first page moves the offset, over rows that
  were not read or back over rows that were. A size of 0 never ends. `CheckHasNext`
  looks at the length of the whole set, so a caller that hands Scan the same set
  each time is told of a next page for ever, once the first was full. `NewBasePager` fixes the bucket's
  capacity at 1; the error of `SetRate` is dropped.
- `flowlimit.go:67` and `:112`: `maxSize` starts an eviction and is not a bound.
- `rotator.go:78-79`: with `maxBackups` at `MaxBackupsLimit` the loop of `:359`
  does not run and one backup more is kept. `rotator.go:368`: the purge ends at
  the first missing backup, so after a restart with a lower `maxBackups` files
  beyond a hole stay for ever (`:44-45` says they are purged); `RotationPurges`
  is checked for restarts that keep `maxBackups`.
- `subrouter.go:40-51`: `With` takes over the middleware (`:41`, "inherits the
  existing middleware") but not the flags, targets and labels, so a route made
  through it is not protected by the parent's `Auth(true)`; `:100-113`:
  `ResourceRouter` takes over everything but the middleware. `subrouter.go:64`
  shares the router's targets with its entries, so `SetAllow` on one entry
  (`entry.ext.go:84`) may replace what `SetAllow` gave another, in the way
  `router_with` shows for middleware.
- `rotator.go:443`: `Rotate` with no file at all still moves every backup up.
- `rotator.go:265`: an error of Stat other than "does not exist" leads to
  `openFile`, which truncates, although `:268-269` wants an existing file
  appended to. `OnlyOldestLost` exempts what is lost that way.
- `interval.rotator.go:102`: `lastRotate` starts as the zero time, so the second
  Write after a start rotates whatever the clock says. A backup is named after
  the interval its file was started in, not the one it was closed in.
- Interval names are compared as strings. After a restart from days to months
  the backups of the month sort before those of its days and are numbered after
  them: they may be purged first, or overwritten. Backups numbered by a rotator
  by size sort after all of them and are never purged; files of other programs
  that match the pattern are. The purge removes the newest of the surplus first.
- `cache/memory`: `PutWithTTL` ignores its argument (`memory.go:46`; the entry gets the
  default); a time to live of 0 or less expires at once (`:52`, gcache's
  `SetWithExpire`), while in Redis it never does; `Delete` of a key that is not
  there is an error, in Redis it is none; `ListKey` ignores page and pattern. `cache/redis`: `_prefix` is not used, and `ListKey`
  returns the cursor of the scan as the total.
- `service`: services of one kind are configured in random order, so a `Config`
  may get one of its own kind that is not configured yet; the templates
  (`apps/all/impl.go.tpl:4`, `README.md.tpl:29`) tell their users that the order of the
  imports counts.
- `client/rest`: with no default headers, the first `Do` of a request with a
  bearer token goes out without it, since the map is made after the request was
  built; basic authentication writes to the nil map. `Do` does not look at an
  error the request already has. A read of the body that fails leaves it open.
  Cookies, the flow limiter and the timeout of a request are unused, and
  `SetTimeout` changes `http.DefaultClient`.
- `options.go:31`: the default of `AllowedHeaders` "is [] but "Origin" is always
  appended to the list"; `New` (`cors.go:130-144`) takes Origin, Accept, Content-Type
  and X-Requested-With for an empty list. `AdmitsThePermitted` leaves open what
  becomes of the other three then.
- `cors.go`: `Options.Logger` is never copied; the allowed origin is sent as `*`
  for a list that holds `*`, although a function of the options decides.
- `trace/thttp/client.go`: an event that comes late is logged to the span of a
  later hop or to a finished one; a request that is sent again keeps the id of
  the first time.
- `utils/set/byte.go:109-125`: `Intersection` of `Byte` returns its argument as a
  whole if the receiver is the smaller one; the other four types do not.
- `http/build/form.mapping.go:234`, `:236`: `json.Unmarshal` decodes into the field itself
  and goes on after a member of the wrong type, so a binding that fails may leave a
  struct or a map half set; `BindsWhatWasAsked` allows just that.
- `smap.go:384`: `mapFind` stores the maps it makes before `Put` or `AddTagsWithKey`
  comes to what may fail. The model keeps them.
- `utils/smap`: what `Update`, `DeepUpdate` and `MapStrUnion` take from another map
  they share with it. Nil maps, cycles and the sharing of tag slices are left out
  of the model.
- `cmd/glacier-toolchain`: `etc/config.toml.tpl:33-36` asks the PostgreSQL section
  for fields it has not got, so `init` of such a project ends there, before the
  settings file is written. `add` of an application whose run was killed refuses it
  as a duplicate. `init` registers the example before it generates it.
- `project.go:597`: the import that `add` writes into `apps/all` is a raw string, so
  `\r\n_ "` goes there as it is typed and not as a line break, and the path has
  `p.Name` where the generated files are under `p.PKG`: after an `add` the files of
  `apps/all` do not compile. It slices at the last `)` less one, and panics where there
  is none, which is so of a file that a killed run left empty. `add` looks at neither
  error (`:444-449`). `RegisteredIsWhole` is about what is registered, not about this.
- `SaveFile` (`:480-490`) may be killed with the settings file made and empty; in the
  model the file is there as a whole or not at all.
- `logger/zap/core.go`: the rotator of a replaced core is never closed, and the
  standard library's log, once discarded, stays so. `SetLevel` to debug on a core
  that was not configured for it applies no selectors, and it sets the core it
  looked up, also if that was replaced meanwhile.
