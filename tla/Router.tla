------------------------------- MODULE Router -------------------------------
(***************************************************************************)
(* http/router/httprouter while a service registers its routes: the root   *)
(* router, the sub-routers made from it, from each other by With and from  *)
(* each other by ResourceRouter, and the entries that Handle makes and     *)
(* that the handler's decorators (pb/http/entry.ext.go) go on changing.    *)
(*                                                                         *)
(* Middleware, labels and allowed targets are kept in slices that are      *)
(* handed from router to router and from router to entry by assignment, so *)
(* routers and entries share backing arrays (GoSlice).  Registration is    *)
(* sequential; what makes it hard is the order of the calls.               *)
(*                                                                         *)
(* Every middleware, label or target given is a number of its own.         *)
(***************************************************************************)
EXTENDS GoSlice, FiniteSets

CONSTANTS
  Flags,       \* those of Auth, Permission, AuditLog, RequiredNamespace looked at
  Base,        \* the path prefix of SubRouter
  Paths,       \* relative paths, of one segment each
  MaxRouters,  \* bound on the routers made
  MaxEntries,  \* bound on the entries made
  MaxCalls     \* bound on the calls made

ASSUME RouterAssumption ==
  /\ MaxRouters \in Nat \ {0} /\ MaxEntries \in Nat /\ MaxCalls \in Nat

VARIABLES
  arrays,    \* the backing arrays
  routers,   \* the routers, of which the first is the root
  entries,   \* the entries, in the order of entrySet
  calls,     \* number of calls made
  given,     \* number of middlewares, labels and targets given
  panicked   \* a path was registered twice

vars == <<arrays, routers, entries, calls, given, panicked>>

Root == 1
RouterIds == 1 .. Len(routers)
EntryIds == 1 .. Len(entries)

NoFlags == [f \in Flags |-> FALSE]

NewRoot ==
  [ basePath |-> <<>>, resourceBasePath |-> <<>>, flags |-> NoFlags,
    middlewareChain |-> Nil, labels |-> Nil, allow |-> Nil ]

Init ==
  /\ arrays = <<>>
  /\ routers = <<NewRoot>>
  /\ entries = <<>>
  /\ calls = 0
  /\ given = 0
  /\ panicked = FALSE

\* A call that gives n middlewares, labels or targets.
Called(n) ==
  /\ ~ panicked
  /\ calls < MaxCalls
  /\ calls' = calls + 1
  /\ given' = given + n

\* The next n of them.
Fresh(n) == [k \in 1 .. n |-> given + k]

-----------------------------------------------------------------------------
(* Calls of a router *)

\* Appends n elements to a slice of a router.
Give(r, field, n) ==
  /\ routers' = [routers EXCEPT ![r][field] = Appended(arrays, @, Fresh(n))]
  /\ arrays' = ArraysAfter(arrays, routers[r][field], Fresh(n))
  /\ UNCHANGED <<entries, panicked>>

\* Use; the root router's also merges its chain around all routes anew.
Use(r) == Called(1) /\ Give(r, "middlewareChain", 1)

\* Allow, one target after the other.
Allow(r) == Called(1) /\ Give(r, "allow", 1)

SetLabel(r, n) == Called(n) /\ Give(r, "labels", n)

\* Auth, Permission, AuditLog and RequiredNamespace.
Enable(r, f, isEnable) ==
  /\ Called(0)
  /\ routers' = [routers EXCEPT ![r].flags[f] = isEnable]
  /\ UNCHANGED <<arrays, entries, panicked>>

\* A new router.
Derive(sr) ==
  /\ Len(routers) < MaxRouters
  /\ routers' = Append(routers, sr)
  /\ UNCHANGED <<entries, panicked>>

\* Seeded fault: the sub-router starts with the chain of the root.
newSubRouter_Chained ==
  /\ Called(0)
  /\ Derive([NewRoot EXCEPT !.basePath = <<Base>>, !.flags = routers[Root].flags,
               !.middlewareChain = Share(arrays, routers[Root].middlewareChain)])
  /\ arrays' = arrays

\* SubRouter, of the root.
newSubRouter ==
  /\ Called(0)
  /\ Derive([NewRoot EXCEPT !.basePath = <<Base>>, !.flags = routers[Root].flags])
  /\ arrays' = arrays

\* Seeded fault: the new middlewares come first, in place.
With_InPlace(r, n) ==
  /\ Called(n) /\ r # Root
  /\ LET first == [routers[r].middlewareChain EXCEPT !.len = 0, !.inherited = <<>>, !.own = <<>>]
     IN  /\ Derive([NewRoot EXCEPT !.basePath = routers[r].basePath,
                      !.middlewareChain = Appended(arrays, first, Fresh(n))])
         /\ arrays' = ArraysAfter(arrays, first, Fresh(n))

\* With takes over the path and the chain, and nothing else.
With(r, n) ==
  /\ Called(n) /\ r # Root
  /\ LET chain == Share(arrays, routers[r].middlewareChain)
     IN  /\ Derive([NewRoot EXCEPT !.basePath = routers[r].basePath,
                      !.middlewareChain = Appended(arrays, chain, Fresh(n))])
         /\ arrays' = ArraysAfter(arrays, chain, Fresh(n))

\* ResourceRouter takes over everything but the chain.
ResourceRouter(r, n) ==
  /\ Called(n) /\ r # Root
  /\ LET labels == Share(arrays, routers[r].labels)
     IN  /\ Derive([ basePath |-> routers[r].basePath,
                     resourceBasePath |-> routers[r].basePath,
                     flags |-> routers[r].flags,
                     middlewareChain |-> Nil,
                     labels |-> Appended(arrays, labels, Fresh(n)),
                     allow |-> Share(arrays, routers[r].allow) ])
         /\ arrays' = ArraysAfter(arrays, labels, Fresh(n))

\* BasePath, which only the interface of ResourceRouter has.
BasePath(r, path) ==
  /\ Called(0) /\ routers[r].resourceBasePath # <<>>
  /\ routers' = [routers EXCEPT ![r].basePath = Append(routers[r].resourceBasePath, path)]
  /\ UNCHANGED <<arrays, entries, panicked>>

\* calculateAbsolutePath.
AbsolutePath(r, relative) == routers[r].basePath \o relative

\* The labels of a new entry: those of its router, then those of the root,
\* a later one taking the place of an earlier one with its key.
LabelsOf(r) ==
  Elements(arrays, routers[r].labels)
    \o IF r = Root THEN <<>> ELSE Elements(arrays, routers[Root].labels)

\* The entry that Handle makes.
NewEntry(r, relative) ==
  [ path   |-> AbsolutePath(r, relative),
    flags  |-> routers[r].flags,
    allow  |-> Share(arrays, routers[r].allow),
    labels |-> LabelsOf(r),
    chain  |-> IF r = Root THEN <<>> ELSE Elements(arrays, routers[r].middlewareChain) ]

Registered(path) == \E e \in EntryIds : entries[e].path = path

\* Handle; a second handler for a path panics in the router below.
Handle(r, relative) ==
  /\ Called(0) /\ Len(entries) < MaxEntries
  /\ IF Registered(AbsolutePath(r, relative))
     THEN panicked' = TRUE /\ entries' = entries
     ELSE entries' = Append(entries, NewEntry(r, relative)) /\ panicked' = panicked
  /\ UNCHANGED <<arrays, routers>>

-----------------------------------------------------------------------------
(* Calls of the decorator that Handle returns *)

\* SetAllow, one target after the other.
SetAllow(e) ==
  /\ Called(1)
  /\ entries' = [entries EXCEPT ![e].allow = Appended(arrays, @, Fresh(1))]
  /\ arrays' = ArraysAfter(arrays, entries[e].allow, Fresh(1))
  /\ UNCHANGED <<routers, panicked>>

AddLabel(e) ==
  /\ Called(1)
  /\ entries' = [entries EXCEPT ![e].labels = @ \o Fresh(1)]
  /\ UNCHANGED <<arrays, routers, panicked>>

\* EnableAuth, DisableAuth and the others.
Decorate(e, f, isEnable) ==
  /\ Called(0)
  /\ entries' = [entries EXCEPT ![e].flags[f] = isEnable]
  /\ UNCHANGED <<arrays, routers, panicked>>

\* Setting a flag to what it is changes nothing and is left out.
Next ==
  \/ \E r \in RouterIds : Use(r)
  \/ \E r \in RouterIds : Allow(r)
  \/ \E r \in RouterIds, n \in 1 .. 2 : SetLabel(r, n)
  \/ \E r \in RouterIds, f \in Flags : Enable(r, f, ~ routers[r].flags[f])
  \/ newSubRouter
  \/ \E r \in RouterIds, n \in 1 .. 2 : With(r, n)
  \/ \E r \in RouterIds, n \in 0 .. 2 : ResourceRouter(r, n)
  \/ \E r \in RouterIds, path \in Paths : BasePath(r, path)
  \/ \E r \in RouterIds, path \in Paths : Handle(r, <<path>>)
  \/ \E e \in EntryIds : SetAllow(e)
  \/ \E e \in EntryIds : AddLabel(e)
  \/ \E e \in EntryIds, f \in Flags : Decorate(e, f, ~ entries[e].flags[f])

Spec == Init /\ [][Next]_vars

-----------------------------------------------------------------------------
(* Properties *)

\* The slices, by who owns them.
Owners ==
  ({"router"} \X RouterIds \X {"middlewareChain", "labels", "allow"})
    \cup ({"entry"} \X EntryIds \X {"allow"})

SliceOf(o) == IF o[1] = "router" THEN routers[o[2]][o[3]] ELSE entries[o[2]].allow

Slices == {SliceOf(o) : o \in Owners}

Exact(s) == Elements(arrays, s) = Given(s)

\* Every request passes the root router's middleware, every entry gets its
\* labels: whatever sub-routers do, they are what the root was given.
RootKept == Exact(routers[Root].middlewareChain) /\ Exact(routers[Root].labels)

\* Up to three elements nobody loses anything, however routers and entries
\* share their arrays: no array that holds fewer has room left.
FirstThreeKept ==
  \A s \in Slices : \A i \in 1 .. 3 :
    i <= s.len => Elements(arrays, s)[i] = Given(s)[i]

\* The chain of every router is what it was given: the middlewares of With
\* act "on one handler on their own" ("独立作用于某一个Handler", router.go:88).
WithOnItsOwn == \A r \in RouterIds : Exact(routers[r].middlewareChain)

=============================================================================
