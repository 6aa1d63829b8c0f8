-------------------------------- MODULE Cache --------------------------------
(***************************************************************************)
(* cache/memory and cache/redis behind cache.ICache: the same calls made   *)
(* to the one and to the other, by the holder of the cache and by the      *)
(* holder of what its WithContext returned.                                *)
(*                                                                         *)
(* Entries count the time left to them.  The store of cache/memory is      *)
(* gcache's LRU, which gives up its least recently used entry, expired or  *)
(* not, for a new one; that of cache/redis is a Redis server.              *)
(***************************************************************************)
EXTENDS Integers, SequencesExt

CONSTANTS
  Keys,
  Values,
  TTLs,        \* times to live that callers ask for, of any sign
  DefaultTTL,  \* conf.GetTTL() and conf.DefaultTTL, one of them
  Size         \* conf.Size of cache/memory, at least 1

VARIABLES
  memory,   \* memory[k]: the set of gcache's entries of k, at most one
  recent,   \* its keys, the most recently used first
  redis,    \* redis[k]: the server's entries of k, at most one
  ttl,      \* ttl[h]: c.ttl, or c._ttl, of the handle h
  differing \* history: keys last written as the back ends do not agree on

cacheVars == <<memory, recent, redis, ttl, differing>>

Handles == {"cache", "withContext"}

Forever == -1

Live(entries) == {e \in entries : e.left # 0}

Init ==
  /\ memory = [k \in Keys |-> {}] /\ recent = <<>>
  /\ redis  = [k \in Keys |-> {}]
  /\ ttl = [h \in Handles |-> DefaultTTL]
  /\ differing = {}

\* gcache moves the key to the front, and removes the last one if there are
\* too many.
Used(k) == <<k>> \o Remove(recent, k)

Evicted(k) == IF Len(Used(k)) > Size THEN {Last(Used(k))} ELSE {}

\* Seeded fault: memory's Put leaves the time to live to gcache's default.
Lifetime_Builtin(h) == IF DefaultTTL > 0 THEN DefaultTTL ELSE 0

\* What is left to an entry that cache/memory writes: PutWithTTL ignores the
\* time to live it is given, and gcache's SetWithExpire takes one that is not
\* positive as over.
Lifetime(h) == IF ttl[h] > 0 THEN ttl[h] ELSE 0

\* What is left to one that the server is sent: go-redis sends no expiry for
\* a time to live that is not positive.
Expiry(t) == IF t > 0 THEN t ELSE Forever

\* PutWithTTL, in both.
PutWithTTL(h, k, v, t) ==
  /\ memory' = [j \in Keys |-> IF j = k THEN {[value |-> v, left |-> Lifetime(h)]}
                               ELSE IF j \in Evicted(k) THEN {} ELSE memory[j]]
  /\ recent' = SelectSeq(Used(k), LAMBDA j : j \notin Evicted(k))
  /\ redis' = [redis EXCEPT ![k] = {[value |-> v, left |-> Expiry(t)]}]
  /\ differing' = (differing \ {k}) \cup Evicted(k)
                    \cup (IF t = ttl[h] /\ t > 0 THEN {} ELSE {k})
  /\ UNCHANGED ttl

Put(h, k, v) == PutWithTTL(h, k, v, ttl[h])

\* Get makes the entry the most recently used, and gcache removes one that
\* has expired.
Get(k) ==
  /\ memory[k] # {}
  /\ memory' = [memory EXCEPT ![k] = Live(@)]
  /\ recent' = IF Live(memory[k]) = {} THEN Remove(recent, k) ELSE Used(k)
  /\ UNCHANGED <<redis, ttl, differing>>

\* Delete; only memory's fails for a key that is not there.
Delete(k) ==
  /\ memory' = [memory EXCEPT ![k] = {}] /\ recent' = Remove(recent, k)
  /\ redis'  = [redis EXCEPT ![k] = {}]
  /\ differing' = differing \ {k}
  /\ UNCHANGED ttl

\* Clear: Purge and FlushDB.
Clear ==
  /\ memory' = [k \in Keys |-> {}] /\ recent' = <<>>
  /\ redis'  = [k \in Keys |-> {}]
  /\ differing' = {}
  /\ UNCHANGED ttl

SetDefaultTTL(h, t) ==
  /\ ttl' = [ttl EXCEPT ![h] = t]
  /\ UNCHANGED <<memory, recent, redis, differing>>

\* WithContext copies the handle; the copy shares the store, not the default
\* time to live.
WithContext ==
  /\ ttl' = [ttl EXCEPT !["withContext"] = ttl["cache"]]
  /\ UNCHANGED <<memory, recent, redis, differing>>

\* Time passes for the entries.
Elapse ==
  LET Older(entries) == {[e EXCEPT !.left = IF e.left > 0 THEN @ - 1 ELSE @] : e \in entries}
  IN  /\ memory' = [k \in Keys |-> Older(memory[k])]
      /\ redis'  = [k \in Keys |-> Live(Older(redis[k]))]
      /\ UNCHANGED <<recent, ttl, differing>>

Next ==
  \/ \E h \in Handles, k \in Keys, v \in Values, t \in TTLs : PutWithTTL(h, k, v, t)
  \/ \E h \in Handles, k \in Keys, v \in Values : Put(h, k, v)
  \/ \E k \in Keys : Get(k)
  \/ \E k \in Keys : Delete(k)
  \/ Clear
  \/ \E h \in Handles, t \in TTLs : SetDefaultTTL(h, t)
  \/ WithContext
  \/ Elapse

Spec == Init /\ [][Next]_cacheVars

-----------------------------------------------------------------------------
(* Properties *)

\* IsExist and what Get returns, by back end.
Found(entries) == {e.value : e \in Live(entries)}

\* Both back ends find the same under a key, through whichever handle it was
\* put and read and however long the program waits: each keeps its own
\* default time to live and its own convention of what that means.  They
\* part over an entry that memory evicted, over one put with a time to live
\* of its own, which memory ignores (memory.go:46), and over one put with a
\* time that is not positive, which memory gives up at once and Redis
\* never; until the key is next deleted, cleared or put.
BackendsAgree == \A k \in Keys \ differing : Found(memory[k]) = Found(redis[k])
=============================================================================
