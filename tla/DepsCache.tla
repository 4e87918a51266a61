------------------------------ MODULE DepsCache ------------------------------
(***************************************************************************)
(* How a request gets its tenant's dependencies: get_graph_deps            *)
(* (api/deps.py) over a BoundedTTLCache (tenancy.py) whose entries own a   *)
(* pooled connection (db.py), while a worker process writes the model      *)
(* files the entries are built from (jobs.py, storage.py).                 *)
(*                                                                         *)
(* The cache's own lock makes get and put one step each, on_evict          *)
(* included.  The entry a request builds, and the connection it checks out *)
(* for it, are named after the request: it builds at most one.             *)
(***************************************************************************)
EXTENDS Integers, Sequences, FiniteSets, SequencesExt

CONSTANTS
    Requests, Tenants, None,
    MaxSize,      \* DEPS_CACHE's maxsize, 8
    TTL,          \* its ttl_seconds, 900
    PoolSize,     \* connections the engine's pool hands out, 15
    MaxTime,      \* bound: clock
    MaxTrainings  \* bound: training jobs started

ASSUME DepsCacheAssumption ==
    /\ IsFiniteSet(Requests)
    /\ None \notin Requests \cup Tenants
    /\ MaxSize \in Nat \ {0} /\ TTL \in Nat /\ PoolSize \in Nat
    /\ MaxTime \in Nat /\ MaxTrainings \in Nat

VARIABLES
    pc,        \* where each request is
    tenant,    \* whose request it is
    got,       \* the entry it was given
    buildLock, \* the holder of _BUILD_LOCK
    cache,     \* DEPS_CACHE._data, least recently used first
    open,      \* the connections of entries that are not closed
    disk,      \* per tenant and file: missing, torn or saved
    training,  \* the file the tenant's training job is at
    trainings, \* jobs started
    now        \* time.monotonic()

request == <<pc, tenant, got>>
worker == <<disk, training, trainings>>
vars == <<request, buildLock, cache, open, worker, now>>

-----------------------------------------------------------------------------

Locations == {"idle", "resolve", "get", "wait", "recheck", "risk", "uplift",
              "connect", "put", "use", "done", "failed", "not_ready"}
Ended == {"done", "failed", "not_ready"}
InLock == {"recheck", "risk", "uplift", "connect", "put"}
Files == {"risk", "uplift"}
FileStates == {"missing", "torn", "saved"}
Entry == [tenant : Tenants, deps : Requests, at : Nat]

TypeOK ==
    /\ pc \in [Requests -> Locations]
    /\ tenant \in [Requests -> Tenants \cup {None}]
    /\ got \in [Requests -> Requests \cup {None}]
    /\ buildLock \in Requests \cup {None}
    /\ cache \in Seq(Entry) /\ Len(cache) <= MaxSize /\ open \subseteq Requests
    /\ disk \in [Tenants -> [Files -> FileStates]]
    /\ training \in [Tenants -> Files \cup {"no", "between"}]
    /\ trainings \in Nat /\ now \in Nat

At(r, loc) == pc[r] = loc
Goto(r, loc) == pc' = [pc EXCEPT ![r] = loc]

Entries == {cache[i] : i \in DOMAIN cache}
Cached(t) == \E e \in Entries : e.tenant = t
PlaceOf(t) == CHOOSE i \in DOMAIN cache : cache[i].tenant = t
EntryOf(t) == cache[PlaceOf(t)]
Without(t) == IF Cached(t) THEN RemoveAt(cache, PlaceOf(t)) ELSE cache
Expired(e) == now - e.at > TTL

\* Checked out of the pool: the entries' connections and those of ensure_org.
InUse == Cardinality(open) + Cardinality({r \in Requests : pc[r] = "resolve"})
PoolIsFree == InUse < PoolSize

-----------------------------------------------------------------------------
(* A request *)

\* current_tenant: ensure_org on a connection of its own, given back at once.
Arrive(r) ==
    /\ At(r, "idle")
    /\ \E t \in Tenants : tenant' = [tenant EXCEPT ![r] = t]
    /\ Goto(r, IF PoolIsFree THEN "resolve" ELSE "failed")
    /\ UNCHANGED <<got, buildLock, cache, open, worker, now>>

Resolve(r) ==
    /\ At(r, "resolve")
    /\ Goto(r, "get")
    /\ UNCHANGED <<tenant, got, buildLock, cache, open, worker, now>>

\* BoundedTTLCache.get: a hit, an expired entry or a miss.
Hit(r) ==
    LET e == EntryOf(tenant[r])
    IN /\ Cached(tenant[r]) /\ ~Expired(e)
       /\ cache' = Append(Without(tenant[r]), e)
       /\ got' = [got EXCEPT ![r] = e.deps]
       /\ UNCHANGED open

MissLeaks(r) ==               \* variant: expiry drops the entry unclosed
    \/ /\ Cached(tenant[r]) /\ Expired(EntryOf(tenant[r]))
       /\ cache' = Without(tenant[r])
       /\ UNCHANGED <<got, open>>
    \/ /\ ~Cached(tenant[r])
       /\ UNCHANGED <<got, cache, open>>

Miss(r) ==
    \/ /\ Cached(tenant[r]) /\ Expired(EntryOf(tenant[r]))
       /\ cache' = Without(tenant[r])
       /\ open' = open \ {EntryOf(tenant[r]).deps}
       /\ UNCHANGED got
    \/ /\ ~Cached(tenant[r])
       /\ UNCHANGED <<got, cache, open>>

Get(r) ==
    /\ At(r, "get")
    /\ \/ Hit(r) /\ Goto(r, "use")
       \/ Miss(r) /\ Goto(r, "wait")
    /\ UNCHANGED <<tenant, buildLock, worker, now>>

Acquire(r) ==
    /\ At(r, "wait") /\ buildLock = None
    /\ buildLock' = r
    /\ Goto(r, "recheck")
    /\ UNCHANGED <<tenant, got, cache, open, worker, now>>

RecheckNothing(r) ==          \* variant: no second look under the lock
    /\ At(r, "recheck")
    /\ Goto(r, "risk")
    /\ UNCHANGED <<tenant, got, cache, open, buildLock, worker, now>>

\* "another thread may have won the race"
Recheck(r) ==
    /\ At(r, "recheck")
    /\ \/ Hit(r) /\ Goto(r, "use") /\ buildLock' = None
       \/ Miss(r) /\ Goto(r, "risk") /\ UNCHANGED buildLock
    /\ UNCHANGED <<tenant, worker, now>>

LeaveLocked(r, loc) ==        \* variant: an exception skips the release
    Goto(r, loc) /\ UNCHANGED buildLock

\* Out of the with block by an exception.
LeaveLock(r, loc) == Goto(r, loc) /\ buildLock' = None

\* RiskModel.load, then UpliftModel.load: a missing file is ModelsNotReady,
\* half a file another exception.
Load(r, file, next) ==
    LET found == disk[tenant[r]][file]
    IN /\ At(r, file)
       /\ \/ found = "saved" /\ Goto(r, next) /\ UNCHANGED buildLock
          \/ found = "missing" /\ LeaveLock(r, "not_ready")
          \/ found = "torn" /\ LeaveLock(r, "failed")
       /\ UNCHANGED <<tenant, got, cache, open, worker, now>>

\* get_conn, or the pool's timeout; then bandit.load, which may raise: the
\* connection is no longer referenced and goes back to the pool.
Connect(r) ==
    /\ At(r, "connect")
    /\ \/ /\ PoolIsFree
          /\ open' = open \cup {r}
          /\ Goto(r, "put") /\ UNCHANGED buildLock
       \/ LeaveLock(r, "failed") /\ UNCHANGED open
    /\ UNCHANGED <<tenant, got, cache, worker, now>>

SurplusBefore(n) ==           \* variant: room is made before the new entry is in
    IF n - 1 > MaxSize THEN n - 1 - MaxSize ELSE 0

\* How many of n entries are evicted.
Surplus(n) == IF n > MaxSize THEN n - MaxSize ELSE 0

\* BoundedTTLCache.put: closes what it overwrites and what no longer fits.
Put(r) ==
    LET t == tenant[r]
        all == Append(Without(t), [tenant |-> t, deps |-> r, at |-> now])
        surplus == Surplus(Len(all))
        replaced == {e.deps : e \in {x \in Entries : x.tenant = t}}
        evicted == {all[i].deps : i \in 1..surplus}
    IN /\ At(r, "put")
       /\ cache' = SubSeq(all, surplus + 1, Len(all))
       /\ open' = open \ (replaced \cup evicted)
       /\ got' = [got EXCEPT ![r] = r]
       /\ Goto(r, "use") /\ buildLock' = None
       /\ UNCHANGED <<tenant, worker, now>>

\* The request works on the entry's connection; a chat session keeps the entry
\* for as long as it likes.  A closed connection raises ResourceClosedError.
Use(r) ==
    /\ At(r, "use")
    /\ Goto(r, IF got[r] \in open THEN "done" ELSE "failed")
    /\ UNCHANGED <<tenant, got, buildLock, cache, open, worker, now>>

-----------------------------------------------------------------------------
(* The worker, one training per tenant at a time (what happens when a       *)
(* stalled worker comes back is Provisioning's subject): joblib.dump        *)
(* straight onto the file; a worker that is killed leaves half of it.      *)

SetFile(t, file, state) == disk' = [disk EXCEPT ![t][file] = state]

TrainStarts(t) ==
    /\ training[t] = "no" /\ trainings < MaxTrainings
    /\ trainings' = trainings + 1
    /\ training' = [training EXCEPT ![t] = "risk"]
    /\ SetFile(t, "risk", "torn")

TrainSaves(t, file, next) ==
    /\ training[t] = file
    /\ training' = [training EXCEPT ![t] = next]
    /\ SetFile(t, file, "saved")
    /\ UNCHANGED trainings

TrainGoesOn(t) ==
    /\ training[t] = "between"
    /\ training' = [training EXCEPT ![t] = "uplift"]
    /\ SetFile(t, "uplift", "torn")
    /\ UNCHANGED trainings

WorkerDies(t) ==
    /\ training[t] # "no"
    /\ training' = [training EXCEPT ![t] = "no"]
    /\ UNCHANGED <<disk, trainings>>

Worker(t) ==
    /\ \/ TrainStarts(t) \/ TrainSaves(t, "risk", "between") \/ TrainGoesOn(t)
       \/ TrainSaves(t, "uplift", "no") \/ WorkerDies(t)
    /\ UNCHANGED <<request, buildLock, cache, open, now>>

Tick ==
    /\ now < MaxTime
    /\ now' = now + 1
    /\ UNCHANGED <<request, buildLock, cache, open, worker>>

-----------------------------------------------------------------------------

Init ==
    /\ pc = [r \in Requests |-> "idle"]
    /\ tenant = [r \in Requests |-> None] /\ got = [r \in Requests |-> None]
    /\ buildLock = None /\ cache = <<>> /\ open = {}
    /\ \E trained \in SUBSET Tenants :
          disk = [t \in Tenants |-> [f \in Files |->
                     IF t \in trained THEN "saved" ELSE "missing"]]
    /\ training = [t \in Tenants |-> "no"] /\ trainings = 0
    /\ now = 0

Step(r) ==
    \/ Resolve(r) \/ Get(r) \/ Acquire(r) \/ Recheck(r)
    \/ Load(r, "risk", "uplift") \/ Load(r, "uplift", "connect")
    \/ Connect(r) \/ Put(r) \/ Use(r)

Next ==
    \/ \E r \in Requests : Arrive(r) \/ Step(r)
    \/ \E t \in Tenants : Worker(t)
    \/ Tick

Spec == Init /\ [][Next]_vars

\* Threads go on; the pool's wait has a timeout.
FairSpec == Spec /\ \A r \in Requests : WF_vars(Step(r))

-----------------------------------------------------------------------------
(* Safety *)

\* deps.py:31: no eviction leaks a connection.  Open are exactly those of the
\* cached entries and of the one entry under construction, so the cache never
\* takes more than MaxSize + 1 connections out of the pool, and a tenant has
\* one entry.
ConnectionsAccounted ==
    /\ open = {e.deps : e \in Entries} \cup {r \in Requests : pc[r] = "put"}
    /\ Cardinality(open) <= MaxSize + 1
    /\ \A i, j \in DOMAIN cache : cache[i].tenant = cache[j].tenant => i = j

\* deps.py:43: the build lock is held by the one request that builds, whatever
\* way builds end.
OneBuilder ==
    \A r \in Requests : pc[r] \in InLock <=> buildLock = r

\* deps.py:43: two cold misses of one tenant do not close each other's
\* connection: an entry's connection is closed only when the entry is too old
\* or the cache is full and the entry was the one longest not asked for.
ClosedByAgeOrCapacity ==
    [][\A e \in Entries : e.deps \in open \ open' =>
           \/ Expired(e)
           \/ Len(cache) = MaxSize /\ e = Head(cache) /\ ~Cached(e.tenant)']_vars

-----------------------------------------------------------------------------
(* Liveness, under FairSpec. *)

\* Every request comes to an end: no build, failed build or eviction leaves
\* the others waiting for the build lock.
RequestEnds ==
    \A r \in Requests : pc[r] = "resolve" ~> pc[r] \in Ended
=============================================================================
