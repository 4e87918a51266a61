--------------------------- MODULE DepsCache_proofs ---------------------------
(***************************************************************************)
(* Proofs about DepsCache, for every set of requests and tenants and every *)
(* size of the cache and of the pool.                                      *)
(***************************************************************************)
EXTENDS DepsCache, TLAPS, FiniteSetTheorems, SequenceTheorems

-----------------------------------------------------------------------------
(* The build lock *)

\* What OneBuilder needs of the types: whoever holds the lock is a request.
LockInv ==
    /\ pc \in [Requests -> Locations]
    /\ buildLock \in Requests \cup {None}
    /\ OneBuilder

\* A move that does not touch the lock neither enters the with block nor leaves
\* it.
LEMMA MoveOnOneSide ==
    ASSUME LockInv, NEW r \in Requests, NEW loc \in Locations, Goto(r, loc),
           UNCHANGED buildLock, pc[r] \in InLock <=> loc \in InLock
    PROVE  LockInv'
BY DEF LockInv, Goto, OneBuilder

\* The way in: nobody held the lock.
LEMMA MoveIn ==
    ASSUME LockInv, NEW r \in Requests, NEW loc \in InLock, Goto(r, loc),
           buildLock = None, buildLock' = r
    PROVE  LockInv'
<1>1. loc \in Locations
  BY DEF InLock, Locations
<1> QED
  BY <1>1, DepsCacheAssumption DEF LockInv, Goto, OneBuilder

\* The ways out, by an exception or not: the lock is nobody's.
LEMMA MoveOut ==
    ASSUME LockInv, NEW r \in Requests, NEW loc \in Locations \ InLock,
           Goto(r, loc), pc[r] \in InLock, buildLock' = None
    PROVE  LockInv'
BY DepsCacheAssumption DEF LockInv, Goto, OneBuilder

LEMMA LockInit == Init => LockInv
BY DepsCacheAssumption DEF Init, LockInv, OneBuilder, Locations, InLock

LEMMA LockNext == LockInv /\ [Next]_vars => LockInv'
<1> SUFFICES ASSUME LockInv, [Next]_vars PROVE LockInv'
  OBVIOUS
<1>1. ASSUME NEW r \in Requests, Arrive(r) PROVE LockInv'
  <2>1. PICK loc \in {"resolve", "failed"} : Goto(r, loc)
    BY <1>1 DEF Arrive
  <2> QED
    BY <1>1, <2>1, MoveOnOneSide DEF Arrive, At, Locations, InLock
<1>2. ASSUME NEW r \in Requests, Step(r) PROVE LockInv'
  <2>1. CASE Resolve(r)
    BY <2>1, MoveOnOneSide DEF Resolve, At, Locations, InLock
  <2>2. CASE Get(r)
    BY <2>2, MoveOnOneSide DEF Get, At, Locations, InLock
  <2>3. CASE Acquire(r)
    BY <2>3, MoveIn DEF Acquire, InLock
  <2>4. CASE Recheck(r)
    <3>1. CASE Goto(r, "use") /\ buildLock' = None
      BY <2>4, <3>1, MoveOut DEF Recheck, At, Locations, InLock
    <3>2. CASE Goto(r, "risk") /\ UNCHANGED buildLock
      BY <2>4, <3>2, MoveOnOneSide DEF Recheck, At, Locations, InLock
    <3> QED BY <2>4, <3>1, <3>2 DEF Recheck
  <2>5. ASSUME NEW file \in Files, NEW next \in {"uplift", "connect"},
               Load(r, file, next)
        PROVE  LockInv'
    <3>1. pc[r] = file /\ file \in InLock /\ next \in InLock \cap Locations
      BY <2>5 DEF Load, At, Files, InLock, Locations
    <3>2. CASE Goto(r, next) /\ UNCHANGED buildLock
      BY <3>1, <3>2, MoveOnOneSide
    <3>3. CASE LeaveLock(r, "not_ready") \/ LeaveLock(r, "failed")
      BY <3>1, <3>3, MoveOut DEF LeaveLock, Locations, InLock
    <3> QED BY <2>5, <3>2, <3>3 DEF Load
  <2>6. CASE Connect(r)
    <3>1. CASE Goto(r, "put") /\ UNCHANGED buildLock
      BY <2>6, <3>1, MoveOnOneSide DEF Connect, At, Locations, InLock
    <3>2. CASE LeaveLock(r, "failed")
      BY <2>6, <3>2, MoveOut DEF Connect, LeaveLock, At, Locations, InLock
    <3> QED BY <2>6, <3>1, <3>2 DEF Connect
  <2>7. CASE Put(r)
    BY <2>7, MoveOut DEF Put, At, Locations, InLock
  <2>8. CASE Use(r)
    <3>1. PICK loc \in {"done", "failed"} : Goto(r, loc)
      BY <2>8 DEF Use
    <3> QED
      BY <2>8, <3>1, MoveOnOneSide DEF Use, At, Locations, InLock
  <2> QED
    BY <1>2, <2>1, <2>2, <2>3, <2>4, <2>5, <2>6, <2>7, <2>8 DEF Step, Files
<1>3. CASE UNCHANGED <<pc, buildLock>>
  BY <1>3 DEF LockInv, OneBuilder
<1> QED
  BY <1>1, <1>2, <1>3 DEF Next, Worker, Tick, vars, request

\* deps.py:43: under every interleaving, number of tenants and failure of a
\* build, the build lock is held by the one request that builds: it is given
\* back on every way out of the with block.
THEOREM OneBuilderAlways == Spec => []OneBuilder
<1>1. LockInv => OneBuilder
  BY DEF LockInv
<1> QED BY <1>1, LockInit, LockNext, PTL DEF Spec
-----------------------------------------------------------------------------
(* Rows of a cache, as a sequence: no two of one tenant or of one connection. *)

RowsOf(s) == {s[i] : i \in DOMAIN s}
Distinct(s) ==
    \A i, j \in DOMAIN s : s[i].tenant = s[j].tenant \/ s[i].deps = s[j].deps => i = j

\* d is s without its row at p.
LEMMA SkipFacts ==
    ASSUME NEW s \in Seq(Entry), Distinct(s), NEW p \in 1..Len(s),
           NEW d \in Seq(Entry), Len(d) = Len(s) - 1,
           \A k \in 1..Len(d) : d[k] = IF k < p THEN s[k] ELSE s[k + 1]
    PROVE  RowsOf(d) = RowsOf(s) \ {s[p]} /\ Distinct(d)
<1> DEFINE from(k) == IF k < p THEN k ELSE k + 1
<1>1. Len(s) \in Nat /\ Len(d) \in Nat /\ DOMAIN s = 1..Len(s) /\ DOMAIN d = 1..Len(d)
  OBVIOUS
<1>2. ASSUME NEW k \in 1..Len(d)
      PROVE  from(k) \in 1..Len(s) /\ from(k) # p /\ d[k] = s[from(k)]
  BY <1>1
<1>3. ASSUME NEW j \in 1..Len(d), NEW k \in 1..Len(d), from(j) = from(k)
      PROVE  j = k
  BY <1>1, <1>3
<1>4. ASSUME NEW i \in 1..Len(s), i # p
      PROVE  \E k \in 1..Len(d) : from(k) = i
  <2>1. CASE i < p
    <3>1. i \in 1..Len(d) /\ from(i) = i
      BY <1>1, <2>1
    <3> QED BY <3>1
  <2>2. CASE i > p
    <3>1. i - 1 \in 1..Len(d) /\ from(i - 1) = i
      BY <1>1, <2>2
    <3> QED BY <3>1
  <2> QED BY <1>1, <1>4, <2>1, <2>2
<1> HIDE DEF from
<1>5. \A i, j \in 1..Len(s) : s[i] = s[j] => i = j
  BY <1>1 DEF Distinct
<1>6. RowsOf(d) \subseteq RowsOf(s) \ {s[p]}
  BY <1>1, <1>2, <1>5 DEF RowsOf
<1>7. RowsOf(s) \ {s[p]} \subseteq RowsOf(d)
  <2> SUFFICES ASSUME NEW i \in 1..Len(s), s[i] # s[p] PROVE s[i] \in RowsOf(d)
    BY <1>1 DEF RowsOf
  <2>1. PICK k \in 1..Len(d) : from(k) = i
    BY <1>4
  <2> QED BY <1>1, <1>2, <2>1 DEF RowsOf
<1>8. Distinct(d)
  BY <1>1, <1>2, <1>3 DEF Distinct
<1> QED BY <1>6, <1>7, <1>8

LEMMA RemoveFacts ==
    ASSUME NEW s \in Seq(Entry), Distinct(s), NEW p \in 1..Len(s)
    PROVE  /\ RemoveAt(s, p) \in Seq(Entry) /\ Len(RemoveAt(s, p)) = Len(s) - 1
           /\ RowsOf(RemoveAt(s, p)) = RowsOf(s) \ {s[p]} /\ Distinct(RemoveAt(s, p))
<1> DEFINE front == SubSeq(s, 1, p - 1)
           back  == SubSeq(s, p + 1, Len(s))
           d == RemoveAt(s, p)
<1>1. Len(s) \in Nat /\ \A i \in 1..Len(s) : s[i] \in Entry
  OBVIOUS
<1>2. /\ front \in Seq(Entry) /\ Len(front) = p - 1
      /\ \A i \in 1..(p - 1) : front[i] = s[i]
  <2>1. \A i \in 1..(p - 1) : s[i] \in Entry
    BY <1>1
  <2>2. 1 \in Int /\ p - 1 \in Int /\ 1 + p - 1 - 1 = p - 1
    OBVIOUS
  <2> QED BY <2>1, <2>2, SubSeqProperties
<1>3. /\ back \in Seq(Entry) /\ Len(back) = Len(s) - p
      /\ \A i \in 1..(Len(s) - p) : back[i] = s[p + i]
  <2>1. \A i \in (p + 1)..Len(s) : s[i] \in Entry
    BY <1>1
  <2>2. p + 1 \in Int /\ Len(s) \in Int
    BY <1>1
  <2> QED BY <1>1, <2>1, <2>2, SubSeqProperties
<1>4. d = front \o back
  BY DEF RemoveAt
<1> HIDE DEF front, back, d
<1>5. /\ d \in Seq(Entry) /\ Len(d) = Len(front) + Len(back)
      /\ \A i \in 1..(Len(front) + Len(back)) :
            d[i] = IF i <= Len(front) THEN front[i] ELSE back[i - Len(front)]
  BY <1>2, <1>3, <1>4, ConcatProperties
<1>6. Len(d) = Len(s) - 1
  BY <1>1, <1>2, <1>3, <1>5
<1>7. ASSUME NEW k \in 1..Len(d)
      PROVE  d[k] = IF k < p THEN s[k] ELSE s[k + 1]
  <2>1. CASE k < p
    BY <1>1, <1>2, <1>3, <1>5, <2>1
  <2>2. CASE ~(k < p)
    <3>1. k - (p - 1) \in 1..(Len(s) - p) /\ p + (k - (p - 1)) = k + 1
      BY <1>1, <1>6, <2>2
    <3> QED BY <1>1, <1>2, <1>3, <1>5, <2>2, <3>1
  <2> QED BY <2>1, <2>2
<1>8. RowsOf(d) = RowsOf(s) \ {s[p]} /\ Distinct(d)
  BY <1>5, <1>6, <1>7, SkipFacts
<1> QED BY <1>5, <1>6, <1>8 DEF d

\* popitem(last=False)
LEMMA DropFirstFacts ==
    ASSUME NEW s \in Seq(Entry), Distinct(s), Len(s) > 0
    PROVE  /\ SubSeq(s, 2, Len(s)) \in Seq(Entry) /\ Len(SubSeq(s, 2, Len(s))) = Len(s) - 1
           /\ RowsOf(SubSeq(s, 2, Len(s))) = RowsOf(s) \ {s[1]}
           /\ Distinct(SubSeq(s, 2, Len(s)))
<1> DEFINE d == SubSeq(s, 2, Len(s))
<1>1. Len(s) \in Nat /\ 1 \in 1..Len(s)
  OBVIOUS
<1>2. /\ d \in Seq(Entry) /\ Len(d) = Len(s) - 1
      /\ \A k \in 1..(Len(s) - 1) : d[k] = s[k + 1]
  <2>1. s # <<>> /\ d = Tail(s)
    BY TailIsSubSeq
  <2> QED BY <1>1, <2>1, HeadTailProperties
<1> HIDE DEF d
<1>3. \A k \in 1..Len(d) : d[k] = IF k < 1 THEN s[k] ELSE s[k + 1]
  BY <1>1, <1>2
<1>4. RowsOf(d) = RowsOf(s) \ {s[1]} /\ Distinct(d)
  BY <1>1, <1>2, <1>3, SkipFacts
<1> QED BY <1>2, <1>4 DEF d

LEMMA AppendFacts ==
    ASSUME NEW s \in Seq(Entry), Distinct(s), NEW e \in Entry,
           \A x \in RowsOf(s) : x.tenant # e.tenant /\ x.deps # e.deps
    PROVE  /\ Append(s, e) \in Seq(Entry) /\ Len(Append(s, e)) = Len(s) + 1
           /\ RowsOf(Append(s, e)) = RowsOf(s) \cup {e} /\ Distinct(Append(s, e))
           /\ \A i \in 1..Len(s) : Append(s, e)[i] = s[i]
<1> DEFINE d == Append(s, e)
<1>1. Len(s) \in Nat /\ DOMAIN s = 1..Len(s)
  OBVIOUS
<1>2. /\ d \in Seq(Entry) /\ Len(d) = Len(s) + 1 /\ DOMAIN d = 1..(Len(s) + 1)
      /\ d[Len(s) + 1] = e /\ \A i \in 1..Len(s) : d[i] = s[i]
  OBVIOUS
<1> HIDE DEF d
<1>3. \A i \in 1..(Len(s) + 1) : i \in 1..Len(s) \/ i = Len(s) + 1
  BY <1>1
<1>4. 1..Len(s) \subseteq 1..(Len(s) + 1) /\ Len(s) + 1 \in 1..(Len(s) + 1)
  BY <1>1
<1>5. RowsOf(d) = RowsOf(s) \cup {e}
  <2>1. RowsOf(d) \subseteq RowsOf(s) \cup {e}
    BY <1>1, <1>2, <1>3 DEF RowsOf
  <2>2. RowsOf(s) \cup {e} \subseteq RowsOf(d)
    BY <1>1, <1>2, <1>4 DEF RowsOf
  <2> QED BY <2>1, <2>2
<1>6. Distinct(d)
  BY <1>1, <1>2, <1>3 DEF Distinct, RowsOf
<1> QED BY <1>2, <1>5, <1>6 DEF d
-----------------------------------------------------------------------------
(* The connections.  An entry's connection is that of a request which has     *)
(* built and left the lock; the tenant that a request builds for has no      *)
(* entry, from its second look on, because nobody else can put one: so Put   *)
(* overwrites nothing.                                                       *)

Building == {"risk", "uplift", "connect", "put"}
Past == {"use", "done", "failed"}
DepsOf(s) == {e.deps : e \in RowsOf(s)}
AtPut == {r \in Requests : pc[r] = "put"}

CacheInv ==
    /\ Distinct(cache)
    /\ Len(cache) <= MaxSize
    /\ open = DepsOf(cache) \cup AtPut
    /\ \A e \in RowsOf(cache) : pc[e.deps] \in Past
    /\ \A r \in Requests : pc[r] \in Building =>
           \A e \in RowsOf(cache) : e.tenant # tenant[r]
    /\ \A r \in Requests : pc[r] # "idle" => tenant[r] \in Tenants

DepsInv == TypeOK /\ LockInv /\ CacheInv

LEMMA RowsTyped ==
    ASSUME TypeOK
    PROVE  /\ \A e \in RowsOf(cache) : e \in Entry /\ e.tenant \in Tenants /\ e.deps \in Requests
           /\ Entries = RowsOf(cache) /\ Len(cache) \in Nat
<1>1. \A i \in DOMAIN cache : cache[i] \in Entry
  BY DEF TypeOK
<1> QED BY <1>1 DEF RowsOf, Entries, Entry, TypeOK

LEMMA PlaceFacts ==
    ASSUME TypeOK, NEW t, Cached(t)
    PROVE  /\ PlaceOf(t) \in 1..Len(cache) /\ EntryOf(t) = cache[PlaceOf(t)]
           /\ EntryOf(t).tenant = t /\ EntryOf(t) \in RowsOf(cache)
<1>1. \E i \in DOMAIN cache : cache[i].tenant = t
  BY DEF Cached, Entries
<1>2. PlaceOf(t) \in DOMAIN cache /\ cache[PlaceOf(t)].tenant = t
  BY <1>1 DEF PlaceOf
<1>3. DOMAIN cache = 1..Len(cache)
  BY DEF TypeOK
<1> QED BY <1>2, <1>3 DEF EntryOf, RowsOf

\* Taking out the entry of a tenant.
LEMMA WithoutFacts ==
    ASSUME TypeOK, CacheInv, NEW t, Cached(t)
    PROVE  /\ Without(t) \in Seq(Entry) /\ Len(Without(t)) = Len(cache) - 1
           /\ RowsOf(Without(t)) = RowsOf(cache) \ {EntryOf(t)} /\ Distinct(Without(t))
           /\ \A e \in RowsOf(Without(t)) :
                 e.tenant # t /\ e.deps # EntryOf(t).deps
<1>1. /\ Without(t) = RemoveAt(cache, PlaceOf(t))
      /\ cache \in Seq(Entry) /\ Distinct(cache)
  BY DEF Without, TypeOK, CacheInv
<1>2. /\ Without(t) \in Seq(Entry) /\ Len(Without(t)) = Len(cache) - 1
      /\ RowsOf(Without(t)) = RowsOf(cache) \ {EntryOf(t)} /\ Distinct(Without(t))
  BY <1>1, PlaceFacts, RemoveFacts
<1>3. ASSUME NEW e \in RowsOf(cache), e.tenant = t \/ e.deps = EntryOf(t).deps
      PROVE  e = EntryOf(t)
  BY <1>1, <1>3, PlaceFacts DEF Distinct, RowsOf
<1> QED BY <1>2, <1>3

LEMMA HitFacts ==
    ASSUME TypeOK, CacheInv, NEW r \in Requests, Hit(r)
    PROVE  /\ cache' \in Seq(Entry) /\ Len(cache') = Len(cache) /\ Distinct(cache')
           /\ RowsOf(cache') = RowsOf(cache) /\ open' = open
           /\ got' \in [Requests -> Requests \cup {None}]
<1> DEFINE t == tenant[r]
           e == EntryOf(t)
<1>1. /\ Cached(t) /\ cache' = Append(Without(t), e) /\ open' = open
      /\ got' = [got EXCEPT ![r] = e.deps]
  BY DEF Hit
<1>2. e \in RowsOf(cache) /\ e \in Entry /\ e.deps \in Requests /\ e.tenant = t
  BY <1>1, PlaceFacts, RowsTyped
<1>3. /\ Without(t) \in Seq(Entry) /\ Len(Without(t)) = Len(cache) - 1
      /\ RowsOf(Without(t)) = RowsOf(cache) \ {e} /\ Distinct(Without(t))
      /\ \A x \in RowsOf(Without(t)) : x.tenant # e.tenant /\ x.deps # e.deps
  BY <1>1, <1>2, WithoutFacts
<1>4. Len(cache) \in Nat
  BY RowsTyped
<1> HIDE DEF e, t
<1>5. /\ cache' \in Seq(Entry) /\ Len(cache') = Len(Without(t)) + 1
      /\ RowsOf(cache') = RowsOf(Without(t)) \cup {e} /\ Distinct(cache')
  BY <1>1, <1>2, <1>3, AppendFacts
<1>6. Len(cache') = Len(cache)
  BY <1>3, <1>4, <1>5
<1>7. RowsOf(cache') = RowsOf(cache)
  BY <1>2, <1>3, <1>5
<1>8. got' \in [Requests -> Requests \cup {None}]
  BY <1>1, <1>2 DEF TypeOK
<1> QED BY <1>1, <1>5, <1>6, <1>7, <1>8

LEMMA MissFacts ==
    ASSUME TypeOK, CacheInv, NEW r \in Requests, Miss(r)
    PROVE  /\ cache' \in Seq(Entry) /\ Len(cache') <= MaxSize /\ Distinct(cache')
           /\ UNCHANGED got
           /\ \/ UNCHANGED <<cache, open>> /\ \A e \in RowsOf(cache) : e.tenant # tenant[r]
              \/ \E e \in RowsOf(cache) :
                    /\ Expired(e) /\ e.tenant = tenant[r]
                    /\ RowsOf(cache') = RowsOf(cache) \ {e} /\ open' = open \ {e.deps}
                    /\ \A x \in RowsOf(cache') : x.tenant # tenant[r] /\ x.deps # e.deps
<1>1. Len(cache) \in Nat /\ MaxSize \in Nat /\ Len(cache) <= MaxSize
  BY RowsTyped, DepsCacheAssumption DEF CacheInv
<1>2. CASE ~Cached(tenant[r])
  BY <1>1, <1>2 DEF Miss, TypeOK, CacheInv, Cached, RowsOf, Entries
<1>3. CASE Cached(tenant[r])
  <2>1. /\ Expired(EntryOf(tenant[r])) /\ cache' = Without(tenant[r])
        /\ open' = open \ {EntryOf(tenant[r]).deps} /\ UNCHANGED got
    BY <1>3 DEF Miss
  <2>2. EntryOf(tenant[r]) \in RowsOf(cache) /\ EntryOf(tenant[r]).tenant = tenant[r]
    BY <1>3, PlaceFacts
  <2>3. /\ cache' \in Seq(Entry) /\ Len(cache') = Len(cache) - 1 /\ Distinct(cache')
        /\ RowsOf(cache') = RowsOf(cache) \ {EntryOf(tenant[r])}
        /\ \A x \in RowsOf(cache') : x.tenant # tenant[r] /\ x.deps # EntryOf(tenant[r]).deps
    BY <1>3, <2>1, WithoutFacts
  <2>4. Len(cache') <= MaxSize
    BY <1>1, <2>3
  <2> QED BY <2>1, <2>2, <2>3, <2>4
<1> QED BY <1>2, <1>3

LEMMA PutFacts ==
    ASSUME DepsInv, NEW r \in Requests, Put(r)
    PROVE  LET new == [tenant |-> tenant[r], deps |-> r, at |-> now]
           IN  /\ cache' \in Seq(Entry) /\ Len(cache') <= MaxSize /\ Distinct(cache')
               /\ new \in Entry
               /\ \/ RowsOf(cache') = RowsOf(cache) \cup {new} /\ open' = open
                  \/ /\ Len(cache) = MaxSize /\ cache[1] \in RowsOf(cache)
                     /\ cache # <<>>
                     /\ RowsOf(cache') = (RowsOf(cache) \ {cache[1]}) \cup {new}
                     /\ open' = open \ {cache[1].deps}
<1> USE DEF DepsInv
<1> DEFINE t == tenant[r]
           new == [tenant |-> t, deps |-> r, at |-> now]
           all == Append(Without(t), new)
           surplus == Surplus(Len(all))
           replaced == {e.deps : e \in {x \in Entries : x.tenant = t}}
           evicted == {all[i].deps : i \in 1..surplus}
<1>1. /\ pc[r] = "put" /\ cache' = SubSeq(all, surplus + 1, Len(all))
      /\ open' = open \ (replaced \cup evicted)
  BY DEF Put, At
<1>2. t \in Tenants /\ new \in Entry
  BY <1>1 DEF CacheInv, Entry, TypeOK
<1>3. \A e \in RowsOf(cache) : e.tenant # t /\ e.deps # r
  BY <1>1 DEF CacheInv, Building, Past
<1>4. Without(t) = cache /\ replaced = {}
  BY <1>3, RowsTyped DEF Without, Cached
<1>5. /\ all \in Seq(Entry) /\ Len(all) = Len(cache) + 1 /\ Distinct(all)
      /\ RowsOf(all) = RowsOf(cache) \cup {new}
      /\ \A i \in 1..Len(cache) : all[i] = cache[i]
  <2>1. cache \in Seq(Entry) /\ Distinct(cache) /\ all = Append(cache, new)
    BY <1>4 DEF TypeOK, CacheInv
  <2>2. \A x \in RowsOf(cache) : x.tenant # new.tenant /\ x.deps # new.deps
    BY <1>3
  <2> HIDE DEF new, all
  <2> QED BY <1>2, <2>1, <2>2, AppendFacts
<1>6. Len(cache) \in Nat /\ MaxSize \in Nat /\ MaxSize >= 1 /\ Len(cache) <= MaxSize
  <2>1. MaxSize \in Nat /\ MaxSize >= 1
    BY DepsCacheAssumption
  <2> QED BY <2>1, RowsTyped DEF CacheInv
<1> HIDE DEF all, replaced
<1>7. CASE Len(cache) < MaxSize
  <2>1. surplus = 0 /\ Len(all) <= MaxSize
    BY <1>5, <1>6, <1>7 DEF Surplus
  <2>2. cache' = all
    BY <1>1, <1>5, <2>1, SubSeqFull
  <2>3. evicted = {}
    BY <2>1
  <2> QED BY <1>1, <1>2, <1>4, <1>5, <2>1, <2>2, <2>3
<1>8. CASE Len(cache) = MaxSize
  <2>1. surplus = 1 /\ Len(all) > 0 /\ 1 \in 1..Len(cache)
    BY <1>5, <1>6, <1>8 DEF Surplus
  <2>2. cache' = SubSeq(all, 2, Len(all))
    BY <1>1, <2>1
  <2>3. /\ cache' \in Seq(Entry) /\ Len(cache') = Len(all) - 1 /\ Distinct(cache')
        /\ RowsOf(cache') = RowsOf(all) \ {all[1]}
    BY <1>5, <2>1, <2>2, DropFirstFacts
  <2>4. evicted = {cache[1].deps}
    <3>1. 1..surplus = {1} /\ all[1] = cache[1]
      BY <1>5, <2>1
    <3> HIDE DEF surplus
    <3> QED BY <3>1
  <2>5. cache[1] \in RowsOf(cache) /\ cache # <<>>
    BY <1>6, <2>1 DEF RowsOf, TypeOK
  <2>6. RowsOf(cache') = (RowsOf(cache) \ {cache[1]}) \cup {new}
    <3>1. cache[1] # new
      BY <1>3, <2>5
    <3> HIDE DEF new
    <3> QED BY <1>5, <2>1, <2>3, <3>1
  <2>7. Len(cache') <= MaxSize
    BY <1>5, <1>6, <1>8, <2>3
  <2> QED BY <1>1, <1>2, <1>4, <1>8, <2>3, <2>4, <2>5, <2>6, <2>7
<1>9. Len(cache) < MaxSize \/ Len(cache) = MaxSize
  BY ONLY <1>6
<1> QED BY <1>7, <1>8, <1>9
\* A step of a request that leaves cache and connections alone.
LEMMA CacheRests ==
    ASSUME TypeOK, CacheInv, NEW r \in Requests, NEW loc \in Locations, Goto(r, loc),
           UNCHANGED <<cache, open>>,
           \A q \in Requests \ {r} : tenant'[q] = tenant[q],
           pc[r] # "put", loc # "put", pc[r] \in Past => loc \in Past,
           loc \in Building => pc[r] \in Building /\ tenant'[r] = tenant[r],
           tenant'[r] \in Tenants
    PROVE  CacheInv'
<1>1. pc'[r] = loc /\ \A q \in Requests \ {r} : pc'[q] = pc[q]
  BY DEF Goto, TypeOK
<1>2. AtPut' = AtPut /\ DepsOf(cache)' = DepsOf(cache)
  BY <1>1 DEF AtPut, DepsOf, RowsOf
<1>3. \A e \in RowsOf(cache)' : pc'[e.deps] \in Past
  BY <1>1, RowsTyped DEF CacheInv, RowsOf
<1>4. \A q \in Requests : pc'[q] \in Building =>
         \A e \in RowsOf(cache)' : e.tenant # tenant'[q]
  BY <1>1 DEF CacheInv, RowsOf
<1>5. \A q \in Requests : pc'[q] # "idle" => tenant'[q] \in Tenants
  BY <1>1 DEF CacheInv
<1> QED BY <1>2, <1>3, <1>4, <1>5 DEF CacheInv, Distinct

\* A look in the cache, before the lock or under it.
LEMMA LookKeeps ==
    ASSUME TypeOK, CacheInv, NEW r \in Requests, pc[r] \in {"get", "recheck"},
           UNCHANGED tenant,
           \/ Hit(r) /\ Goto(r, "use")
           \/ Miss(r) /\ (Goto(r, "wait") \/ Goto(r, "risk"))
    PROVE  CacheInv' /\ cache' \in Seq(Entry) /\ got' \in [Requests -> Requests \cup {None}]
           /\ open' \subseteq open
<1>1. PICK loc \in {"use", "wait", "risk"} : Goto(r, loc) /\ (loc = "use" <=> Hit(r) /\ Goto(r, "use"))
  BY DEF Goto, TypeOK, Locations
<1>2. /\ pc'[r] = loc /\ \A q \in Requests \ {r} : pc'[q] = pc[q]
      /\ AtPut' = AtPut /\ Len(cache) \in Nat
  BY <1>1, RowsTyped DEF Goto, TypeOK, AtPut
<1>3. \A e \in RowsOf(cache) : pc'[e.deps] \in Past
  BY <1>2, RowsTyped DEF CacheInv, Past
<1>4. \A q \in Requests : pc'[q] # "idle" => tenant'[q] \in Tenants
  BY <1>2 DEF CacheInv
<1>5. CASE Hit(r) /\ Goto(r, "use")
  <2>1. /\ cache' \in Seq(Entry) /\ Len(cache') = Len(cache) /\ Distinct(cache')
        /\ RowsOf(cache') = RowsOf(cache) /\ open' = open
        /\ got' \in [Requests -> Requests \cup {None}]
    BY <1>5, HitFacts
  <2>2. pc'[r] = "use"
    BY <1>5 DEF Goto, TypeOK
  <2>3. \A q \in Requests : pc'[q] \in Building =>
           \A e \in RowsOf(cache') : e.tenant # tenant'[q]
    BY <1>2, <2>1, <2>2 DEF CacheInv, Building
  <2>4. open' = DepsOf(cache') \cup AtPut'
    BY <1>2, <2>1 DEF CacheInv, DepsOf
  <2> QED BY <1>3, <1>4, <2>1, <2>3, <2>4 DEF CacheInv
<1>6. CASE Miss(r) /\ (Goto(r, "wait") \/ Goto(r, "risk"))
  <2>1. /\ cache' \in Seq(Entry) /\ Len(cache') <= MaxSize /\ Distinct(cache')
        /\ got' \in [Requests -> Requests \cup {None}]
    BY <1>6, MissFacts DEF TypeOK
  <2>2. CASE UNCHANGED <<cache, open>> /\ \A e \in RowsOf(cache) : e.tenant # tenant[r]
    <3>1. \A q \in Requests : pc'[q] \in Building =>
             \A e \in RowsOf(cache') : e.tenant # tenant'[q]
      BY <1>2, <2>2 DEF CacheInv
    <3>2. open' = DepsOf(cache') \cup AtPut'
      BY <1>2, <2>2 DEF CacheInv
    <3> QED BY <1>3, <1>4, <2>1, <2>2, <3>1, <3>2 DEF CacheInv
  <2>3. ASSUME NEW e \in RowsOf(cache), e.tenant = tenant[r],
               RowsOf(cache') = RowsOf(cache) \ {e}, open' = open \ {e.deps},
               \A x \in RowsOf(cache') : x.tenant # tenant[r] /\ x.deps # e.deps
        PROVE  CacheInv' /\ open' \subseteq open
    <3>1. \A q \in Requests : pc'[q] \in Building =>
             \A x \in RowsOf(cache') : x.tenant # tenant'[q]
      BY <1>2, <2>3 DEF CacheInv
    <3>2. e.deps \notin AtPut
      BY DEF CacheInv, AtPut, Past
    <3>3. DepsOf(cache') = DepsOf(cache) \ {e.deps}
      BY <2>3 DEF DepsOf
    <3>4. open' = DepsOf(cache') \cup AtPut'
      BY <1>2, <2>3, <3>2, <3>3 DEF CacheInv
    <3> QED BY <1>3, <1>4, <2>1, <2>3, <3>1, <3>4 DEF CacheInv
  <2> QED BY <1>6, <2>1, <2>2, <2>3, MissFacts
<1> QED BY <1>5, <1>6

LEMMA ConnectKeeps ==
    ASSUME TypeOK, CacheInv, NEW r \in Requests, Connect(r)
    PROVE  CacheInv' /\ open' \subseteq Requests
<1>1. pc[r] = "connect" /\ UNCHANGED <<tenant, got, cache>> /\ tenant[r] \in Tenants
  BY DEF Connect, At, CacheInv
<1>2. CASE LeaveLock(r, "failed") /\ UNCHANGED open
  BY <1>1, <1>2, CacheRests DEF LeaveLock, Locations, Past, Building, TypeOK
<1>3. CASE open' = open \cup {r} /\ Goto(r, "put")
  <2>1. pc'[r] = "put" /\ \A q \in Requests \ {r} : pc'[q] = pc[q]
    BY <1>3 DEF Goto, TypeOK
  <2>2. AtPut' = AtPut \cup {r}
    BY <2>1 DEF AtPut
  <2>3. \A e \in RowsOf(cache) : pc'[e.deps] \in Past
    BY <1>1, <2>1, RowsTyped DEF CacheInv, Past
  <2>4. \A q \in Requests : pc'[q] \in Building =>
           \A e \in RowsOf(cache) : e.tenant # tenant[q]
    BY <1>1, <2>1 DEF CacheInv, Building
  <2>5. open' = DepsOf(cache) \cup AtPut'
    BY <1>3, <2>2 DEF CacheInv
  <2> QED BY <1>1, <1>3, <2>1, <2>3, <2>4, <2>5 DEF CacheInv, TypeOK
<1> QED BY <1>2, <1>3 DEF Connect

\* Nobody else is building, so nobody else's tenant gets an entry.
LEMMA PutKeeps ==
    ASSUME DepsInv, NEW r \in Requests, Put(r)
    PROVE  CacheInv'
<1> USE DEF DepsInv
<1> DEFINE new == [tenant |-> tenant[r], deps |-> r, at |-> now]
<1>1. /\ pc[r] = "put" /\ UNCHANGED tenant /\ pc'[r] = "use"
      /\ \A q \in Requests \ {r} : pc'[q] = pc[q]
  BY DEF Put, At, Goto, TypeOK
<1>2. AtPut = {r} /\ \A q \in Requests : pc[q] \in Building => q = r
  BY <1>1 DEF AtPut, LockInv, OneBuilder, InLock, Building
<1>3. AtPut' = {} /\ \A q \in Requests : pc'[q] \notin Building
  BY <1>1, <1>2 DEF AtPut, Building
<1>4. /\ cache' \in Seq(Entry) /\ Len(cache') <= MaxSize /\ Distinct(cache')
      /\ new \in Entry
      /\ \/ RowsOf(cache') = RowsOf(cache) \cup {new} /\ open' = open
         \/ /\ cache[1] \in RowsOf(cache)
            /\ RowsOf(cache') = (RowsOf(cache) \ {cache[1]}) \cup {new}
            /\ open' = open \ {cache[1].deps}
  BY PutFacts
<1>5. \A e \in RowsOf(cache) : e.deps # r /\ pc'[e.deps] \in Past
  BY <1>1, RowsTyped DEF CacheInv, Past
<1>6. new.deps = r
  OBVIOUS
<1> HIDE DEF new
<1>7. \A e \in RowsOf(cache') : pc'[e.deps] \in Past
  BY <1>1, <1>4, <1>5, <1>6 DEF Past
<1>8. open' = DepsOf(cache')
  <2>1. open = DepsOf(cache) \cup {r}
    BY <1>2 DEF CacheInv
  <2>2. \A e, x \in RowsOf(cache) : e.deps = x.deps => e = x
    BY DEF CacheInv, Distinct, RowsOf
  <2> QED BY <1>4, <1>5, <1>6, <2>1, <2>2 DEF DepsOf
<1>9. \A q \in Requests : pc'[q] # "idle" => tenant'[q] \in Tenants
  BY <1>1 DEF CacheInv
<1> QED BY <1>3, <1>4, <1>7, <1>8, <1>9 DEF CacheInv

LEMMA RequestKeeps ==
    ASSUME DepsInv, NEW r \in Requests, Arrive(r) \/ Step(r)
    PROVE  TypeOK' /\ CacheInv'
<1> USE DEF DepsInv, At
<1>1. CASE Arrive(r)
  <2>1. PICK t \in Tenants : tenant' = [tenant EXCEPT ![r] = t]
    BY <1>1 DEF Arrive
  <2>2. PICK loc \in {"resolve", "failed"} : Goto(r, loc)
    BY <1>1 DEF Arrive
  <2>3. /\ tenant'[r] \in Tenants /\ \A q \in Requests \ {r} : tenant'[q] = tenant[q]
        /\ tenant' \in [Requests -> Tenants \cup {None}]
    BY <2>1 DEF TypeOK
  <2>4. CacheInv'
    BY <1>1, <2>2, <2>3, CacheRests DEF Arrive, Locations, Past, Building
  <2> QED BY <1>1, <2>2, <2>3, <2>4 DEF Arrive, TypeOK, CacheInv, Goto, Locations, worker
<1>2. pc[r] # "idle" => tenant[r] \in Tenants
  BY DEF CacheInv
<1>3. CASE Resolve(r)
  <2>1. CacheInv'
    BY <1>2, <1>3, CacheRests DEF Resolve, Locations, Past, Building
  <2> QED BY <1>3, <2>1 DEF Resolve, TypeOK, CacheInv, Goto, Locations, worker
<1>4. CASE Get(r)
  <2>1. CacheInv' /\ cache' \in Seq(Entry) /\ got' \in [Requests -> Requests \cup {None}]
        /\ open' \subseteq open
    BY <1>4, LookKeeps DEF Get
  <2> QED BY <1>4, <2>1 DEF Get, TypeOK, CacheInv, Goto, Locations, worker
<1>5. CASE Acquire(r)
  <2>1. CacheInv'
    BY <1>2, <1>5, CacheRests DEF Acquire, Locations, Past, Building
  <2> QED BY <1>5, <2>1 DEF Acquire, TypeOK, CacheInv, Goto, Locations, worker
<1>6. CASE Recheck(r)
  <2>1. CacheInv' /\ cache' \in Seq(Entry) /\ got' \in [Requests -> Requests \cup {None}]
        /\ open' \subseteq open
    BY <1>6, LookKeeps DEF Recheck
  <2> QED BY <1>6, <2>1 DEF Recheck, TypeOK, CacheInv, Goto, Locations, worker
<1>7. CASE Load(r, "risk", "uplift") \/ Load(r, "uplift", "connect")
  <2>1. PICK loc \in {"uplift", "connect", "not_ready", "failed"} : Goto(r, loc)
    BY <1>7 DEF Load, LeaveLock
  <2>2. /\ pc[r] \in {"risk", "uplift"} /\ UNCHANGED <<tenant, got, cache, open, worker, now>>
        /\ buildLock' \in {buildLock, None}
    BY <1>7 DEF Load, LeaveLock
  <2>3. CacheInv'
    BY <1>2, <2>1, <2>2, CacheRests DEF Locations, Past, Building
  <2> QED BY <2>1, <2>2, <2>3 DEF TypeOK, CacheInv, Goto, Locations, worker
<1>8. CASE Connect(r)
  <2>1. CacheInv' /\ open' \subseteq Requests
    BY <1>8, ConnectKeeps
  <2>2. PICK loc \in {"put", "failed"} : Goto(r, loc)
    BY <1>8 DEF Connect, LeaveLock
  <2>3. UNCHANGED <<tenant, got, cache, worker, now>> /\ buildLock' \in {buildLock, None}
    BY <1>8 DEF Connect, LeaveLock
  <2> QED BY <2>1, <2>2, <2>3 DEF TypeOK, CacheInv, Goto, Locations, worker
<1>9. CASE Put(r)
  <2>1. CacheInv' /\ cache' \in Seq(Entry)
    BY <1>9, PutKeeps, PutFacts
  <2>2. Goto(r, "use") /\ got' = [got EXCEPT ![r] = r] /\ buildLock' = None
        /\ UNCHANGED <<tenant, worker, now>> /\ open' \subseteq open
    BY <1>9 DEF Put
  <2> QED BY <2>1, <2>2 DEF TypeOK, CacheInv, Goto, Locations, worker
<1>10. CASE Use(r)
  <2>1. PICK loc \in {"done", "failed"} : Goto(r, loc)
    BY <1>10 DEF Use
  <2>2. CacheInv'
    BY <1>2, <1>10, <2>1, CacheRests DEF Use, Locations, Past, Building
  <2> QED BY <1>10, <2>1, <2>2 DEF Use, TypeOK, CacheInv, Goto, Locations, worker
<1> QED BY <1>1, <1>3, <1>4, <1>5, <1>6, <1>7, <1>8, <1>9, <1>10 DEF Step

LEMMA AsideKeeps ==
    ASSUME DepsInv, (\E t \in Tenants : Worker(t)) \/ Tick
    PROVE  TypeOK' /\ CacheInv'
<1> USE DEF DepsInv
<1>1. UNCHANGED <<request, buildLock, cache, open>>
  BY DEF Worker, Tick
<1>2. CacheInv'
  BY <1>1 DEF CacheInv, AtPut, request
<1>3. CASE Tick
  <2>1. now' = now + 1 /\ now \in Nat
    BY <1>3 DEF Tick, TypeOK
  <2>2. now' \in Nat
    BY ONLY <2>1
  <2> QED BY <1>1, <1>2, <1>3, <2>2 DEF TypeOK, Tick, request, worker
<1>4. ASSUME NEW t \in Tenants, Worker(t) PROVE TypeOK'
  <2>1. ASSUME NEW file \in Files, NEW mark \in FileStates, SetFile(t, file, mark)
        PROVE  disk' \in [Tenants -> [Files -> FileStates]]
    BY <2>1 DEF SetFile, TypeOK
  <2>2. disk' \in [Tenants -> [Files -> FileStates]]
    BY <1>4, <2>1 DEF Worker, TrainStarts, TrainSaves, TrainGoesOn, WorkerDies, Files,
       FileStates, TypeOK
  <2>3. training' \in [Tenants -> Files \cup {"no", "between"}] /\ trainings' \in Nat
    BY <1>4 DEF Worker, TrainStarts, TrainSaves, TrainGoesOn, WorkerDies, Files, TypeOK
  <2> QED BY <1>1, <1>4, <2>2, <2>3 DEF TypeOK, request, Worker
<1> QED BY <1>2, <1>3, <1>4

LEMMA DepsInit == Init => DepsInv
<1> SUFFICES ASSUME Init PROVE DepsInv
  OBVIOUS
<1>1. cache \in Seq(Entry) /\ Len(cache) = 0 /\ RowsOf(cache) = {} /\ Distinct(cache)
  <2>1. cache = <<>>
    BY DEF Init
  <2> QED BY <2>1, EmptySeq DEF RowsOf, Distinct
<1>2. TypeOK
  BY <1>1, DepsCacheAssumption DEF Init, TypeOK, Locations, Files, FileStates
<1>3. CacheInv
  BY <1>1, DepsCacheAssumption DEF Init, CacheInv, DepsOf, AtPut, Building
<1> QED BY <1>2, <1>3, LockInit DEF DepsInv

LEMMA DepsNext == DepsInv /\ [Next]_vars => DepsInv'
<1> SUFFICES ASSUME DepsInv, [Next]_vars PROVE DepsInv'
  OBVIOUS
<1>1. LockInv'
  BY LockNext DEF DepsInv
<1>2. CASE UNCHANGED vars
  BY <1>1, <1>2 DEF vars, request, worker, DepsInv, TypeOK, CacheInv, AtPut
<1> QED BY <1>1, <1>2, RequestKeeps, AsideKeeps DEF Next, DepsInv

\* One connection for an entry, and one for the entry under construction.
LEMMA FewOpen ==
    ASSUME DepsInv
    PROVE  Cardinality(open) <= MaxSize + 1
<1> USE DEF DepsInv
<1>1. Len(cache) \in Nat /\ Len(cache) <= MaxSize /\ MaxSize \in Nat /\ DOMAIN cache = 1..Len(cache)
  BY RowsTyped, DepsCacheAssumption DEF CacheInv, TypeOK
<1> DEFINE f == [i \in 1..Len(cache) |-> cache[i].deps]
<1>2. f \in Surjection(1..Len(cache), DepsOf(cache))
  BY <1>1 DEF Surjection, DepsOf, RowsOf
<1>3. /\ IsFiniteSet(1..Len(cache)) /\ Cardinality(1..Len(cache)) = Len(cache)
  <2>1. 1 \in Int /\ Len(cache) \in Int
    BY <1>1
  <2>2. (IF 1 > Len(cache) THEN 0 ELSE Len(cache) - 1 + 1) = Len(cache)
    BY <1>1
  <2> QED BY <2>1, <2>2, FS_Interval
<1>4. IsFiniteSet(DepsOf(cache)) /\ Cardinality(DepsOf(cache)) <= Len(cache)
  BY <1>2, <1>3, FS_Surjection
<1>5. Cardinality(DepsOf(cache)) \in Nat
  BY <1>4, FS_CardinalityType
<1>6. AtPut = {} \/ \E r : AtPut = {r}
  BY DEF AtPut, LockInv, OneBuilder, InLock
<1>7. CASE AtPut = {}
  <2>1. open = DepsOf(cache)
    BY <1>7 DEF CacheInv
  <2> QED BY <1>1, <1>4, <1>5, <2>1
<1>8. ASSUME NEW r, AtPut = {r} PROVE Cardinality(open) <= MaxSize + 1
  <2>1. open = DepsOf(cache) \cup {r}
    BY <1>8 DEF CacheInv
  <2>2. Cardinality(open) = IF r \in DepsOf(cache) THEN Cardinality(DepsOf(cache))
                            ELSE Cardinality(DepsOf(cache)) + 1
    BY <1>4, <2>1, FS_AddElement
  <2> QED BY <1>1, <1>4, <1>5, <2>2
<1> QED BY <1>6, <1>7, <1>8

LEMMA DepsImplies == DepsInv => ConnectionsAccounted
<1> SUFFICES ASSUME DepsInv PROVE ConnectionsAccounted
  OBVIOUS
<1>1. open = {e.deps : e \in Entries} \cup {r \in Requests : pc[r] = "put"}
  BY RowsTyped DEF DepsInv, CacheInv, DepsOf, AtPut
<1>2. \A i, j \in DOMAIN cache : cache[i].tenant = cache[j].tenant => i = j
  BY DEF DepsInv, CacheInv, Distinct
<1> QED BY <1>1, <1>2, FewOpen DEF ConnectionsAccounted

\* What ClosedByAgeOrCapacity says of a step.
ClosedStep ==
    \A e \in Entries : e.deps \in open \ open' =>
        \/ Expired(e)
        \/ Len(cache) = MaxSize /\ e = Head(cache) /\ ~Cached(e.tenant)'

LEMMA LookCloses ==
    ASSUME DepsInv, NEW r \in Requests, Hit(r) \/ Miss(r)
    PROVE  ClosedStep
<1> USE DEF DepsInv
<1>1. CASE Hit(r)
  BY <1>1, HitFacts DEF ClosedStep
<1>2. CASE Miss(r)
  <2>1. CASE UNCHANGED open
    BY <2>1 DEF ClosedStep
  <2>2. CASE \E e \in RowsOf(cache) : Expired(e) /\ open' = open \ {e.deps}
    <3>1. \A e, x \in RowsOf(cache) : e.deps = x.deps => e = x
      BY DEF CacheInv, Distinct, RowsOf
    <3> QED BY <2>2, <3>1, RowsTyped DEF ClosedStep
  <2> QED BY <1>2, <2>1, <2>2, MissFacts
<1> QED BY <1>1, <1>2

LEMMA PutCloses ==
    ASSUME DepsInv, NEW r \in Requests, Put(r)
    PROVE  ClosedStep
<1> USE DEF DepsInv
<1> DEFINE new == [tenant |-> tenant[r], deps |-> r, at |-> now]
<1>1. CASE open' = open
  BY <1>1 DEF ClosedStep
<1>2. CASE open' # open
  <2>1. /\ Len(cache) = MaxSize /\ cache[1] \in RowsOf(cache) /\ cache # <<>>
        /\ RowsOf(cache') = (RowsOf(cache) \ {cache[1]}) \cup {new}
        /\ open' = open \ {cache[1].deps}
    BY <1>2, PutFacts
  <2>2. new.tenant = tenant[r] /\ pc[r] = "put"
    BY DEF Put, At
  <2> HIDE DEF new
  <2>3. \A e \in RowsOf(cache) : e.tenant # new.tenant
    BY <2>2 DEF CacheInv, Building
  <2>4. \A e, x \in RowsOf(cache) : e.deps = x.deps \/ e.tenant = x.tenant => e = x
    BY DEF CacheInv, Distinct, RowsOf
  <2>5. \A x \in Entries' : x.tenant # cache[1].tenant
    <3>1. Entries' = RowsOf(cache')
      BY DEF Entries, RowsOf
    <3> QED BY <2>1, <2>3, <2>4, <3>1
  <2>6. Head(cache) = cache[1]
    BY <2>1 DEF TypeOK
  <2>7. ASSUME NEW e \in Entries, e.deps \in open \ open'
        PROVE  Len(cache) = MaxSize /\ e = Head(cache) /\ ~Cached(e.tenant)'
    <3>1. e = cache[1]
      BY <2>1, <2>4, <2>7, RowsTyped
    <3> QED BY <2>1, <2>5, <2>6, <3>1 DEF Cached
  <2> QED BY <2>7 DEF ClosedStep
<1> QED BY <1>1, <1>2

LEMMA DepsCloses == DepsInv /\ [Next]_vars => [ClosedStep]_vars
<1> SUFFICES ASSUME DepsInv, Next PROVE ClosedStep
  OBVIOUS
<1>1. ASSUME open \subseteq open' PROVE ClosedStep
  BY <1>1 DEF ClosedStep
<1>2. ASSUME NEW r \in Requests, Arrive(r) \/ Step(r) PROVE ClosedStep
  <2>1. CASE Get(r) \/ Recheck(r)
    BY <2>1, LookCloses DEF Get, Recheck
  <2>2. CASE Put(r)
    BY <2>2, PutCloses
  <2>3. CASE ~(Get(r) \/ Recheck(r)) /\ ~Put(r)
    BY <1>1, <1>2, <2>3 DEF Step, Arrive, Resolve, Acquire, Load, Connect, Use
  <2> QED BY <2>1, <2>2, <2>3
<1>3. CASE (\E t \in Tenants : Worker(t)) \/ Tick
  BY <1>1, <1>3 DEF Worker, Tick
<1> QED BY <1>2, <1>3 DEF Next

\* The cache, its entries and the files keep their types.
THEOREM DepsTypeCorrect == Spec => []TypeOK
<1>1. DepsInv => TypeOK
  BY DEF DepsInv
<1> QED BY <1>1, DepsInit, DepsNext, PTL DEF Spec

\* deps.py:31: for any number of tenants and any size of the cache, what is
\* checked out are the connections of the entries and of the one build.
THEOREM ConnectionsAccountedAlways == Spec => []ConnectionsAccounted
<1> QED BY DepsInit, DepsNext, DepsImplies, PTL DEF Spec

\* deps.py:43: no step closes the connection of an entry that is neither too old
\* nor the one longest not asked for in a full cache.
THEOREM ClosedByAgeOrCapacityAlways == Spec => ClosedByAgeOrCapacity
<1> QED BY DepsInit, DepsNext, DepsCloses, PTL DEF Spec, ClosedByAgeOrCapacity, ClosedStep
=============================================================================
