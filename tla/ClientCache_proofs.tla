------------------------- MODULE ClientCache_proofs -------------------------
(***************************************************************************)
(* Proofs about ClientCache, for every number of workers, every set of     *)
(* credentials, every capacity, every life time of the access tokens and   *)
(* every hash. (What a whole collection leaves of the list,                *)
(* CollectionTransparent, is a fold over the cache and stays with TLC.)    *)
(***************************************************************************)
EXTENDS ClientCache, SequenceTheorems, FiniteSetTheorems, TLAPS

----------------------------------------------------------------------------
(* The inductive invariant.                                                *)

Hashes == {Key(c) : c \in Credentials}
Entry == [key: Hashes, cred: Credentials, expires: Int]

\* Every entry is cached under the hash of the credentials its client logged in with.
Genuine(e) == e.key = Key(e.cred)

CacheInv ==
    /\ lru \in Seq(Entry) /\ Len(lru) <= Capacity
    /\ \A i, j \in 1..Len(lru) : lru[i].key = lru[j].key => i = j
    /\ \A i \in 1..Len(lru) : Genuine(lru[i])

\* While a worker logs in, no entry, expired or not, has the key it will add.
LoginInv ==
    \A w \in Workers : LogsIn(w) => \A i \in 1..Len(lru) : lru[i].key # Key(want[w])

\* The collector asks for a session only of a client that it found; what has stayed
\* in the cache has its gauge or is still to come.
CollectorInv ==
    /\ \E S : todo \in Seq(S)
    /\ collector = "session" => todo # <<>> /\ Head(todo) \in Hashes
    /\ collector # "idle" =>
          \A k \in stayed : k \in gauges \/ \E i \in 1..Len(todo) : todo[i] = k

IInv == TypeOK /\ CacheInv /\ LoginInv /\ CollectorInv

----------------------------------------------------------------------------
(* The cache.                                                              *)

\* What the entries of a cache are, one by one.
LEMMA EntryFields ==
    ASSUME NEW e \in Entry
    PROVE  e.key \in Hashes /\ e.cred \in Credentials /\ e.expires \in Int
BY DEF Entry

\* Others drops the entry of the key, and nothing else.
LEMMA OthersProperties ==
    ASSUME NEW s \in Seq(Entry), NEW k,
           \A i, j \in 1..Len(s) : s[i].key = s[j].key => i = j
    PROVE  /\ Others(s, k) \in Seq(Entry)
           /\ Len(Others(s, k)) <= Len(s)
           /\ (\E i \in 1..Len(s) : s[i].key = k) => Len(Others(s, k)) = Len(s) - 1
           /\ \A i \in 1..Len(Others(s, k)) :
                 Others(s, k)[i].key # k /\ \E j \in 1..Len(s) : Others(s, k)[i] = s[j]
           /\ \A i, j \in 1..Len(Others(s, k)) : Others(s, k)[i].key = Others(s, k)[j].key => i = j
<1>0. Len(s) \in Nat /\ DOMAIN s = 1..Len(s) /\ \A i \in 1..Len(s) : s[i] \in Entry
  BY LenProperties
<1>1. CASE \A i \in 1..Len(s) : s[i].key # k
  <2>1. Others(s, k) = s
    BY <1>0, <1>1 DEF Others
  <2>2. Len(s) <= Len(s)
    BY <1>0
  <2>3. \A i \in 1..Len(s) : s[i].key # k /\ \E j \in 1..Len(s) : s[i] = s[j]
    BY <1>1
  <2>4. QED
    BY <1>1, <2>1, <2>2, <2>3, Zenon
<1>2. CASE \E i \in 1..Len(s) : s[i].key = k
  <2>1. PICK p \in 1..Len(s) : s[p].key = k
    BY <1>2
  <2>2. {i \in DOMAIN s : s[i].key = k} = {p}
    BY <1>0, <2>1
  <2> DEFINE n == Len(s) - 1
             from(i) == IF p <= i THEN i + 1 ELSE i
             o == [i \in 1..n |-> s[from(i)]]
  <2>3. Others(s, k) = o
    BY <2>2 DEF Others
  <2>4. n \in Nat /\ n <= Len(s)
    BY <1>0, <2>1
  <2>5. /\ \A i \in 1..n : from(i) \in 1..Len(s) /\ from(i) # p
        /\ \A i, j \in 1..n : from(i) = from(j) => i = j
    BY <1>0, <2>1
  <2> HIDE DEF from
  <2>6. \A i \in 1..n : o[i] = s[from(i)] /\ o[i] \in Entry
    BY <1>0, <2>5
  <2>7. o \in Seq(Entry) /\ Len(o) = n
    <3>1. o \in [1..n -> Entry]
      BY <2>6
    <3> HIDE DEF o, n
    <3>2. o \in Seq(Entry)
      BY <2>4, <3>1, SeqDef
    <3>3. QED
      BY <2>4, <3>1, <3>2, LenProperties
  <2> HIDE DEF o
  <2>8. \A i \in 1..n : o[i].key # k /\ \E j \in 1..Len(s) : o[i] = s[j]
    BY <2>1, <2>5, <2>6
  <2>9. \A i, j \in 1..n : o[i].key = o[j].key => i = j
    BY <2>5, <2>6
  <2>10. QED
    BY <2>3, <2>4, <2>7, <2>8, <2>9
<1>3. QED
  BY <1>1, <1>2

\* Appending an entry of a new key.
LEMMA AppendEntry ==
    ASSUME NEW s \in Seq(Entry), NEW e \in Entry, Genuine(e),
           \A i, j \in 1..Len(s) : s[i].key = s[j].key => i = j,
           \A i \in 1..Len(s) : Genuine(s[i]) /\ s[i].key # e.key,
           lru' = Append(s, e), Len(s) < Capacity
    PROVE  CacheInv' /\ \A i \in 1..Len(lru') : lru'[i] = e \/ \E j \in 1..Len(s) : lru'[i] = s[j]
<1>0. /\ lru' \in Seq(Entry) /\ Len(lru') = Len(s) + 1 /\ Len(s) \in Nat
      /\ \A i \in 1..Len(s) : lru'[i] = s[i]
      /\ lru'[Len(s) + 1] = e
  BY AppendProperties, LenProperties
<1>1. \A i \in 1..Len(lru') : i \in 1..Len(s) \/ i = Len(s) + 1
  BY <1>0
<1>2. \A i, j \in 1..Len(lru') : lru'[i].key = lru'[j].key => i = j
  BY <1>0, <1>1
<1>3. \A i \in 1..Len(lru') : Genuine(lru'[i])
  BY <1>0, <1>1
<1>4. QED
  BY <1>0, <1>1, <1>2, <1>3, BoundAssumption DEF CacheInv, Genuine, Key, Written

\* Get reorders the cache or drops the entry asked for, but adds nothing.
LEMMA GetProperties ==
    ASSUME CacheInv, NEW k, Get(k)
    PROVE  /\ CacheInv'
           /\ \A i \in 1..Len(lru') : \E j \in 1..Len(lru) : lru'[i] = lru[j]
           /\ ~Found(k) => \A i \in 1..Len(lru') : lru'[i].key # k
           /\ Found(k) => k \in Hashes
<1>0. /\ lru \in Seq(Entry) /\ Len(lru) \in Nat /\ DOMAIN lru = 1..Len(lru)
      /\ \A i \in 1..Len(lru) : lru[i] \in Entry /\ Genuine(lru[i])
      /\ Len(lru) <= Capacity /\ Capacity \in Nat
      /\ \A i, j \in 1..Len(lru) : lru[i].key = lru[j].key => i = j
  BY LenProperties, BoundAssumption DEF CacheInv
<1> DEFINE o == Others(lru, k)
<1>1. /\ o \in Seq(Entry) /\ Len(o) <= Len(lru) /\ Len(o) \in Nat
      /\ (\E i \in 1..Len(lru) : lru[i].key = k) => Len(o) = Len(lru) - 1
      /\ \A i \in 1..Len(o) : o[i].key # k /\ \E j \in 1..Len(lru) : o[i] = lru[j]
      /\ \A i, j \in 1..Len(o) : o[i].key = o[j].key => i = j
  BY <1>0, OthersProperties, LenProperties
<1> HIDE DEF o
<1>2. CASE ~Found(k)
  <2>1. lru' = o
    BY <1>2 DEF Get, o
  <2>2. Len(o) <= Capacity
    <3>1. Len(o) \in Nat /\ Len(o) <= Len(lru) /\ Len(lru) <= Capacity /\ Len(lru) \in Nat /\ Capacity \in Nat
      BY <1>0, <1>1, Zenon
    <3>2. QED
      BY <3>1
  <2>3. \A i \in 1..Len(o) : Genuine(o[i])
    BY <1>0, <1>1
  <2>4. CacheInv'
    BY <1>1, <2>1, <2>2, <2>3 DEF CacheInv, Genuine, Key, Written
  <2>5. QED
    BY <1>1, <1>2, <2>1, <2>4
<1>3. CASE Found(k)
  <2>1. PICK p \in 1..Len(lru) : lru[p].key = k
    BY <1>0, <1>3 DEF Found
  <2>2. Find(lru, k) \in {lru[i] : i \in DOMAIN lru} /\ Find(lru, k).key = k
    BY <1>0, <2>1 DEF Find
  <2>3. PICK q \in 1..Len(lru) : Find(lru, k) = lru[q]
    BY <1>0, <2>2
  <2>4. lru' = Append(o, lru[q]) /\ lru[q] \in Entry /\ Genuine(lru[q]) /\ lru[q].key = k
    BY <1>0, <1>3, <2>2, <2>3 DEF Get, o
  <2>5. \A i \in 1..Len(o) : Genuine(o[i]) /\ o[i].key # lru[q].key
    BY <1>0, <1>1, <2>4
  <2>6. Len(o) < Capacity
    <3>1. Len(o) = Len(lru) - 1
      BY <1>1, <2>1
    <3>2. QED
      BY <1>0, <1>1, <3>1
  <2>7. CacheInv' /\ \A i \in 1..Len(lru') : lru'[i] = lru[q] \/ \E j \in 1..Len(o) : lru'[i] = o[j]
    BY <1>1, <2>4, <2>5, <2>6, AppendEntry
  <2>8. k \in Hashes
    BY <2>4, EntryFields
  <2>9. \A i \in 1..Len(o) : \E j \in 1..Len(lru) : o[i] = lru[j]
    BY <1>1, Zenon
  <2>10. \A i \in 1..Len(lru') : \E j \in 1..Len(lru) : lru'[i] = lru[j]
    <3> SUFFICES ASSUME NEW i \in 1..Len(lru') PROVE \E j \in 1..Len(lru) : lru'[i] = lru[j]
      OBVIOUS
    <3>1. CASE lru'[i] = lru[q]
      BY <2>3, <3>1, Zenon
    <3>2. CASE \E j \in 1..Len(o) : lru'[i] = o[j]
      BY <2>9, <3>2, Zenon
    <3>3. QED
      BY <2>7, <3>1, <3>2, Zenon
  <2>11. QED
    BY <1>3, <2>7, <2>8, <2>10, Zenon
<1>4. QED
  BY <1>2, <1>3

\* Add of a key that is not cached evicts one entry when the cache is full.
LEMMA AddProperties ==
    ASSUME CacheInv, NEW e \in Entry, Genuine(e), Add(e),
           \A i \in 1..Len(lru) : lru[i].key # e.key
    PROVE  CacheInv' /\ \A i \in 1..Len(lru') : lru'[i] = e \/ \E j \in 1..Len(lru) : lru'[i] = lru[j]
<1>0. /\ lru \in Seq(Entry) /\ Len(lru) \in Nat
      /\ Len(lru) <= Capacity /\ Capacity \in Nat \ {0}
      /\ \A i \in 1..Len(lru) : Genuine(lru[i])
      /\ \A i, j \in 1..Len(lru) : lru[i].key = lru[j].key => i = j
  BY LenProperties, BoundAssumption DEF CacheInv
<1>1. CASE Len(lru) < Capacity
  <2>1. lru' = Append(lru, e)
    BY <1>0, <1>1 DEF Add
  <2>2. QED
    BY <1>0, <1>1, <2>1, AppendEntry
<1>2. CASE Len(lru) >= Capacity
  <2> DEFINE t == Tail(lru)
  <2>1. lru' = Append(t, e)
    BY <1>0, <1>2 DEF Add
  <2>2. /\ t \in Seq(Entry) /\ Len(t) = Len(lru) - 1
        /\ \A i \in 1..Len(t) : t[i] = lru[i + 1] /\ i + 1 \in 1..Len(lru)
    <3>1. lru # <<>>
      BY <1>0, <1>2, EmptySeq
    <3>2. /\ t \in Seq(Entry) /\ Len(t) = Len(lru) - 1
          /\ \A i \in 1..Len(t) : t[i] = lru[i + 1]
      BY <1>0, <3>1, HeadTailProperties, Zenon
    <3>3. \A i \in 1..(Len(lru) - 1) : i + 1 \in 1..Len(lru)
      BY <1>0
    <3>4. QED
      BY <3>2, <3>3, Zenon
  <2> HIDE DEF t
  <2>3. ASSUME NEW i \in 1..Len(t), NEW j \in 1..Len(t), t[i].key = t[j].key PROVE i = j
    <3>1. /\ i + 1 \in 1..Len(lru) /\ j + 1 \in 1..Len(lru)
          /\ t[i] = lru[i + 1] /\ t[j] = lru[j + 1]
      BY <2>2, Zenon
    <3>2. lru[i + 1].key = lru[j + 1].key
      BY <2>3, <3>1, Zenon
    <3>3. i + 1 = j + 1
      BY <1>0, <3>1, <3>2, Zenon
    <3>4. QED
      BY <3>3
  <2>4. \A i \in 1..Len(t) : Genuine(t[i]) /\ t[i].key # e.key /\ \E j \in 1..Len(lru) : t[i] = lru[j]
    BY <1>0, <2>2
  <2>5. Len(t) < Capacity
    BY <1>0, <2>2
  <2>6. CacheInv' /\ \A i \in 1..Len(lru') : lru'[i] = e \/ \E j \in 1..Len(t) : lru'[i] = t[j]
    BY <2>1, <2>2, <2>3, <2>4, <2>5, AppendEntry
  <2>7. QED
    BY <2>4, <2>6
<1>3. QED
  BY <1>0, <1>1, <1>2

\* The collector is given every key that can be found.
LEMMA ListKeysProperties ==
    ASSUME CacheInv
    PROVE  /\ \E S : ListKeys \in Seq(S)
           /\ \A k : Found(k) => \E n \in 1..Len(ListKeys) : ListKeys[n] = k
<1> DEFINE at == {i \in DOMAIN lru : lru[i].expires >= clock}
           UpTo(i) == {j \in at : j <= i}
           Nth(n) == CHOOSE i \in at : Cardinality(UpTo(i)) = n
<1>1. /\ lru \in Seq(Entry) /\ DOMAIN lru = 1..Len(lru) /\ Len(lru) \in Nat
      /\ at \in SUBSET (1..Len(lru)) /\ at \in SUBSET Nat
  BY LenProperties DEF CacheInv
<1>2. IsFiniteSet(at) /\ Cardinality(at) \in Nat
  <2> HIDE DEF at
  <2>1. IsFiniteSet(1..Len(lru))
    BY <1>1, FS_Interval
  <2>2. IsFiniteSet(at)
    BY <1>1, <2>1, FS_Subset
  <2>3. QED
    BY <2>2, FS_CardinalityType
<1>3. \A i \in at : /\ UpTo(i) \in SUBSET at /\ i \in UpTo(i)
                    /\ \A k \in at : i <= k => UpTo(i) \subseteq UpTo(k)
                    /\ \A k \in at : i < k => k \notin UpTo(i)
  BY <1>1
<1> HIDE DEF UpTo
<1>4. ASSUME NEW i \in at
      PROVE  /\ IsFiniteSet(UpTo(i)) /\ Cardinality(UpTo(i)) \in 1..Cardinality(at)
  <2>1. IsFiniteSet(UpTo(i)) /\ Cardinality(UpTo(i)) <= Cardinality(at) /\ Cardinality(UpTo(i)) \in Nat
    BY <1>2, <1>3, FS_Subset, FS_CardinalityType
  <2>2. Cardinality(UpTo(i)) # 0
    BY <1>3, <2>1, FS_EmptySet
  <2>3. QED
    BY <1>2, <2>1, <2>2
<1>5. ASSUME NEW i \in at, NEW k \in at, Cardinality(UpTo(i)) = Cardinality(UpTo(k))
      PROVE  i = k
  <2>1. ASSUME NEW a \in at, NEW b \in at, a < b, Cardinality(UpTo(a)) = Cardinality(UpTo(b))
        PROVE  FALSE
    <3>1. UpTo(a) \in SUBSET UpTo(b) /\ a \in Nat /\ b \in Nat
      BY <1>1, <1>3, <2>1
    <3>2. UpTo(a) = UpTo(b)
      BY <1>4, <2>1, <3>1, FS_Subset
    <3>3. QED
      BY <1>3, <2>1, <3>2
  <2>2. i \in Nat /\ k \in Nat
    BY <1>1
  <2>3. QED
    BY <1>5, <2>1, <2>2
<1>6. ASSUME NEW i \in at
      PROVE  Nth(Cardinality(UpTo(i))) = i
  BY <1>5
<1> DEFINE keys == [n \in 1..Cardinality(at) |-> lru[Nth(n)].key]
<1>7. ListKeys = keys
  <2>1. Live(lru) = [n \in 1..Cardinality(at) |-> lru[Nth(n)]]
    BY DEF Live, UpTo
  <2> HIDE DEF at, Nth
  <2>2. QED
    BY <2>1 DEF ListKeys
<1> HIDE DEF at, Nth
<1>8. keys \in Seq({keys[n] : n \in 1..Cardinality(at)}) /\ Len(keys) = Cardinality(at)
  <2>1. keys \in [1..Cardinality(at) -> {keys[n] : n \in 1..Cardinality(at)}]
    OBVIOUS
  <2> HIDE DEF keys
  <2>2. keys \in Seq({keys[n] : n \in 1..Cardinality(at)})
    BY <1>2, <2>1, SeqDef
  <2>3. QED
    BY <1>2, <2>1, <2>2, LenProperties
<1>9. ASSUME NEW k, Found(k)
      PROVE  \E n \in 1..Len(keys) : keys[n] = k
  <2>1. PICK i \in at : lru[i].key = k
    BY <1>9 DEF Found, at
  <2>2. Cardinality(UpTo(i)) \in 1..Cardinality(at) /\ keys[Cardinality(UpTo(i))] = k
    BY <1>4, <1>6, <2>1
  <2>3. QED
    BY <1>8, <2>2
<1>10. QED
  BY <1>7, <1>8, <1>9

----------------------------------------------------------------------------
(* The steps of a worker preserve the invariant.                           *)

\* What TypeOK says of the workers, and of the rest.
WorkerType ==
    /\ mutex \in Workers \cup {NoWorker}
    /\ pc \in [Workers -> {"idle", "lock", "login", "ttl", "add"}]
    /\ \A w \in Workers : mutex = w <=> LogsIn(w)
    /\ want \in [Workers -> Credentials \cup {NoCredentials}]
    /\ token \in [Workers -> Nat] /\ ttl \in [Workers -> Int]
    /\ \A w \in Workers : pc[w] # "idle" => want[w] \in Credentials

CollectorType ==
    /\ clock \in 0..MaxTime /\ collector \in {"idle", "get", "session"} /\ gauges \subseteq Hashes

\* The type invariant is made of these and of what is said of the cache.
LEMMA TypeParts ==
    ASSUME CacheInv
    PROVE  TypeOK <=> WorkerType /\ CollectorType
<1>1. DOMAIN lru = 1..Len(lru) /\ \A i \in 1..Len(lru) : lru[i] \in Entry
  BY LenProperties DEF CacheInv
<1>2. QED
  BY <1>1, EntryFields DEF CacheInv, TypeOK, WorkerType, CollectorType, Hashes

\* The same after a step.
LEMMA TypePartsNext ==
    ASSUME CacheInv', WorkerType', CollectorType'
    PROVE  TypeOK'
<1>1. DOMAIN lru' = 1..Len(lru') /\ \A i \in 1..Len(lru') : lru'[i] \in Entry
  BY LenProperties DEF CacheInv
<1>2. QED
  BY <1>1, EntryFields DEF CacheInv, TypeOK, WorkerType, CollectorType, Hashes

\* Nobody logs in while the mutex is free, and only its holder while it is taken.
LEMMA MutexHolder ==
    ASSUME IInv, NEW w \in Workers, LogsIn(w)
    PROVE  mutex = w /\ \A v \in Workers \ {w} : ~LogsIn(v)
BY DEF IInv, TypeOK

\* A step that is not the collector's leaves it what it has to do.
LEMMA CollectorKept ==
    ASSUME CollectorInv, UNCHANGED collectorVars, UNCHANGED stayed \/ StillFound
    PROVE  CollectorInv'
<1>1. \A k \in stayed' : k \in stayed
  BY DEF StillFound
<1>2. QED
  BY <1>1 DEF CollectorInv, collectorVars

\* GetVCDClient returning leaves a well-formed worker.
LEMMA ReturnsType ==
    ASSUME IInv, NEW w \in Workers, Returns(w), mutex' = NoWorker, mutex \in {w, NoWorker}
    PROVE  WorkerType' /\ \A v \in Workers : ~LogsIn(v)'
<1>0. /\ pc \in [Workers -> {"idle", "lock", "login", "ttl", "add"}]
      /\ want \in [Workers -> Credentials \cup {NoCredentials}]
      /\ token \in [Workers -> Nat] /\ ttl \in [Workers -> Int]
      /\ \A v \in Workers : pc[v] # "idle" => want[v] \in Credentials
      /\ \A v \in Workers : mutex = v <=> LogsIn(v)
  BY DEF IInv, TypeOK
<1>1. /\ pc' \in [Workers -> {"idle", "lock", "login", "ttl", "add"}] /\ pc'[w] = "idle"
      /\ \A v \in Workers \ {w} : pc'[v] = pc[v]
  BY <1>0 DEF Returns, Step
<1>2. /\ want' \in [Workers -> Credentials \cup {NoCredentials}]
      /\ \A v \in Workers \ {w} : want'[v] = want[v]
  BY <1>0 DEF Returns
<1>3. token' \in [Workers -> Nat] /\ ttl' \in [Workers -> Int]
  BY <1>0 DEF Returns
<1>4. \A v \in Workers : ~LogsIn(v)' /\ v # NoWorker
  BY <1>0, <1>1, WorkerAssumption DEF LogsIn
<1>5. \A v \in Workers : pc'[v] # "idle" => want'[v] \in Credentials
  BY <1>0, <1>1, <1>2
<1>6. QED
  BY <1>1, <1>2, <1>3, <1>4, <1>5 DEF WorkerType

\* A step from one place of the login to another leaves cache and workers in order.
LEMMA LoginProceeds ==
    ASSUME IInv, NEW w \in Workers, LogsIn(w), NEW p \in {"ttl", "add"},
           pc' = [pc EXCEPT ![w] = p], UNCHANGED <<lru, mutex, want>>,
           token' \in [Workers -> Nat], ttl' \in [Workers -> Int]
    PROVE  CacheInv' /\ WorkerType' /\ LoginInv'
<1>0. CacheInv /\ WorkerType /\ LoginInv
  BY TypeParts DEF IInv
<1>1. /\ pc' \in [Workers -> {"idle", "lock", "login", "ttl", "add"}] /\ pc'[w] = p
      /\ \A v \in Workers \ {w} : pc'[v] = pc[v]
  BY <1>0 DEF WorkerType
<1>2. \A v \in Workers : LogsIn(v)' <=> LogsIn(v)
  BY <1>1 DEF LogsIn
<1>3. WorkerType'
  BY <1>0, <1>1, <1>2 DEF WorkerType, LogsIn
<1>4. LoginInv'
  BY <1>0, <1>2 DEF LoginInv, Key, Written
<1>5. QED
  BY <1>0, <1>3, <1>4 DEF CacheInv, Genuine, Key, Written

\* Reading the Secret.
LEMMA ReadSecretInv ==
    ASSUME IInv, NEW w \in Workers, ReadSecret(w)
    PROVE  IInv'
<1>0. /\ CacheInv /\ WorkerType /\ CollectorType /\ pc[w] = "idle"
      /\ UNCHANGED <<clock, lru, mutex, token, ttl, collectorVars, stayed>>
      /\ pc' = [pc EXCEPT ![w] = "lock"]
  BY TypeParts DEF IInv, ReadSecret, Step
<1>1. PICK c \in Credentials : want' = [want EXCEPT ![w] = c]
  BY DEF ReadSecret
<1>2. CacheInv' /\ CollectorType' /\ CollectorInv'
  BY <1>0, CollectorKept DEF IInv, CacheInv, CollectorType, Genuine, Key, Written, collectorVars
<1>3. \A v \in Workers : /\ LogsIn(v)' <=> LogsIn(v)
                         /\ LogsIn(v) => want'[v] = want[v]
  BY <1>0, <1>1 DEF WorkerType, LogsIn
<1>4. WorkerType'
  BY <1>0, <1>1, <1>3 DEF WorkerType
<1>5. LoginInv'
  BY <1>0, <1>3 DEF IInv, LoginInv, Key, Written
<1>6. QED
  BY <1>2, <1>4, <1>5, TypePartsNext DEF IInv

\* The lookup: a miss leaves no entry of the key behind.
LEMMA LookupInv ==
    ASSUME IInv, NEW w \in Workers, Lookup(w)
    PROVE  IInv'
<1>0. /\ CacheInv /\ WorkerType /\ CollectorType /\ pc[w] = "lock" /\ mutex = NoWorker
      /\ UNCHANGED <<clock, collectorVars>> /\ Get(Key(want[w])) /\ StillFound
      /\ \A v \in Workers : ~LogsIn(v)
  BY TypeParts, WorkerAssumption DEF IInv, Lookup, WorkerType
<1>1. CacheInv' /\ CollectorType' /\ CollectorInv'
  BY <1>0, GetProperties, CollectorKept DEF CollectorType, IInv, collectorVars
<1>2. CASE Found(Key(want[w])) /\ Returns(w) /\ UNCHANGED mutex
  <2>1. WorkerType' /\ \A v \in Workers : ~LogsIn(v)'
    BY <1>0, <1>2, ReturnsType
  <2>2. QED
    BY <1>1, <2>1, TypePartsNext DEF IInv, LoginInv
<1>3. CASE ~Found(Key(want[w])) /\ Step(w, "login") /\ mutex' = w /\ UNCHANGED <<want, token, ttl>>
  <2>1. \A i \in 1..Len(lru') : lru'[i].key # Key(want[w])
    BY <1>0, <1>3, GetProperties
  <2>2. /\ pc' \in [Workers -> {"idle", "lock", "login", "ttl", "add"}] /\ pc'[w] = "login"
        /\ \A v \in Workers \ {w} : pc'[v] = pc[v]
    BY <1>0, <1>3 DEF Step, WorkerType
  <2>3. \A v \in Workers : LogsIn(v)' <=> v = w
    BY <1>0, <2>2 DEF LogsIn
  <2>4. WorkerType'
    BY <1>0, <1>3, <2>2, <2>3 DEF WorkerType
  <2>5. LoginInv'
    BY <1>3, <2>1, <2>3 DEF LoginInv, Key, Written
  <2>6. QED
    BY <1>1, <2>4, <2>5, TypePartsNext DEF IInv
<1>4. QED
  BY <1>2, <1>3 DEF Lookup

\* A successful login.
LEMMA LoginStepInv ==
    ASSUME IInv, NEW w \in Workers, Login(w)
    PROVE  IInv'
<1>0. /\ WorkerType /\ CollectorType /\ LogsIn(w)
      /\ UNCHANGED <<clock, lru, mutex, want, ttl, collectorVars, stayed>>
      /\ pc' = [pc EXCEPT ![w] = "ttl"]
  BY TypeParts DEF IInv, Login, Step, LogsIn
<1>1. PICK d \in Lifetimes : token' = [token EXCEPT ![w] = clock + d]
  BY DEF Login
<1>2. clock + d \in Nat
  BY <1>0, BoundAssumption DEF CollectorType
<1>3. token' \in [Workers -> Nat] /\ ttl' \in [Workers -> Int]
  BY <1>0, <1>1, <1>2 DEF WorkerType
<1>4. CacheInv' /\ WorkerType' /\ LoginInv'
  BY <1>0, <1>3, LoginProceeds
<1>5. CollectorType' /\ CollectorInv'
  BY <1>0, CollectorKept DEF IInv, CollectorType, collectorVars
<1>6. QED
  BY <1>4, <1>5, TypePartsNext DEF IInv

\* The time to live of its token.
LEMMA ComputeTTLInv ==
    ASSUME IInv, NEW w \in Workers, ComputeTTL(w)
    PROVE  IInv'
<1>0. /\ WorkerType /\ CollectorType /\ LogsIn(w)
      /\ UNCHANGED <<clock, lru, mutex, want, collectorVars, stayed>>
      /\ pc' = [pc EXCEPT ![w] = "add"]
      /\ token' = [token EXCEPT ![w] = 0] /\ ttl' = [ttl EXCEPT ![w] = token[w] - clock]
  BY TypeParts DEF IInv, ComputeTTL, Step, LogsIn
<1>1. token[w] - clock \in Int
  BY <1>0, BoundAssumption DEF WorkerType, CollectorType
<1>2. token' \in [Workers -> Nat] /\ ttl' \in [Workers -> Int]
  BY <1>0, <1>1 DEF WorkerType
<1>3. CacheInv' /\ WorkerType' /\ LoginInv'
  BY <1>0, <1>2, LoginProceeds
<1>4. CollectorType' /\ CollectorInv'
  BY <1>0, CollectorKept DEF IInv, CollectorType, collectorVars
<1>5. QED
  BY <1>3, <1>4, TypePartsNext DEF IInv

\* A failed login.
LEMMA LoginFailsInv ==
    ASSUME IInv, NEW w \in Workers, LoginFails(w)
    PROVE  IInv'
<1>0. /\ CacheInv /\ CollectorType /\ LogsIn(w) /\ mutex' = NoWorker /\ Returns(w)
      /\ UNCHANGED <<clock, lru, collectorVars, stayed>>
  BY TypeParts DEF IInv, LoginFails, LogsIn
<1>1. WorkerType' /\ \A v \in Workers : ~LogsIn(v)'
  BY <1>0, ReturnsType, MutexHolder
<1>2. CacheInv' /\ CollectorType' /\ CollectorInv'
  BY <1>0, CollectorKept DEF IInv, CacheInv, CollectorType, Genuine, Key, Written, collectorVars
<1>3. QED
  BY <1>1, <1>2, TypePartsNext DEF IInv, LoginInv

\* Adding the client: its key is still free.
LEMMA AddClientInv ==
    ASSUME IInv, NEW w \in Workers, AddClient(w)
    PROVE  IInv'
<1> DEFINE e == [key |-> Key(want[w]), cred |-> want[w], expires |-> clock + ttl[w]]
<1>0. /\ CacheInv /\ WorkerType /\ CollectorType /\ LogsIn(w) /\ mutex' = NoWorker /\ Returns(w)
      /\ UNCHANGED <<clock, collectorVars>> /\ StillFound /\ Add(e)
  BY TypeParts DEF IInv, AddClient, LogsIn
<1>1. want[w] \in Credentials /\ clock + ttl[w] \in Int
  BY <1>0, BoundAssumption DEF WorkerType, CollectorType, LogsIn
<1>2. e \in Entry /\ Genuine(e) /\ e.key = Key(want[w])
  BY <1>1 DEF Entry, Hashes, Genuine
<1>3. \A i \in 1..Len(lru) : lru[i].key # e.key
  BY <1>0, <1>2 DEF IInv, LoginInv
<1> HIDE DEF e
<1>4. CacheInv'
  BY <1>0, <1>2, <1>3, AddProperties
<1>5. WorkerType' /\ \A v \in Workers : ~LogsIn(v)'
  BY <1>0, ReturnsType, MutexHolder
<1>6. CollectorType' /\ CollectorInv'
  BY <1>0, CollectorKept DEF IInv, CollectorType, collectorVars
<1>7. QED
  BY <1>4, <1>5, <1>6, TypePartsNext DEF IInv, LoginInv

----------------------------------------------------------------------------
(* So do the collector and the clock.                                      *)

\* The collector looks a client up beside a login that holds the mutex; it adds none,
\* and goes on to the next key only from one that has left.
LEMMA GetNextInv ==
    ASSUME IInv, GetNext
    PROVE  IInv'
<1>0. /\ CacheInv /\ WorkerType /\ CollectorType /\ UNCHANGED <<clock, mutex, pc, want, token, ttl>>
      /\ collector = "get" /\ todo # <<>> /\ Get(Head(todo)) /\ StillFound /\ UNCHANGED gauges
  BY TypeParts DEF IInv, GetNext, workerVars
<1>1. /\ CacheInv' /\ \A i \in 1..Len(lru') : \E j \in 1..Len(lru) : lru'[i] = lru[j]
      /\ ~Found(Head(todo)) => \A i \in 1..Len(lru') : lru'[i].key # Head(todo)
      /\ Found(Head(todo)) => Head(todo) \in Hashes
  BY <1>0, GetProperties
<1>2. WorkerType'
  BY <1>0 DEF WorkerType, LogsIn
<1>3. CollectorType'
  BY <1>0 DEF GetNext, CollectorType
<1>4. LoginInv'
  BY <1>0, <1>1 DEF IInv, LoginInv, LogsIn, Key, Written
<1>5. PICK S : todo \in Seq(S)
  BY DEF IInv, CollectorInv
<1>6. CASE Found(Head(todo)) /\ collector' = "session" /\ UNCHANGED todo
  <2>1. \A k \in stayed' : k \in gauges \/ \E i \in 1..Len(todo) : todo[i] = k
    BY <1>0 DEF IInv, CollectorInv, StillFound
  <2>2. CollectorInv'
    BY <1>0, <1>1, <1>5, <1>6, <2>1 DEF CollectorInv
  <2>3. QED
    BY <1>1, <1>2, <1>3, <1>4, <2>2, TypePartsNext DEF IInv
<1>7. CASE ~Found(Head(todo)) /\ todo' = Tail(todo) /\ UNCHANGED collector
  <2>1. /\ Tail(todo) \in Seq(S) /\ Len(Tail(todo)) = Len(todo) - 1 /\ Len(todo) \in Nat
        /\ \A i \in 1..Len(Tail(todo)) : Tail(todo)[i] = todo[i + 1]
        /\ Head(todo) = todo[1]
    BY <1>0, <1>5, HeadTailProperties, LenProperties
  <2>2. ASSUME NEW k \in stayed' PROVE k # Head(todo)
    <3>1. DOMAIN lru' = 1..Len(lru')
      BY <1>1, LenProperties DEF CacheInv
    <3>2. Found(k)'
      BY <1>0, <2>2 DEF StillFound
    <3>3. \E i \in 1..Len(lru') : lru'[i].key = k
      BY <3>1, <3>2 DEF Found
    <3>4. QED
      BY <1>1, <1>7, <3>3
  <2>3. ASSUME NEW k \in stayed', k \notin gauges
        PROVE  \E i \in 1..Len(Tail(todo)) : Tail(todo)[i] = k
    <3>1. PICK i \in 1..Len(todo) : todo[i] = k
      BY <1>0, <2>3 DEF IInv, CollectorInv, StillFound
    <3>2. i # 1
      BY <2>1, <2>2, <2>3, <3>1
    <3>3. i - 1 \in 1..Len(Tail(todo)) /\ Tail(todo)[i - 1] = k
      BY <2>1, <3>1, <3>2
    <3>4. QED
      BY <3>3
  <2>4. CollectorInv'
    BY <1>0, <1>7, <2>1, <2>3 DEF CollectorInv
  <2>5. QED
    BY <1>1, <1>2, <1>3, <1>4, <2>4, TypePartsNext DEF IInv
<1>8. QED
  BY <1>6, <1>7 DEF GetNext

\* The collector's other steps leave the cache alone.
LEMMA CollectInv ==
    ASSUME IInv, CollectMetrics
    PROVE  IInv'
<1>0. CacheInv /\ WorkerType /\ CollectorType /\ CollectorInv /\ LoginInv
  BY TypeParts DEF IInv
<1>1. CASE GetNext
  BY <1>1, GetNextInv
<1>2. CASE ~GetNext
  <2>1. UNCHANGED <<clock, lru, mutex, pc, want, token, ttl>>
    BY <1>2 DEF CollectMetrics, BeginCollection, PublishGauge, SessionFails, EndCollection, workerVars
  <2>2. CacheInv' /\ WorkerType' /\ LoginInv'
    BY <1>0, <2>1 DEF CacheInv, WorkerType, LoginInv, LogsIn, Genuine, Key, Written
  <2>3. CollectorType'
    BY <1>0, <1>2 DEF CollectMetrics, BeginCollection, PublishGauge, SessionFails, EndCollection,
                      CollectorType, CollectorInv
  <2>4. CASE BeginCollection
    <3>1. /\ collector' = "get" /\ todo' = ListKeys
          /\ \A k \in stayed' : Found(k)
      BY <2>4 DEF BeginCollection
    <3>2. QED
      BY <1>0, <2>2, <2>3, <3>1, ListKeysProperties, TypePartsNext DEF IInv, CollectorInv
  <2>5. CASE PublishGauge
    <3>1. PICK S : todo \in Seq(S)
      BY <1>0 DEF CollectorInv
    <3>2. /\ Tail(todo) \in Seq(S) /\ Len(Tail(todo)) = Len(todo) - 1 /\ Len(todo) \in Nat
          /\ \A i \in 1..Len(Tail(todo)) : Tail(todo)[i] = todo[i + 1]
          /\ Head(todo) = todo[1]
      BY <1>0, <2>5, <3>1, HeadTailProperties, LenProperties DEF PublishGauge, CollectorInv
    <3>3. ASSUME NEW k \in stayed, k \notin gauges \cup {Head(todo)}
          PROVE  \E i \in 1..Len(Tail(todo)) : Tail(todo)[i] = k
      <4>1. PICK i \in 1..Len(todo) : todo[i] = k
        BY <1>0, <2>5, <3>3 DEF PublishGauge, CollectorInv
      <4>2. i - 1 \in 1..Len(Tail(todo)) /\ Tail(todo)[i - 1] = k
        BY <3>2, <3>3, <4>1
      <4>3. QED
        BY <4>2
    <3>4. CollectorInv'
      BY <2>5, <3>2, <3>3 DEF PublishGauge, CollectorInv
    <3>5. QED
      BY <2>2, <2>3, <3>4, TypePartsNext DEF IInv
  <2>6. CASE SessionFails \/ EndCollection
    <3>1. collector' = "idle" /\ todo' \in {<<>>, todo}
      BY <2>6 DEF SessionFails, EndCollection
    <3>2. \E S : todo' \in Seq(S)
      BY <1>0, <3>1, EmptySeq DEF CollectorInv
    <3>3. QED
      BY <2>2, <2>3, <3>1, <3>2, TypePartsNext DEF IInv, CollectorInv
  <2>7. QED
    BY <1>2, <2>4, <2>5, <2>6 DEF CollectMetrics
<1>3. QED
  BY <1>1, <1>2

\* Time passes.
LEMMA TickInv ==
    ASSUME IInv, Tick
    PROVE  IInv'
<1>0. /\ CacheInv /\ WorkerType /\ CollectorType
      /\ UNCHANGED <<lru, mutex, pc, want, token, ttl, collectorVars>> /\ StillFound
  BY TypeParts DEF IInv, Tick, workerVars
<1>1. CacheInv' /\ WorkerType' /\ LoginInv' /\ CollectorInv'
  BY <1>0, CollectorKept
     DEF IInv, CacheInv, WorkerType, LoginInv, LogsIn, Genuine, Key, Written
<1>2. clock' \in 0..MaxTime
  BY <1>0, BoundAssumption DEF Tick, CollectorType
<1>3. QED
  BY <1>0, <1>1, <1>2, TypePartsNext DEF IInv, CollectorType, collectorVars

----------------------------------------------------------------------------
(* The theorems.                                                           *)

\* The initial state satisfies the invariant.
LEMMA InitInv ==
    ASSUME Init
    PROVE  IInv
<1>1. CacheInv
  BY EmptySeq, BoundAssumption DEF Init, CacheInv
<1>2. WorkerType
  BY WorkerAssumption DEF Init, WorkerType, LogsIn
<1>3. CollectorType /\ CollectorInv /\ LoginInv
  BY EmptySeq, BoundAssumption DEF Init, CollectorType, CollectorInv, LoginInv, LogsIn
<1>4. QED
  BY <1>1, <1>2, <1>3, TypeParts DEF IInv

\* The inductive invariant holds in every reachable state.
THEOREM Invariance == Spec => []IInv
<1>1. ASSUME IInv, [Next]_vars
      PROVE  IInv'
  <2>1. CASE UNCHANGED vars
    <3>1. UNCHANGED <<clock, lru, mutex, pc, want, token, ttl, collectorVars, stayed>>
      BY <2>1 DEF vars, workerVars
    <3>2. CacheInv /\ WorkerType /\ CollectorType
      BY <1>1, TypeParts DEF IInv
    <3>3. CacheInv' /\ WorkerType' /\ CollectorType' /\ LoginInv' /\ CollectorInv'
      BY <1>1, <3>1, <3>2, CollectorKept
         DEF IInv, CacheInv, WorkerType, CollectorType, LoginInv, LogsIn, Genuine, Key, Written,
             collectorVars
    <3>4. QED
      BY <3>3, TypePartsNext DEF IInv
  <2>2. QED
    BY <1>1, <2>1, ReadSecretInv, LookupInv, LoginStepInv, LoginFailsInv, ComputeTTLInv, AddClientInv,
       CollectInv, TickInv DEF Next, GetVCDClient
<1>2. QED
  BY <1>1, InitInv, PTL DEF Spec

\* Type correctness of ClientCache: the cache never outgrows its capacity, has one
\* entry for a key, and the mutex is held exactly by the worker that logs in.
THEOREM TypeCorrect == Spec => []TypeOK
<1>1. IInv => TypeOK
  BY DEF IInv
<1>2. QED
  BY <1>1, Invariance, PTL

\* ClientMatchesCredentials for any number of workers and credentials and every hash:
\* a worker is given a client of other credentials, be they another tenant's or those
\* of a rotated token, only if their hash is the same.
THEOREM ClientMatchesCredentialsHolds == Spec => []ClientMatchesCredentials
<1>1. ASSUME IInv, NEW c \in Credentials, Found(Key(c))
      PROVE  Sum[Written(Find(lru, Key(c)).cred)] = Sum[Written(c)]
  <2>0. DOMAIN lru = 1..Len(lru) /\ \A i \in 1..Len(lru) : Genuine(lru[i])
    BY <1>1, LenProperties DEF IInv, CacheInv
  <2>1. \E e \in {lru[i] : i \in DOMAIN lru} : e.key = Key(c)
    BY <1>1 DEF Found
  <2>2. Find(lru, Key(c)) \in {lru[i] : i \in DOMAIN lru} /\ Find(lru, Key(c)).key = Key(c)
    BY <2>1 DEF Find
  <2>3. PICK i \in 1..Len(lru) : Find(lru, Key(c)) = lru[i]
    BY <2>0, <2>2
  <2>4. Key(Find(lru, Key(c)).cred) = Key(c)
    BY <2>0, <2>2, <2>3 DEF Genuine
  <2>5. QED
    BY <2>4 DEF Key
<1>2. IInv => ClientMatchesCredentials
  BY <1>1 DEF ClientMatchesCredentials
<1>3. QED
  BY <1>2, Invariance, PTL

\* OneLogin for any number of workers: no two log in with the same credentials at
\* a time, and none while a usable client is cached.
THEOREM OneLoginHolds == Spec => []OneLogin
<1>1. ASSUME IInv, NEW w \in Workers, LogsIn(w)
      PROVE  /\ ~Found(Key(want[w]))
             /\ \A v \in Workers \ {w} : LogsIn(v) => want[v] # want[w]
  <2>1. DOMAIN lru = 1..Len(lru)
    BY <1>1, LenProperties DEF IInv, CacheInv
  <2>2. ~Found(Key(want[w]))
    BY <1>1, <2>1 DEF IInv, LoginInv, Found
  <2>3. QED
    BY <1>1, <2>2, MutexHolder
<1>2. IInv => OneLogin
  BY <1>1 DEF OneLogin
<1>3. QED
  BY <1>2, Invariance, PTL

\* GaugesComplete for any number of workers and any capacity: a collection that goes
\* through publishes every client that was there all the time.
THEOREM GaugesCompleteHolds == Spec => []GaugesComplete
<1>1. ASSUME IInv PROVE GaugesComplete
  <2>1. todo = <<>> => Len(todo) = 0
    BY EmptySeq, LenProperties
  <2>2. QED
    BY <1>1, <2>1 DEF IInv, CollectorInv, GaugesComplete
<1>2. QED
  BY <1>1, Invariance, PTL

=============================================================================
