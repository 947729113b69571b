---------------------------- MODULE ClientCache ----------------------------
(***************************************************************************)
(* The cache of VCD clients both controllers share                         *)
(* (util/clientcache/clientcache.go) and the collector that publishes its  *)
(* contents as gauges (util/clientcache/metrics.go, main.go).              *)
(*                                                                         *)
(* GetVCDClient looks a client up, or logs in to VCD and adds one, under   *)
(* one mutex. The collector calls the cache without that mutex; each call  *)
(* of the cache (k8s.io/apimachinery LRUExpireCache) is atomic.            *)
(***************************************************************************)
EXTENDS Integers, Sequences, FiniteSets

CONSTANTS
    Workers,      \* goroutines that call GetVCDClient
    NoWorker,     \* holds the mutex when nobody does
    Credentials,  \* contents of complete identity Secrets: url, token, org
    Sum,          \* the 32 bit hash of what is written to it; nothing is assumed of it
    NoCredentials,
    Capacity,     \* clients the cache holds
    Lifetimes,    \* of the access tokens that VCD issues
    MaxTime       \* bound on the clock

ASSUME WorkerAssumption == NoWorker \notin Workers
ASSUME CredentialAssumption ==
    /\ NoCredentials \notin Credentials
    /\ Credentials \subseteq [url: Seq(0..255), token: Seq(0..255), org: Seq(0..255)]
ASSUME BoundAssumption ==
    Capacity \in Nat \ {0} /\ Lifetimes \subseteq Nat /\ MaxTime \in Nat

VARIABLES
    clock,
    lru,       \* the cache, from least to most recently used: [key, cred, expires] with
               \* the credentials that the client logged in with
    mutex,     \* the worker that holds clientCacheProvider.mutex
    pc,        \* of each worker
    want,      \* the credentials it read
    token,     \* when the access token it was given expires, 0 if it needs none
    ttl,       \* the time to live it computed from that
    collector, \* what the collector does next
    todo,      \* keys the collector has still to look at
    gauges,    \* keys with an access_key_ttl gauge
    snapshot,  \* history: the cache when the collection began; empty once a worker
               \* has touched the cache since, and when nothing is collected
    stayed     \* history: keys that could be found then and in every state since

workerVars == <<mutex, pc, want, token, ttl>>
collectorVars == <<collector, todo, gauges>>
vars == <<clock, lru, workerVars, collectorVars, snapshot, stayed>>

Init ==
    /\ clock = 0 /\ lru = <<>> /\ mutex = NoWorker
    /\ pc = [w \in Workers |-> "idle"]
    /\ want = [w \in Workers |-> NoCredentials]
    /\ token = [w \in Workers |-> 0] /\ ttl = [w \in Workers |-> 0]
    /\ collector = "idle" /\ todo = <<>> /\ gauges = {} /\ snapshot = <<>> /\ stayed = {}

----------------------------------------------------------------------------
(* LRUExpireCache.                                                         *)

\* The entries that have not expired, in their order.
Live(entries) ==
    LET at == {i \in DOMAIN entries : entries[i].expires >= clock}
        Nth(n) == CHOOSE i \in at : Cardinality({j \in at : j <= i}) = n
    IN [n \in 1..Cardinality(at) |-> entries[Nth(n)]]

KeysOf(entries) == {entries[i].key : i \in DOMAIN entries}
Find(entries, k) == CHOOSE e \in {entries[i] : i \in DOMAIN entries} : e.key = k

\* The entries without that of key k, if there is one; keys are unique.
Others(entries, k) ==
    LET at == {i \in DOMAIN entries : entries[i].key = k} IN
    IF at = {} THEN entries
    ELSE [i \in 1..(Len(entries) - 1) |-> entries[IF \E j \in at : j <= i THEN i + 1 ELSE i]]

Found(k) == \E i \in DOMAIN lru : lru[i].key = k /\ lru[i].expires >= clock

\* Get makes the entry the most recently used one, or drops it if it has expired.
Get(k) == lru' = IF Found(k) THEN Append(Others(lru, k), Find(lru, k)) ELSE Others(lru, k)

\* Mutant: nothing is evicted.
AddNoEviction(e) == lru' = Append(lru, e)

\* Add of a key that is not cached evicts the least recently used entry.
Add(e) == lru' = Append(IF Len(lru) >= Capacity THEN Tail(lru) ELSE lru, e)

\* Mutant: the keys come from most to least recently used.
ListKeysReversed == LET live == Live(lru) IN [i \in DOMAIN live |-> live[Len(live) + 1 - i].key]

ListKeys == LET live == Live(lru) IN [i \in DOMAIN live |-> live[i].key]

----------------------------------------------------------------------------
(* GetVCDClient.                                                           *)

\* The three fields are written one after the other, without anything between them.
Written(c) == c.url \o c.token \o c.org

\* Mutant: the API token is not written.
KeyIgnoresToken(c) ==
    LET same == {d \in Credentials : d.url = c.url /\ d.org = c.org} IN
    Sum[Written(CHOOSE d \in same : TRUE)]

Key(c) == Sum[Written(c)]

Step(w, p) == pc' = [pc EXCEPT ![w] = p]

\* GetVCDClient returns, with or without a client.
Returns(w) ==
    /\ Step(w, "idle") /\ want' = [want EXCEPT ![w] = NoCredentials]
    /\ token' = [token EXCEPT ![w] = 0] /\ ttl' = [ttl EXCEPT ![w] = 0]

\* What becomes of the history when the cache or the clock changes.
StillFound == stayed' = {k \in stayed : Found(k)'}

\* The identity Secret is read and hashed before the mutex is taken. (One that
\* cannot be read, or lacks a key, makes GetVCDClient return at once.)
ReadSecret(w) ==
    /\ pc[w] = "idle" /\ Step(w, "lock")
    /\ \E c \in Credentials : want' = [want EXCEPT ![w] = c]
    /\ UNCHANGED <<clock, lru, mutex, token, ttl, collectorVars, snapshot, stayed>>

\* Mutant: the mutex guards the lookup only.
LookupUnlocks(w) ==
    LET k == Key(want[w]) IN
    /\ pc[w] = "lock" /\ mutex = NoWorker /\ Get(k) /\ snapshot' = <<>>
    /\ \/ Found(k) /\ Returns(w)
       \/ ~Found(k) /\ Step(w, "login") /\ UNCHANGED <<want, token, ttl>>
    /\ UNCHANGED <<clock, mutex, collectorVars>> /\ StillFound

\* With the mutex taken: a hit returns the cached client, a miss keeps the mutex for
\* the login.
Lookup(w) ==
    LET k == Key(want[w]) IN
    /\ pc[w] = "lock" /\ mutex = NoWorker /\ Get(k) /\ snapshot' = <<>>
    /\ \/ Found(k) /\ Returns(w) /\ UNCHANGED mutex
       \/ ~Found(k) /\ Step(w, "login") /\ mutex' = w /\ UNCHANGED <<want, token, ttl>>
    /\ UNCHANGED <<clock, collectorVars>> /\ StillFound

\* SetApiToken.
Login(w) ==
    /\ pc[w] = "login" /\ Step(w, "ttl")
    /\ \E d \in Lifetimes : token' = [token EXCEPT ![w] = clock + d]
    /\ UNCHANGED <<clock, lru, mutex, want, ttl, collectorVars, snapshot, stayed>>

\* Mutant: an error returns without unlocking.
LoginFailsLocked(w) ==
    /\ pc[w] \in {"login", "ttl"} /\ Returns(w)
    /\ UNCHANGED <<clock, lru, mutex, collectorVars, snapshot, stayed>>

\* An error of SetApiToken, or a token that cannot be parsed.
LoginFails(w) ==
    /\ pc[w] \in {"login", "ttl"} /\ Returns(w) /\ mutex' = NoWorker
    /\ UNCHANGED <<clock, lru, collectorVars, snapshot, stayed>>

\* getTokenRemainingTTL: what is left, by the local clock, of the token's life;
\* negative for a token that has expired already.
ComputeTTL(w) ==
    /\ pc[w] = "ttl" /\ Step(w, "add") /\ ttl' = [ttl EXCEPT ![w] = token[w] - clock]
    /\ token' = [token EXCEPT ![w] = 0]
    /\ UNCHANGED <<clock, lru, mutex, want, collectorVars, snapshot, stayed>>

\* Add reads the clock anew: the entry outlives the token by the time since
\* ComputeTTL.
AddClient(w) ==
    /\ pc[w] = "add" /\ Returns(w) /\ mutex' = NoWorker /\ snapshot' = <<>>
    /\ Add([key |-> Key(want[w]), cred |-> want[w], expires |-> clock + ttl[w]])
    /\ UNCHANGED <<clock, collectorVars>> /\ StillFound

GetVCDClient(w) ==
    ReadSecret(w) \/ Lookup(w) \/ Login(w) \/ LoginFails(w) \/ ComputeTTL(w) \/ AddClient(w)

----------------------------------------------------------------------------
(* CollectMetrics, at every tick of the ticker that main starts.           *)

BeginCollection ==
    /\ collector = "idle" /\ collector' = "get"
    /\ gauges' = {} /\ todo' = ListKeys
    /\ snapshot' = lru /\ stayed' = {k \in KeysOf(lru) : Found(k)}
    /\ UNCHANGED <<clock, lru, workerVars>>

\* Mutant: a client that is not there any more ends the collection.
GetNextStops ==
    /\ collector = "get" /\ todo # <<>> /\ Get(Head(todo))
    /\ \/ Found(Head(todo)) /\ collector' = "session" /\ UNCHANGED todo
       \/ ~Found(Head(todo)) /\ todo' = <<>> /\ UNCHANGED collector
    /\ UNCHANGED <<clock, workerVars, gauges, snapshot>> /\ StillFound

\* The client may have been evicted or have expired since it was listed.
GetNext ==
    /\ collector = "get" /\ todo # <<>> /\ Get(Head(todo))
    /\ \/ Found(Head(todo)) /\ collector' = "session" /\ UNCHANGED todo
       \/ ~Found(Head(todo)) /\ todo' = Tail(todo) /\ UNCHANGED collector
    /\ UNCHANGED <<clock, workerVars, gauges, snapshot>> /\ StillFound

\* GetSessionInfo is a request to VCD; an error ends the collection.
PublishGauge ==
    /\ collector = "session" /\ collector' = "get"
    /\ gauges' = gauges \cup {Head(todo)} /\ todo' = Tail(todo)
    /\ UNCHANGED <<clock, lru, workerVars, snapshot, stayed>>

SessionFails ==
    /\ collector = "session" /\ collector' = "idle" /\ todo' = <<>>
    /\ snapshot' = <<>> /\ stayed' = {}
    /\ UNCHANGED <<clock, lru, workerVars, gauges>>

EndCollection ==
    /\ collector = "get" /\ todo = <<>> /\ collector' = "idle"
    /\ snapshot' = <<>> /\ stayed' = {}
    /\ UNCHANGED <<clock, lru, workerVars, todo, gauges>>

CollectMetrics == BeginCollection \/ GetNext \/ PublishGauge \/ SessionFails \/ EndCollection

----------------------------------------------------------------------------

Tick ==
    /\ clock < MaxTime /\ clock' = clock + 1 /\ UNCHANGED lru
    /\ UNCHANGED <<workerVars, collectorVars, snapshot>> /\ StillFound

Next == (\E w \in Workers : GetVCDClient(w)) \/ CollectMetrics \/ Tick

\* A sync.Mutex starves no waiter for ever, and every request to VCD ends.
Fairness ==
    \A w \in Workers :
        /\ SF_vars(Lookup(w))
        /\ WF_vars(Login(w) \/ LoginFails(w) \/ ComputeTTL(w) \/ AddClient(w))

Spec == Init /\ [][Next]_vars
FairSpec == Spec /\ Fairness

----------------------------------------------------------------------------
(* Properties.                                                             *)

LogsIn(w) == pc[w] \in {"login", "ttl", "add"}

\* Type invariant: the cache has no more entries than it may and no two of one
\* key, and the mutex is held exactly by a worker that logs in.
TypeOK ==
    /\ clock \in 0..MaxTime
    /\ Len(lru) <= Capacity
    /\ \A i \in DOMAIN lru : lru[i].cred \in Credentials /\ lru[i].expires \in Int
    /\ \A i, j \in DOMAIN lru : lru[i].key = lru[j].key => i = j
    /\ mutex \in Workers \cup {NoWorker}
    /\ pc \in [Workers -> {"idle", "lock", "login", "ttl", "add"}]
    /\ \A w \in Workers : mutex = w <=> LogsIn(w)
    /\ want \in [Workers -> Credentials \cup {NoCredentials}]
    /\ token \in [Workers -> Nat] /\ ttl \in [Workers -> Int]
    /\ \A w \in Workers : pc[w] # "idle" => want[w] \in Credentials
    /\ collector \in {"idle", "get", "session"}
    /\ gauges \subseteq {Key(c) : c \in Credentials}

\* For whatever credentials a Secret holds, the client that a lookup would return
\* has logged in with them, also after the Secret's token was rotated and while
\* other tenants' clients come and go. The one exception are credentials whose url,
\* token and organization, written together, have the same 32 bit hash: they share
\* a client.
ClientMatchesCredentials ==
    \A c \in Credentials : Found(Key(c)) =>
        LET d == Find(lru, Key(c)).cred IN d = c \/ Sum[Written(d)] = Sum[Written(c)]

\* A worker never logs in with credentials for which a usable client is cached or
\* which another worker is logging in with: the lookup still holds true when the
\* login ends.
OneLogin ==
    \A w \in Workers : LogsIn(w) =>
        /\ ~Found(Key(want[w]))
        /\ \A v \in Workers \ {w} : LogsIn(v) => want[v] # want[w]

\* When a collection has gone through the keys it listed, every client that was
\* cached when it began and has been ever since has its gauge, whatever workers
\* looked up, evicted and added in the meantime and whatever has expired.
GaugesComplete == collector = "get" /\ todo = <<>> => stayed \subseteq gauges

\* A collection that went through while no worker used the cache leaves the clients
\* in the order in which they will be evicted, although it gets every one of
\* them, and publishes a gauge for all of them and for no client that had left.
CollectionTransparent ==
    [][collector = "get" /\ collector' = "idle" /\ snapshot # <<>> =>
          /\ Live(lru) = Live(snapshot)
          /\ KeysOf(Live(lru)) \subseteq gauges /\ gauges \subseteq KeysOf(snapshot)]_vars

\* Every call of GetVCDClient returns, whoever holds the mutex and whether or not
\* the login succeeds.
EveryCallReturns == \A w \in Workers : pc[w] = "lock" ~> pc[w] = "idle"

=============================================================================
