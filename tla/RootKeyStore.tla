---------------------------- MODULE RootKeyStore ----------------------------
(***************************************************************************)
(* bakery/dbrootkeystore/rootkey.go: instances of a service, each with one *)
(* RootKeys value (a two-generation cache, a current key per policy, a     *)
(* mutex) shared by its goroutines, all over one backing database.         *)
(*                                                                         *)
(* Get holds the mutex across its database call; RootKey takes it twice,   *)
(* around the cache lookup and around the final update, and queries and    *)
(* inserts without it.  Between any two steps the clock may advance, other *)
(* goroutines may run, expired keys may be purged from the database, and a *)
(* whole instance may be restarted.                                        *)
(*                                                                         *)
(* The database is external (mgorootkeystore, postgresrootkeystore and     *)
(* their servers): reads and writes are atomic there, any call may fail,   *)
(* and a call that was abandoned (runWithContext returns on ctx.Done while *)
(* its goroutine goes on) may still insert its key afterwards.             *)
(***************************************************************************)
EXTENDS RootKeys, FiniteSets

CONSTANTS
  Instances,       \* processes of the service, each with one RootKeys
  Home,            \* [Threads -> Instances]
  Absent,          \* "no such entry" in a cache map
  NoThread,        \* holder of an unlocked mutex
  MaxCacheSize,    \* NewRootKeys's maxCacheSize
  MaxPolicyCache   \* the constant maxPolicyCache (100 in the code)

ASSUME RootKeyStoreAssumption ==
  /\ Home \in [Threads -> Instances]
  /\ NoThread \notin Threads
  /\ Absent \notin Key \cup {ZeroKey}
  /\ MaxCacheSize \in Nat
  /\ MaxPolicyCache \in Nat

VARIABLES
  now, issued, call, reply,   \* as in RootKeyService
  db,         \* keys in the database
  inflight,   \* keys whose abandoned insert may still take effect
  minted,     \* every key generateKey has made (history)
  mu,         \* [Instances -> Threads \cup {NoThread}]
  cache,      \* [Instances -> [AllIds -> Entry]]
  oldCache,   \* likewise: the previous generation
  current,    \* [Instances -> [Policies -> Key or ZeroKey]], ZeroKey: no entry
  pc,         \* [Threads -> PC]: where each caller is in its method
  tmp,        \* [Threads -> Key or ZeroKey]: its local variable key
  asked       \* [Threads -> Nat]: findBestRootKey's local variable now

backingVars == <<db, inflight>>
cacheVars == <<cache, oldCache, current>>
localVars == <<pc, tmp, asked>>
vars == <<now, issued, call, reply, backingVars, minted, mu, cacheVars, localVars>>

AllIds == Ids \cup BogusIds
Entry == Key \cup {ZeroKey, Absent}
PC == {"idle", "get", "getdb", "getcheck",
       "rootkey", "find", "query", "generate", "insert", "install"}

Free(i) == mu[i] = NoThread
EmptyCache == [id \in AllIds |-> Absent]
NoCurrent == [p \in Policies |-> ZeroKey]
Cached(c) == {id \in AllIds : c[id] # Absent}
CacheLen(c) == Cardinality(Cached(c))
Unexpired(k) == now <= k.expires

-----------------------------------------------------------------------------
(* The helpers of RootKeys, called with s.mu locked. *)

\* Mutant: the size is tested with > instead of >=.
AddCacheLate(i, id, k) ==
  IF CacheLen(cache[i]) > MaxCacheSize
  THEN /\ oldCache' = [oldCache EXCEPT ![i] = cache[i]]
       /\ cache' = [cache EXCEPT ![i] = [EmptyCache EXCEPT ![id] = k]]
  ELSE /\ cache' = [cache EXCEPT ![i][id] = k]
       /\ UNCHANGED oldCache

AddCache(i, id, k) ==
  IF CacheLen(cache[i]) >= MaxCacheSize
  THEN /\ oldCache' = [oldCache EXCEPT ![i] = cache[i]]
       /\ cache' = [cache EXCEPT ![i] = [EmptyCache EXCEPT ![id] = k]]
  ELSE /\ cache' = [cache EXCEPT ![i][id] = k]
       /\ UNCHANGED oldCache

SetCurrent(i, p, k) ==
  current' = [current EXCEPT ![i] =
    IF Cardinality({q \in Policies : current[i][q] # ZeroKey}) > MaxPolicyCache
    THEN [NoCurrent EXCEPT ![p] = k]
    ELSE [current[i] EXCEPT ![p] = k]]

(* A call ends: its answer is delivered and its local variables are gone. *)
Return(t, kind, k) ==
  /\ call' = [call EXCEPT ![t] = NoCall]
  /\ reply' = [reply EXCEPT ![t] = [kind |-> kind, key |-> k]]
  /\ pc' = [pc EXCEPT ![t] = "idle"]
  /\ tmp' = [tmp EXCEPT ![t] = ZeroKey]
  /\ asked' = [asked EXCEPT ![t] = 0]

Goto(t, label) == pc' = [pc EXCEPT ![t] = label]

-----------------------------------------------------------------------------
Init ==
  /\ now = 0
  /\ issued = {}
  /\ call = [t \in Threads |-> NoCall]
  /\ reply = [t \in Threads |-> NoReply]
  /\ db = {}
  /\ inflight = {}
  /\ minted = {}
  /\ mu = [i \in Instances |-> NoThread]
  /\ cache = [i \in Instances |-> EmptyCache]
  /\ oldCache = [i \in Instances |-> EmptyCache]
  /\ current = [i \in Instances |-> NoCurrent]
  /\ pc = [t \in Threads |-> "idle"]
  /\ tmp = [t \in Threads |-> ZeroKey]
  /\ asked = [t \in Threads |-> 0]

-----------------------------------------------------------------------------
(* store.Get *)

\* A client can only know the id of a key that was issued, or make one up.
StartGet(t, id) ==
  /\ pc[t] = "idle"
  /\ id \in BogusIds \cup {k.id : k \in issued}
  /\ call' = [call EXCEPT ![t] = [op |-> "get", id |-> id]]
  /\ reply' = [reply EXCEPT ![t] = NoReply]
  /\ Goto(t, "get")
  /\ UNCHANGED <<now, issued, backingVars, minted, mu, cacheVars, tmp, asked>>

\* Mutant: the expiry time is not looked at.
FinishGetUnexpiring(t, k, cached) ==
  /\ IF cached THEN UNCHANGED <<cache, oldCache>> ELSE AddCache(Home[t], call[t].id, k)
  /\ Return(t, IF IsValid(k) THEN "key" ELSE "notfound", k)
  /\ mu' = [mu EXCEPT ![Home[t]] = NoThread]

\* The end of RootKeys.get: an expired key becomes the zero key, and what
\* was found, the zero key included, is remembered unless it came from cache.
FinishGet(t, k, cached) ==
  LET i == Home[t]
      id == call[t].id
      live == IsValid(k) /\ Unexpired(k)
      key == IF live THEN k ELSE ZeroKey
  IN  /\ IF cached THEN UNCHANGED <<cache, oldCache>> ELSE AddCache(i, id, key)
      /\ Return(t, IF live THEN "key" ELSE "notfound", key)
      /\ mu' = [mu EXCEPT ![i] = NoThread]

\* Found in a cache generation: the whole call runs under the mutex.
GetCached(t) ==
  LET i == Home[t]
      id == call[t].id
      inCache == cache[i][id] # Absent
  IN  /\ pc[t] = "get"
      /\ Free(i)
      /\ inCache \/ oldCache[i][id] # Absent
      /\ FinishGet(t, IF inCache THEN cache[i][id] ELSE oldCache[i][id], inCache)
      /\ UNCHANGED <<now, issued, backingVars, minted, current>>

\* In neither generation: ask the backing, with the mutex held.
GetMiss(t) ==
  /\ pc[t] = "get"
  /\ Free(Home[t])
  /\ cache[Home[t]][call[t].id] = Absent
  /\ oldCache[Home[t]][call[t].id] = Absent
  /\ mu' = [mu EXCEPT ![Home[t]] = t]
  /\ Goto(t, "getdb")
  /\ UNCHANGED <<now, issued, call, reply, backingVars, minted, cacheVars, tmp, asked>>

GetKeyContext(t) ==
  /\ pc[t] = "getdb"
  /\ \/ \E k \in db : k.id = call[t].id /\ tmp' = [tmp EXCEPT ![t] = k]
     \/ /\ \A k \in db : k.id # call[t].id
        /\ tmp' = [tmp EXCEPT ![t] = ZeroKey]
  /\ Goto(t, "getcheck")
  /\ UNCHANGED <<now, issued, call, reply, backingVars, minted, mu, cacheVars, asked>>

\* Mutant: any error is taken for ErrNotFound, and remembered.
GetKeyErrorRemembered(t) ==
  /\ pc[t] = "getdb"
  /\ FinishGet(t, ZeroKey, FALSE)
  /\ UNCHANGED <<now, issued, backingVars, minted, current>>

\* Mutant: the error return leaves the mutex locked.
GetKeyErrorLocked(t) ==
  /\ pc[t] = "getdb"
  /\ Return(t, "error", ZeroKey)
  /\ UNCHANGED <<now, issued, backingVars, minted, mu, cacheVars>>

\* An error that is not ErrNotFound is returned and nothing is remembered.
GetKeyError(t) ==
  /\ pc[t] = "getdb"
  /\ Return(t, "error", ZeroKey)
  /\ mu' = [mu EXCEPT ![Home[t]] = NoThread]
  /\ UNCHANGED <<now, issued, backingVars, minted, cacheVars>>

GetFetched(t) ==
  /\ pc[t] = "getcheck"
  /\ FinishGet(t, tmp[t], FALSE)
  /\ UNCHANGED <<now, issued, backingVars, minted, current>>

-----------------------------------------------------------------------------
(* store.RootKey *)

ReturnRootKey(t, k) == Return(t, "key", k) /\ issued' = issued \cup {k}

StartRootKey(t, p) ==
  /\ pc[t] = "idle"
  /\ call' = [call EXCEPT ![t] = [op |-> "rootkey", policy |-> p, start |-> now]]
  /\ reply' = [reply EXCEPT ![t] = NoReply]
  /\ Goto(t, "rootkey")
  /\ UNCHANGED <<now, issued, backingVars, minted, mu, cacheVars, tmp, asked>>

\* The cached keys rootKeyFromCache may choose from: the newest that fit.
Newest(S) == {k \in S : \A j \in S : j.created <= k.created}
Usable(i, p) ==
  {k \in {cache[i][id] : id \in AllIds} \ {ZeroKey, Absent} : IsValidWithPolicy(k, p, now)}

\* s.keys.current[s.policy] still fits.
RootKeyCurrent(t) ==
  LET k == current[Home[t]][call[t].policy]
  IN  /\ pc[t] = "rootkey"
      /\ Free(Home[t])
      /\ IsValidWithPolicy(k, call[t].policy, now)
      /\ ReturnRootKey(t, k)
      /\ UNCHANGED <<now, backingVars, minted, mu, cacheVars>>

\* It does not, but a key in s.keys.cache does: make that one current.
RootKeyFromCache(t) ==
  LET i == Home[t]
      p == call[t].policy
  IN  /\ pc[t] = "rootkey"
      /\ Free(i)
      /\ ~ IsValidWithPolicy(current[i][p], p, now)
      /\ \E k \in Newest(Usable(i, p)) :
           /\ current' = [current EXCEPT ![i][p] = k]
           /\ ReturnRootKey(t, k)
      /\ UNCHANGED <<now, backingVars, minted, mu, cache, oldCache>>

RootKeyMiss(t) ==
  /\ pc[t] = "rootkey"
  /\ Free(Home[t])
  /\ ~ IsValidWithPolicy(current[Home[t]][call[t].policy], call[t].policy, now)
  /\ Usable(Home[t], call[t].policy) = {}
  /\ Goto(t, "find")
  /\ UNCHANGED <<now, issued, call, reply, backingVars, minted, mu, cacheVars, tmp, asked>>

\* findBestRootKey computes its bounds from the clock ...
FindBestRootKey(t) ==
  /\ pc[t] = "find"
  /\ asked' = [asked EXCEPT ![t] = now]
  /\ Goto(t, "query")
  /\ UNCHANGED <<now, issued, call, reply, backingVars, minted, mu, cacheVars, tmp>>

\* Mutant: the zero key, the answer when nothing fits, is taken for a key.
FindLatestKeyUnchecked(t) ==
  LET fit == {k \in db : IsValidWithPolicy(k, call[t].policy, asked[t])}
  IN  /\ pc[t] = "query"
      /\ \E k \in IF fit = {} THEN {ZeroKey} ELSE Newest(fit) : tmp' = [tmp EXCEPT ![t] = k]
      /\ Goto(t, "install")
      /\ UNCHANGED <<now, issued, call, reply, backingVars, minted, mu, cacheVars, asked>>

\* ... and the backing answers later, by those bounds.
FindLatestKey(t) ==
  LET fit == {k \in db : IsValidWithPolicy(k, call[t].policy, asked[t])}
  IN  /\ pc[t] = "query"
      /\ \/ /\ \E k \in Newest(fit) : tmp' = [tmp EXCEPT ![t] = k]
            /\ Goto(t, "install")
         \/ /\ fit = {}
            /\ Goto(t, "generate")
            /\ UNCHANGED tmp
      /\ UNCHANGED <<now, issued, call, reply, backingVars, minted, mu, cacheVars, asked>>

GenerateKey(t) ==
  LET p == call[t].policy
  IN  /\ pc[t] = "generate"
      /\ \E id \in Ids \ {k.id : k \in minted} :
           LET k == [id |-> id, created |-> now, expires |-> now + p.exp + p.gen]
           IN  /\ tmp' = [tmp EXCEPT ![t] = k]
               /\ minted' = minted \cup {k}
      /\ Goto(t, "insert")
      /\ UNCHANGED <<now, issued, call, reply, backingVars, mu, cacheVars, asked>>

\* Mutant: an insert that failed is taken for one that succeeded.
InsertKeyUnchecked(t) ==
  /\ pc[t] = "insert"
  /\ db' \in {db, db \cup {tmp[t]}}
  /\ Goto(t, "install")
  /\ UNCHANGED <<now, issued, call, reply, inflight, minted, mu, cacheVars, tmp, asked>>

InsertKey(t) ==
  /\ pc[t] = "insert"
  /\ db' = db \cup {tmp[t]}
  /\ Goto(t, "install")
  /\ UNCHANGED <<now, issued, call, reply, inflight, minted, mu, cacheVars, tmp, asked>>

\* The query, the random source or the insert failed; a failed insert has
\* either had no effect or may still have one.
RootKeyError(t) ==
  /\ pc[t] \in {"query", "generate", "insert"}
  /\ \/ inflight' = inflight
     \/ pc[t] = "insert" /\ inflight' = inflight \cup {tmp[t]}
  /\ Return(t, "error", ZeroKey)
  /\ UNCHANGED <<now, issued, db, minted, mu, cacheVars>>

\* Last, under the mutex: remember the key and make it current.
RootKeyInstall(t) ==
  /\ pc[t] = "install"
  /\ Free(Home[t])
  /\ AddCache(Home[t], tmp[t].id, tmp[t])
  /\ SetCurrent(Home[t], call[t].policy, tmp[t])
  /\ ReturnRootKey(t, tmp[t])
  /\ UNCHANGED <<now, backingVars, minted, mu>>

-----------------------------------------------------------------------------
(* The environment *)

Tick ==
  /\ now < MaxTime
  /\ now' = now + 1
  /\ UNCHANGED <<issued, call, reply, backingVars, minted, mu, cacheVars, localVars>>

\* The Mongo TTL index and the Postgres trigger delete expired keys.
Purge(k) ==
  /\ k \in db
  /\ k.expires < now
  /\ db' = db \ {k}
  /\ UNCHANGED <<now, issued, call, reply, inflight, minted, mu, cacheVars, localVars>>

\* An abandoned insert takes effect, or never will.
LateInsert(k) ==
  /\ k \in inflight
  /\ inflight' = inflight \ {k}
  /\ db' \in {db, db \cup {k}}
  /\ UNCHANGED <<now, issued, call, reply, minted, mu, cacheVars, localVars>>

\* An instance stops, with an insert possibly on its way, and starts afresh.
Restart(i) ==
  LET T == {t \in Threads : Home[t] = i}
  IN  /\ \E lost \in SUBSET {t \in T : pc[t] = "insert"} :
           inflight' = inflight \cup {tmp[t] : t \in lost}
      /\ call' = [t \in Threads |-> IF t \in T THEN NoCall ELSE call[t]]
      /\ reply' = [t \in Threads |-> IF t \in T THEN NoReply ELSE reply[t]]
      /\ pc' = [t \in Threads |-> IF t \in T THEN "idle" ELSE pc[t]]
      /\ tmp' = [t \in Threads |-> IF t \in T THEN ZeroKey ELSE tmp[t]]
      /\ asked' = [t \in Threads |-> IF t \in T THEN 0 ELSE asked[t]]
      /\ mu' = [mu EXCEPT ![i] = NoThread]
      /\ cache' = [cache EXCEPT ![i] = EmptyCache]
      /\ oldCache' = [oldCache EXCEPT ![i] = EmptyCache]
      /\ current' = [current EXCEPT ![i] = NoCurrent]
      /\ UNCHANGED <<now, issued, db, minted>>

-----------------------------------------------------------------------------
\* The next statement of the call t is in; each takes the branch that applies.
Lock(t) == GetCached(t) \/ GetMiss(t) \/ RootKeyCurrent(t) \/ RootKeyFromCache(t)
             \/ RootKeyMiss(t) \/ RootKeyInstall(t)
Work(t) == GetKeyContext(t) \/ GetKeyError(t) \/ GetFetched(t) \/ FindBestRootKey(t)
             \/ FindLatestKey(t) \/ GenerateKey(t) \/ InsertKey(t) \/ RootKeyError(t)

Next ==
  \/ \E t \in Threads :
       \/ \E id \in AllIds : StartGet(t, id)
       \/ \E p \in Policies : StartRootKey(t, p)
       \/ Lock(t)
       \/ Work(t)
  \/ Tick
  \/ \E k \in minted : Purge(k) \/ LateInsert(k)
  \/ \E i \in Instances : Restart(i)

Spec == Init /\ [][Next]_vars

\* A goroutine keeps running and the backing answers each call or fails it
\* (weak fairness of Work); sync.Mutex hands the lock to every waiter in the
\* end (strong fairness of Lock).
FairSpec == Spec /\ \A t \in Threads : WF_vars(Work(t)) /\ SF_vars(Lock(t))

-----------------------------------------------------------------------------
(* What the reader of the code should be able to rely on. *)

\* Type invariant: the range of every field, map and local variable of
\* RootKeys, store.Get and store.RootKey.
TypeOK ==
  /\ now \in Nat
  /\ issued \subseteq Key
  /\ call \in [Threads -> Call]
  /\ reply \in [Threads -> Reply]
  /\ db \subseteq Key /\ inflight \subseteq Key /\ minted \subseteq Key
  /\ mu \in [Instances -> Threads \cup {NoThread}]
  /\ cache \in [Instances -> [AllIds -> Entry]]
  /\ oldCache \in [Instances -> [AllIds -> Entry]]
  /\ current \in [Instances -> [Policies -> Key \cup {ZeroKey}]]
  /\ pc \in [Threads -> PC]
  /\ tmp \in [Threads -> Key \cup {ZeroKey}]
  /\ asked \in [Threads -> Nat]

\* store.go: a key "should remain available for as long as the macaroons
\* using them are valid".  Until it expires, every key RootKey has answered
\* with is in the database, and no cache of any instance holds anything
\* else for its id, a remembered "not found" in particular: whatever the
\* interleaving, the restarts, the failed and the abandoned calls.
IssuedKeysFindable ==
  \A k \in issued : Unexpired(k) =>
    /\ k \in db
    /\ \A i \in Instances : /\ cache[i][k.id] \in {Absent, k}
                            /\ oldCache[i][k.id] \in {Absent, k}

CacheLimit == IF MaxCacheSize = 0 THEN 1 ELSE MaxCacheSize

\* NewRootKeys: the cache "is limited in size to approximately the given
\* size": no generation ever holds more than maxCacheSize entries (one, when
\* maxCacheSize is zero), negative entries included.
CacheBounded ==
  \A i \in Instances : CacheLen(cache[i]) <= CacheLimit /\ CacheLen(oldCache[i]) <= CacheLimit

\* A goroutine in RootKey or Get answers what RootKeyService allows:
\* the caches, the database and the mutex are invisible to callers.
Service == INSTANCE RootKeyService
ImplementsService == Service!Spec

\* Every call returns: no path, the error paths included, leaves the mutex
\* locked or waits for something that never comes.
CallsReturn == \A t \in Threads : (pc[t] # "idle") ~> (pc[t] = "idle")

\* rootkey.go, the comment on Policy.ExpiryDuration: "the minimum length of
\* time that root keys will be valid for after they are returned from RootKey".
ValidAfterReturn ==
  [][\A t \in Threads :
       call[t].op = "rootkey" /\ reply'[t].kind = "key" /\ reply[t].kind = "none"
         => reply'[t].key.expires >= now + call[t].policy.exp]_vars

-----------------------------------------------------------------------------
(* The inductive invariant behind IssuedKeysFindable and ImplementsService. *)

\* A key that can be read from the database for as long as it matters.
Stored(k) == k \in db \/ ~ Unexpired(k)

\* An id for which "not found" is, and stays, the right answer.
Dead(id) == id \in BogusIds \/ \E k \in minted : k.id = id /\ ~ Unexpired(k)

\* Every key in the system was made by one generateKey, in the past.
MintedInv ==
  /\ \A j, k \in minted : j.id = k.id => j = k
  /\ \A k \in minted : k.created <= now
  /\ db \subseteq minted /\ inflight \subseteq minted /\ issued \subseteq minted
  /\ \A t \in Threads : tmp[t] \in minted \cup {ZeroKey}

GetPC == {"get", "getdb", "getcheck"}
RootKeyPC == {"rootkey", "find", "query", "generate", "insert", "install"}

\* What caller t's local variables hold at each point of Get and RootKey.
CallerInv(t) ==
  /\ pc[t] = "idle" => call[t] = NoCall
  /\ pc[t] \in GetPC =>
       call[t] \in GetCall /\ call[t].id \in BogusIds \cup {k.id : k \in issued}
  /\ pc[t] = "getcheck" =>
       \/ tmp[t] = ZeroKey /\ Dead(call[t].id)
       \/ tmp[t] \in minted /\ tmp[t].id = call[t].id /\ Stored(tmp[t])
  /\ pc[t] \in RootKeyPC => call[t] \in RootKeyCall /\ call[t].start <= now
  /\ pc[t] = "query" => call[t].start <= asked[t] /\ asked[t] <= now
  /\ pc[t] \in {"insert", "install"} =>
       /\ tmp[t] \in minted
       /\ \E at \in call[t].start .. now : IsValidWithPolicy(tmp[t], call[t].policy, at)
  /\ pc[t] = "install" => Stored(tmp[t])

CallInv == \A t \in Threads : CallerInv(t)

\* What a cache may say of an id.
GoodEntry(id, e) ==
  \/ e = Absent
  \/ e = ZeroKey /\ Dead(id)
  \/ e \in minted /\ e.id = id /\ Stored(e)

CacheInv ==
  \A i \in Instances :
    /\ \A id \in AllIds : GoodEntry(id, cache[i][id]) /\ GoodEntry(id, oldCache[i][id])
    /\ \A p \in Policies : \/ current[i][p] = ZeroKey
                           \/ current[i][p] \in minted /\ Stored(current[i][p])

IssuedInv == \A k \in issued : Stored(k)

\* Everything a method reads, remembers or answers is durable: the key is in
\* the database until it expires, and "not found" is said of dead ids only.
DurableInv == TypeOK /\ MintedInv /\ CallInv /\ CacheInv /\ IssuedInv
=============================================================================
