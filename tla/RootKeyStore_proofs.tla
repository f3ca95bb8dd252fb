------------------------- MODULE RootKeyStore_proofs -------------------------
(***************************************************************************)
(* Theorems about RootKeyStore for any number of instances, goroutines,    *)
(* keys and policies, any cache size and any bound on the clock.           *)
(*                                                                         *)
(*   TypeCorrect        Spec => []TypeOK                                   *)
(*   Durable            Spec => []DurableInv, the inductive invariant      *)
(*   KeysFindable       Spec => []IssuedKeysFindable, which follows        *)
(*   Implements         Spec => Service!Spec                               *)
(*   CacheIsBounded     Spec => []CacheBounded                             *)
(***************************************************************************)
EXTENDS RootKeyStore, FiniteSetTheorems, TLAPS

-----------------------------------------------------------------------------
(* Types. *)

LEMMA PolicyType == Policies \subseteq [gen : Nat, exp : Nat]
BY RootKeysAssumption DEF Policies, NewStorePolicy

\* Named because the provers need the record of a call as a whole.
LEMMA CallTypes ==
  /\ NoCall \in Call /\ NoReply \in Reply
  /\ \A id \in AllIds : [op |-> "get", id |-> id] \in GetCall
  /\ \A p \in Policies, n \in Nat :
       [op |-> "rootkey", policy |-> p, start |-> n] \in RootKeyCall
  /\ GetCall \subseteq Call /\ RootKeyCall \subseteq Call
BY DEF Call, NoCall, GetCall, RootKeyCall, NoReply, Reply, AllIds

LEMMA ZeroKeyNotKey == ZeroKey \notin Key
BY RootKeysAssumption DEF ZeroKey, Key

\* AddCache and SetCurrent keep the maps' types.
LEMMA AddCacheType ==
  ASSUME TypeOK, NEW i \in Instances, NEW id \in AllIds,
         NEW k \in Key \cup {ZeroKey}, AddCache(i, id, k)
  PROVE  /\ cache' \in [Instances -> [AllIds -> Entry]]
         /\ oldCache' \in [Instances -> [AllIds -> Entry]]
<1>1. EmptyCache \in [AllIds -> Entry]
  BY DEF EmptyCache, Entry
<1>2. k \in Entry
  BY DEF Entry
<1>3. CASE CacheLen(cache[i]) >= MaxCacheSize
  <2>1. [EmptyCache EXCEPT ![id] = k] \in [AllIds -> Entry]
    BY <1>1, <1>2
  <2>2. cache[i] \in [AllIds -> Entry]
    BY DEF TypeOK
  <2> QED
    BY <1>3, <2>1, <2>2 DEF AddCache, TypeOK
<1>4. CASE ~ (CacheLen(cache[i]) >= MaxCacheSize)
  <2>1. /\ cache' = [cache EXCEPT ![i][id] = k]
        /\ oldCache' = oldCache
    BY <1>4 DEF AddCache
  <2> QED
    BY <1>2, <2>1 DEF TypeOK
<1> QED
  BY <1>3, <1>4

LEMMA SetCurrentType ==
  ASSUME TypeOK, NEW i \in Instances, NEW p \in Policies,
         NEW k \in Key, SetCurrent(i, p, k)
  PROVE  current' \in [Instances -> [Policies -> Key \cup {ZeroKey}]]
BY DEF SetCurrent, NoCurrent, TypeOK

LEMMA ReturnType ==
  ASSUME TypeOK, NEW t \in Threads, NEW k \in Key \cup {ZeroKey},
         NEW kind \in {"key", "notfound", "error"}, Return(t, kind, k)
  PROVE  /\ call' \in [Threads -> Call]
         /\ reply' \in [Threads -> Reply]
         /\ pc' \in [Threads -> PC]
         /\ tmp' \in [Threads -> Key \cup {ZeroKey}]
         /\ asked' \in [Threads -> Nat]
<1>1. [kind |-> kind, key |-> k] \in Reply
  BY DEF Reply
<1> QED
  BY <1>1, CallTypes DEF Return, TypeOK, PC

\* What CallInv says of the types of a running call.
LEMMA RunningCall ==
  ASSUME DurableInv, NEW t \in Threads
  PROVE  /\ Home[t] \in Instances
         /\ pc[t] \in GetPC => call[t] \in GetCall /\ call[t].id \in AllIds
         /\ pc[t] \in RootKeyPC =>
              /\ call[t] \in RootKeyCall
              /\ call[t].policy \in Policies
              /\ call[t].policy.gen \in Nat /\ call[t].policy.exp \in Nat
              /\ call[t].start \in Nat
         /\ pc[t] \in {"insert", "install"} => tmp[t] \in Key /\ tmp[t].id \in AllIds
<1>1. Home[t] \in Instances
  BY RootKeyStoreAssumption
<1>2. CallerInv(t) /\ minted \subseteq Key
  BY DEF DurableInv, CallInv, TypeOK
<1>3. ASSUME pc[t] \in GetPC PROVE call[t] \in GetCall /\ call[t].id \in AllIds
  BY <1>2, <1>3 DEF CallerInv, GetCall, AllIds
<1>4. ASSUME pc[t] \in RootKeyPC
      PROVE  /\ call[t] \in RootKeyCall
             /\ call[t].policy \in Policies
             /\ call[t].policy.gen \in Nat /\ call[t].policy.exp \in Nat
             /\ call[t].start \in Nat
  <2>1. call[t] \in RootKeyCall
    BY <1>2, <1>4 DEF CallerInv
  <2>2. call[t].policy \in Policies /\ call[t].start \in Nat
    BY <2>1 DEF RootKeyCall
  <2> QED
    BY <2>1, <2>2, PolicyType
<1>5. ASSUME pc[t] \in {"insert", "install"} PROVE tmp[t] \in Key /\ tmp[t].id \in AllIds
  BY <1>2, <1>5 DEF CallerInv, Key, AllIds
<1> QED
  BY <1>1, <1>3, <1>4, <1>5

\* The common end of Get, for a key the cache or the backing answered.
LEMMA FinishGetType ==
  ASSUME DurableInv, NEW t \in Threads, pc[t] \in GetPC, NEW k \in Key \cup {ZeroKey},
         NEW cached \in BOOLEAN, FinishGet(t, k, cached),
         UNCHANGED <<now, issued, backingVars, minted, current>>
  PROVE  TypeOK'
<1> DEFINE live == IsValid(k) /\ Unexpired(k)
           key == IF live THEN k ELSE ZeroKey
<1>1. TypeOK /\ Home[t] \in Instances /\ call[t].id \in AllIds
  BY RunningCall DEF DurableInv
<1>2. key \in Key \cup {ZeroKey}
  OBVIOUS
<1>3. /\ IF cached THEN UNCHANGED <<cache, oldCache>> ELSE AddCache(Home[t], call[t].id, key)
      /\ Return(t, IF live THEN "key" ELSE "notfound", key)
      /\ mu' = [mu EXCEPT ![Home[t]] = NoThread]
  BY DEF FinishGet
<1>4. cache' \in [Instances -> [AllIds -> Entry]] /\ oldCache' \in [Instances -> [AllIds -> Entry]]
  BY <1>1, <1>2, <1>3, AddCacheType DEF TypeOK
<1>5. /\ call' \in [Threads -> Call] /\ reply' \in [Threads -> Reply]
      /\ pc' \in [Threads -> PC] /\ tmp' \in [Threads -> Key \cup {ZeroKey}]
      /\ asked' \in [Threads -> Nat]
  <2>1. (IF live THEN "key" ELSE "notfound") \in {"key", "notfound", "error"}
    OBVIOUS
  <2> HIDE DEF live, key
  <2> QED
    BY <1>1, <1>2, <1>3, <2>1, ReturnType
<1>6. mu' \in [Instances -> Threads \cup {NoThread}]
  BY <1>1, <1>3 DEF TypeOK
<1> QED
  BY <1>1, <1>4, <1>5, <1>6 DEF TypeOK, backingVars

LEMMA TypeStep == DurableInv /\ [Next]_vars => TypeOK'
<1> SUFFICES ASSUME DurableInv, [Next]_vars PROVE TypeOK'
  OBVIOUS
<1> USE DEF backingVars, cacheVars, localVars
<1>0. TypeOK
  BY DEF DurableInv
<1>1. ASSUME NEW t \in Threads, NEW id \in AllIds, StartGet(t, id) PROVE TypeOK'
  BY <1>0, <1>1, CallTypes DEF StartGet, Goto, TypeOK, PC
<1>2. ASSUME NEW t \in Threads, NEW p \in Policies, StartRootKey(t, p) PROVE TypeOK'
  BY <1>0, <1>2, CallTypes DEF StartRootKey, Goto, TypeOK, PC
<1>3. ASSUME NEW t \in Threads, GetCached(t) PROVE TypeOK'
  <2> DEFINE c == cache[Home[t]][call[t].id]
             o == oldCache[Home[t]][call[t].id]
             k == IF c # Absent THEN c ELSE o
  <2>1. /\ pc[t] \in GetPC
        /\ c # Absent \/ o # Absent
        /\ FinishGet(t, k, c # Absent)
        /\ UNCHANGED <<now, issued, backingVars, minted, current>>
    BY <1>3 DEF GetCached, GetPC
  <2>2. c \in Entry /\ o \in Entry
    BY <1>0, <2>1, RunningCall DEF TypeOK
  <2>3. k \in Key \cup {ZeroKey}
    BY <2>1, <2>2 DEF Entry
  <2> HIDE DEF k
  <2> QED
    BY <2>1, <2>3, FinishGetType
<1>4. ASSUME NEW t \in Threads, GetMiss(t) PROVE TypeOK'
  BY <1>0, <1>4, RunningCall DEF GetMiss, Goto, TypeOK, PC
<1>5. ASSUME NEW t \in Threads, RootKeyCurrent(t) PROVE TypeOK'
  <2> DEFINE k == current[Home[t]][call[t].policy]
  <2>1. ReturnRootKey(t, k) /\ IsValid(k) /\ k \in Key \cup {ZeroKey}
    BY <1>0, <1>5, RunningCall
       DEF RootKeyCurrent, IsValidWithPolicy, TypeOK, RootKeyPC
  <2>2. k \in Key
    BY <2>1 DEF IsValid, ZeroKey
  <2> QED
    BY <1>0, <1>5, <2>1, <2>2, ReturnType DEF RootKeyCurrent, ReturnRootKey, TypeOK
<1>6. ASSUME NEW t \in Threads, RootKeyFromCache(t) PROVE TypeOK'
  <2>1. PICK k \in Newest(Usable(Home[t], call[t].policy)) :
          /\ current' = [current EXCEPT ![Home[t]][call[t].policy] = k]
          /\ ReturnRootKey(t, k)
    BY <1>6 DEF RootKeyFromCache
  <2>2. k \in Key
    BY <1>0, RunningCall DEF Newest, Usable, TypeOK, Entry
  <2> QED
    BY <1>0, <1>6, <2>1, <2>2, ReturnType, RunningCall
       DEF RootKeyFromCache, ReturnRootKey, TypeOK, RootKeyPC
<1>7. ASSUME NEW t \in Threads, RootKeyMiss(t) PROVE TypeOK'
  BY <1>0, <1>7 DEF RootKeyMiss, Goto, TypeOK, PC
<1>8. ASSUME NEW t \in Threads, RootKeyInstall(t) PROVE TypeOK'
  <2>1. /\ Home[t] \in Instances /\ call[t].policy \in Policies
        /\ tmp[t] \in Key /\ tmp[t].id \in AllIds
    BY <1>8, RunningCall DEF RootKeyInstall, RootKeyPC
  <2>2. cache' \in [Instances -> [AllIds -> Entry]] /\ oldCache' \in [Instances -> [AllIds -> Entry]]
    BY <1>0, <1>8, <2>1, AddCacheType DEF RootKeyInstall
  <2>3. current' \in [Instances -> [Policies -> Key \cup {ZeroKey}]]
    BY <1>0, <1>8, <2>1, SetCurrentType DEF RootKeyInstall
  <2> QED
    BY <1>0, <1>8, <2>1, <2>2, <2>3, ReturnType DEF RootKeyInstall, ReturnRootKey, TypeOK
<1>9. ASSUME NEW t \in Threads, GetKeyContext(t) PROVE TypeOK'
  BY <1>0, <1>9 DEF GetKeyContext, Goto, TypeOK, PC
<1>10. ASSUME NEW t \in Threads, GetKeyError(t) PROVE TypeOK'
  BY <1>0, <1>10, ReturnType, RunningCall DEF GetKeyError, TypeOK
<1>11. ASSUME NEW t \in Threads, GetFetched(t) PROVE TypeOK'
  <2>1. /\ pc[t] \in GetPC /\ FinishGet(t, tmp[t], FALSE)
        /\ UNCHANGED <<now, issued, backingVars, minted, current>>
    BY <1>11 DEF GetFetched, GetPC
  <2> QED
    BY <1>0, <2>1, FinishGetType DEF TypeOK
<1>12. ASSUME NEW t \in Threads, FindBestRootKey(t) PROVE TypeOK'
  BY <1>0, <1>12 DEF FindBestRootKey, Goto, TypeOK, PC
<1>13. ASSUME NEW t \in Threads, FindLatestKey(t) PROVE TypeOK'
  <2>1. tmp' \in [Threads -> Key \cup {ZeroKey}]
    BY <1>0, <1>13 DEF FindLatestKey, Newest, TypeOK
  <2>2. pc' \in [Threads -> PC]
    BY <1>0, <1>13 DEF FindLatestKey, Goto, TypeOK, PC
  <2> QED
    BY <1>0, <1>13, <2>1, <2>2 DEF FindLatestKey, TypeOK
<1>14. ASSUME NEW t \in Threads, GenerateKey(t) PROVE TypeOK'
  <2> DEFINE p == call[t].policy
  <2>1. PICK id \in Ids \ {k.id : k \in minted} :
          /\ tmp' = [tmp EXCEPT ![t] = [id |-> id, created |-> now, expires |-> now + p.exp + p.gen]]
          /\ minted' = minted \cup {[id |-> id, created |-> now, expires |-> now + p.exp + p.gen]}
    BY <1>14 DEF GenerateKey
  <2>2. [id |-> id, created |-> now, expires |-> now + p.exp + p.gen] \in Key
    BY <1>0, <1>14, RunningCall DEF GenerateKey, RootKeyPC, Key, TypeOK
  <2>3. pc' \in [Threads -> PC]
    BY <1>0, <1>14 DEF GenerateKey, Goto, TypeOK, PC
  <2> HIDE DEF p
  <2> QED
    BY <1>0, <1>14, <2>1, <2>2, <2>3 DEF GenerateKey, TypeOK
<1>15. ASSUME NEW t \in Threads, InsertKey(t) PROVE TypeOK'
  <2>1. tmp[t] \in Key
    BY <1>15, RunningCall DEF InsertKey
  <2> QED
    BY <1>0, <1>15, <2>1 DEF InsertKey, Goto, TypeOK, PC
<1>16. ASSUME NEW t \in Threads, RootKeyError(t) PROVE TypeOK'
  <2>1. inflight' \subseteq Key
    BY <1>0, <1>16, RunningCall DEF RootKeyError, TypeOK
  <2> QED
    BY <1>0, <1>16, <2>1, ReturnType DEF RootKeyError, TypeOK
<1>17. ASSUME Tick PROVE TypeOK'
  BY <1>0, <1>17 DEF Tick, TypeOK
<1>18. ASSUME NEW k \in minted, Purge(k) PROVE TypeOK'
  BY <1>0, <1>18 DEF Purge, TypeOK
<1>19. ASSUME NEW k \in minted, LateInsert(k) PROVE TypeOK'
  BY <1>0, <1>19 DEF LateInsert, TypeOK
<1>20. ASSUME NEW i \in Instances, Restart(i) PROVE TypeOK'
  <2>1. inflight' \subseteq Key
    <3>1. PICK lost \in SUBSET {t \in {u \in Threads : Home[u] = i} : pc[t] = "insert"} :
            inflight' = inflight \cup {tmp[t] : t \in lost}
      BY <1>20 DEF Restart
    <3>2. \A t \in lost : tmp[t] \in Key
      BY RunningCall
    <3> QED
      BY <1>0, <3>1, <3>2 DEF TypeOK
  <2>2. /\ call' \in [Threads -> Call] /\ reply' \in [Threads -> Reply]
        /\ pc' \in [Threads -> PC] /\ tmp' \in [Threads -> Key \cup {ZeroKey}]
        /\ asked' \in [Threads -> Nat]
    BY <1>0, <1>20, CallTypes DEF Restart, TypeOK, PC
  <2>3. /\ cache' \in [Instances -> [AllIds -> Entry]]
        /\ oldCache' \in [Instances -> [AllIds -> Entry]]
        /\ current' \in [Instances -> [Policies -> Key \cup {ZeroKey}]]
        /\ mu' \in [Instances -> Threads \cup {NoThread}]
    BY <1>0, <1>20 DEF Restart, TypeOK, EmptyCache, NoCurrent, Entry
  <2> QED
    BY <1>0, <1>20, <2>1, <2>2, <2>3 DEF Restart, TypeOK
<1>21. CASE UNCHANGED vars
  BY <1>0, <1>21 DEF vars, TypeOK
<1> QED
  BY <1>1, <1>2, <1>3, <1>4, <1>5, <1>6, <1>7, <1>8, <1>9, <1>10, <1>11, <1>12,
     <1>13, <1>14, <1>15, <1>16, <1>17, <1>18, <1>19, <1>20, <1>21
     DEF Next, Lock, Work

-----------------------------------------------------------------------------
(* What no step undoes. *)

\* Nothing that is durable stops being durable: keys stay minted and issued,
\* a stored key stays stored until it expires, a dead id stays dead.
Lasting ==
  /\ now' \in Nat /\ now <= now'
  /\ minted \subseteq minted' /\ issued \subseteq issued'
  /\ \A k \in Key : Stored(k) => Stored(k)'
  /\ \A id \in AllIds : Dead(id) => Dead(id)'

LEMMA LastingStep == DurableInv /\ [Next]_vars => Lasting
<1> SUFFICES ASSUME DurableInv, [Next]_vars PROVE Lasting
  OBVIOUS
<1> USE DEF backingVars, cacheVars, localVars
<1>0. TypeOK /\ TypeOK'
  BY TypeStep DEF DurableInv
<1>1. now <= now' /\ minted \subseteq minted' /\ issued \subseteq issued'
  <2>1. now' = now \/ now' = now + 1
    BY DEF Next, vars, Lock, Work, StartGet, StartRootKey, GetCached, GetMiss,
     GetKeyContext, GetKeyError, GetFetched, RootKeyCurrent, RootKeyFromCache,
     RootKeyMiss, RootKeyInstall, FindBestRootKey, FindLatestKey, GenerateKey,
     InsertKey, RootKeyError, Tick, Purge, LateInsert, Restart
  <2>2. minted \subseteq minted'
    BY DEF Next, vars, Lock, Work, StartGet, StartRootKey, GetCached, GetMiss,
     GetKeyContext, GetKeyError, GetFetched, RootKeyCurrent, RootKeyFromCache,
     RootKeyMiss, RootKeyInstall, FindBestRootKey, FindLatestKey, GenerateKey,
     InsertKey, RootKeyError, Tick, Purge, LateInsert, Restart
  <2>3. issued \subseteq issued'
    BY DEF Next, vars, Lock, Work, StartGet, StartRootKey, GetCached, GetMiss,
     GetKeyContext, GetKeyError, GetFetched, RootKeyCurrent, RootKeyFromCache,
     RootKeyMiss, RootKeyInstall, FindBestRootKey, FindLatestKey, GenerateKey,
     InsertKey, RootKeyError, ReturnRootKey, Tick, Purge, LateInsert, Restart
  <2> QED
    BY <1>0, <2>1, <2>2, <2>3 DEF TypeOK
<1>2. \A k \in db : k \in db' \/ k.expires < now
  BY DEF Next, vars, Lock, Work, StartGet, StartRootKey, GetCached, GetMiss,
     GetKeyContext, GetKeyError, GetFetched, RootKeyCurrent, RootKeyFromCache,
     RootKeyMiss, RootKeyInstall, FindBestRootKey, FindLatestKey, GenerateKey,
     InsertKey, RootKeyError, Tick, Purge, LateInsert, Restart
<1>3. \A k \in Key : ~ Unexpired(k) => ~ Unexpired(k)'
  BY <1>0, <1>1 DEF Unexpired, Key, TypeOK
<1>4. \A k \in Key : Stored(k) => Stored(k)'
  <2> SUFFICES ASSUME NEW k \in Key, Stored(k) PROVE Stored(k)'
    OBVIOUS
  <2>1. CASE k \in db
    <3>1. k.expires < now => ~ Unexpired(k)
      BY <1>0 DEF Unexpired, Key, TypeOK
    <3> QED
      BY <1>2, <1>3, <2>1, <3>1 DEF Stored
  <2>2. CASE ~ Unexpired(k)
    BY <1>3, <2>2 DEF Stored
  <2> QED
    BY <2>1, <2>2 DEF Stored
<1>5. \A id \in AllIds : Dead(id) => Dead(id)'
  BY <1>0, <1>1, <1>3 DEF Dead, TypeOK
<1> QED
  BY <1>0, <1>1, <1>4, <1>5 DEF Lasting, TypeOK

-----------------------------------------------------------------------------
(* Preservation, one part of DurableInv at a time. *)

LEMMA MintedStep == DurableInv /\ [Next]_vars => MintedInv'
<1> SUFFICES ASSUME DurableInv, [Next]_vars PROVE MintedInv'
  OBVIOUS
<1> USE DEF backingVars, cacheVars, localVars
<1>0. TypeOK /\ MintedInv /\ Lasting
  BY LastingStep DEF DurableInv
<1>1. ASSUME NEW t \in Threads, NEW id \in AllIds, StartGet(t, id) PROVE MintedInv'
  BY <1>0, <1>1 DEF StartGet, MintedInv
<1>2. ASSUME NEW t \in Threads, NEW p \in Policies, StartRootKey(t, p) PROVE MintedInv'
  BY <1>0, <1>2 DEF StartRootKey, MintedInv
<1>3. ASSUME NEW t \in Threads, GetCached(t) \/ GetFetched(t) PROVE MintedInv'
  <2>1. PICK kind, k : Return(t, kind, k)
    BY <1>3 DEF GetCached, GetFetched, FinishGet
  <2>2. UNCHANGED <<now, issued, backingVars, minted>>
    BY <1>3 DEF GetCached, GetFetched
  <2> QED
    BY <1>0, <2>1, <2>2 DEF Return, MintedInv, TypeOK
<1>4. ASSUME NEW t \in Threads, GetMiss(t) \/ RootKeyMiss(t) \/ FindBestRootKey(t) PROVE MintedInv'
  BY <1>0, <1>4 DEF GetMiss, RootKeyMiss, FindBestRootKey, MintedInv
<1>5. ASSUME NEW t \in Threads, NEW k \in minted, ReturnRootKey(t, k),
             UNCHANGED <<now, backingVars, minted>>
      PROVE  MintedInv'
  BY <1>0, <1>5 DEF ReturnRootKey, Return, MintedInv, TypeOK
<1>6. ASSUME NEW t \in Threads, RootKeyCurrent(t) PROVE MintedInv'
  <2>1. current[Home[t]][call[t].policy] \in minted
    BY <1>6, RunningCall
       DEF RootKeyCurrent, IsValidWithPolicy, IsValid, ZeroKey, RootKeyPC, CacheInv, DurableInv
  <2> QED
    BY <1>5, <1>6, <2>1 DEF RootKeyCurrent
<1>7. ASSUME NEW t \in Threads, RootKeyFromCache(t) PROVE MintedInv'
  <2>1. PICK k \in Newest(Usable(Home[t], call[t].policy)) : ReturnRootKey(t, k)
    BY <1>7 DEF RootKeyFromCache
  <2>2. k \in minted
    BY RunningCall DEF Newest, Usable, CacheInv, GoodEntry, DurableInv
  <2> QED
    BY <1>5, <1>7, <2>1, <2>2 DEF RootKeyFromCache
<1>8. ASSUME NEW t \in Threads, RootKeyInstall(t) PROVE MintedInv'
  BY <1>5, <1>8 DEF RootKeyInstall, CallInv, CallerInv, DurableInv
<1>9. ASSUME NEW t \in Threads, GetKeyContext(t) \/ FindLatestKey(t) PROVE MintedInv'
  BY <1>0, <1>9 DEF GetKeyContext, FindLatestKey, Newest, MintedInv, TypeOK
<1>10. ASSUME NEW t \in Threads, GetKeyError(t) PROVE MintedInv'
  BY <1>0, <1>10 DEF GetKeyError, Return, MintedInv, TypeOK
<1>11. ASSUME NEW t \in Threads, GenerateKey(t) PROVE MintedInv'
  <2> DEFINE p == call[t].policy
  <2>1. PICK id \in Ids \ {k.id : k \in minted} :
          /\ tmp' = [tmp EXCEPT ![t] = [id |-> id, created |-> now, expires |-> now + p.exp + p.gen]]
          /\ minted' = minted \cup {[id |-> id, created |-> now, expires |-> now + p.exp + p.gen]}
    BY <1>11 DEF GenerateKey
  <2>2. now' = now /\ now <= now
    BY <1>0, <1>11 DEF GenerateKey, TypeOK
  <2> HIDE DEF p
  <2> QED
    BY <1>0, <1>11, <2>1, <2>2 DEF GenerateKey, MintedInv, TypeOK
<1>12. ASSUME NEW t \in Threads, InsertKey(t) PROVE MintedInv'
  BY <1>0, <1>12 DEF InsertKey, MintedInv, CallInv, CallerInv, DurableInv
<1>13. ASSUME NEW t \in Threads, RootKeyError(t) PROVE MintedInv'
  <2>1. inflight' \subseteq minted
    BY <1>0, <1>13 DEF RootKeyError, MintedInv, CallInv, CallerInv, DurableInv
  <2> QED
    BY <1>0, <1>13, <2>1 DEF RootKeyError, Return, MintedInv, TypeOK
<1>14. ASSUME Tick PROVE MintedInv'
  BY <1>0, <1>14 DEF Tick, MintedInv, TypeOK, Key
<1>15. ASSUME NEW k \in minted, Purge(k) \/ LateInsert(k) PROVE MintedInv'
  BY <1>0, <1>15 DEF Purge, LateInsert, MintedInv
<1>16. ASSUME NEW i \in Instances, Restart(i) PROVE MintedInv'
  <2>1. PICK lost \in SUBSET {t \in {u \in Threads : Home[u] = i} : pc[t] = "insert"} :
          inflight' = inflight \cup {tmp[t] : t \in lost}
    BY <1>16 DEF Restart
  <2>2. \A t \in lost : tmp[t] \in minted
    BY DEF CallInv, CallerInv, DurableInv
  <2> QED
    BY <1>0, <1>16, <2>1, <2>2 DEF Restart, MintedInv
<1>17. CASE UNCHANGED vars
  BY <1>0, <1>17 DEF vars, MintedInv
<1> QED
  BY <1>1, <1>2, <1>3, <1>4, <1>6, <1>7, <1>8, <1>9, <1>10, <1>11, <1>12,
     <1>13, <1>14, <1>15, <1>16, <1>17 DEF Next, Lock, Work

\* The key a RootKey call is about to answer with is stored.
LEMMA AnsweredKeyStored ==
  ASSUME DurableInv, NEW t \in Threads
  PROVE  /\ RootKeyCurrent(t) =>
              LET k == current[Home[t]][call[t].policy]
              IN  k \in minted /\ Stored(k)
         /\ RootKeyFromCache(t) =>
              \A k \in Newest(Usable(Home[t], call[t].policy)) : k \in minted /\ Stored(k)
         /\ RootKeyInstall(t) => tmp[t] \in minted /\ Stored(tmp[t])
<1>1. RootKeyCurrent(t) => LET k == current[Home[t]][call[t].policy]
                           IN  k \in minted /\ Stored(k)
  BY RunningCall
     DEF RootKeyCurrent, IsValidWithPolicy, IsValid, ZeroKey, RootKeyPC, CacheInv, DurableInv
<1>2. RootKeyFromCache(t) =>
        \A k \in Newest(Usable(Home[t], call[t].policy)) : k \in minted /\ Stored(k)
  BY RunningCall DEF Newest, Usable, CacheInv, GoodEntry, DurableInv
<1>3. RootKeyInstall(t) => tmp[t] \in minted /\ Stored(tmp[t])
  BY DEF RootKeyInstall, CallInv, CallerInv, DurableInv
<1> QED
  BY <1>1, <1>2, <1>3

LEMMA IssuedStep == DurableInv /\ [Next]_vars => IssuedInv'
<1> SUFFICES ASSUME DurableInv, [Next]_vars PROVE IssuedInv'
  OBVIOUS
<1>0. /\ issued \subseteq Key /\ minted \subseteq Key
      /\ \A k \in Key : Stored(k) => Stored(k)'
      /\ \A k \in issued : Stored(k)
  BY LastingStep DEF Lasting, DurableInv, TypeOK, IssuedInv
<1>1. ASSUME NEW t \in Threads, NEW k \in minted, Stored(k), ReturnRootKey(t, k)
      PROVE  IssuedInv'
  BY <1>0, <1>1 DEF ReturnRootKey, IssuedInv
<1>2. ASSUME NEW t \in Threads, RootKeyCurrent(t) \/ RootKeyFromCache(t) \/ RootKeyInstall(t)
      PROVE  IssuedInv'
  BY <1>1, <1>2, AnsweredKeyStored DEF RootKeyCurrent, RootKeyFromCache, RootKeyInstall
<1>3. CASE issued' = issued
  BY <1>0, <1>3 DEF IssuedInv
<1> QED
  BY <1>2, <1>3 DEF Next, vars, Lock, Work, StartGet, StartRootKey, GetCached, GetMiss,
     GetKeyContext, GetKeyError, GetFetched, RootKeyMiss, FindBestRootKey, FindLatestKey,
     GenerateKey, InsertKey, RootKeyError, Tick, Purge, LateInsert, Restart

\* GoodEntry in the next state, of an entry that is a value.
GoodAfter(id, e) ==
  \/ e = Absent
  \/ e = ZeroKey /\ Dead(id)'
  \/ e \in minted' /\ e.id = id /\ (e \in db' \/ ~ now' <= e.expires)

\* A good entry stays good.
LEMMA GoodEntryLasts ==
  ASSUME TypeOK, Lasting, NEW id \in AllIds, NEW e, GoodEntry(id, e)
  PROVE  GoodAfter(id, e)
BY DEF GoodEntry, GoodAfter, Lasting, TypeOK, Stored, Unexpired

CachesGood ==
  \A i \in Instances, id \in AllIds :
    GoodEntry(id, cache[i][id]) /\ GoodEntry(id, oldCache[i][id])

CurrentGood ==
  \A i \in Instances, p \in Policies :
    \/ current[i][p] = ZeroKey
    \/ current[i][p] \in minted /\ Stored(current[i][p])

LEMMA AddCacheGood ==
  ASSUME TypeOK, CacheInv, Lasting, NEW i \in Instances, NEW id \in AllIds, NEW k,
         GoodAfter(id, k), AddCache(i, id, k)
  PROVE  CachesGood'
<1>1. ASSUME NEW j \in Instances, NEW x \in AllIds
      PROVE  /\ GoodAfter(x, cache'[j][x]) /\ GoodAfter(x, oldCache'[j][x])
  <2>1. GoodAfter(x, cache[j][x]) /\ GoodAfter(x, oldCache[j][x])
    BY GoodEntryLasts DEF CacheInv
  <2>2. GoodAfter(x, Absent)
    BY DEF GoodAfter
  <2>3. cache \in [Instances -> [AllIds -> Entry]] /\ oldCache \in [Instances -> [AllIds -> Entry]]
    BY DEF TypeOK
  <2>4. oldCache'[j][x] \in {oldCache[j][x], cache[j][x]}
    BY <2>3 DEF AddCache
  <2>5. \/ cache'[j][x] = cache[j][x]
        \/ cache'[j][x] = Absent
        \/ x = id /\ cache'[j][x] = k
    <3>1. CASE CacheLen(cache[i]) >= MaxCacheSize
      <4>1. cache' = [cache EXCEPT ![i] = [EmptyCache EXCEPT ![id] = k]]
        BY <3>1 DEF AddCache
      <4>2. \A y \in AllIds : [EmptyCache EXCEPT ![id] = k][y] = IF y = id THEN k ELSE Absent
        BY DEF EmptyCache
      <4> QED
        BY <2>3, <4>1, <4>2
    <3>2. CASE ~ (CacheLen(cache[i]) >= MaxCacheSize)
      <4>1. cache' = [cache EXCEPT ![i][id] = k]
        BY <3>2 DEF AddCache
      <4> QED
        BY <2>3, <4>1
    <3> QED
      BY <3>1, <3>2
  <2> QED
    BY <2>1, <2>2, <2>4, <2>5
<1> QED
  BY <1>1 DEF CachesGood, GoodAfter, GoodEntry, Stored, Unexpired

LEMMA CachesSame ==
  ASSUME TypeOK, CacheInv, Lasting, UNCHANGED <<cache, oldCache>>
  PROVE  CachesGood'
<1>1. ASSUME NEW j \in Instances, NEW x \in AllIds
      PROVE  /\ GoodAfter(x, cache'[j][x]) /\ GoodAfter(x, oldCache'[j][x])
  BY GoodEntryLasts DEF CacheInv
<1> QED
  BY <1>1 DEF CachesGood, GoodAfter, GoodEntry, Stored, Unexpired

LEMMA CurrentSame ==
  ASSUME TypeOK, CacheInv, Lasting, UNCHANGED current
  PROVE  CurrentGood'
BY DEF CacheInv, CurrentGood, Lasting, TypeOK

\* What Get remembers at its end is right, whether the key came from the old
\* generation or from the database.
LEMMA FinishGetGood ==
  ASSUME DurableInv, Lasting, NEW t \in Threads, pc[t] \in GetPC, NEW k, NEW cached \in BOOLEAN,
         GoodEntry(call[t].id, k), k # Absent, FinishGet(t, k, cached),
         UNCHANGED <<now, db, minted>>
  PROVE  CachesGood'
<1> DEFINE live == IsValid(k) /\ Unexpired(k)
           key == IF live THEN k ELSE ZeroKey
           id == call[t].id
<1>1. TypeOK /\ CacheInv /\ Home[t] \in Instances /\ id \in AllIds
  BY RunningCall DEF DurableInv
<1>2. GoodEntry(id, key)
  <2>1. CASE live
    BY <2>1
  <2>2. CASE ~ live
    <3>1. k \in minted => IsValid(k)
      BY <1>1, RootKeysAssumption DEF TypeOK, Key, IsValid
    <3>2. Dead(id)
      BY <2>2, <3>1 DEF GoodEntry, Dead
    <3> QED
      BY <2>2, <3>2 DEF GoodEntry
  <2> QED
    BY <2>1, <2>2
<1>3. GoodAfter(id, key)
  BY <1>1, <1>2, GoodEntryLasts
<1>4. IF cached THEN UNCHANGED <<cache, oldCache>> ELSE AddCache(Home[t], id, key)
  BY DEF FinishGet
<1> HIDE DEF live, key, id
<1> QED
  BY <1>1, <1>3, <1>4, AddCacheGood, CachesSame

LEMMA CacheStep == DurableInv /\ [Next]_vars => CacheInv'
<1> SUFFICES ASSUME DurableInv, [Next]_vars PROVE CachesGood' /\ CurrentGood'
  BY DEF CacheInv, CachesGood, CurrentGood
<1> USE DEF backingVars, cacheVars, localVars
<1>0. TypeOK /\ CacheInv /\ Lasting
  BY LastingStep DEF DurableInv
<1>1. ASSUME UNCHANGED <<cache, oldCache, current>> PROVE CachesGood' /\ CurrentGood'
  BY <1>0, <1>1, CachesSame, CurrentSame
<1>2. ASSUME NEW t \in Threads, GetCached(t) PROVE CachesGood' /\ CurrentGood'
  <2> DEFINE c == cache[Home[t]][call[t].id]
             o == oldCache[Home[t]][call[t].id]
             k == IF c # Absent THEN c ELSE o
  <2>1. /\ pc[t] \in GetPC /\ k # Absent
        /\ FinishGet(t, k, c # Absent)
        /\ UNCHANGED <<now, db, minted>>
        /\ UNCHANGED current
    BY <1>2 DEF GetCached, GetPC
  <2>2. GoodEntry(call[t].id, k)
    BY <1>0, <2>1, RunningCall DEF CacheInv
  <2>3. PICK b \in BOOLEAN : b = (c # Absent)
    OBVIOUS
  <2>4. PICK e : e = k
    OBVIOUS
  <2> HIDE DEF k, c
  <2> QED
    BY <1>0, <2>1, <2>2, <2>3, <2>4, FinishGetGood, CurrentSame
<1>3. ASSUME NEW t \in Threads, GetFetched(t) PROVE CachesGood' /\ CurrentGood'
  <2>1. /\ pc[t] \in GetPC
        /\ FinishGet(t, tmp[t], FALSE)
        /\ UNCHANGED <<now, db, minted>>
        /\ UNCHANGED current
    BY <1>3 DEF GetFetched, GetPC
  <2>2. GoodEntry(call[t].id, tmp[t]) /\ tmp[t] # Absent
    BY <1>0, <1>3, RootKeyStoreAssumption
       DEF GetFetched, CallInv, CallerInv, GoodEntry, DurableInv, TypeOK
  <2>3. PICK e : e = tmp[t]
    OBVIOUS
  <2> QED
    BY <1>0, <2>1, <2>2, <2>3, FinishGetGood, CurrentSame
<1>4. ASSUME NEW t \in Threads, RootKeyFromCache(t) PROVE CachesGood' /\ CurrentGood'
  <2>1. PICK k \in Newest(Usable(Home[t], call[t].policy)) :
          current' = [current EXCEPT ![Home[t]][call[t].policy] = k]
    BY <1>4 DEF RootKeyFromCache
  <2>2. k \in minted' /\ Stored(k)'
    BY <1>0, <1>4, AnsweredKeyStored DEF Lasting, TypeOK
  <2>3. ASSUME NEW i \in Instances, NEW p \in Policies
        PROVE  current'[i][p] \in {current[i][p], k}
    BY <1>0, <2>1 DEF TypeOK
  <2>4. ASSUME NEW i \in Instances, NEW p \in Policies
        PROVE  \/ current[i][p] = ZeroKey
               \/ current[i][p] \in minted' /\ (current[i][p] \in db' \/ ~ now' <= current[i][p].expires)
    BY <1>0 DEF CacheInv, Lasting, TypeOK, Stored, Unexpired
  <2>5. CurrentGood'
    BY <2>2, <2>3, <2>4 DEF CurrentGood, Stored, Unexpired
  <2> QED
    BY <1>0, <1>4, <2>5, CachesSame DEF RootKeyFromCache
<1>5. ASSUME NEW t \in Threads, RootKeyInstall(t) PROVE CachesGood' /\ CurrentGood'
  <2>1. PICK k : k = tmp[t]
    OBVIOUS
  <2>2. /\ Home[t] \in Instances /\ call[t].policy \in Policies
        /\ k \in Key /\ k.id \in AllIds /\ k \in minted /\ Stored(k)
    BY <1>5, <2>1, RunningCall, AnsweredKeyStored DEF RootKeyInstall, RootKeyPC
  <2>3. GoodAfter(k.id, k)
    BY <1>0, <2>2, GoodEntryLasts DEF GoodEntry
  <2>4. CachesGood'
    BY <1>0, <1>5, <2>1, <2>2, <2>3, AddCacheGood DEF RootKeyInstall
  <2>5. ASSUME NEW i \in Instances, NEW p \in Policies
        PROVE  current'[i][p] \in {current[i][p], k, ZeroKey}
    BY <1>0, <1>5, <2>1, <2>2 DEF RootKeyInstall, SetCurrent, NoCurrent, TypeOK
  <2>6. ASSUME NEW i \in Instances, NEW p \in Policies
        PROVE  \/ current[i][p] = ZeroKey
               \/ current[i][p] \in minted' /\ (current[i][p] \in db' \/ ~ now' <= current[i][p].expires)
    BY <1>0 DEF CacheInv, Lasting, TypeOK, Stored, Unexpired
  <2>7. k \in minted' /\ Stored(k)'
    BY <1>0, <2>2 DEF Lasting
  <2> QED
    BY <2>4, <2>5, <2>6, <2>7 DEF CurrentGood, Stored, Unexpired
<1>6. ASSUME NEW i \in Instances, Restart(i) PROVE CachesGood' /\ CurrentGood'
  <2>1. ASSUME NEW j \in Instances, NEW x \in AllIds
        PROVE  /\ cache'[j][x] \in {cache[j][x], Absent}
               /\ oldCache'[j][x] \in {oldCache[j][x], Absent}
    BY <1>0, <1>6 DEF Restart, EmptyCache, TypeOK
  <2>2. ASSUME NEW j \in Instances, NEW x \in AllIds
        PROVE  GoodAfter(x, cache[j][x]) /\ GoodAfter(x, oldCache[j][x]) /\ GoodAfter(x, Absent)
    BY <1>0, GoodEntryLasts DEF CacheInv, GoodAfter
  <2>3. ASSUME NEW j \in Instances, NEW p \in Policies
        PROVE  current'[j][p] \in {current[j][p], ZeroKey}
    BY <1>0, <1>6 DEF Restart, NoCurrent, TypeOK
  <2>4. ASSUME NEW j \in Instances, NEW p \in Policies
        PROVE  \/ current[j][p] = ZeroKey
               \/ current[j][p] \in minted' /\ (current[j][p] \in db' \/ ~ now' <= current[j][p].expires)
    BY <1>0 DEF CacheInv, Lasting, TypeOK, Stored, Unexpired
  <2>5. CachesGood'
    BY <2>1, <2>2 DEF CachesGood, GoodAfter, GoodEntry, Stored, Unexpired
  <2>6. CurrentGood'
    BY <2>3, <2>4 DEF CurrentGood, Stored, Unexpired
  <2> QED
    BY <2>5, <2>6
<1>7. ASSUME NEW t \in Threads, RootKeyCurrent(t) PROVE CachesGood' /\ CurrentGood'
  BY <1>1, <1>7 DEF RootKeyCurrent
<1> QED
  BY <1>1, <1>2, <1>3, <1>4, <1>5, <1>6, <1>7 DEF Next, vars, Lock, Work, StartGet, StartRootKey,
     GetMiss, GetKeyContext, GetKeyError, RootKeyMiss, FindBestRootKey, FindLatestKey,
     GenerateKey, InsertKey, RootKeyError, Tick, Purge, LateInsert

\* A step of another goroutine, of the environment or of the clock leaves
\* what is known of a caller's local variables true.
LEMMA CallerFrame ==
  ASSUME DurableInv, Lasting, NEW u \in Threads,
         pc'[u] = pc[u], call'[u] = call[u], tmp'[u] = tmp[u], asked'[u] = asked[u]
  PROVE  CallerInv(u)'
<1>2. /\ CallerInv(u) /\ now \in Nat /\ now' \in Nat /\ now <= now' /\ minted \subseteq Key
      /\ asked[u] \in Nat
      /\ minted \subseteq minted' /\ issued \subseteq issued'
  BY DEF DurableInv, CallInv, TypeOK, Lasting
<1>3. pc[u] = "idle" => call[u] = NoCall
  BY <1>2 DEF CallerInv
<1>4. pc[u] \in GetPC =>
        call[u] \in GetCall /\ call[u].id \in BogusIds \cup {k.id : k \in issued'}
  BY <1>2 DEF CallerInv
<1>5. pc[u] = "getcheck" =>
        \/ tmp[u] = ZeroKey /\ Dead(call[u].id)'
        \/ tmp[u] \in minted' /\ tmp[u].id = call[u].id /\ (tmp[u] \in db' \/ ~ now' <= tmp[u].expires)
  <2>1. pc[u] = "getcheck" => call[u].id \in AllIds
    BY RunningCall DEF GetPC
  <2> QED
    BY <1>2, <2>1 DEF CallerInv, Lasting, Stored, Unexpired
<1>6. pc[u] \in RootKeyPC => call[u] \in RootKeyCall /\ call[u].start <= now'
  <2>1. pc[u] \in RootKeyPC => call[u].start \in Nat
    BY RunningCall
  <2> QED
    BY <1>2, <2>1 DEF CallerInv
<1>7. pc[u] = "query" => call[u].start <= asked[u] /\ asked[u] <= now'
  BY <1>2 DEF CallerInv
<1>8. pc[u] \in {"insert", "install"} =>
        /\ tmp[u] \in minted'
        /\ \E at \in call[u].start .. now' : IsValidWithPolicy(tmp[u], call[u].policy, at)
  <2>1. ASSUME pc[u] \in {"insert", "install"}
        PROVE  /\ tmp[u] \in minted /\ call[u].start \in Nat
               /\ \E at \in call[u].start .. now : IsValidWithPolicy(tmp[u], call[u].policy, at)
    BY <1>2, <2>1, RunningCall DEF CallerInv, RootKeyPC
  <2>2. ASSUME call[u].start \in Nat PROVE call[u].start .. now \subseteq call[u].start .. now'
    BY <1>2, <2>2
  <2> QED
    BY <1>2, <2>1, <2>2
<1>9. pc[u] = "install" => tmp[u] \in db' \/ ~ now' <= tmp[u].expires
  BY <1>2 DEF CallerInv, Lasting, Stored, Unexpired
<1> QED
  BY <1>3, <1>4, <1>5, <1>6, <1>7, <1>8, <1>9 DEF CallerInv, Stored, Unexpired

\* A call that returns leaves its goroutine idle.
LEMMA CallerReturns ==
  ASSUME TypeOK, NEW t \in Threads, NEW kind, NEW k, Return(t, kind, k)
  PROVE  CallerInv(t)'
BY DEF Return, CallerInv, GetPC, RootKeyPC, TypeOK

LEMMA CallStep == DurableInv /\ [Next]_vars => CallInv'
<1> SUFFICES ASSUME DurableInv, [Next]_vars PROVE CallInv'
  OBVIOUS
<1> USE DEF backingVars, cacheVars, localVars
<1>0. TypeOK /\ Lasting /\ CallInv
  BY LastingStep DEF DurableInv
\* One goroutine moves: only its own part has to be shown.
<1>1. ASSUME NEW t \in Threads, CallerInv(t)',
             \A u \in Threads \ {t} : /\ pc'[u] = pc[u] /\ call'[u] = call[u]
                                     /\ tmp'[u] = tmp[u] /\ asked'[u] = asked[u]
      PROVE  CallInv'
  BY <1>0, <1>1, CallerFrame DEF CallInv
<1>2. ASSUME UNCHANGED <<pc, call, tmp, asked>> PROVE CallInv'
  BY <1>0, <1>2, CallerFrame DEF CallInv
<1>3. ASSUME NEW t \in Threads, NEW kind, NEW k, Return(t, kind, k) PROVE CallInv'
  <2>1. \A u \in Threads \ {t} : /\ pc'[u] = pc[u] /\ call'[u] = call[u]
                                 /\ tmp'[u] = tmp[u] /\ asked'[u] = asked[u]
    BY <1>0, <1>3 DEF Return, TypeOK
  <2> QED
    BY <1>0, <1>1, <1>3, <2>1, CallerReturns
<1>4. ASSUME NEW t \in Threads, NEW id \in AllIds, StartGet(t, id) PROVE CallInv'
  <2>1. CallerInv(t)'
    BY <1>0, <1>4, CallTypes DEF StartGet, Goto, CallerInv, GetPC, RootKeyPC, TypeOK
  <2> QED
    BY <1>0, <1>1, <1>4, <2>1 DEF StartGet, Goto, TypeOK
<1>5. ASSUME NEW t \in Threads, NEW p \in Policies, StartRootKey(t, p) PROVE CallInv'
  <2>1. call'[t] \in RootKeyCall /\ call'[t].start = now /\ pc'[t] = "rootkey" /\ now' = now
    BY <1>0, <1>5, CallTypes DEF StartRootKey, Goto, TypeOK
  <2>2. CallerInv(t)'
    BY <1>0, <2>1 DEF CallerInv, GetPC, RootKeyPC, TypeOK
  <2> QED
    BY <1>0, <1>1, <1>5, <2>2 DEF StartRootKey, Goto, TypeOK
<1>6. ASSUME NEW t \in Threads, GetCached(t) \/ GetFetched(t) \/ GetKeyError(t) \/ RootKeyError(t)
      PROVE  CallInv'
  <2>1. PICK kind, k : Return(t, kind, k)
    BY <1>6 DEF GetCached, GetFetched, FinishGet, GetKeyError, RootKeyError
  <2> QED
    BY <1>3, <2>1
<1>7. ASSUME NEW t \in Threads, RootKeyCurrent(t) \/ RootKeyFromCache(t) \/ RootKeyInstall(t)
      PROVE  CallInv'
  <2>1. PICK k : ReturnRootKey(t, k)
    BY <1>7 DEF RootKeyCurrent, RootKeyFromCache, RootKeyInstall
  <2> QED
    BY <1>3, <2>1 DEF ReturnRootKey
<1>8. ASSUME NEW t \in Threads, GetMiss(t) PROVE CallInv'
  <2>1. CallerInv(t)'
    BY <1>0, <1>8 DEF GetMiss, Goto, CallInv, CallerInv, GetPC, RootKeyPC, TypeOK
  <2> QED
    BY <1>0, <1>1, <1>8, <2>1 DEF GetMiss, Goto, TypeOK
<1>9. ASSUME NEW t \in Threads, GetKeyContext(t) PROVE CallInv'
  <2>1. /\ call[t] \in GetCall /\ call[t].id \in BogusIds \cup {k.id : k \in issued}
        /\ pc'[t] = "getcheck"
        /\ UNCHANGED <<now, db, minted, issued, call>>
    BY <1>0, <1>9 DEF GetKeyContext, Goto, CallInv, CallerInv, GetPC, TypeOK
  <2>2. \/ tmp'[t] = ZeroKey /\ Dead(call[t].id)
        \/ tmp'[t] \in minted /\ tmp'[t].id = call[t].id /\ Stored(tmp'[t])
    <3>1. CASE \E k \in db : k.id = call[t].id /\ tmp' = [tmp EXCEPT ![t] = k]
      BY <1>0, <3>1 DEF Stored, DurableInv, MintedInv, TypeOK
    <3>2. CASE (\A k \in db : k.id # call[t].id) /\ tmp' = [tmp EXCEPT ![t] = ZeroKey]
      <4>1. \A k \in issued : k \in minted /\ Stored(k)
        BY DEF DurableInv, MintedInv, IssuedInv
      <4>2. Dead(call[t].id)
        BY <2>1, <3>2, <4>1 DEF Dead, Stored
      <4> QED
        BY <1>0, <3>2, <4>2 DEF TypeOK
    <3> QED
      BY <1>9, <3>1, <3>2 DEF GetKeyContext
  <2>3. CallerInv(t)'
    BY <2>1, <2>2 DEF CallerInv, GetPC, RootKeyPC, Dead, Stored, Unexpired
  <2> QED
    BY <1>0, <1>1, <1>9, <2>3 DEF GetKeyContext, Goto, TypeOK
<1>10. ASSUME NEW t \in Threads, RootKeyMiss(t) PROVE CallInv'
  <2>1. CallerInv(t)'
    BY <1>0, <1>10 DEF RootKeyMiss, Goto, CallInv, CallerInv, GetPC, RootKeyPC, TypeOK
  <2> QED
    BY <1>0, <1>1, <1>10, <2>1 DEF RootKeyMiss, Goto, TypeOK
<1>11. ASSUME NEW t \in Threads, FindBestRootKey(t) PROVE CallInv'
  <2>1. CallerInv(t)'
    BY <1>0, <1>11 DEF FindBestRootKey, Goto, CallInv, CallerInv, GetPC, RootKeyPC, TypeOK
  <2> QED
    BY <1>0, <1>1, <1>11, <2>1 DEF FindBestRootKey, Goto, TypeOK
<1>12. ASSUME NEW t \in Threads, FindLatestKey(t) PROVE CallInv'
  <2>1. /\ call[t] \in RootKeyCall /\ call[t].start \in Nat /\ call[t].start <= now
        /\ asked[t] \in call[t].start .. now
        /\ UNCHANGED <<now, db, minted, issued, call>>
    BY <1>0, <1>12, RunningCall DEF FindLatestKey, CallInv, CallerInv, RootKeyPC, TypeOK
  <2>2. call'[t] \in RootKeyCall /\ call'[t].start <= now'
    BY <2>1
  <2>3. ASSUME pc'[t] = "generate" PROVE CallerInv(t)'
    BY <2>2, <2>3 DEF CallerInv, GetPC, RootKeyPC
  <2>4. ASSUME NEW k \in Newest({j \in db : IsValidWithPolicy(j, call[t].policy, asked[t])}),
               tmp' = [tmp EXCEPT ![t] = k], pc'[t] = "install"
        PROVE  CallerInv(t)'
    <3>1. k \in db /\ k \in minted /\ tmp'[t] = k /\ IsValidWithPolicy(k, call[t].policy, asked[t])
      BY <1>0, <2>4 DEF Newest, DurableInv, MintedInv, TypeOK
    <3>2. \E at \in call'[t].start .. now' : IsValidWithPolicy(tmp'[t], call'[t].policy, at)
      BY <2>1, <3>1
    <3>3. Stored(tmp[t])' /\ tmp'[t] \in minted'
      BY <2>1, <3>1 DEF Stored
    <3> QED
      BY <2>2, <2>4, <3>1, <3>2, <3>3 DEF CallerInv, GetPC, RootKeyPC
  <2>5. CallerInv(t)'
    BY <1>0, <1>12, <2>3, <2>4 DEF FindLatestKey, Goto, TypeOK
  <2> QED
    BY <1>0, <1>1, <1>12, <2>5 DEF FindLatestKey, Goto, TypeOK
<1>13. ASSUME NEW t \in Threads, GenerateKey(t) PROVE CallInv'
  <2> DEFINE p == call[t].policy
  <2>1. PICK id \in Ids \ {k.id : k \in minted} :
          /\ tmp' = [tmp EXCEPT ![t] = [id |-> id, created |-> now, expires |-> now + p.exp + p.gen]]
          /\ minted' = minted \cup {[id |-> id, created |-> now, expires |-> now + p.exp + p.gen]}
    BY <1>13 DEF GenerateKey
  <2>2. /\ call[t] \in RootKeyCall /\ call[t].start \in Nat /\ call[t].start <= now
        /\ p.gen \in Nat /\ p.exp \in Nat /\ pc'[t] = "insert"
        /\ UNCHANGED <<now, call>>
    BY <1>0, <1>13, RunningCall DEF GenerateKey, Goto, CallInv, CallerInv, RootKeyPC, TypeOK
  <2>3. /\ tmp'[t] \in minted' /\ tmp'[t].id = id
        /\ tmp'[t].created = now /\ tmp'[t].expires = now + p.exp + p.gen
    BY <1>0, <2>1 DEF TypeOK
  <2>4. IsValidWithPolicy(tmp'[t], call[t].policy, now)
    <3>1. id # NoId
      BY RootKeysAssumption
    <3>2. now \in Nat
      BY <1>0 DEF TypeOK
    <3> HIDE DEF p
    <3>3. /\ tmp'[t].created >= now - p.gen
          /\ tmp'[t].expires >= now + p.exp
          /\ tmp'[t].expires <= now + p.exp + p.gen
      BY <2>2, <2>3, <3>2
    <3> QED
      BY <2>3, <3>1, <3>3 DEF IsValidWithPolicy, IsValid, p
  <2>5. now \in call[t].start .. now
    BY <1>0, <2>2 DEF TypeOK
  <2>6. CallerInv(t)'
    <3>1. \E at \in call'[t].start .. now' : IsValidWithPolicy(tmp'[t], call'[t].policy, at)
      BY <2>2, <2>4, <2>5
    <3> QED
      BY <2>2, <2>3, <3>1 DEF CallerInv, GetPC, RootKeyPC
  <2> HIDE DEF p
  <2> QED
    BY <1>0, <1>1, <1>13, <2>1, <2>6 DEF GenerateKey, Goto, TypeOK
<1>14. ASSUME NEW t \in Threads, InsertKey(t) PROVE CallInv'
  <2>1. CallerInv(t)'
    BY <1>0, <1>14 DEF InsertKey, Goto, CallInv, CallerInv, GetPC, RootKeyPC, Stored, TypeOK
  <2> QED
    BY <1>0, <1>1, <1>14, <2>1 DEF InsertKey, Goto, TypeOK
<1>15. ASSUME NEW i \in Instances, Restart(i) PROVE CallInv'
  <2>1. ASSUME NEW t \in Threads, Home[t] = i PROVE CallerInv(t)'
    BY <1>15, <2>1 DEF Restart, CallerInv, GetPC, RootKeyPC
  <2>2. ASSUME NEW t \in Threads, Home[t] # i PROVE CallerInv(t)'
    BY <1>0, <1>15, <2>2, CallerFrame DEF Restart
  <2> QED
    BY <2>1, <2>2 DEF CallInv
<1>16. ASSUME Tick \/ (\E k \in minted : Purge(k) \/ LateInsert(k)) \/ UNCHANGED vars PROVE CallInv'
  BY <1>2, <1>16 DEF Tick, Purge, LateInsert, vars
<1> QED
  BY <1>4, <1>5, <1>6, <1>7, <1>8, <1>9, <1>10, <1>11, <1>12, <1>13, <1>14, <1>15, <1>16
     DEF Next, Lock, Work

-----------------------------------------------------------------------------
(* The theorems. *)

LEMMA DurableInit == Init => DurableInv
<1> SUFFICES ASSUME Init PROVE DurableInv
  OBVIOUS
<1> USE DEF Init
<1>1. TypeOK
  BY CallTypes DEF TypeOK, PC, EmptyCache, NoCurrent, Entry
<1>2. MintedInv /\ IssuedInv
  BY DEF MintedInv, IssuedInv
<1>3. CallInv
  BY DEF CallInv, CallerInv, GetPC, RootKeyPC
<1>4. CacheInv
  BY DEF CacheInv, GoodEntry, EmptyCache, NoCurrent
<1> QED
  BY <1>1, <1>2, <1>3, <1>4 DEF DurableInv

\* Everything the methods read, remember and answer is durable.
THEOREM Durable == Spec => []DurableInv
<1>1. DurableInv /\ [Next]_vars => DurableInv'
  BY TypeStep, MintedStep, CallStep, CacheStep, IssuedStep DEF DurableInv
<1> QED
  BY <1>1, DurableInit, PTL DEF Spec

\* Every variable, cache entry and local variable keeps its range.
THEOREM TypeCorrect == Spec => []TypeOK
<1>1. DurableInv => TypeOK
  BY DEF DurableInv
<1> QED
  BY <1>1, Durable, PTL

\* Until it expires, a key that was issued can be found by every instance:
\* the database has it and no cache denies it.
THEOREM KeysFindable == Spec => []IssuedKeysFindable
<1>1. DurableInv => IssuedKeysFindable
  <2> SUFFICES ASSUME DurableInv, NEW k \in issued, Unexpired(k)
               PROVE  /\ k \in db
                      /\ \A i \in Instances : /\ cache[i][k.id] \in {Absent, k}
                                              /\ oldCache[i][k.id] \in {Absent, k}
    BY DEF IssuedKeysFindable
  <2>1. /\ k \in minted /\ k \in db /\ k.id \in Ids
        /\ \A j \in minted : j.id = k.id => j = k
    BY DEF DurableInv, MintedInv, IssuedInv, Stored, TypeOK, Key
  <2>2. ~ Dead(k.id)
    BY <2>1, RootKeysAssumption DEF Dead
  <2>3. \A e : GoodEntry(k.id, e) => e \in {Absent, k}
    BY <2>1, <2>2 DEF GoodEntry
  <2>4. \A i \in Instances : GoodEntry(k.id, cache[i][k.id]) /\ GoodEntry(k.id, oldCache[i][k.id])
    BY <2>1 DEF DurableInv, CacheInv, AllIds
  <2> QED
    BY <2>1, <2>3, <2>4
<1> QED
  BY <1>1, Durable, PTL

-----------------------------------------------------------------------------
(* RootKeyStore implements RootKeyService. *)

USE DEF Key

LEMMA ReturnAnswers ==
  ASSUME NEW t \in Threads, NEW kind, NEW k, Return(t, kind, k)
  PROVE  Service!Answer(t, kind, k)
BY DEF Return, Service!Answer, Service!NoCall, NoCall

\* The end of Get answers what the service answers.
LEMMA FinishGetAnswers ==
  ASSUME DurableInv, NEW t \in Threads, pc[t] \in GetPC, NEW k, NEW cached \in BOOLEAN,
         GoodEntry(call[t].id, k), k # Absent, FinishGet(t, k, cached),
         UNCHANGED <<now, issued>>
  PROVE  Service!AnswerGet(t)
<1> DEFINE live == IsValid(k) /\ Unexpired(k)
           key == IF live THEN k ELSE ZeroKey
           id == call[t].id
<1>1. /\ TypeOK /\ MintedInv /\ IssuedInv /\ CallerInv(t)
      /\ id \in AllIds /\ call[t].op = "get"
  <2>1. call[t] \in GetCall /\ id \in AllIds
    BY RunningCall
  <2> QED
    BY <2>1 DEF DurableInv, CallInv, GetCall
<1>2. Return(t, IF live THEN "key" ELSE "notfound", key)
  BY DEF FinishGet
<1>3. CASE live
  <2>1. k \in minted /\ k.id = id /\ now <= k.expires
    BY <1>1, <1>3 DEF GoodEntry, IsValid, ZeroKey, Unexpired
  <2>2. id \notin BogusIds
    BY <1>1, <2>1, RootKeysAssumption DEF TypeOK
  <2>3. k \in issued
    BY <1>1, <2>1, <2>2 DEF CallerInv, MintedInv
  <2>4. Return(t, "key", k)
    BY <1>2, <1>3
  <2> QED
    BY <1>1, <2>1, <2>3, <2>4, ReturnAnswers DEF Service!AnswerGet
<1>4. CASE ~ live
  <2>1. \A j \in issued : j.id = id => now > j.expires
    <3> SUFFICES ASSUME NEW j \in issued, j.id = id PROVE now > j.expires
      OBVIOUS
    <3>1. /\ j \in minted /\ j \in Key /\ now \in Nat
          /\ \A m \in minted : m.id = id => m = j
      BY <1>1 DEF MintedInv, TypeOK
    <3>2. ~ Unexpired(j)
      <4>1. CASE k = ZeroKey /\ Dead(id)
        BY <3>1, <4>1, RootKeysAssumption DEF Dead
      <4>2. CASE k \in minted /\ k.id = id
        BY <1>4, <3>1, <4>2, RootKeysAssumption DEF IsValid
      <4> QED
        BY <4>1, <4>2 DEF GoodEntry
    <3> QED
      BY <3>1, <3>2 DEF Unexpired
  <2>2. Return(t, "notfound", ZeroKey)
    BY <1>2, <1>4
  <2> QED
    BY <1>1, <2>1, <2>2, ReturnAnswers DEF Service!AnswerGet, Service!ZeroKey, ZeroKey
<1> QED
  BY <1>3, <1>4

\* RootKey answers with a key the service may answer with.
LEMMA ReturnRootKeyAnswers ==
  ASSUME DurableInv, NEW t \in Threads, pc[t] \in RootKeyPC, NEW k \in minted, NEW at \in Nat,
         call[t].start <= at, at <= now, IsValidWithPolicy(k, call[t].policy, at),
         ReturnRootKey(t, k), UNCHANGED now
  PROVE  Service!AnswerRootKey(t)
<1> DEFINE p == call[t].policy
<1>1. /\ TypeOK /\ MintedInv /\ call[t] \in RootKeyCall /\ call[t].op = "rootkey"
      /\ p.gen \in Nat /\ p.exp \in Nat /\ call[t].start \in Nat
  BY RunningCall DEF DurableInv, RootKeyCall
<1>2. /\ k \in Key /\ k.id \in Ids /\ k.created \in 0 .. now /\ k.expires \in Nat
      /\ k = [id |-> k.id, created |-> k.created, expires |-> k.expires]
  BY <1>1 DEF TypeOK, MintedInv
<1>3. k.expires \in at .. at + p.exp + p.gen
  BY <1>1, <1>2 DEF IsValidWithPolicy
<1>4. Service!IsValidWithPolicy(k, p, at)
  BY DEF Service!IsValidWithPolicy, IsValidWithPolicy, Service!IsValid, IsValid
<1>5. \A j \in issued : j.id = k.id => j = k
  BY <1>1 DEF MintedInv
<1>6. Service!Answer(t, "key", k) /\ issued' = issued \cup {k}
  BY ReturnAnswers DEF ReturnRootKey
<1>7. at \in call[t].start .. now
  BY <1>1 DEF TypeOK
<1> HIDE DEF p
<1> QED
  BY <1>1, <1>2, <1>3, <1>4, <1>5, <1>6, <1>7 DEF Service!AnswerRootKey, p

LEMMA ServiceStep == DurableInv /\ [Next]_vars => [Service!Next]_(Service!serviceVars)
<1> SUFFICES ASSUME DurableInv, [Next]_vars
             PROVE  Service!Next \/ UNCHANGED Service!serviceVars
  OBVIOUS
<1> USE DEF backingVars, cacheVars, localVars
<1>0. TypeOK /\ CallInv
  BY DEF DurableInv
<1>1. ASSUME UNCHANGED <<now, issued, call, reply>> PROVE UNCHANGED Service!serviceVars
  BY <1>1 DEF Service!serviceVars
<1>2. ASSUME NEW t \in Threads, NEW id \in AllIds, StartGet(t, id) PROVE Service!Next
  <2>1. call[t] = NoCall
    BY <1>0, <1>2 DEF StartGet, CallInv, CallerInv
  <2>2. Service!CallGet(t, id)
    BY <1>2, <2>1 DEF StartGet, Service!CallGet, Service!NoCall, NoCall,
                      Service!NoReply, NoReply, Service!ZeroKey, ZeroKey
  <2> QED
    BY <2>2 DEF Service!Next, AllIds
<1>3. ASSUME NEW t \in Threads, NEW p \in Policies, StartRootKey(t, p) PROVE Service!Next
  <2>1. call[t] = NoCall
    BY <1>0, <1>3 DEF StartRootKey, CallInv, CallerInv
  <2>2. Service!CallRootKey(t, p)
    BY <1>3, <2>1 DEF StartRootKey, Service!CallRootKey, Service!NoCall, NoCall,
                      Service!NoReply, NoReply, Service!ZeroKey, ZeroKey
  <2>3. p \in Service!Policies
    BY DEF Policies, NewStorePolicy, Service!Policies, Service!NewStorePolicy
  <2> QED
    BY <2>2, <2>3 DEF Service!Next
<1>4. ASSUME NEW t \in Threads, GetCached(t) PROVE Service!Next
  <2> DEFINE c == cache[Home[t]][call[t].id]
             o == oldCache[Home[t]][call[t].id]
             k == IF c # Absent THEN c ELSE o
  <2>1. /\ pc[t] \in GetPC /\ k # Absent
        /\ FinishGet(t, k, c # Absent)
        /\ UNCHANGED <<now, issued>>
    BY <1>4 DEF GetCached, GetPC
  <2>2. GoodEntry(call[t].id, k)
    BY <2>1, RunningCall DEF CacheInv, DurableInv
  <2>3. PICK b \in BOOLEAN : b = (c # Absent)
    OBVIOUS
  <2>4. PICK e : e = k
    OBVIOUS
  <2> HIDE DEF k, c
  <2> QED
    BY <2>1, <2>2, <2>3, <2>4, FinishGetAnswers DEF Service!Next
<1>5. ASSUME NEW t \in Threads, GetFetched(t) PROVE Service!Next
  <2>1. /\ pc[t] \in GetPC
        /\ FinishGet(t, tmp[t], FALSE)
        /\ UNCHANGED <<now, issued>>
    BY <1>5 DEF GetFetched, GetPC
  <2>2. GoodEntry(call[t].id, tmp[t]) /\ tmp[t] # Absent
    BY <1>0, <1>5, RootKeyStoreAssumption DEF GetFetched, CallInv, CallerInv, GoodEntry, TypeOK
  <2>3. PICK e : e = tmp[t]
    OBVIOUS
  <2> QED
    BY <2>1, <2>2, <2>3, FinishGetAnswers DEF Service!Next
<1>6. ASSUME NEW t \in Threads, GetKeyError(t) \/ RootKeyError(t) PROVE Service!Next
  <2>1. Return(t, "error", ZeroKey) /\ UNCHANGED <<now, issued>>
    BY <1>6 DEF GetKeyError, RootKeyError
  <2>2. call[t] # NoCall
    BY <1>6, RunningCall DEF GetKeyError, RootKeyError, GetPC, RootKeyPC, NoCall, GetCall, RootKeyCall
  <2>3. Service!AnswerError(t)
    BY <2>1, <2>2, ReturnAnswers
       DEF Service!AnswerError, Service!NoCall, NoCall, Service!ZeroKey, ZeroKey
  <2> QED
    BY <2>3 DEF Service!Next
<1>7. ASSUME NEW t \in Threads, RootKeyCurrent(t) \/ RootKeyFromCache(t) PROVE Service!Next
  <2>1. PICK k \in minted : /\ IsValidWithPolicy(k, call[t].policy, now)
                            /\ ReturnRootKey(t, k)
    BY <1>7, AnsweredKeyStored DEF RootKeyCurrent, RootKeyFromCache, Newest, Usable
  <2>2. /\ pc[t] \in RootKeyPC /\ call[t].start <= now /\ now \in Nat /\ now <= now
        /\ UNCHANGED now
    BY <1>0, <1>7 DEF RootKeyCurrent, RootKeyFromCache, RootKeyPC, CallInv, CallerInv, TypeOK
  <2>3. PICK at : at = now
    OBVIOUS
  <2> QED
    BY <2>1, <2>2, <2>3, ReturnRootKeyAnswers DEF Service!Next
<1>8. ASSUME NEW t \in Threads, RootKeyInstall(t) PROVE Service!Next
  <2>1. /\ pc[t] \in RootKeyPC /\ tmp[t] \in minted /\ ReturnRootKey(t, tmp[t]) /\ UNCHANGED now
    BY <1>8, AnsweredKeyStored DEF RootKeyInstall, RootKeyPC
  <2>2. PICK at \in call[t].start .. now : IsValidWithPolicy(tmp[t], call[t].policy, at)
    BY <1>0, <1>8 DEF RootKeyInstall, CallInv, CallerInv
  <2>3. at \in Nat /\ call[t].start <= at /\ at <= now
    BY <1>0, <2>1, <2>2, RunningCall DEF TypeOK
  <2>4. PICK k : k = tmp[t]
    OBVIOUS
  <2> QED
    BY <2>1, <2>2, <2>3, <2>4, ReturnRootKeyAnswers DEF Service!Next
<1>9. ASSUME Tick PROVE Service!Next
  BY <1>9 DEF Tick, Service!Next, Service!Tick
<1>10. ASSUME NEW i \in Instances, Restart(i) PROVE Service!Next
  <2>1. Service!Crash({t \in Threads : Home[t] = i})
    BY <1>10 DEF Restart, Service!Crash, Service!NoCall, NoCall,
                 Service!NoReply, NoReply, Service!ZeroKey, ZeroKey
  <2> QED
    BY <2>1 DEF Service!Next
<1> QED
  BY <1>1, <1>2, <1>3, <1>4, <1>5, <1>6, <1>7, <1>8, <1>9, <1>10
     DEF Next, vars, Lock, Work, GetMiss, GetKeyContext, RootKeyMiss, FindBestRootKey,
         FindLatestKey, GenerateKey, InsertKey, Purge, LateInsert

\* Callers cannot tell the store from the service: no cache, database race,
\* restart or abandoned call ever shows in an answer.
THEOREM Implements == Spec => ImplementsService
<1>1. Init => Service!Init
  BY DEF Init, Service!Init, Service!NoCall, NoCall, Service!NoReply, NoReply,
         Service!ZeroKey, ZeroKey
<1>2. DurableInv /\ [Next]_vars => [Service!Next]_(Service!serviceVars)
  BY ServiceStep
<1> QED
  BY <1>1, <1>2, Durable, PTL DEF Spec, ImplementsService, Service!Spec

-----------------------------------------------------------------------------
(* The size of the cache. *)

SmallMap(c) == IsFiniteSet(Cached(c)) /\ CacheLen(c) <= CacheLimit

\* CacheBounded with the finiteness its cardinalities need.
SizeInv == \A i \in Instances : SmallMap(cache[i]) /\ SmallMap(oldCache[i])

LEMMA EmptyIsSmall == SmallMap(EmptyCache)
<1>1. Cached(EmptyCache) = {}
  BY DEF Cached, EmptyCache
<1> QED
  BY <1>1, FS_EmptySet, RootKeyStoreAssumption DEF SmallMap, CacheLen, CacheLimit

LEMMA AddCacheSize ==
  ASSUME TypeOK, SizeInv, NEW i \in Instances, NEW id \in AllIds, NEW k, AddCache(i, id, k)
  PROVE  SizeInv'
<1>1. cache \in [Instances -> [AllIds -> Entry]] /\ oldCache \in [Instances -> [AllIds -> Entry]]
  BY DEF TypeOK
<1>2. SmallMap(cache[i]) /\ CacheLen(cache[i]) \in Nat
  BY FS_CardinalityType DEF SizeInv, SmallMap, CacheLen
<1>3. CASE CacheLen(cache[i]) >= MaxCacheSize
  <2>1. /\ cache' = [cache EXCEPT ![i] = [EmptyCache EXCEPT ![id] = k]]
        /\ oldCache' = [oldCache EXCEPT ![i] = cache[i]]
    BY <1>3 DEF AddCache
  <2>2. Cached([EmptyCache EXCEPT ![id] = k]) \subseteq {id}
    BY DEF Cached, EmptyCache
  <2>3. SmallMap([EmptyCache EXCEPT ![id] = k])
    <3>1. /\ IsFiniteSet({id}) /\ Cardinality({id}) = 1
      BY FS_Singleton
    <3>2. /\ IsFiniteSet(Cached([EmptyCache EXCEPT ![id] = k]))
          /\ CacheLen([EmptyCache EXCEPT ![id] = k]) <= 1
      BY <2>2, <3>1, FS_Subset DEF CacheLen
    <3>3. CacheLen([EmptyCache EXCEPT ![id] = k]) \in Nat
      BY <3>2, FS_CardinalityType DEF CacheLen
    <3> QED
      BY <3>2, <3>3, RootKeyStoreAssumption DEF SmallMap, CacheLimit
  <2>4. ASSUME NEW j \in Instances
        PROVE  /\ cache'[j] \in {cache[j], [EmptyCache EXCEPT ![id] = k]}
               /\ oldCache'[j] \in {oldCache[j], cache[j]}
    BY <1>1, <2>1
  <2> QED
    BY <2>3, <2>4 DEF SizeInv, SmallMap, Cached, CacheLen
<1>4. CASE ~ (CacheLen(cache[i]) >= MaxCacheSize)
  <2>1. cache' = [cache EXCEPT ![i][id] = k] /\ oldCache' = oldCache
    BY <1>4 DEF AddCache
  <2>2. cache'[i] = [cache[i] EXCEPT ![id] = k]
    BY <1>1, <2>1
  <2>3. Cached(cache'[i]) \subseteq Cached(cache[i]) \cup {id}
    BY <1>1, <2>2 DEF Cached
  <2>4. /\ IsFiniteSet(Cached(cache[i]) \cup {id})
        /\ Cardinality(Cached(cache[i]) \cup {id}) \in {CacheLen(cache[i]), CacheLen(cache[i]) + 1}
    BY <1>2, FS_AddElement DEF SmallMap, CacheLen
  <2>5. /\ IsFiniteSet(Cached(cache'[i]))
        /\ Cardinality(Cached(cache'[i])) <= Cardinality(Cached(cache[i]) \cup {id})
        /\ Cardinality(Cached(cache'[i])) \in Nat
    BY <2>3, <2>4, FS_Subset, FS_CardinalityType
  <2>6. Cardinality(Cached(cache'[i])) <= CacheLimit
    BY <1>2, <1>4, <2>4, <2>5, RootKeyStoreAssumption DEF CacheLimit
  <2>7. \A j \in Instances \ {i} : cache'[j] = cache[j]
    BY <1>1, <2>1
  <2> QED
    BY <2>1, <2>5, <2>6, <2>7 DEF SizeInv, SmallMap, CacheLen
<1> QED
  BY <1>3, <1>4

LEMMA SizeStep == DurableInv /\ SizeInv /\ [Next]_vars => SizeInv'
<1> SUFFICES ASSUME DurableInv, SizeInv, [Next]_vars PROVE SizeInv'
  OBVIOUS
<1> USE DEF backingVars, cacheVars, localVars
<1>0. TypeOK
  BY DEF DurableInv
<1>1. ASSUME UNCHANGED <<cache, oldCache>> PROVE SizeInv'
  BY <1>1 DEF SizeInv, SmallMap, Cached, CacheLen
<1>2. ASSUME NEW t \in Threads, NEW k, AddCache(Home[t], call[t].id, k), pc[t] \in GetPC PROVE SizeInv'
  BY <1>0, <1>2, RunningCall, AddCacheSize
<1>3. ASSUME NEW t \in Threads, GetCached(t) \/ GetFetched(t) PROVE SizeInv'
  <2>1. /\ pc[t] \in GetPC
        /\ \/ UNCHANGED <<cache, oldCache>>
           \/ \E k : AddCache(Home[t], call[t].id, k)
    BY <1>3 DEF GetCached, GetFetched, FinishGet, GetPC
  <2> QED
    BY <1>1, <1>2, <2>1
<1>4. ASSUME NEW t \in Threads, RootKeyInstall(t) PROVE SizeInv'
  <2>1. Home[t] \in Instances /\ tmp[t].id \in AllIds
    BY <1>4, RunningCall DEF RootKeyInstall
  <2>2. PICK k, id : k = tmp[t] /\ id = tmp[t].id
    OBVIOUS
  <2> QED
    BY <1>0, <1>4, <2>1, <2>2, AddCacheSize DEF RootKeyInstall
<1>5. ASSUME NEW i \in Instances, Restart(i) PROVE SizeInv'
  <2>1. ASSUME NEW j \in Instances
        PROVE  cache'[j] \in {cache[j], EmptyCache} /\ oldCache'[j] \in {oldCache[j], EmptyCache}
    BY <1>0, <1>5 DEF Restart, TypeOK
  <2> QED
    BY <2>1, EmptyIsSmall DEF SizeInv, SmallMap, Cached, CacheLen
<1> QED
  BY <1>1, <1>3, <1>4, <1>5 DEF Next, vars, Lock, Work, StartGet, StartRootKey, GetMiss,
     GetKeyContext, GetKeyError, RootKeyCurrent, RootKeyFromCache, RootKeyMiss, FindBestRootKey,
     FindLatestKey, GenerateKey, InsertKey, RootKeyError, Tick, Purge, LateInsert

\* No generation of the cache outgrows maxCacheSize.
THEOREM CacheIsBounded == Spec => []CacheBounded
<1>1. Init => SizeInv
  BY EmptyIsSmall DEF Init, SizeInv
<1>2. DurableInv /\ SizeInv /\ [Next]_vars => SizeInv'
  BY SizeStep
<1>3. SizeInv => CacheBounded
  BY DEF SizeInv, SmallMap, CacheBounded
<1> QED
  BY <1>1, <1>2, <1>3, Durable, PTL DEF Spec

=============================================================================
