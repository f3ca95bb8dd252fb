# A TLA+ model of the macaroon bakery

This directory models and verifies `go-macaroon-bakery/macaroon-bakery` (v3):
TLA+ modules translated from the Go source, TLC configurations that check them on
small instances, and TLAPS proofs for every instance. `PROJECT.json` maps every
definition to the lines that it models and lists the runs, the properties, for
each property a plausible bug that it catches (`mutants`), the hazards of the code
and the theorems.

Contents: 1 inventory of the system; 2 modules and how they correspond to the
code; 3 runs, bounds and fairness; 4 proofs; 5 assumptions; 6 divergences between
the code and its comments; 7 what is not modelled; 8 plan.

## 1. The system

A *service* protects operations (`Op`: an entity and an action) with macaroons. A
request carries slices of macaroons; the service verifies them, decides, and, if
it must, answers with a new macaroon whose third-party caveats the *client* has
discharged by *third parties*. The client stores the result as a cookie and
repeats the request.

| component | files | state | operations | talks to |
|---|---|---|---|---|
| root key store | `bakery/store.go`, `bakery/dbrootkeystore` | per process: two cache generations, a current key per policy, a mutex | `Get`, `RootKey` | backing database |
| backings | `bakery/mgorootkeystore`, `bakery/postgresrootkeystore` | a table of keys that expire | `GetKey`, `FindLatestKey`, `InsertKey` | MongoDB, Postgres |
| Oven | `bakery/oven.go` | none | `NewMacaroon`, `VerifyMacaroon` | root key store |
| macaroons | `bakery/macaroon.go`, `codec.go` | caveats, third-party caveat data, id prefix | `AddCaveat` | locator (public keys) |
| slices | `bakery/slice.go`, `dischargeall.go` | the client's macaroons for a service | `Bind`, `Purge`, `DischargeAll` | dischargers (callback) |
| discharger | `bakery/discharge.go`, `httpbakery/discharge.go` | none | `Discharge` | the caveat checker (callback) |
| Checker | `bakery/checker.go` | per request: verified macaroons, their operations (built once) | `Allow`, `Allowed` | `MacaroonVerifier`, `OpsAuthorizer` (callbacks) |
| identchecker | `bakery/identchecker` | per request: the identity | `Allow` | Checker, `IdentityClient`, `Authorizer` |
| caveat checkers | `bakery/checkers`, `httpbakery/checkers.go` | namespaces, registered conditions | `CheckFirstPartyCaveat`, `InferDeclared`, ... | none |
| httpbakery Client | `httpbakery/client.go`, `visitor.go` | cookie jar shared by goroutines | `Do`, `AcquireDischarge` | service, third parties, interactors |
| retryable request | `httpbakery/request.go` | reference count, one readStopper per attempt | `do`, `close`, `Read`, `Close` | net/http transports |
| errors and HTTP Oven | `httpbakery/error.go`, `oven.go` | none | `Oven.Error`, error codes | Oven |
| interactors | `httpbakery/{browser,form,agent}` | none that matters | `Interact`, `LegacyInteract` | third parties |
| locator | `httpbakery/keyring.go`, `bakery/keys.go` | cache of third parties' keys and versions, never refreshed | `ThirdPartyInfo` | third parties |
| test servers | `bakerytest` | Rendezvous: discharges being waited for | `NewDischarge`, `Await`, ... | none |

What is hard in it, and what must be true:

* **Root key store.** Goroutines and processes find, make and install keys at the
  same time, outside the mutex; the database fails, or executes what was given up;
  processes restart. A key that was handed out must be found, by everyone, until it
  expires: a cache must not deny it, and a failed insert must not be handed out. The
  cache must stay bounded whatever ids clients make up. No path may keep the mutex.
* **Slices and discharging.** Caveats are found, discharged and verified by id alone,
  and ids are numbered per macaroon; calls fail halfway, discharges expire, are purged
  and acquired again, while caveats are added and requests sent. Ids must stay
  unique, and what is sent after a success must verify.
* **Checker.** Verification is shared by the goroutines of a request, conditions are
  checked per context, and the indirect authorization loop ranges over a Go map.
  Whatever the order, nothing may be allowed without a verified macaroon, nothing
  denied that has an authority, and the macaroons reported used must be those that
  the decision rests on.
* **identchecker.** One identity per request, found by whichever goroutine comes
  first, in a macaroon or a context; errors of one phase turn into other outcomes in
  the next.
* **Client.** Authentication and authorization each cost a round of discharge and
  retry, out of a limited number; Do's share cookies; third parties refuse, fail, or
  ask for interaction of a kind the client may not have. Who is entitled must be
  served, and who is not must learn why; no Do may go on for ever.
* **Retryable request.** Transports of earlier attempts go on reading and closing the
  body of a request while it is sent again.
* **Versions and encodings.** Services, clients and dischargers of three versions meet:
  a caveat must be encoded so that its discharger understands it, what an early
  version cannot carry is made up on the other side, and macaroon ids of three
  layouts must lead to the right root key. Whatever the way, the target must not take
  a caveat for another one than was meant.
* **Discharger with a user.** A discharge is completed by one request and waited for
  by others, which time out, come back, and present tokens, which are mere numbers that
  anybody can count: one outcome per discharge, and no discharge macaroon without one.

The hazards are listed one by one, with their lines, in `PROJECT.json`.

## 2. Modules

One module per component; a module's header says what a state stands for. Actions
carry the name of the Go function where one function is one step; a function that
gives up a mutex, makes a database or network call, or calls back, is split there,
and its program counter is the variable `pc` (`phase` in `IdentChecker`).
Operators named `...Late`, `...Unchecked` and the like, with a comment that begins
"Mutated" or "Mutant", are the deliberate bugs of `mutants`; no specification uses
them.

### Root keys: `RootKeys`, `RootKeyService`, `RootKeyStore`
`RootKeys` has the data: keys, policies, `IsValid`, `IsValidWithPolicy`, calls and
replies. `RootKeyService` is the abstract specification of the interface
`RootKeyStore`: a clock, the keys issued, and calls that are answered; `RootKey` by
a key that fits the policy at a moment between call and reply, `Get` by an
issued and unexpired key, by "not found" (never for an issued key that is alive), or
by an error. `RootKeyStore` is `dbrootkeystore/rootkey.go`: per instance `mu`,
`cache`, `oldCache`, `current`; per goroutine `pc`, the local `tmp` (`key`) and
`asked` (the time bounds computed by `findBestRootKey`). `Get` holds `mu` across the
database call (`GetMiss` .. `GetFetched`), `RootKey` takes it twice, around the cache
lookup (`RootKeyCurrent`, `RootKeyFromCache`, `RootKeyMiss`) and around the final
`addCache`/`setCurrent` (`RootKeyInstall`). `inflight` holds inserts that
`runWithContext` gave up and that may still happen; `Purge` is the TTL index or
trigger; `Restart` loses an instance's memory and calls.

### Slices: `Macaroons`, `DischargeSlice`
`Macaroons` has macaroons, caveat ids and their numbering (`newCaveatId`),
`AddCaveat`, `Discharge`'s new macaroon, `Bind`, and `Verifies`, the check of
macaroon.v2 (external). A root key is the number of its draw, and a signature is
(root key, number of caveats), which is what perfect cryptography leaves of it.
`DischargeSlice` is a client's `Slice`: between calls it adds caveats to its
primary, purges, sends a bound copy, asks for a new primary; `DischargeAll` runs in
steps, with its locals `ms1`, `need`, `seen`, `failed`, the clock ticking in between,
and dischargers that accept (with or without a time limit, and more third-party
caveats), or fail.

### Authorization: `AuthChecker`, `IdentChecker`
`AuthChecker` is `bakery.AuthChecker`: `initOnce` (`InitOnce`), the per-call
`allowContext` (`ok`, `used`, `opIndexes`, `need`, `caveats`), `checkDirect`,
`checkIndirect` with one step per turn of the map iteration, and the end of `Allow`.
`IdentChecker` EXTENDS it: each call of `identchecker.AuthChecker.Allow` runs a call
of the lower checker for `LoginOp` (a step of which is `InnerStep`), infers an
identity, runs another for the other operations with `identityOpsAuthorizer`
(`IdentityPolicy`), and takes one of its exits.

### The HTTP client: `Client`, `RetryableRequest`
`Client` has goroutines in `Client.Do` over one cookie `jar`, the service's answer
(`Serve`, `Deny`, `RequireDischarge`, `TooMany`; `OvenError` is `httpbakery/oven.go`),
`AcquireDischarge` and its interactions, old and new. The history variable `events`
records what went wrong during a Do, for properties only.
`RetryableRequest` is `request.go`: `ref`, a `stopper` per attempt, `prepare` and
`close` in steps, and a transport per attempt that reads, and closes once or more,
whenever it likes. `releasing` is the window in `readStopper.Close` between the
unlock and `rreq.close`.

### Caveats, versions, discharging: `Checkers`, `Codec`, `Promise`, `Rendezvous`, `Discharger`
`Checkers` has pure operators: `bakery/checkers` (namespaces and prefixes, the standard
checkers, `InferDeclared`) and `caveatSquasher`. A text is a sequence of the words that
matter, so that a prefix with a colon and one without are different conditions.
`Codec` has the encodings: sealed caveats (`codec.go`), macaroons through JSON
(`macaroon.go`), canonical operations and the ids made of them (`oven.go`). An encoding
is a record of the first byte, by which decoders choose, and of the fields that the
format has room for.
`Rendezvous` is `bakerytest/rendezvous.go`, an action per method; `Promise` is its
abstract specification: outcomes that are written once, and callers who are told one.
`Discharger` composes them all: *conversations* in which a target mints a macaroon with a
third-party caveat for a client of some version, which its header tells (`Mint`, after
the locator's `StartMint`, `DischargeInfo`, `PublicKey`) and which must recognise the
answer (`Answer`, `Recognised`), the client asks for its discharge
(`AskDischarge`), waits for a token (`WaitToken`, then `PresentToken`) or for the
macaroon itself (`WaitMacaroon`), or gives up (`AwaitTimeout`) and comes back
(`Again`), adds caveats of its own, and the target verifies (`Verify`). A token is the
number of a discharge, and discharges are counted (`rendezvous.go:45`), so a client can
present any, before it was given one too (`PresentEarly`): `Present` is the handler with
any number up to one that is not there, and `CheckToken` refuses those that are unknown,
of another caveat or not completed. `Visit` is the user who completes or fails
a discharge; `Upgrade` replaces the discharger by one of the latest version. `waiting`
is the map of futures, `cache` that of the locator; `pc`, `mac`, `discharge`, `dm` are
what the client of a conversation holds. `added` are the caveats that the client
added. `told` and `verdict` are history variables.
What a caveat *means* (`ChecksFor`, `Meant`) is said without regard to how it travels:
one of a namespace is for the check of its name there; one without (a condition that a
client wrote out in full) is for the check with that full name. `VerdictRight` compares
this with what the target makes of the conditions that arrive.
`ImplementsPromise` is the refinement, with `waiting` seen through `Outcomes`.

### Proofs: `*_proofs`, `Induction`, `Subsequences`
Every component that keeps state has its theorems in a module `..._proofs`, and its
inductive invariant beside its properties, so that a run checks that one too.
`Subsequences` is `SelectSeq` without the library's recursion, which proofs could not
expand; `Induction` has lemmas that several proofs use. `Checkers` and `Codec` are
written for proofs too: declarations are a set, canonical operations are the sorted
enumeration of a set, and the loop of `macaroonIdOps` is a recursive function. See
section 4.

## 3. Runs

`MC*` modules give TLC its constants. All runs but `discharger` check deadlock too;
there, everything stops once all conversations are over and no discharge waits.
Every bound is a constant named in its module.

| run | what it shows | bounds, and why they are enough |
|---|---|---|
| `rootkeys_two_instances` | `IssuedKeysFindable`; `DurableInv` (the inductive invariant of the proof) | two processes, a goroutine each, one key id (two processes compete to find what one made), one made-up id, `MaxTime` 3: a key made at 0 stops being handed out after 1, expires after 2, is purged at 3; cache size 1, so that a second id rotates it |
| `rootkeys_one_instance` | `ImplementsService` (refinement), `CallsReturn`, `CacheBounded` | two goroutines and one mutex; two policies that can share a key; `MaxCacheSize` 1 against two ids |
| `rootkeys_expiry_doc` | a key can be returned that is valid for less than `ExpiryDuration` | one goroutine |
| `slice` | `UniqueIds`, `RequestVerifies`, `DischargeAllReturns`; `SliceInv` (inductive) | 4 root keys: a primary, two caveats of its own and one of a discharge, or a chain of three; parties of version 3 and of version 2; local and remote caveats; `MaxTime` 1 lets a discharge or primary expire between any two steps |
| `slice_reacquire_doc` | reacquiring an expired discharge can yield a slice that cannot verify, reported as success | one party |
| `auth_decisions` | `DecisionJustified`, `IndexesJustified`; `DecisionInv` (inductive) | two macaroons with any operations of two, forged or not, conditions met or not; every policy of at most two grants, charged or not: with two, one grant can come in the way of another |
| `auth_used_doc` | an unnecessary macaroon is marked used | as above |
| `ident_two_calls` | `OneIdentity`, `IdentityKept`, `ResultJustified`; `IdentInv` (inductive) | two goroutines with any requests of three, in contexts that give another identity than the macaroon does, caveats, or a failure |
| `request_body` | `BodyIntact`, `ClosedAfterUse`, `BodyClosed`; `BodyInv` (inductive) | the code's four attempts, a body of three elements |
| `client_do` | `EntitledServed`, `ErrorsJustified`, `DoReturns`; `ClientInv` (inductive) | two goroutines; operations that need authentication only, a third-party caveat, or that nobody may do; the code's three retries; all kinds of offers, an agent and a form interactor; one tick, so that authorization macaroons expire and others do not |
| `client_refusal_doc` | a refusal after an interaction is not reported as such | one goroutine |
| `discharger` | `DischargeJustified`, `ImplementsPromise`, `ConversationEnds`; `Understood`, `VerdictRight`, `DeclaredRight`, `CapabilityEquivalent`, `OpsReadBack`, `AnswerKnown`; `DischargerInv` (inductive) | either one conversation of which everything varies (a client without a version header, of each version and of one to come, a discharger of each version, upgraded at any time, every way of waiting, ids of this release and of earlier ones, twelve answers of the user that declare, contradict, limit the time, or are in another namespace, where they may be named like a standard condition, three namespaces, a client that declares the key itself) or two of the latest version whose caveats have the same id, with two discharges for one of them: enough for a token of one to be presented for the other, for tokens of discharges completed, failed, not completed and not there, and for an outcome to come after its waiter has given up. `MaxTime` 2: a time before, at and after each limit |

The bounds on state: `MaxTime` bounds the clock, `MaxKeys` the root keys drawn (and
so caveats and discharges), `Ids` the keys made, `N` the macaroons of a request,
`MaxDischarges` how often a client starts a discharge.
Where an action stops at a bound (`Tick`, `AddCaveat`, `DischargerAddsCaveat`,
`GenerateKey`, `Again`), it stops as the program might, by not being called.

**Fairness.** Liveness is checked only under what the code's scheduling gives:

* `RootKeyStore`: weak fairness of a goroutine's own steps (Go runs it; the database
  answers or its context ends); strong fairness of steps that take `mu`, because
  `sync.Mutex` hands the lock to a starving waiter. None of `Restart`, `Purge` or new
  calls.
* `DischargeSlice`: weak fairness of `DischargeAll`'s steps and of `getDischarge`
  answering. Termination rests also on `MaxKeys`: dischargers that add a third-party
  caveat to each discharge keep the real `DischargeAll` going for ever (a hazard
  that is listed).
* `Client`: weak fairness of each goroutine's step: every request is answered, or
  fails with its context. What the answer is, is not assumed: `DoReturns` rests on
  the retry count.
* `Discharger`: weak fairness of each conversation's steps in the client's library and
  in the servers, the timer of `Await` among them (`time.After` fires). Nothing of the
  user, of upgrades, of new attempts, of tokens out of turn.
* `RetryableRequest`: weak fairness of do1, and of transports closing the body they
  were given, which is the contract of `http.RoundTripper`; not of their reading.

## 4. Proofs

`RootKeyStore_proofs` proves, for any number of processes, goroutines, keys, policies
and cache sizes, and without a bound on time:

| theorem | statement |
|---|---|
| `TypeCorrect` | `Spec => []TypeOK` |
| `Durable` | `Spec => []DurableInv` |
| `KeysFindable` | `Spec => []IssuedKeysFindable` |
| `Implements` | `Spec => ImplementsService` |
| `CacheIsBounded` | `Spec => []CacheBounded` |

`IssuedKeysFindable` is not inductive: nothing in it says that a key about to be
handed out is in the database, or why a remembered "not found" is right. `DurableInv`
adds that. Its parts: every key comes from one `generateKey` (`MintedInv`);
whatever a goroutine holds at each point of `Get` and `RootKey` is either
durable (`Stored`: in the database unless expired) or not yet to be relied on
(`CallInv`); what the caches say of an id is absent, a stored key of that id, or
"not found" of an id that is `Dead`, that is, made up or of an expired key
(`CacheInv`); what was issued is stored (`IssuedInv`). The proof that a step
preserves it has one lemma per part and one step per action. The argument's centre
is `Lasting`: a step keeps stored keys stored and dead ids dead, since a key is only
purged after its expiry and the clock never goes back. "Not found" can be remembered
of an id because a client knows an id only from an issued key, which is stored: an
insert that is still in flight has an id nobody asks for. `Implements` follows: each
action is a step of `RootKeyService` under the identity mapping of `now`, `issued`,
`call`, `reply`, or changes none of them; the answer of `RootKey` fits the policy at
the time when it was chosen (`at` in `CallerInv`). `CacheIsBounded` adds `SizeInv`,
which also says that the caches are finite.

`RetryableRequest_proofs` proves, for any number of retries and a body of any length:

| theorem | statement |
|---|---|
| `TypeCorrect` | `Spec => []TypeOK` |
| `UsersCounted` | `Spec => []BodyInv` |
| `SentIntact` | `Spec => []BodyIntact` |
| `ClosedLast` | `Spec => []ClosedAfterUse` |

`ClosedAfterUse` alone says nothing about `ref`, and `BodyIntact` nothing about where
the body stands. `BodyInv` adds: `ref` is the number of users, that is do1, the
readers not yet stopped, and those between stopping one and giving its reference
up (`Counted`); only the reader of the last attempt can be open, and none while
the body is rewound (`LastOpen`); the body stands where that reader left it
(`InPlace`). So a count of zero means that nobody is left.

`DischargeSlice_proofs` proves, for any number of root keys, third parties of either
version, slices of any length, and times:

| theorem | statement |
|---|---|
| `TypeCorrect` | `Spec => []TypeOK` |
| `Gathers` | `Spec => []SliceInv` |
| `IdsAreUnique` | `Spec => []UniqueIds` |
| `RequestsVerify` | `Spec => []RequestVerifies` |
| `NewCaveatIdFresh` | what `newCaveatId` returns extends the macaroon's prefix and is the id of none of its caveats |

`UniqueIds` is not inductive: a discharge gives its caveats ids without knowing any
other macaroon's. `Formed` says why they differ all the same: the id of an external
caveat extends the prefix of its macaroon, which is the macaroon's own id, so that two
caveats with one id are in macaroons with one id (`BasesDiffer`, `DistinctUseIds`); any
other caveat's id holds its root key, and keys are drawn once (`DistinctKeys`).
Within `DischargeAll`, `QueueInv` says that the queue holds each caveat once,
that no discharge is of a caveat in it, and that, unless one failed, it holds every
caveat seen that has no discharge; `CallInv` that every discharge gathered is of a
caveat seen. `AddCaveats` needs both: `have` is not brought up to date while
discharges are gathered, and a caveat is not queued although it is new only if a
discharge of its id was there from the start; because that is not a stray one
(`rooted`), and ids are unique, it is of this very caveat, with its key. At the
end the queue is empty, so the slice is `Complete`, and `BoundVerifies` shows that what
`Bind` makes of a complete slice verifies. `NewCaveatIdFresh` is the pigeonhole
principle: one more number is tried than there are caveats.

`AuthChecker_proofs` and `IdentChecker_proofs` prove, for any request, policy, number
of goroutines and iteration order of the map, and for any identities and contexts:

| theorem | statement |
|---|---|
| `TypeCorrect`, `IdentTypeCorrect` | `Spec => []TypeOK`, `IdentSpec => []IdentTypeOK` |
| `Decisions` | `Spec => []DecisionInv` |
| `DecisionsJustified` | `Spec => []DecisionJustified` |
| `IndexesTrue` | `Spec => []IndexesJustified` |
| `IdentDecisions` | `IdentSpec => []IdentInv` |
| `OneIdentityFound` | `IdentSpec => []OneIdentity` |
| `ResultsJustified` | `IdentSpec => []ResultJustified` |
| `IdentityStays` | `IdentSpec => IdentityKept` |

`DecisionJustified` speaks of answers, which are given in the last step. `DecisionInv`
says what they come from: no call reads the indexes before they are verified
(`VerifiedInv`); what a call still needs has no direct authority and none from what it
asked so far, and at the end none at all (`NeedInv`); what it no longer needs has
authority, and the caveat that authority costs is among its caveats (`TakenInv`);
every index points to a macaroon that authorizes (`PointedInv`). `IndexesJustified`
holds because an index is only ever replaced by that of another macaroon that
authorizes, and none is unmarked. The indexes are least and greatest elements of sets, hence `LeastNatural` and
`GreatestNatural` of `Induction`. `IdentInv` adds that each call asks the checker below
for exactly its own operations, under a policy that grants no more than what the identity
of the call may do; it contains `IdentTypeOK`, and uses `DecisionInv` with the lower
checker's steps as they are.

`Client_proofs` proves, for any number of goroutines, operations, cookies' lifetimes,
offers and interactors, and any limit on retries of at least two:

| theorem | statement |
|---|---|
| `TypeCorrect` | `Spec => []TypeOK` |
| `DoProgresses` | `Spec => []ClientInv` |
| `EntitledAreServed` | `Spec => []EntitledServed` |
| `ErrorsAreJustified` | `Spec => []ErrorsJustified` |

`EntitledServed` is about results; `ClientInv` says how an undisturbed Do gets there: as
many retries as it has used, so many cookies it has gathered (`Ahead`), and what it
acquires is either its identity or its operation (`Progress`). So it is never asked a
third time, whatever the limit beyond two, and the cookies that other Do's store
can only help it, unless they take the place of its own, which is one of the events that
count as a disturbance.

`Discharger_proofs` proves, for any number of conversations and discharges, versions of
client, headers, namespaces, answers of the user and times:

| theorem | statement |
|---|---|
| `TypeCorrect` | `Spec => []TypeOK` |
| `Invariant` | `Spec => []DischargerInv` |
| `DischargesAreJustified` | `Spec => []DischargeJustified` |
| `AnswersAreKnown` | `Spec => []AnswerKnown` |
| `CaveatsAreUnderstood` | `Spec => []Understood` |
| `VerdictsRight` | `Spec => []VerdictRight` |
| `AttributesRight` | `Spec => []DeclaredRight` |
| `CapabilitiesEquivalent` | `Spec => []CapabilityEquivalent` |
| `OpsAreReadBack` | `Spec => []OpsReadBack` |
| `PromiseKept` | `Spec => ImplementsPromise` |
| `GroupedReadBack` | `UngroupedOps(MacaroonIdOps(ops)) = ops` for every sequence of operations in which no two neighbours are equal |

`DischargerInv` adds to the properties that every macaroon is one that was minted for a
discharger who by now knows at least the version that the locator believed
(`MintedInv`; upgrades only go up, which is why a cached version does no harm), that
whoever waits, waits for a discharge of its own caveat (`WaitingInv`), that the id of a
macaroon and the store of its root key were chosen together (`IdsInv`), and that a
verdict is one on the macaroons that are still there (`VerdictInv`). The first parts
(`ConversationInv`) are inductive by themselves; the other two are, given them. For
`Understood`, the id of the caveat is decoded again for every version of the
macaroon and of the discharger. `PromiseKept` takes each action to a step of `Promise`
on `Outcomes`, or to none: an outcome is written by the first completion only.

The four properties of the target need more than an invariant: they are about what the
operators of `Codec` and `Checkers` compute.

* `OpsAreReadBack`: every finite set of operations has one sorted enumeration
  (`SortedEnumeration`, `CanonicalOpsMade`), so minting and verifying choose the same
  store; grouping sorted operations by entity, as `macaroonIdOps` does, and flattening
  them again, as `decodeMacaroonId` does, gives the same operations (`GroupedReadBack`,
  by induction on how many are grouped); the first byte tells the layouts apart
  (`NewIdDecodes`, `EarlierIdDecodes`).
* `VerdictsRight`: each condition that the target checks is what became of one caveat
  that was meant (`Judged`), in one of four forms (`DeliveredForms`); unless it is the
  `error` condition, which nothing accepts, the check that it names is the one the
  caveat is for (`DeliveredCheck`). So what is accepted was meant (`AllowedMeant`).
  Conversely, with an empty standard prefix the condition keeps its name on both ways,
  the declarations the target finds are those that were meant, and it infers the value
  that all of them give (`MeantAllowed`, `Inferred`).
* `AttributesRight`: what no caveat of the user's declares is declared empty
  (`NeedDeclaredElements`), so that a declaration which the client adds contradicts it and
  the request is refused. `checkNeedDeclared` goes by the name of a condition whatever its
  namespace, so the theorem has an exception (`Masked`): if the user gives a key no value,
  but answers with a caveat that names it and is for a check `declared` of the service's
  own, nothing is made up for the key, and the client can give it any value. The target
  infers what an accepted caveat declares, because it is still that caveat (`Judged`).
* `CapabilitiesEquivalent`: the earliest time stands for all (`SquashKeeps`), no
  declaration is lost (`SquashDeclares`), and a time-before condition with no time or the
  zero time, which the squasher keeps, is not in an allowed request (`OneTimeBefore`).

**Induction.** The library's induction theorems have an operator as a parameter, which the
provers cannot instantiate. `Induction` states well-ordering and induction over the
naturals for sets instead (`LeastNatural`, `GreatestNatural`, `SetInduction`), from the
library's `WFMin`; that a recursive function exists and is the only one (`RecursionExists`,
`RecursionUnique`, for functions on `0..N` into a set that the step stays in), with which
`MacaroonIdOps` and the library's `FlattenSeq` are unfolded; and what `Subsequence` keeps of a sequence
(`SubsequencePlaces`): its elements are the chosen ones, each once, in a place that the
rank of the old one determines, the first remaining the first.

**What the proofs showed about the models.** The history variable of `Client` did not
record that a cookie which a Do has already sent expires, nor that another Do replaces
its cookie by one that has expired: TLC's small instance has no behaviour in which
this matters, but the invariant was not inductive. `DischargeSlice`'s
`TypeOK` says nothing of ids and keys, and all of `Formed` had to be found; `TypeOK` of
`Discharger` lacked the domains of five of its variables. `VerdictRight` had taken the
no caveat without a namespace to mean a check with a prefix, though a client may write the
prefix out; and it is false, of the code too, of caveats that are not `Unambiguous`
(below). `DischargeJustified` did not say that the
outcome told is the one the macaroon was made from, which `VerdictRight` and
`DeclaredRight` rest on.

**Assumptions.** Those named in the modules, which TLC evaluates in every run that
extends them: ids that were and were not made are disjoint, durations and sizes are
naturals, special values are no real ones, constants that are functions or sets of
records are so. Two are about numbers in the code: `MaxDischargeRetries` is at least two
(the code's constant is three, and with one a Do that needs both authentication and
authorization could not succeed), and a holder of a public key publishes version 2 or 3
(`MacaroonsAssumption`). `DischargerAssumption` has those that the meaning of caveats needs:

* `Registrable`: no two checks have the same full name; `Checker.Register` panics
  otherwise. The service's own checks (`Own`) are in URIs of their own, and may be named like
  the standard ones.
* `Wanted` is not empty: `NewMacaroon` refuses to mint for no operations
  (`oven.go:201-203`), so that no id is without any (the error at 171-173).
* `Writable`: names are texts, and the argument of a time-before condition is a time, or
  nothing for one that does not parse (`checkTimeBefore` makes the same of all of those).
* `Unambiguous`: the text that a caveat of a namespace becomes, with that
  namespace's prefix or, for the standard one in an early version, without it, is not
  the full name of another check. If it were (a caveat `declared` of an empty-prefixed
  namespace of the service's own, say), the text is all the target sees, and the code takes
  it for that other condition: without this nothing can be said of what was meant.
  It restricts what users add, not what they contradict, leave out or add in namespaces
  that the target does not know; and the client's additions, which go straight into the
  macaroon and so have no namespace, not at all.

**Only model-checked**: `CallsReturn`, `DischargeAllReturns`, `BodyClosed`, `DoReturns` and
`ConversationEnds`; liveness under fairness is beyond TLAPS. Every safety property that a
passing run checks, every action property and both refinements are theorems.

## 5. Assumptions of the model

* Cryptography is perfect; root keys and ids drawn at random never coincide, and nobody
  guesses one that was not given out.
* All processes read one clock. Time is discrete; the rounding of timestamps by
  MongoDB (milliseconds) and Postgres is not modelled.
* A database call is atomic, and reads see earlier writes (reads from the primary).
* A `Slice` is used by one goroutine at a time; it has no mutex.
* Dischargers run the code of this repository: they do not make up discharges.
  `caveatIdPrefix`, which marshalling loses, is kept; the model's client adds caveats to
  its primary only, for which that makes no difference.
* `AuthChecker`: the order and duplicates of the operations asked for do not matter;
  the `OpsAuthorizer` answers per pair of operations, the same way throughout one
  call. `initOnceFunc` is one step: the goroutines that wait for the `sync.Once` can do
  nothing meanwhile.
* `Client`: a request made to acquire a discharge or a token is one step; every
  macaroon has one third-party caveat (slices with more are `DischargeSlice`'s); a
  cookie's own expiry date is left out, because an expired macaroon is ignored anyway.
* `Discharger`: a sealed caveat opens only with its key. Every handler is one step but
  for the waits: it has no state of its own, and the methods of `Rendezvous` are under
  its mutex. The macaroons of a conversation have one third-party caveat, which is
  why `newCaveatId` gives all of them the same id. The checks that a service registers
  in its own namespace accept.
* `IdentChecker`: the answer of an allowed call is that of the lower checker; that the login
  macaroon's `Used` and `OpIndexes` are merged into it (`identchecker/checker.go:202-209`) is
  left out.

## 6. Where the code and its comments differ

Each is a run that TLC must find violated (`findings` in `PROJECT.json`):

1. `dbrootkeystore/rootkey.go:176`: keys can be returned with less than
   `ExpiryDuration` to live, when the database is slow.
2. `slice.go`: after a discharge that had caveats of its own was purged and
   acquired again, the new caveats have the old ids and new keys; discharges left over
   from before mask them, and `DischargeAll` succeeds with a slice that does not verify.
3. `checker.go:87`: macaroons that were unnecessary are marked used.
4. `client.go:221`: a refusal of the second discharge request, with the token, is not a
   `*DischargeError`.

Seen while modelling, not checked: `maxPolicyCache` is "the maximum number of
store policies that can hold cached keys" (`rootkey.go:18`), but `setCurrent` tests the
size of the map with `>`, so that it gets one more, and `rootKeyFromCache` does not test
it at all; agent's `Interact` masks
`ErrInteractionMethodNotFound`, so that the client does not try its next interactor; an
error of the root key store during verification is reported by identchecker as a denial;
an id that cannot be decoded (`oven.go:115`) fails the whole request, and the error of
creating the Postgres tables (`sql.go:73`) that of every later call;
`InferDeclaredFromConditions` (`declared.go:114`) looks for the prefix and "declared"
without the colon that `ConditionWithPrefix` puts between them, so that attributes are
never inferred under a non-empty standard prefix, and every `declared` caveat fails
(the model keeps this, and `VerdictRight` promises acceptance for the empty prefix only);
`checkNeedDeclared` goes by the name of a condition whatever its namespace
(`discharge.go:180-188`; `declared.go:56` has a TODO), so that a caveat for a service's own
check `declared` leaves the client free to declare the key (the exception in
`DeclaredRight`, which is false without it); a caveat discharged through a version before 3 gets the
bare name of its condition, which no target with a standard prefix accepts;
`caveatSquasher` (`checker.go:469`) does not see time-before caveats with a prefix,
though its comment speaks of "only the earliest"; `oven.go:107` says that old macaroons
always have `LoginOp`, where the code gives them `LegacyMacaroonOp` or none; a
hexadecimal id without a hyphen has the empty storage id; `bakerytest.Discharger.Close`
undoes the skipping of TLS verification even where `NewDischarger` did not start it;
`caveatIdPrefix` is not marshaled (`macaroon.go:343` concedes what follows from it); the
first of several discharges may have expired when `DischargeAll` reports success.

## 7. Not modelled

The bytes of the formats (lengths, base64, JSON fields, form encoding) and what decoders
do with malformed ones; box encryption and signatures (assumed perfect; a model would
restate the libraries); the in-memory store, which is one key made once under a mutex;
the creation of tables and indexes; the text form of namespaces; the wire protocol of
the interactors and the legacy agent cookie; the checks of `httpbakery/checkers.go`,
which compare a request with an argument and keep nothing; the server and the
`InsecureSkipVerify` count of `bakerytest`; example programs, `bakery-keygen`, loggers
and URL helpers, which keep no state.

## 8. Plan

In order of importance; all but the last exist.

| | module | abstract specification | to be proved |
|---|---|---|---|
| A | `RootKeyStore` | `RootKeyService` | done |
| B | `DischargeSlice` | | done |
| C | `AuthChecker`, `IdentChecker` | | done |
| D | `Client` | | done |
| E | `RetryableRequest` | | done |
| F | `Discharger`, `Rendezvous` | `Promise` | done |
| G | `Checkers`, `Codec` | | done, as lemmas of `Discharger_proofs` |
| H | a composition of A and C: macaroons whose root keys expire under a request | | |
