----------------------------- MODULE Discharger -----------------------------
(***************************************************************************)
(* A target service, a discharger that asks a user, and a client that      *)
(* holds conversations with both: it is given a macaroon with a            *)
(* third-party caveat, has it discharged, and presents the two.            *)
(*                                                                         *)
(* The target is an Oven with a Checker and an httpbakery third-party      *)
(* locator; the discharger is httpbakery.Discharger over bakery.Discharge, *)
(* with the Rendezvous as bakerytest's InteractiveDischarger uses it.      *)
(* Handlers of the discharger are concurrent; each of them takes one step  *)
(* but for the wait, which ends with the outcome or with a timeout.        *)
(***************************************************************************)
EXTENDS Codec, Rendezvous, Subsequences, FiniteSets

CONSTANTS
  Conversations,   \* one for each third-party caveat
  Groups,          \* the sets of conversations that there may be together
  Wanted,          \* [Conversations -> the operations asked for, a sequence]
  Needs,           \* [Conversations -> the possible sequences of keys that
                   \* the caveat needs declared, <<>> for none]
  Headers,         \* [Conversations -> the possible versions in the header of
                   \* the client's requests, {} for none]
  Answers,         \* [Conversations -> the caveats the user may complete with]
  Additions,       \* [Conversations -> the caveats that the client may add to
                   \* what it was given, which go through no namespace]
  Earlier,         \* the conversations whose macaroons may be of an earlier
                   \* release of the target
  LegacyOps,       \* LegacyMacaroonOp, <<>> for none
  Namespaces,      \* the target's namespace is one of these
  Own,             \* [Namespaces -> the checks that the target itself
                   \* registers, in URIs of its own]
  MaxDischarges    \* [Conversations -> bound on discharges started for it]

RegisteredIn(ns) == StdCheckers \cup Own[ns]

\* Texts are sequences of words.
IsText(text) == text \in Seq(ToSet(text))

\* The argument of a time-before condition is a time, or <<>> for what does
\* not parse.
Writable(cav) ==
  /\ IsText(cav.name)
  /\ cav.name = CondTimeBefore => cav.arg \in Seq(Nat) /\ Len(cav.arg) <= 1

\* The name that a caveat of a namespace has on its way, with the prefix of ns
\* or without it in an early version, is not that of another check.  A caveat
\* of which it is one is that other condition to the target.  The target's own
\* checks may be named like the standard ones, in other URIs.
Unambiguous(ns, cav) ==
  \A check \in RegisteredIn(ns) :
    /\ cav.ns # NoNamespace
    /\ \/ cav.ns \in DOMAIN ns /\ FullName(ns, check) = FullName(ns, <<cav.ns, cav.name>>)
       \/ cav.ns = StdNamespace /\ FullName(ns, check) = cav.name
    => check = <<cav.ns, cav.name>>

ASSUME DischargerAssumption ==
  /\ Earlier \subseteq Conversations
  /\ Groups \subseteq SUBSET Conversations
  /\ MaxDischarges \in [Conversations -> Nat]
  /\ \A c \in Conversations :
       /\ \A header \in Headers[c] : header \subseteq Nat /\ \A v, w \in header : v = w
       /\ \A keys \in Needs[c] : keys \in Seq(ToSet(keys))
       /\ \A caveats \in Answers[c] :
            /\ caveats \in Seq(ToSet(caveats))
            /\ \A i \in DOMAIN caveats :
                 Writable(caveats[i]) /\ \A ns \in Namespaces : Unambiguous(ns, caveats[i])
       /\ \A caveats \in Additions[c] :
            /\ caveats \in Seq(ToSet(caveats))
            /\ \A i \in DOMAIN caveats : Writable(caveats[i]) /\ caveats[i].ns = NoNamespace
  /\ Wanted \in [Conversations -> Seq(Nat \X Nat) \ {<<>>}]
  /\ \A ns \in Namespaces :
       /\ \A uri \in DOMAIN ns : IsText(ns[uri])
       /\ \A own \in Own[ns] :
            own = <<own[1], own[2]>> /\ own[1] # StdNamespace /\ IsText(own[2])
       /\ Registrable(ns, RegisteredIn(ns))
       /\ \A check \in StdCheckers : Unambiguous(ns, FirstParty(check[2], <<>>))

VARIABLES
  ns,          \* the target's namespace
  party,       \* the latest version that the discharger knows
  cache,       \* what the locator found out: {}, or the set of the version
  pc,          \* of each conversation
  mac,         \* its macaroon: {}, or the set of it
  store,       \* the store of its root key, known by operations
  discharge,   \* the discharge it waits for, 0 for none
  told,        \* the outcome it was told: {}, or the set of it
  dm,          \* its discharge macaroon: {}, or the set of it
  added,       \* the caveats that the client has added
  verdict      \* of the target: {}, or the set of it

vars == <<ns, party, cache, pc, mac, store, discharge, told, dm, added, verdict, waiting>>
partyVars == <<ns, party, cache>>
macVars == <<mac, store>>
dischargeVars == <<discharge, told, dm, waiting>>
verdictVars == <<added, verdict>>

Key == "discharger"

\* The element of a set of one.
The(S) == CHOOSE x \in S : TRUE

Goto(c, label) == pc' = [pc EXCEPT ![c] = label]

Init ==
  /\ ns \in Namespaces
  /\ party \in 1..LatestVersion
  /\ cache = {}
  /\ \E group \in Groups : pc = [c \in Conversations |-> IF c \in group THEN "idle" ELSE "none"]
  /\ mac = [c \in Conversations |-> {}]
  /\ store = [c \in Conversations |-> <<>>]
  /\ discharge = [c \in Conversations |-> 0]
  /\ told = [c \in Conversations |-> {}]
  /\ dm = [c \in Conversations |-> {}]
  /\ verdict = [c \in Conversations |-> {}]
  /\ added = [c \in Conversations |-> <<>>]
  /\ waiting = <<>>

\* The discharger is replaced by one of this release.  What was cached of it
\* stays.
Upgrade ==
  /\ party < LatestVersion
  /\ party' = LatestVersion
  /\ UNCHANGED <<ns, cache, pc, macVars, dischargeVars, verdictVars>>

-----------------------------------------------------------------------------
(* Minting.  The store of the root key depends on the operations           *)
(* (RootKeyStoreForOps); the conversation stands for its storage id, and   *)
(* for the root key of the third-party caveat.  NewMacaroon mints nothing  *)
(* for no operations, so that no id is without them.                       *)

MintedOps == [c \in Conversations |-> CanonicalOps(Wanted[c])]
MintedIdOps == [c \in Conversations |-> MacaroonIdOps(MintedOps[c])]

\* Every macaroon expires; that is a caveat of the target's own.
Expiry == MaxTime

\* NewMacaroon and AddCaveats, and the macaroon's way to the client.  third is
\* the version that the locator knows of the discharger.
NewMacaroon(c, id, version, third, keys) ==
  LET m == AddFirstParty(BakeryMacaroon(id, version, ns), <<TimeBeforeCaveat(Expiry)>>)
  IN  ThroughJSON(AddThirdParty(m, [version |-> third, key |-> Key], c, keys))

\* A client of version 0 sends no header and knows no other answer than 407.
Recognised(header, response) ==
  IF header = {} THEN response.status = 407 ELSE IsBakeryError(response)

\* Mutated: the answer is that of the latest version.
AnswerLatest(c, header) ==
  Goto(c, IF Recognised(header, DischargeRequiredResponse(LatestVersion)) THEN "minted" ELSE "unrecognised")

\* The error's version is that of the macaroon in it.
Answer(c, header) ==
  LET version == BakeryMacaroon(c, RequestVersion(header), ns).version
  IN  Goto(c, IF Recognised(header, DischargeRequiredResponse(version)) THEN "minted" ELSE "unrecognised")

\* Oven.Error and Oven.NewMacaroon for a client of some version, by this
\* release of the target or by one whose ids had no operations.
Mint(c, third) ==
  /\ \E header \in Headers[c], keys \in Needs[c] :
       LET version == RequestVersion(header)
       IN  /\ \/ LET id == NewMacaroonId(version, c, MintedIdOps[c])
                 IN  /\ mac' = [mac EXCEPT ![c] = {NewMacaroon(c, id, version, third, keys)}]
                     /\ store' = [store EXCEPT ![c] = MintedOps[c]]
              \/ /\ c \in Earlier
                 /\ version < 3
                 /\ \E id \in EarlierIds(version, c) :
                      mac' = [mac EXCEPT ![c] = {NewMacaroon(c, id, version, third, keys)}]
                 /\ store' = [store EXCEPT ![c] = LegacyOps]
           /\ Answer(c, header)
  /\ UNCHANGED <<ns, party, dischargeVars, verdictVars>>

\* ThirdPartyLocator.ThirdPartyInfo: the cache, or the discharger's endpoint,
\* or the endpoint of version 1 when there is no such endpoint.
StartMint(c) ==
  /\ pc[c] = "idle"
  /\ \/ /\ cache # {}
        /\ Mint(c, The(cache))
        /\ UNCHANGED cache
     \/ /\ cache = {}
        /\ Goto(c, "info")
        /\ UNCHANGED <<partyVars, macVars, dischargeVars, verdictVars>>

DischargeInfo(c) ==
  /\ pc[c] = "info"
  /\ \/ /\ party > 1
        /\ cache' = {party}
        /\ Mint(c, party)
     \/ /\ party = 1
        /\ Goto(c, "publickey")
        /\ UNCHANGED <<partyVars, macVars, dischargeVars, verdictVars>>

PublicKey(c) ==
  /\ pc[c] = "publickey"
  /\ cache' = {1}
  /\ Mint(c, 1)

\* Any other error ends it, and is not cached.
LocateError(c) ==
  /\ pc[c] \in {"info", "publickey"}
  /\ Goto(c, "failed")
  /\ UNCHANGED <<partyVars, macVars, dischargeVars, verdictVars>>

-----------------------------------------------------------------------------
(* Discharging.                                                            *)

\* What a client sends for the caveat of its macaroon: the id, and what
\* caveat information it holds apart from it.
CaveatInfo(c) ==
  LET m == The(mac[c])
  IN  [id |-> The(m.caveatId),
       caveat |-> The(IF m.caveatData = {} THEN m.caveatId ELSE m.caveatData)]

Keys(c) == CaveatInfo(c).caveat.condition

Decodes(c) == Decodable(Key, party, CaveatInfo(c).caveat)

\* POST /discharge without a token: the checker starts a discharge and asks
\* for interaction; the client opens the visit URL and waits, for a token or,
\* in the legacy interaction, for the macaroon itself.
AskDischarge(c) ==
  /\ pc[c] = "minted"
  /\ IF Decodes(c)
     THEN /\ NewDischarge(CaveatInfo(c))
          /\ discharge' = [discharge EXCEPT ![c] = Len(waiting')]
          /\ \E label \in {"await token", "await macaroon"} : Goto(c, label)
     ELSE /\ Goto(c, "failed")
          /\ UNCHANGED <<discharge, waiting>>
  /\ UNCHANGED <<partyVars, macVars, told, dm, verdictVars>>

\* The user visits, possibly long after.
Visit(i) ==
  /\ \/ \E c \in Conversations :
          /\ mac[c] # {}
          /\ waiting[i].info = CaveatInfo(c)
          /\ \E caveats \in Answers[c] : DischargeDone(i, caveats, FALSE)
     \/ DischargeDone(i, <<>>, TRUE)
  /\ UNCHANGED <<partyVars, pc, macVars, discharge, told, dm, verdictVars>>

\* checkNeedDeclared goes by the name of a condition, whatever its namespace.
Declares(cav, key) == cav.name = CondDeclared /\ Len(cav.arg) = 2 /\ cav.arg[1] = key

Valueless(caveats) == \E i \in DOMAIN caveats : caveats[i].name = CondDeclared /\ Len(caveats[i].arg) # 2

NoValue == ""

\* Mutated: keys that are not declared are not made up for.
NeedDeclaredOmitted(keys, caveats) == caveats

\* The caveats, with an empty declaration of each key that they leave out.
NeedDeclared(keys, caveats) ==
  LET Undeclared(key) == \A i \in DOMAIN caveats : ~Declares(caveats[i], key)
      missing == Subsequence(keys, {j \in DOMAIN keys : Undeclared(keys[j])})
  IN  caveats \o [i \in DOMAIN missing |-> DeclaredCaveat(missing[i], NoValue)]

\* bakery.Discharge once the checker has returned these caveats: a macaroon
\* of the caveat's version and namespace.
NewDischargeMacaroon(info, caveats) ==
  AddFirstParty(
    BakeryMacaroon(info.id, DecodedVersion(info.caveat), DecodedNamespace(info.caveat)),
    NeedDeclared(info.caveat.condition, caveats))

Give(c, info, caveats) ==
  IF info.caveat.condition # <<>> /\ Valueless(caveats)
  THEN /\ Goto(c, "failed")
       /\ UNCHANGED dm
  ELSE /\ Goto(c, "discharged")
       /\ dm' = [dm EXCEPT ![c] = {ThroughJSON(NewDischargeMacaroon(info, caveats))}]

Awaits(c) == pc[c] \in {"await token", "await macaroon"}

\* Mutated: only what is there already makes the wait end.
AwaitTimeoutNever(c) ==
  /\ Awaits(c)
  /\ waiting[discharge[c]].done
  /\ Goto(c, "timed out")
  /\ UNCHANGED <<partyVars, macVars, dischargeVars, verdictVars>>

\* The select of Await may choose the timeout even when there is an outcome.
AwaitTimeout(c) ==
  /\ Awaits(c)
  /\ Goto(c, "timed out")
  /\ UNCHANGED <<partyVars, macVars, dischargeVars, verdictVars>>

\* GET /wait-token: Await, then DischargeToken.
WaitToken(c) ==
  /\ pc[c] = "await token"
  /\ waiting[discharge[c]].done
  /\ told' = [told EXCEPT ![c] = {Outcome(discharge[c])}]
  /\ IF waiting[discharge[c]].err
     THEN Goto(c, "failed")
     ELSE Goto(c, "token")
  /\ UNCHANGED <<partyVars, macVars, discharge, dm, waiting, verdictVars>>

\* GET /wait: Await, then Info and DischargeMacaroon.
WaitMacaroon(c) ==
  /\ pc[c] = "await macaroon"
  /\ waiting[discharge[c]].done
  /\ told' = [told EXCEPT ![c] = {Outcome(discharge[c])}]
  /\ IF waiting[discharge[c]].err
     THEN /\ Goto(c, "failed")
          /\ UNCHANGED dm
     ELSE Give(c, waiting[discharge[c]].info, waiting[discharge[c]].caveats)
  /\ UNCHANGED <<partyVars, macVars, discharge, waiting, verdictVars>>

\* POST /discharge with a token: any at all, as a token is the number of a
\* discharge and those are counted.  The last of them here is of a discharge
\* that is not there.
Present(c) ==
  /\ \E i \in 1..Len(waiting) + 1 :
       IF Decodes(c) /\ CheckToken(i, CaveatInfo(c))
       THEN /\ told' = [told EXCEPT ![c] = {Outcome(i)}]
            /\ IF waiting[i].err
               THEN /\ Goto(c, "failed")
                    /\ UNCHANGED dm
               ELSE Give(c, CaveatInfo(c), waiting[i].caveats)
       ELSE /\ Goto(c, "failed")
            /\ UNCHANGED <<told, dm>>
  /\ UNCHANGED <<partyVars, macVars, discharge, waiting, verdictVars>>

\* With the token that it was given, or with that of another caveat.
PresentToken(c) == pc[c] = "token" /\ Present(c)

\* With one that it was not given, instead of asking or waiting.  A refusal
\* changes nothing but for the client, which gives up.
PresentEarly(c) ==
  /\ pc[c] \in {"minted", "await token", "await macaroon", "timed out"}
  /\ Present(c)

\* The client asks again for what it did not get in time.
Again(c) ==
  /\ pc[c] = "timed out"
  /\ Cardinality({i \in DOMAIN waiting : waiting[i].info = CaveatInfo(c)}) < MaxDischarges[c]
  /\ Goto(c, "minted")
  /\ UNCHANGED <<partyVars, macVars, dischargeVars, verdictVars>>

-----------------------------------------------------------------------------
(* The target checks the two macaroons.                                    *)

Ops(c) == DecodeOps(The(mac[c]).id, LegacyOps)

\* The root key is in the store of the operations that the id has.
Found(c) ==
  /\ Ops(c) = store[c]
  /\ DecodeStorageId(The(mac[c]).id) = c

\* The conditions of the two macaroons once the client has added these.
Shown(c, caveats) ==
  The(mac[c]).caveats \o The(dm[c]).caveats \o [i \in DOMAIN caveats |-> ResolveCaveat(ns, caveats[i])]

Conditions(c) == Shown(c, added[c])

Holds(conds, now) ==
  \A i \in DOMAIN conds : CheckFirstPartyCaveat(ns, RegisteredIn(ns), conds, now, conds[i])

\* The client adds what it likes and presents the two: VerifyMacaroon, then
\* CheckFirstPartyCaveat of each condition.
Verify(c) ==
  /\ pc[c] = "discharged"
  /\ \E now \in Clock, caveats \in Additions[c] :
       /\ added' = [added EXCEPT ![c] = caveats]
       /\ verdict' = [verdict EXCEPT ![c] =
            {[now |-> now, allowed |-> Found(c) /\ Holds(Shown(c, caveats), now)]}]
  /\ Goto(c, "over")
  /\ UNCHANGED <<partyVars, macVars, dischargeVars>>

\* What the target makes of an allowed request: the attributes declared, and
\* the conditions of a capability.
Attrs(c) == InferDeclared(ns, Conditions(c))
Capability(c) == Squash(ToSet(Conditions(c)))

-----------------------------------------------------------------------------
\* The steps of the client's library and of the servers.
Step(c) ==
  \/ LocateError(c)
  \/ DischargeInfo(c)
  \/ PublicKey(c)
  \/ AskDischarge(c)
  \/ AwaitTimeout(c)
  \/ WaitToken(c)
  \/ WaitMacaroon(c)
  \/ PresentToken(c)
  \/ Verify(c)

Next ==
  \/ Upgrade
  \/ \E c \in Conversations : StartMint(c) \/ PresentEarly(c) \/ Again(c) \/ Step(c)
  \/ \E i \in DOMAIN waiting : Visit(i)

Spec == Init /\ [][Next]_vars

\* Nothing is assumed of the user, of upgrades, of new attempts and of tokens
\* out of turn.
FairSpec == Spec /\ \A c \in Conversations : WF_vars(Step(c))

-----------------------------------------------------------------------------
(* Properties.                                                             *)

Labels == {"none", "idle", "info", "publickey", "minted", "await token", "await macaroon",
           "token", "discharged", "timed out", "failed", "over", "unrecognised"}

AtMostOne(S) == \A x, y \in S : x = y

\* The variables have their types, and a discharge that is not completed has
\* no outcome yet (rendezvous.go, dischargeFuture).
TypeOK ==
  /\ ns \in Namespaces
  /\ party \in 1..LatestVersion
  /\ cache \subseteq 1..LatestVersion /\ AtMostOne(cache)
  /\ pc \in [Conversations -> Labels]
  /\ DOMAIN mac = Conversations /\ DOMAIN store = Conversations
  /\ DOMAIN told = Conversations /\ DOMAIN dm = Conversations
  /\ DOMAIN added = Conversations /\ DOMAIN verdict = Conversations
  /\ \A c \in Conversations :
       /\ AtMostOne(mac[c]) /\ AtMostOne(told[c]) /\ AtMostOne(dm[c]) /\ AtMostOne(verdict[c])
       /\ pc[c] \notin {"none", "idle", "info", "publickey", "failed"} => mac[c] # {}
       /\ pc[c] \in {"discharged", "over"} <=> dm[c] # {}
       /\ pc[c] = "over" <=> verdict[c] # {}
       /\ added[c] \in Additions[c] \cup {<<>>}
  /\ discharge \in [Conversations -> 0..Len(waiting)]
  /\ \A i \in DOMAIN waiting :
       /\ waiting[i].done \in BOOLEAN
       /\ waiting[i].err \in BOOLEAN
       /\ waiting[i].err \/ ~waiting[i].done => waiting[i].caveats = <<>>

\* The macaroon or the discharger was of a version without namespaces.
ViaLegacy(c) == The(mac[c]).version < 3 \/ DecodedVersion(CaveatInfo(c).caveat) < 3

\* The discharge macaroon of conversation c is that of discharge i, whose
\* outcome it was told.
JustifiedBy(c, i) ==
  /\ waiting[i].info = CaveatInfo(c)
  /\ waiting[i].done /\ ~waiting[i].err
  /\ told[c] = {Outcome(i)}
  /\ The(dm[c]).id = CaveatInfo(c).id
  /\ The(dm[c]).caveats = LET caveats == NeedDeclared(Keys(c), waiting[i].caveats)
                              namespace == IF ViaLegacy(c) THEN LegacyNamespace ELSE ns
                          IN  [j \in DOMAIN caveats |-> ResolveCaveat(namespace, caveats[j])]

\* A discharge macaroon is only ever made once the user has completed a
\* discharge of that very caveat, and has exactly the caveats that the user
\* completed it with, in the namespace of the macaroon discharged, whichever
\* way the client waited and whatever token it presented: its own, another's,
\* that of a discharge that is not completed, failed or was never started
\* (rendezvous.go, CheckToken; bakerytest.go, DischargeMacaroon).
DischargeJustified ==
  \A c \in Conversations : dm[c] # {} => \E i \in DOMAIN waiting : JustifiedBy(c, i)

\* What a discharge may be completed with, or failed.
Replies == (UNION {Answers[c] : c \in Conversations}) \cup {<<>>}

\* The rendezvous implements the promise: one outcome for each discharge,
\* told alike to everybody, through completions that race with timeouts and
\* come after them (rendezvous.go, dischargeDone and Await).
P == INSTANCE Promise WITH
  Callers <- Conversations,
  Outcomes <- [caveats : Replies, err : BOOLEAN],
  outcome <- Outcomes,
  told <- told
ImplementsPromise == P!Spec

\* The client of any version is told in a way it knows that a discharge is
\* required, and does not take the answer for the service's own (error.go,
\* RequestVersion and ErrorToResponse; client.go, DefaultGetError).
AnswerKnown == \A c \in Conversations : pc[c] # "unrecognised"

\* The discharger understands every caveat made for it, though the locator
\* never asks again for the version it has cached, and the client's version
\* may be any (macaroon.go, AddCaveat; keyring.go).
Understood == \A c \in Conversations : mac[c] # {} => Decodes(c)

\* The caveats of conversation c, as the target, the user and the client meant
\* them.
CaveatsOf(c) == <<TimeBeforeCaveat(Expiry)>> \o NeedDeclared(Keys(c), The(told[c]).caveats) \o added[c]

\* The checks that a caveat is for: the one of that name in its namespace, or,
\* without a namespace, the one with its prefix in the name.
ChecksFor(cav) ==
  {check \in RegisteredIn(ns) :
     IF cav.ns = NoNamespace THEN FullName(ns, check) = cav.name ELSE check = <<cav.ns, cav.name>>}

\* The values that caveats give a key.
Values(cavs, key) ==
  {cavs[i].arg[2] : i \in {j \in DOMAIN cavs : /\ <<StdNamespace, CondDeclared>> \in ChecksFor(cavs[j])
                                               /\ Len(cavs[j].arg) = 2 /\ cavs[j].arg[1] = key}}

\* What a caveat means to a target with this namespace, whatever becomes of it
\* on its way.
Meant(cav, cavs, now) ==
  \E check \in ChecksFor(cav) :
    check[1] = StdNamespace =>
      \/ check[2] = CondTimeBefore /\ CheckTimeBefore(now, cav.arg)
      \/ check[2] = CondDeclared /\ Len(cav.arg) = 2 /\ Values(cavs, cav.arg[1]) = {cav.arg[2]}

AllMeant(cavs, now) == \A i \in DOMAIN cavs : Meant(cavs[i], cavs, now)

\* The target allows a request only when every caveat that the user, the
\* discharger, the client and itself put on the two macaroons holds as meant,
\* through resolving, legacy namespaces and versions; and it then does allow
\* it, if its standard prefix is the empty one and no other namespace had to
\* go through an early version (namespace.go, ResolveCaveat; checkers.go).
VerdictRight ==
  \A c \in Conversations : verdict[c] # {} =>
    LET cavs == CaveatsOf(c)
        v == The(verdict[c])
    IN  /\ v.allowed => AllMeant(cavs, v.now)
        /\ /\ ns[StdNamespace] = <<>>
           /\ ViaLegacy(c) => \A i \in DOMAIN cavs : cavs[i].ns \in {NoNamespace, StdNamespace}
           /\ AllMeant(cavs, v.now)
           => v.allowed

\* A caveat that checkNeedDeclared takes for a declaration of the key, and the
\* target for something else.
Masked(cavs, key) ==
  \E i \in DOMAIN cavs : Declares(cavs[i], key) /\ <<StdNamespace, CondDeclared>> \notin ChecksFor(cavs[i])

\* An allowed request declares every attribute that the caveat needed, with
\* the one value the user gave it, or, if the user gave it none, with the
\* empty one: the client cannot declare it instead.  But then it can, and the
\* attribute may also be missing, when the user answered with a caveat that is
\* named "declared" in the namespace of a check of the target's own, as
\* checkNeedDeclared goes by the name alone (discharge.go, checkNeedDeclared;
\* declared.go, InferDeclared).
DeclaredRight ==
  \A c \in Conversations : \A v \in verdict[c] : v.allowed =>
    \A j \in DOMAIN Keys(c) :
      LET replied == The(told[c]).caveats
          key == Keys(c)[j]
          given == Values(replied, key)
      IN  /\ AtMostOne(given)
          /\ given # {} \/ ~Masked(replied, key) =>
               /\ key \in DOMAIN Attrs(c)
               /\ Attrs(c)[key] \in IF given = {} THEN {NoValue} ELSE given

\* A capability's conditions hold at exactly the times that those of the
\* macaroons it was obtained with hold, and declare the same; but for their
\* prefixes there is one time-before caveat (checker.go, caveatSquasher).
CapabilityEquivalent ==
  \A c \in Conversations : \A v \in verdict[c] : v.allowed =>
    LET conds == SetToSeq(Capability(c))
    IN  /\ \A now \in Clock : Holds(conds, now) <=> Holds(Conditions(c), now)
        /\ InferDeclared(ns, conds) = Attrs(c)
        /\ Cardinality({cond \in Capability(c) : cond.name = CondTimeBefore}) <= 1

\* The target finds the root key of every macaroon it, or an earlier release
\* of it, minted: the id leads to the store that the key is in, in every
\* version, and to the operations asked for (oven.go, decodeMacaroonId).
OpsReadBack ==
  \A c \in Conversations : mac[c] # {} =>
    /\ Found(c)
    /\ store[c] # LegacyOps => ToSet(Ops(c)) = ToSet(Wanted[c])

\* A conversation that is under way comes to an end, though the user may
\* never visit (rendezvous.go, Await).
AtRest == {"none", "idle", "timed out", "failed", "over"}
ConversationEnds == \A c \in Conversations : []<>(pc[c] \in AtRest)
-----------------------------------------------------------------------------
(* The inductive invariant behind the safety properties and                *)
(* ImplementsPromise.                                                      *)

\* The conversations that have a macaroon, and what a discharge may be of.
Holding == {c \in Conversations : mac[c] # {}}
Future == [info : {CaveatInfo(c) : c \in Holding}, done : BOOLEAN, caveats : Replies, err : BOOLEAN]

\* A macaroon is one that was minted, in any version, for a discharger that
\* knows no less now than the locator thought it did.
Minted(c) ==
  \A m \in mac[c] : \E version \in 0..LatestVersion, third \in 1..party, keys \in Needs[c] :
    m = NewMacaroon(c, m.id, version, third, keys)

MintedInv ==
  /\ \A v \in cache : v <= party
  /\ \A c \in Conversations :
       /\ pc[c] \in {"none", "idle", "info", "publickey"} => mac[c] = {}
       /\ Minted(c)

\* Who waits, waits for a discharge of its own caveat.
WaitingInv ==
  /\ waiting \in Seq(Future)
  /\ \A c \in Conversations : Awaits(c) =>
       discharge[c] # 0 /\ waiting[discharge[c]].info = CaveatInfo(c)

\* Minted macaroons and discharges under way fit each other.
ConversationInv ==
  /\ TypeOK
  /\ MintedInv
  /\ WaitingInv
  /\ DischargeJustified
  /\ AnswerKnown

\* A verdict is on the two macaroons that the conversation still has.
VerdictInv ==
  \A c \in Conversations : \A v \in verdict[c] :
    v.now \in Clock /\ v.allowed = (Found(c) /\ Holds(Conditions(c), v.now))

\* The root key of a macaroon is in the store of the operations minted for.
IdsInv ==
  \A c \in Conversations : \A m \in mac[c] : \E version \in 0..LatestVersion :
    \/ m.id = NewMacaroonId(version, c, MintedIdOps[c]) /\ store[c] = MintedOps[c]
    \/ m.id \in EarlierIds(version, c) /\ store[c] = LegacyOps

\* Macaroons, their root keys, discharges and verdicts fit each other, however
\* users, timeouts, tokens and an upgrade come in between (rendezvous.go;
\* keyring.go, ThirdPartyInfo; oven.go, NewMacaroon and VerifyMacaroon).
DischargerInv == ConversationInv /\ VerdictInv /\ IdsInv
=============================================================================
