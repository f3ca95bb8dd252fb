-------------------------- MODULE Discharger_proofs --------------------------
(***************************************************************************)
(* Proofs about Discharger, for any conversations, caveats, answers and    *)
(* versions of client, target and discharger: every discharge macaroon is  *)
(* justified by a completed discharge of its own caveat, every caveat and  *)
(* every answer is understood, the rendezvous keeps its promise, and the   *)
(* target finds its root keys, allows what was meant, and infers           *)
(* attributes and makes capabilities of just that.                         *)
(***************************************************************************)
EXTENDS Discharger, Induction

-----------------------------------------------------------------------------
(* Constants and sequences.                                                *)

LEMMA MadeSequence ==
  ASSUME NEW n \in Nat, NEW F(_)
  PROVE  [i \in 1..n |-> F(i)] \in Seq({F(i) : i \in 1..n})
OBVIOUS

\* What is left out of a sequence leaves a sequence.
LEMMA SubsequenceDomain ==
  ASSUME NEW S, NEW s \in Seq(S), NEW K \in SUBSET (DOMAIN s)
  PROVE  Cardinality(K) \in Nat /\ DOMAIN Subsequence(s, K) = 1..Cardinality(K)
<1>1. IsFiniteSet(1..Len(s))
  BY FS_Interval
<1>2. K \in SUBSET (1..Len(s))
  OBVIOUS
<1>3. IsFiniteSet(K)
  BY <1>1, <1>2, FS_Subset
<1> QED
  BY <1>3, FS_CardinalityType DEF Subsequence

LEMMA NeedDeclaredIsSequence ==
  ASSUME NEW S, NEW T, NEW keys \in Seq(S), NEW caveats \in Seq(T)
  PROVE  \E n \in Nat : DOMAIN NeedDeclared(keys, caveats) = 1..n
<1> DEFINE Undeclared(key) == \A i \in DOMAIN caveats : ~Declares(caveats[i], key)
           K == {j \in DOMAIN keys : Undeclared(keys[j])}
           missing == Subsequence(keys, K)
           made == [i \in DOMAIN missing |-> DeclaredCaveat(missing[i], NoValue)]
<1>1. Cardinality(K) \in Nat /\ DOMAIN missing = 1..Cardinality(K)
  <2>1. K \in SUBSET (DOMAIN keys)
    OBVIOUS
  <2> HIDE DEF K
  <2> QED
    BY <2>1, SubsequenceDomain
<1>2. NeedDeclared(keys, caveats) = caveats \o made
  BY DEF NeedDeclared
<1> HIDE DEF K, missing
<1>3. made \in Seq({made[i] : i \in DOMAIN missing})
  BY <1>1
<1> HIDE DEF made
<1>4. caveats \o made \in Seq(T \cup {made[i] : i \in DOMAIN missing})
  BY <1>3
<1>5. DOMAIN (caveats \o made) = 1..Len(caveats \o made) /\ Len(caveats \o made) \in Nat
  BY <1>4
<1> QED
  BY <1>2, <1>5

LEMMA RepliesAreSequences ==
  ASSUME NEW caveats \in Replies
  PROVE  caveats \in Seq(ToSet(caveats))
<1>1. CASE caveats = <<>>
  BY <1>1
<1>2. CASE caveats # <<>>
  <2>1. PICK c \in Conversations : caveats \in Answers[c]
    BY <1>2 DEF Replies
  <2> QED
    BY <2>1, DischargerAssumption
<1> QED
  BY <1>1, <1>2

LEMMA NeedsAreSequences ==
  ASSUME NEW c \in Conversations, NEW keys \in Needs[c]
  PROVE  keys \in Seq(ToSet(keys))
BY DischargerAssumption

\* Clients are taken for ones of a known version.
LEMMA RequestVersionType ==
  ASSUME NEW c \in Conversations, NEW header \in Headers[c]
  PROVE  /\ RequestVersion(header) \in 0..LatestVersion
         /\ header = {} => RequestVersion(header) = 0
<1>1. header \subseteq Nat /\ \A v, w \in header : v = w
  BY DischargerAssumption
<1>2. CASE header = {}
  <2>1. {0} \cup {Min({v, LatestVersion}) : v \in header} = {0}
    BY <1>2
  <2>2. Max({0}) = 0
    BY DEF Max
  <2>3. RequestVersion(header) = Max({0})
    BY <2>1, Zenon DEF RequestVersion
  <2> QED
    BY <2>2, <2>3 DEF LatestVersion
<1>3. CASE header # {}
  <2>1. PICK v \in header : header = {v}
    BY <1>1, <1>3
  <2> DEFINE low == Min({v, LatestVersion})
  <2>2. low \in 0..LatestVersion
    <3>1. v \in Nat
      BY <1>1
    <3>2. CASE v <= LatestVersion
      <4>1. low = v
        BY <3>1, <3>2 DEF Min, LatestVersion
      <4> QED
        BY <4>1, <3>1, <3>2 DEF LatestVersion
    <3>3. CASE ~(v <= LatestVersion)
      <4>1. low = LatestVersion
        BY <3>1, <3>3 DEF Min, LatestVersion
      <4> QED
        BY <4>1 DEF LatestVersion
    <3> QED
      BY <3>2, <3>3
  <2>3. RequestVersion(header) = Max({0, low})
    BY <2>1 DEF RequestVersion
  <2> HIDE DEF low
  <2>4. Max({0, low}) = low
    BY <2>2 DEF Max, LatestVersion
  <2> QED
    BY <2>2, <2>3, <2>4, <1>3
<1> QED
  BY <1>2, <1>3

-----------------------------------------------------------------------------
(* Minted macaroons.                                                       *)

\* What is taken out of a set of one.
LEMMA TheOnly ==
  ASSUME NEW S, NEW x \in S, AtMostOne(S)
  PROVE  S = {x} /\ The(S) = x
BY DEF AtMostOne, The

LEMMA TheOfOne == ASSUME NEW x PROVE The({x}) = x
BY DEF The

\* A macaroon as it comes to the client: what its caveat holds and where.
\* Where a macaroon of some version has its caveat.
Carries(m, version, least, data) ==
  /\ least < 3 => m.caveatId = {data} /\ m.caveatData = {}
  /\ ~(least < 3) => m.caveatId = {ExternalId(0)} /\ m.caveatData = {data}
  /\ m.version < 3 <=> version < 3

LEMMA MintedMacaroon ==
  ASSUME NEW c, NEW id, NEW version \in 0..LatestVersion, NEW third \in 1..LatestVersion, NEW keys,
         NEW m, m = NewMacaroon(c, id, version, third, keys),
         NEW least, least = IF version < third THEN version ELSE third,
         NEW data, data = EncodeCaveat(least, Key, c, keys, ns)
  PROVE  /\ m.id = id
         /\ m.caveats = <<ResolveCaveat(ns, TimeBeforeCaveat(Expiry))>>
         /\ Carries(m, version, least, data)
<1> DEFINE caveats == <<ResolveCaveat(ns, TimeBeforeCaveat(Expiry))>>
           plain == AddFirstParty(BakeryMacaroon(id, version, ns), <<TimeBeforeCaveat(Expiry)>>)
           full == AddThirdParty(plain, [version |-> third, key |-> Key], c, keys)
<1>1. BakeryMacaroon(id, version, ns) =
        [id |-> id, version |-> version, ns |-> ns, caveats |-> <<>>, caveatId |-> {}, caveatData |-> {}]
  <2>1. ~(version > LatestVersion)
    BY DEF LatestVersion
  <2> QED
    BY <2>1, Zenon DEF BakeryMacaroon
<1>2. plain = [id |-> id, version |-> version, ns |-> ns, caveats |-> caveats,
               caveatId |-> {}, caveatData |-> {}]
  <2> DEFINE bare == BakeryMacaroon(id, version, ns)
             cavs == <<TimeBeforeCaveat(Expiry)>>
             joined == bare.caveats \o [i \in DOMAIN cavs |-> ResolveCaveat(bare.ns, cavs[i])]
  <2>1. plain = [bare EXCEPT !.caveats = joined]
    BY Zenon DEF AddFirstParty
  <2>0. bare = [id |-> id, version |-> version, ns |-> ns, caveats |-> <<>>,
                caveatId |-> {}, caveatData |-> {}]
    BY <1>1
  <2>3. joined = caveats
    <3>1. bare.caveats = <<>> /\ bare.ns = ns
      BY <2>0
    <3> HIDE DEF bare
    <3>2. DOMAIN cavs = 1..1 /\ cavs[1] = TimeBeforeCaveat(Expiry)
      OBVIOUS
    <3> HIDE DEF cavs
    <3> DEFINE resolved == [i \in DOMAIN cavs |-> ResolveCaveat(ns, cavs[i])]
    <3>3. resolved = [i \in 1..1 |-> ResolveCaveat(ns, TimeBeforeCaveat(Expiry))]
      BY <3>2
    <3>4. resolved = caveats
      BY <3>3
    <3> HIDE DEF resolved, caveats
    <3>5. caveats \in Seq({caveats[1]}) /\ <<>> \o caveats = caveats
      BY DEF caveats
    <3> QED
      BY <3>1, <3>4, <3>5 DEF resolved
  <2> HIDE DEF joined, bare, plain
  <2>2. plain = [id |-> id, version |-> version, ns |-> ns, caveats |-> joined,
                 caveatId |-> {}, caveatData |-> {}]
    BY <2>0, <2>1
  <2> QED
    BY <2>2, <2>3
<1> HIDE DEF plain, caveats
<1>3. full = IF least < 3
             THEN [id |-> id, version |-> version, ns |-> ns, caveats |-> caveats,
                   caveatId |-> {data}, caveatData |-> {}]
             ELSE [id |-> id, version |-> version, ns |-> ns, caveats |-> caveats,
                   caveatId |-> {ExternalId(0)}, caveatData |-> {data}]
  <2> DEFINE info == [version |-> third, key |-> Key]
  <2>1. info.version = third /\ info.key = Key
    OBVIOUS
  <2>2. plain.version = version /\ plain.ns = ns
    BY <1>2
  <2>3. LeastVersion(plain, info) = least
    BY <2>1, <2>2 DEF LeastVersion
  <2> HIDE DEF info
  <2>4. full = IF least < 3 THEN [plain EXCEPT !.caveatId = {data}]
               ELSE [plain EXCEPT !.caveatId = {ExternalId(0)}, !.caveatData = {data}]
    BY <2>1, <2>2, <2>3 DEF AddThirdParty, info
  <2> QED
    BY <1>2, <2>4
<1> HIDE DEF full
<1>4. m = ThroughJSON(full)
  BY DEF NewMacaroon, plain, full
<1>5. full.version = version /\ full.id = id
  BY <1>3
<1>6. CASE version < 3
  <2>1. least < 3
    BY <1>6 DEF LatestVersion
  <2>2. full = [id |-> id, version |-> version, ns |-> ns, caveats |-> caveats,
                caveatId |-> {data}, caveatData |-> {}]
    BY <1>3, <2>1
  <2> QED
    BY <1>4, <1>6, <2>1, <2>2 DEF ThroughJSON, NewLegacyMacaroon, BakeryVersion, MacaroonVersion, caveats, Carries
<1>7. CASE ~(version < 3)
  <2>1. m = full
    BY <1>4, <1>5, <1>7 DEF ThroughJSON
  <2> QED
    BY <1>3, <1>7, <2>1 DEF caveats, Carries
<1> QED
  BY <1>6, <1>7

\* The caveat of a macaroon is in a version that the discharger knows, and in
\* one without a namespace when the macaroon or the locator is.
LEMMA HeldCaveat ==
  ASSUME TypeOK, MintedInv, NEW c \in Conversations, mac[c] # {}
  PROVE  \E least \in 0..LatestVersion, keys \in Needs[c] :
           /\ least <= party
           /\ CaveatInfo(c).caveat = EncodeCaveat(least, Key, c, keys, ns)
           /\ ViaLegacy(c) <=> least < 3
<1>1. PICK m : m \in mac[c]
  OBVIOUS
<1>2. AtMostOne(mac[c]) /\ party \in 1..LatestVersion
  BY DEF TypeOK
<1>3. The(mac[c]) = m
  BY <1>1, <1>2, TheOnly
<1>4. PICK version \in 0..LatestVersion, third \in 1..party, keys \in Needs[c] :
        m = NewMacaroon(c, m.id, version, third, keys)
  BY <1>1 DEF MintedInv, Minted
<1> DEFINE least == IF version < third THEN version ELSE third
           data == EncodeCaveat(least, Key, c, keys, ns)
<1>5. third \in 1..LatestVersion
  BY <1>2 DEF LatestVersion
<1>6. Carries(m, version, least, data)
  <2> DEFINE id == m.id
  <2>1. /\ least = IF version < third THEN version ELSE third
        /\ data = EncodeCaveat(least, Key, c, keys, ns)
        /\ m = NewMacaroon(c, id, version, third, keys)
    BY <1>4
  <2> HIDE DEF least, data, id
  <2> QED
    BY <2>1, <1>5, MintedMacaroon
<1>7. least \in 0..LatestVersion /\ least <= party
  BY <1>2, <1>5 DEF LatestVersion
<1>8. version < 3 => least < 3
  BY <1>5 DEF LatestVersion
<1> HIDE DEF least, data
<1>9. CaveatInfo(c).caveat = data
  BY <1>3, <1>6, TheOfOne DEF CaveatInfo, Carries
<1>10. DecodedVersion(data) < 3 <=> least < 3
  BY <1>7 DEF data, DecodedVersion, EncodeCaveat, CaveatFirstByte, JSONByte, LatestVersion
<1>11. ViaLegacy(c) <=> least < 3
  BY <1>3, <1>6, <1>8, <1>9, <1>10 DEF ViaLegacy, Carries
<1> QED
  BY <1>7, <1>9, <1>11 DEF data

\* The discharger takes it in, for what it was made of.
LEMMA HeldCaveatDecodes ==
  ASSUME TypeOK, MintedInv, NEW c \in Conversations, mac[c] # {}
  PROVE  /\ Decodes(c)
         /\ Keys(c) \in Needs[c]
         /\ DecodedNamespace(CaveatInfo(c).caveat) = IF ViaLegacy(c) THEN LegacyNamespace ELSE ns
         /\ DecodedVersion(CaveatInfo(c).caveat) \in 1..LatestVersion
<1>1. PICK least \in 0..LatestVersion, keys \in Needs[c] :
        /\ least <= party
        /\ CaveatInfo(c).caveat = EncodeCaveat(least, Key, c, keys, ns)
        /\ ViaLegacy(c) <=> least < 3
  BY HeldCaveat
<1> DEFINE data == EncodeCaveat(least, Key, c, keys, ns)
<1>2. party \in 1..LatestVersion
  BY DEF TypeOK
<1>3. /\ data.first = CaveatFirstByte(least) /\ data.key = Key /\ data.condition = keys
      /\ data.ns = IF least < 3 THEN {} ELSE {ns}
      /\ IsCaveatInfo(data)
  BY DEF EncodeCaveat, IsCaveatInfo
<1> HIDE DEF data
<1>4. Decodable(Key, party, data)
  BY <1>1, <1>2, <1>3 DEF Decodable, CaveatFirstByte, LatestVersion
<1>5. DecodedVersion(data) \in 1..LatestVersion
  BY <1>3 DEF DecodedVersion, CaveatFirstByte, JSONByte, LatestVersion
<1>6. DecodedNamespace(data) = IF ViaLegacy(c) THEN LegacyNamespace ELSE ns
  BY <1>1, <1>3 DEF DecodedNamespace
<1> QED
  BY <1>1, <1>3, <1>4, <1>5, <1>6 DEF Decodes, Keys, data

\* What the discharger makes of an outcome.
LEMMA DischargeMade ==
  ASSUME TypeOK, MintedInv, NEW c \in Conversations, mac[c] # {}, NEW replied \in Replies,
         NEW m, m = ThroughJSON(NewDischargeMacaroon(CaveatInfo(c), replied))
  PROVE  /\ m.id = CaveatInfo(c).id
         /\ m.caveats = LET caveats == NeedDeclared(Keys(c), replied)
                            namespace == IF ViaLegacy(c) THEN LegacyNamespace ELSE ns
                        IN  [j \in DOMAIN caveats |-> ResolveCaveat(namespace, caveats[j])]
<1> DEFINE caveats == NeedDeclared(Keys(c), replied)
           namespace == IF ViaLegacy(c) THEN LegacyNamespace ELSE ns
           made == [j \in DOMAIN caveats |-> ResolveCaveat(namespace, caveats[j])]
           version == DecodedVersion(CaveatInfo(c).caveat)
           bare == BakeryMacaroon(CaveatInfo(c).id, version, namespace)
           full == NewDischargeMacaroon(CaveatInfo(c), replied)
<1>1. /\ Keys(c) \in Needs[c]
      /\ DecodedNamespace(CaveatInfo(c).caveat) = namespace
      /\ version \in 1..LatestVersion
  BY HeldCaveatDecodes
<1>2. PICK n \in Nat : DOMAIN caveats = 1..n
  <2>1. Keys(c) \in Seq(ToSet(Keys(c))) /\ replied \in Seq(ToSet(replied))
    BY <1>1, NeedsAreSequences, RepliesAreSequences
  <2> QED
    BY <2>1, NeedDeclaredIsSequence
<1> HIDE DEF caveats
<1>3. made \in Seq({made[j] : j \in 1..n})
  <2>1. made = [j \in 1..n |-> made[j]]
    BY <1>2
  <2> HIDE DEF made
  <2> QED
    BY <2>1
<1>4. full = AddFirstParty(bare, caveats)
  BY <1>1 DEF NewDischargeMacaroon, Keys, caveats
<1> HIDE DEF namespace
<1>5. PICK v : bare = [id |-> CaveatInfo(c).id, version |-> v, ns |-> namespace, caveats |-> <<>>,
                       caveatId |-> {}, caveatData |-> {}]
  BY DEF BakeryMacaroon
<1> HIDE DEF bare
<1>6. full = [bare EXCEPT !.caveats = <<>> \o made]
  <2>1. bare.ns = namespace /\ bare.caveats = <<>>
    BY <1>5
  <2> QED
    BY <1>4, <2>1 DEF AddFirstParty
<1> HIDE DEF made, full
<1>7. <<>> \o made = made
  BY <1>3
<1>8. full = [id |-> CaveatInfo(c).id, version |-> v, ns |-> namespace, caveats |-> made,
              caveatId |-> {}, caveatData |-> {}]
  BY <1>5, <1>6, <1>7
<1>9. m.id = CaveatInfo(c).id /\ m.caveats = made
  BY <1>8 DEF ThroughJSON, NewLegacyMacaroon, full
<1> QED
  BY <1>9 DEF made, caveats, namespace

-----------------------------------------------------------------------------
(* Steps of one kind.                                                      *)

LEMMA SameMacaroons == mac' = mac => Future' = Future
BY DEF Future, Holding, CaveatInfo, Replies

LEMMA SameInfo ==
  ASSUME NEW c, mac'[c] = mac[c]
  PROVE  CaveatInfo(c)' = CaveatInfo(c) /\ Keys(c)' = Keys(c) /\ ViaLegacy(c)' = ViaLegacy(c)
BY DEF CaveatInfo, Keys, ViaLegacy

LEMMA PartyType == TypeOK => party \in Nat
<1>1. TypeOK => party \in 1..LatestVersion
  BY DEF TypeOK
<1> QED
  BY <1>1 DEF LatestVersion

\* A macaroon stays one that was minted while the discharger knows no less.
LEMMA SameMinted ==
  ASSUME NEW c, Minted(c), mac'[c] = mac[c], ns' = ns, party \in Nat, party' \in Nat, party <= party'
  PROVE  Minted(c)'
<1> SUFFICES ASSUME NEW m \in mac[c]
             PROVE  \E version \in 0..LatestVersion, third \in 1..party', keys \in Needs[c] :
                      m = NewMacaroon(c, m.id, version, third, keys)'
  BY DEF Minted
<1>1. PICK version \in 0..LatestVersion, third \in 1..party, keys \in Needs[c] :
        m = NewMacaroon(c, m.id, version, third, keys)
  BY DEF Minted
<1>2. NewMacaroon(c, m.id, version, third, keys)' = NewMacaroon(c, m.id, version, third, keys)
  BY DEF NewMacaroon
<1>3. third \in 1..party'
  OBVIOUS
<1> QED
  BY <1>1, <1>2, <1>3

LEMMA AllMinted ==
  ASSUME TypeOK, MintedInv, mac' = mac, ns' = ns, party' = party
  PROVE  \A c \in Conversations : Minted(c)'
<1>1. party \in Nat /\ party' \in Nat /\ party <= party'
  BY PartyType
<1>2. ASSUME NEW c \in Conversations PROVE Minted(c)'
  BY <1>1, SameMinted DEF MintedInv
<1> QED
  BY <1>2

\* A discharge macaroon stays justified by a discharge that stays.
LEMMA StaysJustified ==
  ASSUME NEW c, NEW i, JustifiedBy(c, i), mac'[c] = mac[c], dm'[c] = dm[c], told'[c] = told[c], ns' = ns,
         waiting'[i] = waiting[i]
  PROVE  JustifiedBy(c, i)'
BY SameInfo DEF JustifiedBy, Outcome

\* A conversation without a discharge macaroon goes on; nothing else changes.
Resting == {"info", "publickey", "minted", "timed out", "failed"}

LEMMA MoveKeeps ==
  ASSUME ConversationInv, NEW c \in Conversations, NEW label \in Resting, Goto(c, label),
         UNCHANGED <<partyVars, macVars, dischargeVars, verdictVars>>,
         pc[c] \notin {"discharged", "over"},
         label \in {"info", "publickey"} => mac[c] = {},
         label \in {"minted", "timed out"} => mac[c] # {}
  PROVE  ConversationInv'
<1>0. UNCHANGED <<ns, party, cache, mac, store, discharge, told, dm, waiting, added, verdict>>
  BY DEF partyVars, macVars, dischargeVars, verdictVars
<1>1. TypeOK /\ MintedInv /\ WaitingInv /\ DischargeJustified /\ AnswerKnown
  BY DEF ConversationInv
<1>2. /\ pc' \in [Conversations -> Labels]
      /\ pc'[c] = label
      /\ \A d \in Conversations \ {c} : pc'[d] = pc[d]
  BY <1>1 DEF Goto, TypeOK, Labels, Resting
<1>3. TypeOK'
  BY <1>0, <1>1, <1>2 DEF TypeOK, Resting
<1>4. MintedInv'
  BY <1>0, <1>1, <1>2, AllMinted DEF MintedInv, Resting
<1>5. WaitingInv'
  BY <1>0, <1>1, <1>2, SameMacaroons, SameInfo DEF WaitingInv, Awaits, Resting
<1>6. DischargeJustified'
  BY <1>0, <1>1, StaysJustified DEF DischargeJustified
<1>7. AnswerKnown'
  BY <1>1, <1>2 DEF AnswerKnown, Resting
<1> QED
  BY <1>3, <1>4, <1>5, <1>6, <1>7 DEF ConversationInv

\* The answer is one that the client knows, whatever its version.
LEMMA AnswerRecognised ==
  ASSUME NEW c \in Conversations, NEW header \in Headers[c], Answer(c, header)
  PROVE  Goto(c, "minted")
<1> DEFINE version == RequestVersion(header)
<1>1. version \in 0..LatestVersion /\ (header = {} => version = 0)
  BY RequestVersionType
<1>2. BakeryMacaroon(c, version, ns).version = version
  BY <1>1 DEF BakeryMacaroon, LatestVersion
<1>3. Recognised(header, DischargeRequiredResponse(version))
  BY <1>1 DEF Recognised, DischargeRequiredResponse, IsBakeryError
<1> QED
  BY <1>2, <1>3 DEF Answer

LEMMA MintKeeps ==
  ASSUME ConversationInv, NEW c \in Conversations, pc[c] \in {"idle", "info", "publickey"},
         NEW third \in 1..party, Mint(c, third),
         cache' \subseteq 1..LatestVersion, AtMostOne(cache'), \A v \in cache' : v <= party
  PROVE  ConversationInv'
<1>1. TypeOK /\ MintedInv /\ WaitingInv /\ DischargeJustified /\ AnswerKnown
  BY DEF ConversationInv
<1>2. UNCHANGED <<ns, party, discharge, told, dm, waiting, added, verdict>>
  BY DEF Mint, dischargeVars, verdictVars
<1>3. PICK header \in Headers[c], keys \in Needs[c] :
        /\ \E id : mac' = [mac EXCEPT ![c] = {NewMacaroon(c, id, RequestVersion(header), third, keys)}]
        /\ DOMAIN store' = Conversations
        /\ Answer(c, header)
  <2>1. DOMAIN store = Conversations
    BY <1>1 DEF TypeOK
  <2> QED
    BY <2>1 DEF Mint
<1> PICK id : mac' = [mac EXCEPT ![c] = {NewMacaroon(c, id, RequestVersion(header), third, keys)}]
  BY <1>3
<1>4. RequestVersion(header) \in 0..LatestVersion
  BY RequestVersionType
<1> DEFINE m == NewMacaroon(c, id, RequestVersion(header), third, keys)
<1>5. pc' = [pc EXCEPT ![c] = "minted"]
  BY <1>3, AnswerRecognised DEF Goto
<1>6. third \in 1..LatestVersion
  BY <1>1 DEF TypeOK, LatestVersion
<1>7. m.id = id
  BY <1>4, <1>6, MintedMacaroon
<1> HIDE DEF m
<1>9. /\ DOMAIN mac' = Conversations
      /\ mac'[c] = {m}
      /\ \A d \in Conversations \ {c} : mac'[d] = mac[d]
  BY <1>1, <1>3 DEF TypeOK, m
<1>10. /\ pc' \in [Conversations -> Labels]
       /\ pc'[c] = "minted"
       /\ \A d \in Conversations \ {c} : pc'[d] = pc[d]
  BY <1>1, <1>5 DEF TypeOK, Labels
<1>11. mac[c] = {} /\ dm[c] = {} /\ ~Awaits(c)
  BY <1>1 DEF MintedInv, TypeOK, Awaits
<1>12. TypeOK'
  <2>1. AtMostOne(mac'[c])
    BY <1>9 DEF AtMostOne
  <2>2. ASSUME NEW d \in Conversations
        PROVE  /\ AtMostOne(mac'[d]) /\ AtMostOne(told'[d]) /\ AtMostOne(dm'[d]) /\ AtMostOne(verdict'[d])
               /\ pc'[d] \notin {"none", "idle", "info", "publickey", "failed"} => mac'[d] # {}
               /\ pc'[d] \in {"discharged", "over"} <=> dm'[d] # {}
               /\ pc'[d] = "over" <=> verdict'[d] # {}
               /\ added'[d] \in Additions[d] \cup {<<>>}
    <3>1. CASE d = c
      BY <3>1, <2>1, <1>1, <1>2, <1>9, <1>10, <1>11 DEF TypeOK
    <3>2. CASE d # c
      BY <3>2, <1>1, <1>2, <1>9, <1>10 DEF TypeOK
    <3> QED
      BY <3>1, <3>2
  <2>3. /\ DOMAIN told' = Conversations /\ DOMAIN dm' = Conversations
        /\ DOMAIN added' = Conversations /\ DOMAIN verdict' = Conversations
    BY <1>1, <1>2 DEF TypeOK
  <2>4. /\ ns' \in Namespaces /\ party' \in 1..LatestVersion
        /\ discharge' \in [Conversations -> 0..Len(waiting')]
        /\ \A i \in DOMAIN waiting' :
             /\ waiting'[i].done \in BOOLEAN
             /\ waiting'[i].err \in BOOLEAN
             /\ waiting'[i].err \/ ~waiting'[i].done => waiting'[i].caveats = <<>>
    BY <1>1, <1>2 DEF TypeOK
  <2> QED
    BY <1>3, <1>9, <1>10, <2>2, <2>3, <2>4 DEF TypeOK
<1>13. MintedInv'
  <2>1. ASSUME NEW d \in Conversations PROVE Minted(d)'
    <3>1. CASE d = c
      <4>1. third \in 1..party'
        BY <1>2
      <4>2. ASSUME NEW n \in mac'[c]
            PROVE  \E version \in 0..LatestVersion, w \in 1..party', ks \in Needs[c] :
                     n = NewMacaroon(c, n.id, version, w, ks)'
        <5>1. n = m
          BY <1>9
        <5>2. n = NewMacaroon(c, n.id, RequestVersion(header), third, keys)'
          <6>1. n = NewMacaroon(c, n.id, RequestVersion(header), third, keys)
            BY <5>1, <1>7 DEF m
          <6> QED
            BY <6>1, <1>2 DEF NewMacaroon
        <5> QED
          BY <5>2, <4>1, <1>4
      <4>5. Minted(c)'
        BY <4>2 DEF Minted
      <4> QED
        BY <3>1, <4>5
    <3>2. CASE d # c
      <4>1. party \in Nat /\ party' \in Nat /\ party <= party'
        BY <1>1, <1>2, PartyType
      <4> QED
        BY <3>2, <4>1, <1>1, <1>2, <1>9, SameMinted DEF MintedInv
    <3> QED
      BY <3>1, <3>2
  <2> QED
    BY <1>1, <1>2, <1>9, <1>10, <2>1 DEF MintedInv
<1>14. \A d \in Conversations \ {c} : CaveatInfo(d)' = CaveatInfo(d)
  BY <1>9, SameInfo
<1>15. WaitingInv'
  <2>1. Holding \subseteq Holding' /\ c \notin Holding
    BY <1>9, <1>11 DEF Holding
  <2>2. Future \subseteq Future'
    BY <2>1, <1>14 DEF Future, Holding, Replies
  <2>3. waiting' \in Seq(Future')
    BY <2>2, <1>1, <1>2 DEF WaitingInv
  <2> QED
    BY <2>3, <1>1, <1>2, <1>10, <1>14 DEF WaitingInv, Awaits
<1>16. DischargeJustified'
  <2>1. ASSUME NEW d \in Conversations, dm'[d] # {}
        PROVE  \E i \in DOMAIN waiting' : JustifiedBy(d, i)'
    <3>1. d # c /\ dm[d] # {}
      BY <2>1, <1>2, <1>11
    <3> QED
      BY <3>1, <1>1, <1>2, <1>9, StaysJustified DEF DischargeJustified
  <2> QED
    BY <2>1 DEF DischargeJustified
<1>17. AnswerKnown'
  BY <1>1, <1>10 DEF AnswerKnown
<1> QED
  BY <1>12, <1>13, <1>15, <1>16, <1>17 DEF ConversationInv

LEMMA UpgradeKeeps == ConversationInv /\ Upgrade => ConversationInv'
<1> SUFFICES ASSUME ConversationInv, Upgrade PROVE ConversationInv'
  OBVIOUS
<1>1. TypeOK /\ MintedInv /\ WaitingInv /\ DischargeJustified /\ AnswerKnown
  BY DEF ConversationInv
<1>2. /\ UNCHANGED <<ns, cache, pc, mac, store, discharge, told, dm, waiting, added, verdict>>
      /\ party' = LatestVersion
  BY DEF Upgrade, macVars, dischargeVars, verdictVars
<1>3. party \in 1..LatestVersion /\ cache \subseteq 1..LatestVersion
  BY <1>1 DEF TypeOK
<1>4. party' \in 1..LatestVersion /\ party \in Nat /\ party' \in Nat /\ party <= party'
  BY <1>2, <1>3 DEF LatestVersion
<1>5. TypeOK'
  BY <1>1, <1>2, <1>4 DEF TypeOK
<1>6. MintedInv'
  <2>1. ASSUME NEW c \in Conversations PROVE Minted(c)'
    BY <1>1, <1>2, <1>4, SameMinted DEF MintedInv
  <2>2. \A v \in cache : v <= LatestVersion
    BY <1>3 DEF LatestVersion
  <2> QED
    BY <1>1, <1>2, <2>1, <2>2 DEF MintedInv
<1>7. WaitingInv'
  BY <1>1, <1>2, SameMacaroons, SameInfo DEF WaitingInv, Awaits
<1>8. DischargeJustified'
  BY <1>1, <1>2, StaysJustified DEF DischargeJustified
<1>9. AnswerKnown'
  BY <1>1, <1>2 DEF AnswerKnown
<1> QED
  BY <1>5, <1>6, <1>7, <1>8, <1>9 DEF ConversationInv

-----------------------------------------------------------------------------
(* Discharges.                                                             *)

LEMMA WaitingType ==
  ASSUME ConversationInv
  PROVE  /\ Len(waiting) \in Nat /\ DOMAIN waiting = 1..Len(waiting)
         /\ \A i \in DOMAIN waiting : waiting[i] \in Future
BY DEF ConversationInv, WaitingInv

\* The waiting goes on as before for all but the discharge i.
LEMMA DischargesKept ==
  ASSUME ConversationInv, mac' = mac, dm' = dm, ns' = ns, DOMAIN waiting \subseteq DOMAIN waiting',
         \A c \in Conversations : dm[c] # {} => told'[c] = told[c],
         \A i \in DOMAIN waiting : waiting[i].done => waiting'[i] = waiting[i]
  PROVE  DischargeJustified'
<1> SUFFICES ASSUME NEW c \in Conversations, dm'[c] # {}
             PROVE  \E i \in DOMAIN waiting' : JustifiedBy(c, i)'
  BY DEF DischargeJustified
<1>1. PICK i \in DOMAIN waiting : JustifiedBy(c, i)
  BY DEF ConversationInv, DischargeJustified
<1>2. waiting'[i] = waiting[i]
  BY <1>1 DEF JustifiedBy
<1>3. JustifiedBy(c, i)'
  BY <1>1, <1>2, StaysJustified
<1> QED
  BY <1>3

Waits == {"await token", "await macaroon"}

LEMMA AskKeeps ==
  ASSUME ConversationInv, NEW c \in Conversations, AskDischarge(c)
  PROVE  ConversationInv'
<1>1. TypeOK /\ MintedInv /\ WaitingInv /\ DischargeJustified /\ AnswerKnown
  BY DEF ConversationInv
<1>2. UNCHANGED <<ns, party, cache, mac, store, told, dm, added, verdict>> /\ pc[c] = "minted"
  BY DEF AskDischarge, partyVars, macVars, verdictVars
<1>3. mac[c] # {}
  BY <1>1, <1>2 DEF TypeOK
<1>4. Decodes(c)
  BY <1>1, <1>3, HeldCaveatDecodes
<1> DEFINE n == Len(waiting)
           new == [info |-> CaveatInfo(c), done |-> FALSE, caveats |-> <<>>, err |-> FALSE]
<1>5. /\ waiting' = Append(waiting, new)
      /\ discharge' = [discharge EXCEPT ![c] = Len(waiting')]
      /\ \E label \in Waits : Goto(c, label)
  BY <1>4, Zenon DEF AskDischarge, NewDischarge, Waits
<1>6. PICK label \in Waits : Goto(c, label)
  BY <1>5
<1>7. /\ pc' \in [Conversations -> Labels]
      /\ pc'[c] = label
      /\ \A d \in Conversations \ {c} : pc'[d] = pc[d]
  BY <1>1, <1>6 DEF TypeOK, Labels, Goto, Waits
<1>8. new \in Future
  <2>1. CaveatInfo(c) \in {CaveatInfo(d) : d \in Holding} /\ <<>> \in Replies
    BY <1>3 DEF Holding, Replies
  <2> QED
    BY <2>1 DEF Future
<1>9. new.info = CaveatInfo(c) /\ new.done = FALSE /\ new.err = FALSE /\ new.caveats = <<>>
  OBVIOUS
<1> HIDE DEF new
<1>10. /\ waiting' \in Seq(Future)
       /\ n \in Nat /\ DOMAIN waiting = 1..n
       /\ Len(waiting') = n + 1 /\ DOMAIN waiting' = 1..(n + 1)
       /\ waiting'[n + 1] = new
       /\ \A i \in DOMAIN waiting : waiting'[i] = waiting[i]
  <2>1. waiting \in Seq(Future)
    BY <1>1 DEF WaitingInv
  <2>2. waiting' = Append(waiting, new)
    BY <1>5
  <2>3. waiting' \in Seq(Future)
    BY <2>1, <2>2, <1>8
  <2>4. n \in Nat /\ DOMAIN waiting = 1..n
    BY <2>1
  <2>5. Len(waiting') = n + 1
    BY <2>1, <2>2, <1>8
  <2>6. DOMAIN waiting' = 1..(n + 1)
    BY <2>3, <2>5
  <2>7. waiting'[n + 1] = new
    BY <2>1, <2>2, <1>8
  <2>8. \A i \in DOMAIN waiting : waiting'[i] = waiting[i]
    BY <2>1, <2>2, <1>8
  <2> QED
    BY <2>3, <2>4, <2>5, <2>6, <2>7, <2>8
<1>11. /\ discharge' \in [Conversations -> 0..Len(waiting')]
       /\ discharge'[c] = n + 1
       /\ \A d \in Conversations \ {c} : discharge'[d] = discharge[d] /\ discharge[d] \in 0..n
  <2>1. discharge \in [Conversations -> 0..n]
    BY <1>1 DEF TypeOK
  <2> QED
    BY <2>1, <1>5, <1>10
<1> HIDE DEF n
<1>12. TypeOK'
  <2>1. ASSUME NEW i \in DOMAIN waiting'
        PROVE  /\ waiting'[i].done \in BOOLEAN
               /\ waiting'[i].err \in BOOLEAN
               /\ waiting'[i].err \/ ~waiting'[i].done => waiting'[i].caveats = <<>>
    <3>1. CASE i = n + 1
      BY <3>1, <1>9, <1>10
    <3>2. CASE i # n + 1
      <4>1. i \in DOMAIN waiting
        BY <3>2, <1>10
      <4> QED
        BY <4>1, <1>1, <1>10 DEF TypeOK
    <3> QED
      BY <3>1, <3>2
  <2>2. \A d \in Conversations :
          /\ pc'[d] \notin {"none", "idle", "info", "publickey", "failed"} => mac[d] # {}
          /\ pc'[d] \in {"discharged", "over"} <=> dm[d] # {}
          /\ pc'[d] = "over" <=> verdict[d] # {}
    BY <1>1, <1>2, <1>3, <1>7 DEF TypeOK, Waits
  <2> QED
    BY <1>1, <1>2, <1>7, <1>11, <2>1, <2>2 DEF TypeOK
<1>13. MintedInv'
  BY <1>1, <1>2, <1>7, AllMinted DEF MintedInv, Waits
<1>14. WaitingInv'
  <2>1. waiting' \in Seq(Future')
    BY <1>2, <1>10, SameMacaroons
  <2>2. ASSUME NEW d \in Conversations, Awaits(d)'
        PROVE  discharge'[d] # 0 /\ waiting'[discharge'[d]].info = CaveatInfo(d)'
    <3>1. CaveatInfo(d)' = CaveatInfo(d)
      BY <1>2, SameInfo
    <3>2. CASE d = c
      BY <3>1, <3>2, <1>9, <1>10, <1>11
    <3>3. CASE d # c
      <4>1. Awaits(d)
        BY <2>2, <3>3, <1>7 DEF Awaits
      <4>2. discharge[d] # 0 /\ waiting[discharge[d]].info = CaveatInfo(d)
        BY <4>1, <1>1 DEF WaitingInv
      <4>3. discharge[d] \in DOMAIN waiting /\ discharge'[d] = discharge[d]
        BY <3>3, <4>2, <1>10, <1>11
      <4> QED
        BY <3>1, <4>2, <4>3, <1>10
    <3> QED
      BY <3>2, <3>3
  <2> QED
    BY <1>2, <2>1, <2>2 DEF WaitingInv
<1>15. DischargeJustified'
  BY <1>2, <1>10, DischargesKept
<1>16. AnswerKnown'
  BY <1>1, <1>7 DEF AnswerKnown, Waits
<1> QED
  BY <1>12, <1>13, <1>14, <1>15, <1>16 DEF ConversationInv

\* The outcome of a visit.
LEMMA VisitOutcome ==
  ASSUME NEW i \in DOMAIN waiting, Visit(i)
  PROVE  \E o \in [caveats : Replies, err : BOOLEAN] :
           /\ o.err => o.caveats = <<>>
           /\ DischargeDone(i, o.caveats, o.err)
<1>1. CASE DischargeDone(i, <<>>, TRUE)
  <2> DEFINE o == [caveats |-> <<>>, err |-> TRUE]
  <2>1. o \in [caveats : Replies, err : BOOLEAN] /\ o.caveats = <<>> /\ o.err = TRUE
    BY DEF Replies
  <2> HIDE DEF o
  <2> QED
    BY <1>1, <2>1
<1>2. CASE \E c \in Conversations : \E caveats \in Answers[c] : DischargeDone(i, caveats, FALSE)
  <2>0. PICK c \in Conversations : \E caveats \in Answers[c] : DischargeDone(i, caveats, FALSE)
    BY <1>2
  <2>1. PICK caveats \in Answers[c] : DischargeDone(i, caveats, FALSE)
    BY <2>0
  <2> DEFINE o == [caveats |-> caveats, err |-> FALSE]
  <2>2. o \in [caveats : Replies, err : BOOLEAN] /\ o.caveats = caveats /\ o.err = FALSE
    BY DEF Replies
  <2> HIDE DEF o
  <2> QED
    BY <2>1, <2>2
<1> QED
  BY <1>1, <1>2 DEF Visit

LEMMA VisitKeeps ==
  ASSUME ConversationInv, NEW i \in DOMAIN waiting, Visit(i)
  PROVE  ConversationInv'
<1>1. TypeOK /\ MintedInv /\ WaitingInv /\ DischargeJustified /\ AnswerKnown
  BY DEF ConversationInv
<1>2. UNCHANGED <<ns, party, cache, pc, mac, store, discharge, told, dm, added, verdict>>
  BY DEF Visit, partyVars, macVars, verdictVars
<1>3. PICK o \in [caveats : Replies, err : BOOLEAN] :
        /\ o.err => o.caveats = <<>>
        /\ DischargeDone(i, o.caveats, o.err)
  BY VisitOutcome
<1> DEFINE new == Completed(waiting[i], o.caveats, o.err)
<1>4. ~waiting[i].done /\ waiting' = [waiting EXCEPT ![i] = new]
  BY <1>3 DEF DischargeDone
<1>5. waiting[i] \in Future /\ Len(waiting) \in Nat /\ DOMAIN waiting = 1..Len(waiting)
  BY WaitingType
<1>6. /\ new \in Future /\ new.info = waiting[i].info /\ new.done = TRUE
      /\ new.err = o.err /\ new.caveats = o.caveats /\ o.err \in BOOLEAN
  BY <1>5 DEF Future, Completed
<1> HIDE DEF new
<1>7. /\ waiting' \in Seq(Future)
      /\ DOMAIN waiting' = DOMAIN waiting /\ Len(waiting') = Len(waiting)
      /\ waiting'[i] = new
      /\ \A j \in DOMAIN waiting \ {i} : waiting'[j] = waiting[j]
  BY <1>1, <1>4, <1>5, <1>6 DEF WaitingInv
<1>8. TypeOK'
  <2>1. ASSUME NEW j \in DOMAIN waiting'
        PROVE  /\ waiting'[j].done \in BOOLEAN
               /\ waiting'[j].err \in BOOLEAN
               /\ waiting'[j].err \/ ~waiting'[j].done => waiting'[j].caveats = <<>>
    <3>1. CASE j = i
      BY <3>1, <1>3, <1>6, <1>7
    <3>2. CASE j # i
      BY <3>2, <1>1, <1>7 DEF TypeOK
    <3> QED
      BY <3>1, <3>2
  <2> QED
    BY <1>1, <1>2, <1>7, <2>1 DEF TypeOK
<1>9. MintedInv'
  BY <1>1, <1>2, AllMinted DEF MintedInv
<1>10. WaitingInv'
  <2>1. waiting' \in Seq(Future')
    BY <1>2, <1>7, SameMacaroons
  <2>2. \A j \in DOMAIN waiting : waiting'[j].info = waiting[j].info
    BY <1>6, <1>7
  <2>3. ASSUME NEW c \in Conversations, Awaits(c)'
        PROVE  discharge'[c] # 0 /\ waiting'[discharge'[c]].info = CaveatInfo(c)'
    <3>1. CaveatInfo(c)' = CaveatInfo(c)
      BY <1>2, SameInfo
    <3>2. discharge[c] # 0 /\ waiting[discharge[c]].info = CaveatInfo(c)
      BY <2>3, <1>1, <1>2 DEF WaitingInv, Awaits
    <3>3. discharge[c] \in 0..Len(waiting)
      BY <1>1 DEF TypeOK
    <3>4. discharge[c] \in DOMAIN waiting
      BY <3>2, <3>3, <1>5
    <3> QED
      BY <3>1, <3>2, <3>4, <2>2, <1>2
  <2> QED
    BY <1>2, <2>1, <2>3 DEF WaitingInv
<1>11. DischargeJustified'
  BY <1>2, <1>4, <1>7, DischargesKept
<1>12. AnswerKnown'
  BY <1>1, <1>2 DEF AnswerKnown
<1> QED
  BY <1>8, <1>9, <1>10, <1>11, <1>12 DEF ConversationInv

-----------------------------------------------------------------------------
(* Telling the outcome.                                                    *)

LEMMA Awaited ==
  ASSUME ConversationInv, NEW c \in Conversations, Awaits(c)
  PROVE  discharge[c] \in DOMAIN waiting /\ waiting[discharge[c]].info = CaveatInfo(c)
<1>1. discharge[c] # 0 /\ waiting[discharge[c]].info = CaveatInfo(c)
  BY DEF ConversationInv, WaitingInv
<1>2. discharge[c] \in 0..Len(waiting)
  BY DEF ConversationInv, TypeOK
<1> QED
  BY <1>1, <1>2, WaitingType

\* A conversation is told an outcome, and gets a token or nothing.
LEMMA ToldKeeps ==
  ASSUME ConversationInv, NEW c \in Conversations, NEW label \in {"failed", "token"}, Goto(c, label),
         pc[c] \notin {"discharged", "over"}, mac[c] # {},
         NEW o, told' = [told EXCEPT ![c] = {o}],
         UNCHANGED <<partyVars, macVars, discharge, dm, waiting, verdictVars>>
  PROVE  ConversationInv'
<1>1. TypeOK /\ MintedInv /\ WaitingInv /\ DischargeJustified /\ AnswerKnown
  BY DEF ConversationInv
<1>2. UNCHANGED <<ns, party, cache, mac, store, discharge, dm, waiting, added, verdict>>
  BY DEF partyVars, macVars, verdictVars
<1>3. /\ pc' \in [Conversations -> Labels]
      /\ pc'[c] = label
      /\ \A d \in Conversations \ {c} : pc'[d] = pc[d]
  BY <1>1 DEF Goto, TypeOK, Labels
<1>4. DOMAIN told' = Conversations /\ \A d \in Conversations : AtMostOne(told'[d])
  BY <1>1 DEF TypeOK, AtMostOne
<1>5. TypeOK'
  <2>1. \A d \in Conversations :
          /\ pc'[d] \notin {"none", "idle", "info", "publickey", "failed"} => mac[d] # {}
          /\ pc'[d] \in {"discharged", "over"} <=> dm[d] # {}
          /\ pc'[d] = "over" <=> verdict[d] # {}
    BY <1>1, <1>3 DEF TypeOK
  <2> QED
    BY <1>1, <1>2, <1>3, <1>4, <2>1 DEF TypeOK
<1>6. MintedInv'
  BY <1>1, <1>2, <1>3, AllMinted DEF MintedInv
<1>7. WaitingInv'
  BY <1>1, <1>2, <1>3, SameMacaroons, SameInfo DEF WaitingInv, Awaits
<1>8. DischargeJustified'
  <2>1. \A d \in Conversations : dm[d] # {} => told'[d] = told[d]
    BY <1>1 DEF TypeOK
  <2> QED
    BY <1>2, <2>1, DischargesKept
<1>9. AnswerKnown'
  BY <1>1, <1>3 DEF AnswerKnown
<1> QED
  BY <1>5, <1>6, <1>7, <1>8, <1>9 DEF ConversationInv

\* A conversation is told that a discharge was completed, and may be given
\* its macaroon.
LEMMA GiveKeeps ==
  ASSUME ConversationInv, NEW c \in Conversations, pc[c] \notin {"discharged", "over"}, mac[c] # {},
         NEW i \in DOMAIN waiting, waiting[i].info = CaveatInfo(c), waiting[i].done, ~waiting[i].err,
         told' = [told EXCEPT ![c] = {Outcome(i)}],
         Give(c, CaveatInfo(c), waiting[i].caveats),
         UNCHANGED <<partyVars, macVars, discharge, waiting, verdictVars>>
  PROVE  ConversationInv'
<1>1. TypeOK /\ MintedInv /\ WaitingInv /\ DischargeJustified /\ AnswerKnown
  BY DEF ConversationInv
<1>2. UNCHANGED <<ns, party, cache, mac, store, discharge, waiting, added, verdict>>
  BY DEF partyVars, macVars, verdictVars
<1>3. CASE Goto(c, "failed") /\ dm' = dm
  BY <1>2, <1>3, ToldKeeps
<1>4. CASE Goto(c, "discharged")
           /\ dm' = [dm EXCEPT ![c] = {ThroughJSON(NewDischargeMacaroon(CaveatInfo(c), waiting[i].caveats))}]
  <2> DEFINE m == ThroughJSON(NewDischargeMacaroon(CaveatInfo(c), waiting[i].caveats))
  <2>1. waiting[i].caveats \in Replies
    BY WaitingType DEF Future
  <2>2. /\ m.id = CaveatInfo(c).id
        /\ m.caveats = LET caveats == NeedDeclared(Keys(c), waiting[i].caveats)
                           namespace == IF ViaLegacy(c) THEN LegacyNamespace ELSE ns
                       IN  [j \in DOMAIN caveats |-> ResolveCaveat(namespace, caveats[j])]
    BY <1>1, <2>1, DischargeMade
  <2>3. dm' = [dm EXCEPT ![c] = {m}]
    BY <1>4
  <2> HIDE DEF m
  <2>4. /\ pc' \in [Conversations -> Labels]
        /\ pc'[c] = "discharged"
        /\ \A d \in Conversations \ {c} : pc'[d] = pc[d]
    BY <1>1, <1>4 DEF Goto, TypeOK, Labels
  <2>5. /\ DOMAIN dm' = Conversations
        /\ dm'[c] = {m} /\ The(dm'[c]) = m
        /\ \A d \in Conversations \ {c} : dm'[d] = dm[d]
    BY <1>1, <2>3, TheOfOne DEF TypeOK
  <2>6. /\ DOMAIN told' = Conversations /\ \A d \in Conversations : AtMostOne(told'[d])
        /\ told'[c] = {Outcome(i)}
        /\ \A d \in Conversations \ {c} : told'[d] = told[d]
    BY <1>1 DEF TypeOK, AtMostOne
  <2>7. TypeOK'
    <3>1. \A d \in Conversations :
            /\ AtMostOne(dm'[d])
            /\ pc'[d] \notin {"none", "idle", "info", "publickey", "failed"} => mac[d] # {}
            /\ pc'[d] \in {"discharged", "over"} <=> dm'[d] # {}
            /\ pc'[d] = "over" <=> verdict[d] # {}
      <4>1. AtMostOne(dm'[c]) /\ dm'[c] # {}
        BY <2>5 DEF AtMostOne
      <4> QED
        BY <1>1, <2>4, <2>5, <4>1 DEF TypeOK
    <3>2. /\ DOMAIN told' = Conversations /\ DOMAIN dm' = Conversations
          /\ \A d \in Conversations : AtMostOne(told'[d])
          /\ pc' \in [Conversations -> Labels]
      BY <2>4, <2>5, <2>6
    <3> QED
      BY <1>1, <1>2, <3>1, <3>2 DEF TypeOK
  <2>8. MintedInv'
    BY <1>1, <1>2, <2>4, AllMinted DEF MintedInv
  <2>9. WaitingInv'
    BY <1>1, <1>2, <2>4, SameMacaroons, SameInfo DEF WaitingInv, Awaits
  <2>10. JustifiedBy(c, i)'
    <3>1. CaveatInfo(c)' = CaveatInfo(c) /\ Keys(c)' = Keys(c) /\ ViaLegacy(c)' = ViaLegacy(c)
      BY <1>2, SameInfo
    <3>2. told'[c] = {Outcome(i)'}
      BY <1>2, <2>6 DEF Outcome
    <3> QED
      BY <1>2, <2>2, <2>5, <3>1, <3>2 DEF JustifiedBy
  <2>11. DischargeJustified'
    <3>1. ASSUME NEW d \in Conversations, dm'[d] # {}
          PROVE  \E j \in DOMAIN waiting' : JustifiedBy(d, j)'
      <4>1. CASE d = c
        BY <4>1, <1>2, <2>10
      <4>2. CASE d # c
        <5>1. PICK j \in DOMAIN waiting : JustifiedBy(d, j)
          BY <3>1, <4>2, <1>1, <2>5 DEF DischargeJustified
        <5>2. JustifiedBy(d, j)'
          BY <4>2, <5>1, <1>2, <2>5, <2>6, StaysJustified
        <5> QED
          BY <5>2, <1>2
      <4> QED
        BY <4>1, <4>2
    <3> QED
      BY <3>1 DEF DischargeJustified
  <2>12. AnswerKnown'
    BY <1>1, <2>4 DEF AnswerKnown
  <2> QED
    BY <2>7, <2>8, <2>9, <2>11, <2>12 DEF ConversationInv
<1> QED
  BY <1>3, <1>4 DEF Give

LEMMA WaitTokenKeeps ==
  ASSUME ConversationInv, NEW c \in Conversations, WaitToken(c)
  PROVE  ConversationInv'
<1> DEFINE i == discharge[c]
<1>1. TypeOK /\ pc[c] = "await token" /\ Awaits(c)
  BY DEF WaitToken, ConversationInv, Awaits
<1>2. mac[c] # {}
  BY <1>1 DEF TypeOK
<1>3. i \in DOMAIN waiting /\ waiting[i].done
  BY <1>1, Awaited DEF WaitToken
<1>4. /\ told' = [told EXCEPT ![c] = {Outcome(i)}]
      /\ UNCHANGED <<partyVars, macVars, discharge, dm, waiting, verdictVars>>
      /\ Goto(c, "failed") \/ Goto(c, "token")
  BY DEF WaitToken
<1> HIDE DEF i
<1> QED
  BY <1>1, <1>2, <1>4, ToldKeeps

LEMMA WaitMacaroonKeeps ==
  ASSUME ConversationInv, NEW c \in Conversations, WaitMacaroon(c)
  PROVE  ConversationInv'
<1> DEFINE i == discharge[c]
<1>1. TypeOK /\ pc[c] = "await macaroon" /\ Awaits(c)
  BY DEF WaitMacaroon, ConversationInv, Awaits
<1>2. mac[c] # {}
  BY <1>1 DEF TypeOK
<1>3. i \in DOMAIN waiting /\ waiting[i].info = CaveatInfo(c) /\ waiting[i].done
  BY <1>1, Awaited DEF WaitMacaroon
<1>4. /\ told' = [told EXCEPT ![c] = {Outcome(i)}]
      /\ UNCHANGED <<partyVars, macVars, discharge, waiting, verdictVars>>
      /\ \/ Goto(c, "failed") /\ dm' = dm
         \/ ~waiting[i].err /\ Give(c, waiting[i].info, waiting[i].caveats)
  BY DEF WaitMacaroon
<1> HIDE DEF i
<1>5. CASE Goto(c, "failed") /\ dm' = dm
  BY <1>1, <1>2, <1>4, <1>5, ToldKeeps
<1>6. CASE ~waiting[i].err /\ Give(c, waiting[i].info, waiting[i].caveats)
  BY <1>1, <1>2, <1>3, <1>4, <1>6, GiveKeeps
<1> QED
  BY <1>4, <1>5, <1>6

\* A token is taken for a completed discharge of the same caveat, or refused.
Presents(c) == PresentToken(c) \/ PresentEarly(c)

TakenFor(c, i) ==
  /\ waiting[i].info = CaveatInfo(c) /\ waiting[i].done
  /\ told' = [told EXCEPT ![c] = {Outcome(i)}]
  /\ \/ Goto(c, "failed") /\ dm' = dm
     \/ ~waiting[i].err /\ Give(c, CaveatInfo(c), waiting[i].caveats)

LEMMA TokenTaken ==
  ASSUME ConversationInv, NEW c \in Conversations, Presents(c)
  PROVE  /\ pc[c] \in {"token", "minted", "await token", "await macaroon", "timed out"}
         /\ mac[c] # {}
         /\ UNCHANGED <<partyVars, macVars, discharge, waiting, verdictVars>>
         /\ \/ \E i \in DOMAIN waiting : TakenFor(c, i)
            \/ Goto(c, "failed") /\ UNCHANGED <<told, dm>>
<1>1. pc[c] \in {"token", "minted", "await token", "await macaroon", "timed out"} /\ Present(c)
  BY DEF Presents, PresentToken, PresentEarly
<1>2. mac[c] # {}
  BY <1>1 DEF ConversationInv, TypeOK
<1>3. UNCHANGED <<partyVars, macVars, discharge, waiting, verdictVars>>
  BY <1>1 DEF Present
<1>4. PICK i \in 1..(Len(waiting) + 1) :
        \/ /\ CheckToken(i, CaveatInfo(c))
           /\ told' = [told EXCEPT ![c] = {Outcome(i)}]
           /\ \/ Goto(c, "failed") /\ dm' = dm
              \/ ~waiting[i].err /\ Give(c, CaveatInfo(c), waiting[i].caveats)
        \/ Goto(c, "failed") /\ UNCHANGED <<told, dm>>
  BY <1>1 DEF Present
<1>5. CASE CheckToken(i, CaveatInfo(c))
  <2>1. i \in DOMAIN waiting /\ waiting[i].info = CaveatInfo(c) /\ waiting[i].done
    BY <1>5 DEF CheckToken, TokenMatches
  <2> QED
    BY <1>1, <1>2, <1>3, <1>4, <2>1 DEF TakenFor
<1> QED
  BY <1>1, <1>2, <1>3, <1>4, <1>5

LEMMA PresentKeeps ==
  ASSUME ConversationInv, NEW c \in Conversations, Presents(c)
  PROVE  ConversationInv'
<1>1. /\ pc[c] \notin {"discharged", "over"}
      /\ mac[c] # {}
      /\ UNCHANGED <<partyVars, macVars, discharge, waiting, verdictVars>>
  BY TokenTaken
<1>2. CASE Goto(c, "failed") /\ UNCHANGED <<told, dm>>
  <2>1. UNCHANGED <<partyVars, macVars, dischargeVars, verdictVars>>
    BY <1>1, <1>2 DEF dischargeVars
  <2> QED
    BY <2>1, <1>1, <1>2, MoveKeeps DEF Resting
<1>3. ASSUME NEW i \in DOMAIN waiting, TakenFor(c, i) PROVE ConversationInv'
  <2>1. CASE Goto(c, "failed") /\ dm' = dm
    BY <2>1, <1>1, <1>3, ToldKeeps DEF TakenFor
  <2>2. CASE ~waiting[i].err /\ Give(c, CaveatInfo(c), waiting[i].caveats)
    BY <2>2, <1>1, <1>3, GiveKeeps DEF TakenFor
  <2> QED
    BY <1>3, <2>1, <2>2 DEF TakenFor
<1> QED
  BY <1>2, <1>3, TokenTaken

LEMMA VerifyKeeps ==
  ASSUME ConversationInv, NEW c \in Conversations, Verify(c)
  PROVE  ConversationInv'
<1>1. TypeOK /\ MintedInv /\ WaitingInv /\ DischargeJustified /\ AnswerKnown
  BY DEF ConversationInv
<1>2. /\ UNCHANGED <<ns, party, cache, mac, store, discharge, told, dm, waiting>>
      /\ pc[c] = "discharged" /\ pc' = [pc EXCEPT ![c] = "over"]
  BY DEF Verify, Goto, partyVars, macVars, dischargeVars, verdictVars
<1>3. PICK now \in Clock, caveats \in Additions[c] :
        /\ added' = [added EXCEPT ![c] = caveats]
        /\ verdict' = [verdict EXCEPT ![c] =
             {[now |-> now, allowed |-> Found(c) /\ Holds(Shown(c, caveats), now)]}]
  BY DEF Verify
<1> DEFINE v == [now |-> now, allowed |-> Found(c) /\ Holds(Shown(c, caveats), now)]
<1> HIDE DEF v
<1>4. /\ pc' \in [Conversations -> Labels]
      /\ pc'[c] = "over"
      /\ \A d \in Conversations \ {c} : pc'[d] = pc[d]
  BY <1>1, <1>2 DEF TypeOK, Labels
<1>5. /\ DOMAIN verdict' = Conversations /\ DOMAIN added' = Conversations
      /\ verdict'[c] = {v} /\ added'[c] = caveats
      /\ \A d \in Conversations \ {c} : verdict'[d] = verdict[d] /\ added'[d] = added[d]
  BY <1>1, <1>3 DEF TypeOK, v
<1>6. TypeOK'
  <2>0. AtMostOne(verdict'[c]) /\ verdict'[c] # {}
    BY <1>5 DEF AtMostOne
  <2>1. \A d \in Conversations :
          /\ AtMostOne(verdict'[d]) /\ added'[d] \in Additions[d] \cup {<<>>}
          /\ pc'[d] \notin {"none", "idle", "info", "publickey", "failed"} => mac[d] # {}
          /\ pc'[d] \in {"discharged", "over"} <=> dm[d] # {}
          /\ pc'[d] = "over" <=> verdict'[d] # {}
    BY <1>1, <1>2, <1>4, <1>5, <2>0 DEF TypeOK
  <2> QED
    BY <1>1, <1>2, <1>4, <1>5, <2>1 DEF TypeOK
<1>7. MintedInv'
  BY <1>1, <1>2, <1>4, AllMinted DEF MintedInv
<1>8. WaitingInv'
  BY <1>1, <1>2, <1>4, SameMacaroons, SameInfo DEF WaitingInv, Awaits
<1>9. DischargeJustified'
  BY <1>2, DischargesKept
<1>10. AnswerKnown'
  BY <1>1, <1>4 DEF AnswerKnown
<1> QED
  BY <1>6, <1>7, <1>8, <1>9, <1>10 DEF ConversationInv

-----------------------------------------------------------------------------
(* The inductive invariant.                                                *)

LEMMA DischargerInit == Init => ConversationInv
<1> SUFFICES ASSUME Init PROVE ConversationInv
  OBVIOUS
<1>1. /\ waiting = <<>> /\ Len(waiting) = 0 /\ DOMAIN waiting = {}
      /\ waiting \in Seq(Future)
  BY DEF Init
<1>2. pc \in [Conversations -> {"idle", "none"}]
  BY DEF Init
<1>3. TypeOK
  <2>1. pc \in [Conversations -> Labels]
    BY <1>2 DEF Labels
  <2>2. discharge \in [Conversations -> 0..Len(waiting)]
    BY <1>1 DEF Init
  <2>3. \A c \in Conversations :
          /\ AtMostOne(mac[c]) /\ AtMostOne(told[c]) /\ AtMostOne(dm[c]) /\ AtMostOne(verdict[c])
          /\ pc[c] \notin {"none", "idle", "info", "publickey", "failed"} => mac[c] # {}
          /\ pc[c] \in {"discharged", "over"} <=> dm[c] # {}
          /\ pc[c] = "over" <=> verdict[c] # {}
    BY <1>2 DEF Init, AtMostOne
  <2>4. AtMostOne(cache)
    BY DEF Init, AtMostOne
  <2> QED
    BY <1>1, <2>1, <2>2, <2>3, <2>4 DEF Init, TypeOK
<1>4. MintedInv
  BY DEF Init, MintedInv, Minted
<1>5. WaitingInv
  BY <1>1, <1>2 DEF Init, WaitingInv, Awaits
<1>6. DischargeJustified
  BY DEF Init, DischargeJustified
<1>7. AnswerKnown
  BY <1>2 DEF AnswerKnown
<1> QED
  BY <1>3, <1>4, <1>5, <1>6, <1>7 DEF ConversationInv

\* Those who locate the discharger take its version from the cache, or from
\* what it answers now.
LEMMA LocateKeeps ==
  ASSUME ConversationInv, NEW c \in Conversations,
         StartMint(c) \/ DischargeInfo(c) \/ PublicKey(c) \/ LocateError(c)
  PROVE  ConversationInv'
<1>1. /\ party \in 1..LatestVersion
      /\ cache \subseteq 1..LatestVersion /\ AtMostOne(cache)
      /\ \A v \in cache : v <= party
  BY DEF ConversationInv, TypeOK, MintedInv
<1>2. pc[c] \in {"idle", "info", "publickey"}
  BY DEF StartMint, DischargeInfo, PublicKey, LocateError
<1>3. mac[c] = {}
  BY <1>2 DEF ConversationInv, MintedInv
<1>4. ASSUME NEW label \in {"info", "publickey", "failed"}, Goto(c, label),
             UNCHANGED <<partyVars, macVars, dischargeVars, verdictVars>>
      PROVE  ConversationInv'
  BY <1>2, <1>3, <1>4, MoveKeeps DEF Resting
<1>5. ASSUME NEW third \in 1..party, Mint(c, third), cache' = {third} \/ cache' = cache
      PROVE  ConversationInv'
  <2>1. third \in 1..LatestVersion /\ third <= party
    BY <1>1 DEF LatestVersion
  <2>2. cache' \subseteq 1..LatestVersion /\ AtMostOne(cache') /\ \A v \in cache' : v <= party
    BY <1>1, <1>5, <2>1 DEF AtMostOne
  <2> QED
    BY <2>2, <1>2, <1>5, MintKeeps
<1>6. CASE StartMint(c)
  <2>1. CASE cache # {} /\ Mint(c, The(cache)) /\ cache' = cache
    <3>1. The(cache) \in cache
      BY <2>1 DEF The
    <3>2. The(cache) \in 1..party
      <4> DEFINE v == The(cache)
      <4>1. v \in 1..LatestVersion /\ v <= party
        BY <1>1, <3>1
      <4> HIDE DEF v
      <4>2. v \in 1..party
        BY <1>1, <4>1 DEF LatestVersion
      <4> QED
        BY <4>2 DEF v
    <3> QED
      BY <2>1, <3>2, <1>5
  <2> QED
    BY <2>1, <1>4, <1>6 DEF StartMint
<1>7. CASE DischargeInfo(c)
  <2>1. CASE cache' = {party} /\ Mint(c, party)
    <3>1. party \in 1..party
      BY <1>1 DEF LatestVersion
    <3> QED
      BY <2>1, <3>1, <1>5
  <2> QED
    BY <2>1, <1>4, <1>7 DEF DischargeInfo
<1>8. CASE PublicKey(c)
  <2>1. 1 \in 1..party
    BY <1>1 DEF LatestVersion
  <2> QED
    BY <2>1, <1>5, <1>8 DEF PublicKey
<1>9. CASE LocateError(c)
  BY <1>4, <1>9 DEF LocateError
<1> QED
  BY <1>6, <1>7, <1>8, <1>9

LEMMA WaitKeeps ==
  ASSUME ConversationInv, NEW c \in Conversations, AwaitTimeout(c) \/ Again(c)
  PROVE  ConversationInv'
<1>1. pc[c] \in {"await token", "await macaroon", "timed out"}
  BY DEF AwaitTimeout, Again, Awaits
<1>2. mac[c] # {}
  BY <1>1 DEF ConversationInv, TypeOK
<1>3. /\ UNCHANGED <<partyVars, macVars, dischargeVars, verdictVars>>
      /\ \E label \in {"minted", "timed out"} : Goto(c, label)
  BY DEF AwaitTimeout, Again
<1> QED
  BY <1>1, <1>2, <1>3, MoveKeeps DEF Resting

LEMMA StutterKeeps == ConversationInv /\ UNCHANGED vars => ConversationInv'
<1> SUFFICES ASSUME ConversationInv, UNCHANGED vars PROVE ConversationInv'
  OBVIOUS
<1>1. TypeOK /\ MintedInv /\ WaitingInv /\ DischargeJustified /\ AnswerKnown
  BY DEF ConversationInv
<1>2. UNCHANGED <<ns, party, cache, pc, mac, store, discharge, told, dm, added, verdict, waiting>>
  BY DEF vars
<1>3. TypeOK'
  BY <1>1, <1>2 DEF TypeOK
<1>4. MintedInv'
  BY <1>1, <1>2, AllMinted DEF MintedInv
<1>5. WaitingInv'
  BY <1>1, <1>2, SameMacaroons, SameInfo DEF WaitingInv, Awaits
<1>6. DischargeJustified'
  BY <1>2, DischargesKept
<1>7. AnswerKnown'
  BY <1>1, <1>2 DEF AnswerKnown
<1> QED
  BY <1>3, <1>4, <1>5, <1>6, <1>7 DEF ConversationInv

LEMMA DischargerStep == ConversationInv /\ [Next]_vars => ConversationInv'
<1> SUFFICES ASSUME ConversationInv, Next PROVE ConversationInv'
  BY StutterKeeps
<1>1. CASE Upgrade
  BY <1>1, UpgradeKeeps
<1>2. ASSUME NEW c \in Conversations, StartMint(c) \/ PresentEarly(c) \/ Again(c) \/ Step(c) PROVE ConversationInv'
  <2>1. CASE StartMint(c) \/ DischargeInfo(c) \/ PublicKey(c) \/ LocateError(c)
    BY <2>1, LocateKeeps
  <2>2. CASE AwaitTimeout(c) \/ Again(c)
    BY <2>2, WaitKeeps
  <2>3. CASE AskDischarge(c)
    BY <2>3, AskKeeps
  <2>4. CASE WaitToken(c)
    BY <2>4, WaitTokenKeeps
  <2>5. CASE WaitMacaroon(c)
    BY <2>5, WaitMacaroonKeeps
  <2>6. CASE Presents(c)
    BY <2>6, PresentKeeps
  <2>7. CASE Verify(c)
    BY <2>7, VerifyKeeps
  <2> QED
    BY <1>2, <2>1, <2>2, <2>3, <2>4, <2>5, <2>6, <2>7 DEF Step, Presents
<1>3. ASSUME NEW i \in DOMAIN waiting, Visit(i) PROVE ConversationInv'
  BY <1>3, VisitKeeps
<1> QED
  BY <1>1, <1>2, <1>3 DEF Next

\* Minted macaroons and discharges under way always fit each other, however
\* visits, timeouts, tokens, retries and the discharger's upgrade interleave
\* (rendezvous.go, bakerytest.go, thirdparty.go).
THEOREM Conversing == Spec => []ConversationInv
BY DischargerInit, DischargerStep, PTL DEF Spec

\* The variables have their types.
THEOREM TypeCorrect == Spec => []TypeOK
<1>1. ConversationInv => TypeOK
  BY DEF ConversationInv
<1> QED
  BY <1>1, Conversing, PTL

\* No discharge macaroon without a completed discharge of its own caveat, and
\* none with other caveats than the user's, whatever token is presented when
\* (rendezvous.go, CheckToken).
THEOREM DischargesAreJustified == Spec => []DischargeJustified
<1>1. ConversationInv => DischargeJustified
  BY DEF ConversationInv
<1> QED
  BY <1>1, Conversing, PTL

\* No client, of whatever version, takes the answer that a discharge is
\* required for another (error.go, ErrorToResponse).
THEOREM AnswersAreKnown == Spec => []AnswerKnown
<1>1. ConversationInv => AnswerKnown
  BY DEF ConversationInv
<1> QED
  BY <1>1, Conversing, PTL

\* The discharger understands every caveat that was ever made for it, though
\* what the locator knows of it is cached for good (macaroon.go, AddCaveat).
THEOREM CaveatsAreUnderstood == Spec => []Understood
<1>1. ConversationInv => Understood
  BY HeldCaveatDecodes DEF ConversationInv, Understood
<1> QED
  BY <1>1, Conversing, PTL

-----------------------------------------------------------------------------
(* The rendezvous keeps its promise.                                       *)

LEMMA PromiseInit == Init => P!Init
BY DEF Init, P!Init, Outcomes

LEMMA SameOutcomes == waiting' = waiting => Outcomes' = Outcomes
BY DEF Outcomes, Outcome

\* Asking for a discharge is Start.
LEMMA AskStarts ==
  ASSUME ConversationInv, NEW c \in Conversations, AskDischarge(c)
  PROVE  P!Start \/ UNCHANGED <<Outcomes, told>>
<1>1. told' = told
  BY DEF AskDischarge
<1>2. CASE waiting' = waiting
  BY <1>1, <1>2, SameOutcomes
<1>3. CASE NewDischarge(CaveatInfo(c))
  <2> DEFINE new == [info |-> CaveatInfo(c), done |-> FALSE, caveats |-> <<>>, err |-> FALSE]
             n == Len(waiting)
  <2>1. waiting \in Seq(Future)
    BY DEF ConversationInv, WaitingInv
  <2>2. waiting' = Append(waiting, new) /\ ~new.done
    BY <1>3 DEF NewDischarge
  <2> HIDE DEF new
  <2>3. /\ n \in Nat /\ DOMAIN waiting = 1..n /\ DOMAIN waiting' = 1..(n + 1)
        /\ waiting'[n + 1] = new
        /\ \A i \in 1..n : waiting'[i] = waiting[i]
    BY <2>1, <2>2
  <2> HIDE DEF n
  <2>4. DOMAIN Outcomes = 1..n /\ DOMAIN Outcomes' = 1..(n + 1)
    BY <2>3 DEF Outcomes
  <2>5. ASSUME NEW i \in 1..n PROVE Outcomes'[i] = Outcomes[i]
    <3>1. i \in 1..(n + 1)
      BY <2>3
    <3>2. waiting'[i] = waiting[i] /\ Outcome(i)' = Outcome(i)
      BY <2>3 DEF Outcome
    <3> QED
      BY <2>3, <3>1, <3>2 DEF Outcomes
  <2>6. Outcomes'[n + 1] = {}
    BY <2>2, <2>3 DEF Outcomes
  <2>7. Outcomes \in Seq({Outcomes[i] : i \in 1..n})
    <3>1. Outcomes = [i \in 1..n |-> Outcomes[i]]
      BY <2>4 DEF Outcomes
    <3> QED
      BY <3>1, <2>3
  <2>8. Outcomes' = [i \in 1..(n + 1) |-> Outcomes'[i]]
    BY <2>4 DEF Outcomes
  <2>9. Outcomes' = Append(Outcomes, {})
    BY <2>3, <2>4, <2>5, <2>6, <2>7, <2>8
  <2> QED
    BY <1>1, <2>9 DEF P!Start
<1> QED
  BY <1>2, <1>3 DEF AskDischarge

\* A visit is Complete.
LEMMA VisitCompletes ==
  ASSUME ConversationInv, NEW i \in DOMAIN waiting, Visit(i)
  PROVE  P!Complete(i)
<1>1. PICK o \in [caveats : Replies, err : BOOLEAN] : DischargeDone(i, o.caveats, o.err)
  BY VisitOutcome
<1> DEFINE new == Completed(waiting[i], o.caveats, o.err)
<1>2. ~waiting[i].done /\ waiting' = [waiting EXCEPT ![i] = new]
  BY <1>1 DEF DischargeDone
<1>3. waiting[i] \in Future
  BY WaitingType
<1>4. new.done /\ new.caveats = o.caveats /\ new.err = o.err
  BY <1>3 DEF Completed, Future
<1> HIDE DEF new
<1>5. /\ DOMAIN waiting' = DOMAIN waiting
      /\ waiting'[i] = new
      /\ \A j \in DOMAIN waiting \ {i} : waiting'[j] = waiting[j]
  BY <1>2
<1>6. Outcome(i)' = o
  <2>1. Outcome(i)' = [caveats |-> o.caveats, err |-> o.err]
    BY <1>4, <1>5 DEF Outcome
  <2> QED
    BY <2>1
<1>7. Outcomes[i] = {} /\ Outcomes'[i] = {o}
  BY <1>2, <1>4, <1>5, <1>6 DEF Outcomes
<1>8. Outcomes' = [Outcomes EXCEPT ![i] = {o}]
  <2>1. \A j \in DOMAIN waiting \ {i} : Outcomes'[j] = Outcomes[j]
    BY <1>5 DEF Outcomes, Outcome
  <2>2. /\ Outcomes' = [j \in DOMAIN waiting |-> Outcomes'[j]]
        /\ DOMAIN Outcomes = DOMAIN waiting
    BY <1>5 DEF Outcomes
  <2> QED
    BY <1>7, <2>1, <2>2
<1>9. told' = told
  BY DEF Visit
<1> QED
  BY <1>7, <1>8, <1>9 DEF P!Complete

\* Being told is Tell, of a discharge that was completed.
LEMMA Tells ==
  ASSUME NEW c \in Conversations, NEW i \in DOMAIN waiting, waiting[i].done,
         told' = [told EXCEPT ![c] = {Outcome(i)}], waiting' = waiting
  PROVE  P!Tell(c, i) /\ i \in DOMAIN Outcomes
<1>1. Outcomes[i] = {Outcome(i)} /\ i \in DOMAIN Outcomes
  BY DEF Outcomes
<1>2. Outcomes' = Outcomes
  BY SameOutcomes
<1> QED
  BY <1>1, <1>2 DEF P!Tell

LEMMA WaitTells ==
  ASSUME ConversationInv, NEW c \in Conversations, WaitToken(c) \/ WaitMacaroon(c) \/ Presents(c)
  PROVE  P!Next \/ UNCHANGED <<Outcomes, told>>
<1>1. waiting' = waiting
  BY TokenTaken DEF WaitToken, WaitMacaroon
<1>2. Outcomes' = Outcomes
  BY <1>1, SameOutcomes
<1>3. CASE told' = told
  BY <1>2, <1>3
<1>4. CASE \E i \in DOMAIN waiting : waiting[i].done /\ told' = [told EXCEPT ![c] = {Outcome(i)}]
  BY <1>1, <1>4, Tells DEF P!Next
<1>5. CASE WaitToken(c) \/ WaitMacaroon(c)
  <2>1. Awaits(c) /\ waiting[discharge[c]].done /\ told' = [told EXCEPT ![c] = {Outcome(discharge[c])}]
    BY <1>5 DEF WaitToken, WaitMacaroon, Awaits
  <2> QED
    BY <2>1, <1>4, Awaited
<1>6. CASE Presents(c)
  <2>1. \/ told' = told
        \/ \E i \in DOMAIN waiting : waiting[i].done /\ told' = [told EXCEPT ![c] = {Outcome(i)}]
    BY <1>6, TokenTaken DEF TakenFor
  <2> QED
    BY <2>1, <1>3, <1>4
<1> QED
  BY <1>5, <1>6

LEMMA PromiseStep == ConversationInv /\ [Next]_vars => P!Next \/ UNCHANGED <<Outcomes, told>>
<1> SUFFICES ASSUME ConversationInv, [Next]_vars PROVE P!Next \/ UNCHANGED <<Outcomes, told>>
  OBVIOUS
<1>1. CASE waiting' = waiting /\ told' = told
  BY <1>1, SameOutcomes
<1>2. CASE UNCHANGED vars
  BY <1>1, <1>2 DEF vars
<1>3. CASE Upgrade
  BY <1>1, <1>3 DEF Upgrade, dischargeVars, verdictVars
<1>4. ASSUME NEW c \in Conversations, StartMint(c) \/ PresentEarly(c) \/ Again(c) \/ Step(c)
      PROVE  P!Next \/ UNCHANGED <<Outcomes, told>>
  <2>1. CASE AskDischarge(c)
    BY <2>1, AskStarts DEF P!Next
  <2>2. CASE WaitToken(c) \/ WaitMacaroon(c) \/ Presents(c)
    BY <2>2, WaitTells
  <2>3. CASE \/ StartMint(c) \/ DischargeInfo(c) \/ PublicKey(c) \/ LocateError(c)
             \/ AwaitTimeout(c) \/ Again(c) \/ Verify(c)
    <3>1. UNCHANGED dischargeVars
      BY <2>3 DEF StartMint, Mint, DischargeInfo, PublicKey, LocateError, AwaitTimeout, Again, Verify
    <3> QED
      BY <3>1, <1>1 DEF dischargeVars, verdictVars
  <2> QED
    BY <1>4, <2>1, <2>2, <2>3 DEF Step, Presents
<1>5. ASSUME NEW i \in DOMAIN waiting, Visit(i)
      PROVE  P!Next \/ UNCHANGED <<Outcomes, told>>
  <2>1. i \in DOMAIN Outcomes
    BY DEF Outcomes
  <2> QED
    BY <2>1, <1>5, VisitCompletes DEF P!Next
<1> QED
  BY <1>2, <1>3, <1>4, <1>5 DEF Next

\* Every discharge has one outcome, told alike to everybody, however late it
\* comes and however often it is asked for (rendezvous.go, dischargeDone).
THEOREM PromiseKept == Spec => ImplementsPromise
BY PromiseInit, PromiseStep, Conversing, PTL DEF Spec, P!Spec, ImplementsPromise


-----------------------------------------------------------------------------
(* Operations and the ids made of them.                                    *)

\* FlattenSeq unfolds from the left.
LEMMA FlattenUnfolds ==
  ASSUME NEW T, NEW seqs \in Seq(Seq(T))
  PROVE  \E g \in [0..Len(seqs) -> Seq(T)] :
           /\ g[0] = <<>>
           /\ \A n \in 1..Len(seqs) : g[n] = g[n - 1] \o seqs[n]
           /\ FlattenSeq(seqs) = g[Len(seqs)]
<1> DEFINE N == Len(seqs)
           step == [n \in 1..N |-> [s \in Seq(T) |-> s \o seqs[n]]]
           Flat(f) == f = [i \in 1..N |-> IF i = 1 THEN seqs[i] ELSE f[i - 1] \o seqs[i]]
<1>1. N \in Nat /\ \A n \in 1..N : seqs[n] \in Seq(T)
  OBVIOUS
<1>2. PICK g \in [0..N -> Seq(T)] : g[0] = <<>> /\ \A n \in 1..N : g[n] = step[n][g[n - 1]]
  <2> DEFINE S == Seq(T)
             base == <<>>
  <2>1. step \in Steps(N, S) /\ base \in S
    <3>1. ASSUME NEW n \in 1..N, NEW s \in Seq(T) PROVE s \o seqs[n] \in Seq(T)
      BY <1>1
    <3> QED
      BY <3>1 DEF Steps
  <2> HIDE DEF step, S, base
  <2>2. \E g : Recursion(g, N, S, base, step)
    BY <1>1, <2>1, RecursionExists
  <2> QED
    BY <2>2 DEF Recursion, S, base
<1>3. ASSUME NEW n \in 1..N PROVE g[n - 1] \in Seq(T) /\ g[n] = g[n - 1] \o seqs[n]
  <2>1. n - 1 \in 0..N
    BY <1>1
  <2>2. g[n - 1] \in Seq(T)
    BY <2>1
  <2> QED
    BY <2>2, <1>2
<1>4. CASE N = 0
  BY <1>1, <1>2, <1>4 DEF FlattenSeq
<1>5. CASE N # 0
  <2> DEFINE h == [i \in 1..N |-> g[i]]
  <2>1. Flat(h)
    <3>1. ASSUME NEW i \in 1..N PROVE g[i] = IF i = 1 THEN seqs[i] ELSE h[i - 1] \o seqs[i]
      <4>1. CASE i = 1
        <5>1. g[1] = g[1 - 1] \o seqs[1] /\ seqs[1] \in Seq(T)
          BY <4>1, <1>1, <1>3
        <5>2. g[1 - 1] = <<>>
          BY <1>2
        <5> QED
          BY <4>1, <5>1, <5>2
      <4>2. CASE i # 1
        <5>1. i - 1 \in 1..N
          BY <4>2, <1>1
        <5> QED
          BY <4>2, <5>1, <1>3
      <4> QED
        BY <4>1, <4>2
    <3> QED
      BY <3>1
  <2> DEFINE f == CHOOSE f : Flat(f)
  <2>2. Flat(f)
    <3> HIDE DEF h, Flat
    <3> QED
      BY <2>1
  <2>3. FlattenSeq(seqs) = f[N]
    BY <1>5 DEF FlattenSeq
  <2> HIDE DEF f
  <2>4. \A i \in 1..N : f[i] = IF i = 1 THEN seqs[i] ELSE f[i - 1] \o seqs[i]
    BY <2>2
  <2> DEFINE e == [i \in 0..N |-> IF i = 0 THEN <<>> ELSE f[i]]
  <2>5. \A n \in 0..N : e[n] = g[n]
    <3>1. e[0] = g[0]
      BY <1>1, <1>2
    <3>2. ASSUME NEW n \in 1..N, e[n - 1] = g[n - 1] PROVE e[n] = g[n]
      <4>1. e[n] = f[n]
        BY <1>1
      <4>2. CASE n = 1
        <5>1. g[1] = g[1 - 1] \o seqs[1] /\ seqs[1] \in Seq(T)
          BY <4>2, <1>1, <1>3
        <5>2. g[1 - 1] = <<>>
          BY <1>2
        <5>3. g[1] = seqs[1]
          BY <5>1, <5>2
        <5> QED
          BY <4>1, <4>2, <5>3, <2>4
      <4>3. CASE n # 1
        <5>1. n - 1 \in 0..N /\ n - 1 # 0
          BY <4>3, <1>1
        <5>2. e[n - 1] = f[n - 1]
          BY <5>1
        <5> QED
          BY <4>1, <4>3, <5>2, <3>2, <2>4, <1>3
      <4> QED
        BY <4>2, <4>3
    <3>3. StepAlike(e, g, N)
      BY <3>2 DEF StepAlike
    <3> HIDE DEF e
    <3>4. Alike(e, g, N)
      BY <1>1, <3>1, <3>3, RecursionUnique
    <3> QED
      BY <3>4 DEF Alike
  <2>6. N \in 0..N /\ e[N] = f[N]
    BY <1>1, <1>5
  <2> QED
    BY <1>2, <1>3, <2>3, <2>5, <2>6
<1> QED
  BY <1>4, <1>5

LEMMA FlattenAppend ==
  ASSUME NEW T, NEW seqs \in Seq(Seq(T)), NEW t \in Seq(T)
  PROVE  FlattenSeq(Append(seqs, t)) = FlattenSeq(seqs) \o t /\ FlattenSeq(seqs) \in Seq(T)
<1> DEFINE N == Len(seqs)
           longer == Append(seqs, t)
<1>1. N \in Nat /\ longer \in Seq(Seq(T)) /\ Len(longer) = N + 1
      /\ longer[N + 1] = t /\ \A n \in 1..N : longer[n] = seqs[n]
  OBVIOUS
<1> HIDE DEF longer
<1>2. PICK g \in [0..N -> Seq(T)] :
        g[0] = <<>> /\ (\A n \in 1..N : g[n] = g[n - 1] \o seqs[n]) /\ FlattenSeq(seqs) = g[N]
  BY FlattenUnfolds
<1>3. PICK h \in [0..Len(longer) -> Seq(T)] :
        h[0] = <<>> /\ (\A n \in 1..Len(longer) : h[n] = h[n - 1] \o longer[n])
        /\ FlattenSeq(longer) = h[Len(longer)]
  BY <1>1, FlattenUnfolds
<1>4. \A n \in 0..N : h[n] = g[n]
  <2>1. ASSUME NEW n \in 1..N, h[n - 1] = g[n - 1] PROVE h[n] = g[n]
    <3>1. n \in 1..Len(longer) /\ longer[n] = seqs[n]
      BY <1>1
    <3> QED
      BY <2>1, <3>1, <1>2, <1>3
  <2>2. h[0] = g[0]
    BY <1>2, <1>3
  <2>3. StepAlike(h, g, N)
    BY <2>1 DEF StepAlike
  <2>4. Alike(h, g, N)
    BY <1>1, <2>2, <2>3, RecursionUnique
  <2> QED
    BY <2>4 DEF Alike
<1>5. N \in 0..N /\ N + 1 \in 1..Len(longer) /\ (N + 1) - 1 = N
  BY <1>1
<1>6. h[N + 1] = h[N] \o t
  BY <1>1, <1>3, <1>5
<1>7. h[N] = g[N] /\ g[N] \in Seq(T)
  BY <1>2, <1>4, <1>5
<1> QED
  BY <1>1, <1>2, <1>3, <1>6, <1>7 DEF longer

\* The operations in an id, grouped by entity: what AddIdOp adds is one more
\* operation, the last to be read back.
IdOp == [entity : Nat, actions : Seq(Nat)]

EndsWith(idOps, op) ==
  /\ idOps # <<>>
  /\ Last(idOps).entity = op[1]
  /\ Last(idOps).actions # <<>>
  /\ Last(Last(idOps).actions) = op[2]

LEMMA EntityOpsType ==
  ASSUME NEW r \in IdOp
  PROVE  /\ EntityOps(r) \in Seq(Nat \X Nat)
         /\ \A a \in Nat : EntityOps([r EXCEPT !.actions = Append(@, a)])
                            = Append(EntityOps(r), <<r.entity, a>>)
<1> DEFINE n == Len(r.actions)
<1>1. r.actions \in Seq(Nat) /\ r.entity \in Nat /\ n \in Nat /\ DOMAIN r.actions = 1..n
  BY DEF IdOp
<1>2. EntityOps(r) = [i \in 1..n |-> <<r.entity, r.actions[i]>>]
  BY <1>1 DEF EntityOps
<1>3. EntityOps(r) \in Seq(Nat \X Nat) /\ Len(EntityOps(r)) = n
  BY <1>1, <1>2
<1>4. ASSUME NEW a \in Nat
      PROVE  EntityOps([r EXCEPT !.actions = Append(@, a)]) = Append(EntityOps(r), <<r.entity, a>>)
  <2> DEFINE q == [r EXCEPT !.actions = Append(@, a)]
             b == Append(EntityOps(r), <<r.entity, a>>)
  <2>1. q.entity = r.entity /\ q.actions = Append(r.actions, a)
    BY DEF IdOp
  <2> HIDE DEF q
  <2>2. q.actions \in Seq(Nat) /\ DOMAIN q.actions = 1..(n + 1)
    BY <1>1, <2>1
  <2>3. EntityOps(q) = [i \in 1..(n + 1) |-> <<r.entity, q.actions[i]>>]
    BY <2>1, <2>2 DEF EntityOps
  <2>4. b \in Seq(Nat \X Nat) /\ Len(b) = n + 1
    <3> DEFINE u == EntityOps(r)
               e == <<r.entity, a>>
    <3>1. e \in Nat \X Nat /\ u \in Seq(Nat \X Nat) /\ Len(u) = n
      BY <1>1, <1>3
    <3> HIDE DEF u, e, n
    <3>2. Append(u, e) \in Seq(Nat \X Nat) /\ Len(Append(u, e)) = n + 1
      BY <3>1
    <3> QED
      BY <3>2 DEF u, e
  <2>5. ASSUME NEW i \in 1..(n + 1) PROVE b[i] = <<r.entity, q.actions[i]>>
    <3>1. CASE i = n + 1
      <4>1. b[i] = <<r.entity, a>>
        BY <1>1, <1>3, <3>1
      <4>2. q.actions[i] = a
        BY <1>1, <2>1, <3>1
      <4> QED
        BY <4>1, <4>2
    <3>2. CASE i # n + 1
      <4>1. i \in 1..n
        BY <1>1, <3>2
      <4>2. b[i] = EntityOps(r)[i]
        BY <1>1, <1>3, <4>1
      <4>3. q.actions[i] = r.actions[i]
        BY <1>1, <2>1, <4>1
      <4> QED
        BY <1>2, <4>1, <4>2, <4>3
    <3> QED
      BY <3>1, <3>2
  <2> HIDE DEF b
  <2>6. b = [i \in 1..(n + 1) |-> b[i]]
    BY <2>4
  <2>7. b = EntityOps(q)
    BY <2>3, <2>5, <2>6
  <2> QED
    BY <2>7 DEF b, q
<1> QED
  BY <1>3, <1>4

LEMMA UngroupAppend ==
  ASSUME NEW s \in Seq(IdOp), NEW r \in IdOp
  PROVE  /\ UngroupedOps(s) \in Seq(Nat \X Nat)
         /\ UngroupedOps(Append(s, r)) = UngroupedOps(s) \o EntityOps(r)
<1> DEFINE n == Len(s)
           t == Append(s, r)
           groups == [i \in DOMAIN s |-> EntityOps(s[i])]
           more == [i \in DOMAIN t |-> EntityOps(t[i])]
<1>1. n \in Nat /\ DOMAIN s = 1..n /\ \A i \in 1..n : s[i] \in IdOp
  OBVIOUS
<1>2. DOMAIN t = 1..(n + 1) /\ t[n + 1] = r /\ \A i \in 1..n : t[i] = s[i]
  BY <1>1
<1> HIDE DEF t
<1>3. groups \in Seq(Seq(Nat \X Nat)) /\ Len(groups) = n /\ EntityOps(r) \in Seq(Nat \X Nat)
  <2>1. \A i \in 1..n : EntityOps(s[i]) \in Seq(Nat \X Nat)
    BY <1>1, EntityOpsType
  <2>2. EntityOps(r) \in Seq(Nat \X Nat)
    BY EntityOpsType
  <2> QED
    BY <1>1, <2>1, <2>2
<1>4. more = Append(groups, EntityOps(r))
  <2> DEFINE b == Append(groups, EntityOps(r))
  <2>1. b \in Seq(Seq(Nat \X Nat)) /\ Len(b) = n + 1 /\ b[n + 1] = EntityOps(r)
        /\ \A i \in 1..n : b[i] = groups[i]
    <3> HIDE DEF groups
    <3> QED
      BY <1>1, <1>3
  <2>2. \A i \in 1..n : groups[i] = EntityOps(s[i])
    BY <1>1
  <2> HIDE DEF b, groups
  <2>3. b = [i \in 1..(n + 1) |-> b[i]]
    BY <2>1
  <2>4. ASSUME NEW i \in 1..(n + 1) PROVE b[i] = EntityOps(t[i])
    <3>1. i = n + 1 \/ i \in 1..n
      BY <1>1
    <3> QED
      BY <3>1, <2>1, <2>2, <1>2
  <2>5. b = [i \in 1..(n + 1) |-> EntityOps(t[i])]
    BY <2>3, <2>4
  <2> QED
    BY <2>5, <1>2 DEF b
<1>5. UngroupedOps(s) = FlattenSeq(groups) /\ UngroupedOps(t) = FlattenSeq(more)
  BY DEF UngroupedOps
<1> HIDE DEF groups, more
<1>6. FlattenSeq(Append(groups, EntityOps(r))) = FlattenSeq(groups) \o EntityOps(r)
  BY <1>3, FlattenAppend
<1>7. FlattenSeq(groups) \in Seq(Nat \X Nat)
  BY <1>3, FlattenAppend
<1> QED
  BY <1>4, <1>5, <1>6, <1>7 DEF t

LEMMA AppendLast ==
  ASSUME NEW T, NEW s \in Seq(T), NEW x \in T
  PROVE  Append(s, x) \in Seq(T) /\ Append(s, x) # <<>> /\ Last(Append(s, x)) = x
<1>1. Append(s, x) \in Seq(T) /\ Len(Append(s, x)) = Len(s) + 1 /\ Len(s) \in Nat
  OBVIOUS
<1>2. Append(s, x)[Len(s) + 1] = x
  OBVIOUS
<1>3. Append(s, x) # <<>>
  BY <1>1
<1> QED
  BY <1>1, <1>2, <1>3 DEF Last

LEMMA AppendAssociative ==
  ASSUME NEW T, NEW s \in Seq(T), NEW t \in Seq(T), NEW x \in T
  PROVE  s \o Append(t, x) = Append(s \o t, x)
<1> DEFINE a == s \o Append(t, x)
           b == Append(s \o t, x)
           n == Len(s) + Len(t) + 1
<1>1. a \in Seq(T) /\ Len(a) = n /\ b \in Seq(T) /\ Len(b) = n
  OBVIOUS
<1>2. \A i \in 1..n : a[i] = b[i]
  OBVIOUS
<1> HIDE DEF a, b, n
<1>3. a = [i \in 1..n |-> a[i]] /\ b = [i \in 1..n |-> b[i]]
  BY <1>1
<1>4. a = b
  BY <1>2, <1>3
<1> QED
  BY <1>4 DEF a, b

LEMMA IdOpExtended ==
  ASSUME NEW r \in IdOp, NEW a \in Nat
  PROVE  /\ [r EXCEPT !.actions = Append(@, a)] \in IdOp
         /\ [r EXCEPT !.actions = Append(@, a)].entity = r.entity
         /\ [r EXCEPT !.actions = Append(@, a)].actions = Append(r.actions, a)
         /\ Append(r.actions, a) # <<>> /\ Last(Append(r.actions, a)) = a
<1> DEFINE as == Append(r.actions, a)
<1>1. as \in Seq(Nat) /\ as # <<>> /\ Last(as) = a
  <2>1. r.actions \in Seq(Nat)
    BY DEF IdOp
  <2> QED
    BY <2>1, AppendLast
<1>2. [r EXCEPT !.actions = Append(@, a)] = [r EXCEPT !.actions = as]
  BY DEF IdOp
<1> HIDE DEF as
<1>3. [r EXCEPT !.actions = as] \in IdOp
  BY <1>1 DEF IdOp
<1>4. [r EXCEPT !.actions = as].entity = r.entity /\ [r EXCEPT !.actions = as].actions = as
  BY DEF IdOp
<1> QED
  BY <1>1, <1>2, <1>3, <1>4 DEF as

LEMMA AddIdOpReads ==
  ASSUME NEW s \in Seq(IdOp), NEW op \in Nat \X Nat,
         s = <<>> \/ \E before \in Nat \X Nat : before # op /\ EndsWith(s, before)
  PROVE  /\ AddIdOp(s, op) \in Seq(IdOp)
         /\ EndsWith(AddIdOp(s, op), op)
         /\ UngroupedOps(AddIdOp(s, op)) = Append(UngroupedOps(s), op)
<1>1. op[1] \in Nat /\ op[2] \in Nat /\ op = <<op[1], op[2]>>
  OBVIOUS
<1>2. CASE s = <<>> \/ Last(s).entity # op[1]
  <2> DEFINE r == [entity |-> op[1], actions |-> <<op[2]>>]
  <2>1. r \in IdOp /\ r.entity = op[1] /\ r.actions = <<op[2]>>
    BY <1>1 DEF IdOp
  <2>2. AddIdOp(s, op) = Append(s, r)
    BY <1>2 DEF AddIdOp
  <2>3. EntityOps(r) = <<op>>
    BY <1>1, <2>1 DEF EntityOps
  <2> HIDE DEF r
  <2>4. Append(s, r) \in Seq(IdOp) /\ Append(s, r) # <<>> /\ Last(Append(s, r)) = r
    BY <2>1, AppendLast
  <2>5. Last(r.actions) = op[2] /\ r.actions # <<>>
    BY <2>1, <1>1 DEF Last
  <2>6. UngroupedOps(Append(s, r)) = UngroupedOps(s) \o <<op>>
    BY <2>1, <2>3, UngroupAppend
  <2>7. UngroupedOps(s) \o <<op>> = Append(UngroupedOps(s), op)
    <3>1. UngroupedOps(s) \in Seq(Nat \X Nat)
      BY <2>1, UngroupAppend
    <3> QED
      BY <3>1
  <2>8. EndsWith(Append(s, r), op)
    BY <2>1, <2>4, <2>5 DEF EndsWith
  <2> QED
    BY <2>2, <2>4, <2>6, <2>7, <2>8
<1>3. CASE s # <<>> /\ Last(s).entity = op[1]
  <2>1. PICK before \in Nat \X Nat : before # op /\ EndsWith(s, before)
    BY <1>3
  <2>2. before = <<before[1], before[2]>>
    BY <2>1
  <2>3. Last(s).actions # <<>> /\ Last(Last(s).actions) # op[2]
    BY <1>1, <1>3, <2>1, <2>2 DEF EndsWith
  <2> DEFINE n == Len(s)
             r == s[n]
             q == [r EXCEPT !.actions = Append(@, op[2])]
             front == SubSeq(s, 1, n - 1)
  <2>4. n \in Nat \ {0} /\ r = Last(s) /\ r \in IdOp /\ n \in 1..n /\ DOMAIN s = 1..n
    BY <1>3 DEF Last
  <2>5. AddIdOp(s, op) = [s EXCEPT ![n] = q]
    <3>1. AddIdOp(s, op) = [s EXCEPT ![n].actions = Append(@, op[2])]
      BY <1>3, <2>3 DEF AddIdOp
    <3> QED
      BY <3>1, <2>4
  <2>6. q.entity = op[1] /\ q.actions = Append(r.actions, op[2]) /\ q \in IdOp
        /\ Append(r.actions, op[2]) # <<>> /\ Last(Append(r.actions, op[2])) = op[2]
    <3>1. r.entity = op[1] /\ r \in IdOp
      BY <1>3, <2>4
    <3> HIDE DEF r
    <3>2. q \in IdOp /\ q.entity = r.entity /\ q.actions = Append(r.actions, op[2])
      BY <1>1, <3>1, IdOpExtended
    <3>3. Append(r.actions, op[2]) # <<>> /\ Last(Append(r.actions, op[2])) = op[2]
      BY <1>1, <3>1, IdOpExtended
    <3> QED
      BY <3>1, <3>2, <3>3
  <2>7. EntityOps(q) = Append(EntityOps(r), op) /\ EntityOps(r) \in Seq(Nat \X Nat)
    <3>1. EntityOps(q) = Append(EntityOps(r), <<r.entity, op[2]>>)
      BY <1>1, <2>4, EntityOpsType
    <3>2. EntityOps(r) \in Seq(Nat \X Nat)
      BY <2>4, EntityOpsType
    <3> QED
      BY <3>1, <3>2, <1>1, <1>3, <2>4
  <2> HIDE DEF r, q
  <2>8. front \in Seq(IdOp) /\ s = Append(front, r) /\ [s EXCEPT ![n] = q] = Append(front, q)
    <3>1. front \in Seq(IdOp) /\ Len(front) = n - 1 /\ \A i \in 1..(n - 1) : front[i] = s[i]
      BY <2>4
    <3> HIDE DEF front
    <3>2. ASSUME NEW x \in IdOp
          PROVE  Append(front, x) = [s EXCEPT ![n] = x]
      <4> DEFINE b == Append(front, x)
      <4>1. b \in Seq(IdOp) /\ Len(b) = n /\ b[n] = x /\ \A i \in 1..(n - 1) : b[i] = s[i]
        BY <3>1, <2>4
      <4> HIDE DEF b
      <4>2. b = [i \in 1..n |-> b[i]]
        BY <4>1
      <4>3. \A i \in 1..n : b[i] = IF i = n THEN x ELSE s[i]
        BY <4>1, <2>4
      <4>4. b = [i \in 1..n |-> IF i = n THEN x ELSE s[i]]
        BY <4>2, <4>3
      <4>5. [s EXCEPT ![n] = x] = [i \in 1..n |-> IF i = n THEN x ELSE s[i]]
        BY <2>4
      <4> QED
        BY <4>4, <4>5 DEF b
    <3>3. [s EXCEPT ![n] = r] = s
      BY <2>4 DEF r
    <3> QED
      BY <3>1, <3>2, <3>3, <2>4, <2>6
  <2> HIDE DEF front, n
  <2>9. UngroupedOps(Append(front, q)) = UngroupedOps(front) \o Append(EntityOps(r), op)
    <3>1. UngroupedOps(Append(front, q)) = UngroupedOps(front) \o EntityOps(q)
      BY <2>6, <2>8, UngroupAppend
    <3> QED
      BY <2>7, <3>1
  <2>10. UngroupedOps(s) = UngroupedOps(front) \o EntityOps(r) /\ UngroupedOps(front) \in Seq(Nat \X Nat)
    <3>1. UngroupedOps(Append(front, r)) = UngroupedOps(front) \o EntityOps(r)
      BY <2>4, <2>8, UngroupAppend
    <3>2. UngroupedOps(front) \in Seq(Nat \X Nat)
      BY <2>4, <2>8, UngroupAppend
    <3> QED
      BY <3>1, <3>2, <2>8
  <2>11. UngroupedOps(front) \o Append(EntityOps(r), op) = Append(UngroupedOps(front) \o EntityOps(r), op)
    <3> DEFINE u == UngroupedOps(front)
               v == EntityOps(r)
               T == Nat \X Nat
    <3>1. u \in Seq(T) /\ v \in Seq(T) /\ op \in T
      BY <2>7, <2>10
    <3> HIDE DEF u, v, T
    <3>2. u \o Append(v, op) = Append(u \o v, op)
      BY <3>1, AppendAssociative
    <3> QED
      BY <3>2 DEF u, v
  <2>12. Append(front, q) \in Seq(IdOp) /\ Append(front, q) # <<>> /\ Last(Append(front, q)) = q
    BY <2>6, <2>8, AppendLast
  <2>13. EndsWith(Append(front, q), op)
    BY <2>6, <2>12 DEF EndsWith
  <2>14. AddIdOp(s, op) = Append(front, q)
    BY <2>5, <2>8
  <2> QED
    BY <2>9, <2>10, <2>11, <2>12, <2>13, <2>14
<1> QED
  BY <1>2, <1>3

\* Operations of which no two neighbours are equal are read back as they are.
LEMMA GroupedReadBack ==
  ASSUME NEW ops \in Seq(Nat \X Nat), \A i \in 1..(Len(ops) - 1) : ops[i] # ops[i + 1]
  PROVE  UngroupedOps(MacaroonIdOps(ops)) = ops
<1> DEFINE N == Len(ops)
           S == Seq(IdOp)
           base == <<>>
           step == [n \in 1..N |-> [s \in S |-> AddIdOp(s, ops[n])]]
<1>1. N \in Nat /\ \A n \in 1..N : ops[n] \in Nat \X Nat
  OBVIOUS
<1>2. ASSUME NEW s \in S, NEW op \in Nat \X Nat PROVE AddIdOp(s, op) \in S
  <2>1. op[1] \in Nat /\ op[2] \in Nat
    OBVIOUS
  <2>2. CASE s = <<>> \/ Last(s).entity # op[1]
    <3>1. [entity |-> op[1], actions |-> <<op[2]>>] \in IdOp
      BY <2>1 DEF IdOp
    <3> QED
      BY <2>2, <3>1 DEF AddIdOp
  <2>3. CASE s # <<>> /\ Last(s).entity = op[1] /\ Last(Last(s).actions) = op[2]
    BY <2>3 DEF AddIdOp
  <2>4. CASE s # <<>> /\ Last(s).entity = op[1] /\ Last(Last(s).actions) # op[2]
    <3> DEFINE q == [s[Len(s)] EXCEPT !.actions = Append(@, op[2])]
    <3>1. Len(s) \in DOMAIN s /\ s[Len(s)] \in IdOp
      BY <2>4
    <3>2. q \in IdOp
      BY <2>1, <3>1, IdOpExtended
    <3>3. AddIdOp(s, op) = [s EXCEPT ![Len(s)].actions = Append(@, op[2])]
      BY <2>4 DEF AddIdOp
    <3>4. AddIdOp(s, op) = [s EXCEPT ![Len(s)] = q]
      BY <3>1, <3>3
    <3> HIDE DEF q
    <3> QED
      BY <3>1, <3>2, <3>4
  <2> QED
    BY <2>2, <2>3, <2>4
<1>3. PICK g : Recursion(g, N, S, base, step)
  <2>1. step \in Steps(N, S) /\ base \in S
    <3>1. base \in S
      OBVIOUS
    <3> HIDE DEF S
    <3>2. \A n \in 1..N : [s \in S |-> AddIdOp(s, ops[n])] \in [S -> S]
      BY <1>1, <1>2
    <3> QED
      BY <3>1, <3>2 DEF Steps
  <2> HIDE DEF step, S, base
  <2> QED
    BY <1>1, <2>1, RecursionExists
<1>4. g \in [0..N -> S] /\ g[0] = <<>>
  BY <1>3 DEF Recursion
<1>5. ASSUME NEW n \in 1..N PROVE n - 1 \in 0..N /\ g[n - 1] \in S /\ g[n] = AddIdOp(g[n - 1], ops[n])
  <2>1. n - 1 \in 0..N
    BY <1>1
  <2>2. g[n - 1] \in S /\ g[n] = step[n][g[n - 1]]
    BY <2>1, <1>3 DEF Recursion
  <2> HIDE DEF S
  <2> QED
    BY <2>1, <2>2
<1> HIDE DEF S, step
<1>6. MacaroonIdOps(ops) = g[N]
  <2> DEFINE Grouped(f) == f = [n \in 0..N |-> IF n = 0 THEN <<>> ELSE AddIdOp(f[n - 1], ops[n])]
             f == CHOOSE f : Grouped(f)
  <2>1. Grouped(g)
    <3>1. g = [n \in 0..N |-> g[n]]
      BY <1>4
    <3>2. ASSUME NEW n \in 0..N
          PROVE  g[n] = IF n = 0 THEN <<>> ELSE AddIdOp(g[n - 1], ops[n])
      <4>1. n = 0 \/ n \in 1..N
        BY <1>1
      <4> QED
        BY <4>1, <1>4, <1>5
    <3> QED
      BY <3>1, <3>2
  <2>2. Grouped(f)
    <3> HIDE DEF Grouped
    <3> QED
      BY <2>1
  <2>3. MacaroonIdOps(ops) = f[N]
    BY DEF MacaroonIdOps
  <2> HIDE DEF f
  <2>4. \A n \in 0..N : f[n] = IF n = 0 THEN <<>> ELSE AddIdOp(f[n - 1], ops[n])
    BY <2>2
  <2>5. f[0] = g[0]
    BY <2>4, <1>1, <1>4
  <2>6. ASSUME NEW n \in 1..N, f[n - 1] = g[n - 1] PROVE f[n] = g[n]
    <3>1. n \in 0..N /\ n # 0
      BY <1>1
    <3> QED
      BY <3>1, <2>4, <2>6, <1>5
  <2>7. StepAlike(f, g, N)
    BY <2>6 DEF StepAlike
  <2>8. Alike(f, g, N)
    BY <1>1, <2>5, <2>7, RecursionUnique
  <2>9. N \in 0..N
    BY <1>1
  <2> QED
    BY <2>3, <2>8, <2>9 DEF Alike
<1> DEFINE Read(n) == /\ UngroupedOps(g[n]) = SubSeq(ops, 1, n)
                      /\ n # 0 => EndsWith(g[n], ops[n])
           A == {n \in Nat : n <= N => Read(n)}
<1>7. 0 \in A
  <2>1. UngroupedOps(<<>>) = <<>>
    BY DEF UngroupedOps, FlattenSeq
  <2>2. SubSeq(ops, 1, 0) = <<>>
    OBVIOUS
  <2> QED
    BY <2>1, <2>2, <1>4
<1>8. ASSUME NEW n \in A PROVE n + 1 \in A
  <2> SUFFICES ASSUME n + 1 <= N PROVE Read(n + 1)
    BY <1>1
  <2>1. n \in Nat /\ Read(n) /\ n + 1 \in 1..N /\ (n + 1) - 1 = n /\ n \in 0..N /\ n + 1 # 0
    BY <1>1
  <2>2. g[n] \in Seq(IdOp) /\ g[n + 1] = AddIdOp(g[n], ops[n + 1]) /\ ops[n + 1] \in Nat \X Nat
    BY <2>1, <1>1, <1>5 DEF S
  <2>3. g[n] = <<>> \/ \E before \in Nat \X Nat : before # ops[n + 1] /\ EndsWith(g[n], before)
    <3>1. CASE n = 0
      BY <3>1, <1>4
    <3>2. CASE n # 0
      <4>1. n \in 1..N /\ n \in 1..(N - 1)
        BY <3>2, <2>1, <1>1
      <4>2. ops[n] \in Nat \X Nat /\ ops[n] # ops[n + 1] /\ EndsWith(g[n], ops[n])
        BY <4>1, <3>2, <2>1, <1>1
      <4> QED
        BY <4>2
    <3> QED
      BY <3>1, <3>2
  <2>4. EndsWith(g[n + 1], ops[n + 1])
    BY <2>2, <2>3, AddIdOpReads
  <2>5. UngroupedOps(g[n + 1]) = Append(UngroupedOps(g[n]), ops[n + 1])
    BY <2>2, <2>3, AddIdOpReads
  <2>6. Append(SubSeq(ops, 1, n), ops[n + 1]) = SubSeq(ops, 1, n + 1)
    BY <2>1, <1>1
  <2> QED
    BY <2>1, <2>4, <2>5, <2>6
<1>9. A = Nat
  <2>1. A \in SUBSET Nat
    OBVIOUS
  <2> HIDE DEF A
  <2> QED
    BY <1>7, <1>8, <2>1, SetInduction
<1>10. UngroupedOps(g[N]) = SubSeq(ops, 1, N)
  <2>1. N \in A
    BY <1>1, <1>9
  <2> QED
    BY <2>1
<1>11. SubSeq(ops, 1, N) = ops
  OBVIOUS
<1> QED
  BY <1>6, <1>10, <1>11

\* An enumeration without repetitions, as long as the set is large, leaves
\* nothing of the set out.
LEMMA EnumerationIsAll ==
  ASSUME NEW S, IsFiniteSet(S), NEW f \in [1..Cardinality(S) -> S],
         \A i, j \in 1..Cardinality(S) : i # j => f[i] # f[j]
  PROVE  f \in Seq(S) /\ Len(f) = Cardinality(S) /\ ToSet(f) = S
<1> DEFINE n == Cardinality(S)
<1>1. n \in Nat
  BY FS_CardinalityType
<1>2. IsFiniteSet(1..n) /\ Cardinality(1..n) = n
  BY <1>1, FS_Interval
<1>3. f \in Injection(1..n, S)
  BY DEF Injection, IsInjective
<1>4. f \in Surjection(1..n, S)
  BY <1>2, <1>3, FS_Injection
<1>5. \A x \in S : \E i \in 1..n : f[i] = x
  BY <1>4 DEF Surjection
<1> HIDE DEF n
<1>6. f \in [1..n -> S]
  BY DEF n
<1>7. f \in Seq(S) /\ Len(f) = n /\ DOMAIN f = 1..n
  BY <1>1, <1>6
<1> QED
  BY <1>5, <1>6, <1>7 DEF ToSet, n

LEMMA LeastOp ==
  ASSUME NEW S \in SUBSET (Nat \X Nat), S # {}
  PROVE  \E m \in S : \A o \in S : o = m \/ Less(m, o)
<1> DEFINE entities == {o[1] : o \in S}
<1>1. \A o \in S : o[1] \in Nat /\ o[2] \in Nat /\ o = <<o[1], o[2]>>
  OBVIOUS
<1>2. entities \in SUBSET Nat /\ entities # {}
  BY <1>1
<1>3. PICK e \in entities : \A x \in entities : e <= x
  <2> HIDE DEF entities
  <2> QED
    BY <1>2, LeastNatural
<1> DEFINE actions == {o[2] : o \in {o \in S : o[1] = e}}
<1>4. actions \in SUBSET Nat /\ actions # {}
  BY <1>1
<1>5. PICK a \in actions : \A x \in actions : a <= x
  <2> HIDE DEF actions
  <2> QED
    BY <1>4, LeastNatural
<1>6. PICK m \in S : m[1] = e /\ m[2] = a
  OBVIOUS
<1>7. ASSUME NEW o \in S PROVE o = m \/ Less(m, o)
  <2>1. e <= o[1] /\ e \in Nat /\ a \in Nat /\ o[1] \in Nat /\ o[2] \in Nat
    BY <1>1, <1>2, <1>3, <1>4
  <2>2. CASE o[1] = e
    <3>1. a <= o[2]
      BY <2>2, <1>5
    <3>2. o[2] = a => o = m
      BY <2>2, <1>1, <1>6
    <3> QED
      BY <2>1, <2>2, <3>1, <3>2, <1>6 DEF Less
  <2>3. CASE o[1] # e
    BY <2>1, <2>3, <1>6 DEF Less
  <2> QED
    BY <2>2, <2>3
<1> QED
  BY <1>7

\* Operations can be put in order, and those in order are all different.
LEMMA SortedEnumeration ==
  ASSUME NEW S \in SUBSET (Nat \X Nat), IsFiniteSet(S)
  PROVE  \E s \in SetToSeqs(S) : Sorted(s)
<1> DEFINE Enumerable(T, n) == \E s \in [1..n -> T] : Sorted(s)
           A == {n \in Nat : \A T \in SUBSET (Nat \X Nat) :
                               IsFiniteSet(T) /\ Cardinality(T) = n => Enumerable(T, n)}
<1>1. 0 \in A
  <2>1. ASSUME NEW T PROVE Enumerable(T, 0)
    <3>1. [i \in 1..0 |-> 0] \in [1..0 -> T] /\ Sorted([i \in 1..0 |-> 0])
      BY DEF Sorted
    <3> QED
      BY <3>1
  <2> QED
    BY <2>1
<1>2. ASSUME NEW n \in A PROVE n + 1 \in A
  <2> SUFFICES ASSUME NEW T \in SUBSET (Nat \X Nat), IsFiniteSet(T), Cardinality(T) = n + 1
               PROVE  Enumerable(T, n + 1)
    OBVIOUS
  <2>1. n \in Nat /\ T # {}
    BY FS_EmptySet
  <2>2. PICK m \in T : \A o \in T : o = m \/ Less(m, o)
    BY <2>1, LeastOp
  <2> DEFINE U == T \ {m}
  <2>3. IsFiniteSet(U) /\ Cardinality(U) = n
    <3>1. IsFiniteSet(U) /\ Cardinality(U) = Cardinality(T) - 1
      BY FS_RemoveElement
    <3> QED
      BY <2>1, <3>1
  <2>4. PICK t \in [1..n -> U] : Sorted(t)
    <3>1. U \in SUBSET (Nat \X Nat)
      OBVIOUS
    <3> HIDE DEF U
    <3> QED
      BY <2>3, <3>1
  <2> DEFINE s == [i \in 1..(n + 1) |-> IF i = 1 THEN m ELSE t[i - 1]]
  <2>5. ASSUME NEW i \in 1..(n + 1), i # 1 PROVE i - 1 \in 1..n /\ s[i] = t[i - 1] /\ t[i - 1] \in U
    BY <2>1, <2>5
  <2>6. s[1] = m /\ DOMAIN s = 1..(n + 1)
    BY <2>1
  <2>7. s \in [1..(n + 1) -> T]
    BY <2>5
  <2> HIDE DEF s
  <2>8. ASSUME NEW i \in 1..(n + 1), NEW j \in 1..(n + 1), i < j PROVE Less(s[i], s[j])
    <3>1. j # 1 /\ s[j] = t[j - 1] /\ t[j - 1] \in U /\ j - 1 \in 1..n
      BY <2>1, <2>5, <2>8
    <3>2. CASE i = 1
      BY <3>1, <3>2, <2>2, <2>6
    <3>3. CASE i # 1
      <4>1. s[i] = t[i - 1] /\ i - 1 \in 1..n
        BY <3>3, <2>5
      <4>2. i - 1 < j - 1
        BY <2>1, <2>8
      <4>3. Less(t[i - 1], t[j - 1])
        BY <3>1, <4>1, <4>2, <2>4 DEF Sorted
      <4> QED
        BY <3>1, <4>1, <4>3
    <3> QED
      BY <3>2, <3>3
  <2>9. Sorted(s)
    BY <2>6, <2>8 DEF Sorted
  <2> QED
    BY <2>7, <2>9
<1>3. A = Nat
  <2>1. A \in SUBSET Nat
    OBVIOUS
  <2> HIDE DEF A
  <2> QED
    BY <1>1, <1>2, <2>1, SetInduction
<1>4. Cardinality(S) \in Nat
  BY FS_CardinalityType
<1>5. PICK s \in [1..Cardinality(S) -> S] : Sorted(s)
  BY <1>3, <1>4
<1>6. ASSUME NEW i \in 1..Cardinality(S), NEW j \in 1..Cardinality(S), i # j PROVE s[i] # s[j]
  <2>1. \A o \in S : ~Less(o, o)
    <3>1. \A o \in S : o[1] \in Nat /\ o[2] \in Nat
      OBVIOUS
    <3> QED
      BY <3>1 DEF Less
  <2>2. i < j \/ j < i
    BY <1>4, <1>6
  <2>3. Less(s[i], s[j]) \/ Less(s[j], s[i])
    BY <2>2, <1>5 DEF Sorted
  <2> QED
    BY <2>1, <2>3
<1>7. s \in SetToSeqs(S)
  BY <1>6 DEF SetToSeqs
<1> QED
  BY <1>5, <1>7

LEMMA CanonicalOpsMade ==
  ASSUME NEW ops \in Seq(Nat \X Nat)
  PROVE  /\ CanonicalOps(ops) \in Seq(Nat \X Nat)
         /\ ToSet(CanonicalOps(ops)) = ToSet(ops)
         /\ \A i \in 1..(Len(CanonicalOps(ops)) - 1) : CanonicalOps(ops)[i] # CanonicalOps(ops)[i + 1]
<1> DEFINE S == ToSet(ops)
           s == CanonicalOps(ops)
           n == Cardinality(S)
<1>1. S \in SUBSET (Nat \X Nat) /\ IsFiniteSet(S)
  <2>1. ops \in [1..Len(ops) -> Nat \X Nat] /\ Len(ops) \in Nat
    OBVIOUS
  <2>2. IsFiniteSet(1..Len(ops))
    BY <2>1, FS_Interval
  <2>3. ops \in Surjection(1..Len(ops), S)
    BY <2>1 DEF ToSet, Surjection
  <2>4. IsFiniteSet(S)
    BY <2>2, <2>3, FS_Surjection
  <2> QED
    BY <2>1, <2>4 DEF ToSet
<1> HIDE DEF S
<1>2. \E t \in SetToSeqs(S) : Sorted(t)
  BY <1>1, SortedEnumeration
<1>3. s \in SetToSeqs(S) /\ Sorted(s)
  <2>1. s = CHOOSE t \in SetToSeqs(S) : Sorted(t)
    BY DEF CanonicalOps, S
  <2> HIDE DEF s
  <2> QED
    BY <1>2, <2>1
<1> HIDE DEF s
<1>4. s \in [1..n -> S] /\ \A i, j \in 1..n : i # j => s[i] # s[j]
  BY <1>3 DEF SetToSeqs
<1>5. s \in Seq(S) /\ Len(s) = n
  BY <1>1, <1>4, EnumerationIsAll
<1>6. ToSet(s) = S
  BY <1>1, <1>4, EnumerationIsAll
<1>7. n \in Nat
  BY <1>1, FS_CardinalityType
<1> HIDE DEF n
<1>8. ASSUME NEW i \in 1..(n - 1) PROVE s[i] # s[i + 1]
  <2>1. i \in 1..n /\ i + 1 \in 1..n /\ i # i + 1
    BY <1>7
  <2> QED
    BY <2>1, <1>4
<1>9. s \in Seq(Nat \X Nat)
  BY <1>1, <1>5
<1> QED
  BY <1>5, <1>6, <1>8, <1>9 DEF S, s

\* The id that a macaroon is given leads back to the storage id and to the
\* operations; one of an earlier release leads to the legacy operations.
LEMMA NewIdDecodes ==
  ASSUME NEW version \in 0..LatestVersion, NEW storageId, NEW idOps, NEW legacyOps
  PROVE  /\ DecodeStorageId(NewMacaroonId(version, storageId, idOps)) = storageId
         /\ DecodeOps(NewMacaroonId(version, storageId, idOps), legacyOps) = UngroupedOps(idOps)
<1> DEFINE id == [first |-> LatestVersion, storageId |-> storageId, ops |-> idOps]
           made == NewMacaroonId(version, storageId, idOps)
<1>1. Unbase64(made) = id
  <2>1. CASE MacaroonVersion(version) < 2
    <3>1. made = [first |-> Base64Byte, base64 |-> id]
      BY <2>1 DEF NewMacaroonId
    <3> HIDE DEF id, made
    <3> QED
      BY <3>1 DEF Unbase64
  <2>2. CASE ~(MacaroonVersion(version) < 2)
    <3>1. made = id
      BY <2>2 DEF NewMacaroonId
    <3>2. id.first # Base64Byte
      BY DEF LatestVersion, Base64Byte
    <3> HIDE DEF id, made
    <3> QED
      BY <3>1, <3>2 DEF Unbase64
  <2> QED
    BY <2>1, <2>2
<1>2. id.first = LatestVersion /\ id.storageId = storageId /\ id.ops = idOps
  OBVIOUS
<1> HIDE DEF id, made
<1>3. DecodeStorageId(made) = storageId
  BY <1>1, <1>2 DEF DecodeStorageId
<1>4. DecodeOps(made, legacyOps) = UngroupedOps(idOps)
  BY <1>1, <1>2 DEF DecodeOps
<1> QED
  BY <1>3, <1>4 DEF made

LEMMA EarlierIdDecodes ==
  ASSUME NEW version \in 0..LatestVersion, NEW storageId, NEW legacyOps,
         NEW made \in EarlierIds(version, storageId)
  PROVE  DecodeStorageId(made) = storageId /\ DecodeOps(made, legacyOps) = legacyOps
<1> DEFINE id == [first |-> 2, storageId |-> storageId]
           hex == [first |-> HexByte, storageId |-> storageId]
           text == [first |-> Base64Byte, base64 |-> id]
<1>1. made = id \/ made = hex \/ made = text
  BY DEF EarlierIds
<1>2. id.first = 2 /\ id.storageId = storageId
  OBVIOUS
<1>3. hex.first = HexByte /\ hex.storageId = storageId
  OBVIOUS
<1>4. text.first = Base64Byte /\ text.base64 = id
  OBVIOUS
<1> HIDE DEF id, hex, text
<1>5. Unbase64(made) = id \/ Unbase64(made) = hex
  BY <1>1, <1>2, <1>3, <1>4 DEF Unbase64, Base64Byte, HexByte
<1>6. Unbase64(made).storageId = storageId /\ Unbase64(made).first # LatestVersion
  BY <1>2, <1>3, <1>5 DEF LatestVersion, HexByte
<1> QED
  BY <1>6 DEF DecodeStorageId, DecodeOps

LEMMA IdsReadBack == IdsInv => OpsReadBack
<1> SUFFICES ASSUME IdsInv, NEW c \in Conversations, mac[c] # {}
             PROVE  Found(c) /\ (store[c] # LegacyOps => ToSet(Ops(c)) = ToSet(Wanted[c]))
  BY DEF OpsReadBack
<1> DEFINE m == The(mac[c])
<1>1. m \in mac[c]
  BY DEF The
<1>2. Ops(c) = DecodeOps(m.id, LegacyOps) /\ (Found(c) <=> Ops(c) = store[c] /\ DecodeStorageId(m.id) = c)
  BY DEF Ops, Found
<1> HIDE DEF m
<1>3. PICK version \in 0..LatestVersion :
        \/ m.id = NewMacaroonId(version, c, MintedIdOps[c]) /\ store[c] = MintedOps[c]
        \/ m.id \in EarlierIds(version, c) /\ store[c] = LegacyOps
  BY <1>1 DEF IdsInv
<1>4. CASE m.id = NewMacaroonId(version, c, MintedIdOps[c]) /\ store[c] = MintedOps[c]
  <2>1. Wanted[c] \in Seq(Nat \X Nat)
    BY DischargerAssumption
  <2>2. MintedOps[c] = CanonicalOps(Wanted[c]) /\ MintedIdOps[c] = MacaroonIdOps(MintedOps[c])
    BY DEF MintedOps, MintedIdOps
  <2>3. ToSet(MintedOps[c]) = ToSet(Wanted[c])
    BY <2>1, <2>2, CanonicalOpsMade
  <2>4. UngroupedOps(MintedIdOps[c]) = MintedOps[c]
    <3> DEFINE s == CanonicalOps(Wanted[c])
    <3>1. s \in Seq(Nat \X Nat)
      BY <2>1, CanonicalOpsMade
    <3>2. \A i \in 1..(Len(s) - 1) : s[i] # s[i + 1]
      BY <2>1, CanonicalOpsMade
    <3> HIDE DEF s
    <3>3. UngroupedOps(MacaroonIdOps(s)) = s
      BY <3>1, <3>2, GroupedReadBack
    <3> QED
      BY <2>2, <3>3 DEF s
  <2>5. DecodeStorageId(m.id) = c
    BY <1>4, NewIdDecodes
  <2>6. DecodeOps(m.id, LegacyOps) = UngroupedOps(MintedIdOps[c])
    BY <1>4, NewIdDecodes
  <2> QED
    BY <1>2, <1>4, <2>3, <2>4, <2>5, <2>6
<1>5. CASE m.id \in EarlierIds(version, c) /\ store[c] = LegacyOps
  <2>1. DecodeStorageId(m.id) = c
    BY <1>5, EarlierIdDecodes
  <2>2. DecodeOps(m.id, LegacyOps) = LegacyOps
    BY <1>5, EarlierIdDecodes
  <2> QED
    BY <1>2, <1>5, <2>1, <2>2
<1> QED
  BY <1>3, <1>4, <1>5

-----------------------------------------------------------------------------
(* Verdicts and ids.  What a conversation has once been given, it keeps.   *)

Starts(c) == StartMint(c) \/ DischargeInfo(c) \/ PublicKey(c)

LEMMA StartsMint ==
  ASSUME ConversationInv, NEW c \in Conversations, Starts(c)
  PROVE  /\ UNCHANGED <<ns, dm, added, verdict>>
         /\ mac[c] = {}
         /\ \/ \E third \in 1..LatestVersion : Mint(c, third)
            \/ UNCHANGED <<mac, store>>
<1>1. TypeOK /\ MintedInv
  BY DEF ConversationInv
<1>2. pc[c] \in {"idle", "info", "publickey"}
  BY DEF Starts, StartMint, DischargeInfo, PublicKey
<1>3. mac[c] = {}
  BY <1>1, <1>2 DEF MintedInv
<1>4. party \in 1..LatestVersion /\ 1 \in 1..LatestVersion /\ \A v \in cache : v \in 1..LatestVersion
  BY <1>1 DEF TypeOK, LatestVersion
<1>5. cache # {} => The(cache) \in cache
  BY DEF The
<1>6. CASE StartMint(c)
  BY <1>3, <1>4, <1>5, <1>6 DEF StartMint, Mint, partyVars, macVars, dischargeVars, verdictVars
<1>7. CASE DischargeInfo(c)
  BY <1>3, <1>4, <1>7 DEF DischargeInfo, Mint, partyVars, macVars, dischargeVars, verdictVars
<1>8. CASE PublicKey(c)
  BY <1>3, <1>4, <1>8 DEF PublicKey, Mint, partyVars, macVars, dischargeVars, verdictVars
<1> QED
  BY <1>6, <1>7, <1>8 DEF Starts

Gives(c) == WaitToken(c) \/ WaitMacaroon(c) \/ Presents(c)

LEMMA GivesOnce ==
  ASSUME ConversationInv, NEW c \in Conversations, Gives(c)
  PROVE  /\ UNCHANGED <<ns, mac, store, added, verdict>>
         /\ dm[c] = {}
         /\ \A d \in Conversations \ {c} : dm'[d] = dm[d]
<1>1. pc[c] \notin {"discharged", "over"}
  BY TokenTaken DEF Gives, WaitToken, WaitMacaroon
<1>2. dm[c] = {} /\ DOMAIN dm = Conversations
  BY <1>1 DEF ConversationInv, TypeOK
<1>3. dm' = dm \/ \E x : dm' = [dm EXCEPT ![c] = x]
  BY TokenTaken DEF Gives, WaitToken, WaitMacaroon, TakenFor, Give
<1>4. UNCHANGED <<ns, mac, store, added, verdict>>
  BY TokenTaken DEF Gives, WaitToken, WaitMacaroon, partyVars, macVars, verdictVars
<1> QED
  BY <1>2, <1>3, <1>4

\* The other steps.
LEMMA OthersKeep ==
  ASSUME NEW c \in Conversations,
         LocateError(c) \/ AskDischarge(c) \/ AwaitTimeout(c) \/ Again(c)
  PROVE  UNCHANGED <<ns, mac, store, dm, added, verdict>>
<1>1. CASE LocateError(c)
  BY <1>1 DEF LocateError, partyVars, macVars, dischargeVars, verdictVars
<1>2. CASE AskDischarge(c)
  BY <1>2 DEF AskDischarge, partyVars, macVars, verdictVars
<1>3. CASE AwaitTimeout(c)
  BY <1>3 DEF AwaitTimeout, partyVars, macVars, dischargeVars, verdictVars
<1>4. CASE Again(c)
  BY <1>4 DEF Again, partyVars, macVars, dischargeVars, verdictVars
<1> QED
  BY <1>1, <1>2, <1>3, <1>4

\* No step takes a macaroon or its root key away, or changes what was given.
Kept(c) ==
  /\ mac[c] # {} => mac'[c] = mac[c] /\ store'[c] = store[c]
  /\ dm[c] # {} => dm'[c] = dm[c]

LEMMA AllKept ==
  ASSUME ConversationInv, [Next]_vars
  PROVE  /\ ns' = ns
         /\ \A c \in Conversations : Kept(c)
         /\ UNCHANGED <<added, verdict>> \/ \E c \in Conversations : Verify(c)
<1>1. CASE UNCHANGED <<ns, mac, store, dm, added, verdict>>
  BY <1>1 DEF Kept
<1>2. CASE UNCHANGED vars
  BY <1>1, <1>2 DEF vars
<1>3. CASE Upgrade
  BY <1>1, <1>3 DEF Upgrade, macVars, dischargeVars, verdictVars
<1>4. ASSUME NEW i \in DOMAIN waiting, Visit(i) PROVE UNCHANGED <<ns, mac, store, dm, added, verdict>>
  BY <1>4 DEF Visit, partyVars, macVars, verdictVars
<1>5. ASSUME NEW c \in Conversations, StartMint(c) \/ PresentEarly(c) \/ Again(c) \/ Step(c)
      PROVE  /\ ns' = ns
             /\ \A d \in Conversations : Kept(d)
             /\ UNCHANGED <<added, verdict>> \/ Verify(c)
  <2>1. CASE Starts(c)
    <3>1. UNCHANGED <<ns, dm, added, verdict>> /\ mac[c] = {}
      BY <2>1, StartsMint
    <3>2. \A d \in Conversations \ {c} : mac'[d] = mac[d] /\ store'[d] = store[d]
      <4>1. CASE UNCHANGED <<mac, store>>
        BY <4>1
      <4>2. ASSUME NEW third \in 1..LatestVersion, Mint(c, third)
            PROVE  \A d \in Conversations \ {c} : mac'[d] = mac[d] /\ store'[d] = store[d]
        <5>1. DOMAIN mac = Conversations /\ DOMAIN store = Conversations
          BY DEF ConversationInv, TypeOK
        <5>2. (\E x : mac' = [mac EXCEPT ![c] = x]) /\ (\E x : store' = [store EXCEPT ![c] = x])
          BY <4>2 DEF Mint
        <5> QED
          BY <5>1, <5>2
      <4> QED
        BY <2>1, <4>1, <4>2, StartsMint
    <3> QED
      BY <3>1, <3>2 DEF Kept
  <2>2. CASE Gives(c)
    BY <2>2, GivesOnce DEF Kept
  <2>3. CASE LocateError(c) \/ AskDischarge(c) \/ AwaitTimeout(c) \/ Again(c)
    BY <2>3, <1>1, OthersKeep
  <2>4. CASE Verify(c)
    BY <2>4 DEF Verify, Kept, partyVars, macVars, dischargeVars, verdictVars
  <2> QED
    BY <1>5, <2>1, <2>2, <2>3, <2>4 DEF Step, Starts, Gives, Presents
<1> QED
  BY <1>1, <1>2, <1>3, <1>4, <1>5 DEF Next

\* A macaroon that is there after a step was there before, or is minted in it.
LEMMA MacaroonsAreMinted ==
  ASSUME ConversationInv, [Next]_vars, NEW c \in Conversations, mac[c] = {},
         ~\E third \in 1..LatestVersion : Mint(c, third)
  PROVE  mac'[c] = mac[c]
<1>1. CASE UNCHANGED vars
  BY <1>1 DEF vars
<1>2. CASE Upgrade
  BY <1>2 DEF Upgrade, macVars, verdictVars
<1>3. ASSUME NEW i \in DOMAIN waiting, Visit(i) PROVE mac' = mac
  BY <1>3 DEF Visit, macVars, verdictVars
<1>4. ASSUME NEW d \in Conversations, StartMint(d) \/ PresentEarly(d) \/ Again(d) \/ Step(d) PROVE mac'[c] = mac[c]
  <2>1. CASE Starts(d)
    <3>1. CASE UNCHANGED <<mac, store>>
      BY <3>1
    <3>2. ASSUME NEW third \in 1..LatestVersion, Mint(d, third) PROVE mac'[c] = mac[c]
      <4>1. d # c
        BY <3>2
      <4>2. DOMAIN mac = Conversations
        BY DEF ConversationInv, TypeOK
      <4>3. \E x : mac' = [mac EXCEPT ![d] = x]
        BY <3>2 DEF Mint
      <4> QED
        BY <4>1, <4>2, <4>3
    <3> QED
      BY <2>1, <3>1, <3>2, StartsMint
  <2>2. CASE Gives(d)
    BY <2>2, GivesOnce
  <2>3. CASE LocateError(d) \/ AskDischarge(d) \/ AwaitTimeout(d) \/ Again(d)
    BY <2>3, OthersKeep
  <2>4. CASE Verify(d)
    BY <2>4 DEF Verify, macVars, verdictVars
  <2> QED
    BY <1>4, <2>1, <2>2, <2>3, <2>4 DEF Step, Starts, Gives, Presents
<1> QED
  BY <1>1, <1>2, <1>3, <1>4 DEF Next

LEMMA IdsKept ==
  ASSUME ConversationInv, IdsInv, [Next]_vars
  PROVE  IdsInv'
<1>1. MintedIdOps' = MintedIdOps /\ MintedOps' = MintedOps
  BY DEF MintedIdOps, MintedOps
<1>2. ASSUME NEW c \in Conversations, NEW third \in 1..LatestVersion, Mint(c, third), NEW m \in mac'[c]
      PROVE  \E version \in 0..LatestVersion :
               \/ m.id = NewMacaroonId(version, c, MintedIdOps[c]) /\ store'[c] = MintedOps[c]
               \/ m.id \in EarlierIds(version, c) /\ store'[c] = LegacyOps
  <2>1. PICK header \in Headers[c], keys \in Needs[c] :
          \/ LET id == NewMacaroonId(RequestVersion(header), c, MintedIdOps[c])
             IN  /\ mac' = [mac EXCEPT ![c] = {NewMacaroon(c, id, RequestVersion(header), third, keys)}]
                 /\ store' = [store EXCEPT ![c] = MintedOps[c]]
          \/ /\ \E id \in EarlierIds(RequestVersion(header), c) :
                  mac' = [mac EXCEPT ![c] = {NewMacaroon(c, id, RequestVersion(header), third, keys)}]
             /\ store' = [store EXCEPT ![c] = LegacyOps]
    BY <1>2, Zenon DEF Mint
  <2>2. RequestVersion(header) \in 0..LatestVersion
    BY RequestVersionType
  <2> DEFINE version == RequestVersion(header)
  <2>3. PICK id : /\ mac' = [mac EXCEPT ![c] = {NewMacaroon(c, id, version, third, keys)}]
                  /\ \/ id = NewMacaroonId(version, c, MintedIdOps[c]) /\ store' = [store EXCEPT ![c] = MintedOps[c]]
                     \/ id \in EarlierIds(version, c) /\ store' = [store EXCEPT ![c] = LegacyOps]
    BY <2>1
  <2> HIDE DEF version
  <2>4. DOMAIN mac = Conversations /\ DOMAIN store = Conversations
    BY DEF ConversationInv, TypeOK
  <2>5. m = NewMacaroon(c, id, version, third, keys)
    BY <1>2, <2>3, <2>4
  <2>6. version \in 0..LatestVersion
    BY <2>2 DEF version
  <2>7. m.id = id
    BY <2>5, <2>6, MintedMacaroon
  <2> QED
    BY <2>3, <2>4, <2>6, <2>7
<1>3. ASSUME NEW c \in Conversations, NEW m \in mac'[c]
      PROVE  \E version \in 0..LatestVersion :
               \/ m.id = NewMacaroonId(version, c, MintedIdOps[c]) /\ store'[c] = MintedOps[c]
               \/ m.id \in EarlierIds(version, c) /\ store'[c] = LegacyOps
  <2>1. CASE mac'[c] = mac[c] /\ store'[c] = store[c]
    BY <2>1, <1>3 DEF IdsInv
  <2>2. CASE mac[c] = {}
    <3>1. CASE \E third \in 1..LatestVersion : Mint(c, third)
      BY <3>1, <1>2, <1>3
    <3>2. CASE ~\E third \in 1..LatestVersion : Mint(c, third)
      <4>1. mac'[c] = mac[c]
        BY <2>2, <3>2, MacaroonsAreMinted
      <4> QED
        BY <4>1, <2>2, <1>3
    <3> QED
      BY <3>1, <3>2
  <2> QED
    BY <2>1, <2>2, AllKept DEF Kept
<1>4. ASSUME NEW c \in Conversations, NEW m \in mac'[c]
      PROVE  \E version \in 0..LatestVersion :
               \/ m.id = NewMacaroonId(version, c, MintedIdOps'[c]) /\ store'[c] = MintedOps'[c]
               \/ m.id \in EarlierIds(version, c) /\ store'[c] = LegacyOps
  BY <1>1, <1>3
<1> QED
  BY <1>4 DEF IdsInv

LEMMA VerdictsKept ==
  ASSUME ConversationInv, VerdictInv, [Next]_vars
  PROVE  VerdictInv'
<1>1. ns' = ns /\ \A c \in Conversations : Kept(c)
  BY AllKept
<1>2. ASSUME NEW c \in Conversations, mac[c] # {}, dm[c] # {}
      PROVE  /\ Found(c)' = Found(c)
             /\ Conditions(c)' = Shown(c, added'[c])
  <2>1. mac'[c] = mac[c] /\ store'[c] = store[c] /\ dm'[c] = dm[c]
    BY <1>1, <1>2 DEF Kept
  <2>2. Conditions(c)' = Shown(c, added'[c])
    BY <1>1, <2>1 DEF Conditions, Shown
  <2>3. Found(c)' = Found(c)
    BY <2>1 DEF Found, Ops
  <2> QED
    BY <2>2, <2>3
<1>3. TypeOK
  BY DEF ConversationInv
<1>5. ASSUME NEW c \in Conversations, NEW v \in verdict'[c]
      PROVE  v.now \in Clock /\ v.allowed = (Found(c)' /\ Holds(Conditions(c), v.now)')
  <2>1. CASE verdict'[c] = verdict[c] /\ added'[c] = added[c]
    <3>1. v.now \in Clock /\ v.allowed = (Found(c) /\ Holds(Conditions(c), v.now))
      BY <1>5, <2>1 DEF VerdictInv
    <3>2. mac[c] # {} /\ dm[c] # {}
      BY <1>3, <1>5, <2>1 DEF TypeOK
    <3>3. Conditions(c)' = Conditions(c)
      BY <3>2, <2>1, <1>2 DEF Conditions
    <3>4. Holds(Conditions(c), v.now)' = Holds(Conditions(c), v.now)
      BY <3>3, <1>1 DEF Holds, RegisteredIn
    <3> QED
      BY <3>1, <3>2, <3>4, <1>2
  <2>2. CASE Verify(c)
    <3>1. PICK now \in Clock, caveats \in Additions[c] :
            /\ added' = [added EXCEPT ![c] = caveats]
            /\ verdict' = [verdict EXCEPT ![c] =
                 {[now |-> now, allowed |-> Found(c) /\ Holds(Shown(c, caveats), now)]}]
      BY <2>2 DEF Verify
    <3>2. /\ pc[c] = "discharged" /\ mac[c] # {} /\ dm[c] # {}
          /\ DOMAIN verdict = Conversations /\ DOMAIN added = Conversations
      BY <2>2, <1>3 DEF Verify, TypeOK
    <3>3. v = [now |-> now, allowed |-> Found(c) /\ Holds(Shown(c, caveats), now)]
      BY <3>1, <3>2, <1>5
    <3>4. v.now = now /\ v.allowed = (Found(c) /\ Holds(Shown(c, caveats), now))
      BY <3>3
    <3>5. Conditions(c)' = Shown(c, caveats)
      BY <3>1, <3>2, <1>2
    <3>6. Holds(Conditions(c), v.now)' = Holds(Shown(c, caveats), now)
      BY <3>4, <3>5, <1>1 DEF Holds, RegisteredIn
    <3> QED
      BY <3>1, <3>2, <3>4, <3>6, <1>2
  <2>3. ASSUME NEW d \in Conversations, d # c, Verify(d)
        PROVE  verdict'[c] = verdict[c] /\ added'[c] = added[c]
    <3>1. DOMAIN verdict = Conversations /\ DOMAIN added = Conversations
      BY <1>3 DEF TypeOK
    <3>2. (\E x : verdict' = [verdict EXCEPT ![d] = x]) /\ (\E x : added' = [added EXCEPT ![d] = x])
      BY <2>3 DEF Verify
    <3> QED
      BY <3>1, <3>2, <2>3
  <2> QED
    BY <2>1, <2>2, <2>3, AllKept
<1> QED
  BY <1>5 DEF VerdictInv

\* All of it holds: what is minted, discharged and judged keeps fitting
\* together, and a verdict stays one on the macaroons that are there
\* (oven.go, NewMacaroon and VerifyMacaroon; rendezvous.go).
THEOREM Invariant == Spec => []DischargerInv
<1>1. Init => DischargerInv
  <2> SUFFICES ASSUME Init PROVE VerdictInv /\ IdsInv
    BY DischargerInit DEF DischargerInv
  <2>1. \A c \in Conversations : mac[c] = {} /\ verdict[c] = {}
    BY DEF Init
  <2> QED
    BY <2>1 DEF VerdictInv, IdsInv
<1>2. DischargerInv /\ [Next]_vars => DischargerInv'
  <2> SUFFICES ASSUME DischargerInv, [Next]_vars PROVE DischargerInv'
    OBVIOUS
  <2>1. ConversationInv /\ VerdictInv /\ IdsInv
    BY DEF DischargerInv
  <2>2. ConversationInv'
    BY <2>1, DischargerStep
  <2>3. VerdictInv'
    BY <2>1, VerdictsKept
  <2>4. IdsInv'
    BY <2>1, IdsKept
  <2> QED
    BY <2>2, <2>3, <2>4 DEF DischargerInv
<1> QED
  BY <1>1, <1>2, PTL DEF Spec

\* The target finds the root key of every macaroon that it or an earlier
\* release minted, and reads back the operations asked for, whatever their
\* number, order and repetitions (oven.go, macaroonIdOps, decodeMacaroonId).
THEOREM OpsAreReadBack == Spec => []OpsReadBack
<1>1. DischargerInv => OpsReadBack
  BY IdsReadBack DEF DischargerInv
<1> QED
  BY <1>1, Invariant, PTL

-----------------------------------------------------------------------------
(* What a caveat is to the target: its name on the way and the checks.     *)

StdNames == {CondTimeBefore, CondDeclared, CondError}

\* Only a name without a prefix is a single word.
LEMMA SingleWord ==
  ASSUME NEW prefix, IsText(prefix), NEW name, IsText(name), NEW word,
         ConditionWithPrefix(prefix, name) = <<word>>
  PROVE  prefix = <<>> /\ name = <<word>>
<1>1. CASE prefix = <<>>
  BY <1>1 DEF ConditionWithPrefix
<1>2. CASE prefix # <<>>
  <2>1. ConditionWithPrefix(prefix, name) = prefix \o <<":">> \o name
    BY <1>2 DEF ConditionWithPrefix
  <2>2. Len(prefix) \in Nat \ {0} /\ Len(name) \in Nat
    BY <1>2 DEF IsText
  <2>3. Len(prefix \o <<":">> \o name) = Len(prefix) + 1 + Len(name)
    BY DEF IsText
  <2>4. Len(<<word>>) = 1
    OBVIOUS
  <2> QED
    BY <2>1, <2>2, <2>3, <2>4
<1> QED
  BY <1>1, <1>2

LEMMA RegisteredTypes ==
  ASSUME ns \in Namespaces
  PROVE  /\ StdNamespace \in DOMAIN ns
         /\ \A uri \in DOMAIN ns : IsText(ns[uri]) /\ Resolve(ns, uri) = ns[uri]
         /\ \A name \in StdNames : <<StdNamespace, name>> \in RegisteredIn(ns) /\ IsText(name)
         /\ \A check \in RegisteredIn(ns) :
              /\ check[1] \in DOMAIN ns /\ IsText(check[2])
              /\ check = <<check[1], check[2]>>
              /\ check[1] = StdNamespace => check[2] \in StdNames
<1>1. \A uri \in DOMAIN ns : IsText(ns[uri])
  BY DischargerAssumption
<1>2. \A name \in StdNames : <<StdNamespace, name>> \in RegisteredIn(ns)
  BY DEF RegisteredIn, StdCheckers, StdNames
<1>3. \A name \in StdNames : IsText(name)
  <2>1. ASSUME NEW word PROVE IsText(<<word>>)
    <3>1. ToSet(<<word>>) = {word}
      BY DEF ToSet
    <3>2. <<word>> \in Seq({word})
      OBVIOUS
    <3> QED
      BY <3>1, <3>2 DEF IsText
  <2> QED
    BY <2>1 DEF StdNames, CondTimeBefore, CondDeclared, CondError
<1>4. Registrable(ns, RegisteredIn(ns))
  BY DischargerAssumption
<1>5. \A check \in RegisteredIn(ns) : check[1] \in DOMAIN ns
  BY <1>4 DEF Registrable
<1>6. StdNamespace \in DOMAIN ns
  <2>1. <<StdNamespace, CondError>> \in RegisteredIn(ns)
    BY <1>2 DEF StdNames
  <2> QED
    BY <2>1, <1>5
<1>7. ASSUME NEW check \in RegisteredIn(ns)
      PROVE  /\ IsText(check[2])
             /\ check = <<check[1], check[2]>>
             /\ check[1] = StdNamespace => check[2] \in StdNames
  <2>1. CASE check \in StdCheckers
    <3>1. PICK name \in StdNames : check = <<StdNamespace, name>>
      BY <2>1 DEF StdCheckers, StdNames
    <3>2. check[1] = StdNamespace /\ check[2] = name
      BY <3>1
    <3> QED
      BY <3>1, <3>2, <1>3
  <2>2. CASE check \in Own[ns]
    BY <2>2, DischargerAssumption
  <2> QED
    BY <2>1, <2>2 DEF RegisteredIn
<1> QED
  BY <1>1, <1>2, <1>3, <1>5, <1>6, <1>7 DEF Resolve

\* A check whose full name is a standard one's, without a prefix, is it.
LEMMA StdCheckOnly ==
  ASSUME ns \in Namespaces, NEW check \in RegisteredIn(ns), NEW name \in StdNames,
         FullName(ns, check) = name
  PROVE  check = <<StdNamespace, name>> /\ ns[StdNamespace] = <<>>
<1>1. PICK word : name = <<word>>
  <2>1. \E word : CondTimeBefore = <<word>>
    BY DEF CondTimeBefore
  <2>2. \E word : CondDeclared = <<word>>
    BY DEF CondDeclared
  <2>3. \E word : CondError = <<word>>
    BY DEF CondError
  <2> QED
    BY <2>1, <2>2, <2>3 DEF StdNames
<1>2. check[1] \in DOMAIN ns /\ IsText(check[2]) /\ IsText(ns[check[1]])
      /\ Resolve(ns, check[1]) = ns[check[1]]
  BY RegisteredTypes
<1>3. ns[check[1]] = <<>> /\ check[2] = name
  BY <1>1, <1>2, SingleWord DEF FullName
<1>4. Unambiguous(ns, FirstParty(name, <<>>))
  <2>1. <<StdNamespace, name>> \in StdCheckers
    BY DEF StdCheckers, StdNames
  <2>2. <<StdNamespace, name>>[2] = name
    OBVIOUS
  <2> QED
    BY <2>1, <2>2, DischargerAssumption
<1>5. check = <<StdNamespace, name>>
  <2> DEFINE cav == FirstParty(name, <<>>)
  <2>1. cav.ns = StdNamespace /\ cav.name = name /\ cav.ns # NoNamespace
    BY DEF FirstParty, Caveat, StdNamespace, NoNamespace
  <2> HIDE DEF cav
  <2>2. Unambiguous(ns, cav)
    BY <1>4 DEF cav
  <2> QED
    BY <2>1, <2>2 DEF Unambiguous
<1>6. check[1] = StdNamespace
  BY <1>5
<1> QED
  BY <1>3, <1>5, <1>6

LEMMA NamesUnique ==
  ASSUME ns \in Namespaces, NEW a \in RegisteredIn(ns), NEW b \in RegisteredIn(ns),
         FullName(ns, a) = FullName(ns, b)
  PROVE  a = b
<1>1. Registrable(ns, RegisteredIn(ns))
  BY DischargerAssumption
<1> QED
  BY <1>1 DEF Registrable

\* A caveat is for one check at most.
LEMMA OneCheck ==
  ASSUME ns \in Namespaces, NEW cav, NEW a \in ChecksFor(cav), NEW b \in ChecksFor(cav)
  PROVE  a = b
<1>1. CASE cav.ns = NoNamespace
  BY <1>1, NamesUnique DEF ChecksFor
<1>2. CASE cav.ns # NoNamespace
  BY <1>2 DEF ChecksFor
<1> QED
  BY <1>1, <1>2

Sendable(cav) == Writable(cav) /\ Unambiguous(ns, cav)

\* The caveats that the target and the discharger make themselves.
LEMMA StdSendable ==
  ASSUME ns \in Namespaces, NEW name \in StdNames, NEW arg,
         name = CondTimeBefore => arg \in Seq(Nat) /\ Len(arg) <= 1
  PROVE  Sendable(FirstParty(name, arg))
<1> DEFINE cav == FirstParty(name, arg)
<1>1. cav.ns = StdNamespace /\ cav.name = name /\ cav.arg = arg
  BY DEF FirstParty, Caveat
<1>2. IsText(name) /\ <<StdNamespace, name>> \in RegisteredIn(ns)
  BY RegisteredTypes
<1> HIDE DEF cav
<1>3. Writable(cav)
  BY <1>1, <1>2 DEF Writable
<1>4. ASSUME NEW check \in RegisteredIn(ns), FullName(ns, check) = FullName(ns, <<cav.ns, cav.name>>)
      PROVE  check = <<cav.ns, cav.name>>
  BY <1>1, <1>2, <1>4, NamesUnique
<1>5. ASSUME NEW check \in RegisteredIn(ns), FullName(ns, check) = cav.name
      PROVE  check = <<cav.ns, cav.name>>
  BY <1>1, <1>5, StdCheckOnly
<1>6. Unambiguous(ns, cav)
  BY <1>4, <1>5 DEF Unambiguous
<1> QED
  BY <1>3, <1>6 DEF Sendable, cav

\* What becomes of a caveat that goes through the target's namespace, or
\* through the legacy one.
Delivered(cav, cond) == cond = ResolveCaveat(ns, cav) \/ cond = ResolveCaveat(LegacyNamespace, cav)

LEMMA DeliveredForms ==
  ASSUME ns \in Namespaces, NEW cav, NEW cond, Delivered(cav, cond)
  PROVE  \/ /\ cond = Condition(cav.name, cav.arg)
            /\ cav.ns \in {NoNamespace, StdNamespace}
         \/ /\ cond = Condition(FullName(ns, <<cav.ns, cav.name>>), cav.arg)
            /\ cav.ns \in DOMAIN ns /\ cav.ns # NoNamespace
         \/ cond = Condition(FullName(ns, <<StdNamespace, CondError>>), <<>>)
         \/ cond = Condition(CondError, <<>>)
<1>1. CASE cav.ns = NoNamespace
  <2>1. cond = Condition(cav.name, cav.arg)
    BY <1>1 DEF Delivered, ResolveCaveat
  <2> QED
    BY <1>1, <2>1
<1>2. CASE cav.ns # NoNamespace /\ cond = ResolveCaveat(ns, cav)
  <2>1. CASE cav.ns \in DOMAIN ns
    <3>1. cond = Condition(ConditionWithPrefix(Resolve(ns, cav.ns), cav.name), cav.arg)
      BY <1>2, <2>1 DEF ResolveCaveat
    <3>2. FullName(ns, <<cav.ns, cav.name>>) = ConditionWithPrefix(Resolve(ns, cav.ns), cav.name)
      BY DEF FullName
    <3> QED
      BY <1>2, <2>1, <3>1, <3>2
  <2>2. CASE cav.ns \notin DOMAIN ns
    <3>1. ErrorCaveat.ns = StdNamespace /\ ErrorCaveat.name = CondError /\ ErrorCaveat.arg = <<>>
      BY DEF ErrorCaveat, FirstParty, Caveat
    <3>2. cond = Condition(ConditionWithPrefix(Resolve(ns, ErrorCaveat.ns), ErrorCaveat.name), ErrorCaveat.arg)
      BY <1>2, <2>2 DEF ResolveCaveat
    <3>3. FullName(ns, <<StdNamespace, CondError>>) = ConditionWithPrefix(Resolve(ns, StdNamespace), CondError)
      BY DEF FullName
    <3> QED
      BY <3>1, <3>2, <3>3
  <2> QED
    BY <2>1, <2>2
<1>3. CASE cav.ns # NoNamespace /\ cond = ResolveCaveat(LegacyNamespace, cav)
  <2>1. DOMAIN LegacyNamespace = {StdNamespace} /\ LegacyNamespace[StdNamespace] = <<>>
    BY DEF LegacyNamespace
  <2>2. \A name : ConditionWithPrefix(Resolve(LegacyNamespace, StdNamespace), name) = name
    BY <2>1 DEF Resolve, ConditionWithPrefix
  <2>3. CASE cav.ns = StdNamespace
    <3>1. cond = Condition(ConditionWithPrefix(Resolve(LegacyNamespace, cav.ns), cav.name), cav.arg)
      BY <1>3, <2>1, <2>3 DEF ResolveCaveat
    <3> QED
      BY <2>2, <2>3, <3>1
  <2>4. CASE cav.ns # StdNamespace
    <3>1. ErrorCaveat.ns = StdNamespace /\ ErrorCaveat.name = CondError /\ ErrorCaveat.arg = <<>>
      BY DEF ErrorCaveat, FirstParty, Caveat
    <3>2. cond = Condition(ConditionWithPrefix(Resolve(LegacyNamespace, ErrorCaveat.ns), ErrorCaveat.name),
                           ErrorCaveat.arg)
      BY <1>3, <2>1, <2>4 DEF ResolveCaveat
    <3> QED
      BY <2>2, <3>1, <3>2
  <2> QED
    BY <2>3, <2>4
<1> QED
  BY <1>1, <1>2, <1>3 DEF Delivered

\* The check that the target finds for a condition, unless it is the one for
\* errors, is one that the caveat is for.
LEMMA DeliveredCheck ==
  ASSUME ns \in Namespaces, NEW cav, Sendable(cav), NEW cond, Delivered(cav, cond),
         NEW check \in RegisteredIn(ns), FullName(ns, check) = cond.name,
         check # <<StdNamespace, CondError>>
  PROVE  check \in ChecksFor(cav) /\ cond.arg = cav.arg
<1>1. Unambiguous(ns, cav)
  BY DEF Sendable
<1>2. \A name, arg : Condition(name, arg).name = name /\ Condition(name, arg).arg = arg
  BY DEF Condition
<1>3. CASE cond = Condition(cav.name, cav.arg) /\ cav.ns = NoNamespace
  BY <1>2, <1>3 DEF ChecksFor
<1>4. CASE cond = Condition(cav.name, cav.arg) /\ cav.ns = StdNamespace
  <2>1. cav.ns # NoNamespace
    BY <1>4 DEF StdNamespace, NoNamespace
  <2>2. check = <<cav.ns, cav.name>>
    BY <1>1, <1>2, <1>4, <2>1 DEF Unambiguous
  <2> QED
    BY <1>2, <1>4, <2>1, <2>2 DEF ChecksFor
<1>5. CASE /\ cond = Condition(FullName(ns, <<cav.ns, cav.name>>), cav.arg)
           /\ cav.ns \in DOMAIN ns /\ cav.ns # NoNamespace
  <2>1. check = <<cav.ns, cav.name>>
    BY <1>1, <1>2, <1>5 DEF Unambiguous
  <2> QED
    BY <1>2, <1>5, <2>1 DEF ChecksFor
<1>6. CASE cond = Condition(FullName(ns, <<StdNamespace, CondError>>), <<>>)
  <2>1. <<StdNamespace, CondError>> \in RegisteredIn(ns)
    BY RegisteredTypes DEF StdNames
  <2> QED
    BY <1>2, <1>6, <2>1, NamesUnique
<1>7. CASE cond = Condition(CondError, <<>>)
  <2>1. CondError \in StdNames
    BY DEF StdNames
  <2> QED
    BY <1>2, <1>7, <2>1, StdCheckOnly
<1> QED
  BY <1>3, <1>4, <1>5, <1>6, <1>7, DeliveredForms

-----------------------------------------------------------------------------
(* The caveats and the conditions that a verdict is on.                    *)

\* The discharger's caveats are those given, and then a declaration of each
\* key that they leave out.
Completion(all, keys, caveats, n) ==
  /\ DOMAIN all = 1..n /\ DOMAIN caveats \subseteq 1..n
  /\ \A j \in DOMAIN caveats : all[j] = caveats[j]
  /\ \A j \in (1..n) \ DOMAIN caveats : \E key : all[j] = DeclaredCaveat(key, NoValue)
  /\ \A k \in DOMAIN keys :
       \/ \E i \in DOMAIN caveats : Declares(caveats[i], keys[k])
       \/ \E j \in 1..n : all[j] = DeclaredCaveat(keys[k], NoValue)

LEMMA NeedDeclaredElements ==
  ASSUME NEW S, NEW T, NEW keys \in Seq(S), NEW caveats \in Seq(T)
  PROVE  \E n \in Nat : Completion(NeedDeclared(keys, caveats), keys, caveats, n)
<1> DEFINE Undeclared(key) == \A i \in DOMAIN caveats : ~Declares(caveats[i], key)
           K == {j \in DOMAIN keys : Undeclared(keys[j])}
           missing == Subsequence(keys, K)
           made == [i \in DOMAIN missing |-> DeclaredCaveat(missing[i], NoValue)]
           m == Len(caveats)
           q == Cardinality(K)
           all == NeedDeclared(keys, caveats)
<1>1. all = caveats \o made
  BY DEF NeedDeclared
<1>2. K \in SUBSET (DOMAIN keys)
  OBVIOUS
<1>3. q \in Nat /\ missing \in Seq(S) /\ Len(missing) = q
      /\ \A i \in K : \E j \in 1..q : missing[j] = keys[i]
  <2> HIDE DEF K
  <2>1. Cardinality(K) \in Nat
    BY <1>2, SubsequencePlaces
  <2>2. Subsequence(keys, K) \in Seq(S) /\ Len(Subsequence(keys, K)) = Cardinality(K)
    BY <1>2, SubsequencePlaces
  <2>3. \E g \in [1..Cardinality(K) -> K] :
          /\ \A j \in 1..Cardinality(K) : Subsequence(keys, K)[j] = keys[g[j]]
          /\ \A j, k \in 1..Cardinality(K) : g[j] = g[k] => j = k
          /\ \A i \in K : \E j \in 1..Cardinality(K) : g[j] = i
          /\ 1 \in K => 1 \in 1..Cardinality(K) /\ g[1] = 1
    BY <1>2, SubsequencePlaces
  <2> QED
    BY <2>1, <2>2, <2>3
<1> HIDE DEF K, missing, q
<1>4. made = [i \in 1..q |-> DeclaredCaveat(missing[i], NoValue)] /\ DOMAIN missing = 1..q
  BY <1>3
<1> DEFINE Made == {DeclaredCaveat(missing[i], NoValue) : i \in 1..q}
<1>5. made \in Seq(Made) /\ Len(made) = q
  BY <1>3, <1>4
<1>6. m \in Nat /\ DOMAIN caveats = 1..m
  OBVIOUS
<1> HIDE DEF made, m, all, Made
<1>7. /\ DOMAIN (caveats \o made) = 1..(m + q)
      /\ \A j \in 1..m : (caveats \o made)[j] = caveats[j]
      /\ \A j \in 1..q : m + j \in 1..(m + q) /\ (caveats \o made)[m + j] = made[j]
  <2>1. caveats \in Seq(T \cup Made) /\ made \in Seq(T \cup Made) /\ Len(caveats) = m
    BY <1>5 DEF m
  <2> QED
    BY <2>1, <1>3, <1>5, <1>6
<1>8. /\ DOMAIN all = 1..(m + q) /\ m + q \in Nat
      /\ \A j \in 1..m : all[j] = caveats[j]
      /\ \A j \in 1..q : m + j \in 1..(m + q) /\ all[m + j] = DeclaredCaveat(missing[j], NoValue)
  <2>1. m + q \in Nat
    BY <1>3, <1>6
  <2>2. DOMAIN all = 1..(m + q) /\ \A j \in 1..m : all[j] = caveats[j]
    BY <1>1, <1>7
  <2>3. ASSUME NEW j \in 1..q
        PROVE  m + j \in 1..(m + q) /\ all[m + j] = DeclaredCaveat(missing[j], NoValue)
    <3>1. made[j] = DeclaredCaveat(missing[j], NoValue)
      BY <1>4
    <3> QED
      BY <3>1, <1>1, <1>7
  <2> QED
    BY <2>1, <2>2, <2>3
<1>9. ASSUME NEW j \in 1..(m + q), j \notin 1..m
      PROVE  \E key : all[j] = DeclaredCaveat(key, NoValue)
  <2>1. j - m \in 1..q /\ m + (j - m) = j
    BY <1>3, <1>6, <1>9
  <2> QED
    BY <2>1, <1>8
<1>10. ASSUME NEW k \in DOMAIN keys, \A i \in DOMAIN caveats : ~Declares(caveats[i], keys[k])
       PROVE  \E j \in 1..(m + q) : all[j] = DeclaredCaveat(keys[k], NoValue)
  <2>1. k \in K
    BY <1>10 DEF K
  <2> QED
    BY <2>1, <1>3, <1>8
<1>11. 1..m \subseteq 1..(m + q)
  BY <1>3, <1>6
<1> QED
  <2>1. Completion(all, keys, caveats, m + q)
    BY <1>6, <1>8, <1>9, <1>10, <1>11 DEF Completion
  <2> QED
    BY <2>1, <1>8 DEF all

\* The caveat that the target itself puts on a macaroon.
LEMMA HeldExpiry ==
  ASSUME TypeOK, MintedInv, NEW c \in Conversations, mac[c] # {}
  PROVE  The(mac[c]).caveats = <<ResolveCaveat(ns, TimeBeforeCaveat(Expiry))>>
<1>1. PICK m : m \in mac[c]
  OBVIOUS
<1>2. AtMostOne(mac[c]) /\ party \in 1..LatestVersion
  BY DEF TypeOK
<1>3. The(mac[c]) = m
  BY <1>1, <1>2, TheOnly
<1>4. PICK version \in 0..LatestVersion, third \in 1..party, keys \in Needs[c] :
        m = NewMacaroon(c, m.id, version, third, keys)
  BY <1>1 DEF MintedInv, Minted
<1>5. third \in 1..LatestVersion
  BY <1>2 DEF LatestVersion
<1> DEFINE id == m.id
<1>6. m = NewMacaroon(c, id, version, third, keys)
  BY <1>4
<1> HIDE DEF id
<1>7. m.caveats = <<ResolveCaveat(ns, TimeBeforeCaveat(Expiry))>>
  BY <1>5, <1>6, MintedMacaroon
<1> QED
  BY <1>3, <1>7

\* They are made as a function.
LEMMA NeedDeclaredMade ==
  ASSUME NEW S, NEW T, NEW keys \in Seq(S), NEW caveats \in Seq(T)
  PROVE  NeedDeclared(keys, caveats) = [j \in DOMAIN NeedDeclared(keys, caveats) |-> NeedDeclared(keys, caveats)[j]]
BY DEF NeedDeclared

LEMMA Prepended ==
  ASSUME NEW S, NEW s \in Seq(S), NEW n, Len(s) = n, NEW x
  PROVE  /\ <<x>> \o s \in Seq({x} \cup S) /\ Len(<<x>> \o s) = n + 1
         /\ (<<x>> \o s)[1] = x
         /\ \A j \in 1..n : (<<x>> \o s)[j + 1] = s[j]
OBVIOUS

LEMMA Appended ==
  ASSUME NEW S, NEW s \in Seq(S), NEW n, Len(s) = n, NEW b \in Seq(S), NEW k, Len(b) = k
  PROVE  /\ DOMAIN (s \o b) = 1..(n + k)
         /\ \A j \in 1..n : (s \o b)[j] = s[j]
         /\ \A j \in 1..k : (s \o b)[n + j] = b[j]
OBVIOUS

LEMMA AddedSendable ==
  ASSUME ns \in Namespaces, NEW c \in Conversations, NEW caveats \in Additions[c] \cup {<<>>}
  PROVE  caveats \in Seq(ToSet(caveats)) /\ \A i \in DOMAIN caveats : Sendable(caveats[i])
<1>1. CASE caveats = <<>>
  BY <1>1
<1>2. CASE caveats \in Additions[c]
  <2>1. /\ caveats \in Seq(ToSet(caveats))
        /\ \A i \in DOMAIN caveats : Writable(caveats[i]) /\ caveats[i].ns = NoNamespace
    BY <1>2, DischargerAssumption
  <2>2. ASSUME NEW i \in DOMAIN caveats PROVE Unambiguous(ns, caveats[i])
    BY <2>1 DEF Unambiguous
  <2> QED
    BY <2>1, <2>2 DEF Sendable
<1> QED
  BY <1>1, <1>2

LEMMA RepliesSendable ==
  ASSUME ns \in Namespaces, NEW caveats \in Replies, NEW i \in DOMAIN caveats
  PROVE  Sendable(caveats[i])
<1>1. caveats # <<>>
  OBVIOUS
<1>2. PICK c \in Conversations : caveats \in Answers[c]
  BY <1>1 DEF Replies
<1> QED
  BY <1>2, DischargerAssumption DEF Sendable

\* A verdict is on conditions of which each is what became of one caveat.
Judgement(c, n) ==
  /\ DOMAIN CaveatsOf(c) = 1..n /\ DOMAIN Conditions(c) = 1..n
  /\ \A j \in 1..n :
       /\ Sendable(CaveatsOf(c)[j])
       /\ \/ Conditions(c)[j] = ResolveCaveat(ns, CaveatsOf(c)[j])
          \/ ViaLegacy(c) /\ Conditions(c)[j] = ResolveCaveat(LegacyNamespace, CaveatsOf(c)[j])

LEMMA Judged ==
  ASSUME ConversationInv, NEW c \in Conversations, dm[c] # {}
  PROVE  /\ \E n \in Nat : Judgement(c, n)
         /\ \A i \in DOMAIN The(told[c]).caveats :
              \E j \in DOMAIN CaveatsOf(c) : CaveatsOf(c)[j] = The(told[c]).caveats[i]
         /\ \A k \in DOMAIN Keys(c) :
              \/ \E i \in DOMAIN The(told[c]).caveats : Declares(The(told[c]).caveats[i], Keys(c)[k])
              \/ \E j \in DOMAIN CaveatsOf(c) : CaveatsOf(c)[j] = DeclaredCaveat(Keys(c)[k], NoValue)
<1>1. TypeOK /\ MintedInv /\ WaitingInv /\ DischargeJustified
  BY DEF ConversationInv
<1>2. mac[c] # {} /\ ns \in Namespaces
  BY <1>1 DEF TypeOK
<1>3. PICK i \in DOMAIN waiting : JustifiedBy(c, i)
  BY <1>1 DEF DischargeJustified
<1> DEFINE replied == waiting[i].caveats
           given == NeedDeclared(Keys(c), replied)
           namespace == IF ViaLegacy(c) THEN LegacyNamespace ELSE ns
           first == TimeBeforeCaveat(Expiry)
           conds == [j \in DOMAIN given |-> ResolveCaveat(namespace, given[j])]
           extra == added[c]
           extraConds == [j \in DOMAIN extra |-> ResolveCaveat(ns, extra[j])]
           made == <<first>> \o given
           had == <<ResolveCaveat(ns, first)>> \o conds
<1>4. The(told[c]).caveats = replied
  <2>1. The(told[c]) = Outcome(i)
    BY <1>3, TheOfOne DEF JustifiedBy
  <2> QED
    BY <2>1 DEF Outcome
<1>5. replied \in Replies
  BY WaitingType DEF Future
<1>6. replied \in Seq(ToSet(replied)) /\ Keys(c) \in Seq(ToSet(Keys(c)))
  BY <1>1, <1>2, <1>5, RepliesAreSequences, HeldCaveatDecodes, NeedsAreSequences
<1>7. PICK n \in Nat : Completion(given, Keys(c), replied, n)
  <2> DEFINE keys == Keys(c)
             S == ToSet(Keys(c))
             T == ToSet(replied)
  <2>1. keys \in Seq(S) /\ replied \in Seq(T)
    BY <1>6
  <2> HIDE DEF replied, keys, S, T
  <2>2. \E n \in Nat : Completion(NeedDeclared(keys, replied), keys, replied, n)
    BY <2>1, NeedDeclaredElements
  <2> QED
    BY <2>2 DEF keys
<1> HIDE DEF given, replied
<1>20. /\ DOMAIN given = 1..n /\ DOMAIN replied \subseteq 1..n
       /\ \A j \in DOMAIN replied : given[j] = replied[j]
       /\ \A j \in (1..n) \ DOMAIN replied : \E key : given[j] = DeclaredCaveat(key, NoValue)
       /\ \A k \in DOMAIN Keys(c) :
            \/ \E j \in DOMAIN replied : Declares(replied[j], Keys(c)[k])
            \/ \E j \in 1..n : given[j] = DeclaredCaveat(Keys(c)[k], NoValue)
  BY <1>7 DEF Completion
<1>8. CaveatsOf(c) = made \o extra
  BY <1>4 DEF CaveatsOf, given
<1>9. Conditions(c) = had \o extraConds
  <2>1. The(mac[c]).caveats = <<ResolveCaveat(ns, first)>>
    BY <1>1, <1>2, HeldExpiry
  <2>2. The(dm[c]).caveats = conds
    BY <1>3 DEF JustifiedBy, given, replied
  <2> QED
    BY <2>1, <2>2 DEF Conditions, Shown
<1>10. \A j \in 1..n : Sendable(given[j])
  <2>1. ASSUME NEW j \in DOMAIN replied PROVE Sendable(replied[j])
    BY <1>2, <1>5, RepliesSendable
  <2>2. ASSUME NEW key PROVE Sendable(DeclaredCaveat(key, NoValue))
    <3>1. CondDeclared \in StdNames /\ CondDeclared # CondTimeBefore
      BY DEF StdNames, CondDeclared, CondTimeBefore
    <3> QED
      BY <1>2, <3>1, StdSendable DEF DeclaredCaveat
  <2> QED
    BY <1>20, <2>1, <2>2
<1>11. Sendable(first)
  <2>1. CondTimeBefore \in StdNames
    BY DEF StdNames
  <2>2. Expiry \in Nat
    BY CheckersAssumption DEF Expiry
  <2>3. <<Expiry>> \in Seq(Nat) /\ Len(<<Expiry>>) <= 1
    BY <2>2
  <2> QED
    BY <1>2, <2>1, <2>3, StdSendable DEF TimeBeforeCaveat
<1>12. \A j \in 1..n : conds[j] = ResolveCaveat(namespace, given[j])
  BY <1>20
<1>13. DOMAIN conds = 1..n
  BY <1>20
<1>14. namespace = ns \/ (ViaLegacy(c) /\ namespace = LegacyNamespace)
  <2>1. ViaLegacy(c) \in BOOLEAN
    BY DEF ViaLegacy
  <2>2. ASSUME ViaLegacy(c) PROVE namespace = LegacyNamespace
    BY <2>2, Zenon
  <2>3. ASSUME ~ViaLegacy(c) PROVE namespace = ns
    BY <2>3, Zenon
  <2> HIDE DEF namespace
  <2> QED
    BY <2>1, <2>2, <2>3
<1>15. conds = [j \in 1..n |-> conds[j]] /\ given = [j \in 1..n |-> given[j]]
  <2>1. given = [j \in DOMAIN given |-> given[j]]
    BY <1>6, NeedDeclaredMade DEF given
  <2> QED
    BY <1>20, <2>1
<1> HIDE DEF conds, namespace, first
<1>16. /\ made \in Seq({first} \cup {given[j] : j \in 1..n}) /\ Len(made) = n + 1
       /\ had \in Seq({ResolveCaveat(ns, first)} \cup {conds[j] : j \in 1..n}) /\ Len(had) = n + 1
       /\ made[1] = first /\ had[1] = ResolveCaveat(ns, first)
       /\ \A j \in 1..n : made[j + 1] = given[j] /\ had[j + 1] = conds[j]
  <2>1. conds \in Seq({conds[j] : j \in 1..n}) /\ Len(conds) = n
    BY <1>15
  <2>2. given \in Seq({given[j] : j \in 1..n}) /\ Len(given) = n
    BY <1>15
  <2>3. /\ made \in Seq({first} \cup {given[j] : j \in 1..n}) /\ Len(made) = n + 1
        /\ made[1] = first
        /\ \A j \in 1..n : made[j + 1] = given[j]
    BY <2>2, Prepended
  <2> DEFINE x == ResolveCaveat(ns, first)
  <2>4. /\ <<x>> \o conds \in Seq({x} \cup {conds[j] : j \in 1..n}) /\ Len(<<x>> \o conds) = n + 1
        /\ (<<x>> \o conds)[1] = x
        /\ \A j \in 1..n : (<<x>> \o conds)[j + 1] = conds[j]
    <3> HIDE DEF x
    <3> QED
      BY <2>1, Prepended
  <2> QED
    BY <2>3, <2>4
<1>17. ASSUME NEW j \in 1..(n + 1), j # 1 PROVE j - 1 \in 1..n /\ (j - 1) + 1 = j
  BY <1>7, <1>17
<1> HIDE DEF made, had
<1>25. ASSUME NEW j \in 1..(n + 1)
       PROVE  /\ Sendable(made[j])
              /\ had[j] = ResolveCaveat(ns, made[j]) \/ (ViaLegacy(c) /\ had[j] = ResolveCaveat(LegacyNamespace, made[j]))
  <2>1. CASE j = 1
    BY <2>1, <1>11, <1>16
  <2>2. CASE j # 1
    <3>1. made[j] = given[j - 1] /\ had[j] = conds[j - 1] /\ j - 1 \in 1..n
      BY <2>2, <1>16, <1>17
    <3> QED
      BY <3>1, <1>10, <1>12, <1>14
  <2> QED
    BY <2>1, <2>2
<1> DEFINE k == Len(extra)
           m == n + 1
<1>26. m \in Nat /\ k \in Nat /\ extra \in Seq(ToSet(extra)) /\ DOMAIN extra = 1..k
       /\ \A j \in 1..k : Sendable(extra[j])
  <2>1. extra \in Additions[c] \cup {<<>>}
    BY <1>1 DEF TypeOK
  <2>2. extra \in Seq(ToSet(extra)) /\ \A j \in DOMAIN extra : Sendable(extra[j])
    BY <2>1, <1>2, AddedSendable
  <2> QED
    BY <2>2, <1>7
<1>27. /\ extraConds \in Seq({extraConds[j] : j \in 1..k}) /\ Len(extraConds) = k
       /\ \A j \in 1..k : extraConds[j] = ResolveCaveat(ns, extra[j])
  <2> HIDE DEF extra, k
  <2>1. extraConds = [j \in 1..k |-> ResolveCaveat(ns, extra[j])]
    BY <1>26
  <2>2. \A j \in 1..k : extraConds[j] = ResolveCaveat(ns, extra[j])
    BY <2>1
  <2>3. extraConds = [j \in 1..k |-> extraConds[j]]
    BY <2>1
  <2> HIDE DEF extraConds
  <2> QED
    BY <2>2, <2>3, <1>26
<1> HIDE DEF extra, extraConds, k
<1>28. /\ DOMAIN CaveatsOf(c) = 1..(m + k)
       /\ \A j \in 1..m : CaveatsOf(c)[j] = made[j]
       /\ \A j \in 1..k : CaveatsOf(c)[m + j] = extra[j]
  <2> DEFINE S == {first} \cup {given[j] : j \in 1..n} \cup ToSet(extra)
  <2>1. made \in Seq(S) /\ extra \in Seq(S) /\ Len(made) = m /\ Len(extra) = k
    BY <1>16, <1>26 DEF k
  <2> HIDE DEF S, m
  <2> QED
    BY <2>1, <1>8, Appended
<1>29. /\ DOMAIN Conditions(c) = 1..(m + k)
       /\ \A j \in 1..m : Conditions(c)[j] = had[j]
       /\ \A j \in 1..k : Conditions(c)[m + j] = extraConds[j]
  <2> DEFINE S == {ResolveCaveat(ns, first)} \cup {conds[j] : j \in 1..n} \cup {extraConds[j] : j \in 1..k}
  <2>1. had \in Seq(S) /\ extraConds \in Seq(S) /\ Len(had) = m /\ Len(extraConds) = k
    BY <1>16, <1>27
  <2> HIDE DEF S, m
  <2> QED
    BY <2>1, <1>9, Appended
<1>18. Judgement(c, m + k)
  <2>1. ASSUME NEW j \in 1..(m + k)
        PROVE  /\ Sendable(CaveatsOf(c)[j])
               /\ \/ Conditions(c)[j] = ResolveCaveat(ns, CaveatsOf(c)[j])
                  \/ ViaLegacy(c) /\ Conditions(c)[j] = ResolveCaveat(LegacyNamespace, CaveatsOf(c)[j])
    <3>1. CASE j \in 1..m
      <4>1. CaveatsOf(c)[j] = made[j] /\ Conditions(c)[j] = had[j]
        BY <3>1, <1>28, <1>29
      <4> QED
        BY <3>1, <4>1, <1>25
    <3>2. CASE j \notin 1..m
      <4>1. j - m \in 1..k /\ m + (j - m) = j
        BY <3>2, <1>26
      <4>2. CaveatsOf(c)[j] = extra[j - m] /\ Conditions(c)[j] = extraConds[j - m]
        BY <4>1, <1>28, <1>29
      <4> QED
        BY <4>1, <4>2, <1>26, <1>27
    <3> QED
      BY <3>1, <3>2
  <2> HIDE DEF m
  <2> QED
    BY <2>1, <1>28, <1>29 DEF Judgement
<1>19. ASSUME NEW j \in 1..n PROVE j + 1 \in DOMAIN CaveatsOf(c) /\ CaveatsOf(c)[j + 1] = given[j]
  <2>1. j + 1 \in 1..m /\ j + 1 \in 1..(m + k)
    BY <1>7, <1>26
  <2>2. made[j + 1] = given[j]
    BY <1>16
  <2> QED
    BY <2>1, <2>2, <1>28
<1>21. \E j \in Nat : Judgement(c, j)
  <2>1. m + k \in Nat
    BY <1>26
  <2> QED
    BY <2>1, <1>18, Zenon
<1>22. ASSUME NEW j \in DOMAIN replied
       PROVE  \E l \in DOMAIN CaveatsOf(c) : CaveatsOf(c)[l] = replied[j]
  <2>1. j \in 1..n
    BY <1>20
  <2>2. j + 1 \in DOMAIN CaveatsOf(c) /\ CaveatsOf(c)[j + 1] = given[j]
    BY <2>1, <1>19
  <2>3. given[j] = replied[j]
    BY <1>20
  <2> QED
    BY <2>2, <2>3
<1>23. ASSUME NEW l \in DOMAIN Keys(c)
       PROVE  \/ \E j \in DOMAIN replied : Declares(replied[j], Keys(c)[l])
              \/ \E j \in DOMAIN CaveatsOf(c) : CaveatsOf(c)[j] = DeclaredCaveat(Keys(c)[l], NoValue)
  <2>1. CASE \E j \in DOMAIN replied : Declares(replied[j], Keys(c)[l])
    BY <2>1, Zenon
  <2>2. CASE \E j \in 1..n : given[j] = DeclaredCaveat(Keys(c)[l], NoValue)
    <3>1. PICK j \in 1..n : given[j] = DeclaredCaveat(Keys(c)[l], NoValue)
      BY <2>2, Zenon
    <3>2. j + 1 \in DOMAIN CaveatsOf(c) /\ CaveatsOf(c)[j + 1] = given[j]
      BY <1>19
    <3> QED
      BY <3>1, <3>2, Zenon
  <2> QED
    BY <2>1, <2>2, <1>20, Zenon
<1>24. The(told[c]).caveats = replied
  BY <1>4
<1> QED
  BY <1>21, <1>22, <1>23, <1>24, Zenon

-----------------------------------------------------------------------------
(* What an allowed request says of the caveats.                            *)

\* Each condition is what became of one caveat, on either way.
Matched(cavs, conds, n) ==
  /\ DOMAIN cavs = 1..n /\ DOMAIN conds = 1..n
  /\ \A j \in 1..n : Sendable(cavs[j]) /\ Delivered(cavs[j], conds[j])

\* A check that accepts.
Accepts(check, conds, now, arg) ==
  check[1] = StdNamespace =>
    \/ check[2] = CondDeclared /\ CheckDeclared(ns, conds, arg)
    \/ check[2] = CondTimeBefore /\ CheckTimeBefore(now, arg)

LEMMA ErrorNeverAccepts ==
  ASSUME NEW conds, NEW now, NEW arg
  PROVE  ~Accepts(<<StdNamespace, CondError>>, conds, now, arg)
<1>1. CondError # CondDeclared /\ CondError # CondTimeBefore
  BY DEF CondError, CondDeclared, CondTimeBefore
<1> QED
  BY <1>1 DEF Accepts

LEMMA AllowedCheck ==
  ASSUME ns \in Namespaces, NEW cavs, NEW conds, NEW n, Matched(cavs, conds, n),
         NEW now, Holds(conds, now), NEW j \in 1..n
  PROVE  \E check \in ChecksFor(cavs[j]) : Accepts(check, conds, now, cavs[j].arg)
<1>1. Sendable(cavs[j]) /\ Delivered(cavs[j], conds[j]) /\ j \in DOMAIN conds
  BY DEF Matched
<1>2. CheckFirstPartyCaveat(ns, RegisteredIn(ns), conds, now, conds[j])
  BY <1>1 DEF Holds
<1>3. PICK check \in RegisteredIn(ns) :
        FullName(ns, check) = conds[j].name /\ Accepts(check, conds, now, conds[j].arg)
  BY <1>2 DEF CheckFirstPartyCaveat, Accepts
<1>4. check # <<StdNamespace, CondError>>
  BY <1>3, ErrorNeverAccepts
<1>5. check \in ChecksFor(cavs[j]) /\ conds[j].arg = cavs[j].arg
  BY <1>1, <1>3, <1>4, DeliveredCheck
<1> QED
  BY <1>3, <1>5

LEMMA AllowedDeclares ==
  ASSUME ns \in Namespaces, NEW cavs, NEW conds, NEW n, Matched(cavs, conds, n),
         NEW now, Holds(conds, now), NEW j \in 1..n,
         <<StdNamespace, CondDeclared>> \in ChecksFor(cavs[j])
  PROVE  CheckDeclared(ns, conds, cavs[j].arg)
<1>1. PICK check \in ChecksFor(cavs[j]) : Accepts(check, conds, now, cavs[j].arg)
  BY AllowedCheck
<1>2. check = <<StdNamespace, CondDeclared>>
  BY OneCheck
<1>3. CondDeclared # CondTimeBefore
  BY DEF CondDeclared, CondTimeBefore
<1> QED
  BY <1>1, <1>2, <1>3 DEF Accepts

\* Whatever value a caveat gives a key is the one that the target infers.
LEMMA AllowedValues ==
  ASSUME ns \in Namespaces, NEW cavs, NEW conds, NEW n, Matched(cavs, conds, n),
         NEW now, Holds(conds, now), NEW key, NEW value \in Values(cavs, key)
  PROVE  key \in DOMAIN InferDeclared(ns, conds) /\ InferDeclared(ns, conds)[key] = value
<1>1. PICK j \in DOMAIN cavs :
        /\ <<StdNamespace, CondDeclared>> \in ChecksFor(cavs[j])
        /\ Len(cavs[j].arg) = 2 /\ cavs[j].arg[1] = key /\ value = cavs[j].arg[2]
  BY DEF Values
<1>2. j \in 1..n
  BY DEF Matched
<1>3. CheckDeclared(ns, conds, cavs[j].arg)
  BY <1>1, <1>2, AllowedDeclares
<1> QED
  BY <1>1, <1>3 DEF CheckDeclared

LEMMA AllowedMeant ==
  ASSUME ns \in Namespaces, NEW cavs, NEW conds, NEW n, Matched(cavs, conds, n),
         NEW now, Holds(conds, now)
  PROVE  AllMeant(cavs, now)
<1> SUFFICES ASSUME NEW j \in DOMAIN cavs PROVE Meant(cavs[j], cavs, now)
  BY DEF AllMeant
<1>1. j \in 1..n
  BY DEF Matched
<1>2. PICK check \in ChecksFor(cavs[j]) : Accepts(check, conds, now, cavs[j].arg)
  BY <1>1, AllowedCheck
<1>3. CASE check[1] # StdNamespace
  BY <1>2, <1>3 DEF Meant
<1>4. CASE check[1] = StdNamespace /\ check[2] = CondTimeBefore /\ CheckTimeBefore(now, cavs[j].arg)
  BY <1>2, <1>4 DEF Meant
<1>5. CASE check[1] = StdNamespace /\ check[2] = CondDeclared /\ CheckDeclared(ns, conds, cavs[j].arg)
  <2> DEFINE key == cavs[j].arg[1]
             value == cavs[j].arg[2]
  <2>1. Len(cavs[j].arg) = 2
    BY <1>5 DEF CheckDeclared
  <2>2. check \in RegisteredIn(ns)
    BY <1>2 DEF ChecksFor
  <2>3. check = <<check[1], check[2]>>
    BY <2>2, RegisteredTypes
  <2>4. <<StdNamespace, CondDeclared>> \in ChecksFor(cavs[j])
    BY <1>2, <1>5, <2>3
  <2>5. value \in Values(cavs, key)
    BY <2>1, <2>4 DEF Values
  <2> HIDE DEF key, value
  <2>6. \A v \in Values(cavs, key) : v = value
    BY <2>5, AllowedValues
  <2>7. Values(cavs, key) = {value}
    BY <2>5, <2>6
  <2> QED
    BY <1>2, <1>5, <2>1, <2>7 DEF Meant, key, value
<1> QED
  BY <1>2, <1>3, <1>4, <1>5 DEF Accepts

-----------------------------------------------------------------------------
(* The converse, where the standard prefix is the empty one.               *)

DeclaredValues(conds, key) == {d.arg[2] : d \in {e \in Declarations(ns, conds) : e.arg[1] = key}}

\* What the target infers for a key that all declarations give one value.
LEMMA Inferred ==
  ASSUME NEW conds, NEW key, NEW value, DeclaredValues(conds, key) = {value}
  PROVE  key \in DOMAIN InferDeclared(ns, conds) /\ InferDeclared(ns, conds)[key] = value
<1> DEFINE D == Declarations(ns, conds)
           values(k) == {d.arg[2] : d \in {e \in D : e.arg[1] = k}}
           keys == {d.arg[1] : d \in D}
           conflicts == {k \in keys : \E v, w \in values(k) : v # w}
<1>1. InferDeclared(ns, conds) = [k \in keys \ conflicts |-> CHOOSE v \in values(k) : TRUE]
  BY DEF InferDeclared
<1>2. values(key) = {value}
  BY DEF DeclaredValues
<1> HIDE DEF D
<1>3. key \in keys
  BY <1>2
<1>4. key \notin conflicts
  BY <1>2
<1> HIDE DEF keys, conflicts, values
<1>5. (CHOOSE v \in values(key) : TRUE) = value
  BY <1>2
<1> QED
  BY <1>1, <1>3, <1>4, <1>5

\* A caveat that reaches the target as it was meant: by the target's namespace
\* or, without one of the service's own, by the legacy one.
Direct(cav, cond) ==
  \/ cond = ResolveCaveat(ns, cav)
  \/ cav.ns \in {NoNamespace, StdNamespace} /\ cond = ResolveCaveat(LegacyNamespace, cav)

LEMMA MeantForm ==
  ASSUME ns \in Namespaces, ns[StdNamespace] = <<>>, NEW cav, NEW cond, Direct(cav, cond),
         NEW check \in ChecksFor(cav)
  PROVE  FullName(ns, check) = cond.name /\ cond.arg = cav.arg
<1>1. \A name, arg : Condition(name, arg).name = name /\ Condition(name, arg).arg = arg
  BY DEF Condition
<1>2. CASE cav.ns = NoNamespace
  <2>1. cond = Condition(cav.name, cav.arg)
    BY <1>2 DEF Direct, ResolveCaveat
  <2> QED
    BY <1>1, <1>2, <2>1 DEF ChecksFor
<1>3. CASE cav.ns # NoNamespace /\ cond = ResolveCaveat(ns, cav)
  <2>1. check = <<cav.ns, cav.name>> /\ check \in RegisteredIn(ns)
    BY <1>3 DEF ChecksFor
  <2>2. cav.ns \in DOMAIN ns
    BY <2>1, RegisteredTypes
  <2>3. cond = Condition(ConditionWithPrefix(Resolve(ns, cav.ns), cav.name), cav.arg)
    BY <1>3, <2>2 DEF ResolveCaveat
  <2>4. FullName(ns, check) = ConditionWithPrefix(Resolve(ns, cav.ns), cav.name)
    BY <2>1 DEF FullName
  <2> QED
    BY <1>1, <2>3, <2>4
<1>4. CASE cav.ns # NoNamespace /\ cav.ns = StdNamespace /\ cond = ResolveCaveat(LegacyNamespace, cav)
  <2>1. check = <<StdNamespace, cav.name>>
    BY <1>4 DEF ChecksFor
  <2>2. Resolve(ns, StdNamespace) = <<>>
    BY RegisteredTypes
  <2>3. DOMAIN LegacyNamespace = {StdNamespace} /\ LegacyNamespace[StdNamespace] = <<>>
    BY DEF LegacyNamespace
  <2>4. cond = Condition(cav.name, cav.arg)
    <3>1. Resolve(LegacyNamespace, StdNamespace) = <<>>
      BY <2>3 DEF Resolve
    <3>2. cond = Condition(ConditionWithPrefix(Resolve(LegacyNamespace, cav.ns), cav.name), cav.arg)
      BY <1>4, <2>3 DEF ResolveCaveat
    <3> QED
      BY <1>4, <3>1, <3>2 DEF ConditionWithPrefix
  <2>5. FullName(ns, check) = cav.name
    BY <2>1, <2>2 DEF FullName, ConditionWithPrefix
  <2> QED
    BY <1>1, <2>4, <2>5
<1> QED
  BY <1>2, <1>3, <1>4 DEF Direct

LEMMA DeclaredUnprefixed ==
  ASSUME ns \in Namespaces, ns[StdNamespace] = <<>>
  PROVE  /\ DeclaredCond(ns) = CondDeclared
         /\ FullName(ns, <<StdNamespace, CondDeclared>>) = CondDeclared
         /\ <<StdNamespace, CondDeclared>> \in RegisteredIn(ns)
<1>1. Resolve(ns, StdNamespace) = <<>>
  BY RegisteredTypes
<1>2. <<>> \o CondDeclared = CondDeclared
  BY DEF CondDeclared
<1>3. <<StdNamespace, CondDeclared>> \in RegisteredIn(ns)
  BY RegisteredTypes DEF StdNames
<1> QED
  BY <1>1, <1>2, <1>3 DEF DeclaredCond, FullName, ConditionWithPrefix

LEMMA MeantAllowed ==
  ASSUME ns \in Namespaces, ns[StdNamespace] = <<>>, NEW cavs, NEW conds,
         DOMAIN cavs = DOMAIN conds, \A j \in DOMAIN conds : Direct(cavs[j], conds[j]),
         NEW now, AllMeant(cavs, now)
  PROVE  Holds(conds, now)
<1>1. \A j \in DOMAIN conds : Meant(cavs[j], cavs, now)
  BY DEF AllMeant
<1> DEFINE declared == <<StdNamespace, CondDeclared>>
<1>2. DeclaredCond(ns) = CondDeclared /\ FullName(ns, declared) = CondDeclared /\ declared \in RegisteredIn(ns)
  BY DeclaredUnprefixed
<1>3. ASSUME NEW j \in DOMAIN conds, NEW check \in ChecksFor(cavs[j])
      PROVE  check \in RegisteredIn(ns) /\ FullName(ns, check) = conds[j].name /\ conds[j].arg = cavs[j].arg
  <2>1. Direct(cavs[j], conds[j])
    OBVIOUS
  <2>2. check \in RegisteredIn(ns)
    BY DEF ChecksFor
  <2> QED
    BY <2>1, <2>2, MeantForm
<1>4. ASSUME NEW j \in DOMAIN conds
      PROVE  conds[j].arg = cavs[j].arg /\ (conds[j].name = CondDeclared <=> declared \in ChecksFor(cavs[j]))
  <2>1. PICK check \in ChecksFor(cavs[j]) : TRUE
    BY <1>1 DEF Meant
  <2>2. check \in RegisteredIn(ns) /\ FullName(ns, check) = conds[j].name /\ conds[j].arg = cavs[j].arg
    BY <1>3
  <2>3. ASSUME conds[j].name = CondDeclared PROVE declared \in ChecksFor(cavs[j])
    <3>1. check = declared
      BY <1>2, <2>2, <2>3, NamesUnique
    <3> QED
      BY <3>1, <2>1
  <2>4. ASSUME declared \in ChecksFor(cavs[j]) PROVE conds[j].name = CondDeclared
    BY <1>2, <1>3, <2>4
  <2> QED
    BY <2>2, <2>3, <2>4
<1> HIDE DEF declared
<1>5. ASSUME NEW key
      PROVE  DeclaredValues(conds, key) = Values(cavs, key)
  <2> DEFINE V == DeclaredValues(conds, key)
  <2>1. ASSUME NEW v \in V PROVE v \in Values(cavs, key)
    <3>1. PICK d \in Declarations(ns, conds) : d.arg[1] = key /\ v = d.arg[2]
      BY DEF DeclaredValues
    <3>2. d \in ToSet(conds) /\ d.name = CondDeclared /\ Len(d.arg) = 2
      BY <1>2 DEF Declarations
    <3>3. PICK j \in DOMAIN conds : d = conds[j]
      BY <3>2 DEF ToSet
    <3>4. declared \in ChecksFor(cavs[j]) /\ d.arg = cavs[j].arg
      BY <1>4, <3>2, <3>3
    <3> QED
      BY <3>1, <3>2, <3>3, <3>4 DEF Values, declared
  <2>2. ASSUME NEW v \in Values(cavs, key) PROVE v \in V
    <3>1. PICK j \in DOMAIN cavs :
            /\ declared \in ChecksFor(cavs[j])
            /\ Len(cavs[j].arg) = 2 /\ cavs[j].arg[1] = key /\ v = cavs[j].arg[2]
      BY DEF Values, declared
    <3>2. conds[j].name = CondDeclared /\ conds[j].arg = cavs[j].arg /\ conds[j] \in ToSet(conds)
      BY <1>4, <3>1 DEF ToSet
    <3>3. conds[j] \in Declarations(ns, conds)
      BY <1>2, <3>1, <3>2 DEF Declarations
    <3> QED
      BY <3>1, <3>2, <3>3 DEF DeclaredValues
  <2> QED
    BY <2>1, <2>2
<1>6. ASSUME NEW j \in DOMAIN conds
      PROVE  CheckFirstPartyCaveat(ns, RegisteredIn(ns), conds, now, conds[j])
  <2>1. PICK check \in ChecksFor(cavs[j]) :
          check[1] = StdNamespace =>
            \/ check[2] = CondTimeBefore /\ CheckTimeBefore(now, cavs[j].arg)
            \/ /\ check[2] = CondDeclared /\ Len(cavs[j].arg) = 2
               /\ Values(cavs, cavs[j].arg[1]) = {cavs[j].arg[2]}
    BY <1>1 DEF Meant
  <2>2. check \in RegisteredIn(ns) /\ FullName(ns, check) = conds[j].name /\ conds[j].arg = cavs[j].arg
    BY <1>3
  <2>3. ASSUME Len(cavs[j].arg) = 2, Values(cavs, cavs[j].arg[1]) = {cavs[j].arg[2]}
        PROVE  CheckDeclared(ns, conds, cavs[j].arg)
    <3> DEFINE key == cavs[j].arg[1]
               value == cavs[j].arg[2]
    <3>1. DeclaredValues(conds, key) = Values(cavs, key)
      BY <1>5
    <3>2. Values(cavs, key) = {value}
      BY <2>3
    <3> HIDE DEF key, value
    <3>3. key \in DOMAIN InferDeclared(ns, conds) /\ InferDeclared(ns, conds)[key] = value
      BY <3>1, <3>2, Inferred
    <3> QED
      BY <2>3, <3>3 DEF CheckDeclared, key, value
  <2> QED
    BY <2>1, <2>2, <2>3 DEF CheckFirstPartyCaveat
<1> QED
  BY <1>6 DEF Holds

-----------------------------------------------------------------------------
(* The properties of a verdict.                                            *)

\* A discharge macaroon has been verified when there is a verdict.
LEMMA Verdicts ==
  ASSUME DischargerInv, NEW c \in Conversations, NEW v \in verdict[c]
  PROVE  /\ ns \in Namespaces /\ mac[c] # {} /\ dm[c] # {} /\ The(verdict[c]) = v
         /\ v.now \in Clock /\ v.allowed = (Found(c) /\ Holds(Conditions(c), v.now))
<1>1. TypeOK /\ VerdictInv
  BY DEF DischargerInv, ConversationInv
<1>2. pc[c] = "over" /\ dm[c] # {} /\ mac[c] # {} /\ AtMostOne(verdict[c]) /\ ns \in Namespaces
  BY <1>1 DEF TypeOK
<1>3. The(verdict[c]) = v
  BY <1>2, TheOnly
<1> QED
  BY <1>1, <1>2, <1>3 DEF VerdictInv

LEMMA JudgedMatched ==
  ASSUME NEW c, NEW n, Judgement(c, n)
  PROVE  Matched(CaveatsOf(c), Conditions(c), n)
BY DEF Judgement, Matched, Delivered

LEMMA VerdictsAreRight ==
  ASSUME DischargerInv
  PROVE  VerdictRight
<1> SUFFICES ASSUME NEW c \in Conversations, NEW v \in verdict[c]
             PROVE  /\ v.allowed => AllMeant(CaveatsOf(c), v.now)
                    /\ /\ ns[StdNamespace] = <<>>
                       /\ ViaLegacy(c) => \A i \in DOMAIN CaveatsOf(c) :
                                            CaveatsOf(c)[i].ns \in {NoNamespace, StdNamespace}
                       /\ AllMeant(CaveatsOf(c), v.now)
                       => v.allowed
  <2>1. \A c \in Conversations : \A v \in verdict[c] : The(verdict[c]) = v
    BY Verdicts
  <2> QED
    BY <2>1 DEF VerdictRight
<1>1. ns \in Namespaces /\ mac[c] # {} /\ dm[c] # {}
      /\ v.allowed = (Found(c) /\ Holds(Conditions(c), v.now))
  BY Verdicts
<1>2. ConversationInv /\ OpsReadBack
  BY IdsReadBack DEF DischargerInv
<1>3. PICK n \in Nat : Judgement(c, n)
  BY <1>1, <1>2, Judged
<1>4. Matched(CaveatsOf(c), Conditions(c), n)
  BY <1>3, JudgedMatched
<1>5. ASSUME v.allowed PROVE AllMeant(CaveatsOf(c), v.now)
  <2>1. Holds(Conditions(c), v.now)
    BY <1>1, <1>5
  <2> QED
    BY <1>1, <1>4, <2>1, AllowedMeant
<1>6. ASSUME ns[StdNamespace] = <<>>, AllMeant(CaveatsOf(c), v.now),
             ViaLegacy(c) => \A i \in DOMAIN CaveatsOf(c) :
                               CaveatsOf(c)[i].ns \in {NoNamespace, StdNamespace}
      PROVE  v.allowed
  <2>1. Found(c)
    BY <1>1, <1>2 DEF OpsReadBack
  <2>2. DOMAIN CaveatsOf(c) = DOMAIN Conditions(c)
    BY <1>3 DEF Judgement
  <2>3. ASSUME NEW j \in DOMAIN Conditions(c) PROVE Direct(CaveatsOf(c)[j], Conditions(c)[j])
    <3>1. \/ Conditions(c)[j] = ResolveCaveat(ns, CaveatsOf(c)[j])
          \/ ViaLegacy(c) /\ Conditions(c)[j] = ResolveCaveat(LegacyNamespace, CaveatsOf(c)[j])
      BY <1>3 DEF Judgement
    <3> QED
      BY <1>6, <2>2, <3>1 DEF Direct
  <2>4. Holds(Conditions(c), v.now)
    BY <1>1, <1>6, <2>2, <2>3, MeantAllowed
  <2> QED
    BY <1>1, <2>1, <2>4
<1> QED
  BY <1>5, <1>6

\* The target allows a request only if every caveat on the two macaroons holds
\* as it was meant, and does if it can (namespace.go, ResolveCaveat).
THEOREM VerdictsRight == Spec => []VerdictRight
<1>1. DischargerInv => VerdictRight
  BY VerdictsAreRight
<1> QED
  BY <1>1, Invariant, PTL

LEMMA DeclarationsAreRight ==
  ASSUME DischargerInv
  PROVE  DeclaredRight
<1> SUFFICES ASSUME NEW c \in Conversations, NEW v \in verdict[c], v.allowed, NEW j \in DOMAIN Keys(c)
             PROVE  LET replied == The(told[c]).caveats
                        key == Keys(c)[j]
                        given == Values(replied, key)
                    IN  /\ AtMostOne(given)
                        /\ given # {} \/ ~Masked(replied, key) =>
                             /\ key \in DOMAIN Attrs(c)
                             /\ Attrs(c)[key] \in IF given = {} THEN {NoValue} ELSE given
  BY DEF DeclaredRight
<1> DEFINE key == Keys(c)[j]
           replied == The(told[c]).caveats
           given == Values(replied, key)
           all == Values(CaveatsOf(c), key)
           declared == <<StdNamespace, CondDeclared>>
<1>1. ns \in Namespaces /\ mac[c] # {} /\ dm[c] # {} /\ Holds(Conditions(c), v.now) /\ ConversationInv
  BY Verdicts DEF DischargerInv
<1>2. PICK n \in Nat : Judgement(c, n)
  BY <1>1, Judged
<1>3. Matched(CaveatsOf(c), Conditions(c), n)
  BY <1>2, JudgedMatched
<1>4. \A i \in DOMAIN replied : \E k \in DOMAIN CaveatsOf(c) : CaveatsOf(c)[k] = replied[i]
  BY <1>1, Judged
<1>5. \/ \E i \in DOMAIN replied : Declares(replied[i], key)
      \/ \E k \in DOMAIN CaveatsOf(c) : CaveatsOf(c)[k] = DeclaredCaveat(key, NoValue)
  BY <1>1, Judged
<1> HIDE DEF key, replied
<1>6. given \subseteq all
  BY <1>4 DEF Values
<1>7. ASSUME ~Masked(replied, key), NEW i \in DOMAIN replied, Declares(replied[i], key)
      PROVE  given # {}
  <2>1. declared \in ChecksFor(replied[i])
    BY <1>7 DEF Masked
  <2>2. replied[i].arg[2] \in given
    BY <1>7, <2>1 DEF Declares, Values
  <2> QED
    BY <2>2
<1>8. ASSUME NEW k \in DOMAIN CaveatsOf(c), CaveatsOf(c)[k] = DeclaredCaveat(key, NoValue)
      PROVE  NoValue \in all
  <2> DEFINE cav == CaveatsOf(c)[k]
  <2>1. cav.ns = StdNamespace /\ cav.name = CondDeclared /\ cav.arg = <<key, NoValue>>
    BY <1>8 DEF DeclaredCaveat, FirstParty, Caveat
  <2>2. declared \in RegisteredIn(ns) /\ StdNamespace # NoNamespace
    BY <1>1, RegisteredTypes DEF StdNames, StdNamespace, NoNamespace
  <2>3. declared \in ChecksFor(cav)
    BY <2>1, <2>2 DEF ChecksFor
  <2>4. Len(cav.arg) = 2 /\ cav.arg[1] = key /\ cav.arg[2] = NoValue
    BY <2>1
  <2> QED
    BY <2>3, <2>4 DEF Values
<1>9. ASSUME given # {} \/ ~Masked(replied, key) PROVE given # {} \/ NoValue \in all
  BY <1>5, <1>7, <1>8, <1>9
<1> HIDE DEF given, all
<1>10. \A value \in all : key \in DOMAIN Attrs(c) /\ Attrs(c)[key] = value
  BY <1>1, <1>3, AllowedValues DEF all, Attrs
<1>11. AtMostOne(given)
  BY <1>6, <1>10 DEF AtMostOne
<1>12. ASSUME given # {} \/ ~Masked(replied, key)
       PROVE  /\ key \in DOMAIN Attrs(c)
              /\ Attrs(c)[key] \in IF given = {} THEN {NoValue} ELSE given
  <2>1. CASE given = {}
    BY <1>9, <1>10, <1>12, <2>1
  <2>2. CASE given # {}
    BY <1>6, <1>10, <2>2
  <2> QED
    BY <2>1, <2>2
<1> QED
  BY <1>11, <1>12 DEF given, key, replied

\* An allowed request declares every attribute needed, with the one value that
\* the user gave it, or the empty one, whatever the client adds, but for those
\* that the user's caveats name in a check of the target's own (discharge.go,
\* checkNeedDeclared).
THEOREM AttributesRight == Spec => []DeclaredRight
<1>1. DischargerInv => DeclaredRight
  BY DeclarationsAreRight
<1> QED
  BY <1>1, Invariant, PTL

-----------------------------------------------------------------------------
(* Capabilities.                                                           *)

\* A finite set as a sequence.
LEMMA SetAsSequence ==
  ASSUME NEW S, IsFiniteSet(S)
  PROVE  DOMAIN SetToSeq(S) = 1..Cardinality(S) /\ ToSet(SetToSeq(S)) = S
<1> DEFINE n == Cardinality(S)
           f == SetToSeq(S)
<1>1. n \in Nat /\ ExistsBijection(1..n, S)
  BY FS_CardinalityType
<1>2. \E g \in [1..n -> S] : IsInjective(g)
  BY <1>1 DEF ExistsBijection, Bijection, Injection
<1>3. f \in [1..n -> S] /\ IsInjective(f)
  BY <1>2 DEF SetToSeq
<1> HIDE DEF f
<1>4. \A i, j \in 1..n : i # j => f[i] # f[j]
  BY <1>3 DEF IsInjective
<1>5. ToSet(f) = S
  BY <1>3, <1>4, EnumerationIsAll
<1> QED
  BY <1>3, <1>5 DEF f

\* A condition is a name and an argument, and that of a time-before condition
\* is a time or nothing.
Expressed(cond) ==
  /\ cond = Condition(cond.name, cond.arg)
  /\ cond.name = CondTimeBefore => cond.arg \in Seq(Nat) /\ Len(cond.arg) <= 1

LEMMA DeliveredExpressed ==
  ASSUME ns \in Namespaces, NEW cav, Writable(cav), NEW cond, Delivered(cav, cond)
  PROVE  Expressed(cond)
<1>1. \A name, arg : Condition(name, arg).name = name /\ Condition(name, arg).arg = arg
  BY DEF Condition
<1>2. <<>> \in Seq(Nat) /\ Len(<<>>) <= 1
  OBVIOUS
<1>3. CASE cond = Condition(cav.name, cav.arg)
  BY <1>1, <1>3 DEF Expressed, Writable
<1>4. CASE /\ cond = Condition(FullName(ns, <<cav.ns, cav.name>>), cav.arg)
           /\ cav.ns \in DOMAIN ns
  <2> DEFINE name == FullName(ns, <<cav.ns, cav.name>>)
  <2>1. IsText(ns[cav.ns]) /\ Resolve(ns, cav.ns) = ns[cav.ns] /\ IsText(cav.name)
    BY <1>4, RegisteredTypes DEF Writable
  <2>2. name = ConditionWithPrefix(ns[cav.ns], cav.name)
    BY <2>1 DEF FullName
  <2>3. ASSUME name = CondTimeBefore PROVE cav.name = CondTimeBefore
    <3>1. ConditionWithPrefix(ns[cav.ns], cav.name) = <<"time-before">>
      BY <2>2, <2>3 DEF CondTimeBefore
    <3>2. cav.name = <<"time-before">>
      BY <2>1, <3>1, SingleWord
    <3> QED
      BY <3>2 DEF CondTimeBefore
  <2> HIDE DEF name
  <2>4. cond = Condition(name, cav.arg)
    BY <1>4 DEF name
  <2> QED
    BY <1>1, <2>3, <2>4 DEF Expressed, Writable
<1>5. CASE cond = Condition(FullName(ns, <<StdNamespace, CondError>>), <<>>)
  BY <1>1, <1>2, <1>5 DEF Expressed
<1>6. CASE cond = Condition(CondError, <<>>)
  BY <1>1, <1>2, <1>6 DEF Expressed
<1> QED
  BY <1>3, <1>4, <1>5, <1>6, DeliveredForms

LEMMA SequenceOfOne ==
  ASSUME NEW S, NEW s \in Seq(S), s # <<>>, Len(s) <= 1
  PROVE  s[1] \in S /\ s = <<s[1]>>
<1>1. Len(s) \in Nat /\ Len(s) # 0
  OBVIOUS
<1>2. Len(s) = 1
  BY <1>1
<1> QED
  BY <1>2

\* What is left of a time-before condition with a time.
LEMMA OneTime ==
  ASSUME NEW cond, Expressed(cond), IsTimeBefore(cond)
  PROVE  /\ cond.arg[1] \in Nat
         /\ cond.arg = <<cond.arg[1]>>
         /\ cond = Condition(CondTimeBefore, <<cond.arg[1]>>)
<1>1. cond.name = CondTimeBefore /\ cond.arg # <<>>
  BY DEF IsTimeBefore
<1>2. cond.arg \in Seq(Nat) /\ Len(cond.arg) <= 1 /\ cond = Condition(cond.name, cond.arg)
  BY <1>1 DEF Expressed
<1>3. cond.arg[1] \in Nat /\ cond.arg = <<cond.arg[1]>>
  BY <1>1, <1>2, SequenceOfOne
<1> QED
  BY <1>1, <1>2, <1>3

\* The earliest of the times, if there is one, stands for all of them.
LEMMA SquashKeeps ==
  ASSUME NEW S, \A cond \in S : Expressed(cond)
  PROVE  /\ Squash(S) \subseteq S
         /\ \A cond \in S : ~IsTimeBefore(cond) => cond \in Squash(S)
         /\ \A cond \in S : IsTimeBefore(cond) =>
              \E t \in Nat : Condition(CondTimeBefore, <<t>>) \in Squash(S) /\ t <= cond.arg[1]
         /\ \A a, b \in Squash(S) : IsTimeBefore(a) /\ IsTimeBefore(b) => a = b
<1> DEFINE times == {cond.arg[1] : cond \in {c \in S : IsTimeBefore(c)}}
           earliest == {t \in times : \A u \in times : t <= u}
           others == {c \in S : ~IsTimeBefore(c)}
           kept == {Condition(CondTimeBefore, <<t>>) : t \in earliest}
<1>1. Squash(S) = others \cup kept
  BY DEF Squash
<1>2. ASSUME NEW c \in S, IsTimeBefore(c)
      PROVE  c.arg[1] \in Nat /\ c = Condition(CondTimeBefore, <<c.arg[1]>>)
  <2>1. Expressed(c)
    OBVIOUS
  <2> QED
    BY <1>2, <2>1, OneTime
<1>3. \A t \in times : t \in Nat /\ Condition(CondTimeBefore, <<t>>) \in S
  BY <1>2
<1>4. kept \subseteq S
  BY <1>3
<1>5. ASSUME NEW c \in S, IsTimeBefore(c)
      PROVE  \E t \in Nat : Condition(CondTimeBefore, <<t>>) \in Squash(S) /\ t <= c.arg[1]
  <2>1. c.arg[1] \in times
    BY <1>5
  <2>2. times \in SUBSET Nat /\ times # {}
    BY <1>3, <2>1
  <2> HIDE DEF times
  <2>3. PICK t \in times : \A u \in times : t <= u
    BY <2>2, LeastNatural
  <2>4. Condition(CondTimeBefore, <<t>>) \in kept
    BY <2>3
  <2> QED
    BY <1>1, <2>1, <2>2, <2>3, <2>4
<1>6. \A t, u \in earliest : t = u
  <2>1. times \subseteq Nat
    BY <1>3
  <2> HIDE DEF times
  <2> QED
    BY <2>1
<1>7. ASSUME NEW a \in Squash(S), NEW b \in Squash(S), IsTimeBefore(a), IsTimeBefore(b)
      PROVE  a = b
  <2>1. a \in kept /\ b \in kept
    BY <1>1, <1>7
  <2> HIDE DEF earliest
  <2> QED
    BY <1>6, <2>1
<1> QED
  BY <1>1, <1>4, <1>5, <1>7

\* Conditions that differ in their times only declare the same.
LEMMA SquashDeclares ==
  ASSUME NEW conds, \A cond \in ToSet(conds) : Expressed(cond),
         NEW squashed, ToSet(squashed) = Squash(ToSet(conds))
  PROVE  InferDeclared(ns, squashed) = InferDeclared(ns, conds)
<1> DEFINE S == ToSet(conds)
<1>1. /\ Squash(S) \subseteq S
      /\ \A cond \in S : ~IsTimeBefore(cond) => cond \in Squash(S)
  BY SquashKeeps
<1>2. ASSUME NEW d \in Declarations(ns, conds) PROVE d \in Squash(S)
  <2>1. d \in S /\ Len(d.arg) = 2
    BY DEF Declarations
  <2>2. Expressed(d)
    BY <2>1
  <2>3. d.name # CondTimeBefore
    BY <2>1, <2>2 DEF Expressed
  <2> QED
    BY <1>1, <2>1, <2>3 DEF IsTimeBefore
<1>3. Declarations(ns, squashed) = Declarations(ns, conds)
  <2> HIDE DEF S
  <2>1. ToSet(squashed) = Squash(S) /\ ToSet(conds) = S
    BY DEF S
  <2> QED
    BY <1>1, <1>2, <2>1 DEF Declarations
<1> QED
  BY <1>3 DEF InferDeclared

\* What a condition needs to hold, with what is declared known.
HoldsWith(info, now, cond) ==
  \E check \in RegisteredIn(ns) :
    /\ FullName(ns, check) = cond.name
    /\ check[1] = StdNamespace =>
         \/ /\ check[2] = CondDeclared /\ Len(cond.arg) = 2
            /\ cond.arg[1] \in DOMAIN info /\ info[cond.arg[1]] = cond.arg[2]
         \/ check[2] = CondTimeBefore /\ CheckTimeBefore(now, cond.arg)

LEMMA HoldsOfSet ==
  ASSUME NEW conds, NEW now
  PROVE  Holds(conds, now) <=> \A cond \in ToSet(conds) : HoldsWith(InferDeclared(ns, conds), now, cond)
<1>1. \A cond : CheckFirstPartyCaveat(ns, RegisteredIn(ns), conds, now, cond)
                <=> HoldsWith(InferDeclared(ns, conds), now, cond)
  BY DEF CheckFirstPartyCaveat, CheckDeclared, HoldsWith
<1> QED
  BY <1>1 DEF Holds, ToSet

\* A time-before condition holds just before its time.
LEMMA TimeHolds ==
  ASSUME ns \in Namespaces, NEW info, NEW now, NEW cond, cond.name = CondTimeBefore,
         HoldsWith(info, now, cond)
  PROVE  /\ CheckTimeBefore(now, cond.arg)
         /\ \A later : CheckTimeBefore(now, later.arg) /\ later.name = CondTimeBefore
                       => HoldsWith(info, now, later)
<1>1. PICK check \in RegisteredIn(ns) :
        /\ FullName(ns, check) = cond.name
        /\ check[1] = StdNamespace =>
             \/ check[2] = CondDeclared
             \/ check[2] = CondTimeBefore /\ CheckTimeBefore(now, cond.arg)
  BY DEF HoldsWith
<1>2. CondTimeBefore \in StdNames /\ CondTimeBefore # CondDeclared
  BY DEF StdNames, CondTimeBefore, CondDeclared
<1>3. check = <<StdNamespace, CondTimeBefore>>
  BY <1>1, <1>2, StdCheckOnly
<1>4. CheckTimeBefore(now, cond.arg)
  BY <1>1, <1>2, <1>3
<1> QED
  BY <1>1, <1>3, <1>4 DEF HoldsWith

LEMMA FiniteConditions ==
  ASSUME NEW conds, NEW n \in Nat, DOMAIN conds = 1..n
  PROVE  IsFiniteSet(ToSet(conds))
<1> DEFINE S == ToSet(conds)
           f == [j \in 1..n |-> conds[j]]
<1>1. \A s \in S : \E j \in 1..n : conds[j] = s
  BY DEF ToSet
<1>2. f \in [1..n -> S]
  BY DEF ToSet
<1> HIDE DEF S
<1>3. f \in Surjection(1..n, S)
  BY <1>1, <1>2 DEF Surjection
<1>4. IsFiniteSet(1..n)
  BY FS_Interval
<1> HIDE DEF f
<1>5. IsFiniteSet(S)
  BY <1>3, <1>4, FS_Surjection
<1> QED
  BY <1>5 DEF S

\* The time-before conditions that a squashed set has, when all of them hold
\* at some time, are one at most.
LEMMA OneTimeBefore ==
  ASSUME ns \in Namespaces, NEW S, IsFiniteSet(S), \A cond \in S : Expressed(cond),
         NEW info, NEW now \in Clock, \A cond \in S : HoldsWith(info, now, cond)
  PROVE  Cardinality({cond \in Squash(S) : cond.name = CondTimeBefore}) <= 1
<1> DEFINE T == {cond \in Squash(S) : cond.name = CondTimeBefore}
<1>1. /\ Squash(S) \subseteq S
      /\ \A a, b \in Squash(S) : IsTimeBefore(a) /\ IsTimeBefore(b) => a = b
  BY SquashKeeps
<1>2. ASSUME NEW cond \in T PROVE IsTimeBefore(cond)
  <2>1. cond \in S /\ cond.name = CondTimeBefore /\ HoldsWith(info, now, cond)
    BY <1>1
  <2>2. CheckTimeBefore(now, cond.arg)
    BY <2>1, TimeHolds
  <2>3. cond.arg # <<>> /\ now < cond.arg[1]
    BY <2>2 DEF CheckTimeBefore
  <2>4. now \in Nat /\ now # 0 /\ ~(now < 0)
    BY CheckersAssumption DEF Clock
  <2>5. cond.arg # <<ZeroTime>>
    <3>1. <<ZeroTime>>[1] = 0
      BY DEF ZeroTime
    <3> QED
      BY <2>3, <2>4, <3>1
  <2> QED
    BY <2>1, <2>3, <2>5 DEF IsTimeBefore
<1>3. \A a, b \in T : a = b
  BY <1>1, <1>2
<1>4. T \in SUBSET S
  BY <1>1
<1> HIDE DEF T
<1>5. ASSUME T = {} PROVE Cardinality(T) <= 1
  <2>1. Cardinality({}) = 0
    BY FS_EmptySet
  <2> QED
    BY <1>5, <2>1
<1>6. ASSUME T # {} PROVE Cardinality(T) <= 1
  <2>1. PICK a \in T : T = {a}
    BY <1>3, <1>6
  <2>2. Cardinality(T) = 1
    BY <2>1, FS_Singleton
  <2> QED
    BY <2>2
<1>7. Cardinality(T) <= 1
  BY <1>5, <1>6
<1> QED
  BY <1>7 DEF T

\* A squashed set of conditions holds exactly when the set does.
LEMMA SquashHolds ==
  ASSUME ns \in Namespaces, NEW S, \A cond \in S : Expressed(cond),
         NEW info, NEW now \in Clock
  PROVE  (\A cond \in Squash(S) : HoldsWith(info, now, cond)) <=> (\A cond \in S : HoldsWith(info, now, cond))
<1>1. /\ Squash(S) \subseteq S
      /\ \A cond \in S : ~IsTimeBefore(cond) => cond \in Squash(S)
      /\ \A cond \in S : IsTimeBefore(cond) =>
           \E t \in Nat : Condition(CondTimeBefore, <<t>>) \in Squash(S) /\ t <= cond.arg[1]
  BY SquashKeeps
<1>2. ASSUME \A cond \in Squash(S) : HoldsWith(info, now, cond), NEW cond \in S
      PROVE  HoldsWith(info, now, cond)
  <2>1. CASE ~IsTimeBefore(cond)
    BY <1>1, <1>2, <2>1
  <2>2. CASE IsTimeBefore(cond)
    <3>1. PICK t \in Nat : Condition(CondTimeBefore, <<t>>) \in Squash(S) /\ t <= cond.arg[1]
      BY <1>1, <2>2
    <3> DEFINE first == Condition(CondTimeBefore, <<t>>)
    <3>2. first.name = CondTimeBefore /\ first.arg = <<t>> /\ first.arg # <<>> /\ first.arg[1] = t
      BY DEF Condition
    <3>3. HoldsWith(info, now, first)
      BY <1>2, <3>1
    <3> HIDE DEF first
    <3>4. /\ CheckTimeBefore(now, first.arg)
          /\ \A later : CheckTimeBefore(now, later.arg) /\ later.name = CondTimeBefore
                        => HoldsWith(info, now, later)
      BY <3>2, <3>3, TimeHolds
    <3>5. now < t /\ now \in Nat
      BY <3>2, <3>4, CheckersAssumption DEF CheckTimeBefore, Clock
    <3>6. cond.arg[1] \in Nat /\ cond.arg # <<>> /\ cond.name = CondTimeBefore
      <4>1. Expressed(cond)
        OBVIOUS
      <4> QED
        BY <2>2, <4>1, OneTime DEF IsTimeBefore
    <3>7. CheckTimeBefore(now, cond.arg)
      BY <3>1, <3>5, <3>6 DEF CheckTimeBefore
    <3> QED
      BY <3>4, <3>6, <3>7
  <2> QED
    BY <2>1, <2>2
<1> QED
  BY <1>1, <1>2

LEMMA CapabilitiesAreEquivalent ==
  ASSUME DischargerInv
  PROVE  CapabilityEquivalent
<1> SUFFICES ASSUME NEW c \in Conversations, NEW v \in verdict[c], v.allowed
             PROVE  LET conds == SetToSeq(Capability(c))
                    IN  /\ \A now \in Clock : Holds(conds, now) <=> Holds(Conditions(c), now)
                        /\ InferDeclared(ns, conds) = Attrs(c)
                        /\ Cardinality({cond \in Capability(c) : cond.name = CondTimeBefore}) <= 1
  BY DEF CapabilityEquivalent
<1> DEFINE S == ToSet(Conditions(c))
           conds == SetToSeq(Capability(c))
           info == Attrs(c)
<1>1. ns \in Namespaces /\ mac[c] # {} /\ dm[c] # {} /\ v.now \in Clock /\ Holds(Conditions(c), v.now)
      /\ ConversationInv
  BY Verdicts DEF DischargerInv
<1>2. PICK n \in Nat : Judgement(c, n)
  BY <1>1, Judged
<1>3. Matched(CaveatsOf(c), Conditions(c), n)
  BY <1>2, JudgedMatched
<1>4. \A cond \in S : Expressed(cond)
  <2>1. ASSUME NEW j \in 1..n PROVE Expressed(Conditions(c)[j])
    <3>1. Sendable(CaveatsOf(c)[j]) /\ Delivered(CaveatsOf(c)[j], Conditions(c)[j])
      BY <1>3 DEF Matched
    <3> QED
      BY <1>1, <3>1, DeliveredExpressed DEF Sendable
  <2> QED
    BY <1>3, <2>1 DEF ToSet, Matched
<1>5. IsFiniteSet(S)
  BY <1>3, FiniteConditions DEF Matched
<1>6. IsFiniteSet(Squash(S))
  <2>1. Squash(S) \in SUBSET S
    BY <1>4, SquashKeeps
  <2> QED
    BY <1>5, <2>1, FS_Subset
<1>7. ToSet(conds) = Squash(S)
  BY <1>6, SetAsSequence DEF Capability
<1>8. InferDeclared(ns, conds) = info
  BY <1>4, <1>7, SquashDeclares DEF Attrs
<1> HIDE DEF conds, info
<1>9. \A now : Holds(conds, now) <=> \A cond \in Squash(S) : HoldsWith(info, now, cond)
  BY <1>7, <1>8, HoldsOfSet
<1>10. \A now : Holds(Conditions(c), now) <=> \A cond \in S : HoldsWith(info, now, cond)
  BY HoldsOfSet DEF info, Attrs
<1> HIDE DEF S
<1>11. ASSUME NEW now \in Clock PROVE Holds(conds, now) <=> Holds(Conditions(c), now)
  <2>1. (\A cond \in Squash(S) : HoldsWith(info, now, cond)) <=> (\A cond \in S : HoldsWith(info, now, cond))
    BY <1>1, <1>4, SquashHolds
  <2> QED
    BY <1>9, <1>10, <2>1
<1>12. Cardinality({cond \in Squash(S) : cond.name = CondTimeBefore}) <= 1
  <2>1. \A cond \in S : HoldsWith(info, v.now, cond)
    BY <1>1, <1>10
  <2> QED
    BY <1>1, <1>4, <1>5, <2>1, OneTimeBefore
<1>13. Capability(c) = Squash(S)
  BY DEF Capability, S
<1> QED
  BY <1>8, <1>11, <1>12, <1>13 DEF conds, info

\* A capability holds exactly when the macaroons that it was obtained with do,
\* and declares the same (checker.go, caveatSquasher).
THEOREM CapabilitiesEquivalent == Spec => []CapabilityEquivalent
<1>1. DischargerInv => CapabilityEquivalent
  BY CapabilitiesAreEquivalent
<1> QED
  BY <1>1, Invariant, PTL
=============================================================================
