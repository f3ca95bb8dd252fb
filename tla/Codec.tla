------------------------------- MODULE Codec -------------------------------
(***************************************************************************)
(* What travels between services, and in which version of the protocol:    *)
(* the version of requests (error.go), the sealed information of           *)
(* third-party caveats (codec.go), macaroons as JSON (macaroon.go), and    *)
(* the ids that the Oven gives macaroons (oven.go).                        *)
(*                                                                         *)
(* Encodings are records that keep what the decoder can tell: the first    *)
(* byte by which it chooses a format, and the fields that the format has.  *)
(* What may be absent is a set of at most one element.                     *)
(* Sealing is perfect: a caveat sealed to another key does not open.       *)
(***************************************************************************)
EXTENDS Integers, Sequences, SequencesExt, TLC, Checkers

LatestVersion == 3

\* version.go: the library's macaroon formats, V1 of text and V2 of bytes.
MacaroonVersion(v) == IF v < 2 THEN 1 ELSE 2

\* The bakery version taken for a macaroon in a format before version 3.
BakeryVersion(format) == format

-----------------------------------------------------------------------------
(* Requests and errors.  A header is {} when it is missing, or the set of  *)
(* the number in it.                                                       *)

\* Version 0 without a proper header, and never one that is not known yet.
RequestVersion(header) == Max({0} \cup {Min({v, LatestVersion}) : v \in header})

\* The answer that a discharge is required: its status, and whether it has
\* the header WWW-Authenticate: Macaroon.
DischargeRequiredResponse(version) ==
  IF version = 0 THEN [status |-> 407, authenticate |-> FALSE]
  ELSE [status |-> 401, authenticate |-> TRUE]

\* DefaultGetError takes a response for such an answer.
IsBakeryError(response) ==
  \/ response.status = 407
  \/ response.status = 401 /\ response.authenticate

-----------------------------------------------------------------------------
(* Third-party caveat information.                                         *)

\* The byte 'e', with which the base64 of a JSON object starts.
JSONByte == 101

\* The byte that decodeCaveat goes by.
CaveatFirstByte(v) == IF v < 2 THEN JSONByte ELSE v

\* key is the public key it is sealed to.  Only version 3 has room for the
\* namespace of the first party.
EncodeCaveat(v, key, rootKey, condition, ns) ==
  [first |-> CaveatFirstByte(v), key |-> key, rootKey |-> rootKey, condition |-> condition,
   ns |-> IF v < 3 THEN {} ELSE {ns}]

\* A caveat id of newCaveatId's, which is no caveat information: its first
\* byte is that of version 3, and it is too short to be one.
ExternalId(n) == [first |-> 3, number |-> n]

IsCaveatInfo(caveat) == "key" \in DOMAIN caveat

\* decodeCaveat by a party with that key that knows versions up to latest.
Decodable(key, latest, caveat) ==
  /\ IsCaveatInfo(caveat)
  /\ caveat.key = key
  /\ caveat.first \in {JSONByte} \cup 2..latest

\* What it decodes to, besides the fields that are the same.
DecodedVersion(caveat) == IF caveat.first = JSONByte THEN 1 ELSE caveat.first
DecodedNamespace(caveat) == IF caveat.ns = {} THEN LegacyNamespace ELSE CHOOSE ns \in caveat.ns : TRUE

-----------------------------------------------------------------------------
(* Macaroons.  caveats are the first-party conditions; id and data are the *)
(* id of the third-party caveat and its information when kept apart from   *)
(* it, which AddCaveat does for parties that know version 3.               *)

BakeryMacaroon(id, version, ns) ==
  [id |-> id, version |-> IF version > LatestVersion THEN LatestVersion ELSE version,
   ns |-> ns, caveats |-> <<>>, caveatId |-> {}, caveatData |-> {}]

AddFirstParty(m, cavs) ==
  [m EXCEPT !.caveats = @ \o [i \in DOMAIN cavs |-> ResolveCaveat(m.ns, cavs[i])]]

\* The caveat is encoded in the least version of the macaroon and the party.
LeastVersion(m, info) == IF m.version < info.version THEN m.version ELSE info.version

\* Mutated: the version of the macaroon alone.
AddThirdPartyUnchecked(m, info, rootKey, condition) ==
  LET data == EncodeCaveat(m.version, info.key, rootKey, condition, m.ns)
  IN  IF m.version < 3 THEN [m EXCEPT !.caveatId = {data}]
      ELSE [m EXCEPT !.caveatId = {ExternalId(0)}, !.caveatData = {data}]

\* AddCaveat of the macaroon's first third-party caveat.
AddThirdParty(m, info, rootKey, condition) ==
  LET data == EncodeCaveat(LeastVersion(m, info), info.key, rootKey, condition, m.ns)
  IN  IF LeastVersion(m, info) < 3 THEN [m EXCEPT !.caveatId = {data}]
      ELSE [m EXCEPT !.caveatId = {ExternalId(0)}, !.caveatData = {data}]

\* The old format has neither version nor namespace: they are made up.
NewLegacyMacaroon(m) ==
  [m EXCEPT !.version = BakeryVersion(MacaroonVersion(m.version)),
            !.ns = LegacyNamespace, !.caveatData = {}]

\* MarshalJSON then UnmarshalJSON, which is its inverse.
ThroughJSON(m) == IF m.version < 3 THEN NewLegacyMacaroon(m) ELSE m

-----------------------------------------------------------------------------
(* Operations and macaroon ids.  An operation is a pair of an entity and   *)
(* an action, which are numbers for the sake of their order.               *)

Less(o, p) ==
  \/ o[1] < p[1]
  \/ o[1] = p[1] /\ o[2] < p[2]

\* Mutated: operations in order are left alone, equal ones included.
CanonicalOpsDuplicates(ops) == SortSeq(ops, Less)

Sorted(ops) == \A i, j \in DOMAIN ops : i < j => Less(ops[i], ops[j])

\* Sorted, without duplicates.
CanonicalOps(ops) == CHOOSE s \in SetToSeqs(ToSet(ops)) : Sorted(s)

AddIdOp(idOps, op) ==
  IF idOps = <<>> \/ Last(idOps).entity # op[1]
  THEN Append(idOps, [entity |-> op[1], actions |-> <<op[2]>>])
  ELSE IF Last(Last(idOps).actions) = op[2] THEN idOps
       ELSE [idOps EXCEPT ![Len(idOps)].actions = Append(@, op[2])]

\* macaroonIdOps: canonical operations, grouped by entity.
MacaroonIdOps(ops) ==
  LET grouped[n \in 0..Len(ops)] == IF n = 0 THEN <<>> ELSE AddIdOp(grouped[n - 1], ops[n])
  IN  grouped[Len(ops)]

EntityOps(idOp) == [i \in DOMAIN idOp.actions |-> <<idOp.entity, idOp.actions[i]>>]

UngroupedOps(idOps) == FlattenSeq([i \in DOMAIN idOps |-> EntityOps(idOps[i])])

\* The byte 'A', with which the base64 of versions 2 and 3 starts, and one
\* with which the hexadecimal ids of the earliest releases may.
Base64Byte == 65
HexByte == 97

\* Ids are made in the latest version, whatever that of the macaroon; the
\* text formats take them in base64, which turns the version byte into 'A'.
NewMacaroonId(version, storageId, idOps) ==
  LET id == [first |-> LatestVersion, storageId |-> storageId, ops |-> idOps]
  IN  IF MacaroonVersion(version) < 2 THEN [first |-> Base64Byte, base64 |-> id] ELSE id

\* The ids that earlier releases made: a hexadecimal one before a hyphenated
\* UUID, and that of version 2.
EarlierIds(version, storageId) ==
  LET id == [first |-> 2, storageId |-> storageId]
  IN  IF MacaroonVersion(version) < 2
      THEN {[first |-> HexByte, storageId |-> storageId], [first |-> Base64Byte, base64 |-> id]}
      ELSE {id}

\* decodeMacaroonId.  legacyOps is LegacyMacaroonOp, if the Oven has one.
Unbase64(id) == IF id.first = Base64Byte THEN id.base64 ELSE id
DecodeStorageId(id) == Unbase64(id).storageId

\* An id of version 3 without operations is an error, which is left out: none
\* is minted.
DecodeOps(id, legacyOps) ==
  IF Unbase64(id).first = LatestVersion THEN UngroupedOps(Unbase64(id).ops) ELSE legacyOps
=============================================================================
