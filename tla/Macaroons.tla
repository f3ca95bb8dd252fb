----------------------------- MODULE Macaroons -----------------------------
(***************************************************************************)
(* The macaroons of package bakery (macaroon.go, discharge.go) and what    *)
(* verifying a slice of them asks (gopkg.in/macaroon.v2, external).        *)
(*                                                                         *)
(* A caveat id is the sequence of bytes and varints it is made of.  The    *)
(* id of an external caveat is the version byte 3 followed by one varint   *)
(* per level of discharge; the id of a caveat for an older party is its    *)
(* sealed caveat information, whose version byte is 2 and which no other   *)
(* caveat equals: <<2, root key>>.  A root key is the number of its draw.  *)
(*                                                                         *)
(* Sealing and signing are perfect: only the holder of the private key     *)
(* unseals caveat information, and a signature chain is known by its root  *)
(* key and its number of caveats, which only ever grows.                   *)
(***************************************************************************)
EXTENDS Integers, Sequences, Subsequences

CONSTANTS
  Client,    \* the party that gathers discharges; holds the local key
  Parties,   \* the third parties
  Version,   \* [Parties \cup {Client} -> bakery version they publish]
  MaxTime    \* bound on the clock

Holders == Parties \cup {Client}

ASSUME MacaroonsAssumption ==
  /\ Client \notin Parties
  /\ Version \in [Holders -> {2, 3}]
  /\ MaxTime \in Nat

\* ExpiryTime of a macaroon without a time-before caveat: past every time
\* of the clock.
Never == MaxTime + 1

Times == 0..Never
Id == Seq(Nat)

\* A third-party caveat: holder is the party whose public key its
\* information is sealed to, key the root key that the information and the
\* verification id both hold.
Caveat == [id : Id, key : Nat, local : BOOLEAN, holder : Holders, version : {2, 3}]

\* length counts the caveats of both kinds; expiry stands for the first-party
\* time-before caveats; boundTo lists the primaries it has been bound to.
Signature == [key : Nat, length : Nat]
Macaroon == [id : Id, key : Nat, version : {2, 3}, prefix : Id, caveats : Seq(Caveat),
             length : Nat, expiry : Times, boundTo : Seq(Signature)]

NewMacaroon(key, id, version, prefix) ==
  [id |-> id, key |-> key, version |-> version, prefix |-> prefix, caveats |-> <<>>,
   length |-> 0, expiry |-> Never, boundTo |-> <<>>]

-----------------------------------------------------------------------------
(* Adding caveats.                                                         *)

AddTimeBefore(m, t) ==
  [m EXCEPT !.length = @ + 1, !.expiry = IF t < @ THEN t ELSE @]

\* The ids a macaroon may give its caveats: those that extend its prefix.
Base(m) == IF m.prefix = <<>> THEN <<3>> ELSE m.prefix

IsExternal(c) == c.version = 3

ExternalCount(m) == Cardinality({n \in DOMAIN m.caveats : IsExternal(m.caveats[n])})

\* newCaveatId: the first number, from the count of external caveats on,
\* whose id is not taken.
Taken(m, i) == \E n \in DOMAIN m.caveats : m.caveats[n].id = Append(Base(m), i)

NewCaveatId(m) ==
  LET first == ExternalCount(m)
      i == CHOOSE i \in first..first + Len(m.caveats) :
             /\ ~Taken(m, i)
             /\ \A j \in first..i - 1 : Taken(m, j)
  IN  Append(Base(m), i)

\* The least version that both the macaroon and the third party know.
CaveatVersion(m, holder) == IF m.version < Version[holder] THEN m.version ELSE Version[holder]

NewCaveat(m, holder, local, key) ==
  [id |-> IF CaveatVersion(m, holder) < 3 THEN <<2, key>> ELSE NewCaveatId(m),
   key |-> key, local |-> local, holder |-> holder, version |-> CaveatVersion(m, holder)]

AddThirdParty(m, holder, local, key) ==
  [m EXCEPT !.length = @ + 1, !.caveats = Append(@, NewCaveat(m, holder, local, key))]

-----------------------------------------------------------------------------
(* Discharging and binding.                                                *)

\* Mutated: a prefix lost, as when a discharge is marshaled.
NewDischargeUnprefixed(c) == NewMacaroon(c.key, c.id, c.version, <<>>)

\* Discharge, before the checker's caveats are added.  Caveat information
\* that came apart from the id makes the id the prefix of further ids.
NewDischarge(c) ==
  NewMacaroon(c.key, c.id, c.version, IF IsExternal(c) THEN c.id ELSE <<>>)

SignatureOf(m) == [key |-> m.key, length |-> m.length]

Bind(ms) ==
  [i \in DOMAIN ms |-> IF i = 1 THEN ms[1]
                       ELSE [ms[i] EXCEPT !.boundTo = Append(@, SignatureOf(ms[1]))]]

Discharges(ms) == 2..Len(ms)

\* The third-party caveats of a slice: which macaroon, which of its caveats.
Uses(ms) == UNION {{i} \X DOMAIN ms[i].caveats : i \in DOMAIN ms}

CaveatOf(ms, u) == ms[u[1]].caveats[u[2]]

\* Macaroon i is the discharge of that caveat.
Meets(ms, i, u) == ms[i].id = CaveatOf(ms, u).id /\ ms[i].key = CaveatOf(ms, u).key

\* The server's verification (macaroon.v2): the discharge found by a caveat's
\* id must be made with the caveat's root key and bound to the primary, and
\* every discharge must be used exactly once.  The walk of macaroon.v2 starts
\* at the primary and visits every caveat below it; the root key of a
\* discharge is drawn before its own caveats' keys, so the walk has no cycle.
Verifies(ms) ==
  /\ Len(ms) > 0
  /\ ms[1].boundTo = <<>>
  /\ \A i \in Discharges(ms) : ms[i].boundTo = <<SignatureOf(ms[1])>>
  /\ \A u \in Uses(ms) : \E i \in Discharges(ms) : Meets(ms, i, u)
  /\ \A i \in Discharges(ms) : \E u \in Uses(ms) : CaveatOf(ms, u).id = ms[i].id
  /\ \A u, v \in Uses(ms) : CaveatOf(ms, u).id = CaveatOf(ms, v).id => u = v
  /\ \A i, j \in Discharges(ms) : ms[i].id = ms[j].id => i = j
=============================================================================
