------------------------ MODULE DischargeSlice_proofs ------------------------
(***************************************************************************)
(* Proofs about DischargeSlice, for any number of root keys, third parties *)
(* and times: ids are distinct throughout, and what is sent after a        *)
(* DischargeAll that reported success verifies.                            *)
(***************************************************************************)
EXTENDS DischargeSlice, Induction

-----------------------------------------------------------------------------
(* Macaroons and their caveats.                                            *)

LEMMA UsesElements ==
  ASSUME NEW s
  PROVE  /\ \A i \in DOMAIN s : \A n \in DOMAIN s[i].caveats : <<i, n>> \in Uses(s)
         /\ \A u \in Uses(s) : \E i \in DOMAIN s : \E n \in DOMAIN s[i].caveats : u = <<i, n>>
BY DEF Uses

LEMMA CaveatOfPlace ==
  ASSUME NEW s, NEW i, NEW n
  PROVE  CaveatOf(s, <<i, n>>) = s[i].caveats[n]
BY DEF CaveatOf

LEMMA MacaroonTypes ==
  ASSUME NEW m \in Macaroon
  PROVE  /\ m.id \in Seq(Nat) /\ m.prefix \in Seq(Nat) /\ m.key \in Nat /\ m.version \in {2, 3}
         /\ m.caveats \in Seq(Caveat) /\ m.length \in Nat /\ m.expiry \in Times
         /\ m.boundTo \in Seq(Signature)
         /\ Len(m.caveats) \in Nat /\ DOMAIN m.caveats = 1..Len(m.caveats)
         /\ \A n \in DOMAIN m.caveats : m.caveats[n] \in Caveat
BY DEF Macaroon, Id

LEMMA CaveatTypes ==
  ASSUME NEW c \in Caveat
  PROVE  /\ c.id \in Seq(Nat) /\ c.key \in Nat /\ c.local \in BOOLEAN
         /\ c.holder \in Holders /\ c.version \in {2, 3}
BY DEF Caveat, Id

LEMMA SliceTypes ==
  ASSUME NEW s, Slice(s)
  PROVE  /\ s \in Seq(Macaroon) /\ Len(s) \in Nat /\ DOMAIN s = 1..Len(s)
         /\ \A i \in DOMAIN s : s[i] \in Macaroon
         /\ \A i \in DOMAIN s : s[i].id = <<>> <=> i = 1
         /\ Discharges(s) \subseteq DOMAIN s /\ Discharges(s) = DOMAIN s \ {1}
BY DEF Slice, Discharges

LEMMA NumberTypes ==
  /\ MaxTime \in Nat /\ MaxKeys \in Nat
  /\ \A h \in Holders : Version[h] \in {2, 3}
BY MacaroonsAssumption, DischargeSliceAssumption

LEMMA BaseType ==
  ASSUME NEW m \in Macaroon
  PROVE  Base(m) \in Seq(Nat)
BY MacaroonTypes DEF Base

\* The id of an external caveat is an external one, and tells whose it is.
LEMMA ExtendsBase ==
  ASSUME NEW m \in Macaroon, NEW drawn, Formed(m, drawn), NEW id \in Seq(Nat), Extends(id, Base(m))
  PROVE  External(id)
<1>1. m.prefix \in Seq(Nat)
  BY MacaroonTypes
<1>2. CASE m.prefix = <<>>
  <2>1. Base(m) = <<3>>
    BY <1>2 DEF Base
  <2>2. Len(<<3>>) = 1 /\ DOMAIN <<3>> = {1} /\ <<3>>[1] = 3
    OBVIOUS
  <2> QED
    BY <2>1, <2>2 DEF Extends, External
<1>3. CASE m.prefix # <<>>
  <2>1. Base(m) = m.prefix /\ External(m.prefix)
    BY <1>3 DEF Base, Formed
  <2>2. Len(m.prefix) \in Nat /\ Len(m.prefix) >= 2 /\ 1 \in DOMAIN m.prefix
    BY <1>1, <2>1 DEF External
  <2> QED
    BY <2>1, <2>2 DEF Extends, External
<1> QED
  BY <1>2, <1>3

LEMMA SameBase ==
  ASSUME NEW b \in Seq(Nat), NEW c \in Seq(Nat), NEW id \in Seq(Nat), Extends(id, b), Extends(id, c)
  PROVE  b = c
<1>1. /\ Len(id) = Len(b) + 1 /\ \A n \in DOMAIN b : id[n] = b[n]
      /\ Len(id) = Len(c) + 1 /\ \A n \in DOMAIN c : id[n] = c[n]
  BY DEF Extends
<1>2. Len(b) = Len(c) /\ DOMAIN b = 1..Len(b) /\ DOMAIN c = 1..Len(c)
  BY <1>1
<1>3. \A n \in 1..Len(b) : b[n] = c[n]
  BY <1>1, <1>2
<1>4. b = [n \in 1..Len(b) |-> b[n]] /\ c = [n \in 1..Len(c) |-> c[n]]
  BY <1>2
<1> QED
  BY <1>2, <1>3, <1>4

\* Of two macaroons with the same base, both are discharges of the same
\* caveat, or neither is prefixed.
LEMMA BasesDiffer ==
  ASSUME NEW m \in Macaroon, NEW p \in Macaroon, NEW drawn, Formed(m, drawn), Formed(p, drawn),
         m.version = 3, p.version = 3, Base(m) = Base(p)
  PROVE  m.id = p.id
<1>1. /\ m.prefix = m.id /\ (m.prefix # <<>> => External(m.prefix))
      /\ p.prefix = p.id /\ (p.prefix # <<>> => External(p.prefix))
  BY DEF Formed
<1>2. Len(<<3>>) = 1
  OBVIOUS
<1>3. ~External(<<3>>)
  BY <1>2 DEF External
<1> QED
  BY <1>1, <1>3 DEF Base

\* The caveats of a slice have distinct ids because its discharges have, and
\* its caveats have distinct keys.
LEMMA DistinctUseIds ==
  ASSUME NEW s, Slice(s), NEW drawn, \A i \in DOMAIN s : Formed(s[i], drawn), DistinctKeys(s),
         \A i, j \in Discharges(s) : s[i].id = s[j].id => i = j
  PROVE  DistinctIds(s)
<1>0. SUFFICES ASSUME NEW u \in Uses(s), NEW v \in Uses(s), CaveatOf(s, u).id = CaveatOf(s, v).id
               PROVE  u = v
  BY DEF DistinctIds
<1>1. PICK i \in DOMAIN s : \E n \in DOMAIN s[i].caveats : u = <<i, n>>
  BY UsesElements
<1>2. PICK n \in DOMAIN s[i].caveats : u = <<i, n>>
  BY <1>1
<1>3. PICK j \in DOMAIN s : \E k \in DOMAIN s[j].caveats : v = <<j, k>>
  BY UsesElements
<1>4. PICK k \in DOMAIN s[j].caveats : v = <<j, k>>
  BY <1>3
<1> DEFINE c == s[i].caveats[n]
           d == s[j].caveats[k]
<1>5. CaveatOf(s, u) = c /\ CaveatOf(s, v) = d
  BY <1>2, <1>4, CaveatOfPlace
<1>6. s[i] \in Macaroon /\ s[j] \in Macaroon /\ Formed(s[i], drawn) /\ Formed(s[j], drawn)
  BY SliceTypes
<1>7. c \in Caveat /\ d \in Caveat
  BY <1>6, MacaroonTypes
<1>8. c.id \in Seq(Nat) /\ d.id \in Seq(Nat) /\ c.key \in Nat /\ d.key \in Nat /\ c.id = d.id
  BY <1>0, <1>5, <1>7, CaveatTypes
<1>9. /\ IF IsExternal(c) THEN s[i].version = 3 /\ Extends(c.id, Base(s[i])) ELSE c.id = <<2, c.key>>
      /\ IF IsExternal(d) THEN s[j].version = 3 /\ Extends(d.id, Base(s[j])) ELSE d.id = <<2, d.key>>
  BY <1>6 DEF Formed
<1>10. c.key = d.key => u = v
  BY <1>5 DEF DistinctKeys
<1> HIDE DEF c, d
<1>11. CASE ~IsExternal(c) /\ ~IsExternal(d)
  <2>1. <<2, c.key>> = <<2, d.key>>
    BY <1>8, <1>9, <1>11
  <2> QED
    BY <2>1, <1>10
<1>12. CASE IsExternal(c) /\ IsExternal(d)
  <2>1. Base(s[i]) = Base(s[j])
    BY <1>6, <1>8, <1>9, <1>12, BaseType, SameBase
  <2>2. s[i].id = s[j].id
    BY <2>1, <1>6, <1>9, <1>12, BasesDiffer
  <2>3. i = j
    BY <2>2, SliceTypes
  <2>4. n = k
    BY <2>3, <1>6, <1>8 DEF Formed, c, d
  <2> QED
    BY <2>3, <2>4, <1>2, <1>4
<1>13. CASE IsExternal(c) /\ ~IsExternal(d)
  <2>1. External(c.id)
    BY <1>6, <1>8, <1>9, <1>13, ExtendsBase
  <2>2. c.id = <<2, d.key>> /\ <<2, d.key>>[1] = 2
    BY <1>8, <1>9, <1>13
  <2> QED
    BY <2>1, <2>2 DEF External
<1>14. CASE ~IsExternal(c) /\ IsExternal(d)
  <2>1. External(d.id)
    BY <1>6, <1>8, <1>9, <1>14, ExtendsBase
  <2>2. d.id = <<2, c.key>> /\ <<2, c.key>>[1] = 2
    BY <1>8, <1>9, <1>14
  <2> QED
    BY <2>1, <2>2 DEF External
<1> QED
  BY <1>11, <1>12, <1>13, <1>14
-----------------------------------------------------------------------------
(* Adding caveats.                                                         *)

LEMMA AppendExtends ==
  ASSUME NEW b \in Seq(Nat), NEW i \in Nat
  PROVE  /\ Append(b, i) \in Seq(Nat) /\ Extends(Append(b, i), b)
         /\ Append(b, i)[Len(b) + 1] = i
BY DEF Extends

\* A new id is none of those the macaroon's caveats have: one more number
\* is tried than there are caveats.
LEMMA NewCaveatIdFresh ==
  ASSUME NEW m \in Macaroon
  PROVE  /\ NewCaveatId(m) \in Seq(Nat)
         /\ Extends(NewCaveatId(m), Base(m))
         /\ \A n \in DOMAIN m.caveats : m.caveats[n].id # NewCaveatId(m)
<1> DEFINE length == Len(m.caveats)
           first == ExternalCount(m)
           last == first + length
<1>1. length \in Nat /\ DOMAIN m.caveats = 1..length
  BY MacaroonTypes
<1>2. first \in Nat /\ last \in Nat
  <2>1. IsFiniteSet(1..length)
    BY <1>1, FS_Interval
  <2>2. {n \in DOMAIN m.caveats : IsExternal(m.caveats[n])} \in SUBSET (1..length)
    BY <1>1
  <2>3. first \in Nat
    BY <2>1, <2>2, FS_Subset, FS_CardinalityType DEF ExternalCount
  <2> QED
    BY <2>3, <1>1
<1> HIDE DEF length, first
<1>3. \E i \in first..last : ~Taken(m, i)
  <2> SUFFICES ASSUME \A i \in first..last : Taken(m, i) PROVE FALSE
    OBVIOUS
  <2> DEFINE f == [i \in first..last |-> CHOOSE n \in 1..length : m.caveats[n].id = Append(Base(m), i)]
  <2>1. ASSUME NEW i \in first..last PROVE f[i] \in 1..length /\ m.caveats[f[i]].id = Append(Base(m), i)
    <3>1. \E n \in 1..length : m.caveats[n].id = Append(Base(m), i)
      BY <1>1 DEF Taken
    <3> QED
      BY <3>1
  <2>2. f \in [first..last -> 1..length]
    BY <2>1
  <2> HIDE DEF f
  <2>3. /\ IsFiniteSet(first..last) /\ Cardinality(first..last) = length + 1
        /\ IsFiniteSet(1..length) /\ Cardinality(1..length) = length
    <3>1. last - first + 1 = length + 1 /\ ~(first > last) /\ first \in Int /\ last \in Int
      BY <1>1, <1>2
    <3>2. IsFiniteSet(first..last) /\ Cardinality(first..last) = length + 1
      <4>1. IsFiniteSet(first..last) /\ Cardinality(first..last) = IF first > last THEN 0 ELSE last - first + 1
        BY <3>1, FS_Interval
      <4> QED
        BY <3>1, <4>1
    <3>3. IsFiniteSet(1..length) /\ Cardinality(1..length) = length
      BY <1>1, FS_Interval
    <3> QED
      BY <3>2, <3>3
  <2>4. \E i, j \in first..last : i # j /\ f[i] = f[j]
    <3> DEFINE S == first..last
               T == 1..length
    <3>1. f \in [S -> T] /\ IsFiniteSet(S) /\ IsFiniteSet(T) /\ Cardinality(T) < Cardinality(S)
      BY <1>1, <2>2, <2>3
    <3> HIDE DEF S, T
    <3>2. \E i, j \in S : i # j /\ f[i] = f[j]
      BY <3>1, FS_PigeonHole
    <3> QED
      BY <3>2 DEF S
  <2>5. PICK i \in first..last, j \in first..last : i # j /\ f[i] = f[j]
    BY <2>4
  <2>6. i \in Nat /\ j \in Nat /\ Append(Base(m), i) = Append(Base(m), j)
    BY <1>2, <2>1, <2>5
  <2>7. i = Append(Base(m), i)[Len(Base(m)) + 1] /\ j = Append(Base(m), j)[Len(Base(m)) + 1]
    BY <2>6, BaseType, AppendExtends
  <2> QED
    BY <2>5, <2>6, <2>7
<1>4. \E i \in first..last : ~Taken(m, i) /\ \A j \in first..i - 1 : Taken(m, j)
  <2> DEFINE S == {i \in first..last : ~Taken(m, i)}
  <2>1. S # {} /\ S \in SUBSET Nat
    BY <1>2, <1>3
  <2>2. \A i \in S : i \in first..last /\ ~Taken(m, i)
    OBVIOUS
  <2>3. \A i \in first..last : i \notin S => Taken(m, i)
    OBVIOUS
  <2> HIDE DEF S
  <2>4. PICK i \in S : \A j \in S : i <= j
    BY <2>1, LeastNatural
  <2>5. ASSUME NEW j \in first..i - 1 PROVE Taken(m, j)
    <3>1. j \in first..last /\ ~(i <= j)
      BY <1>2, <2>2, <2>4
    <3> QED
      BY <2>3, <2>4, <3>1
  <2> QED
    BY <2>2, <2>4, <2>5
<1>5. PICK i \in first..last : NewCaveatId(m) = Append(Base(m), i) /\ ~Taken(m, i)
  <2> DEFINE i == CHOOSE i \in first..last : ~Taken(m, i) /\ \A j \in first..i - 1 : Taken(m, j)
  <2>1. i \in first..last /\ ~Taken(m, i)
    BY <1>4
  <2>2. NewCaveatId(m) = Append(Base(m), i)
    BY DEF NewCaveatId, first, length
  <2> QED
    BY <2>1, <2>2
<1>6. i \in Nat
  BY <1>2
<1>7. NewCaveatId(m) \in Seq(Nat) /\ Extends(NewCaveatId(m), Base(m))
  BY <1>5, <1>6, BaseType, AppendExtends
<1> QED
  BY <1>5, <1>7 DEF Taken

\* What version an added caveat has, and of what form its id is.
LEMMA NewCaveatFormed ==
  ASSUME NEW m \in Macaroon, NEW holder \in Holders, NEW local \in BOOLEAN, NEW drawn \in Nat
  PROVE  LET c == NewCaveat(m, holder, local, drawn)
         IN  /\ c \in Caveat /\ c.key = drawn
             /\ IF IsExternal(c) THEN m.version = 3 /\ c.id = NewCaveatId(m) ELSE c.id = <<2, drawn>>
<1>1. CaveatVersion(m, holder) \in {2, 3} /\ (CaveatVersion(m, holder) = 3 => m.version = 3)
  BY NumberTypes, MacaroonTypes DEF CaveatVersion
<1>2. NewCaveatId(m) \in Seq(Nat) /\ <<2, drawn>> \in Seq(Nat)
  BY NewCaveatIdFresh
<1> DEFINE v == CaveatVersion(m, holder)
           id == IF v < 3 THEN <<2, drawn>> ELSE NewCaveatId(m)
<1>3. v \in {2, 3} /\ (v = 3 => m.version = 3) /\ id \in Seq(Nat)
      /\ (v = 3 => id = NewCaveatId(m)) /\ (v # 3 => id = <<2, drawn>>)
  BY <1>1, <1>2
<1>4. NewCaveat(m, holder, local, drawn) =
        [id |-> id, key |-> drawn, local |-> local, holder |-> holder, version |-> v]
  BY DEF NewCaveat
<1> HIDE DEF v, id
<1> QED
  BY <1>3, <1>4 DEF Caveat, Id, IsExternal

LEMMA AddedFields ==
  ASSUME NEW m \in Macaroon, NEW holder \in Holders, NEW local \in BOOLEAN, NEW drawn \in Nat
  PROVE  LET n == AddThirdParty(m, holder, local, drawn)
         IN  /\ n \in Macaroon
             /\ n.id = m.id /\ n.key = m.key /\ n.version = m.version /\ n.prefix = m.prefix
             /\ n.boundTo = m.boundTo
             /\ n.caveats = Append(m.caveats, NewCaveat(m, holder, local, drawn))
<1> DEFINE c == NewCaveat(m, holder, local, drawn)
           n == AddThirdParty(m, holder, local, drawn)
<1>1. c \in Caveat
  BY NewCaveatFormed
<1>2. n = [m EXCEPT !.length = m.length + 1, !.caveats = Append(m.caveats, c)]
  BY DEF AddThirdParty
<1> HIDE DEF c, n
<1>3. Append(m.caveats, c) \in Seq(Caveat) /\ m.length + 1 \in Nat
  BY <1>1, MacaroonTypes
<1>4. n \in Macaroon
  BY <1>2, <1>3 DEF Macaroon
<1>5. n.id = m.id /\ n.key = m.key /\ n.version = m.version /\ n.prefix = m.prefix
      /\ n.boundTo = m.boundTo /\ n.caveats = Append(m.caveats, c)
  BY <1>2 DEF Macaroon
<1> QED
  BY <1>4, <1>5 DEF c, n

LEMMA FormedLater ==
  ASSUME NEW m \in Macaroon, NEW drawn \in Nat, Formed(m, drawn)
  PROVE  Formed(m, drawn + 1)
<1>1. \A n \in DOMAIN m.caveats : m.caveats[n].key \in Nat
  BY MacaroonTypes, CaveatTypes
<1>2. \A n \in DOMAIN m.caveats : m.caveats[n].key < drawn + 1
  BY <1>1 DEF Formed
<1> QED
  BY <1>2 DEF Formed

LEMMA AddedFormed ==
  ASSUME NEW m \in Macaroon, NEW holder \in Holders, NEW local \in BOOLEAN, NEW drawn \in Nat,
         Formed(m, drawn)
  PROVE  Formed(AddThirdParty(m, holder, local, drawn), drawn + 1)
<1> DEFINE c == NewCaveat(m, holder, local, drawn)
           p == AddThirdParty(m, holder, local, drawn)
           length == Len(m.caveats)
<1>1. /\ p \in Macaroon /\ p.id = m.id /\ p.version = m.version /\ p.prefix = m.prefix
      /\ p.boundTo = m.boundTo /\ p.caveats = Append(m.caveats, c)
  BY AddedFields
<1>2. /\ c \in Caveat /\ c.key = drawn
      /\ IF IsExternal(c) THEN m.version = 3 /\ c.id = NewCaveatId(m) ELSE c.id = <<2, drawn>>
  BY NewCaveatFormed
<1>3. /\ length \in Nat /\ m.caveats \in Seq(Caveat) /\ DOMAIN m.caveats = 1..length
      /\ \A n \in 1..length : m.caveats[n] \in Caveat
  BY MacaroonTypes
<1>4. /\ Base(p) = Base(m) /\ Extends(NewCaveatId(m), Base(m))
      /\ \A n \in DOMAIN m.caveats : m.caveats[n].id # NewCaveatId(m)
  BY <1>1, NewCaveatIdFresh DEF Base
<1>5. Formed(m, drawn + 1)
  BY FormedLater
<1> HIDE DEF c, p, length
<1>6. /\ DOMAIN p.caveats = 1..(length + 1)
      /\ \A n \in 1..length : p.caveats[n] = m.caveats[n]
      /\ p.caveats[length + 1] = c
  BY <1>1, <1>2, <1>3 DEF length
<1>7. \A n \in DOMAIN p.caveats : n \in 1..length \/ n = length + 1
  BY <1>3, <1>6
<1>8. ASSUME NEW n \in DOMAIN p.caveats
      PROVE  /\ p.caveats[n].key < drawn + 1
             /\ IF IsExternal(p.caveats[n]) THEN p.version = 3 /\ Extends(p.caveats[n].id, Base(p))
                                             ELSE p.caveats[n].id = <<2, p.caveats[n].key>>
  <2>1. CASE n \in 1..length
    BY <2>1, <1>1, <1>3, <1>4, <1>5, <1>6 DEF Formed
  <2>2. CASE n = length + 1
    BY <2>2, <1>1, <1>2, <1>4, <1>6
  <2> QED
    BY <2>1, <2>2, <1>7
\* The new caveat's id and key are none that the others have.
<1>9. ASSUME NEW n \in 1..length
      PROVE  p.caveats[n].id # c.id /\ p.caveats[n].key # c.key
  <2> DEFINE d == m.caveats[n]
  <2>1. /\ d \in Caveat /\ d.key < drawn /\ d.id # NewCaveatId(m)
        /\ IF IsExternal(d) THEN m.version = 3 /\ Extends(d.id, Base(m)) ELSE d.id = <<2, d.key>>
    BY <1>3, <1>4 DEF Formed
  <2>2. d.id \in Seq(Nat) /\ d.key \in Nat /\ c.id \in Seq(Nat)
    BY <2>1, <1>2, CaveatTypes
  <2>3. p.caveats[n] = d
    BY <1>6
  <2> HIDE DEF d
  <2>4. d.key # c.key
    BY <2>1, <2>2, <1>2
  <2>5. CASE IsExternal(c)
    BY <2>5, <2>1, <1>2, <2>3, <2>4
  <2>6. CASE ~IsExternal(c) /\ ~IsExternal(d)
    <3>1. <<2, d.key>> # <<2, drawn>>
      BY <2>1, <2>2
    <3> QED
      BY <3>1, <2>6, <2>1, <1>2, <2>3, <2>4
  <2>7. CASE ~IsExternal(c) /\ IsExternal(d)
    <3>1. External(d.id)
      BY <2>1, <2>2, <2>7, ExtendsBase
    <3>2. <<2, drawn>>[1] = 2 /\ d.id[1] = 3
      BY <3>1 DEF External
    <3> QED
      BY <3>2, <2>7, <1>2, <2>3, <2>4
  <2> QED
    BY <2>5, <2>6, <2>7
<1>10. ASSUME NEW n \in DOMAIN p.caveats, NEW k \in DOMAIN p.caveats,
              p.caveats[n].id = p.caveats[k].id \/ p.caveats[n].key = p.caveats[k].key
       PROVE  n = k
  <2>1. CASE n \in 1..length /\ k \in 1..length
    BY <2>1, <1>3, <1>5, <1>6, <1>10 DEF Formed
  <2>2. CASE n \in 1..length /\ k = length + 1
    BY <2>2, <1>6, <1>9, <1>10
  <2>3. CASE n = length + 1 /\ k \in 1..length
    BY <2>3, <1>6, <1>9, <1>10
  <2> QED
    BY <2>1, <2>2, <2>3, <1>7
<1>11. /\ p.boundTo = <<>> /\ p.prefix = (IF p.version = 3 THEN p.id ELSE <<>>)
       /\ (p.prefix # <<>> => External(p.prefix))
  BY <1>1, <1>5 DEF Formed
<1>12. Formed(p, drawn + 1)
  BY <1>8, <1>10, <1>11 DEF Formed
<1> QED
  BY <1>12 DEF p

LEMMA ExpiryFields ==
  ASSUME NEW m \in Macaroon, NEW t \in Times
  PROVE  LET n == AddTimeBefore(m, t)
         IN  /\ n \in Macaroon
             /\ n.id = m.id /\ n.key = m.key /\ n.version = m.version /\ n.prefix = m.prefix
             /\ n.boundTo = m.boundTo /\ n.caveats = m.caveats
<1> DEFINE n == AddTimeBefore(m, t)
           e == IF t < m.expiry THEN t ELSE m.expiry
<1>1. n = [m EXCEPT !.length = m.length + 1, !.expiry = e]
  BY DEF AddTimeBefore
<1>2. e \in Times /\ m.length + 1 \in Nat
  BY MacaroonTypes
<1> HIDE DEF e, n
<1>3. n \in Macaroon
  BY <1>1, <1>2 DEF Macaroon
<1>4. n.id = m.id /\ n.key = m.key /\ n.version = m.version /\ n.prefix = m.prefix
      /\ n.boundTo = m.boundTo /\ n.caveats = m.caveats
  BY <1>1 DEF Macaroon
<1> QED
  BY <1>3, <1>4 DEF n

\* Formed looks at these fields only.
LEMMA FormedFields ==
  ASSUME NEW m, NEW p, NEW drawn, Formed(m, drawn), p.id = m.id, p.version = m.version,
         p.prefix = m.prefix, p.boundTo = m.boundTo, p.caveats = m.caveats
  PROVE  Formed(p, drawn)
BY DEF Formed, Base

LEMMA NewMacaroonFields ==
  ASSUME NEW key \in Nat, NEW id \in Id, NEW version \in {2, 3}, NEW prefix \in Id
  PROVE  LET m == NewMacaroon(key, id, version, prefix)
         IN  /\ m \in Macaroon /\ m.id = id /\ m.key = key /\ m.version = version /\ m.prefix = prefix
             /\ m.caveats = <<>> /\ m.boundTo = <<>>
<1>1. <<>> \in Seq(Caveat) /\ <<>> \in Seq(Signature) /\ 0 \in Nat
  OBVIOUS
<1>2. Never \in Times
  BY NumberTypes DEF Never, Times
<1> QED
  BY <1>1, <1>2 DEF NewMacaroon, Macaroon

LEMMA NewPrimaryFormed ==
  ASSUME NEW key \in Nat, NEW drawn, NEW m \in Primaries(key)
  PROVE  m \in Macaroon /\ m.id = <<>> /\ m.caveats = <<>> /\ Formed(m, drawn)
<1>1. PICK v \in {2, 3} : m = NewMacaroon(key, <<>>, v, <<>>)
  BY DEF Primaries
<1>2. <<>> \in Id
  BY DEF Id
<1>3. /\ m \in Macaroon /\ m.id = <<>> /\ m.prefix = <<>> /\ m.caveats = <<>> /\ m.boundTo = <<>>
  BY <1>1, <1>2, NewMacaroonFields
<1>4. DOMAIN m.caveats = {}
  BY <1>3
<1> QED
  BY <1>3, <1>4 DEF Formed

LEMMA NewDischargeFormed ==
  ASSUME NEW c \in Caveat, NEW drawn, IsExternal(c) => External(c.id)
  PROVE  LET d == NewDischarge(c)
         IN  /\ d \in Macaroon /\ d.id = c.id /\ d.key = c.key /\ d.version = c.version
             /\ d.caveats = <<>> /\ Formed(d, drawn)
<1> DEFINE d == NewDischarge(c)
<1>1. c.id \in Id /\ <<>> \in Id /\ c.key \in Nat /\ c.version \in {2, 3}
  BY CaveatTypes DEF Id
<1>2. /\ d \in Macaroon /\ d.id = c.id /\ d.key = c.key /\ d.version = c.version
      /\ d.prefix = (IF IsExternal(c) THEN c.id ELSE <<>>) /\ d.caveats = <<>> /\ d.boundTo = <<>>
  BY <1>1, NewMacaroonFields DEF NewDischarge
<1> HIDE DEF d
<1>3. DOMAIN d.caveats = {}
  BY <1>2
<1>4. Formed(d, drawn)
  BY <1>2, <1>3 DEF Formed, IsExternal
<1> QED
  BY <1>2, <1>4 DEF d
-----------------------------------------------------------------------------
(* Slices.                                                                 *)

\* Distinct keys, by place.
KeysApart(s) ==
  \A i, j \in DOMAIN s : \A n \in DOMAIN s[i].caveats : \A k \in DOMAIN s[j].caveats :
    s[i].caveats[n].key = s[j].caveats[k].key => i = j /\ n = k

LEMMA KeysByPlace ==
  ASSUME NEW s
  PROVE  DistinctKeys(s) <=> KeysApart(s)
<1>1. ASSUME DistinctKeys(s) PROVE KeysApart(s)
  <2> SUFFICES ASSUME NEW i \in DOMAIN s, NEW j \in DOMAIN s,
                      NEW n \in DOMAIN s[i].caveats, NEW k \in DOMAIN s[j].caveats,
                      s[i].caveats[n].key = s[j].caveats[k].key
               PROVE  i = j /\ n = k
    BY DEF KeysApart
  <2>1. <<i, n>> \in Uses(s) /\ <<j, k>> \in Uses(s)
    BY UsesElements
  <2>2. <<i, n>> = <<j, k>>
    BY <2>1, <1>1, CaveatOfPlace DEF DistinctKeys
  <2> QED
    BY <2>2
<1>2. ASSUME KeysApart(s) PROVE DistinctKeys(s)
  <2> SUFFICES ASSUME NEW u \in Uses(s), NEW v \in Uses(s), CaveatOf(s, u).key = CaveatOf(s, v).key
               PROVE  u = v
    BY DEF DistinctKeys
  <2>1. PICK i \in DOMAIN s : \E n \in DOMAIN s[i].caveats : u = <<i, n>>
    BY UsesElements
  <2>2. PICK n \in DOMAIN s[i].caveats : u = <<i, n>>
    BY <2>1
  <2>3. PICK j \in DOMAIN s : \E k \in DOMAIN s[j].caveats : v = <<j, k>>
    BY UsesElements
  <2>4. PICK k \in DOMAIN s[j].caveats : v = <<j, k>>
    BY <2>3
  <2>5. s[i].caveats[n].key = s[j].caveats[k].key
    BY <2>2, <2>4, CaveatOfPlace
  <2> QED
    BY <2>2, <2>4, <2>5, <1>2 DEF KeysApart
<1> QED
  BY <1>1, <1>2

LEMMA SoundParts ==
  ASSUME NEW s, Slice(s), NEW drawn
  PROVE  Sound(s, drawn) <=> /\ \A i \in DOMAIN s : Formed(s[i], drawn)
                             /\ KeysApart(s)
                             /\ \A i, j \in DOMAIN s : s[i].id = s[j].id => i = j
<1>1. ASSUME Sound(s, drawn)
      PROVE  \A i, j \in DOMAIN s : s[i].id = s[j].id => i = j
  <2>1. \A i, j \in DOMAIN s \ {1} : s[i].id = s[j].id => i = j
    BY <1>1, SliceTypes DEF Sound, DistinctIds
  <2>2. \A i \in DOMAIN s : s[i].id = <<>> <=> i = 1
    BY SliceTypes
  <2> QED
    BY <2>1, <2>2
<1>2. ASSUME \A i, j \in DOMAIN s : s[i].id = s[j].id => i = j
      PROVE  \A i, j \in Discharges(s) : s[i].id = s[j].id => i = j
  BY <1>2, SliceTypes
<1>3. ASSUME \A i \in DOMAIN s : Formed(s[i], drawn), DistinctKeys(s),
             \A i, j \in DOMAIN s : s[i].id = s[j].id => i = j
      PROVE  DistinctIds(s)
  BY <1>2, <1>3, DistinctUseIds
<1> QED
  BY <1>1, <1>3, KeysByPlace DEF Sound

LEMMA SoundLater ==
  ASSUME NEW s, Slice(s), NEW drawn \in Nat, Sound(s, drawn)
  PROVE  Sound(s, drawn + 1)
<1>1. \A i \in DOMAIN s : Formed(s[i], drawn + 1)
  BY SliceTypes, FormedLater DEF Sound
<1> QED
  BY <1>1 DEF Sound

LEMMA NothingSound ==
  ASSUME NEW drawn
  PROVE  Slice(<<>>) /\ Sound(<<>>, drawn) /\ Uses(<<>>) = {} /\ Discharges(<<>>) = {}
<1>1. Slice(<<>>)
  BY DEF Slice
<1>2. DOMAIN <<>> = {}
  OBVIOUS
<1>3. Sound(<<>>, drawn)
  BY <1>1, <1>2, SoundParts DEF KeysApart
<1> QED
  BY <1>1, <1>2, <1>3, UsesElements, SliceTypes

LEMMA SingleSound ==
  ASSUME NEW m \in Macaroon, m.id = <<>>, m.caveats = <<>>, NEW drawn, Formed(m, drawn)
  PROVE  Slice(<<m>>) /\ Sound(<<m>>, drawn) /\ Len(<<m>>) = 1
<1>1. <<m>> \in Seq(Macaroon) /\ Len(<<m>>) = 1 /\ DOMAIN <<m>> = {1} /\ <<m>>[1] = m
  OBVIOUS
<1>2. Slice(<<m>>)
  BY <1>1 DEF Slice
<1>3. DOMAIN m.caveats = {}
  OBVIOUS
<1>4. KeysApart(<<m>>)
  BY <1>1, <1>3 DEF KeysApart
<1>5. \A i \in DOMAIN <<m>> : Formed(<<m>>[i], drawn)
  BY <1>1
<1>6. Sound(<<m>>, drawn)
  BY <1>1, <1>2, <1>4, <1>5, SoundParts
<1> QED
  BY <1>1, <1>2, <1>6

LEMMA PrimaryReplaced ==
  ASSUME NEW s, Slice(s), Len(s) > 0, NEW drawn \in Nat, Sound(s, drawn),
         NEW p \in Macaroon, p.id = <<>>, NEW after \in {drawn, drawn + 1}, Formed(p, after),
         \A n \in DOMAIN p.caveats : \/ n \in DOMAIN s[1].caveats /\ p.caveats[n] = s[1].caveats[n]
                                     \/ p.caveats[n].key = drawn
  PROVE  LET r == [s EXCEPT ![1] = p]
         IN  Slice(r) /\ Sound(r, after) /\ Len(r) = Len(s)
<1> DEFINE r == [s EXCEPT ![1] = p]
<1>1. /\ s \in Seq(Macaroon) /\ Len(s) \in Nat /\ DOMAIN s = 1..Len(s) /\ 1 \in DOMAIN s
      /\ \A i \in DOMAIN s : s[i] \in Macaroon
      /\ \A i \in DOMAIN s : s[i].id = <<>> <=> i = 1
  BY SliceTypes
<1>2. /\ r \in Seq(Macaroon) /\ Len(r) = Len(s) /\ DOMAIN r = DOMAIN s
      /\ r[1] = p /\ \A i \in DOMAIN s : i # 1 => r[i] = s[i]
  BY <1>1
<1>3. /\ \A i \in DOMAIN s : Formed(s[i], drawn)
      /\ KeysApart(s)
      /\ \A i, j \in DOMAIN s : s[i].id = s[j].id => i = j
  BY SoundParts
<1> HIDE DEF r
<1>4. Slice(r)
  BY <1>1, <1>2 DEF Slice
<1>5. \A i \in DOMAIN s : r[i].id = s[i].id
  BY <1>1, <1>2
<1>6. \A i \in DOMAIN r : Formed(r[i], after)
  <2>1. \A i \in DOMAIN s : Formed(s[i], after)
    BY <1>1, <1>3, FormedLater
  <2> QED
    BY <2>1, <1>2
<1>7. ASSUME NEW n \in DOMAIN p.caveats, NEW j \in DOMAIN s, j # 1, NEW k \in DOMAIN s[j].caveats
      PROVE  p.caveats[n].key # s[j].caveats[k].key
  <2>1. s[j].caveats[k].key < drawn /\ s[j].caveats[k].key \in Nat
    BY <1>1, <1>3, MacaroonTypes, CaveatTypes DEF Formed
  <2>2. CASE n \in DOMAIN s[1].caveats /\ p.caveats[n] = s[1].caveats[n]
    BY <2>2, <1>1, <1>3, <1>7 DEF KeysApart
  <2>3. CASE p.caveats[n].key = drawn
    BY <2>1, <2>3
  <2> QED
    BY <2>2, <2>3
<1>8. KeysApart(r)
  <2> SUFFICES ASSUME NEW i \in DOMAIN s, NEW j \in DOMAIN s,
                      NEW n \in DOMAIN r[i].caveats, NEW k \in DOMAIN r[j].caveats,
                      r[i].caveats[n].key = r[j].caveats[k].key
               PROVE  i = j /\ n = k
    BY <1>2 DEF KeysApart
  <2>1. CASE i = 1 /\ j = 1
    BY <2>1, <1>2 DEF Formed
  <2>2. CASE i = 1 /\ j # 1
    BY <2>2, <1>2, <1>7
  <2>3. CASE i # 1 /\ j = 1
    BY <2>3, <1>2, <1>7
  <2>4. CASE i # 1 /\ j # 1
    BY <2>4, <1>2, <1>3 DEF KeysApart
  <2> QED
    BY <2>1, <2>2, <2>3, <2>4
<1>9. Sound(r, after)
  BY <1>2, <1>3, <1>4, <1>5, <1>6, <1>8, SoundParts
<1> QED
  BY <1>2, <1>4, <1>9 DEF r

LEMMA SubsequenceSound ==
  ASSUME NEW s, Slice(s), NEW drawn, Sound(s, drawn), NEW K \in SUBSET (DOMAIN s), 1 \in K
  PROVE  LET r == Subsequence(s, K)
         IN  Slice(r) /\ Sound(r, drawn) /\ Len(r) > 0
<1> DEFINE r == Subsequence(s, K)
           N == Cardinality(K)
<1>1. /\ s \in Seq(Macaroon) /\ \A i \in DOMAIN s : s[i] \in Macaroon
      /\ \A i \in DOMAIN s : s[i].id = <<>> <=> i = 1
  BY SliceTypes
<1>2. N \in Nat /\ r \in Seq(Macaroon) /\ Len(r) = N /\ DOMAIN r = 1..N
  BY <1>1, SubsequencePlaces
<1>3. PICK g \in [1..N -> K] :
              /\ \A j \in 1..N : r[j] = s[g[j]]
              /\ \A j, k \in 1..N : g[j] = g[k] => j = k
              /\ \A i \in K : \E j \in 1..N : g[j] = i
              /\ 1 \in K => 1 \in 1..N /\ g[1] = 1
  BY <1>1, SubsequencePlaces
<1> HIDE DEF r, N
<1>4. \A j \in 1..N : g[j] \in DOMAIN s /\ (g[j] = 1 <=> j = 1)
  BY <1>3
<1>5. Slice(r)
  BY <1>1, <1>2, <1>3, <1>4 DEF Slice
<1>6. /\ \A i \in DOMAIN s : Formed(s[i], drawn)
      /\ KeysApart(s)
      /\ \A i, j \in DOMAIN s : s[i].id = s[j].id => i = j
  BY SoundParts
<1>7. KeysApart(r)
  <2> SUFFICES ASSUME NEW i \in 1..N, NEW j \in 1..N,
                      NEW n \in DOMAIN r[i].caveats, NEW k \in DOMAIN r[j].caveats,
                      r[i].caveats[n].key = r[j].caveats[k].key
               PROVE  i = j /\ n = k
    BY <1>2 DEF KeysApart
  <2>1. g[i] = g[j] /\ n = k
    BY <1>3, <1>4, <1>6 DEF KeysApart
  <2> QED
    BY <2>1, <1>3
<1>8. \A i, j \in DOMAIN r : r[i].id = r[j].id => i = j
  BY <1>2, <1>3, <1>4, <1>6
<1>9. \A i \in DOMAIN r : Formed(r[i], drawn)
  BY <1>2, <1>3, <1>4, <1>6
<1>10. Sound(r, drawn)
  BY <1>5, <1>7, <1>8, <1>9, SoundParts
<1>11. Len(r) > 0
  BY <1>2, <1>3
<1> QED
  BY <1>5, <1>10, <1>11 DEF r

LEMMA AppendSound ==
  ASSUME NEW s, Slice(s), Len(s) > 0, NEW drawn, Sound(s, drawn),
         NEW d \in Macaroon, Formed(d, drawn), d.id # <<>>,
         \A i \in Discharges(s) : s[i].id # d.id,
         \A n \in DOMAIN d.caveats : \A u \in Uses(s) : d.caveats[n].key # CaveatOf(s, u).key
  PROVE  LET r == Append(s, d)
         IN  /\ Slice(r) /\ Sound(r, drawn)
             /\ Len(r) = Len(s) + 1 /\ r[Len(s) + 1] = d /\ \A i \in DOMAIN s : r[i] = s[i]
<1> DEFINE r == Append(s, d)
           N == Len(s)
<1>1. /\ s \in Seq(Macaroon) /\ N \in Nat /\ DOMAIN s = 1..N
      /\ \A i \in DOMAIN s : s[i] \in Macaroon
      /\ \A i \in DOMAIN s : s[i].id = <<>> <=> i = 1
      /\ Discharges(s) = DOMAIN s \ {1}
  BY SliceTypes
<1>2. /\ r \in Seq(Macaroon) /\ Len(r) = N + 1 /\ DOMAIN r = 1..(N + 1)
      /\ r[N + 1] = d /\ \A i \in DOMAIN s : r[i] = s[i]
  BY <1>1
<1>3. N > 0
  OBVIOUS
<1>4. /\ \A i \in DOMAIN s : Formed(s[i], drawn)
      /\ KeysApart(s)
      /\ \A i, j \in DOMAIN s : s[i].id = s[j].id => i = j
  BY SoundParts
<1> HIDE DEF r, N
<1>5. \A i \in DOMAIN r : i \in DOMAIN s \/ i = N + 1
  BY <1>1, <1>2
<1>6. \A i \in DOMAIN s : s[i].id # d.id
  BY <1>1
<1>7. Slice(r)
  <2>1. ASSUME NEW i \in DOMAIN r PROVE r[i].id = <<>> <=> i = 1
    <3>1. CASE i \in DOMAIN s
      BY <3>1, <1>1, <1>2
    <3>2. CASE i = N + 1
      BY <3>2, <1>1, <1>2, <1>3
    <3> QED
      BY <3>1, <3>2, <1>5
  <2> QED
    BY <2>1, <1>2 DEF Slice
<1>8. ASSUME NEW n \in DOMAIN d.caveats, NEW j \in DOMAIN s, NEW k \in DOMAIN s[j].caveats
      PROVE  d.caveats[n].key # s[j].caveats[k].key
  <2>1. <<j, k>> \in Uses(s) /\ CaveatOf(s, <<j, k>>) = s[j].caveats[k]
    BY UsesElements, CaveatOfPlace
  <2> QED
    BY <2>1
<1>9. KeysApart(r)
  <2> SUFFICES ASSUME NEW i \in DOMAIN r, NEW j \in DOMAIN r,
                      NEW n \in DOMAIN r[i].caveats, NEW k \in DOMAIN r[j].caveats,
                      r[i].caveats[n].key = r[j].caveats[k].key
               PROVE  i = j /\ n = k
    BY DEF KeysApart
  <2>1. CASE i = N + 1 /\ j = N + 1
    BY <2>1, <1>2 DEF Formed
  <2>2. CASE i = N + 1 /\ j \in DOMAIN s
    BY <2>2, <1>2, <1>8
  <2>3. CASE i \in DOMAIN s /\ j = N + 1
    BY <2>3, <1>2, <1>8
  <2>4. CASE i \in DOMAIN s /\ j \in DOMAIN s
    BY <2>4, <1>2, <1>4 DEF KeysApart
  <2> QED
    BY <2>1, <2>2, <2>3, <2>4, <1>5
<1>10. \A i, j \in DOMAIN r : r[i].id = r[j].id => i = j
  BY <1>2, <1>4, <1>5, <1>6
<1>11. \A i \in DOMAIN r : Formed(r[i], drawn)
  BY <1>2, <1>4, <1>5
<1>12. Sound(r, drawn)
  BY <1>7, <1>9, <1>10, <1>11, SoundParts
<1> QED
  BY <1>2, <1>7, <1>12 DEF r, N

\* What Bind makes of a slice whose caveats and discharges belong together
\* verifies.
LEMMA BoundVerifies ==
  ASSUME NEW s, Slice(s), Len(s) > 0, NEW drawn, Sound(s, drawn), Complete(s)
  PROVE  Verifies(Bind(s))
<1> DEFINE b == Bind(s)
<1>1. /\ s \in Seq(Macaroon) /\ Len(s) \in Nat /\ DOMAIN s = 1..Len(s) /\ 1 \in DOMAIN s
      /\ \A i \in DOMAIN s : s[i] \in Macaroon
      /\ Discharges(s) = DOMAIN s \ {1}
  BY SliceTypes
<1>2. DOMAIN b = DOMAIN s /\ b[1] = s[1]
      /\ \A i \in DOMAIN s : i # 1 => b[i] = [s[i] EXCEPT !.boundTo = Append(s[i].boundTo, SignatureOf(s[1]))]
  BY <1>1 DEF Bind
<1>3. ASSUME NEW i \in DOMAIN s
      PROVE  b[i].id = s[i].id /\ b[i].key = s[i].key /\ b[i].caveats = s[i].caveats
  <2>1. CASE i = 1
    BY <2>1, <1>2
  <2>2. CASE i # 1
    BY <2>2, <1>1, <1>2 DEF Macaroon
  <2> QED
    BY <2>1, <2>2
<1>4. b \in Seq(Macaroon) /\ Len(b) = Len(s)
  <2>1. ASSUME NEW i \in DOMAIN s PROVE b[i] \in Macaroon
    <3>1. SignatureOf(s[1]) \in Signature
      BY <1>1 DEF SignatureOf, Macaroon, Signature
    <3>2. Append(s[i].boundTo, SignatureOf(s[1])) \in Seq(Signature)
      BY <1>1, <3>1, MacaroonTypes
    <3>3. CASE i = 1
      BY <3>3, <1>1, <1>2
    <3>4. CASE i # 1
      <4> DEFINE bound == Append(s[i].boundTo, SignatureOf(s[1]))
      <4>1. bound \in Seq(Signature) /\ s[i] \in Macaroon
        BY <3>2, <1>1
      <4>2. b[i] = [s[i] EXCEPT !.boundTo = bound]
        BY <3>4, <1>2
      <4> HIDE DEF bound, b
      <4>3. [s[i] EXCEPT !.boundTo = bound] \in Macaroon
        BY <4>1 DEF Macaroon
      <4> QED
        BY <4>2, <4>3 DEF b
    <3> QED
      BY <3>3, <3>4
  <2>2. b = [i \in 1..Len(s) |-> b[i]]
    BY <1>1 DEF Bind
  <2> HIDE DEF b
  <2> QED
    BY <1>1, <2>1, <2>2
<1>5. \A i \in DOMAIN s : Formed(s[i], drawn)
  BY DEF Sound
<1>6. b[1].boundTo = <<>>
  BY <1>1, <1>2, <1>5 DEF Formed
<1>7. ASSUME NEW i \in Discharges(s) PROVE b[i].boundTo = <<SignatureOf(b[1])>>
  <2>1. b[i].boundTo = Append(s[i].boundTo, SignatureOf(s[1]))
    BY <1>1, <1>2 DEF Macaroon
  <2>2. s[i].boundTo = <<>>
    BY <1>1, <1>5 DEF Formed
  <2> QED
    BY <2>1, <2>2, <1>2
<1> HIDE DEF b
<1>8. Discharges(b) = Discharges(s)
  BY <1>4 DEF Discharges
<1>9. Uses(b) = Uses(s)
  <2>1. \A i \in DOMAIN s : {i} \X DOMAIN b[i].caveats = {i} \X DOMAIN s[i].caveats
    BY <1>3
  <2> QED
    BY <2>1, <1>2 DEF Uses
<1>10. \A u \in Uses(s) : CaveatOf(b, u) = CaveatOf(s, u)
  <2> SUFFICES ASSUME NEW u \in Uses(s) PROVE CaveatOf(b, u) = CaveatOf(s, u)
    OBVIOUS
  <2>1. PICK i \in DOMAIN s : \E n \in DOMAIN s[i].caveats : u = <<i, n>>
    BY UsesElements
  <2>2. u[1] = i
    BY <2>1
  <2> QED
    BY <2>2, <1>3 DEF CaveatOf
<1>11. \A i \in Discharges(s) : \A u \in Uses(s) : Meets(b, i, u) <=> Meets(s, i, u)
  BY <1>1, <1>3, <1>10 DEF Meets
<1>12. DistinctIds(s)
  BY DEF Sound
<1>13. /\ \A u \in Uses(b) : \E i \in Discharges(b) : Meets(b, i, u)
       /\ \A i \in Discharges(b) : \E u \in Uses(b) : CaveatOf(b, u).id = b[i].id
  <2>1. \A i \in Discharges(s) : b[i].id = s[i].id
    BY <1>1, <1>3
  <2>2. \A u \in Uses(s) : \E i \in Discharges(s) : Meets(s, i, u)
    BY DEF Complete
  <2>3. \A i \in Discharges(s) : \E u \in Uses(s) : CaveatOf(s, u).id = s[i].id
    BY DEF Complete, Rooted, Meets
  <2>4. \A u \in Uses(b) : \E i \in Discharges(b) : Meets(b, i, u)
    BY <2>2, <1>8, <1>9, <1>11
  <2>5. \A i \in Discharges(b) : \E u \in Uses(b) : CaveatOf(b, u).id = b[i].id
    BY <2>1, <2>3, <1>8, <1>9, <1>10
  <2> QED
    BY <2>4, <2>5
<1>14. /\ \A u, v \in Uses(b) : CaveatOf(b, u).id = CaveatOf(b, v).id => u = v
       /\ \A i, j \in Discharges(b) : b[i].id = b[j].id => i = j
  BY <1>1, <1>3, <1>8, <1>9, <1>10, <1>12 DEF DistinctIds
<1>15. \A i \in Discharges(b) : b[i].boundTo = <<SignatureOf(b[1])>>
  BY <1>7, <1>8
<1> QED
  BY <1>4, <1>6, <1>13, <1>14, <1>15 DEF Verifies, b
LEMMA UsesTypes ==
  ASSUME NEW s, Slice(s), NEW drawn, Sound(s, drawn), NEW u \in Uses(s)
  PROVE  /\ u[1] \in DOMAIN s /\ u[1] \in Nat /\ u[2] \in DOMAIN s[u[1]].caveats /\ u = <<u[1], u[2]>>
         /\ CaveatOf(s, u) = s[u[1]].caveats[u[2]]
         /\ CaveatOf(s, u) \in Caveat
         /\ CaveatOf(s, u).id # <<>> /\ (IsExternal(CaveatOf(s, u)) => External(CaveatOf(s, u).id))
<1>1. PICK i \in DOMAIN s : \E n \in DOMAIN s[i].caveats : u = <<i, n>>
  BY UsesElements
<1>2. PICK n \in DOMAIN s[i].caveats : u = <<i, n>>
  BY <1>1
<1>3. s[i] \in Macaroon /\ Formed(s[i], drawn) /\ i \in Nat
  BY SliceTypes DEF Sound
<1> DEFINE c == s[i].caveats[n]
<1>4. c \in Caveat /\ c.id \in Seq(Nat) /\ c.key \in Nat
  BY <1>3, MacaroonTypes, CaveatTypes
<1>5. IF IsExternal(c) THEN s[i].version = 3 /\ Extends(c.id, Base(s[i])) ELSE c.id = <<2, c.key>>
  BY <1>3 DEF Formed
<1>6. CaveatOf(s, u) = c
  BY <1>2, CaveatOfPlace
<1> HIDE DEF c
<1>7. IsExternal(c) => External(c.id)
  BY <1>3, <1>4, <1>5, ExtendsBase
<1>8. c.id # <<>>
  <2>1. CASE IsExternal(c)
    <3>1. Len(c.id) >= 2
      BY <2>1, <1>7 DEF External
    <3> QED
      BY <3>1, <1>4
  <2>2. CASE ~IsExternal(c)
    <3>1. c.id = <<2, c.key>> /\ Len(<<2, c.key>>) = 2
      BY <2>2, <1>5
    <3> QED
      BY <3>1
  <2> QED
    BY <2>1, <2>2
<1> QED
  BY <1>2, <1>3, <1>4, <1>6, <1>7, <1>8 DEF c

\* A slice that another one starts with has the same caveats.
LEMMA PrefixUses ==
  ASSUME NEW s, NEW r, DOMAIN s \subseteq DOMAIN r, \A i \in DOMAIN s : r[i] = s[i]
  PROVE  /\ \A u \in Uses(s) : u \in Uses(r) /\ CaveatOf(r, u) = CaveatOf(s, u)
         /\ \A u \in Uses(s) : \A i \in DOMAIN s : Meets(r, i, u) <=> Meets(s, i, u)
         /\ \A u \in Uses(r) : u[1] \in DOMAIN s => u \in Uses(s)
<1>1. ASSUME NEW u \in Uses(s) PROVE u \in Uses(r) /\ CaveatOf(r, u) = CaveatOf(s, u)
  <2>1. PICK i \in DOMAIN s : \E n \in DOMAIN s[i].caveats : u = <<i, n>>
    BY UsesElements
  <2>2. PICK n \in DOMAIN s[i].caveats : u = <<i, n>>
    BY <2>1
  <2>3. i \in DOMAIN r /\ r[i] = s[i]
    OBVIOUS
  <2>4. <<i, n>> \in Uses(r)
    BY <2>3, UsesElements
  <2> QED
    BY <2>2, <2>3, <2>4, CaveatOfPlace
<1>2. ASSUME NEW u \in Uses(r), u[1] \in DOMAIN s PROVE u \in Uses(s)
  <2>1. PICK i \in DOMAIN r : \E n \in DOMAIN r[i].caveats : u = <<i, n>>
    BY UsesElements
  <2>2. PICK n \in DOMAIN r[i].caveats : u = <<i, n>>
    BY <2>1
  <2>3. i \in DOMAIN s /\ r[i] = s[i]
    BY <2>2, <1>2
  <2> QED
    BY <2>2, <2>3, UsesElements
<1>3. \A u \in Uses(s) : \A i \in DOMAIN s : Meets(r, i, u) <=> Meets(s, i, u)
  BY <1>1 DEF Meets
<1> QED
  BY <1>1, <1>2, <1>3

LEMMA BindType ==
  ASSUME NEW s, Slice(s), Len(s) > 0
  PROVE  Bind(s) \in Seq(Macaroon)
<1> DEFINE b == Bind(s)
<1>1. /\ Len(s) \in Nat /\ DOMAIN s = 1..Len(s) /\ 1 \in DOMAIN s
      /\ \A i \in DOMAIN s : s[i] \in Macaroon
  BY SliceTypes
<1>2. DOMAIN b = DOMAIN s /\ b[1] = s[1]
      /\ \A i \in DOMAIN s : i # 1 => b[i] = [s[i] EXCEPT !.boundTo = Append(s[i].boundTo, SignatureOf(s[1]))]
  BY <1>1 DEF Bind
<1>3. b = [i \in 1..Len(s) |-> b[i]]
  BY <1>1 DEF Bind
<1> HIDE DEF b
<1>4. ASSUME NEW i \in DOMAIN s PROVE b[i] \in Macaroon
  <2>1. SignatureOf(s[1]) \in Signature
    BY <1>1 DEF SignatureOf, Macaroon, Signature
  <2>2. Append(s[i].boundTo, SignatureOf(s[1])) \in Seq(Signature)
    BY <1>1, <2>1, MacaroonTypes
  <2>3. CASE i = 1
    BY <2>3, <1>1, <1>2
  <2>4. CASE i # 1
    BY <2>2, <2>4, <1>1, <1>2 DEF Macaroon
  <2> QED
    BY <2>3, <2>4
<1>5. b \in Seq(Macaroon)
  BY <1>1, <1>3, <1>4
<1> QED
  BY <1>5 DEF b

-----------------------------------------------------------------------------
(* The first state, and the steps that keep the slice or change it between *)
(* two calls.                                                              *)

LEMMA NothingQueued ==
  /\ DOMAIN <<>> = {} /\ Len(<<>>) = 0
  /\ <<>> \in Seq(Macaroon) /\ <<>> \in Seq(Caveat)
OBVIOUS

LEMMA Begins ==
  ASSUME Init
  PROVE  SliceInv
<1>1. PICK m \in Primaries(0) : slice = <<m>>
  BY DEF Init
<1>2. /\ now = 0 /\ keys = 1 /\ sent = <<>> /\ result = "none" /\ rooted = FALSE /\ pc = "idle"
      /\ localKey = FALSE /\ ms = <<>> /\ ms1 = <<>> /\ seen = 0 /\ need = <<>> /\ failed = FALSE
      /\ dm = <<>>
  BY DEF Init
<1>3. Slice(slice) /\ Sound(slice, keys)
  BY <1>1, NewPrimaryFormed, SingleSound
<1>4. Slice(<<>>) /\ Sound(<<>>, keys) /\ Uses(<<>>) = {} /\ Discharges(<<>>) = {}
  BY NothingSound
<1>5. TypeOK
  <2>1. now \in 0..MaxTime /\ keys \in Nat
    BY <1>2, NumberTypes
  <2>2. Slice(slice) /\ Slice(ms) /\ Slice(ms1) /\ sent \in Seq(Macaroon) /\ dm \in Seq(Macaroon)
    BY <1>2, <1>3, <1>4, NothingQueued
  <2>3. seen \in 0..Len(ms1) /\ need \in Seq(Caveat)
    BY <1>2, NothingQueued
  <2> QED
    BY <2>1, <2>2, <2>3, <1>2 DEF TypeOK
<1>6. QueueInv
  BY <1>2, <1>4, NothingQueued DEF QueueInv
<1> QED
  BY <1>2, <1>3, <1>4, <1>5, <1>6 DEF SliceInv, CallInv, MakingInv, SentInv

LEMMA KeepKeeps ==
  ASSUME SliceInv, pc = "idle", NEW s, Slice(s), keys' \in Nat, Sound(s, keys'), Keep(s),
         UNCHANGED <<now, callVars>>
  PROVE  SliceInv'
<1>1. /\ slice' = s /\ sent' = <<>> /\ result' = "none" /\ rooted' = FALSE /\ now' = now
      /\ pc' = "idle" /\ localKey' = localKey /\ ms' = ms /\ ms1' = ms1 /\ seen' = seen
      /\ need' = need /\ failed' = failed /\ dm' = dm
  BY DEF Keep, callVars
<1>2. TypeOK
  BY DEF SliceInv
<1>3. ms = <<>> /\ ms1 = <<>> /\ seen = 0 /\ need = <<>> /\ ~failed /\ dm = <<>>
  BY DEF SliceInv, CallInv, MakingInv
<1>4. Slice(<<>>) /\ Sound(<<>>, keys') /\ Uses(<<>>) = {} /\ Discharges(<<>>) = {}
  BY NothingSound
<1>5. TypeOK'
  BY <1>1, <1>2, <1>3, <1>4, NothingQueued DEF TypeOK
<1>6. QueueInv'
  BY <1>1, <1>3, <1>4, NothingQueued DEF QueueInv
<1>7. CallInv' /\ MakingInv' /\ SentInv'
  BY <1>1, <1>3 DEF CallInv, MakingInv, SentInv
<1>8. Sound(slice', keys') /\ Sound(ms1', keys')
  BY <1>1, <1>3, <1>4
<1> QED
  BY <1>5, <1>6, <1>7, <1>8 DEF SliceInv

LEMMA TickKeeps ==
  ASSUME SliceInv, Tick
  PROVE  SliceInv'
<1>1. /\ now' \in 0..MaxTime /\ keys' = keys /\ slice' = slice /\ sent' = sent /\ result' = result
      /\ rooted' = rooted /\ pc' = pc /\ localKey' = localKey /\ ms' = ms /\ ms1' = ms1
      /\ seen' = seen /\ need' = need /\ failed' = failed /\ dm' = dm
  BY NumberTypes DEF SliceInv, TypeOK, Tick, clientVars, callVars
<1>2. TypeOK'
  BY <1>1 DEF SliceInv, TypeOK
<1>3. CallInv' /\ QueueInv' /\ MakingInv' /\ SentInv'
  BY <1>1 DEF SliceInv, CallInv, QueueInv, MakingInv, SentInv
<1> QED
  BY <1>1, <1>2, <1>3 DEF SliceInv

LEMMA AddCaveatKeeps ==
  ASSUME SliceInv, AddCaveat
  PROVE  SliceInv'
<1>1. /\ Slice(slice) /\ Sound(slice, keys) /\ keys \in Nat /\ Len(slice) > 0
      /\ pc = "idle" /\ keys' = keys + 1 /\ UNCHANGED <<now, callVars>>
  BY DEF SliceInv, TypeOK, AddCaveat
<1>2. PICK h \in Holders, local \in BOOLEAN : Keep([slice EXCEPT ![1] = AddThirdParty(@, h, local, keys)])
  BY DEF AddCaveat
<1> DEFINE m == slice[1]
           p == AddThirdParty(m, h, local, keys)
           s == [slice EXCEPT ![1] = p]
<1>3. m \in Macaroon /\ m.id = <<>> /\ Formed(m, keys)
  BY <1>1, SliceTypes DEF Sound
<1>4. /\ p \in Macaroon /\ p.id = <<>>
      /\ p.caveats = Append(m.caveats, NewCaveat(m, h, local, keys))
      /\ NewCaveat(m, h, local, keys).key = keys
  BY <1>1, <1>3, AddedFields, NewCaveatFormed
<1>5. Formed(p, keys + 1)
  BY <1>1, <1>3, AddedFormed
<1> HIDE DEF p
<1>6. \A n \in DOMAIN p.caveats : \/ n \in DOMAIN m.caveats /\ p.caveats[n] = m.caveats[n]
                                  \/ p.caveats[n].key = keys
  BY <1>3, <1>4, MacaroonTypes
<1>7. Slice(s) /\ Sound(s, keys + 1)
  BY <1>1, <1>4, <1>5, <1>6, PrimaryReplaced
<1>8. Keep(s)
  BY <1>2 DEF p
<1> HIDE DEF s
<1> QED
  BY <1>1, <1>7, <1>8, KeepKeeps

LEMMA AddExpiryKeeps ==
  ASSUME SliceInv, AddExpiry
  PROVE  SliceInv'
<1>1. /\ Slice(slice) /\ Sound(slice, keys) /\ keys \in Nat /\ Len(slice) > 0 /\ now \in Nat
      /\ pc = "idle" /\ keys' = keys /\ UNCHANGED <<now, callVars>>
  BY DEF SliceInv, TypeOK, AddExpiry, worldVars
<1>2. PICK t \in now + 1..MaxTime : Keep([slice EXCEPT ![1] = AddTimeBefore(@, t)])
  BY DEF AddExpiry
<1>3. t \in Times
  BY <1>1, NumberTypes DEF Times, Never
<1> DEFINE m == slice[1]
           p == AddTimeBefore(m, t)
           s == [slice EXCEPT ![1] = p]
<1>4. m \in Macaroon /\ m.id = <<>> /\ Formed(m, keys)
  BY <1>1, SliceTypes DEF Sound
<1>5. /\ p \in Macaroon /\ p.id = m.id /\ p.version = m.version /\ p.prefix = m.prefix
      /\ p.boundTo = m.boundTo /\ p.caveats = m.caveats
  BY <1>3, <1>4, ExpiryFields
<1>6. Formed(p, keys)
  BY <1>4, <1>5, FormedFields
<1> HIDE DEF p
<1>7. Slice(s) /\ Sound(s, keys)
  BY <1>1, <1>4, <1>5, <1>6, PrimaryReplaced
<1>8. Keep(s)
  BY <1>2 DEF p
<1> HIDE DEF s
<1> QED
  BY <1>1, <1>7, <1>8, KeepKeeps

LEMMA PurgeKeeps ==
  ASSUME SliceInv, Purge
  PROVE  SliceInv'
<1>1. /\ Slice(slice) /\ Sound(slice, keys) /\ keys \in Nat /\ Len(slice) > 0
      /\ pc = "idle" /\ keys' = keys /\ UNCHANGED <<now, callVars>>
  BY DEF SliceInv, TypeOK, Purge, worldVars
<1> DEFINE K == {i \in DOMAIN slice : Unexpired(slice[i])}
<1>2. CASE Unexpired(slice[1])
  <2>1. Keep(UnexpiredOnly)
    BY <1>2 DEF Purge
  <2>2. 1 \in K /\ K \in SUBSET (DOMAIN slice)
    BY <1>1, <1>2, SliceTypes
  <2>3. UnexpiredOnly = Subsequence(slice, K)
    BY DEF UnexpiredOnly
  <2> HIDE DEF K
  <2>4. Slice(UnexpiredOnly) /\ Sound(UnexpiredOnly, keys)
    BY <1>1, <2>2, <2>3, SubsequenceSound
  <2> QED
    BY <1>1, <2>1, <2>4, KeepKeeps
<1>3. CASE ~Unexpired(slice[1])
  <2>1. Keep(<<>>)
    BY <1>3 DEF Purge
  <2> QED
    BY <1>1, <2>1, NothingSound, KeepKeeps
<1> QED
  BY <1>2, <1>3

LEMMA NewPrimaryKeeps ==
  ASSUME SliceInv, NewPrimary
  PROVE  SliceInv'
<1>1. keys \in Nat /\ pc = "idle" /\ keys' = keys + 1 /\ keys' \in Nat /\ UNCHANGED <<now, callVars>>
  BY DEF SliceInv, TypeOK, NewPrimary
<1>2. PICK m \in Primaries(keys) : Keep(<<m>>)
  BY DEF NewPrimary
<1>3. Slice(<<m>>) /\ Sound(<<m>>, keys')
  BY <1>1, NewPrimaryFormed, SingleSound
<1> QED
  BY <1>1, <1>2, <1>3, KeepKeeps

LEMMA SendKeeps ==
  ASSUME SliceInv, Send
  PROVE  SliceInv'
<1>1. /\ pc = "idle" /\ Len(slice) > 0 /\ sent' = Bind(slice)
      /\ now' = now /\ keys' = keys /\ slice' = slice /\ result' = result
      /\ rooted' = rooted /\ pc' = pc /\ localKey' = localKey /\ ms' = ms /\ ms1' = ms1
      /\ seen' = seen /\ need' = need /\ failed' = failed /\ dm' = dm
  BY DEF Send, worldVars, callVars
<1>2. Bind(slice) \in Seq(Macaroon)
  BY <1>1, BindType DEF SliceInv, TypeOK
<1>3. TypeOK'
  BY <1>1, <1>2 DEF SliceInv, TypeOK
<1>4. CallInv' /\ QueueInv' /\ MakingInv' /\ SentInv'
  BY <1>1 DEF SliceInv, CallInv, QueueInv, MakingInv, SentInv
<1> QED
  BY <1>1, <1>3, <1>4 DEF SliceInv

LEMMA DischargeNothingKeeps ==
  ASSUME SliceInv, DischargeNothing
  PROVE  SliceInv'
<1>1. /\ pc = "idle" /\ result' = "error" /\ now' = now /\ keys' = keys /\ slice' = slice /\ sent' = sent
      /\ rooted' = rooted /\ pc' = pc /\ localKey' = localKey /\ ms' = ms /\ ms1' = ms1
      /\ seen' = seen /\ need' = need /\ failed' = failed /\ dm' = dm
  BY DEF DischargeNothing, worldVars, callVars
<1>2. TypeOK'
  BY <1>1 DEF SliceInv, TypeOK
<1>3. CallInv' /\ QueueInv' /\ MakingInv' /\ SentInv'
  BY <1>1 DEF SliceInv, CallInv, QueueInv, MakingInv, SentInv
<1> QED
  BY <1>1, <1>2, <1>3 DEF SliceInv

-----------------------------------------------------------------------------
(* The steps of DischargeAll.                                              *)

LEMMA StartKeeps ==
  ASSUME SliceInv, StartDischargeAll
  PROVE  SliceInv'
<1>1. /\ pc = "idle" /\ Len(slice) > 0 /\ pc' = "loop" /\ localKey' \in BOOLEAN
      /\ ms' = slice /\ ms1' = slice /\ result' = "none" /\ rooted' = Rooted(slice) /\ sent' = <<>>
      /\ now' = now /\ keys' = keys /\ slice' = slice /\ seen' = seen /\ need' = need
      /\ failed' = failed /\ dm' = dm
  BY DEF StartDischargeAll, worldVars
<1>2. TypeOK /\ Slice(slice) /\ Sound(slice, keys)
  BY DEF SliceInv, TypeOK
<1>3. seen = 0 /\ need = <<>> /\ ~failed /\ dm = <<>>
  BY <1>1 DEF SliceInv, CallInv, MakingInv
<1>4. Len(slice) \in Nat /\ Rooted(slice) \in BOOLEAN
  BY <1>2, SliceTypes DEF Rooted
<1>5. TypeOK'
  BY <1>1, <1>2, <1>3, <1>4, NothingQueued DEF TypeOK
<1>6. CallInv'
  BY <1>1, <1>4 DEF CallInv
<1>7. \A u \in Uses(slice) : ~(u[1] <= 0)
  <2>1. \A i \in DOMAIN slice : ~(i <= 0)
    BY <1>2, SliceTypes
  <2> QED
    BY <2>1, <1>2, UsesTypes
<1>8. QueueInv'
  BY <1>1, <1>3, <1>7, NothingQueued DEF QueueInv
<1>9. MakingInv' /\ SentInv'
  BY <1>1, <1>3 DEF MakingInv, SentInv
<1> QED
  BY <1>1, <1>2, <1>5, <1>6, <1>8, <1>9 DEF SliceInv
\* What the invariant says within a call, with the types of what it speaks of.
LEMMA CallFacts ==
  ASSUME SliceInv, pc # "idle"
  PROVE  /\ TypeOK /\ keys \in Nat
         /\ Slice(slice) /\ Sound(slice, keys) /\ Slice(ms) /\ Slice(ms1) /\ Sound(ms1, keys)
         /\ DistinctIds(ms1)
         /\ Len(ms) \in Nat /\ Len(ms1) \in Nat /\ DOMAIN ms = 1..Len(ms) /\ DOMAIN ms1 = 1..Len(ms1)
         /\ Discharges(ms) = DOMAIN ms \ {1} /\ Discharges(ms1) = DOMAIN ms1 \ {1}
         /\ seen \in Nat /\ seen <= Len(ms1)
         /\ need \in Seq(Caveat) /\ Len(need) \in Nat /\ DOMAIN need = 1..Len(need)
         /\ sent = <<>> /\ result = "none"
         /\ 0 < Len(ms) /\ Len(ms) <= Len(ms1) /\ \A i \in DOMAIN ms : ms1[i] = ms[i]
         /\ rooted => Rooted(ms)
         /\ \A i \in Len(ms) + 1..Len(ms1) : \E u \in Uses(ms1) : u[1] <= seen /\ Meets(ms1, i, u)
<1>1. TypeOK /\ Sound(slice, keys) /\ Sound(ms1, keys) /\ CallInv
  BY DEF SliceInv
<1>2. /\ keys \in Nat /\ Slice(slice) /\ Slice(ms) /\ Slice(ms1) /\ need \in Seq(Caveat)
      /\ seen \in 0..Len(ms1)
  BY <1>1 DEF TypeOK
<1>3. DistinctIds(ms1)
  BY <1>1 DEF Sound
<1>4. /\ Len(ms) \in Nat /\ Len(ms1) \in Nat /\ DOMAIN ms = 1..Len(ms) /\ DOMAIN ms1 = 1..Len(ms1)
      /\ Discharges(ms) = DOMAIN ms \ {1} /\ Discharges(ms1) = DOMAIN ms1 \ {1}
  BY <1>2, SliceTypes
<1>5. /\ sent = <<>> /\ result = "none"
      /\ 0 < Len(ms) /\ Len(ms) <= Len(ms1) /\ \A i \in DOMAIN ms : ms1[i] = ms[i]
      /\ rooted => Rooted(ms)
      /\ \A i \in Len(ms) + 1..Len(ms1) : \E u \in Uses(ms1) : u[1] <= seen /\ Meets(ms1, i, u)
  BY <1>1 DEF CallInv
<1>6. Len(need) \in Nat /\ DOMAIN need = 1..Len(need) /\ seen \in Nat /\ seen <= Len(ms1)
  BY <1>2, <1>4
<1> QED
  BY <1>1, <1>2, <1>3, <1>4, <1>5, <1>6

LEMMA QueueFacts ==
  ASSUME SliceInv
  PROVE  /\ \A k \in DOMAIN need : \E u \in Uses(ms1) : u[1] <= seen /\ CaveatOf(ms1, u) = need[k]
         /\ \A k \in DOMAIN need : \A i \in Discharges(ms1) : ms1[i].id # need[k].id
         /\ \A k, l \in DOMAIN need : need[k].id = need[l].id => k = l
         /\ rooted /\ ~failed => \A u \in Uses(ms1) : u[1] <= seen =>
              \/ \E i \in Discharges(ms1) : Meets(ms1, i, u)
              \/ \E k \in DOMAIN need : need[k] = CaveatOf(ms1, u)
BY DEF SliceInv, QueueInv

LEMMA AddCaveatsKeeps ==
  ASSUME SliceInv, AddCaveats
  PROVE  SliceInv'
<1> DEFINE j == seen + 1
           m == ms1[j]
           K == {n \in DOMAIN m.caveats : m.caveats[n].id \notin Have}
           sub == Subsequence(m.caveats, K)
           N == Cardinality(K)
<1>1. /\ pc = "loop" /\ seen < Len(ms1) /\ seen' = j /\ need' = need \o sub
      /\ now' = now /\ keys' = keys /\ slice' = slice /\ sent' = sent /\ result' = result
      /\ rooted' = rooted /\ pc' = pc /\ localKey' = localKey /\ ms' = ms /\ ms1' = ms1
      /\ failed' = failed /\ dm' = dm
  BY DEF AddCaveats, worldVars, clientVars, Unmet
<1>2. pc # "idle" /\ pc # "discharge"
  BY <1>1
<1>3. /\ TypeOK /\ keys \in Nat
      /\ Slice(slice) /\ Sound(slice, keys) /\ Slice(ms) /\ Slice(ms1) /\ Sound(ms1, keys)
      /\ DistinctIds(ms1)
      /\ Len(ms) \in Nat /\ Len(ms1) \in Nat /\ DOMAIN ms = 1..Len(ms) /\ DOMAIN ms1 = 1..Len(ms1)
      /\ Discharges(ms) = DOMAIN ms \ {1} /\ Discharges(ms1) = DOMAIN ms1 \ {1}
      /\ seen \in Nat /\ seen <= Len(ms1)
      /\ need \in Seq(Caveat) /\ Len(need) \in Nat /\ DOMAIN need = 1..Len(need)
      /\ sent = <<>> /\ result = "none"
      /\ 0 < Len(ms) /\ Len(ms) <= Len(ms1) /\ \A i \in DOMAIN ms : ms1[i] = ms[i]
      /\ rooted => Rooted(ms)
      /\ \A i \in Len(ms) + 1..Len(ms1) : \E u \in Uses(ms1) : u[1] <= seen /\ Meets(ms1, i, u)
  BY <1>2, CallFacts
<1>4. j \in DOMAIN ms1 /\ j \in Nat /\ m \in Macaroon /\ m.caveats \in Seq(Caveat)
  BY <1>1, <1>3, SliceTypes, MacaroonTypes
<1>5. K \in SUBSET (DOMAIN m.caveats) /\ \A n \in K : n \in DOMAIN m.caveats /\ m.caveats[n].id \notin Have
  OBVIOUS
<1>6. \A n \in DOMAIN m.caveats : n \notin K => m.caveats[n].id \in Have
  OBVIOUS
<1> HIDE DEF K
<1>7. N \in Nat /\ sub \in Seq(Caveat) /\ Len(sub) = N
  BY <1>4, <1>5, SubsequencePlaces
<1>8. PICK g \in [1..N -> K] :
              /\ \A k \in 1..N : sub[k] = m.caveats[g[k]]
              /\ \A k, l \in 1..N : g[k] = g[l] => k = l
              /\ \A n \in K : \E k \in 1..N : g[k] = n
              /\ 1 \in K => 1 \in 1..N /\ g[1] = 1
  BY <1>4, <1>5, SubsequencePlaces
<1> HIDE DEF sub, N, m
<1>9. /\ need' \in Seq(Caveat) /\ DOMAIN need' = 1..(Len(need) + N)
      /\ \A k \in 1..Len(need) : need'[k] = need[k]
      /\ \A k \in 1..N : need'[Len(need) + k] = sub[k]
  BY <1>1, <1>3, <1>7
\* The caveats added are those of macaroon j.
<1>10. \A n \in DOMAIN m.caveats : <<j, n>> \in Uses(ms1) /\ CaveatOf(ms1, <<j, n>>) = m.caveats[n]
  BY <1>4, UsesElements, CaveatOfPlace DEF m
<1>11. \A k \in 1..N : /\ g[k] \in DOMAIN m.caveats /\ <<j, g[k]>> \in Uses(ms1)
                       /\ CaveatOf(ms1, <<j, g[k]>>) = sub[k] /\ sub[k].id \notin Have
  BY <1>5, <1>8, <1>10
<1>12. /\ \A k \in DOMAIN need : \E u \in Uses(ms1) : u[1] <= seen /\ CaveatOf(ms1, u) = need[k]
       /\ \A k \in DOMAIN need : \A i \in Discharges(ms1) : ms1[i].id # need[k].id
       /\ \A k, l \in DOMAIN need : need[k].id = need[l].id => k = l
       /\ rooted /\ ~failed => \A u \in Uses(ms1) : u[1] <= seen =>
            \/ \E i \in Discharges(ms1) : Meets(ms1, i, u)
            \/ \E k \in DOMAIN need : need[k] = CaveatOf(ms1, u)
  BY QueueFacts
<1>13. \A u \in Uses(ms1) : u[1] \in DOMAIN ms1 /\ u[1] \in Nat /\ u[2] \in DOMAIN ms1[u[1]].caveats
                            /\ u = <<u[1], u[2]>> /\ (u[1] <= seen => u[1] <= j /\ u[1] # j)
                            /\ (u[1] <= j => u[1] <= seen \/ u[1] = j)
  BY <1>3, UsesTypes
<1> HIDE DEF j
<1>14. \A k \in DOMAIN need' : k \in 1..Len(need) \/ \E l \in 1..N : k = Len(need) + l
  <2> SUFFICES ASSUME NEW k \in DOMAIN need', k \notin 1..Len(need)
               PROVE  \E l \in 1..N : k = Len(need) + l
    OBVIOUS
  <2>1. k - Len(need) \in 1..N /\ k = Len(need) + (k - Len(need))
    BY <1>3, <1>7, <1>9
  <2> QED
    BY <2>1
\* No discharge is of a caveat added: not one gathered before, for it would
\* be of an earlier macaroon's.
<1>15. ASSUME NEW k \in 1..N, NEW i \in Discharges(ms1) PROVE ms1[i].id # sub[k].id
  <2>1. CASE i \in DOMAIN ms
    <3>1. i \in Discharges(ms) /\ ms1[i] = ms[i]
      BY <2>1, <1>3
    <3>2. ms[i].id \in Have
      BY <3>1 DEF Have
    <3> QED
      BY <3>1, <3>2, <1>11
  <2>2. CASE i \notin DOMAIN ms
    <3>1. i \in Len(ms) + 1..Len(ms1)
      BY <2>2, <1>3
    <3>2. PICK u \in Uses(ms1) : u[1] <= seen /\ Meets(ms1, i, u)
      BY <3>1, <1>3
    <3>3. u # <<j, g[k]>>
      BY <3>2, <1>13
    <3>4. CaveatOf(ms1, u).id # sub[k].id
      BY <3>3, <1>3, <1>11 DEF DistinctIds
    <3> QED
      BY <3>2, <3>4 DEF Meets
  <2> QED
    BY <2>1, <2>2
<1>16. ASSUME NEW k \in DOMAIN need'
       PROVE  /\ \E u \in Uses(ms1) : u[1] <= j /\ CaveatOf(ms1, u) = need'[k]
              /\ \A i \in Discharges(ms1) : ms1[i].id # need'[k].id
  <2>1. CASE k \in 1..Len(need)
    BY <2>1, <1>3, <1>9, <1>12, <1>13
  <2>2. CASE \E l \in 1..N : k = Len(need) + l
    <3>1. PICK l \in 1..N : k = Len(need) + l
      BY <2>2
    <3>2. need'[k] = sub[l]
      BY <3>1, <1>9
    <3>3. <<j, g[l]>>[1] <= j
      BY <1>4
    <3> QED
      BY <3>2, <3>3, <1>11, <1>15
  <2> QED
    BY <2>1, <2>2, <1>14
<1>17. ASSUME NEW k \in 1..Len(need), NEW l \in 1..N PROVE need[k].id # sub[l].id
  <2>1. PICK u \in Uses(ms1) : u[1] <= seen /\ CaveatOf(ms1, u) = need[k]
    BY <1>3, <1>12
  <2>2. u # <<j, g[l]>>
    BY <2>1, <1>13
  <2> QED
    BY <2>1, <2>2, <1>3, <1>11 DEF DistinctIds
<1>18. \A k, l \in 1..N : sub[k].id = sub[l].id => k = l
  <2> SUFFICES ASSUME NEW k \in 1..N, NEW l \in 1..N, sub[k].id = sub[l].id PROVE k = l
    OBVIOUS
  <2>1. <<j, g[k]>> = <<j, g[l]>>
    BY <1>3, <1>11 DEF DistinctIds
  <2> QED
    BY <2>1, <1>8
<1>19. ASSUME NEW k \in DOMAIN need', NEW l \in DOMAIN need', need'[k].id = need'[l].id
       PROVE  k = l
  <2>1. CASE k \in 1..Len(need) /\ l \in 1..Len(need)
    BY <2>1, <1>3, <1>9, <1>12, <1>19
  <2>2. CASE k \in 1..Len(need) /\ \E n \in 1..N : l = Len(need) + n
    BY <2>2, <1>9, <1>17, <1>19
  <2>3. CASE l \in 1..Len(need) /\ \E n \in 1..N : k = Len(need) + n
    BY <2>3, <1>9, <1>17, <1>19
  <2>4. CASE (\E n \in 1..N : k = Len(need) + n) /\ (\E n \in 1..N : l = Len(need) + n)
    BY <2>4, <1>9, <1>18, <1>19
  <2> QED
    BY <2>1, <2>2, <2>3, <2>4, <1>14
\* A caveat that is not added has its discharge, of its own key: the slice
\* given held no stray one.
<1>20. ASSUME rooted, ~failed, NEW u \in Uses(ms1), u[1] <= j
       PROVE  \/ \E i \in Discharges(ms1) : Meets(ms1, i, u)
              \/ \E k \in DOMAIN need' : need'[k] = CaveatOf(ms1, u)
  <2>1. CASE u[1] <= seen
    <3>1. CASE \E k \in DOMAIN need : need[k] = CaveatOf(ms1, u)
      <4>1. PICK k \in DOMAIN need : need[k] = CaveatOf(ms1, u)
        BY <3>1
      <4>2. k \in DOMAIN need' /\ need'[k] = need[k]
        BY <1>3, <1>7, <1>9
      <4> QED
        BY <4>1, <4>2
    <3> QED
      BY <2>1, <3>1, <1>12, <1>20
  <2>2. CASE u[1] = j
    <3> DEFINE n == u[2]
    <3>1. u = <<j, n>> /\ n \in DOMAIN m.caveats /\ CaveatOf(ms1, u) = m.caveats[n]
      BY <2>2, <1>10, <1>13 DEF m
    <3> HIDE DEF n
    <3>2. CASE n \in K
      <4>1. PICK k \in 1..N : g[k] = n
        BY <3>2, <1>8
      <4>2. Len(need) + k \in DOMAIN need' /\ need'[Len(need) + k] = sub[k]
        BY <1>3, <1>7, <1>9
      <4>3. sub[k] = m.caveats[n]
        BY <4>1, <1>8
      <4> QED
        BY <4>2, <4>3, <3>1
    <3>3. CASE n \notin K
      <4>1. m.caveats[n].id \in Have
        BY <3>1, <3>3, <1>6
      <4>2. PICK i \in Discharges(ms) : ms[i].id = m.caveats[n].id
        BY <4>1 DEF Have
      <4>3. PICK v \in Uses(ms) : Meets(ms, i, v)
        BY <1>3, <1>20 DEF Rooted
      <4>4. DOMAIN ms \subseteq DOMAIN ms1 /\ i \in DOMAIN ms /\ i \in Discharges(ms1)
        BY <1>3
      <4>5. v \in Uses(ms1) /\ Meets(ms1, i, v)
        BY <4>3, <4>4, <1>3, PrefixUses
      <4>6. CaveatOf(ms1, v).id = CaveatOf(ms1, u).id
        BY <4>2, <4>4, <4>5, <3>1, <1>3 DEF Meets
      <4>7. v = u
        BY <4>5, <4>6, <1>3 DEF DistinctIds
      <4> QED
        BY <4>4, <4>5, <4>7
    <3> QED
      BY <3>2, <3>3
  <2> QED
    BY <2>1, <2>2, <1>13, <1>20
<1>21. QueueInv'
  <2>1. rooted' /\ ~failed' => \A u \in Uses(ms1') : u[1] <= seen' =>
           \/ \E i \in Discharges(ms1') : Meets(ms1', i, u)
           \/ \E k \in DOMAIN need' : need'[k] = CaveatOf(ms1', u)
    BY <1>1, <1>20
  <2>2. \A k, l \in DOMAIN need' : need'[k].id = need'[l].id => k = l
    BY <1>19
  <2>3. \A k \in DOMAIN need' :
           /\ \E u \in Uses(ms1') : u[1] <= seen' /\ CaveatOf(ms1', u) = need'[k]
           /\ \A i \in Discharges(ms1') : ms1'[i].id # need'[k].id
    BY <1>1, <1>16
  <2> QED
    BY <2>1, <2>2, <2>3 DEF QueueInv
<1>22. CallInv'
  <2>1. \A i \in Len(ms) + 1..Len(ms1) : \E u \in Uses(ms1) : u[1] <= j /\ Meets(ms1, i, u)
    BY <1>3, <1>13
  <2> QED
    BY <2>1, <1>1, <1>2, <1>3 DEF CallInv
<1>23. TypeOK'
  <2>1. seen' \in 0..Len(ms1')
    BY <1>1, <1>3 DEF j
  <2> QED
    BY <2>1, <1>1, <1>2, <1>3, <1>9 DEF TypeOK
<1>24. MakingInv' /\ SentInv'
  BY <1>1, <1>2, <1>3 DEF SliceInv, MakingInv, SentInv
<1> QED
  BY <1>1, <1>3, <1>21, <1>22, <1>23, <1>24 DEF SliceInv

\* A discharge of the first caveat needed takes it off the queue.
LEMMA AppendKeeps ==
  ASSUME SliceInv, pc # "idle", Len(need) > 0,
         NEW d \in Macaroon, Formed(d, keys), d.id = need[1].id, d.key = need[1].key,
         \A n \in DOMAIN d.caveats : \A u \in Uses(ms1) : d.caveats[n].key # CaveatOf(ms1, u).key,
         Append1(d), pc' = "loop", dm' = <<>>,
         UNCHANGED <<worldVars, clientVars, localKey, ms, seen, failed>>
  PROVE  SliceInv'
<1> DEFINE r == Append(ms1, d)
           L == Len(ms1)
<1>1. /\ ms1' = r /\ need' = Tail(need) /\ pc' = "loop" /\ dm' = <<>>
      /\ now' = now /\ keys' = keys /\ slice' = slice /\ sent' = sent /\ result' = result
      /\ rooted' = rooted /\ localKey' = localKey /\ ms' = ms /\ seen' = seen /\ failed' = failed
  BY DEF Append1, worldVars, clientVars
<1>3. /\ TypeOK /\ keys \in Nat
      /\ Slice(slice) /\ Sound(slice, keys) /\ Slice(ms) /\ Slice(ms1) /\ Sound(ms1, keys)
      /\ DistinctIds(ms1)
      /\ Len(ms) \in Nat /\ L \in Nat /\ DOMAIN ms = 1..Len(ms) /\ DOMAIN ms1 = 1..L
      /\ Discharges(ms) = DOMAIN ms \ {1} /\ Discharges(ms1) = DOMAIN ms1 \ {1}
      /\ seen \in Nat /\ seen <= L
      /\ need \in Seq(Caveat) /\ Len(need) \in Nat /\ DOMAIN need = 1..Len(need)
      /\ sent = <<>> /\ result = "none"
      /\ 0 < Len(ms) /\ Len(ms) <= L /\ \A i \in DOMAIN ms : ms1[i] = ms[i]
      /\ rooted => Rooted(ms)
      /\ \A i \in Len(ms) + 1..L : \E u \in Uses(ms1) : u[1] <= seen /\ Meets(ms1, i, u)
  BY CallFacts
<1>4. /\ \A k \in DOMAIN need : \E u \in Uses(ms1) : u[1] <= seen /\ CaveatOf(ms1, u) = need[k]
      /\ \A k \in DOMAIN need : \A i \in Discharges(ms1) : ms1[i].id # need[k].id
      /\ \A k, l \in DOMAIN need : need[k].id = need[l].id => k = l
      /\ rooted /\ ~failed => \A u \in Uses(ms1) : u[1] <= seen =>
           \/ \E i \in Discharges(ms1) : Meets(ms1, i, u)
           \/ \E k \in DOMAIN need : need[k] = CaveatOf(ms1, u)
  BY QueueFacts
<1>5. 1 \in DOMAIN need
  BY <1>3
<1>6. PICK w \in Uses(ms1) : w[1] <= seen /\ CaveatOf(ms1, w) = need[1]
  BY <1>4, <1>5
<1>7. d.id # <<>>
  BY <1>3, <1>6, UsesTypes
<1>8. \A i \in Discharges(ms1) : ms1[i].id # d.id
  BY <1>4, <1>5
<1>9. L > 0
  BY <1>3
<1> HIDE DEF r, L
<1>10. /\ Slice(r) /\ Sound(r, keys)
       /\ Len(r) = L + 1 /\ r[L + 1] = d /\ \A i \in DOMAIN ms1 : r[i] = ms1[i]
  BY <1>3, <1>7, <1>8, <1>9, AppendSound DEF r, L
<1>11. DOMAIN r = 1..(L + 1) /\ DOMAIN ms1 \subseteq DOMAIN r /\ Discharges(r) = DOMAIN r \ {1}
  BY <1>3, <1>10, SliceTypes
<1>12. /\ \A i \in DOMAIN r : i \in DOMAIN ms1 \/ i = L + 1
       /\ L + 1 \in Discharges(r) /\ Discharges(ms1) \subseteq Discharges(r)
       /\ \A i \in Discharges(r) : i \in Discharges(ms1) \/ i = L + 1
  BY <1>3, <1>9, <1>11
<1>13. /\ \A u \in Uses(ms1) : u \in Uses(r) /\ CaveatOf(r, u) = CaveatOf(ms1, u)
       /\ \A u \in Uses(ms1) : \A i \in DOMAIN ms1 : Meets(r, i, u) <=> Meets(ms1, i, u)
       /\ \A u \in Uses(r) : u[1] \in DOMAIN ms1 => u \in Uses(ms1)
  BY <1>10, <1>11, PrefixUses
<1>14. \A u \in Uses(r) : u[1] <= seen => u \in Uses(ms1)
  <2>1. \A u \in Uses(r) : u[1] \in DOMAIN r
    BY <1>10, UsesTypes
  <2>2. \A i \in DOMAIN r : i <= seen => i \in DOMAIN ms1
    BY <1>3, <1>11
  <2> QED
    BY <2>1, <2>2, <1>13
<1>15. \A u \in Uses(ms1) : CaveatOf(ms1, u) = need[1] => Meets(r, L + 1, u)
  BY <1>10, <1>13 DEF Meets
<1>16. CallInv'
  <2>1. ASSUME NEW i \in Len(ms) + 1..Len(r)
        PROVE  \E u \in Uses(r) : u[1] <= seen /\ Meets(r, i, u)
    <3>1. CASE i = L + 1
      BY <3>1, <1>6, <1>13, <1>15
    <3>2. CASE i # L + 1
      <4>1. i \in Len(ms) + 1..L /\ i \in DOMAIN ms1
        BY <3>2, <1>3, <1>10
      <4>2. PICK u \in Uses(ms1) : u[1] <= seen /\ Meets(ms1, i, u)
        BY <4>1, <1>3
      <4> QED
        BY <4>1, <4>2, <1>13
    <3> QED
      BY <3>1, <3>2
  <2>2. Len(ms) <= Len(r)
    BY <1>3, <1>10
  <2>3. \A i \in DOMAIN ms : r[i] = ms[i]
    BY <1>3, <1>10
  <2> QED
    BY <2>1, <2>2, <2>3, <1>1, <1>3 DEF CallInv
<1>17. /\ Tail(need) \in Seq(Caveat) /\ DOMAIN Tail(need) = 1..(Len(need) - 1)
       /\ \A k \in DOMAIN Tail(need) : k + 1 \in DOMAIN need /\ k + 1 # 1 /\ Tail(need)[k] = need[k + 1]
       /\ \A k \in DOMAIN need : k # 1 => k - 1 \in DOMAIN Tail(need) /\ Tail(need)[k - 1] = need[k]
  BY <1>3
<1>18. QueueInv'
  <2>1. ASSUME NEW k \in DOMAIN Tail(need)
        PROVE  /\ \E u \in Uses(r) : u[1] <= seen /\ CaveatOf(r, u) = Tail(need)[k]
               /\ \A i \in Discharges(r) : r[i].id # Tail(need)[k].id
    <3> DEFINE l == k + 1
    <3>1. l \in DOMAIN need /\ l # 1 /\ Tail(need)[k] = need[l]
      BY <1>17
    <3> HIDE DEF l
    <3>2. PICK u \in Uses(ms1) : u[1] <= seen /\ CaveatOf(ms1, u) = need[l]
      BY <3>1, <1>4
    <3>3. need[l].id # d.id
      BY <3>1, <1>4, <1>5
    <3>4. \A i \in Discharges(ms1) : r[i].id # need[l].id
      BY <3>1, <1>3, <1>4, <1>10
    <3> QED
      BY <3>1, <3>2, <3>3, <3>4, <1>10, <1>12, <1>13
  <2>2. ASSUME NEW k \in DOMAIN Tail(need), NEW l \in DOMAIN Tail(need), Tail(need)[k].id = Tail(need)[l].id
        PROVE  k = l
    <3>1. k + 1 = l + 1
      BY <2>2, <1>4, <1>17
    <3> QED
      BY <3>1, <1>17, <1>3
  <2>3. ASSUME rooted, ~failed, NEW u \in Uses(r), u[1] <= seen
        PROVE  \/ \E i \in Discharges(r) : Meets(r, i, u)
               \/ \E k \in DOMAIN Tail(need) : Tail(need)[k] = CaveatOf(r, u)
    <3>1. u \in Uses(ms1)
      BY <2>3, <1>14
    <3>2. CASE \E i \in Discharges(ms1) : Meets(ms1, i, u)
      BY <3>1, <3>2, <1>3, <1>12, <1>13
    <3>3. CASE \E k \in DOMAIN need : need[k] = CaveatOf(ms1, u)
      <4>1. PICK k \in DOMAIN need : need[k] = CaveatOf(ms1, u)
        BY <3>3
      <4>2. CASE k = 1
        BY <3>1, <4>1, <4>2, <1>12, <1>15
      <4>3. CASE k # 1
        BY <3>1, <4>1, <4>3, <1>13, <1>17
      <4> QED
        BY <4>2, <4>3
    <3> QED
      BY <2>3, <3>1, <3>2, <3>3, <1>4
  <2>4. \A k, l \in DOMAIN Tail(need) : Tail(need)[k].id = Tail(need)[l].id => k = l
    BY <2>2
  <2>5. rooted' /\ ~failed' => \A u \in Uses(ms1') : u[1] <= seen' =>
           \/ \E i \in Discharges(ms1') : Meets(ms1', i, u)
           \/ \E k \in DOMAIN need' : need'[k] = CaveatOf(ms1', u)
    BY <2>3, <1>1
  <2>6. \A k \in DOMAIN need' :
           /\ \E u \in Uses(ms1') : u[1] <= seen' /\ CaveatOf(ms1', u) = need'[k]
           /\ \A i \in Discharges(ms1') : ms1'[i].id # need'[k].id
    BY <2>1, <1>1
  <2>7. \A k, l \in DOMAIN need' : need'[k].id = need'[l].id => k = l
    BY <2>4, <1>1
  <2> QED
    BY <2>5, <2>6, <2>7 DEF QueueInv
<1>19. TypeOK'
  <2>1. seen' \in 0..Len(ms1') /\ Slice(ms1') /\ need' \in Seq(Caveat) /\ dm' \in Seq(Macaroon)
    BY <1>1, <1>3, <1>10, <1>17
  <2> QED
    BY <2>1, <1>1, <1>3 DEF TypeOK
<1>20. MakingInv' /\ SentInv'
  BY <1>1, <1>3 DEF MakingInv, SentInv
<1>21. Sound(slice', keys') /\ Sound(ms1', keys')
  BY <1>1, <1>3, <1>10
<1> QED
  BY <1>16, <1>18, <1>19, <1>20, <1>21 DEF SliceInv

LEMMA FailKeeps ==
  ASSUME SliceInv, pc # "idle", Len(need) > 0, Fail, pc' = "loop", dm' = <<>>,
         UNCHANGED <<worldVars, clientVars, localKey, ms, ms1, seen>>
  PROVE  SliceInv'
<1>1. /\ failed' = TRUE /\ need' = Tail(need) /\ pc' = "loop" /\ dm' = <<>>
      /\ now' = now /\ keys' = keys /\ slice' = slice /\ sent' = sent /\ result' = result
      /\ rooted' = rooted /\ localKey' = localKey /\ ms' = ms /\ ms1' = ms1 /\ seen' = seen
  BY DEF Fail, worldVars, clientVars
<1>2. /\ TypeOK /\ CallInv /\ QueueInv /\ Sound(slice, keys) /\ Sound(ms1, keys)
      /\ need \in Seq(Caveat) /\ Len(need) \in Nat
      /\ sent = <<>> /\ result = "none"
  BY CallFacts DEF SliceInv
<1>3. /\ Tail(need) \in Seq(Caveat)
      /\ \A k \in DOMAIN Tail(need) : k \in Nat /\ k + 1 \in DOMAIN need /\ Tail(need)[k] = need[k + 1]
  BY <1>2
<1>4. QueueInv'
  <2>1. \A k \in DOMAIN Tail(need) :
           /\ \E u \in Uses(ms1) : u[1] <= seen /\ CaveatOf(ms1, u) = Tail(need)[k]
           /\ \A i \in Discharges(ms1) : ms1[i].id # Tail(need)[k].id
    BY <1>3, QueueFacts
  <2>2. ASSUME NEW k \in DOMAIN Tail(need), NEW l \in DOMAIN Tail(need), Tail(need)[k].id = Tail(need)[l].id
        PROVE  k = l
    <3>1. k + 1 = l + 1
      BY <2>2, <1>3, QueueFacts
    <3> QED
      BY <3>1, <1>3
  <2>3. \A k, l \in DOMAIN Tail(need) : Tail(need)[k].id = Tail(need)[l].id => k = l
    BY <2>2
  <2> QED
    BY <2>1, <2>3, <1>1 DEF QueueInv
<1>5. CallInv'
  BY <1>1, <1>2 DEF CallInv
<1>6. TypeOK'
  BY <1>1, <1>2, <1>3, NothingQueued DEF TypeOK
<1>7. MakingInv' /\ SentInv'
  BY <1>1, <1>2 DEF MakingInv, SentInv
<1>8. Sound(slice', keys') /\ Sound(ms1', keys')
  BY <1>1, <1>2
<1> QED
  BY <1>4, <1>5, <1>6, <1>7, <1>8 DEF SliceInv

\* The first caveat needed is one of the slice's.
LEMMA HeadNeeded ==
  ASSUME SliceInv, pc # "idle", need # <<>>
  PROVE  /\ Len(need) > 0 /\ Head(need) = need[1] /\ need[1] \in Caveat
         /\ (IsExternal(need[1]) => External(need[1].id))
<1>1. need \in Seq(Caveat) /\ Slice(ms1) /\ Sound(ms1, keys)
  BY CallFacts
<1>2. Len(need) > 0 /\ Head(need) = need[1] /\ need[1] \in Caveat /\ 1 \in DOMAIN need
  BY <1>1
<1>3. PICK u \in Uses(ms1) : CaveatOf(ms1, u) = need[1]
  BY <1>2, QueueFacts
<1> QED
  BY <1>1, <1>2, <1>3, UsesTypes

LEMMA DischargeLocalKeeps ==
  ASSUME SliceInv, DischargeLocal
  PROVE  SliceInv'
<1>1. pc = "loop" /\ pc # "idle" /\ pc # "discharge" /\ need # <<>>
  BY DEF DischargeLocal, Loop
<1>2. /\ UNCHANGED <<worldVars, clientVars, localKey, ms, seen>>
      /\ pc' = "loop" /\ dm' = <<>>
  BY <1>1 DEF DischargeLocal, SliceInv, MakingInv
<1>3. /\ Len(need) > 0 /\ Head(need) = need[1] /\ need[1] \in Caveat
      /\ (IsExternal(need[1]) => External(need[1].id))
  BY <1>1, HeadNeeded
<1>4. CASE Append1(NewDischarge(Head(need))) /\ UNCHANGED failed
  <2> DEFINE d == NewDischarge(need[1])
  <2>1. d \in Macaroon /\ d.id = need[1].id /\ d.key = need[1].key /\ d.caveats = <<>> /\ Formed(d, keys)
    BY <1>3, NewDischargeFormed
  <2>2. Append1(d)
    BY <1>3, <1>4
  <2> HIDE DEF d
  <2>3. DOMAIN d.caveats = {}
    BY <2>1, NothingQueued
  <2> QED
    BY <1>1, <1>2, <1>3, <1>4, <2>1, <2>2, <2>3, AppendKeeps
<1>5. CASE Fail /\ UNCHANGED ms1
  BY <1>1, <1>2, <1>3, <1>5, FailKeeps
<1> QED
  BY <1>4, <1>5 DEF DischargeLocal

LEMMA GetDischargeKeeps ==
  ASSUME SliceInv, GetDischarge
  PROVE  SliceInv'
<1>1. /\ pc = "loop" /\ pc # "idle" /\ need # <<>> /\ pc' = "discharge"
      /\ now' = now /\ keys' = keys /\ slice' = slice /\ sent' = sent /\ result' = result
      /\ rooted' = rooted /\ localKey' = localKey /\ ms' = ms /\ ms1' = ms1
      /\ seen' = seen /\ need' = need /\ failed' = failed
  BY DEF GetDischarge, Loop, worldVars, clientVars
<1>2. /\ Len(need) > 0 /\ Head(need) = need[1] /\ need[1] \in Caveat
      /\ (IsExternal(need[1]) => External(need[1].id))
  BY <1>1, HeadNeeded
<1> DEFINE d == NewDischarge(need[1])
<1>3. PICK t \in now + 1..Never : dm' = <<IF t = Never THEN d ELSE AddTimeBefore(d, t)>>
  BY <1>2 DEF GetDischarge
<1> DEFINE e == IF t = Never THEN d ELSE AddTimeBefore(d, t)
<1>4. /\ d \in Macaroon /\ d.id = need[1].id /\ d.key = need[1].key /\ d.version = need[1].version
      /\ d.caveats = <<>> /\ Formed(d, keys)
  BY <1>2, NewDischargeFormed
<1>5. t \in Times
  BY NumberTypes DEF SliceInv, TypeOK, Times, Never
<1> HIDE DEF d
<1>6. /\ e \in Macaroon /\ e.id = d.id /\ e.key = d.key /\ e.version = d.version
      /\ e.caveats = d.caveats /\ Formed(e, keys)
  <2>1. LET n == AddTimeBefore(d, t)
        IN  /\ n \in Macaroon
            /\ n.id = d.id /\ n.key = d.key /\ n.version = d.version /\ n.prefix = d.prefix
            /\ n.boundTo = d.boundTo /\ n.caveats = d.caveats
    BY <1>4, <1>5, ExpiryFields
  <2>2. Formed(AddTimeBefore(d, t), keys)
    BY <2>1, <1>4, FormedFields
  <2> QED
    BY <2>1, <2>2, <1>4
<1>7. dm' = <<e>>
  BY <1>3
<1> HIDE DEF e
<1>8. /\ dm'[1] = e /\ Len(dm') = 1 /\ dm' \in Seq(Macaroon) /\ DOMAIN e.caveats = {}
  BY <1>4, <1>6, <1>7
<1>9. MakingInv'
  BY <1>1, <1>4, <1>6, <1>8 DEF MakingInv
<1>10. TypeOK'
  BY <1>1, <1>2, <1>8 DEF SliceInv, TypeOK
<1>11. CallInv' /\ QueueInv' /\ SentInv'
  BY <1>1 DEF SliceInv, CallInv, QueueInv, SentInv
<1> QED
  BY <1>1, <1>9, <1>10, <1>11 DEF SliceInv

LEMMA MakingFacts ==
  ASSUME SliceInv, pc = "discharge"
  PROVE  /\ Len(need) > 0 /\ Len(dm) = 1 /\ dm[1] \in Macaroon /\ pc # "idle"
         /\ dm[1].id = need[1].id /\ dm[1].key = need[1].key /\ dm[1].version = need[1].version
         /\ Formed(dm[1], keys)
         /\ \A n \in DOMAIN dm[1].caveats : \A u \in Uses(ms1) : dm[1].caveats[n].key # CaveatOf(ms1, u).key
<1>1. /\ dm[1].id = need[1].id /\ dm[1].key = need[1].key /\ dm[1].version = need[1].version
      /\ Formed(dm[1], keys)
      /\ \A n \in DOMAIN dm[1].caveats : \A u \in Uses(ms1) : dm[1].caveats[n].key # CaveatOf(ms1, u).key
  BY DEF SliceInv, MakingInv
<1>2. dm \in Seq(Macaroon) /\ Len(dm) = 1 /\ Len(need) > 0
  BY DEF SliceInv, TypeOK
<1>3. dm[1] \in Macaroon
  BY <1>2
<1> QED
  BY <1>1, <1>2, <1>3

LEMMA DischargerAddsKeeps ==
  ASSUME SliceInv, DischargerAddsCaveat
  PROVE  SliceInv'
<1>1. /\ pc = "discharge" /\ keys' = keys + 1 /\ pc' = pc
      /\ now' = now /\ slice' = slice /\ sent' = sent /\ result' = result
      /\ rooted' = rooted /\ localKey' = localKey /\ ms' = ms /\ ms1' = ms1
      /\ seen' = seen /\ need' = need /\ failed' = failed
  BY DEF DischargerAddsCaveat, clientVars
<1> DEFINE m == dm[1]
<1>2. PICK h \in Parties : dm' = <<AddThirdParty(m, h, FALSE, keys)>>
  BY DEF DischargerAddsCaveat
<1>3. /\ Len(need) > 0 /\ m \in Macaroon /\ pc # "idle"
      /\ m.id = need[1].id /\ m.key = need[1].key /\ m.version = need[1].version
      /\ Formed(m, keys)
      /\ \A n \in DOMAIN m.caveats : \A u \in Uses(ms1) : m.caveats[n].key # CaveatOf(ms1, u).key
  BY <1>1, MakingFacts
<1>4. /\ keys \in Nat /\ Slice(slice) /\ Sound(slice, keys) /\ Slice(ms1) /\ Sound(ms1, keys) /\ TypeOK
  BY <1>3, CallFacts
<1> DEFINE p == AddThirdParty(m, h, FALSE, keys)
           c == NewCaveat(m, h, FALSE, keys)
<1> HIDE DEF m
<1>5. h \in Holders
  BY DEF Holders
<1>6. /\ p \in Macaroon /\ p.id = m.id /\ p.key = m.key /\ p.version = m.version
      /\ p.caveats = Append(m.caveats, c) /\ c \in Caveat /\ c.key = keys
  <2>1. FALSE \in BOOLEAN
    OBVIOUS
  <2>2. /\ p \in Macaroon /\ p.id = m.id /\ p.key = m.key /\ p.version = m.version
        /\ p.caveats = Append(m.caveats, c)
    BY <2>1, <1>3, <1>4, <1>5, AddedFields
  <2>3. c \in Caveat /\ c.key = keys
    BY <2>1, <1>3, <1>4, <1>5, NewCaveatFormed
  <2> QED
    BY <2>2, <2>3
<1>7. Formed(p, keys + 1)
  BY <1>3, <1>4, <1>5, AddedFormed
<1>8. dm' = <<p>>
  BY <1>2
<1> HIDE DEF p, c
<1>9. dm'[1] = p /\ Len(dm') = 1 /\ dm' \in Seq(Macaroon)
  BY <1>6, <1>8
<1>10. \A u \in Uses(ms1) : CaveatOf(ms1, u).key # keys
  <2> SUFFICES ASSUME NEW u \in Uses(ms1) PROVE CaveatOf(ms1, u).key # keys
    OBVIOUS
  <2>1. /\ u[1] \in DOMAIN ms1 /\ u[2] \in DOMAIN ms1[u[1]].caveats
        /\ CaveatOf(ms1, u) = ms1[u[1]].caveats[u[2]] /\ CaveatOf(ms1, u).key \in Nat
    BY <1>4, UsesTypes, CaveatTypes
  <2>2. CaveatOf(ms1, u).key < keys
    BY <2>1, <1>4 DEF Sound, Formed
  <2> QED
    BY <2>1, <2>2, <1>4
<1>11. \A n \in DOMAIN p.caveats : \/ n \in DOMAIN m.caveats /\ p.caveats[n] = m.caveats[n]
                                   \/ p.caveats[n].key = keys
  BY <1>3, <1>6, MacaroonTypes
<1>12. \A n \in DOMAIN p.caveats : \A u \in Uses(ms1) : p.caveats[n].key # CaveatOf(ms1, u).key
  BY <1>3, <1>10, <1>11
<1>13. MakingInv'
  BY <1>1, <1>3, <1>6, <1>7, <1>9, <1>12 DEF MakingInv
<1>14. TypeOK'
  BY <1>1, <1>3, <1>4, <1>9 DEF TypeOK
<1>15. CallInv' /\ QueueInv' /\ SentInv'
  BY <1>1 DEF SliceInv, CallInv, QueueInv, SentInv
<1>16. Sound(slice', keys') /\ Sound(ms1', keys')
  BY <1>1, <1>4, SoundLater
<1> QED
  BY <1>13, <1>14, <1>15, <1>16 DEF SliceInv

LEMMA GotDischargeKeeps ==
  ASSUME SliceInv, GotDischarge
  PROVE  SliceInv'
<1>1. /\ pc = "discharge" /\ Append1(dm[1]) /\ pc' = "loop" /\ dm' = <<>>
      /\ UNCHANGED <<worldVars, clientVars, localKey, ms, seen, failed>>
  BY DEF GotDischarge
<1> DEFINE d == dm[1]
<1>2. /\ Len(need) > 0 /\ d \in Macaroon /\ pc # "idle"
      /\ d.id = need[1].id /\ d.key = need[1].key /\ Formed(d, keys)
      /\ \A n \in DOMAIN d.caveats : \A u \in Uses(ms1) : d.caveats[n].key # CaveatOf(ms1, u).key
  BY <1>1, MakingFacts
<1>3. Append1(d)
  BY <1>1
<1> HIDE DEF d
<1> QED
  BY <1>1, <1>2, <1>3, AppendKeeps

LEMMA GetDischargeErrorKeeps ==
  ASSUME SliceInv, GetDischargeError
  PROVE  SliceInv'
<1>1. /\ Fail /\ pc' = "loop" /\ dm' = <<>>
      /\ UNCHANGED <<worldVars, clientVars, localKey, ms, ms1, seen>>
  BY DEF GetDischargeError
<1>2. pc # "idle" /\ Len(need) > 0
  <2>1. CASE Loop
    <3>1. pc # "idle" /\ need # <<>>
      BY <2>1 DEF Loop
    <3> QED
      BY <3>1, HeadNeeded
  <2>2. CASE pc = "discharge"
    BY <2>2, MakingFacts
  <2> QED
    BY <2>1, <2>2 DEF GetDischargeError
<1> QED
  BY <1>1, <1>2, FailKeeps

LEMMA FinishKeeps ==
  ASSUME SliceInv, FinishDischargeAll
  PROVE  SliceInv'
<1>1. /\ pc = "loop" /\ pc # "idle" /\ seen = Len(ms1) /\ need = <<>>
      /\ pc' = "idle" /\ slice' = ms1 /\ sent' = <<>>
      /\ result' = (IF failed THEN "error" ELSE "ok")
      /\ localKey' = FALSE /\ ms' = <<>> /\ ms1' = <<>> /\ seen' = 0 /\ failed' = FALSE
      /\ now' = now /\ keys' = keys /\ rooted' = rooted /\ need' = need /\ dm' = dm
  BY DEF FinishDischargeAll, worldVars
<1>2. /\ TypeOK /\ keys \in Nat
      /\ Slice(slice) /\ Sound(slice, keys) /\ Slice(ms) /\ Slice(ms1) /\ Sound(ms1, keys)
      /\ DistinctIds(ms1)
      /\ Len(ms) \in Nat /\ Len(ms1) \in Nat /\ DOMAIN ms = 1..Len(ms) /\ DOMAIN ms1 = 1..Len(ms1)
      /\ Discharges(ms) = DOMAIN ms \ {1} /\ Discharges(ms1) = DOMAIN ms1 \ {1}
      /\ seen \in Nat /\ seen <= Len(ms1)
      /\ need \in Seq(Caveat) /\ Len(need) \in Nat /\ DOMAIN need = 1..Len(need)
      /\ sent = <<>> /\ result = "none"
      /\ 0 < Len(ms) /\ Len(ms) <= Len(ms1) /\ \A i \in DOMAIN ms : ms1[i] = ms[i]
      /\ rooted => Rooted(ms)
      /\ \A i \in Len(ms) + 1..Len(ms1) : \E u \in Uses(ms1) : u[1] <= seen /\ Meets(ms1, i, u)
  BY <1>1, CallFacts
<1>3. dm = <<>>
  BY <1>1 DEF SliceInv, MakingInv
<1>4. Slice(<<>>) /\ Sound(<<>>, keys) /\ Uses(<<>>) = {} /\ Discharges(<<>>) = {}
  BY NothingSound
<1>5. TypeOK'
  <2>1. Slice(slice') /\ Slice(ms') /\ Slice(ms1')
    BY <1>1, <1>2, <1>4
  <2>2. sent' \in Seq(Macaroon) /\ need' \in Seq(Caveat) /\ dm' \in Seq(Macaroon) /\ seen' \in 0..Len(ms1')
    BY <1>1, <1>3, NothingQueued
  <2>3. result' \in {"none", "ok", "error"} /\ pc' \in {"idle", "loop", "discharge"} /\ pc' # "discharge"
    BY <1>1
  <2> QED
    BY <2>1, <2>2, <2>3, <1>1, <1>2 DEF TypeOK
<1>6. CallInv' /\ MakingInv'
  BY <1>1, <1>3 DEF CallInv, MakingInv
<1>7. QueueInv'
  BY <1>1, <1>4, NothingQueued DEF QueueInv
<1>8. ASSUME rooted, ~failed PROVE Complete(ms1)
  <2>1. ASSUME NEW u \in Uses(ms1) PROVE \E i \in Discharges(ms1) : Meets(ms1, i, u)
    <3>1. u[1] <= seen
      BY <1>1, <1>2, UsesTypes
    <3> QED
      BY <3>1, <1>1, <1>8, QueueFacts, NothingQueued
  <2>2. ASSUME NEW i \in Discharges(ms1) PROVE \E u \in Uses(ms1) : Meets(ms1, i, u)
    <3>1. CASE i \in DOMAIN ms
      <4>1. i \in Discharges(ms)
        BY <3>1, <1>2
      <4>2. PICK u \in Uses(ms) : Meets(ms, i, u)
        BY <4>1, <1>2, <1>8 DEF Rooted
      <4>3. DOMAIN ms \subseteq DOMAIN ms1
        BY <1>2
      <4> QED
        BY <3>1, <4>2, <4>3, <1>2, PrefixUses
    <3>2. CASE i \notin DOMAIN ms
      <4>1. i \in Len(ms) + 1..Len(ms1)
        BY <3>2, <1>2
      <4> QED
        BY <4>1, <1>2
    <3> QED
      BY <3>1, <3>2
  <2> QED
    BY <2>1, <2>2 DEF Complete, Rooted
<1>9. SentInv'
  <2>1. result' = "ok" => ~failed
    BY <1>1
  <2> QED
    BY <2>1, <1>1, <1>8 DEF SentInv
<1>10. Sound(slice', keys') /\ Sound(ms1', keys')
  BY <1>1, <1>2, <1>4
<1> QED
  BY <1>5, <1>6, <1>7, <1>9, <1>10 DEF SliceInv

-----------------------------------------------------------------------------
(* The invariant and what it implies.                                      *)

LEMMA SliceStep ==
  ASSUME SliceInv, [Next]_vars
  PROVE  SliceInv'
<1>1. CASE Tick
  BY <1>1, TickKeeps
<1>2. CASE AddCaveat
  BY <1>2, AddCaveatKeeps
<1>3. CASE AddExpiry
  BY <1>3, AddExpiryKeeps
<1>4. CASE Purge
  BY <1>4, PurgeKeeps
<1>5. CASE NewPrimary
  BY <1>5, NewPrimaryKeeps
<1>6. CASE Send
  BY <1>6, SendKeeps
<1>7. CASE DischargeNothing
  BY <1>7, DischargeNothingKeeps
<1>8. CASE StartDischargeAll
  BY <1>8, StartKeeps
<1>9. CASE DischargerAddsCaveat
  BY <1>9, DischargerAddsKeeps
<1>10. CASE AddCaveats
  BY <1>10, AddCaveatsKeeps
<1>11. CASE DischargeLocal
  BY <1>11, DischargeLocalKeeps
<1>12. CASE GetDischarge
  BY <1>12, GetDischargeKeeps
<1>13. CASE GotDischarge
  BY <1>13, GotDischargeKeeps
<1>14. CASE GetDischargeError
  BY <1>14, GetDischargeErrorKeeps
<1>15. CASE FinishDischargeAll
  BY <1>15, FinishKeeps
<1>16. CASE UNCHANGED vars
  <2>1. /\ now' = now /\ keys' = keys /\ slice' = slice /\ sent' = sent /\ result' = result
        /\ rooted' = rooted /\ pc' = pc /\ localKey' = localKey /\ ms' = ms /\ ms1' = ms1
        /\ seen' = seen /\ need' = need /\ failed' = failed /\ dm' = dm
    BY <1>16 DEF vars
  <2>2. TypeOK'
    BY <2>1 DEF SliceInv, TypeOK
  <2>3. CallInv' /\ QueueInv' /\ MakingInv' /\ SentInv'
    BY <2>1 DEF SliceInv, CallInv, QueueInv, MakingInv, SentInv
  <2> QED
    BY <2>1, <2>2, <2>3 DEF SliceInv
<1> QED
  BY <1>1, <1>2, <1>3, <1>4, <1>5, <1>6, <1>7, <1>8, <1>9, <1>10, <1>11, <1>12, <1>13, <1>14, <1>15, <1>16
     DEF Next, DischargeAll

\* What the client keeps and what DischargeAll gathers belong together, with
\* distinct ids and keys, between any two calls and within them (slice.go).
THEOREM Gathers == Spec => []SliceInv
<1>1. Init => SliceInv
  BY Begins
<1>2. SliceInv /\ [Next]_vars => SliceInv'
  BY SliceStep
<1> QED
  BY <1>1, <1>2, PTL DEF Spec

\* The slices and the locals of DischargeAll keep their types; only the first
\* macaroon of a slice is a primary.
THEOREM TypeCorrect == Spec => []TypeOK
<1>1. SliceInv => TypeOK
  BY DEF SliceInv
<1> QED
  BY <1>1, Gathers, PTL

\* No two caveats and no two discharges of a slice ever have the same id
\* (macaroon.go, newCaveatId).
THEOREM IdsAreUnique == Spec => []UniqueIds
<1>1. SliceInv => UniqueIds
  BY DEF SliceInv, Sound, UniqueIds
<1> QED
  BY <1>1, Gathers, PTL

\* What the client sends after DischargeAll reported success verifies, if the
\* slice it was called on held no stray discharge (slice.go, DischargeAll and
\* Bind).
THEOREM RequestsVerify == Spec => []RequestVerifies
<1>1. ASSUME SliceInv, result = "ok", rooted, sent # <<>> PROVE Verifies(sent)
  <2>1. sent = Bind(slice) /\ Complete(slice) /\ Slice(slice) /\ Sound(slice, keys)
    BY <1>1 DEF SliceInv, TypeOK, SentInv
  <2>2. Len(slice) > 0
    <3>1. slice # <<>>
      <4> SUFFICES ASSUME slice = <<>> PROVE Bind(slice) = <<>>
        BY <2>1, <1>1
      <4>1. DOMAIN slice = {}
        OBVIOUS
      <4> QED
        BY <4>1 DEF Bind
    <3> QED
      BY <3>1, <2>1, SliceTypes
  <2> QED
    BY <2>1, <2>2, BoundVerifies
<1>2. SliceInv => RequestVerifies
  BY <1>1 DEF RequestVerifies
<1> QED
  BY <1>2, Gathers, PTL
=============================================================================
