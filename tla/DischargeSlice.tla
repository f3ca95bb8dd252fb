--------------------------- MODULE DischargeSlice ---------------------------
(***************************************************************************)
(* bakery.Slice (slice.go): the macaroons a client keeps for a service and *)
(* the calls it makes on them, with the dischargers they reach.            *)
(*                                                                         *)
(* The client is sequential: its calls do not overlap.  DischargeAll takes *)
(* several steps, and the clock moves between them; each discharger runs   *)
(* Discharge, which adds the caveats its checker returned one by one.      *)
(***************************************************************************)
EXTENDS Macaroons

CONSTANTS
  MaxKeys     \* bound on the root keys drawn

ASSUME DischargeSliceAssumption == MaxKeys \in Nat

VARIABLES
  now,        \* the clock
  keys,       \* root keys drawn so far
  slice,      \* the client's Slice; <<>> when nil
  sent,       \* what it last sent to the service since DischargeAll returned
              \* or the slice changed, <<>> for nothing
  result,     \* of the last DischargeAll, "none" once the slice changed
  rooted,     \* whether the slice it was called on held no stray discharge
              \* (for properties only)
  \* The locals of DischargeAll:
  pc,         \* "idle", "loop", or "discharge" within getDischarge
  localKey,   \* whether a local key was given
  ms,         \* the slice it was called on
  ms1,        \* the slice it will return
  seen,       \* how many macaroons of ms1 addCaveats was called on
  need,       \* the queue of caveats to be discharged
  failed,     \* errs is not empty
  dm          \* the discharge being made; <<>> when none

worldVars == <<now, keys>>
clientVars == <<slice, sent, result, rooted>>
callVars == <<pc, localKey, ms, ms1, seen, need, failed, dm>>
vars == <<now, keys, slice, sent, result, rooted, pc, localKey, ms, ms1, seen, need, failed, dm>>

\* What the service mints: a primary of the version it was asked for.
Primaries(k) == {NewMacaroon(k, <<>>, v, <<>>) : v \in {2, 3}}

Init ==
  /\ now = 0
  /\ keys = 1
  /\ \E m \in Primaries(0) : slice = <<m>>
  /\ sent = <<>>
  /\ result = "none"
  /\ rooted = FALSE
  /\ pc = "idle"
  /\ localKey = FALSE
  /\ ms = <<>>
  /\ ms1 = <<>>
  /\ seen = 0
  /\ need = <<>>
  /\ failed = FALSE
  /\ dm = <<>>

Tick ==
  /\ now < MaxTime
  /\ now' = now + 1
  /\ UNCHANGED <<keys, clientVars, callVars>>

-----------------------------------------------------------------------------
(* The calls that take one step.                                           *)

\* The client's slice becomes s: neither bound nor discharged yet.
Keep(s) ==
  /\ slice' = s
  /\ sent' = <<>>
  /\ result' = "none"
  /\ rooted' = FALSE

\* Macaroon.AddCaveat on the primary, which needs no new primary.
AddCaveat ==
  /\ pc = "idle"
  /\ Len(slice) > 0
  /\ keys < MaxKeys
  /\ \E h \in Holders, local \in BOOLEAN :
       /\ h = Client => local
       /\ Keep([slice EXCEPT ![1] = AddThirdParty(@, h, local, keys)])
  /\ keys' = keys + 1
  /\ UNCHANGED <<now, callVars>>

AddExpiry ==
  /\ pc = "idle"
  /\ Len(slice) > 0
  /\ \E t \in now + 1..MaxTime :
       /\ t < slice[1].expiry
       /\ Keep([slice EXCEPT ![1] = AddTimeBefore(@, t)])
  /\ UNCHANGED <<worldVars, callVars>>

Unexpired(m) == m.expiry > now

UnexpiredOnly == Subsequence(slice, {i \in DOMAIN slice : Unexpired(slice[i])})

\* Mutated: the discharges of an expired primary are kept.
PurgeKeepsDischarges ==
  /\ pc = "idle"
  /\ Len(slice) > 0
  /\ Keep(UnexpiredOnly)
  /\ UNCHANGED <<worldVars, callVars>>

\* Without its primary the slice is nil; the client asks for a new one.
Purge ==
  /\ pc = "idle"
  /\ Len(slice) > 0
  /\ Keep(IF Unexpired(slice[1]) THEN UnexpiredOnly ELSE <<>>)
  /\ UNCHANGED <<worldVars, callVars>>

NewPrimary ==
  /\ pc = "idle"
  /\ Len(slice) = 0
  /\ keys < MaxKeys
  /\ \E m \in Primaries(keys) : Keep(<<m>>)
  /\ keys' = keys + 1
  /\ UNCHANGED <<now, callVars>>

\* Mutated: Bind binds the macaroons of the slice, not copies.
SendInPlace ==
  /\ pc = "idle"
  /\ Len(slice) > 0
  /\ sent' = Bind(slice)
  /\ slice' = sent'
  /\ UNCHANGED <<worldVars, result, rooted, callVars>>

\* Slice.Bind copies: the slice stays unbound, for further use.
Send ==
  /\ pc = "idle"
  /\ Len(slice) > 0
  /\ sent' = Bind(slice)
  /\ UNCHANGED <<worldVars, slice, result, rooted, callVars>>

-----------------------------------------------------------------------------
(* Slice.DischargeAll.                                                     *)

DischargeNothing ==
  /\ pc = "idle"
  /\ Len(slice) = 0
  /\ result' = "error"
  /\ UNCHANGED <<worldVars, slice, sent, rooted, callVars>>

\* Every discharge of s discharges a caveat that s holds.
Rooted(s) == \A i \in Discharges(s) : \E u \in Uses(s) : Meets(s, i, u)

StartDischargeAll ==
  /\ pc = "idle"
  /\ Len(slice) > 0
  /\ pc' = "loop"
  /\ localKey' \in BOOLEAN
  /\ ms' = slice
  /\ ms1' = slice
  /\ result' = "none"
  /\ rooted' = Rooted(slice)
  /\ sent' = <<>>
  /\ UNCHANGED <<worldVars, slice, seen, need, failed, dm>>

\* have is built once, from the slice DischargeAll was given.
Have == {ms[i].id : i \in Discharges(ms)}

Unmet(m) == Subsequence(m.caveats, {n \in DOMAIN m.caveats : m.caveats[n].id \notin Have})

\* addCaveats of the next macaroon: those of the slice given, then each
\* discharge as it is appended.
AddCaveats ==
  /\ pc = "loop"
  /\ seen < Len(ms1)
  /\ seen' = seen + 1
  /\ need' = need \o Unmet(ms1[seen + 1])
  /\ UNCHANGED <<worldVars, clientVars, pc, localKey, ms, ms1, failed, dm>>

\* The loop takes the first caveat needed.
Loop == pc = "loop" /\ seen = Len(ms1) /\ need # <<>>

IsLocal(c) == localKey /\ c.local

\* Mutated: the caveat discharged stays in the queue.
Append1Kept(d) == ms1' = Append(ms1, d) /\ UNCHANGED need

Append1(d) ==
  /\ ms1' = Append(ms1, d)
  /\ need' = Tail(need)

\* Mutated: the caveat stays in the queue.
FailRetried == failed' = TRUE /\ UNCHANGED need

Fail ==
  /\ failed' = TRUE
  /\ need' = Tail(need)

\* A local caveat is discharged with the client's own key, if that is the
\* key it was sealed to.
DischargeLocal ==
  /\ Loop
  /\ IsLocal(Head(need))
  /\ \/ /\ Head(need).holder = Client
        /\ Append1(NewDischarge(Head(need)))
        /\ UNCHANGED failed
     \/ /\ Head(need).holder # Client
        /\ Fail
        /\ UNCHANGED ms1
  /\ UNCHANGED <<worldVars, clientVars, pc, localKey, ms, seen, dm>>

\* getDischarge reaches the caveat's location, whose checker accepts and
\* may limit the discharge in time...
GetDischarge ==
  /\ Loop
  /\ ~IsLocal(Head(need))
  /\ ~Head(need).local
  /\ \E t \in now + 1..Never :
       LET d == NewDischarge(Head(need))
       IN  dm' = <<IF t = Never THEN d ELSE AddTimeBefore(d, t)>>
  /\ pc' = "discharge"
  /\ UNCHANGED <<worldVars, clientVars, localKey, ms, ms1, seen, need, failed>>

\* ... and asks for more third-party caveats on it, in turn.
DischargerAddsCaveat ==
  /\ pc = "discharge"
  /\ keys < MaxKeys
  /\ \E h \in Parties : dm' = <<AddThirdParty(dm[1], h, FALSE, keys)>>
  /\ keys' = keys + 1
  /\ UNCHANGED <<now, clientVars, pc, localKey, ms, ms1, seen, need, failed>>

GotDischarge ==
  /\ pc = "discharge"
  /\ Append1(dm[1])
  /\ pc' = "loop"
  /\ dm' = <<>>
  /\ UNCHANGED <<worldVars, clientVars, localKey, ms, seen, failed>>

\* The checker refuses, the location cannot be reached (no location is
\* named "local"), or Discharge fails to add a caveat.
GetDischargeError ==
  /\ \/ Loop /\ ~IsLocal(Head(need))
     \/ pc = "discharge"
  /\ Fail
  /\ pc' = "loop"
  /\ dm' = <<>>
  /\ UNCHANGED <<worldVars, clientVars, localKey, ms, ms1, seen>>

\* The discharges acquired are returned, error or not.
FinishDischargeAll ==
  /\ pc = "loop"
  /\ seen = Len(ms1)
  /\ need = <<>>
  /\ pc' = "idle"
  /\ slice' = ms1
  /\ sent' = <<>>
  /\ result' = IF failed THEN "error" ELSE "ok"
  /\ localKey' = FALSE
  /\ ms' = <<>>
  /\ ms1' = <<>>
  /\ seen' = 0
  /\ failed' = FALSE
  /\ UNCHANGED <<worldVars, rooted, need, dm>>

-----------------------------------------------------------------------------
DischargeAll ==
  \/ AddCaveats
  \/ DischargeLocal
  \/ GetDischarge
  \/ GotDischarge
  \/ GetDischargeError
  \/ FinishDischargeAll

Next ==
  \/ Tick
  \/ AddCaveat
  \/ AddExpiry
  \/ Purge
  \/ NewPrimary
  \/ Send
  \/ DischargeNothing
  \/ StartDischargeAll
  \/ DischargerAddsCaveat
  \/ DischargeAll

Spec == Init /\ [][Next]_vars

\* The loop goes on, and getDischarge answers.
FairSpec == Spec /\ WF_vars(DischargeAll)

-----------------------------------------------------------------------------
(* Properties.                                                             *)

\* slice.go: the primary comes first, and only it has the primary's id.
Slice(s) ==
  /\ s \in Seq(Macaroon)
  /\ \A i \in DOMAIN s : s[i].id = <<>> <=> i = 1

TypeOK ==
  /\ now \in 0..MaxTime
  /\ keys \in Nat
  /\ Slice(slice) /\ Slice(ms) /\ Slice(ms1)
  /\ sent \in Seq(Macaroon)
  /\ result \in {"none", "ok", "error"}
  /\ rooted \in BOOLEAN
  /\ pc \in {"idle", "loop", "discharge"}
  /\ localKey \in BOOLEAN
  /\ failed \in BOOLEAN
  /\ seen \in 0..Len(ms1)
  /\ need \in Seq(Caveat)
  /\ dm \in Seq(Macaroon)
  /\ pc = "discharge" => Len(dm) = 1 /\ Len(need) > 0

\* No two caveats and no two discharges of a slice have the same id, whoever
\* made them and however often calls fail, discharges are purged and calls
\* are repeated: newCaveatId only looks at the caveats of its own macaroon,
\* and DischargeAll only at the discharges it was given.
DistinctIds(s) ==
  /\ \A u, v \in Uses(s) : CaveatOf(s, u).id = CaveatOf(s, v).id => u = v
  /\ \A i, j \in Discharges(s) : s[i].id = s[j].id => i = j

UniqueIds == DistinctIds(slice) /\ DistinctIds(ms1)

\* When DischargeAll reports success, the service can verify what the client
\* sends, provided that every discharge in the slice it was called on was one
\* of a caveat in it; earlier failures, purges, caveats added since earlier
\* discharges and earlier requests do not matter (slice.go, Bind and
\* DischargeAll).
RequestVerifies == result = "ok" /\ rooted /\ sent # <<>> => Verifies(sent)

\* The same without the proviso, as the comment of DischargeAll has it:
\* expired discharges can be reacquired without reacquiring the primary.
ReacquiredVerifies == result = "ok" /\ sent # <<>> => Verifies(sent)

\* DischargeAll returns, whatever the dischargers answer, if they do not ask
\* for more discharges for ever.
DischargeAllReturns == []<>(pc = "idle")

-----------------------------------------------------------------------------
(* The inductive invariant behind UniqueIds and RequestVerifies.           *)

\* The ids of external caveats, and those among them that a macaroon whose
\* ids start so gives.
External(id) == Len(id) >= 2 /\ id[1] = 3
Extends(id, base) == Len(id) = Len(base) + 1 /\ \A n \in DOMAIN base : id[n] = base[n]

\* A macaroon that is not bound: what version 3 discharges, and only they,
\* are prefixed with, and the ids and keys of its caveats.
Formed(m, drawn) ==
  /\ m.boundTo = <<>>
  /\ m.prefix = IF m.version = 3 THEN m.id ELSE <<>>
  /\ m.prefix # <<>> => External(m.prefix)
  /\ \A n \in DOMAIN m.caveats :
       /\ m.caveats[n].key < drawn
       /\ IF IsExternal(m.caveats[n]) THEN m.version = 3 /\ Extends(m.caveats[n].id, Base(m))
                                       ELSE m.caveats[n].id = <<2, m.caveats[n].key>>
  /\ \A n, k \in DOMAIN m.caveats :
       m.caveats[n].id = m.caveats[k].id \/ m.caveats[n].key = m.caveats[k].key => n = k

DistinctKeys(s) == \A u, v \in Uses(s) : CaveatOf(s, u).key = CaveatOf(s, v).key => u = v

Sound(s, drawn) ==
  /\ \A i \in DOMAIN s : Formed(s[i], drawn)
  /\ DistinctIds(s)
  /\ DistinctKeys(s)

\* The discharge being made is that of the first caveat needed.
MakingInv ==
  IF pc # "discharge" THEN dm = <<>>
  ELSE /\ dm[1].id = need[1].id /\ dm[1].key = need[1].key /\ dm[1].version = need[1].version
       /\ Formed(dm[1], keys)
       /\ \A n \in DOMAIN dm[1].caveats, u \in Uses(ms1) : dm[1].caveats[n].key # CaveatOf(ms1, u).key

\* While DischargeAll runs, it extends the slice it was called on, for caveats
\* that it has seen.
CallInv ==
  IF pc = "idle" THEN ms = <<>> /\ ms1 = <<>> /\ seen = 0 /\ need = <<>> /\ ~failed
  ELSE /\ sent = <<>> /\ result = "none"
       /\ 0 < Len(ms) /\ Len(ms) <= Len(ms1)
       /\ \A i \in DOMAIN ms : ms1[i] = ms[i]
       /\ rooted => Rooted(ms)
       /\ \A i \in Len(ms) + 1..Len(ms1) : \E u \in Uses(ms1) : u[1] <= seen /\ Meets(ms1, i, u)

\* The queue holds caveats seen, each once, that no discharge is of yet, and
\* all of those unless some failed.
QueueInv ==
  /\ \A k \in DOMAIN need :
       /\ \E u \in Uses(ms1) : u[1] <= seen /\ CaveatOf(ms1, u) = need[k]
       /\ \A i \in Discharges(ms1) : ms1[i].id # need[k].id
  /\ \A k, l \in DOMAIN need : need[k].id = need[l].id => k = l
  /\ rooted /\ ~failed => \A u \in Uses(ms1) : u[1] <= seen =>
       \/ \E i \in Discharges(ms1) : Meets(ms1, i, u)
       \/ \E k \in DOMAIN need : need[k] = CaveatOf(ms1, u)

\* Every caveat has its discharge and every discharge its caveat.
Complete(s) ==
  /\ \A u \in Uses(s) : \E i \in Discharges(s) : Meets(s, i, u)
  /\ Rooted(s)

SentInv ==
  /\ sent # <<>> => sent = Bind(slice)
  /\ result = "ok" /\ rooted => Complete(slice)

\* What the client keeps and what DischargeAll gathers have distinct ids and
\* keys, and belong together, between any two calls and within them.
SliceInv ==
  /\ TypeOK
  /\ Sound(slice, keys)
  /\ Sound(ms1, keys)
  /\ CallInv
  /\ QueueInv
  /\ MakingInv
  /\ SentInv
=============================================================================
