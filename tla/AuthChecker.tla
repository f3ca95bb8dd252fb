---------------------------- MODULE AuthChecker ----------------------------
(***************************************************************************)
(* bakery.AuthChecker (checker.go): one request's macaroons, and the Allow *)
(* and Allowed calls that goroutines make on them.  The macaroons are      *)
(* verified once, by the first call; each call then checks them in its own *)
(* context and asks the OpsAuthorizer, in the order in which Go ranges     *)
(* over a map, which is any order.                                         *)
(*                                                                         *)
(* The order and the duplicates of the operations asked for do not matter  *)
(* and are left out.  What the OpsAuthorizer would answer in a call's      *)
(* context is the call's policy: <<from, op>> is granted when the operation*)
(* from authorizes op, and charged when a third-party caveat comes with it.*)
(* It does not depend on the macaroon that carries from.                   *)
(***************************************************************************)
EXTENDS Integers, FiniteSets

CONSTANTS
  Threads,        \* goroutines that share the AuthChecker
  N,              \* how many macaroons the request has
  Ops,            \* the operations, NoOp not among them
  NoOp,           \* the empty operation
  MacaroonOps,    \* the sets of operations that macaroon ids hold
  Policies        \* what the OpsAuthorizer may answer, see Policy

Mac == 1..N
AllOps == Ops \cup {NoOp}
Pairs == AllOps \X Ops

ASSUME AuthCheckerAssumption ==
  /\ N \in Nat
  /\ NoOp \notin Ops
  /\ MacaroonOps \subseteq SUBSET Ops
  /\ Policies \subseteq [grants : SUBSET Pairs, charged : SUBSET Pairs]
  /\ \A p \in Policies : p.charged \subseteq p.grants

Policy == [grants : SUBSET Pairs, charged : SUBSET Pairs]
NoPolicy == [grants |-> {}, charged |-> {}]

VARIABLES
  macaroons,   \* the operations of each, and whether its signature is right
  initState,   \* initOnce and initError: "new", "ok" or "error"
  verified,    \* the macaroons that authIndexes refers to
  \* Of each call, mostly its allowContext:
  pc,          \* "idle" between calls
  ops,         \* what it asks for
  policy,      \* what the OpsAuthorizer answers in its context
  ok,          \* the macaroons whose status has statusOK
  used,        \* ... and statusUsed
  opIndexes,   \* the macaroon that authorized an operation, 0 for none
  need,        \* the operations not authorized yet
  asked,       \* the operations the map iteration has been through
  caveats,     \* the grants used that carry a caveat
  answer       \* of the last call; "discharge" is a DischargeRequiredError

checkerVars == <<macaroons, initState, verified>>
callVars == <<pc, ops, policy, ok, used, opIndexes, need, asked, caveats, answer>>
authVars == <<macaroons, initState, verified,
              pc, ops, policy, ok, used, opIndexes, need, asked, caveats, answer>>

NoAnswer == [kind |-> "none", ops |-> {}]

Init ==
  /\ macaroons \in [Mac -> [ops : MacaroonOps, genuine : BOOLEAN]]
  /\ initState = "new"
  /\ verified = {}
  /\ pc = [t \in Threads |-> "idle"]
  /\ ops = [t \in Threads |-> {}]
  /\ policy = [t \in Threads |-> NoPolicy]
  /\ ok = [t \in Threads |-> {}]
  /\ used = [t \in Threads |-> {}]
  /\ opIndexes = [t \in Threads |-> [op \in Ops |-> 0]]
  /\ need = [t \in Threads |-> {}]
  /\ asked = [t \in Threads |-> {}]
  /\ caveats = [t \in Threads |-> {}]
  /\ answer = [t \in Threads |-> NoAnswer]

Goto(t, label) == pc' = [pc EXCEPT ![t] = label]

\* The call returns; its allowContext is kept for the AuthInfo.
Return(t, kind, os) ==
  /\ Goto(t, "idle")
  /\ answer' = [answer EXCEPT ![t] = [kind |-> kind, ops |-> os]]

\* The keys of authIndexes, and their entries.
AuthOps == UNION {macaroons[m].ops : m \in verified}
Indexes(op) == {m \in verified : op \in macaroons[m].ops}

-----------------------------------------------------------------------------
Starts == {"init allow", "init allowed"}

\* Allow(os), or Allowed().
Call(t, label, os, p) ==
  /\ pc[t] = "idle"
  /\ Goto(t, label)
  /\ ops' = [ops EXCEPT ![t] = os]
  /\ policy' = [policy EXCEPT ![t] = p]
  /\ ok' = [ok EXCEPT ![t] = {}]
  /\ used' = [used EXCEPT ![t] = {}]
  /\ opIndexes' = [opIndexes EXCEPT ![t] = [op \in Ops |-> 0]]
  /\ need' = [need EXCEPT ![t] = os]
  /\ asked' = [asked EXCEPT ![t] = {}]
  /\ caveats' = [caveats EXCEPT ![t] = {}]
  /\ answer' = [answer EXCEPT ![t] = NoAnswer]
  /\ UNCHANGED checkerVars

\* What Oven.VerifyMacaroon finds: the root key of the macaroon's id, and its
\* signature right.
VerifyMacaroon == {m \in Mac : macaroons[m].genuine}

\* Mutated: a macaroon that fails verification is indexed all the same.
InitOnceUnverified(t) ==
  /\ pc[t] \in Starts
  /\ initState = "new"
  /\ initState' = "ok"
  /\ verified' = Mac
  /\ UNCHANGED <<macaroons, callVars>>

\* initOnceFunc, which the other calls wait for.  A failure of the store (or
\* of the first caller's context) is remembered like success.
InitOnce(t) ==
  /\ pc[t] \in Starts
  /\ initState = "new"
  /\ \/ /\ initState' = "ok"
        /\ verified' = VerifyMacaroon
     \/ /\ initState' = "error"
        /\ UNCHANGED verified
  /\ UNCHANGED <<macaroons, callVars>>

InitError(t) ==
  /\ pc[t] \in Starts
  /\ initState = "error"
  /\ Return(t, "error", {})
  /\ UNCHANGED <<checkerVars, ops, policy, ok, used, opIndexes, need, asked, caveats>>

\* Mutated: indexes of macaroons that start at 0.
NewAllowContextZeroBased(t) ==
  /\ pc[t] \in Starts
  /\ initState = "ok"
  /\ \E pass \in SUBSET verified : ok' = [ok EXCEPT ![t] = pass \cup {m - 1 : m \in Mac \ verified}]
  /\ Goto(t, IF pc[t] = "init allow" THEN "direct" ELSE "allowed")
  /\ UNCHANGED <<checkerVars, ops, policy, used, opIndexes, need, asked, caveats, answer>>

\* newAllowContext: each macaroon's conditions hold in the call's context or
\* not; one that failed verification has no conditions and passes.
NewAllowContext(t) ==
  /\ pc[t] \in Starts
  /\ initState = "ok"
  /\ \E pass \in SUBSET verified : ok' = [ok EXCEPT ![t] = pass \cup (Mac \ verified)]
  /\ Goto(t, IF pc[t] = "init allow" THEN "direct" ELSE "allowed")
  /\ UNCHANGED <<checkerVars, ops, policy, used, opIndexes, need, asked, caveats, answer>>

\* The macaroon that authorizes op directly: the first with statusOK.
DirectIndexes(t, op) == Indexes(op) \cap ok[t]

First(S) == CHOOSE m \in S : \A n \in S : m <= n
Last(S) == CHOOSE m \in S : \A n \in S : n <= m

DirectlyAuthed(t, os) == {op \in os : op \in Ops /\ DirectIndexes(t, op) # {}}

UseDirect(t, os) ==
  /\ used' = [used EXCEPT ![t] = @ \cup {First(DirectIndexes(t, op)) : op \in DirectlyAuthed(t, os)}]
  /\ opIndexes' = [opIndexes EXCEPT ![t] =
       [op \in Ops |-> IF op \in DirectlyAuthed(t, os) THEN First(DirectIndexes(t, op)) ELSE @[op]]]

\* Allowed: all that the macaroons authorize directly.
Allowed(t) ==
  /\ pc[t] = "allowed"
  /\ UseDirect(t, AuthOps)
  /\ Return(t, "allowed", {})
  /\ UNCHANGED <<checkerVars, ops, policy, ok, need, asked, caveats>>

CheckDirect(t) ==
  /\ pc[t] = "direct"
  /\ UseDirect(t, need[t])
  /\ LET rest == need[t] \ (DirectlyAuthed(t, need[t]) \cup {NoOp})
     IN  /\ need' = [need EXCEPT ![t] = rest]
         /\ IF rest = {} THEN Return(t, "allowed", {})
                         ELSE Goto(t, "indirect") /\ UNCHANGED answer
  /\ UNCHANGED <<checkerVars, ops, policy, ok, asked, caveats>>

-----------------------------------------------------------------------------
(* checkIndirect.                                                          *)

\* AuthorizeOps(from, need): what is granted, and at what charge.
Granted(t, from) == {op \in need[t] : <<from, op>> \in policy[t].grants}

TakeGrants(t, from) ==
  /\ need' = [need EXCEPT ![t] = @ \ Granted(t, from)]
  /\ caveats' = [caveats EXCEPT ![t] =
       @ \cup ({<<from, op>> : op \in Granted(t, from)} \cap policy[t].charged)]

\* Mutated: the macaroons that carry the operation are not looked at.
CheckIndirectAnyMacaroon(t, from) ==
  /\ pc[t] = "indirect"
  /\ need[t] # {}
  /\ from \in AuthOps \ asked[t]
  /\ asked' = [asked EXCEPT ![t] = @ \cup {from}]
  /\ TakeGrants(t, from)
  /\ UNCHANGED <<checkerVars, pc, ops, policy, ok, used, opIndexes, answer>>

\* One turn of the loop over authIndexes.  need is only brought up to date
\* after the loop over the operation's macaroons, so that each of them is
\* asked about, and marked for, the same operations.
CheckIndirect(t, from) ==
  /\ pc[t] = "indirect"
  /\ need[t] # {}
  /\ from \in AuthOps \ asked[t]
  /\ asked' = [asked EXCEPT ![t] = @ \cup {from}]
  /\ IF DirectIndexes(t, from) = {}
     THEN UNCHANGED <<used, opIndexes, need, caveats>>
     ELSE /\ TakeGrants(t, from)
          /\ used' = [used EXCEPT ![t] =
               @ \cup IF Granted(t, from) = {} THEN {} ELSE DirectIndexes(t, from)]
          /\ opIndexes' = [opIndexes EXCEPT ![t] =
               [op \in Ops |-> IF op \in Granted(t, from) THEN Last(DirectIndexes(t, from))
                                                          ELSE @[op]]]
  /\ UNCHANGED <<checkerVars, pc, ops, policy, ok, answer>>

\* What is left may be authorized by no operation at all.
CheckNoOp(t) ==
  /\ pc[t] = "indirect"
  /\ need[t] # {}
  /\ asked[t] = AuthOps
  /\ TakeGrants(t, NoOp)
  /\ Goto(t, "decide")
  /\ UNCHANGED <<checkerVars, ops, policy, ok, used, opIndexes, asked, answer>>

\* The OpsAuthorizer fails.
CheckError(t) ==
  /\ pc[t] = "indirect"
  /\ need[t] # {}
  /\ Return(t, "error", {})
  /\ UNCHANGED <<checkerVars, ops, policy, ok, used, opIndexes, need, asked, caveats>>

\* The end of Allow.
Decide(t) ==
  /\ \/ pc[t] = "decide"
     \/ pc[t] = "indirect" /\ need[t] = {}
  /\ \/ need[t] = {} /\ caveats[t] = {} /\ Return(t, "allowed", {})
     \/ need[t] # {} /\ Return(t, "denied", {})
     \/ need[t] = {} /\ caveats[t] # {} /\ Return(t, "discharge", ops[t])
  /\ UNCHANGED <<checkerVars, ops, policy, ok, used, opIndexes, need, asked, caveats>>

-----------------------------------------------------------------------------
\* The steps of a call that is under way.
Step(t) ==
  \/ InitOnce(t)
  \/ InitError(t)
  \/ NewAllowContext(t)
  \/ Allowed(t)
  \/ CheckDirect(t)
  \/ \E from \in Ops : CheckIndirect(t, from)
  \/ CheckNoOp(t)
  \/ CheckError(t)
  \/ Decide(t)

Start(t) ==
  \E p \in Policies :
    \/ \E os \in SUBSET AllOps : Call(t, "init allow", os, p)
    \/ Call(t, "init allowed", {}, p)

Next == \E t \in Threads : Start(t) \/ Step(t)

Spec == Init /\ [][Next]_authVars

-----------------------------------------------------------------------------
(* Properties of an answer.                                                *)

TypeOK ==
  /\ macaroons \in [Mac -> [ops : SUBSET Ops, genuine : BOOLEAN]]
  /\ initState \in {"new", "ok", "error"}
  /\ verified \subseteq Mac
  /\ pc \in [Threads -> Starts \cup {"idle", "direct", "allowed", "indirect", "decide"}]
  /\ ops \in [Threads -> SUBSET AllOps]
  /\ policy \in [Threads -> Policy]
  /\ ok \in [Threads -> SUBSET Mac]
  /\ used \in [Threads -> SUBSET Mac]
  /\ opIndexes \in [Threads -> [Ops -> 0..N]]
  /\ need \in [Threads -> SUBSET AllOps]
  /\ asked \in [Threads -> SUBSET Ops]
  /\ caveats \in [Threads -> SUBSET Pairs]
  /\ answer \in [Threads -> [kind : {"none", "allowed", "denied", "discharge", "error"},
                             ops : SUBSET AllOps]]

\* What the request really shows, whatever was indexed: the macaroons that
\* verify and whose conditions hold in the call's context, and the operations
\* they carry.
Good(t) == {m \in Mac : macaroons[m].genuine} \cap ok[t]
Shown(t) == UNION {macaroons[m].ops : m \in Good(t)}

\* The operations that can authorize op in the call's context.
Granters(t, op) == {from \in Shown(t) \cup {NoOp} : <<from, op>> \in policy[t].grants}
Direct(t, op) == op \in Shown(t) \cup {NoOp}
Charged(t, op) == {from \in Granters(t, op) : <<from, op>> \in policy[t].charged}

\* Allow permits only operations that the request shows or that something it
\* shows authorizes free of caveats; it denies only when some operation has
\* no authority at all; and it asks for discharges only when there is
\* authority for everything and some of it comes with a caveat (checker.go,
\* Allow) - in whatever order the map of operations is gone through.
Justified(t) ==
  /\ answer[t].kind = "allowed" =>
       \A op \in ops[t] : Direct(t, op) \/ Granters(t, op) # Charged(t, op)
  /\ answer[t].kind = "denied" =>
       \E op \in ops[t] : ~Direct(t, op) /\ Granters(t, op) = {}
  /\ answer[t].kind = "discharge" =>
       /\ \A op \in ops[t] : Direct(t, op) \/ Granters(t, op) # {}
       /\ \E op \in ops[t] : ~Direct(t, op) /\ Charged(t, op) # {}

DecisionJustified == \A t \in Threads : Justified(t)

\* Macaroon m authorizes op, by itself or by the policy, and is marked used.
Authorizes(t, m, op) ==
  /\ m \in Good(t) \cap used[t]
  /\ op \in macaroons[m].ops \/ Granters(t, op) \cap macaroons[m].ops # {}

\* An AuthInfo names, for every operation that was asked for, a macaroon that
\* really authorizes it and is marked used, unless no operation was needed to
\* authorize it (checker.go, AuthInfo).  Otherwise AuthInfo.Conditions leaves
\* out conditions that the new capability depends on.
IndexesJustified ==
  \A t \in Threads : answer[t].kind = "allowed" =>
    /\ \A op \in Ops : opIndexes[t][op] # 0 => Authorizes(t, opIndexes[t][op], op)
    /\ \A op \in ops[t] \ {NoOp} : opIndexes[t][op] # 0 \/ NoOp \in Granters(t, op)

\* checker.go: macaroons that were unnecessary have a false entry in Used.
UsedNecessary ==
  \A t \in Threads : answer[t].kind = "allowed" =>
    \A m \in used[t] : \E op \in Ops : opIndexes[t][op] = m
-----------------------------------------------------------------------------
(* The inductive invariant behind the two.                                 *)

\* The context of a call is complete: its macaroons' conditions are checked.
Running == {"direct", "allowed", "indirect", "decide"}
Answers == {"allowed", "denied", "discharge"}

\* No call looks at authIndexes, or answers, before they are what Good goes by.
VerifiedInv ==
  /\ verified = IF initState = "ok" THEN VerifyMacaroon ELSE {}
  /\ \A t \in Threads : pc[t] \in Running \/ answer[t].kind \in Answers => initState = "ok"

\* Until its macaroons' conditions are checked a call has found nothing.
FreshInv(t) ==
  /\ pc[t] # "idle" => answer[t].kind = "none"
  /\ pc[t] \in {"init allowed", "allowed"} => ops[t] = {}
  /\ pc[t] \in Starts \cup {"direct", "allowed"} =>
       need[t] = ops[t] /\ asked[t] = {} /\ caveats[t] = {}
  /\ pc[t] \in Starts => \A op \in Ops : opIndexes[t][op] = 0

\* What is still needed is authorized by nothing that was looked at.
NeedInv(t) ==
  pc[t] \in {"indirect", "decide"} =>
    /\ asked[t] \subseteq AuthOps
    /\ \A op \in need[t] :
         /\ op \in ops[t]
         /\ ~Direct(t, op)
         /\ Granters(t, op) \cap asked[t] = {}
         /\ pc[t] = "decide" => Granters(t, op) = {}

\* What is not has authority, and its caveat is not forgotten; caveats are
\* those of operations that have no direct authority.
TakenInv(t) ==
  pc[t] \in {"indirect", "decide"} =>
    /\ \A op \in ops[t] \ need[t] :
         \/ Direct(t, op)
         \/ \E from \in Granters(t, op) :
              from \in Charged(t, op) => <<from, op>> \in caveats[t]
    /\ \A grant \in caveats[t] :
         /\ grant[2] \in ops[t]
         /\ ~Direct(t, grant[2])
         /\ grant[1] \in Charged(t, grant[2])

\* IndexesJustified at every point of a call.
PointedInv(t) ==
  /\ \A op \in Ops : opIndexes[t][op] # 0 => Authorizes(t, opIndexes[t][op], op)
  /\ \A op \in ops[t] \ (need[t] \cup {NoOp}) : opIndexes[t][op] # 0 \/ NoOp \in Granters(t, op)
  /\ answer[t].kind = "allowed" => need[t] = {}

CallInv(t) == FreshInv(t) /\ NeedInv(t) /\ TakenInv(t) /\ PointedInv(t) /\ Justified(t)

\* Whatever point its goroutine has reached, each call knows what it has
\* authority for, what it still needs and at what charge, though the
\* iteration order is any and calls share the indexes (checker.go,
\* checkDirect and checkIndirect).
DecisionInv ==
  /\ TypeOK
  /\ VerifiedInv
  /\ \A t \in Threads : CallInv(t)
=============================================================================
