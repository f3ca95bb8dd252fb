---------------------------- MODULE IdentChecker ----------------------------
(***************************************************************************)
(* identchecker.AuthChecker (identchecker/checker.go): Allow calls that    *)
(* goroutines make on one request, each of them up to two Allow calls of   *)
(* the bakery.AuthChecker below: one for LoginOp, to find the identity,    *)
(* then one for the other operations, with that identity in the context.   *)
(***************************************************************************)
EXTENDS AuthChecker

CONSTANTS
  LoginOp,       \* one of Ops
  Requests,      \* the sets of operations asked for
  Identities,    \* the authenticated users
  Nobody,        \* the nil Identity
  Declares,      \* [Mac -> Identities]: whom a login macaroon declares
  Acl,           \* [Identities \cup {Nobody} -> what the Authorizer allows]
  Contexts       \* what IdentityFromContext may answer

Users == Identities \cup {Nobody}

\* Besides an identity: third-party caveats, nothing at all, or an error.
CtxAnswers == Identities \cup {"caveats", "nothing", "failure"}

ASSUME IdentCheckerAssumption ==
  /\ LoginOp \in Ops
  /\ Requests \subseteq SUBSET AllOps
  /\ Nobody \notin Identities
  /\ Declares \in [Mac -> Identities]
  /\ Acl \in [Users -> SUBSET Ops]
  /\ Contexts \subseteq CtxAnswers

VARIABLES
  identity,    \* identity_, under mu
  \* Of each call:
  phase,       \* "idle" between calls
  asks,        \* the operations it was given
  says,        \* what IdentityFromContext answers in its context
  who,         \* the local identity
  idCaveats,   \* whether identityCaveats is not empty
  result       \* of the last call

identVars == <<identity, phase, asks, says, who, idCaveats, result>>
vars == <<macaroons, initState, verified,
          pc, ops, policy, ok, used, opIndexes, need, asked, caveats, answer,
          identity, phase, asks, says, who, idCaveats, result>>

NoResult == "none"

IdentInit ==
  /\ Init
  /\ identity = Nobody
  /\ phase = [t \in Threads |-> "idle"]
  /\ asks = [t \in Threads |-> {}]
  /\ says = [t \in Threads |-> "nothing"]
  /\ who = [t \in Threads |-> Nobody]
  /\ idCaveats = [t \in Threads |-> FALSE]
  /\ result = [t \in Threads |-> NoResult]

To(t, label) == phase' = [phase EXCEPT ![t] = label]

Finish(t, kind) ==
  /\ To(t, "idle")
  /\ result' = [result EXCEPT ![t] = kind]

\* identityOpsAuthorizer: before the identity is known it grants nothing;
\* then the OpsAuthorizer answers for every operation but NoOp, and the
\* Authorizer for that.
IdentityPolicy(p, id) ==
  LET grants == {g \in p.grants : g[1] # NoOp} \cup {<<NoOp, op>> : op \in Acl[id]}
  IN  [grants |-> grants, charged |-> p.charged \cap grants]

StartAllow(t, os, c) ==
  /\ phase[t] = "idle"
  /\ Call(t, "init allow", {LoginOp}, NoPolicy)
  /\ To(t, "login")
  /\ asks' = [asks EXCEPT ![t] = os]
  /\ says' = [says EXCEPT ![t] = c]
  /\ who' = [who EXCEPT ![t] = Nobody]
  /\ idCaveats' = [idCaveats EXCEPT ![t] = FALSE]
  /\ result' = [result EXCEPT ![t] = NoResult]
  /\ UNCHANGED identity

\* A step of the bakery.AuthChecker's Allow.
InnerStep(t) == Step(t) /\ UNCHANGED identVars

Returned(t, label) == phase[t] = label /\ pc[t] = "idle"

Identify(t, id) ==
  /\ identity' = id
  /\ who' = [who EXCEPT ![t] = id]

\* inferIdentityFromMacaroon.  DeclaredIdentity may fail, unless an earlier
\* identity makes it unnecessary.
InferFromMacaroon(t) ==
  /\ Returned(t, "login")
  /\ answer[t].kind = "allowed"
  /\ \/ /\ Identify(t, IF identity # Nobody THEN identity ELSE Declares[opIndexes[t][LoginOp]])
        /\ To(t, "rest")
        /\ UNCHANGED result
     \/ /\ identity = Nobody
        /\ Finish(t, "error")
        /\ UNCHANGED <<identity, who>>
  /\ UNCHANGED <<authVars, asks, says, idCaveats>>

\* Mutated: what the context says is taken for an identity too early.
InferFromContextCaveats(t) ==
  /\ Returned(t, "login")
  /\ answer[t].kind # "allowed"
  /\ Identify(t, IF identity # Nobody THEN identity ELSE says[t])
  /\ To(t, "rest")
  /\ UNCHANGED <<authVars, asks, says, idCaveats, result>>

\* Mutated: the identity that another call found is not looked at.
InferFromContextAnew(t) ==
  /\ Returned(t, "login")
  /\ answer[t].kind # "allowed"
  /\ \/ /\ says[t] \in Identities
        /\ Identify(t, says[t])
        /\ To(t, "rest")
        /\ UNCHANGED <<idCaveats, result>>
     \/ /\ says[t] \in {"caveats", "nothing"}
        /\ idCaveats' = [idCaveats EXCEPT ![t] = (says[t] = "caveats")]
        /\ To(t, "rest")
        /\ UNCHANGED <<identity, who, result>>
  /\ UNCHANGED <<authVars, asks, says>>

\* inferIdentityFromContext, after any failure of the login: the identity
\* that an earlier call found, or what the call's context says.
InferFromContext(t) ==
  /\ Returned(t, "login")
  /\ answer[t].kind # "allowed"
  /\ \/ /\ identity # Nobody \/ says[t] \in Identities
        /\ Identify(t, IF identity # Nobody THEN identity ELSE says[t])
        /\ To(t, "rest")
        /\ UNCHANGED <<idCaveats, result>>
     \/ /\ identity = Nobody
        /\ says[t] \in {"caveats", "nothing"}
        /\ idCaveats' = [idCaveats EXCEPT ![t] = (says[t] = "caveats")]
        /\ To(t, "rest")
        /\ UNCHANGED <<identity, who, result>>
     \/ /\ identity = Nobody
        /\ says[t] = "failure"
        /\ Finish(t, "denied")
        /\ UNCHANGED <<identity, who, idCaveats>>
  /\ UNCHANGED <<authVars, asks, says>>

\* The operations but LoginOp.
Rest(t) == asks[t] \ {LoginOp}

NeedsLogin(t) == LoginOp \in asks[t]

LoginEnough(t) ==
  /\ phase[t] = "rest"
  /\ Rest(t) = {}
  /\ who[t] # Nobody
  /\ Finish(t, "allowed")
  /\ UNCHANGED <<authVars, identity, asks, says, who, idCaveats>>

\* Mutated: the other operations are checked without the login asked for.
AllowRestAnyway(t) ==
  /\ phase[t] = "rest"
  /\ Rest(t) # {}
  /\ \E p \in Policies : Call(t, "init allow", Rest(t), IdentityPolicy(p, who[t]))
  /\ To(t, "ops")
  /\ UNCHANGED <<identity, asks, says, who, idCaveats, result>>

AllowRest(t) ==
  /\ phase[t] = "rest"
  /\ Rest(t) # {}
  /\ ~NeedsLogin(t) \/ who[t] # Nobody
  /\ \E p \in Policies : Call(t, "init allow", Rest(t), IdentityPolicy(p, who[t]))
  /\ To(t, "ops")
  /\ UNCHANGED <<identity, asks, says, who, idCaveats, result>>

RestUnchecked(t) ==
  /\ phase[t] = "rest"
  /\ who[t] = Nobody
  /\ Rest(t) = {} \/ NeedsLogin(t)
  /\ To(t, "refuse")
  /\ UNCHANGED <<authVars, identity, asks, says, who, idCaveats, result>>

\* Only success and DischargeRequiredError are passed on.  That success merges
\* the Used and OpIndexes of the login macaroons into the AuthInfo is left out.
RestAnswered(t) ==
  /\ Returned(t, "ops")
  /\ \/ answer[t].kind \in {"allowed", "discharge"} /\ Finish(t, answer[t].kind)
     \/ answer[t].kind \in {"denied", "error"} /\ To(t, "refuse") /\ UNCHANGED result
  /\ UNCHANGED <<authVars, identity, asks, says, who, idCaveats>>

Refuse(t) ==
  /\ phase[t] = "refuse"
  /\ \/ /\ who[t] # Nobody \/ ~idCaveats[t]
        /\ Finish(t, "denied")
     \/ /\ who[t] = Nobody
        /\ idCaveats[t]
        /\ Finish(t, "authenticate")
  /\ UNCHANGED <<authVars, identity, asks, says, who, idCaveats>>

IdentNext ==
  \E t \in Threads :
    \/ \E os \in Requests, c \in Contexts : StartAllow(t, os, c)
    \/ InnerStep(t)
    \/ InferFromMacaroon(t)
    \/ InferFromContext(t)
    \/ LoginEnough(t)
    \/ AllowRest(t)
    \/ RestUnchecked(t)
    \/ RestAnswered(t)
    \/ Refuse(t)

IdentSpec == IdentInit /\ [][IdentNext]_vars

-----------------------------------------------------------------------------
(* Properties.                                                             *)

IdentTypeOK ==
  /\ TypeOK
  /\ identity \in Users
  /\ phase \in [Threads -> {"idle", "login", "rest", "ops", "refuse"}]
  /\ asks \in [Threads -> SUBSET AllOps]
  /\ says \in [Threads -> CtxAnswers]
  /\ who \in [Threads -> Users]
  /\ idCaveats \in [Threads -> BOOLEAN]
  /\ result \in [Threads -> {"none", "allowed", "discharge", "authenticate", "denied", "error"}]

\* Every call that has an identity has the same one, whichever goroutine
\* found it first, in a macaroon or in its context (checker.go, identity_).
OneIdentity == \A t \in Threads : who[t] # Nobody => who[t] = identity

\* ... and it is never replaced.
IdentityKept == [][identity # Nobody => identity' = identity]_vars

ResultRight(t) ==
  /\ result[t] = "allowed" =>
       /\ NeedsLogin(t) => who[t] # Nobody
       /\ \A op \in Rest(t) : \/ Direct(t, op)
                              \/ Granters(t, op) \ {NoOp} # {}
                              \/ op \in Acl[who[t]]
  /\ result[t] = "authenticate" => who[t] = Nobody /\ says[t] = "caveats"

\* A call is allowed only what its one identity may do, what the macaroons
\* show or what those authorize, and LoginOp only with an identity; it is told
\* to authenticate only when it has none.
ResultJustified == \A t \in Threads : ResultRight(t)

-----------------------------------------------------------------------------
(* The inductive invariant behind them.                                    *)

\* Where a call has got to, and what it asks of the AuthChecker below there.
IdentCallInv(t) ==
  /\ phase[t] # "idle" => result[t] = NoResult
  /\ pc[t] # "idle" => phase[t] \in {"login", "ops"}
  /\ phase[t] = "login" => ops[t] = {LoginOp} /\ policy[t] = NoPolicy
  /\ phase[t] = "ops" =>
       /\ ops[t] = Rest(t)
       /\ NeedsLogin(t) => who[t] # Nobody
       /\ \A op \in Ops : <<NoOp, op>> \in policy[t].grants => op \in Acl[who[t]]
  /\ idCaveats[t] => says[t] = "caveats"
  /\ ResultRight(t)

\* The call below is only ever asked on behalf of the identity that this one
\* has, and asked for what this one was asked for (identchecker/checker.go,
\* Allow), wherever the other calls are.
IdentInv ==
  /\ DecisionInv
  /\ IdentTypeOK
  /\ OneIdentity
  /\ \A t \in Threads : IdentCallInv(t)
=============================================================================
