------------------------- MODULE IdentChecker_proofs -------------------------
(***************************************************************************)
(* Proofs about IdentChecker, for any number of goroutines, any identities *)
(* and any Authorizer: all calls have one identity, and what each is       *)
(* allowed is justified for it.  What the AuthChecker below decides is     *)
(* taken from AuthChecker_proofs, a step of its calls at a time.           *)
(***************************************************************************)
EXTENDS IdentChecker, AuthChecker_proofs

LEMMA IdentityPolicyType ==
  ASSUME NEW p \in Policies, NEW id \in Users
  PROVE  /\ IdentityPolicy(p, id) \in Policy
         /\ \A op \in Ops : <<NoOp, op>> \in IdentityPolicy(p, id).grants => op \in Acl[id]
<1>1. p.grants \subseteq Pairs /\ p.charged \subseteq Pairs
  BY AuthCheckerAssumption
<1>2. Acl[id] \subseteq Ops
  BY IdentCheckerAssumption
<1> DEFINE grants == {g \in p.grants : g[1] # NoOp} \cup {<<NoOp, op>> : op \in Acl[id]}
<1>3. grants \subseteq Pairs
  BY <1>1, <1>2 DEF Pairs, AllOps
<1>4. \A op \in Ops : <<NoOp, op>> \in grants => op \in Acl[id]
  OBVIOUS
<1>5. IdentityPolicy(p, id).grants = grants
  BY DEF IdentityPolicy
<1>6. IdentityPolicy(p, id) \in Policy
  BY <1>1, <1>3 DEF IdentityPolicy, Policy
<1> QED
  BY <1>4, <1>5, <1>6

\* A step of the call below is one of a call that is under way, and does not
\* change what it was asked.
LEMMA StepOfCall ==
  ASSUME NEW t \in Threads, Step(t)
  PROVE  pc[t] # "idle" /\ ops' = ops /\ policy' = policy /\ macaroons' = macaroons
<1> USE DEF Starts, checkerVars, callVars
<1>1. CASE InitOnce(t)
  BY <1>1 DEF InitOnce
<1>2. CASE InitError(t)
  BY <1>2 DEF InitError
<1>3. CASE NewAllowContext(t)
  BY <1>3 DEF NewAllowContext
<1>4. CASE Allowed(t)
  BY <1>4 DEF Allowed
<1>5. CASE CheckDirect(t)
  BY <1>5 DEF CheckDirect
<1>6. ASSUME NEW from \in Ops, CheckIndirect(t, from)
      PROVE  pc[t] # "idle" /\ ops' = ops /\ policy' = policy /\ macaroons' = macaroons
  BY <1>6 DEF CheckIndirect
<1>7. CASE CheckNoOp(t)
  BY <1>7 DEF CheckNoOp
<1>8. CASE CheckError(t)
  BY <1>8 DEF CheckError
<1>9. CASE Decide(t)
  BY <1>9 DEF Decide
<1> QED
  BY <1>1, <1>2, <1>3, <1>4, <1>5, <1>6, <1>7, <1>8, <1>9 DEF Step

\* A call of which nothing changes stays as it is.
LEMMA SameIdentCall ==
  ASSUME NEW t \in Threads, IdentCallInv(t), macaroons' = macaroons,
         pc'[t] = pc[t], ops'[t] = ops[t], policy'[t] = policy[t], ok'[t] = ok[t],
         phase'[t] = phase[t], asks'[t] = asks[t], says'[t] = says[t], who'[t] = who[t],
         idCaveats'[t] = idCaveats[t], result'[t] = result[t]
  PROVE  IdentCallInv(t)'
<1>1. ResultRight(t)'
  BY SameShown DEF IdentCallInv, ResultRight, NeedsLogin, Rest
<1> QED
  BY <1>1 DEF IdentCallInv, NeedsLogin, Rest

LEMMA CallElsewhere ==
  ASSUME TypeOK, NEW t \in Threads, NEW u \in Threads, u # t,
         NEW label, NEW os, NEW p, Call(t, label, os, p)
  PROVE  /\ pc'[u] = pc[u] /\ ops'[u] = ops[u] /\ policy'[u] = policy[u] /\ ok'[u] = ok[u]
         /\ macaroons' = macaroons
BY DEF Call, Goto, TypeOK, checkerVars

LEMMA IdentInitially == IdentInit => IdentInv
<1> SUFFICES ASSUME IdentInit PROVE IdentInv
  OBVIOUS
<1>1. DecisionInv /\ TypeOK
  BY DecisionInit, AuthTypeInit DEF IdentInit
<1>2. IdentTypeOK
  BY <1>1 DEF IdentInit, IdentTypeOK, Users, CtxAnswers, NoResult
<1>3. OneIdentity
  BY DEF IdentInit, OneIdentity
<1>4. ASSUME NEW t \in Threads PROVE IdentCallInv(t)
  BY DEF IdentInit, Init, IdentCallInv, ResultRight, NoResult
<1> QED
  BY <1>1, <1>2, <1>3, <1>4 DEF IdentInv

\* The first call below, for LoginOp.
LEMMA StartAllowKeeps ==
  ASSUME IdentInv, NEW t \in Threads, NEW os \in Requests, NEW c \in Contexts, StartAllow(t, os, c)
  PROVE  IdentInv'
<1>0. IdentTypeOK /\ TypeOK /\ DecisionInv /\ OneIdentity
  BY DEF IdentInv, IdentTypeOK
<1>1. DecisionInv'
  <2>1. {LoginOp} \in SUBSET AllOps /\ NoPolicy \in Policy /\ "init allow" \in Starts
    BY IdentCheckerAssumption DEF AllOps, NoPolicy, Policy, Starts
  <2> QED
    BY <1>0, <2>1, CallStarts DEF StartAllow
<1>2. IdentTypeOK'
  <2>1. TypeOK'
    BY <1>1 DEF DecisionInv
  <2> QED
    BY <1>0, <2>1, IdentCheckerAssumption DEF StartAllow, To, IdentTypeOK, Users, NoResult
<1>3. OneIdentity'
  BY <1>0 DEF StartAllow, OneIdentity, IdentTypeOK
<1>4. ASSUME NEW u \in Threads PROVE IdentCallInv(u)'
  <2>1. CASE u = t
    <3>1. /\ phase'[t] = "login" /\ result'[t] = NoResult /\ idCaveats'[t] = FALSE
          /\ ops'[t] = {LoginOp} /\ policy'[t] = NoPolicy
      BY <1>0 DEF StartAllow, To, Call, IdentTypeOK, TypeOK
    <3> QED
      BY <2>1, <3>1 DEF IdentCallInv, ResultRight, NoResult
  <2>2. CASE u # t
    <3>1. /\ phase'[u] = phase[u] /\ asks'[u] = asks[u] /\ says'[u] = says[u] /\ who'[u] = who[u]
          /\ idCaveats'[u] = idCaveats[u] /\ result'[u] = result[u]
      BY <1>0, <2>2 DEF StartAllow, To, IdentTypeOK
    <3> QED
      BY <1>0, <2>2, <3>1, CallElsewhere, SameIdentCall DEF StartAllow, IdentInv
  <2> QED
    BY <2>1, <2>2
<1> QED
  BY <1>1, <1>2, <1>3, <1>4 DEF IdentInv

\* A step of the call below: it has no result yet.
LEMMA InnerStepKeeps ==
  ASSUME IdentInv, NEW t \in Threads, InnerStep(t)
  PROVE  IdentInv'
<1>0. IdentTypeOK /\ TypeOK /\ DecisionInv /\ OneIdentity /\ Step(t) /\ UNCHANGED identVars
  BY DEF IdentInv, IdentTypeOK, InnerStep
<1>1. DecisionInv' /\ TypeOK'
  BY <1>0, DecisionStep DEF DecisionInv
<1>2. IdentTypeOK' /\ OneIdentity'
  BY <1>0, <1>1 DEF identVars, IdentTypeOK, OneIdentity
<1>3. ASSUME NEW u \in Threads PROVE IdentCallInv(u)'
  <2>0. IdentCallInv(u)
    BY DEF IdentInv
  <2>1. CASE u = t
    <3>1. pc[t] # "idle" /\ ops' = ops /\ policy' = policy
      BY <1>0, StepOfCall
    <3>2. phase[t] \in {"login", "ops"} /\ result[t] = NoResult
      BY <2>0, <2>1, <3>1 DEF IdentCallInv
    <3>3. ResultRight(t)'
      BY <1>0, <3>2 DEF ResultRight, identVars, NoResult
    <3> QED
      BY <1>0, <2>0, <2>1, <3>1, <3>2, <3>3 DEF IdentCallInv, identVars, NeedsLogin, Rest
  <2>2. CASE u # t
    BY <1>0, <2>0, <2>2, StepElsewhere, SameIdentCall DEF identVars
  <2> QED
    BY <2>1, <2>2
<1> QED
  BY <1>1, <1>2, <1>3 DEF IdentInv

\* The step of one call that leaves the AuthChecker below alone, and does not
\* touch the others.
LEMMA OuterStep ==
  ASSUME IdentInv, NEW t \in Threads, UNCHANGED authVars, IdentTypeOK', OneIdentity', IdentCallInv(t)',
         UNCHANGED <<asks, says>>,
         \A u \in Threads \ {t} : /\ phase'[u] = phase[u] /\ who'[u] = who[u]
                                  /\ idCaveats'[u] = idCaveats[u] /\ result'[u] = result[u]
  PROVE  IdentInv'
<1>1. DecisionInv'
  BY DecisionStutter DEF IdentInv
<1>2. ASSUME NEW u \in Threads PROVE IdentCallInv(u)'
  <2>1. CASE u # t
    BY <2>1, SameIdentCall DEF IdentInv, authVars
  <2> QED
    BY <2>1
<1> QED
  BY <1>1, <1>2 DEF IdentInv

\* An identity is found, or the one that another call found is taken: it is
\* the identity of all the calls that have one.
LEMMA IdentifyKeepsOne ==
  ASSUME IdentTypeOK, OneIdentity, NEW t \in Threads, NEW id \in Identities, Identify(t, id),
         identity # Nobody => id = identity
  PROVE  OneIdentity' /\ identity' \in Users /\ who' \in [Threads -> Users]
         /\ \A u \in Threads \ {t} : who'[u] = who[u]
<1>1. identity' = id /\ \A u \in Threads : who'[u] = IF u = t THEN id ELSE who[u]
  BY DEF Identify, IdentTypeOK
<1>2. OneIdentity'
  BY <1>1 DEF OneIdentity
<1> QED
  BY <1>1, <1>2 DEF Identify, IdentTypeOK, Users

\* The login that the AuthChecker allowed is one that a macaroon shows.
LEMMA LoginDeclared ==
  ASSUME IdentInv, NEW t \in Threads, phase[t] = "login", answer[t].kind = "allowed"
  PROVE  Declares[opIndexes[t][LoginOp]] \in Identities
<1>1. TypeOK /\ PointedInv(t) /\ ops[t] = {LoginOp} /\ policy[t] = NoPolicy
  BY DEF IdentInv, DecisionInv, CallInv, IdentCallInv
<1>2. LoginOp \in Ops /\ LoginOp # NoOp
  BY IdentCheckerAssumption, AuthCheckerAssumption
<1>3. Granters(t, LoginOp) = {}
  BY <1>1 DEF Granters, NoPolicy
<1>4. opIndexes[t][LoginOp] # 0
  BY <1>1, <1>2, <1>3 DEF PointedInv
<1>5. opIndexes[t][LoginOp] \in Mac
  BY <1>1, <1>2, <1>4, AuthCheckerAssumption DEF TypeOK, Mac
<1> QED
  BY <1>5, IdentCheckerAssumption

LEMMA InferFromMacaroonKeeps ==
  ASSUME IdentInv, NEW t \in Threads, InferFromMacaroon(t)
  PROVE  IdentInv'
<1>0. /\ IdentTypeOK /\ OneIdentity /\ TypeOK /\ IdentCallInv(t)
      /\ phase[t] = "login" /\ pc[t] = "idle" /\ answer[t].kind = "allowed" /\ result[t] = NoResult
      /\ UNCHANGED <<authVars, asks, says, idCaveats>>
  BY DEF IdentInv, IdentTypeOK, IdentCallInv, InferFromMacaroon, Returned
<1>1. TypeOK'
  BY <1>0, AuthTypeStutter
<1>2. pc'[t] = "idle"
  BY <1>0 DEF authVars
<1>3. ASSUME NEW id \in Identities, Identify(t, id), identity # Nobody => id = identity,
             To(t, "rest"), UNCHANGED result
      PROVE  IdentInv'
  <2>1. /\ phase' \in [Threads -> {"idle", "login", "rest", "ops", "refuse"}]
        /\ phase'[t] = "rest" /\ \A u \in Threads \ {t} : phase'[u] = phase[u]
    BY <1>0, <1>3 DEF To, IdentTypeOK
  <2>2. OneIdentity' /\ identity' \in Users /\ who' \in [Threads -> Users]
        /\ \A u \in Threads \ {t} : who'[u] = who[u]
    BY <1>0, <1>3, IdentifyKeepsOne
  <2>3. IdentTypeOK'
    BY <1>0, <1>1, <1>3, <2>1, <2>2 DEF IdentTypeOK
  <2>4. IdentCallInv(t)'
    BY <1>0, <1>2, <1>3, <2>1 DEF IdentCallInv, ResultRight, NoResult
  <2> QED
    BY <1>0, <1>3, <2>1, <2>2, <2>3, <2>4, OuterStep
<1>4. CASE identity = Nobody /\ Finish(t, "error") /\ UNCHANGED <<identity, who>>
  <2>1. /\ phase' \in [Threads -> {"idle", "login", "rest", "ops", "refuse"}]
        /\ phase'[t] = "idle" /\ \A u \in Threads \ {t} : phase'[u] = phase[u]
    BY <1>0, <1>4 DEF Finish, To, IdentTypeOK
  <2>2. /\ result' \in [Threads -> {"none", "allowed", "discharge", "authenticate", "denied", "error"}]
        /\ result'[t] = "error" /\ \A u \in Threads \ {t} : result'[u] = result[u]
    BY <1>0, <1>4 DEF Finish, IdentTypeOK
  <2>3. IdentTypeOK' /\ OneIdentity'
    BY <1>0, <1>1, <1>4, <2>1, <2>2 DEF IdentTypeOK, OneIdentity
  <2>4. IdentCallInv(t)'
    BY <1>0, <1>2, <2>1, <2>2 DEF IdentCallInv, ResultRight
  <2> QED
    BY <1>0, <1>4, <2>1, <2>2, <2>3, <2>4, OuterStep
<1>5. IF identity # Nobody THEN identity \in Identities
                           ELSE Declares[opIndexes[t][LoginOp]] \in Identities
  BY <1>0, LoginDeclared DEF IdentTypeOK, Users
<1> QED
  BY <1>3, <1>4, <1>5 DEF InferFromMacaroon

LEMMA InferFromContextKeeps ==
  ASSUME IdentInv, NEW t \in Threads, InferFromContext(t)
  PROVE  IdentInv'
<1>0. /\ IdentTypeOK /\ OneIdentity /\ TypeOK /\ IdentCallInv(t)
      /\ phase[t] = "login" /\ pc[t] = "idle" /\ result[t] = NoResult
      /\ UNCHANGED <<authVars, asks, says>>
  BY DEF IdentInv, IdentTypeOK, IdentCallInv, InferFromContext, Returned
<1>1. TypeOK'
  BY <1>0, AuthTypeStutter
<1>2. pc'[t] = "idle"
  BY <1>0 DEF authVars
<1>3. ASSUME NEW id \in Identities, Identify(t, id), identity # Nobody => id = identity,
             To(t, "rest"), UNCHANGED <<idCaveats, result>>
      PROVE  IdentInv'
  <2>1. /\ phase' \in [Threads -> {"idle", "login", "rest", "ops", "refuse"}]
        /\ phase'[t] = "rest" /\ \A u \in Threads \ {t} : phase'[u] = phase[u]
    BY <1>0, <1>3 DEF To, IdentTypeOK
  <2>2. OneIdentity' /\ identity' \in Users /\ who' \in [Threads -> Users]
        /\ \A u \in Threads \ {t} : who'[u] = who[u]
    BY <1>0, <1>3, IdentifyKeepsOne
  <2>3. IdentTypeOK'
    BY <1>0, <1>1, <1>3, <2>1, <2>2 DEF IdentTypeOK
  <2>4. IdentCallInv(t)'
    BY <1>0, <1>2, <1>3, <2>1 DEF IdentCallInv, ResultRight, NoResult
  <2> QED
    BY <1>0, <1>3, <2>1, <2>2, <2>3, <2>4, OuterStep
<1>4. CASE /\ idCaveats' = [idCaveats EXCEPT ![t] = (says[t] = "caveats")]
           /\ To(t, "rest")
           /\ UNCHANGED <<identity, who, result>>
  <2>1. /\ phase' \in [Threads -> {"idle", "login", "rest", "ops", "refuse"}]
        /\ phase'[t] = "rest" /\ \A u \in Threads \ {t} : phase'[u] = phase[u]
    BY <1>0, <1>4 DEF To, IdentTypeOK
  <2>2. /\ idCaveats' \in [Threads -> BOOLEAN]
        /\ idCaveats'[t] = (says[t] = "caveats")
        /\ \A u \in Threads \ {t} : idCaveats'[u] = idCaveats[u]
    BY <1>0, <1>4, Zenon DEF IdentTypeOK
  <2>3. IdentTypeOK' /\ OneIdentity'
    BY <1>0, <1>1, <1>4, <2>1, <2>2 DEF IdentTypeOK, OneIdentity
  <2>4. IdentCallInv(t)'
    BY <1>0, <1>2, <1>4, <2>1, <2>2 DEF IdentCallInv, ResultRight, NoResult
  <2> QED
    BY <1>0, <1>4, <2>1, <2>2, <2>3, <2>4, OuterStep
<1>5. CASE Finish(t, "denied") /\ UNCHANGED <<identity, who, idCaveats>>
  <2>1. /\ phase' \in [Threads -> {"idle", "login", "rest", "ops", "refuse"}]
        /\ phase'[t] = "idle" /\ \A u \in Threads \ {t} : phase'[u] = phase[u]
    BY <1>0, <1>5 DEF Finish, To, IdentTypeOK
  <2>2. /\ result' \in [Threads -> {"none", "allowed", "discharge", "authenticate", "denied", "error"}]
        /\ result'[t] = "denied" /\ \A u \in Threads \ {t} : result'[u] = result[u]
    BY <1>0, <1>5 DEF Finish, IdentTypeOK
  <2>3. IdentTypeOK' /\ OneIdentity'
    BY <1>0, <1>1, <1>5, <2>1, <2>2 DEF IdentTypeOK, OneIdentity
  <2>4. IdentCallInv(t)'
    BY <1>0, <1>2, <1>5, <2>1, <2>2 DEF IdentCallInv, ResultRight
  <2> QED
    BY <1>0, <1>5, <2>1, <2>2, <2>3, <2>4, OuterStep
<1>6. identity # Nobody => identity \in Identities
  BY <1>0 DEF IdentTypeOK, Users
<1> QED
  BY <1>3, <1>4, <1>5, <1>6 DEF InferFromContext

\* A step that only moves a call on, perhaps to its result.
LEMMA MoveKeeps ==
  ASSUME IdentInv, NEW t \in Threads, pc[t] = "idle",
         NEW label \in {"idle", "refuse"}, To(t, label),
         UNCHANGED <<authVars, identity, asks, says, who, idCaveats>>,
         result' \in [Threads -> {"none", "allowed", "discharge", "authenticate", "denied", "error"}],
         \A u \in Threads \ {t} : result'[u] = result[u],
         label # "idle" => result'[t] = NoResult,
         ResultRight(t)'
  PROVE  IdentInv'
<1>0. /\ IdentTypeOK /\ OneIdentity /\ TypeOK /\ IdentCallInv(t)
  BY DEF IdentInv, IdentTypeOK
<1>1. TypeOK' /\ pc'[t] = "idle"
  BY <1>0, AuthTypeStutter DEF authVars
<1>2. /\ phase' \in [Threads -> {"idle", "login", "rest", "ops", "refuse"}]
      /\ phase'[t] = label /\ \A u \in Threads \ {t} : phase'[u] = phase[u]
  BY <1>0 DEF To, IdentTypeOK
<1>3. IdentTypeOK' /\ OneIdentity'
  BY <1>0, <1>1, <1>2 DEF IdentTypeOK, OneIdentity
<1>4. IdentCallInv(t)'
  BY <1>0, <1>1, <1>2 DEF IdentCallInv
<1> QED
  BY <1>2, <1>3, <1>4, OuterStep

LEMMA FinishKeeps ==
  ASSUME IdentInv, NEW t \in Threads, pc[t] = "idle",
         NEW kind \in {"allowed", "discharge", "authenticate", "denied"}, Finish(t, kind),
         UNCHANGED <<authVars, identity, asks, says, who, idCaveats>>,
         kind = "allowed" =>
           /\ NeedsLogin(t) => who[t] # Nobody
           /\ \A op \in Rest(t) : \/ Direct(t, op)
                                  \/ Granters(t, op) \ {NoOp} # {}
                                  \/ op \in Acl[who[t]],
         kind = "authenticate" => who[t] = Nobody /\ says[t] = "caveats"
  PROVE  IdentInv'
<1>1. /\ result' \in [Threads -> {"none", "allowed", "discharge", "authenticate", "denied", "error"}]
      /\ result'[t] = kind /\ \A u \in Threads \ {t} : result'[u] = result[u]
  BY DEF Finish, IdentInv, IdentTypeOK
<1>2. macaroons' = macaroons /\ ok' = ok /\ policy' = policy
  BY DEF authVars
<1>3. ResultRight(t)'
  BY <1>1, <1>2, SameShown DEF ResultRight, NeedsLogin, Rest
<1> QED
  BY <1>1, <1>3, MoveKeeps DEF Finish

LEMMA AllowRestKeeps ==
  ASSUME IdentInv, NEW t \in Threads, AllowRest(t)
  PROVE  IdentInv'
<1>0. IdentTypeOK /\ TypeOK /\ DecisionInv /\ OneIdentity /\ IdentCallInv(t)
      /\ phase[t] = "rest" /\ (NeedsLogin(t) => who[t] # Nobody)
      /\ UNCHANGED <<identity, asks, says, who, idCaveats, result>>
  BY DEF IdentInv, IdentTypeOK, AllowRest
<1>1. PICK p \in Policies : Call(t, "init allow", Rest(t), IdentityPolicy(p, who[t]))
  BY DEF AllowRest
<1>2. who[t] \in Users /\ Rest(t) \in SUBSET AllOps /\ "init allow" \in Starts
  BY <1>0 DEF IdentTypeOK, Rest, Starts
<1>3. DecisionInv'
  BY <1>0, <1>1, <1>2, IdentityPolicyType, CallStarts
<1>4. phase' \in [Threads -> {"idle", "login", "rest", "ops", "refuse"}]
      /\ phase'[t] = "ops" /\ \A u \in Threads \ {t} : phase'[u] = phase[u]
  BY <1>0 DEF AllowRest, To, IdentTypeOK
<1>5. IdentTypeOK' /\ OneIdentity'
  BY <1>0, <1>3, <1>4 DEF DecisionInv, IdentTypeOK, OneIdentity
<1>6. ASSUME NEW u \in Threads PROVE IdentCallInv(u)'
  <2>1. CASE u = t
    <3>1. ops'[t] = Rest(t) /\ policy'[t] = IdentityPolicy(p, who[t])
      BY <1>0, <1>1 DEF Call, TypeOK
    <3>2. result[t] = NoResult
      BY <1>0 DEF IdentCallInv
    <3>3. ResultRight(t)'
      BY <1>0, <3>2 DEF ResultRight, NoResult
    <3>4. \A op \in Ops : <<NoOp, op>> \in policy'[t].grants => op \in Acl[who[t]]
      BY <1>2, <3>1, IdentityPolicyType
    <3> QED
      BY <1>0, <1>4, <2>1, <3>1, <3>2, <3>3, <3>4 DEF IdentCallInv, NeedsLogin, Rest
  <2>2. CASE u # t
    BY <1>0, <1>1, <1>4, <2>2, CallElsewhere, SameIdentCall DEF IdentInv
  <2> QED
    BY <2>1, <2>2
<1> QED
  BY <1>3, <1>5, <1>6 DEF IdentInv

\* What the AuthChecker allows for the identity's policy.
LEMMA RestAnsweredKeeps ==
  ASSUME IdentInv, NEW t \in Threads, RestAnswered(t)
  PROVE  IdentInv'
<1>0. /\ IdentTypeOK /\ TypeOK /\ IdentCallInv(t) /\ Justified(t)
      /\ phase[t] = "ops" /\ pc[t] = "idle"
      /\ UNCHANGED <<authVars, identity, asks, says, who, idCaveats>>
  BY DEF IdentInv, IdentTypeOK, DecisionInv, CallInv, RestAnswered, Returned
<1>1. CASE answer[t].kind \in {"allowed", "discharge"} /\ Finish(t, answer[t].kind)
  <2>1. ASSUME answer[t].kind = "allowed"
        PROVE  /\ NeedsLogin(t) => who[t] # Nobody
               /\ \A op \in Rest(t) : \/ Direct(t, op)
                                      \/ Granters(t, op) \ {NoOp} # {}
                                      \/ op \in Acl[who[t]]
    <3>1. NeedsLogin(t) => who[t] # Nobody
      BY <1>0 DEF IdentCallInv
    <3>2. ASSUME NEW op \in Rest(t), ~Direct(t, op), Granters(t, op) \ {NoOp} = {}
          PROVE  op \in Acl[who[t]]
      <4>1. Granters(t, op) # Charged(t, op)
        BY <1>0, <2>1, <3>2 DEF Justified, IdentCallInv
      <4>2. NoOp \in Granters(t, op)
        BY <3>2, <4>1 DEF Charged
      <4>3. <<NoOp, op>> \in policy[t].grants
        BY <4>2 DEF Granters
      <4>4. op \in Ops
        BY <1>0, <3>2 DEF IdentTypeOK, Rest, AllOps, Direct
      <4> QED
        BY <1>0, <4>3, <4>4 DEF IdentCallInv
    <3> QED
      BY <3>1, <3>2
  <2> QED
    BY <1>0, <1>1, <2>1, FinishKeeps
<1>2. CASE To(t, "refuse") /\ UNCHANGED result
  <2>1. result[t] = NoResult
    BY <1>0 DEF IdentCallInv
  <2>2. ResultRight(t)'
    BY <1>2, <2>1 DEF ResultRight, NoResult
  <2> QED
    BY <1>0, <1>2, <2>1, <2>2, MoveKeeps DEF IdentTypeOK
<1> QED
  BY <1>1, <1>2 DEF RestAnswered

LEMMA RestUncheckedKeeps ==
  ASSUME IdentInv, NEW t \in Threads, RestUnchecked(t)
  PROVE  IdentInv'
<1>0. /\ IdentTypeOK /\ IdentCallInv(t) /\ phase[t] = "rest" /\ To(t, "refuse")
      /\ UNCHANGED <<authVars, identity, asks, says, who, idCaveats, result>>
  BY DEF IdentInv, RestUnchecked
<1>1. pc[t] = "idle" /\ result[t] = NoResult
  BY <1>0 DEF IdentCallInv
<1>2. ResultRight(t)'
  BY <1>0, <1>1 DEF ResultRight, NoResult
<1> QED
  BY <1>0, <1>1, <1>2, MoveKeeps DEF IdentTypeOK

LEMMA LoginEnoughKeeps ==
  ASSUME IdentInv, NEW t \in Threads, LoginEnough(t)
  PROVE  IdentInv'
<1>0. IdentCallInv(t) /\ phase[t] = "rest"
  BY DEF IdentInv, LoginEnough
<1>1. pc[t] = "idle"
  BY <1>0 DEF IdentCallInv
<1> QED
  BY <1>1, FinishKeeps DEF LoginEnough

LEMMA RefuseKeeps ==
  ASSUME IdentInv, NEW t \in Threads, Refuse(t)
  PROVE  IdentInv'
<1>0. IdentCallInv(t) /\ phase[t] = "refuse"
  BY DEF IdentInv, Refuse
<1>1. pc[t] = "idle" /\ (idCaveats[t] => says[t] = "caveats")
  BY <1>0 DEF IdentCallInv
<1> QED
  BY <1>1, FinishKeeps DEF Refuse

LEMMA IdentStep == IdentInv /\ [IdentNext]_vars => IdentInv'
<1> SUFFICES ASSUME IdentInv, [IdentNext]_vars PROVE IdentInv'
  OBVIOUS
<1>1. ASSUME NEW t \in Threads,
             \/ \E os \in Requests, c \in Contexts : StartAllow(t, os, c)
             \/ InnerStep(t)
             \/ InferFromMacaroon(t)
             \/ InferFromContext(t)
             \/ LoginEnough(t)
             \/ AllowRest(t)
             \/ RestUnchecked(t)
             \/ RestAnswered(t)
             \/ Refuse(t)
      PROVE  IdentInv'
  BY <1>1, StartAllowKeeps, InnerStepKeeps, InferFromMacaroonKeeps, InferFromContextKeeps,
     LoginEnoughKeeps, AllowRestKeeps, RestUncheckedKeeps, RestAnsweredKeeps, RefuseKeeps
<1>2. CASE UNCHANGED vars
  <2>1. DecisionInv' /\ IdentTypeOK' /\ OneIdentity'
    BY <1>2, DecisionStutter, AuthTypeStutter
       DEF IdentInv, vars, authVars, IdentTypeOK, OneIdentity
  <2>2. ASSUME NEW t \in Threads PROVE IdentCallInv(t)'
    BY <1>2, SameIdentCall DEF IdentInv, vars
  <2> QED
    BY <2>1, <2>2 DEF IdentInv
<1> QED
  BY <1>1, <1>2 DEF IdentNext

-----------------------------------------------------------------------------
\* Wherever the other calls are, each asks the AuthChecker below on behalf of
\* the identity it has (identchecker/checker.go, Allow).
THEOREM IdentDecisions == IdentSpec => []IdentInv
<1> QED
  BY IdentInitially, IdentStep, PTL DEF IdentSpec

\* The variables of the calls keep their types.
THEOREM IdentTypeCorrect == IdentSpec => []IdentTypeOK
<1>1. IdentInv => IdentTypeOK
  BY DEF IdentInv
<1> QED
  BY <1>1, IdentDecisions, PTL

\* Whoever finds the identity first, all calls that have one have the same.
THEOREM OneIdentityFound == IdentSpec => []OneIdentity
<1>1. IdentInv => OneIdentity
  BY DEF IdentInv
<1> QED
  BY <1>1, IdentDecisions, PTL

\* What a call is allowed its identity may do, or the macaroons show.
THEOREM ResultsJustified == IdentSpec => []ResultJustified
<1>1. IdentInv => ResultJustified
  BY DEF IdentInv, IdentCallInv, ResultJustified
<1> QED
  BY <1>1, IdentDecisions, PTL

\* The identity of a request is found once and for all its calls.
THEOREM IdentityStays == IdentSpec => IdentityKept
<1>1. ASSUME [IdentNext]_vars, identity # Nobody PROVE identity' = identity
  BY <1>1 DEF IdentNext, vars, StartAllow, InnerStep, identVars, InferFromMacaroon, InferFromContext,
     Identify, LoginEnough, AllowRest, RestUnchecked, RestAnswered, Refuse
<1>2. [IdentNext]_vars => [identity # Nobody => identity' = identity]_vars
  BY <1>1
<1> QED
  BY <1>2, PTL DEF IdentSpec, IdentityKept
=============================================================================
