-------------------------- MODULE AuthChecker_proofs --------------------------
(***************************************************************************)
(* Proofs about AuthChecker, for any number of goroutines, macaroons and   *)
(* operations and any policies: its decisions are justified by what the    *)
(* request shows.  DecisionInv is inductive; the lemmas are about the      *)
(* steps of calls and not about Next, because IdentChecker has the same    *)
(* steps in another order.                                                 *)
(***************************************************************************)
EXTENDS AuthChecker, Induction

-----------------------------------------------------------------------------
(* The types.                                                              *)

LEMMA FirstIsElement ==
  ASSUME NEW S \in SUBSET Mac, S # {}
  PROVE  First(S) \in S
<1>1. S \in SUBSET Nat
  BY AuthCheckerAssumption DEF Mac
<1>2. \E m \in S : \A n \in S : m <= n
  BY <1>1, LeastNatural
<1> QED
  BY <1>2 DEF First

LEMMA LastIsElement ==
  ASSUME NEW S \in SUBSET Mac, S # {}
  PROVE  Last(S) \in S
<1>1. S \in SUBSET Nat /\ N \in Nat /\ \A n \in S : n <= N
  BY AuthCheckerAssumption DEF Mac
<1>2. \E m \in S : \A n \in S : n <= m
  BY <1>1, GreatestNatural
<1> QED
  BY <1>2 DEF Last

LEMMA AuthTypeInit == Init => TypeOK
BY AuthCheckerAssumption DEF Init, TypeOK, Starts, Policy, NoPolicy, NoAnswer, Mac

LEMMA AuthTypeCall ==
  ASSUME TypeOK, NEW t \in Threads, NEW label \in Starts, NEW os \in SUBSET AllOps, NEW p \in Policy,
         Call(t, label, os, p)
  PROVE  TypeOK'
BY AuthCheckerAssumption DEF Call, Goto, checkerVars, TypeOK, NoAnswer

\* The macaroons found for an operation are macaroons of the request.
LEMMA DirectIndexesType ==
  ASSUME TypeOK, NEW t \in Threads, NEW op
  PROVE  DirectIndexes(t, op) \in SUBSET Mac
BY DEF TypeOK, DirectIndexes, Indexes

LEMMA UseDirectType ==
  ASSUME TypeOK, NEW t \in Threads, NEW os, UseDirect(t, os)
  PROVE  used' \in [Threads -> SUBSET Mac] /\ opIndexes' \in [Threads -> [Ops -> 0..N]]
<1>1. ASSUME NEW op \in DirectlyAuthed(t, os)
      PROVE  First(DirectIndexes(t, op)) \in Mac
  BY DirectIndexesType, FirstIsElement DEF DirectlyAuthed
<1>2. {First(DirectIndexes(t, op)) : op \in DirectlyAuthed(t, os)} \subseteq Mac
  BY <1>1
<1>3. used' \in [Threads -> SUBSET Mac]
  BY <1>2 DEF UseDirect, TypeOK
<1>4. [op \in Ops |-> IF op \in DirectlyAuthed(t, os) THEN First(DirectIndexes(t, op))
                      ELSE opIndexes[t][op]] \in [Ops -> 0..N]
  BY <1>1, AuthCheckerAssumption DEF TypeOK, Mac
<1> QED
  BY <1>3, <1>4 DEF UseDirect, TypeOK

LEMMA TakeGrantsType ==
  ASSUME TypeOK, NEW t \in Threads, NEW from \in AllOps, TakeGrants(t, from)
  PROVE  need' \in [Threads -> SUBSET AllOps] /\ caveats' \in [Threads -> SUBSET Pairs]
<1>1. policy[t].charged \subseteq Pairs
  BY DEF TypeOK, Policy
<1> QED
  BY <1>1 DEF TakeGrants, TypeOK

LEMMA AuthTypeStep ==
  ASSUME TypeOK, NEW t \in Threads, Step(t)
  PROVE  TypeOK'
<1> USE AuthCheckerAssumption
<1>1. CASE InitOnce(t)
  BY <1>1 DEF InitOnce, VerifyMacaroon, callVars, TypeOK
<1>2. CASE InitError(t)
  BY <1>2 DEF InitError, Return, Goto, checkerVars, TypeOK
<1>3. CASE NewAllowContext(t)
  <2>1. PICK pass \in SUBSET verified : ok' = [ok EXCEPT ![t] = pass \cup (Mac \ verified)]
    BY <1>3 DEF NewAllowContext
  <2>2. pass \cup (Mac \ verified) \in SUBSET Mac
    BY DEF TypeOK
  <2>3. ok' \in [Threads -> SUBSET Mac]
    BY <2>1, <2>2 DEF TypeOK
  <2>4. pc' = [pc EXCEPT ![t] = "direct"] \/ pc' = [pc EXCEPT ![t] = "allowed"]
    BY <1>3 DEF NewAllowContext, Goto
  <2> QED
    BY <1>3, <2>3, <2>4 DEF NewAllowContext, checkerVars, TypeOK
<1>4. CASE Allowed(t)
  BY <1>4, UseDirectType DEF Allowed, Return, Goto, checkerVars, TypeOK
<1>5. CASE CheckDirect(t)
  <2>1. used' \in [Threads -> SUBSET Mac] /\ opIndexes' \in [Threads -> [Ops -> 0..N]]
    BY <1>5, UseDirectType DEF CheckDirect
  <2>2. need' \in [Threads -> SUBSET AllOps]
    BY <1>5 DEF CheckDirect, TypeOK
  <2>3. \/ Return(t, "allowed", {})
        \/ Goto(t, "indirect") /\ UNCHANGED answer
    BY <1>5 DEF CheckDirect
  <2>4. pc' \in [Threads -> Starts \cup {"idle", "direct", "allowed", "indirect", "decide"}]
    BY <2>3 DEF Return, Goto, TypeOK
  <2>5. answer' \in [Threads -> [kind : {"none", "allowed", "denied", "discharge", "error"},
                               ops : SUBSET AllOps]]
    <3>1. \/ answer' = [answer EXCEPT ![t] = [kind |-> "allowed", ops |-> {}]]
          \/ answer' = answer
      BY <2>3 DEF Return
    <3>2. [kind |-> "allowed", ops |-> {}] \in
            [kind : {"none", "allowed", "denied", "discharge", "error"}, ops : SUBSET AllOps]
      OBVIOUS
    <3>3. answer \in [Threads -> [kind : {"none", "allowed", "denied", "discharge", "error"},
                                 ops : SUBSET AllOps]]
      BY DEF TypeOK
    <3> QED
      BY <3>1, <3>2, <3>3
  <2>6. UNCHANGED <<macaroons, initState, verified, ops, policy, ok, asked, caveats>>
    BY <1>5 DEF CheckDirect, checkerVars
  <2> QED
    BY <2>1, <2>2, <2>4, <2>5, <2>6 DEF TypeOK
<1>6. ASSUME NEW from \in Ops, CheckIndirect(t, from) PROVE TypeOK'
  <2>1. CASE DirectIndexes(t, from) = {}
    BY <1>6, <2>1 DEF CheckIndirect, checkerVars, TypeOK
  <2>2. CASE DirectIndexes(t, from) # {}
    <3>1. Last(DirectIndexes(t, from)) \in Mac /\ DirectIndexes(t, from) \subseteq Mac
      BY <2>2, DirectIndexesType, LastIsElement
    <3>2. need' \in [Threads -> SUBSET AllOps] /\ caveats' \in [Threads -> SUBSET Pairs]
      BY <1>6, <2>2, TakeGrantsType DEF CheckIndirect, AllOps
    <3>3. used' \in [Threads -> SUBSET Mac]
      <4>1. \/ used' = [used EXCEPT ![t] = @ \cup {}]
            \/ used' = [used EXCEPT ![t] = @ \cup DirectIndexes(t, from)]
        BY <1>6, <2>2 DEF CheckIndirect
      <4> QED
        BY <3>1, <4>1 DEF TypeOK
    <3>4. [op \in Ops |-> IF op \in Granted(t, from) THEN Last(DirectIndexes(t, from))
                          ELSE opIndexes[t][op]] \in [Ops -> 0..N]
      BY <3>1 DEF TypeOK, Mac
    <3>5. opIndexes' \in [Threads -> [Ops -> 0..N]]
      BY <1>6, <2>2, <3>4 DEF CheckIndirect, TypeOK
    <3>6. asked' \in [Threads -> SUBSET Ops]
      BY <1>6 DEF CheckIndirect, TypeOK
    <3>7. UNCHANGED <<macaroons, initState, verified, pc, ops, policy, ok, answer>>
      BY <1>6 DEF CheckIndirect, checkerVars
    <3> QED
      BY <3>2, <3>3, <3>5, <3>6, <3>7 DEF TypeOK
  <2> QED
    BY <2>1, <2>2
<1>7. CASE CheckNoOp(t)
  BY <1>7, TakeGrantsType DEF CheckNoOp, Goto, checkerVars, TypeOK, AllOps
<1>8. CASE CheckError(t)
  BY <1>8 DEF CheckError, Return, Goto, checkerVars, TypeOK
<1>9. CASE Decide(t)
  <2>1. \E kind \in {"allowed", "denied", "discharge"}, os \in SUBSET AllOps : Return(t, kind, os)
    BY <1>9 DEF Decide, TypeOK
  <2> QED
    BY <1>9, <2>1 DEF Decide, Return, Goto, checkerVars, TypeOK
<1> QED
  BY <1>1, <1>2, <1>3, <1>4, <1>5, <1>6, <1>7, <1>8, <1>9 DEF Step

LEMMA AuthTypeStutter == TypeOK /\ UNCHANGED authVars => TypeOK'
BY DEF authVars, TypeOK
-----------------------------------------------------------------------------
(* What the request shows.                                                 *)

\* It is the same while the context of the call is.
LEMMA SameShown ==
  ASSUME NEW t \in Threads, macaroons' = macaroons, ok'[t] = ok[t], policy'[t] = policy[t]
  PROVE  /\ Good(t)' = Good(t)
         /\ Shown(t)' = Shown(t)
         /\ \A op : Granters(t, op)' = Granters(t, op)
         /\ \A op : Charged(t, op)' = Charged(t, op)
         /\ \A op : Direct(t, op)' <=> Direct(t, op)
<1>1. Good(t)' = Good(t)
  BY DEF Good
<1>2. Shown(t)' = Shown(t)
  BY <1>1 DEF Shown
<1>3. \A op : Granters(t, op)' = Granters(t, op)
  BY <1>2 DEF Granters
<1>4. \A op : Charged(t, op)' = Charged(t, op)
  BY <1>3 DEF Charged
<1> QED
  BY <1>1, <1>2, <1>3, <1>4 DEF Direct

\* A call that looks at authIndexes finds just that.
LEMMA Indexed ==
  ASSUME TypeOK, VerifiedInv, NEW t \in Threads, pc[t] \in Running
  PROVE  /\ \A op : DirectIndexes(t, op) = {m \in Good(t) : op \in macaroons[m].ops}
         /\ \A op : DirectIndexes(t, op) # {} <=> op \in Shown(t)
         /\ Shown(t) \subseteq AuthOps
         /\ AuthOps \subseteq Ops
         /\ NoOp \notin Shown(t)
<1>1. verified = {m \in Mac : macaroons[m].genuine}
  BY DEF VerifiedInv, VerifyMacaroon
<1>2. \A op : DirectIndexes(t, op) = {m \in Good(t) : op \in macaroons[m].ops}
  BY <1>1 DEF DirectIndexes, Indexes, Good
<1>3. \A op : DirectIndexes(t, op) # {} <=> op \in Shown(t)
  BY <1>2 DEF Shown
<1>4. Shown(t) \subseteq AuthOps
  BY <1>1 DEF Shown, Good, AuthOps
<1>5. \A m \in Mac : macaroons[m].ops \subseteq Ops
  BY DEF TypeOK
<1>6. AuthOps \subseteq Ops
  BY <1>5 DEF AuthOps, TypeOK
<1> QED
  BY <1>2, <1>3, <1>4, <1>6, AuthCheckerAssumption

-----------------------------------------------------------------------------
(* A step of one call does not disturb another.                            *)

LEMMA SameCall ==
  ASSUME NEW t \in Threads, CallInv(t), macaroons' = macaroons,
         verified' = verified \/ pc[t] \notin Running,
         pc'[t] = pc[t], ops'[t] = ops[t], policy'[t] = policy[t], ok'[t] = ok[t],
         used'[t] = used[t], opIndexes'[t] = opIndexes[t], need'[t] = need[t],
         asked'[t] = asked[t], caveats'[t] = caveats[t], answer'[t] = answer[t]
  PROVE  CallInv(t)'
<1> USE SameShown DEF CallInv
<1>1. FreshInv(t)'
  BY DEF FreshInv, Starts
<1>2. NeedInv(t)'
  BY DEF NeedInv, AuthOps, Running
<1>3. TakenInv(t)'
  BY DEF TakenInv
<1>4. PointedInv(t)'
  BY DEF PointedInv, Authorizes
<1>5. Justified(t)'
  BY DEF Justified
<1> QED
  BY <1>1, <1>2, <1>3, <1>4, <1>5

\* What a call's step leaves alone.
LEMMA StepElsewhere ==
  ASSUME TypeOK, NEW t \in Threads, NEW u \in Threads, u # t, Step(t)
  PROVE  /\ macaroons' = macaroons
         /\ verified' = verified \/ initState = "new"
         /\ pc'[u] = pc[u] /\ ops'[u] = ops[u] /\ policy'[u] = policy[u] /\ ok'[u] = ok[u]
         /\ used'[u] = used[u] /\ opIndexes'[u] = opIndexes[u] /\ need'[u] = need[u]
         /\ asked'[u] = asked[u] /\ caveats'[u] = caveats[u] /\ answer'[u] = answer[u]
<1> USE DEF TypeOK, checkerVars, callVars, Return, Goto
<1>1. CASE InitOnce(t)
  BY <1>1 DEF InitOnce
<1>2. CASE InitError(t)
  BY <1>2 DEF InitError
<1>3. CASE NewAllowContext(t)
  BY <1>3 DEF NewAllowContext
<1>4. CASE Allowed(t)
  BY <1>4 DEF Allowed, UseDirect
<1>5. CASE CheckDirect(t)
  BY <1>5 DEF CheckDirect, UseDirect
<1>6. ASSUME NEW from \in Ops, CheckIndirect(t, from)
      PROVE  /\ macaroons' = macaroons /\ verified' = verified
             /\ pc'[u] = pc[u] /\ ops'[u] = ops[u] /\ policy'[u] = policy[u] /\ ok'[u] = ok[u]
             /\ used'[u] = used[u] /\ opIndexes'[u] = opIndexes[u] /\ need'[u] = need[u]
             /\ asked'[u] = asked[u] /\ caveats'[u] = caveats[u] /\ answer'[u] = answer[u]
  BY <1>6 DEF CheckIndirect, TakeGrants
<1>7. CASE CheckNoOp(t)
  BY <1>7 DEF CheckNoOp, TakeGrants
<1>8. CASE CheckError(t)
  BY <1>8 DEF CheckError
<1>9. CASE Decide(t)
  BY <1>9 DEF Decide
<1> QED
  BY <1>1, <1>2, <1>3, <1>4, <1>5, <1>6, <1>7, <1>8, <1>9 DEF Step

LEMMA OtherCalls ==
  ASSUME DecisionInv, NEW t \in Threads, NEW u \in Threads, u # t, Step(t)
  PROVE  CallInv(u)'
<1>1. TypeOK /\ VerifiedInv /\ CallInv(u)
  BY DEF DecisionInv
<1>2. initState = "new" => pc[u] \notin Running
  BY <1>1 DEF VerifiedInv
<1> QED
  BY <1>1, <1>2, StepElsewhere, SameCall

-----------------------------------------------------------------------------
(* The steps of a call.                                                    *)

\* A call starts knowing nothing.
LEMMA CallStarts ==
  ASSUME DecisionInv, NEW t \in Threads, NEW label \in Starts, NEW os \in SUBSET AllOps,
         NEW p \in Policy, label = "init allowed" => os = {}, Call(t, label, os, p)
  PROVE  DecisionInv'
<1>0. TypeOK /\ VerifiedInv
  BY DEF DecisionInv
<1>1. TypeOK'
  BY <1>0, AuthTypeCall
<1>2. UNCHANGED <<macaroons, initState, verified>>
  BY DEF Call, checkerVars
<1>3. /\ pc'[t] = label /\ ops'[t] = os /\ need'[t] = os /\ asked'[t] = {} /\ caveats'[t] = {}
      /\ opIndexes'[t] = [op \in Ops |-> 0] /\ answer'[t] = NoAnswer
  BY <1>0 DEF Call, Goto, TypeOK
<1>4. VerifiedInv'
  BY <1>0, <1>2, <1>3 DEF VerifiedInv, VerifyMacaroon, Call, Goto, TypeOK, Starts, Running, Answers, NoAnswer
<1>5. ASSUME NEW u \in Threads PROVE CallInv(u)'
  <2>1. CASE u = t
    <3>1. pc'[t] \notin {"idle", "direct", "allowed", "indirect", "decide"} /\ answer'[t].kind = "none"
      <4>0. NoAnswer.kind = "none"
        BY DEF NoAnswer
      <4>1. answer'[t].kind = "none"
        BY <1>3, <4>0
      <4> QED
        BY <1>3, <4>1 DEF Starts
    <3>2. FreshInv(t)'
      BY <1>3, <3>1 DEF FreshInv, Starts
    <3>3. NeedInv(t)' /\ TakenInv(t)'
      BY <3>1 DEF NeedInv, TakenInv
    <3>4. PointedInv(t)'
      BY <1>3, <3>1 DEF PointedInv
    <3>5. Justified(t)'
      BY <3>1 DEF Justified
    <3> QED
      BY <2>1, <3>2, <3>3, <3>4, <3>5 DEF CallInv
  <2>2. CASE u # t
    <3>1. /\ pc'[u] = pc[u] /\ ops'[u] = ops[u] /\ policy'[u] = policy[u] /\ ok'[u] = ok[u]
          /\ used'[u] = used[u] /\ opIndexes'[u] = opIndexes[u] /\ need'[u] = need[u]
          /\ asked'[u] = asked[u] /\ caveats'[u] = caveats[u] /\ answer'[u] = answer[u]
      BY <1>0, <2>2 DEF Call, Goto, TypeOK
    <3> QED
      BY <1>2, <3>1, SameCall DEF DecisionInv
  <2> QED
    BY <2>1, <2>2
<1> QED
  BY <1>1, <1>4, <1>5 DEF DecisionInv

\* The macaroons of the request are verified, for all calls.
LEMMA VerifiedStep ==
  ASSUME DecisionInv, NEW t \in Threads, Step(t)
  PROVE  VerifiedInv'
<1>0. TypeOK /\ VerifiedInv
  BY DEF DecisionInv
<1>1. CASE InitOnce(t)
  BY <1>0, <1>1 DEF InitOnce, VerifiedInv, VerifyMacaroon, callVars
<1>2. ASSUME UNCHANGED <<macaroons, initState, verified>>, initState = "ok"
      PROVE  VerifiedInv'
  BY <1>0, <1>2 DEF VerifiedInv, VerifyMacaroon
<1>3. ASSUME pc[t] \in Running PROVE initState = "ok"
  BY <1>0, <1>3 DEF VerifiedInv
<1>4. CASE InitError(t)
  <2>1. initState = "error" /\ UNCHANGED <<macaroons, initState, verified>>
    BY <1>4 DEF InitError, checkerVars
  <2>2. pc'[t] = "idle" /\ answer'[t].kind = "error"
    BY <1>0, <1>4 DEF InitError, Return, Goto, TypeOK
  <2>3. \A u \in Threads : u # t => pc'[u] = pc[u] /\ answer'[u] = answer[u]
    BY <1>0, <1>4 DEF InitError, Return, Goto, TypeOK
  <2>4. pc'[t] \notin Running /\ answer'[t].kind \notin Answers
    BY <2>2 DEF Running, Answers
  <2>5. ASSUME NEW u \in Threads PROVE pc'[u] \notin Running /\ answer'[u].kind \notin Answers
    BY <1>0, <2>1, <2>3, <2>4 DEF VerifiedInv
  <2> QED
    BY <1>0, <2>1, <2>5 DEF VerifiedInv, VerifyMacaroon
<1>5. CASE NewAllowContext(t)
  BY <1>2, <1>5 DEF NewAllowContext, checkerVars
<1>6. CASE Allowed(t)
  BY <1>2, <1>3, <1>6 DEF Allowed, checkerVars, Running
<1>7. CASE CheckDirect(t)
  BY <1>2, <1>3, <1>7 DEF CheckDirect, checkerVars, Running
<1>8. ASSUME NEW from \in Ops, CheckIndirect(t, from) PROVE VerifiedInv'
  BY <1>2, <1>3, <1>8 DEF CheckIndirect, checkerVars, Running
<1>9. CASE CheckNoOp(t) \/ CheckError(t) \/ Decide(t)
  BY <1>2, <1>3, <1>9 DEF CheckNoOp, CheckError, Decide, checkerVars, Running
<1> QED
  BY <1>1, <1>4, <1>5, <1>6, <1>7, <1>8, <1>9 DEF Step

\* The first call to verify the macaroons has not looked at them yet.
LEMMA InitOnceKeeps ==
  ASSUME DecisionInv, NEW t \in Threads, InitOnce(t)
  PROVE  CallInv(t)'
<1>1. pc[t] \notin Running
  BY DEF InitOnce, Starts, Running
<1> QED
  BY <1>1, SameCall DEF InitOnce, callVars, DecisionInv

LEMMA InitErrorKeeps ==
  ASSUME DecisionInv, NEW t \in Threads, InitError(t)
  PROVE  CallInv(t)'
<1>0. TypeOK /\ CallInv(t) /\ pc[t] \in Starts
  BY DEF DecisionInv, InitError
<1>1. /\ pc'[t] = "idle" /\ answer'[t].kind = "error"
      /\ UNCHANGED <<macaroons, ops, policy, ok, used, opIndexes, need, asked, caveats>>
  BY <1>0 DEF InitError, Return, Goto, checkerVars, TypeOK
<1>2. FreshInv(t)' /\ NeedInv(t)' /\ TakenInv(t)' /\ Justified(t)'
  BY <1>1 DEF FreshInv, NeedInv, TakenInv, Justified, Starts
<1>3. PointedInv(t)'
  BY <1>0, <1>1, SameShown DEF CallInv, PointedInv, Authorizes
<1> QED
  BY <1>2, <1>3 DEF CallInv

\* The conditions are checked while nothing depends on them.
LEMMA NewAllowContextKeeps ==
  ASSUME DecisionInv, NEW t \in Threads, NewAllowContext(t)
  PROVE  CallInv(t)'
<1>0. TypeOK /\ CallInv(t) /\ pc[t] \in Starts
  BY DEF DecisionInv, NewAllowContext
<1>1. /\ pc'[t] = IF pc[t] = "init allow" THEN "direct" ELSE "allowed"
      /\ UNCHANGED <<ops, used, opIndexes, need, asked, caveats, answer>>
  BY <1>0 DEF NewAllowContext, Goto, TypeOK
<1>2. /\ need[t] = ops[t] /\ asked[t] = {} /\ caveats[t] = {} /\ answer[t].kind = "none"
      /\ \A op \in Ops : opIndexes[t][op] = 0
      /\ pc[t] = "init allowed" => ops[t] = {}
  BY <1>0 DEF CallInv, FreshInv, Starts
<1>3. FreshInv(t)'
  BY <1>0, <1>1, <1>2 DEF FreshInv, Starts
<1>4. NeedInv(t)' /\ TakenInv(t)'
  BY <1>1 DEF NeedInv, TakenInv
<1>5. PointedInv(t)' /\ Justified(t)'
  BY <1>1, <1>2 DEF PointedInv, Justified
<1> QED
  BY <1>3, <1>4, <1>5 DEF CallInv

\* What a step finds is authorized by the macaroons it marks as used.
LEMMA StillAuthorizes ==
  ASSUME TypeOK, NEW t \in Threads, NEW m, NEW op, Authorizes(t, m, op),
         macaroons' = macaroons, ok' = ok, policy' = policy, used[t] \subseteq used'[t]
  PROVE  Authorizes(t, m, op)'
BY SameShown DEF Authorizes

LEMMA UseDirectPoints ==
  ASSUME DecisionInv, NEW t \in Threads, NEW os, pc[t] \in Running, UseDirect(t, os),
         macaroons' = macaroons, ok' = ok, policy' = policy
  PROVE  /\ used[t] \subseteq used'[t]
         /\ \A op \in Ops : opIndexes'[t][op] # 0 => Authorizes(t, opIndexes[t][op], op)'
         /\ \A op \in os : op \in Ops /\ op \in Shown(t) => opIndexes'[t][op] # 0
         /\ \A op \in Ops : opIndexes[t][op] # 0 => opIndexes'[t][op] # 0
<1>0. TypeOK /\ VerifiedInv /\ PointedInv(t)
  BY DEF DecisionInv, CallInv
<1>1. /\ used'[t] = used[t] \cup {First(DirectIndexes(t, op)) : op \in DirectlyAuthed(t, os)}
      /\ \A op \in Ops : opIndexes'[t][op] = IF op \in DirectlyAuthed(t, os)
                                            THEN First(DirectIndexes(t, op)) ELSE opIndexes[t][op]
  BY <1>0 DEF UseDirect, TypeOK
<1>2. \A op \in os : op \in DirectlyAuthed(t, os) <=> op \in Ops /\ op \in Shown(t)
  BY <1>0, Indexed DEF DirectlyAuthed
<1>3. ASSUME NEW op \in DirectlyAuthed(t, os)
      PROVE  /\ First(DirectIndexes(t, op)) \in Good(t)
             /\ op \in macaroons[First(DirectIndexes(t, op))].ops
             /\ First(DirectIndexes(t, op)) # 0
  <2>1. DirectIndexes(t, op) # {} /\ DirectIndexes(t, op) \in SUBSET Mac
    BY <1>0, DirectIndexesType DEF DirectlyAuthed
  <2>2. First(DirectIndexes(t, op)) \in DirectIndexes(t, op)
    BY <2>1, FirstIsElement
  <2>3. 0 \notin Mac
    BY AuthCheckerAssumption DEF Mac
  <2> QED
    BY <1>0, <2>1, <2>2, <2>3, Indexed
<1>4. ASSUME NEW op \in Ops, opIndexes'[t][op] # 0
      PROVE  Authorizes(t, opIndexes[t][op], op)'
  <2>1. CASE op \in DirectlyAuthed(t, os)
    <3>1. First(DirectIndexes(t, op)) \in used'[t] /\ opIndexes'[t][op] = First(DirectIndexes(t, op))
      BY <1>1, <2>1
    <3> QED
      BY <1>3, <2>1, <3>1, SameShown DEF Authorizes
  <2>2. CASE op \notin DirectlyAuthed(t, os)
    <3>1. opIndexes'[t][op] = opIndexes[t][op] /\ used[t] \subseteq used'[t]
      BY <1>1, <2>2
    <3>2. Authorizes(t, opIndexes[t][op], op)
      BY <1>0, <1>4, <3>1 DEF PointedInv
    <3> QED
      BY <3>1, <3>2, SameShown DEF Authorizes
  <2> QED
    BY <2>1, <2>2
<1> QED
  BY <1>1, <1>2, <1>3, <1>4

LEMMA AllowedKeeps ==
  ASSUME DecisionInv, NEW t \in Threads, Allowed(t)
  PROVE  CallInv(t)'
<1>0. TypeOK /\ CallInv(t) /\ pc[t] = "allowed"
  BY DEF DecisionInv, Allowed
<1>1. /\ pc'[t] = "idle"
      /\ UNCHANGED <<macaroons, ops, policy, ok, need, asked, caveats>>
  BY <1>0 DEF Allowed, Return, Goto, checkerVars, TypeOK
<1>3. answer'[t].kind = "allowed"
  BY <1>0 DEF Allowed, Return, TypeOK
<1>4. ops[t] = {}
  BY <1>0 DEF CallInv, FreshInv
<1>5. need[t] = {}
  BY <1>0, <1>4 DEF CallInv, FreshInv
<1>6. FreshInv(t)' /\ NeedInv(t)' /\ TakenInv(t)'
  BY <1>1 DEF FreshInv, NeedInv, TakenInv, Starts
<1>7. \A op \in Ops : opIndexes'[t][op] # 0 => Authorizes(t, opIndexes[t][op], op)'
  BY <1>0, <1>1, UseDirectPoints DEF Allowed, Running
<1>8. PointedInv(t)'
  BY <1>1, <1>4, <1>5, <1>7 DEF PointedInv
<1>9. Justified(t)'
  BY <1>1, <1>3, <1>4 DEF Justified
<1> QED
  BY <1>6, <1>8, <1>9 DEF CallInv

LEMMA CheckDirectKeeps ==
  ASSUME DecisionInv, NEW t \in Threads, CheckDirect(t)
  PROVE  CallInv(t)'
<1>0. TypeOK /\ VerifiedInv /\ CallInv(t) /\ pc[t] = "direct" /\ pc[t] \in Running
  BY DEF DecisionInv, CheckDirect, Running
<1>1. /\ need[t] = ops[t] /\ asked[t] = {} /\ caveats[t] = {} /\ answer[t].kind = "none"
  BY <1>0 DEF CallInv, FreshInv
<1>2. UNCHANGED <<macaroons, ops, policy, ok, asked, caveats>>
  BY DEF CheckDirect, checkerVars
<1>3. ops[t] \subseteq AllOps
  BY <1>0 DEF TypeOK
<1>4. /\ \A op \in Ops : opIndexes'[t][op] # 0 => Authorizes(t, opIndexes[t][op], op)'
      /\ \A op \in ops[t] : op \in Ops /\ op \in Shown(t) => opIndexes'[t][op] # 0
  BY <1>0, <1>1, <1>2, UseDirectPoints DEF CheckDirect
<1>5. need'[t] = {op \in ops[t] : ~Direct(t, op)}
  <2>1. need'[t] = ops[t] \ (DirectlyAuthed(t, ops[t]) \cup {NoOp})
    BY <1>0, <1>1 DEF CheckDirect, TypeOK
  <2>2. \A op \in ops[t] : op \in DirectlyAuthed(t, ops[t]) <=> op \in Ops /\ op \in Shown(t)
    BY <1>0, Indexed DEF DirectlyAuthed
  <2>3. Shown(t) \subseteq Ops
    BY <1>0, Indexed
  <2> QED
    BY <2>1, <2>2, <2>3 DEF Direct
<1>6. \/ need'[t] = {} /\ pc'[t] = "idle" /\ answer'[t].kind = "allowed"
      \/ pc'[t] = "indirect" /\ answer'[t].kind = "none"
  <2>1. \/ need'[t] = {} /\ Return(t, "allowed", {})
        \/ Goto(t, "indirect") /\ UNCHANGED answer
    BY <1>0 DEF CheckDirect, TypeOK
  <2>2. CASE need'[t] = {} /\ Return(t, "allowed", {})
    BY <1>0, <2>2 DEF Return, Goto, TypeOK
  <2>3. CASE Goto(t, "indirect") /\ UNCHANGED answer
    BY <1>0, <1>1, <2>3 DEF Goto, TypeOK
  <2> QED
    BY <2>1, <2>2, <2>3
<1>7. FreshInv(t)'
  BY <1>6 DEF FreshInv, Starts
<1>8. NeedInv(t)'
  <2>1. asked'[t] = {}
    BY <1>1, <1>2
  <2> QED
    BY <1>2, <1>5, <1>6, <2>1, SameShown DEF NeedInv
<1>9. TakenInv(t)'
  <2>1. caveats'[t] = {}
    BY <1>1, <1>2
  <2>2. \A op \in ops[t] \ need'[t] : Direct(t, op)
    BY <1>5
  <2> QED
    BY <1>2, <2>1, <2>2, SameShown DEF TakenInv
<1>10. PointedInv(t)'
  <2>1. \A op \in ops[t] \ (need'[t] \cup {NoOp}) : opIndexes'[t][op] # 0
    BY <1>3, <1>4, <1>5 DEF Direct, AllOps
  <2> QED
    BY <1>2, <1>4, <1>6, <2>1 DEF PointedInv
<1>11. Justified(t)'
  BY <1>2, <1>5, <1>6, SameShown DEF Justified
<1> QED
  BY <1>7, <1>8, <1>9, <1>10, <1>11 DEF CallInv

\* What the OpsAuthorizer grants to from is no longer needed, and its caveats
\* are kept.
LEMMA TakeGrantsTakes ==
  ASSUME TypeOK, NEW t \in Threads, CallInv(t), pc[t] = "indirect",
         NEW from \in Shown(t) \cup {NoOp}, TakeGrants(t, from)
  PROVE  /\ need'[t] = {op \in need[t] : from \notin Granters(t, op)}
         /\ \A op \in ops[t] \ need'[t] :
              \/ Direct(t, op)
              \/ \E f \in Granters(t, op) : f \in Charged(t, op) => <<f, op>> \in caveats'[t]
         /\ \A grant \in caveats'[t] :
              /\ grant[2] \in ops[t]
              /\ ~Direct(t, grant[2])
              /\ grant[1] \in Charged(t, grant[2])
<1>1. Granted(t, from) = {op \in need[t] : from \in Granters(t, op)}
  BY DEF Granted, Granters
<1>2. need'[t] = {op \in need[t] : from \notin Granters(t, op)}
  BY <1>1 DEF TakeGrants, TypeOK
<1>3. caveats'[t] = caveats[t] \cup ({<<from, op>> : op \in Granted(t, from)} \cap policy[t].charged)
  BY DEF TakeGrants, TypeOK
<1>4. /\ \A op \in need[t] : op \in ops[t] /\ ~Direct(t, op)
      /\ \A op \in ops[t] \ need[t] :
           \/ Direct(t, op)
           \/ \E f \in Granters(t, op) : f \in Charged(t, op) => <<f, op>> \in caveats[t]
      /\ \A grant \in caveats[t] :
           /\ grant[2] \in ops[t]
           /\ ~Direct(t, grant[2])
           /\ grant[1] \in Charged(t, grant[2])
  BY DEF CallInv, NeedInv, TakenInv
<1>5. ASSUME NEW op \in ops[t] \ need'[t]
      PROVE  \/ Direct(t, op)
             \/ \E f \in Granters(t, op) : f \in Charged(t, op) => <<f, op>> \in caveats'[t]
  <2>1. CASE op \in need[t]
    <3>1. from \in Granters(t, op) /\ op \in Granted(t, from)
      BY <1>1, <1>2, <1>5, <2>1
    <3>2. from \in Charged(t, op) => <<from, op>> \in caveats'[t]
      BY <1>3, <3>1 DEF Charged
    <3> QED
      BY <3>1, <3>2
  <2>2. CASE op \notin need[t]
    BY <1>3, <1>4, <2>2
  <2> QED
    BY <2>1, <2>2
<1>6. ASSUME NEW grant \in caveats'[t], grant \notin caveats[t]
      PROVE  /\ grant[2] \in ops[t]
             /\ ~Direct(t, grant[2])
             /\ grant[1] \in Charged(t, grant[2])
  <2>1. PICK op \in Granted(t, from) : grant = <<from, op>>
    BY <1>3, <1>6
  <2>2. grant \in policy[t].charged
    BY <1>3, <1>6
  <2>3. op \in ops[t] /\ ~Direct(t, op) /\ from \in Granters(t, op)
    BY <1>1, <1>4
  <2>4. from \in Charged(t, op)
    BY <2>1, <2>2, <2>3 DEF Charged
  <2> QED
    BY <2>1, <2>3, <2>4
<1> QED
  BY <1>2, <1>4, <1>5, <1>6

LEMMA CheckIndirectKeeps ==
  ASSUME DecisionInv, NEW t \in Threads, NEW from \in Ops, CheckIndirect(t, from)
  PROVE  CallInv(t)'
<1>0. /\ TypeOK /\ VerifiedInv /\ CallInv(t) /\ pc[t] = "indirect" /\ pc[t] \in Running
      /\ from \in AuthOps
  BY DEF DecisionInv, CheckIndirect, Running
<1>1. UNCHANGED <<macaroons, verified, pc, ops, policy, ok, answer>>
  BY DEF CheckIndirect, checkerVars
<1>2. asked'[t] = asked[t] \cup {from}
  BY <1>0 DEF CheckIndirect, TypeOK
<1>3. AuthOps' = AuthOps
  BY <1>1 DEF AuthOps
<1>4. from # NoOp
  BY AuthCheckerAssumption
<1>5. answer[t].kind = "none"
  BY <1>0 DEF CallInv, FreshInv
<1>6. FreshInv(t)' /\ Justified(t)'
  BY <1>0, <1>1, <1>5 DEF FreshInv, Justified, Starts
<1>7. CASE DirectIndexes(t, from) = {}
  <2>1. UNCHANGED <<used, opIndexes, need, caveats>>
    BY <1>7 DEF CheckIndirect
  <2>2. from \notin Shown(t)
    BY <1>0, <1>7, Indexed
  <2>3. \A op : from \notin Granters(t, op)
    BY <1>4, <2>2 DEF Granters
  <2>4. NeedInv(t)
    BY <1>0 DEF CallInv
  <2>5. NeedInv(t)'
    BY <1>0, <1>1, <1>2, <1>3, <2>1, <2>3, <2>4, SameShown DEF NeedInv
  <2>6. TakenInv(t)'
    BY <1>0, <1>1, <2>1, SameShown DEF CallInv, TakenInv
  <2>7. PointedInv(t)'
    BY <1>0, <1>1, <2>1, SameShown DEF CallInv, PointedInv, Authorizes
  <2> QED
    BY <1>6, <2>5, <2>6, <2>7 DEF CallInv
<1>8. CASE DirectIndexes(t, from) # {}
  <2>1. /\ TakeGrants(t, from)
        /\ used'[t] = used[t] \cup IF Granted(t, from) = {} THEN {} ELSE DirectIndexes(t, from)
        /\ \A op \in Ops : opIndexes'[t][op] = IF op \in Granted(t, from)
                                              THEN Last(DirectIndexes(t, from))
                                              ELSE opIndexes[t][op]
    BY <1>0, <1>8 DEF CheckIndirect, TypeOK
  <2>2. from \in Shown(t)
    BY <1>0, <1>8, Indexed
  <2>3. /\ need'[t] = {op \in need[t] : from \notin Granters(t, op)}
        /\ \A op \in ops[t] \ need'[t] :
             \/ Direct(t, op)
             \/ \E f \in Granters(t, op) : f \in Charged(t, op) => <<f, op>> \in caveats'[t]
        /\ \A grant \in caveats'[t] :
             /\ grant[2] \in ops[t]
             /\ ~Direct(t, grant[2])
             /\ grant[1] \in Charged(t, grant[2])
    BY <1>0, <2>1, <2>2, TakeGrantsTakes
  <2>4. TakenInv(t)'
    BY <1>1, <2>3, SameShown DEF TakenInv
  <2>5. NeedInv(t)
    BY <1>0 DEF CallInv
  <2>6. NeedInv(t)'
    BY <1>0, <1>1, <1>2, <1>3, <2>3, <2>5, SameShown DEF NeedInv
  <2>7. Last(DirectIndexes(t, from)) \in DirectIndexes(t, from)
    BY <1>0, <1>8, DirectIndexesType, LastIsElement
  <2>8. /\ Last(DirectIndexes(t, from)) \in Good(t)
        /\ from \in macaroons[Last(DirectIndexes(t, from))].ops
        /\ Last(DirectIndexes(t, from)) # 0
    <3>1. 0 \notin Mac
      BY AuthCheckerAssumption DEF Mac
    <3> QED
      BY <1>0, <2>7, <3>1, Indexed DEF Good
  <2>9. ASSUME NEW op \in Ops, opIndexes'[t][op] # 0
        PROVE  Authorizes(t, opIndexes[t][op], op)'
    <3>1. CASE op \in Granted(t, from)
      <4>1. from \in Granters(t, op)
        BY <2>2, <3>1 DEF Granted, Granters
      <4>2. opIndexes'[t][op] = Last(DirectIndexes(t, from))
        BY <2>1, <3>1
      <4>3. Last(DirectIndexes(t, from)) \in used'[t]
        BY <2>1, <2>7, <3>1
      <4> QED
        BY <1>1, <2>8, <4>1, <4>2, <4>3, SameShown DEF Authorizes
    <3>2. CASE op \notin Granted(t, from)
      <4>1. opIndexes'[t][op] = opIndexes[t][op] /\ used[t] \subseteq used'[t]
        BY <2>1, <3>2
      <4>2. Authorizes(t, opIndexes[t][op], op)
        BY <1>0, <2>9, <4>1 DEF CallInv, PointedInv
      <4> QED
        BY <1>1, <4>1, <4>2, SameShown DEF Authorizes
    <3> QED
      BY <3>1, <3>2
  <2>10. ASSUME NEW op \in ops[t] \ (need'[t] \cup {NoOp})
         PROVE  opIndexes'[t][op] # 0 \/ NoOp \in Granters(t, op)
    <3>1. op \in Ops
      BY <1>0 DEF TypeOK, AllOps
    <3>2. CASE op \in need[t]
      <4>1. op \in Granted(t, from)
        BY <2>3, <3>2 DEF Granted, Granters
      <4> QED
        BY <2>1, <2>8, <3>1, <4>1
    <3>3. CASE op \notin need[t]
      <4>1. opIndexes[t][op] # 0 \/ NoOp \in Granters(t, op)
        BY <1>0, <3>3 DEF CallInv, PointedInv
      <4> QED
        BY <2>1, <2>8, <3>1, <4>1
    <3> QED
      BY <3>2, <3>3
  <2>11. PointedInv(t)'
    BY <1>1, <1>5, <2>9, <2>10, SameShown DEF PointedInv
  <2> QED
    BY <1>6, <2>4, <2>6, <2>11 DEF CallInv
<1> QED
  BY <1>7, <1>8

\* All operations that the macaroons show have been asked about, so that with
\* NoOp nothing is left that could grant what is needed.
LEMMA CheckNoOpKeeps ==
  ASSUME DecisionInv, NEW t \in Threads, CheckNoOp(t)
  PROVE  CallInv(t)'
<1>0. /\ TypeOK /\ VerifiedInv /\ CallInv(t) /\ pc[t] = "indirect" /\ pc[t] \in Running
      /\ TakeGrants(t, NoOp) /\ asked[t] = AuthOps
  BY DEF DecisionInv, CheckNoOp, Running
<1>1. UNCHANGED <<macaroons, verified, ops, policy, ok, used, opIndexes, asked, answer>>
  BY DEF CheckNoOp, checkerVars
<1>2. pc'[t] = "decide"
  BY <1>0 DEF CheckNoOp, Goto, TypeOK
<1>3. AuthOps' = AuthOps
  BY <1>1 DEF AuthOps
<1>5. answer[t].kind = "none"
  BY <1>0 DEF CallInv, FreshInv
<1>6. FreshInv(t)' /\ Justified(t)'
  BY <1>1, <1>2, <1>5 DEF FreshInv, Justified, Starts
<1>7. /\ need'[t] = {op \in need[t] : NoOp \notin Granters(t, op)}
      /\ \A op \in ops[t] \ need'[t] :
           \/ Direct(t, op)
           \/ \E f \in Granters(t, op) : f \in Charged(t, op) => <<f, op>> \in caveats'[t]
      /\ \A grant \in caveats'[t] :
           /\ grant[2] \in ops[t]
           /\ ~Direct(t, grant[2])
           /\ grant[1] \in Charged(t, grant[2])
  BY <1>0, TakeGrantsTakes
<1>8. TakenInv(t)'
  BY <1>1, <1>7, SameShown DEF TakenInv
<1>9. ASSUME NEW op \in need'[t]
      PROVE  op \in ops[t] /\ ~Direct(t, op) /\ Granters(t, op) = {}
  <2>1. op \in ops[t] /\ ~Direct(t, op) /\ Granters(t, op) \cap AuthOps = {}
    BY <1>0, <1>7, <1>9 DEF CallInv, NeedInv
  <2>2. Granters(t, op) \subseteq AuthOps \cup {NoOp}
    BY <1>0, Indexed DEF Granters
  <2> QED
    BY <1>7, <1>9, <2>1, <2>2
<1>10. NeedInv(t)'
  <2>1. asked'[t] \subseteq AuthOps'
    BY <1>0, <1>1, <1>3
  <2> QED
    BY <1>1, <1>9, <2>1, SameShown DEF NeedInv
<1>11. ASSUME NEW op \in ops[t] \ (need'[t] \cup {NoOp})
       PROVE  opIndexes[t][op] # 0 \/ NoOp \in Granters(t, op)
  BY <1>0, <1>7 DEF CallInv, PointedInv
<1>12. PointedInv(t)'
  <2>1. \A op \in Ops : opIndexes[t][op] # 0 => Authorizes(t, opIndexes[t][op], op)
    BY <1>0 DEF CallInv, PointedInv
  <2> QED
    BY <1>1, <1>5, <1>11, <2>1, SameShown DEF PointedInv, Authorizes
<1> QED
  BY <1>6, <1>8, <1>10, <1>12 DEF CallInv

LEMMA CheckErrorKeeps ==
  ASSUME DecisionInv, NEW t \in Threads, CheckError(t)
  PROVE  CallInv(t)'
<1>0. TypeOK /\ CallInv(t) /\ pc[t] = "indirect"
  BY DEF DecisionInv, CheckError
<1>1. /\ pc'[t] = "idle" /\ answer'[t].kind = "error"
      /\ UNCHANGED <<macaroons, ops, policy, ok, used, opIndexes, need, asked, caveats>>
  BY <1>0 DEF CheckError, Return, Goto, checkerVars, TypeOK
<1>2. FreshInv(t)' /\ NeedInv(t)' /\ TakenInv(t)' /\ Justified(t)'
  BY <1>1 DEF FreshInv, NeedInv, TakenInv, Justified, Starts
<1>3. PointedInv(t)'
  BY <1>0, <1>1, SameShown DEF CallInv, PointedInv, Authorizes
<1> QED
  BY <1>2, <1>3 DEF CallInv

LEMMA DecideKeeps ==
  ASSUME DecisionInv, NEW t \in Threads, Decide(t)
  PROVE  CallInv(t)'
<1>0. TypeOK /\ CallInv(t) /\ pc[t] \in {"indirect", "decide"} /\ (pc[t] = "indirect" => need[t] = {})
  BY DEF DecisionInv, Decide
<1>1. UNCHANGED <<macaroons, ops, policy, ok, used, opIndexes, need, asked, caveats>>
  BY DEF Decide, checkerVars
<1>2. pc'[t] = "idle"
  BY <1>0 DEF Decide, Return, Goto, TypeOK
<1>3. \/ need[t] = {} /\ caveats[t] = {} /\ answer'[t].kind = "allowed"
      \/ need[t] # {} /\ answer'[t].kind = "denied"
      \/ need[t] = {} /\ caveats[t] # {} /\ answer'[t].kind = "discharge"
  <2>1. \A kind, os : Return(t, kind, os) => answer'[t].kind = kind
    BY <1>0 DEF Return, TypeOK
  <2> QED
    BY <2>1 DEF Decide
<1>4. FreshInv(t)' /\ NeedInv(t)' /\ TakenInv(t)'
  BY <1>2 DEF FreshInv, NeedInv, TakenInv, Starts
<1>5. PointedInv(t)'
  BY <1>0, <1>1, <1>3, SameShown DEF CallInv, PointedInv, Authorizes
<1>6. /\ \A op \in ops[t] \ need[t] :
           \/ Direct(t, op)
           \/ \E from \in Granters(t, op) :
                from \in Charged(t, op) => <<from, op>> \in caveats[t]
      /\ \A grant \in caveats[t] :
           /\ grant[2] \in ops[t]
           /\ ~Direct(t, grant[2])
           /\ grant[1] \in Charged(t, grant[2])
      /\ \A op \in need[t] : op \in ops[t] /\ ~Direct(t, op)
      /\ pc[t] = "decide" => \A op \in need[t] : Granters(t, op) = {}
  BY <1>0 DEF CallInv, NeedInv, TakenInv
<1>7. answer'[t].kind = "allowed" => \A op \in ops[t] : Direct(t, op) \/ Granters(t, op) # Charged(t, op)
  BY <1>3, <1>6
<1>8. answer'[t].kind = "denied" => \E op \in ops[t] : ~Direct(t, op) /\ Granters(t, op) = {}
  BY <1>0, <1>3, <1>6
<1>9. answer'[t].kind = "discharge" =>
        /\ \A op \in ops[t] : Direct(t, op) \/ Granters(t, op) # {}
        /\ \E op \in ops[t] : ~Direct(t, op) /\ Charged(t, op) # {}
  BY <1>3, <1>6
<1>10. Justified(t)'
  BY <1>1, <1>7, <1>8, <1>9, SameShown DEF Justified
<1> QED
  BY <1>4, <1>5, <1>10 DEF CallInv

-----------------------------------------------------------------------------
(* All together.                                                           *)

LEMMA DecisionInit == Init => DecisionInv
<1> SUFFICES ASSUME Init PROVE DecisionInv
  OBVIOUS
<1>1. TypeOK
  BY AuthTypeInit
<1>2. VerifiedInv
  BY DEF Init, VerifiedInv, Running, Answers, NoAnswer
<1>3. ASSUME NEW t \in Threads PROVE CallInv(t)
  <2>1. /\ pc[t] = "idle" /\ answer[t].kind = "none" /\ ops[t] = {}
        /\ \A op \in Ops : opIndexes[t][op] = 0
    BY DEF Init, NoAnswer
  <2> QED
    BY <2>1 DEF CallInv, FreshInv, NeedInv, TakenInv, PointedInv, Justified, Starts
<1> QED
  BY <1>1, <1>2, <1>3 DEF DecisionInv

LEMMA DecisionStep ==
  ASSUME DecisionInv, NEW t \in Threads, Step(t)
  PROVE  DecisionInv'
<1>1. TypeOK'
  BY AuthTypeStep DEF DecisionInv
<1>2. VerifiedInv'
  BY VerifiedStep
<1>3. CallInv(t)'
  BY InitOnceKeeps, InitErrorKeeps, NewAllowContextKeeps, AllowedKeeps, CheckDirectKeeps,
     CheckIndirectKeeps, CheckNoOpKeeps, CheckErrorKeeps, DecideKeeps DEF Step
<1>4. ASSUME NEW u \in Threads PROVE CallInv(u)'
  BY <1>3, OtherCalls
<1> QED
  BY <1>1, <1>2, <1>4 DEF DecisionInv

LEMMA DecisionStutter == DecisionInv /\ UNCHANGED authVars => DecisionInv'
<1> SUFFICES ASSUME DecisionInv, UNCHANGED authVars PROVE DecisionInv'
  OBVIOUS
<1>1. TypeOK' /\ VerifiedInv'
  BY AuthTypeStutter DEF DecisionInv, VerifiedInv, VerifyMacaroon, authVars
<1>2. ASSUME NEW t \in Threads PROVE CallInv(t)'
  BY SameCall DEF DecisionInv, authVars
<1> QED
  BY <1>1, <1>2 DEF DecisionInv

LEMMA DecisionNext == DecisionInv /\ [Next]_authVars => DecisionInv'
<1> SUFFICES ASSUME DecisionInv, [Next]_authVars PROVE DecisionInv'
  OBVIOUS
<1>1. ASSUME NEW t \in Threads, Start(t) PROVE DecisionInv'
  <2>1. PICK p \in Policies : \/ \E os \in SUBSET AllOps : Call(t, "init allow", os, p)
                             \/ Call(t, "init allowed", {}, p)
    BY <1>1 DEF Start
  <2>2. p \in Policy
    BY AuthCheckerAssumption DEF Policy
  <2>3. "init allow" \in Starts /\ "init allowed" \in Starts /\ {} \in SUBSET AllOps
    BY DEF Starts
  <2> QED
    BY <2>1, <2>2, <2>3, CallStarts
<1>2. ASSUME NEW t \in Threads, Step(t) PROVE DecisionInv'
  BY <1>2, DecisionStep
<1>3. CASE UNCHANGED authVars
  BY <1>3, DecisionStutter
<1> QED
  BY <1>1, <1>2, <1>3 DEF Next

\* At every point of every call DecisionInv holds: what a call has found, and
\* what it still needs, are what the request shows (checkDirect and
\* checkIndirect in checker.go).
THEOREM Decisions == Spec => []DecisionInv
<1> QED
  BY DecisionInit, DecisionNext, PTL DEF Spec

\* An AuthChecker's variables keep their types.
THEOREM TypeCorrect == Spec => []TypeOK
<1>1. DecisionInv => TypeOK
  BY DEF DecisionInv
<1> QED
  BY <1>1, Decisions, PTL

\* Whatever the order in which the indexes are gone through, and whatever the
\* other calls do, Allow allows, denies and asks for discharges only for what
\* the request really shows and the policy really grants.
THEOREM DecisionsJustified == Spec => []DecisionJustified
<1>1. DecisionInv => DecisionJustified
  BY DEF DecisionInv, CallInv, DecisionJustified
<1> QED
  BY <1>1, Decisions, PTL

\* An AuthInfo names for every operation a macaroon that authorizes it and is
\* marked used, so that no condition is lost to a capability derived from it.
THEOREM IndexesTrue == Spec => []IndexesJustified
<1>1. DecisionInv => IndexesJustified
  BY DEF DecisionInv, CallInv, PointedInv, IndexesJustified
<1> QED
  BY <1>1, Decisions, PTL
=============================================================================
