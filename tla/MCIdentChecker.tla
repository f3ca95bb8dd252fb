--------------------------- MODULE MCIdentChecker ---------------------------
(***************************************************************************)
(* Values for TLC: a login macaroon of alice and one for reading, whose    *)
(* holder may write by the OpsAuthorizer; bob may be found in a context.   *)
(***************************************************************************)
EXTENDS IdentChecker, TLC

MCMacaroonOps == {{"login"}, {"read"}}
MCPolicies == {[grants |-> {}, charged |-> {}],
               [grants |-> {<<"read", "write">>}, charged |-> {}]}
MCSomeRequests == {{"login"}, {"write"}, {"login", "write"}}
MCDeclares == <<"alice">>
MCAcl == ("alice" :> {"write"}) @@ ("bob" :> {}) @@ ("nobody" :> {})
MCContexts == {"bob", "caveats", "failure"}
=============================================================================
