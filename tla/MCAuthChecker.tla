--------------------------- MODULE MCAuthChecker ---------------------------
(***************************************************************************)
(* Values for TLC: macaroons that carry any operations, and policies of at *)
(* most two grants, each charged or not.  A second grant is what makes the *)
(* order of the iteration matter; an operation never authorizes itself     *)
(* indirectly, since CheckDirect has dealt with that.                      *)
(***************************************************************************)
EXTENDS AuthChecker

MCMacaroonOps == (SUBSET Ops) \ {{}}

MCGrants == {p \in Pairs : p[1] # p[2]}
MCPolicies == UNION {{[grants |-> g, charged |-> c] : c \in SUBSET g} :
                       g \in {{x, y} : x, y \in MCGrants} \cup {{}}}
=============================================================================
