------------------------------ MODULE MCClient ------------------------------
(***************************************************************************)
(* Values for TLC: operations of every class, two of them that need an     *)
(* authorization macaroon of their own, the Interactors of the agent and   *)
(* form packages, and third parties that do and do not support them.       *)
(***************************************************************************)
EXTENDS Client, TLC

CONSTANTS t1, t2

MCOneRequest == t1 :> {"read"}
MCRequests == (t1 :> {"read", "list"}) @@ (t2 :> {"write", "root"})

MCClass == ("list" :> "user") @@ ("read" :> "charged") @@ ("write" :> "charged")
           @@ ("root" :> "nobody")
MCOffers == {[methods |-> {}, legacy |-> TRUE],
             [methods |-> {"browser", "form"}, legacy |-> TRUE],
             [methods |-> {"agent", "form"}, legacy |-> FALSE], [methods |-> {}, legacy |-> FALSE]}
MCInteractionMethods == <<"agent", "form">>
=============================================================================
