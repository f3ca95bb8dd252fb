-------------------------- MODULE MCDischargeSlice --------------------------
(***************************************************************************)
(* Values for TLC: two third parties, of which one only knows version 2.   *)
(***************************************************************************)
EXTENDS DischargeSlice, TLC

MCVersion == ("client" :> 3) @@ ("new" :> 3) @@ ("old" :> 2)
MCVersionNew == ("client" :> 3) @@ ("new" :> 3)
=============================================================================
