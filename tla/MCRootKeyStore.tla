--------------------------- MODULE MCRootKeyStore ---------------------------
(***************************************************************************)
(* Instances of RootKeyStore for TLC.                                      *)
(***************************************************************************)
EXTENDS RootKeyStore, TLC

CONSTANTS t1, t2, i1, i2, id1, bogus

OneThread == t1 :> i1
TwoThreadsOneInstance == (t1 :> i1) @@ (t2 :> i1)
TwoThreadsTwoInstances == (t1 :> i1) @@ (t2 :> i2)

\* A key is returned for 1 tick, is promised for 1 more, and so expires 2
\* ticks after it was made.
OnePolicy == {[gen |-> 1, exp |-> 1]}
\* Two policies that may share a key.
TwoPolicies == {[gen |-> 1, exp |-> 0], [gen |-> 0, exp |-> 1]}
=============================================================================
