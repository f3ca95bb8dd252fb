------------------------------ MODULE Promise ------------------------------
(***************************************************************************)
(* What a rendezvous promises: every discharge that is started has at most *)
(* one outcome, once and for all, and whoever is told an outcome is told   *)
(* that of some discharge.  A wait that times out tells nothing.           *)
(***************************************************************************)
EXTENDS Integers, Sequences

CONSTANTS
  Callers,     \* those who wait
  Outcomes     \* what may come of a discharge

VARIABLES
  outcome,     \* of each discharge: {}, or the set of its outcome
  told         \* what each caller was told: {}, or the set of an outcome

Init ==
  /\ outcome = <<>>
  /\ told = [c \in Callers |-> {}]

Start ==
  /\ outcome' = Append(outcome, {})
  /\ UNCHANGED told

Complete(i) ==
  /\ outcome[i] = {}
  /\ \E o \in Outcomes : outcome' = [outcome EXCEPT ![i] = {o}]
  /\ UNCHANGED told

Tell(c, i) ==
  /\ outcome[i] # {}
  /\ told' = [told EXCEPT ![c] = outcome[i]]
  /\ UNCHANGED outcome

Next ==
  \/ Start
  \/ \E i \in DOMAIN outcome : Complete(i)
  \/ \E c \in Callers, i \in DOMAIN outcome : Tell(c, i)

Spec == Init /\ [][Next]_<<outcome, told>>
=============================================================================
