----------------------------- MODULE Rendezvous -----------------------------
(***************************************************************************)
(* bakerytest.Rendezvous: discharges that were started for third-party     *)
(* caveats and wait for somebody to complete them.  Each method is one     *)
(* step: the map and the completion are under mu, and the fields that      *)
(* Await reads after it are not written again once done is closed.         *)
(***************************************************************************)
EXTENDS Integers, Sequences

VARIABLE
  waiting     \* the futures, by discharge id (from 1)

\* info is the id and the caveat information that the discharge is for.
NewDischarge(info) ==
  waiting' = Append(waiting, [info |-> info, done |-> FALSE, caveats |-> <<>>, err |-> FALSE])

Completed(future, caveats, err) ==
  [future EXCEPT !.done = TRUE, !.caveats = caveats, !.err = err]

\* Mutated: done is not closed.
DischargeDoneUnclosed(i, caveats, err) ==
  /\ ~waiting[i].done
  /\ waiting' = [waiting EXCEPT ![i].caveats = caveats, ![i].err = err]

\* Mutated: completed a second time.
DischargeDoneTwice(i, caveats, err) ==
  waiting' = [waiting EXCEPT ![i] = Completed(@, caveats, err)]

\* dischargeDone, by DischargeComplete or DischargeFailed.  A second call
\* panics in its handler and changes nothing.
DischargeDone(i, caveats, err) ==
  /\ ~waiting[i].done
  /\ waiting' = [waiting EXCEPT ![i] = Completed(@, caveats, err)]

Outcome(i) == [caveats |-> waiting[i].caveats, err |-> waiting[i].err]

\* Mutated: the caveat ids are compared, the caveats are not.
TokenMatchesId(i, info) == i \in DOMAIN waiting /\ waiting[i].info.id = info.id

\* There is such a discharge, and it was started for the same caveat.
TokenMatches(i, info) == i \in DOMAIN waiting /\ waiting[i].info = info

\* Mutated: a token is taken before its discharge is completed.
CheckTokenEarly(i, info) == TokenMatches(i, info)

\* CheckToken: it matches, and Await with a timeout of zero finds an outcome.
CheckToken(i, info) == TokenMatches(i, info) /\ waiting[i].done

\* The outcomes that Promise promises: {} or the set of one.
Outcomes == [i \in DOMAIN waiting |-> IF waiting[i].done THEN {Outcome(i)} ELSE {}]
=============================================================================
