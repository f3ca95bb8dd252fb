--------------------------- MODULE RootKeyService ---------------------------
(***************************************************************************)
(* What a bakery.RootKeyStore promises its callers (bakery/store.go) when  *)
(* it is made with a storage policy (dbrootkeystore.Policy): no cache, no  *)
(* database, no mutex.  A call is pending from the instant it is made and  *)
(* is answered in one step.                                                *)
(*                                                                         *)
(*   RootKey  answers with a key that fits the caller's policy at some     *)
(*            instant between the call and the answer;                     *)
(*   Get      answers with exactly the key that was issued under that id   *)
(*            while it has not expired, and "not found" otherwise;         *)
(*   either   may fail, and a failure changes nothing.                     *)
(*                                                                         *)
(* RootKeyStore.tla is shown to implement this module.                     *)
(***************************************************************************)
EXTENDS RootKeys

VARIABLES
  now,      \* the clock
  issued,   \* every key RootKey has answered with so far
  call,     \* [Threads -> Call]: the pending call of each caller
  reply     \* [Threads -> Reply]: the answer to the last one

serviceVars == <<now, issued, call, reply>>

-----------------------------------------------------------------------------
Init ==
  /\ now = 0
  /\ issued = {}
  /\ call = [t \in Threads |-> NoCall]
  /\ reply = [t \in Threads |-> NoReply]

Tick ==
  /\ now < MaxTime
  /\ now' = now + 1
  /\ UNCHANGED <<issued, call, reply>>

\* A client can only know the id of a key that was issued, or make one up.
CallGet(t, id) ==
  /\ call[t] = NoCall
  /\ id \in BogusIds \cup {k.id : k \in issued}
  /\ call' = [call EXCEPT ![t] = [op |-> "get", id |-> id]]
  /\ reply' = [reply EXCEPT ![t] = NoReply]
  /\ UNCHANGED <<now, issued>>

CallRootKey(t, p) ==
  /\ call[t] = NoCall
  /\ call' = [call EXCEPT ![t] = [op |-> "rootkey", policy |-> p, start |-> now]]
  /\ reply' = [reply EXCEPT ![t] = NoReply]
  /\ UNCHANGED <<now, issued>>

Answer(t, kind, k) ==
  /\ call' = [call EXCEPT ![t] = NoCall]
  /\ reply' = [reply EXCEPT ![t] = [kind |-> kind, key |-> k]]

AnswerGet(t) ==
  /\ call[t].op = "get"
  /\ \/ \E k \in issued :
          /\ k.id = call[t].id
          /\ now <= k.expires
          /\ Answer(t, "key", k)
     \/ /\ \A k \in issued : k.id = call[t].id => now > k.expires
        /\ Answer(t, "notfound", ZeroKey)
  /\ UNCHANGED <<now, issued>>

AnswerRootKey(t) ==
  /\ call[t].op = "rootkey"
  /\ \E id \in Ids, created \in 0 .. now, at \in call[t].start .. now :
       \E expires \in at .. at + call[t].policy.exp + call[t].policy.gen :
         LET k == [id |-> id, created |-> created, expires |-> expires]
         IN  /\ IsValidWithPolicy(k, call[t].policy, at)
             /\ \A j \in issued : j.id = id => j = k
             /\ issued' = issued \cup {k}
             /\ Answer(t, "key", k)
  /\ UNCHANGED now

AnswerError(t) ==
  /\ call[t] # NoCall
  /\ Answer(t, "error", ZeroKey)
  /\ UNCHANGED <<now, issued>>

\* The processes of some callers stop: their calls are never answered.
Crash(T) ==
  /\ call' = [t \in Threads |-> IF t \in T THEN NoCall ELSE call[t]]
  /\ reply' = [t \in Threads |-> IF t \in T THEN NoReply ELSE reply[t]]
  /\ UNCHANGED <<now, issued>>

Next ==
  \/ Tick
  \/ \E t \in Threads :
       \/ \E id \in Ids \cup BogusIds : CallGet(t, id)
       \/ \E p \in Policies : CallRootKey(t, p)
       \/ AnswerGet(t)
       \/ AnswerRootKey(t)
       \/ AnswerError(t)
  \/ \E T \in SUBSET Threads : Crash(T)

Spec == Init /\ [][Next]_serviceVars
=============================================================================
