------------------------------ MODULE RootKeys ------------------------------
(***************************************************************************)
(* The data of package dbrootkeystore: root keys, storage policies, and    *)
(* the calls made to a RootKeyStore and their answers.  Shared by the      *)
(* abstract RootKeyService and the detailed RootKeyStore.                  *)
(*                                                                         *)
(* A key's secret bytes are determined by its id (both are drawn at random *)
(* by one generateKey), so a key record stands for both.                   *)
(***************************************************************************)
EXTENDS Integers

CONSTANTS
  Threads,       \* callers: goroutines of any instance of the service
  Ids,           \* the ids generateKey may draw
  BogusIds,      \* ids a client may present that were never drawn
  NoId,          \* the nil id of the zero RootKey
  PolicyParams,  \* the Policy values given to NewStore
  MaxTime        \* bound on the clock

ASSUME RootKeysAssumption ==
  /\ Ids \cap BogusIds = {}
  /\ NoId \notin Ids \cup BogusIds
  /\ PolicyParams \subseteq [gen : Nat, exp : Nat]
  /\ MaxTime \in Nat

Key == [id : Ids, created : Nat, expires : Nat]

\* The zero RootKey{}: what the cache holds for an id known not to exist,
\* and what the backing answers when it found nothing.
ZeroKey == [id |-> NoId, created |-> 0, expires |-> 0]

\* NewStore: a policy without a GenerateInterval gets its ExpiryDuration.
NewStorePolicy(p) == IF p.gen = 0 THEN [p EXCEPT !.gen = p.exp] ELSE p

Policies == {NewStorePolicy(p) : p \in PolicyParams}

IsValid(k) == k.id # NoId

IsValidWithPolicy(k, p, at) ==
  /\ IsValid(k)
  /\ k.created >= at - p.gen
  /\ k.expires >= at + p.exp
  /\ k.expires <= at + p.exp + p.gen

NoCall == [op |-> "none"]
GetCall == [op : {"get"}, id : Ids \cup BogusIds]
RootKeyCall == [op : {"rootkey"}, policy : Policies, start : Nat]
Call == {NoCall} \cup GetCall \cup RootKeyCall

Reply == [kind : {"none", "key", "notfound", "error"}, key : Key \cup {ZeroKey}]
NoReply == [kind |-> "none", key |-> ZeroKey]
=============================================================================
