------------------------------ MODULE Checkers ------------------------------
(***************************************************************************)
(* First-party caveats: package bakery/checkers, and the caveatSquasher of *)
(* bakery/checker.go.                                                      *)
(*                                                                         *)
(* A text is the sequence of the words that its separators matter between: *)
(* the name of a condition is everything before its first space, so the    *)
(* name of a prefixed condition is <<"p", ":", "declared">>, and a prefix  *)
(* glued on without a colon gives <<"p", "declared">>.  The empty prefix   *)
(* is <<>>.  A namespace maps the URIs registered in it to prefixes.       *)
(***************************************************************************)
EXTENDS Integers, Sequences, SequencesExt

CONSTANT
  MaxTime    \* bound on the times of the clock and of caveats

ASSUME CheckersAssumption == MaxTime \in Nat

StdNamespace == "std"
NoNamespace == ""

CondDeclared == <<"declared">>
CondTimeBefore == <<"time-before">>
CondError == <<"error">>

\* Times of caveats; ZeroTime is the zero time.Time, before any clock.
ZeroTime == 0
Clock == 1..MaxTime

\* checkers.Caveat of a first party, and the condition it becomes.
Caveat(ns, name, arg) == [ns |-> ns, name |-> name, arg |-> arg]
FirstParty(name, arg) == Caveat(StdNamespace, name, arg)
DeclaredCaveat(key, value) == FirstParty(CondDeclared, <<key, value>>)
TimeBeforeCaveat(t) == FirstParty(CondTimeBefore, <<t>>)
ErrorCaveat == FirstParty(CondError, <<>>)

Condition(name, arg) == [name |-> name, arg |-> arg]

-----------------------------------------------------------------------------
(* Namespaces.                                                             *)

\* legacyNamespace: the standard namespace as pre-version 3 macaroons use it.
LegacyNamespace == [uri \in {StdNamespace} |-> <<>>]

\* Registering a URI again is a no-op.
RegisterURI(ns, uri, prefix) ==
  IF uri \in DOMAIN ns THEN ns
  ELSE [u \in DOMAIN ns \cup {uri} |-> IF u = uri THEN prefix ELSE ns[u]]

\* The prefix of an unregistered URI is empty.
Resolve(ns, uri) == IF uri \in DOMAIN ns THEN ns[uri] ELSE <<>>

ConditionWithPrefix(prefix, name) ==
  IF prefix = <<>> THEN name ELSE prefix \o <<":">> \o name

\* Mutated: a caveat of an unregistered namespace keeps its condition.
ResolveCaveatUnregistered(ns, cav) ==
  IF cav.ns = NoNamespace THEN Condition(cav.name, cav.arg)
  ELSE Condition(ConditionWithPrefix(Resolve(ns, cav.ns), cav.name), cav.arg)

\* A caveat of an unregistered namespace becomes one that is never satisfied.
ResolveCaveat(ns, cav) ==
  IF cav.ns = NoNamespace THEN Condition(cav.name, cav.arg)
  ELSE LET c == IF cav.ns \in DOMAIN ns THEN cav ELSE ErrorCaveat
       IN  Condition(ConditionWithPrefix(Resolve(ns, c.ns), c.name), c.arg)

-----------------------------------------------------------------------------
(* Checkers.  Those registered are a set of pairs of URI and name; a       *)
(* service whose registrations collide panics and never runs.              *)

StdCheckers == {StdNamespace} \X {CondTimeBefore, CondDeclared, CondError}

FullName(ns, checker) == ConditionWithPrefix(Resolve(ns, checker[1]), checker[2])

Registrable(ns, registered) ==
  /\ \A c \in registered : c[1] \in DOMAIN ns
  /\ \A c, d \in registered : FullName(ns, c) = FullName(ns, d) => c = d

\* InferDeclaredFromConditions.  The condition looked for is the prefix and
\* "declared", with nothing between them.
DeclaredCond(ns) == Resolve(ns, StdNamespace) \o CondDeclared

Declarations(ns, conds) == {cond \in ToSet(conds) : cond.name = DeclaredCond(ns) /\ Len(cond.arg) = 2}

\* The value of each key, without the keys that a later caveat gives another
\* value than the first.
InferDeclared(ns, conds) ==
  LET values(key) == {cond.arg[2] : cond \in {d \in Declarations(ns, conds) : d.arg[1] = key}}
      keys == {cond.arg[1] : cond \in Declarations(ns, conds)}
      conflicts == {key \in keys : \E v, w \in values(key) : v # w}
  IN  [key \in keys \ conflicts |-> CHOOSE v \in values(key) : TRUE]

CheckDeclared(ns, conds, arg) ==
  LET info == InferDeclared(ns, conds)
  IN  /\ Len(arg) = 2
      /\ arg[1] \in DOMAIN info
      /\ info[arg[1]] = arg[2]

\* A time that does not parse is no argument.
CheckTimeBefore(now, arg) == arg # <<>> /\ now < arg[1]

\* CheckFirstPartyCaveat: the check registered under the condition's name,
\* called with the conditions of all macaroons and the clock of the request.
\* The checks of other namespaces than the standard one are the service's
\* own; here they accept.
CheckFirstPartyCaveat(ns, registered, conds, now, cond) ==
  \E c \in registered :
    /\ FullName(ns, c) = cond.name
    /\ c[1] = StdNamespace =>
         \/ c[2] = CondDeclared /\ CheckDeclared(ns, conds, cond.arg)
         \/ c[2] = CondTimeBefore /\ CheckTimeBefore(now, cond.arg)

-----------------------------------------------------------------------------
(* The conditions of a capability: caveatSquasher keeps what it does not   *)
(* take for a time-before caveat, and of those the earliest.  A set, as    *)
(* final sorts the conditions and removes duplicates.                      *)

IsTimeBefore(cond) == cond.name = CondTimeBefore /\ cond.arg \notin {<<>>, <<ZeroTime>>}

\* Mutated: the latest of the time-before caveats.
SquashLatest(conds) ==
  LET times == {cond.arg[1] : cond \in {c \in conds : IsTimeBefore(c)}}
  IN  {c \in conds : ~IsTimeBefore(c)}
      \cup {Condition(CondTimeBefore, <<t>>) : t \in {t \in times : \A u \in times : u <= t}}

Squash(conds) ==
  LET times == {cond.arg[1] : cond \in {c \in conds : IsTimeBefore(c)}}
  IN  {c \in conds : ~IsTimeBefore(c)}
      \cup {Condition(CondTimeBefore, <<t>>) : t \in {t \in times : \A u \in times : t <= u}}
=============================================================================
