---------------------------- MODULE MCDischarger ----------------------------
(***************************************************************************)
(* Values for TLC: one caveat of which everything may vary, by itself, and *)
(* two of the latest version together.                                     *)
(***************************************************************************)
EXTENDS Discharger

MCOther == "other"
MCBar == <<"bar">>

Raw(name, arg) == Caveat(NoNamespace, name, arg)
Other(name, arg) == Caveat(MCOther, name, arg)
Declare(value) == DeclaredCaveat("k", value)

MCGroups == {{"a"}, {"b", "c"}}
MCWanted == "a" :> <<<<2, 1>>, <<1, 2>>, <<1, 1>>, <<1, 2>>>> @@ "b" :> <<<<1, 1>>>> @@ "c" :> <<<<1, 1>>>>
MCNeeds == "a" :> {<<>>, <<"k">>} @@ "b" :> {<<>>} @@ "c" :> {<<>>}
\* A client without a header, one of each version, and one of the future.
MCHeaders ==
  "a" :> {{}} \cup {{v} : v \in 1..LatestVersion + 1} @@ "b" :> {{LatestVersion}} @@ "c" :> {{LatestVersion}}
MCMaxDischarges == "a" :> 1 @@ "b" :> 2 @@ "c" :> 1

MCAnswers ==
  "a" :> {<<>>,
          <<Declare("v")>>,
          <<Declare("v"), Declare("w"), Declare("v")>>,
          <<Raw(CondDeclared, <<"k", "w">>)>>,
          <<Raw(CondDeclared, <<>>)>>,
          <<Raw(<<"p", ":", "time-before">>, <<MaxTime>>)>>,
          <<TimeBeforeCaveat(MaxTime + 1), TimeBeforeCaveat(MaxTime)>>,
          <<TimeBeforeCaveat(ZeroTime)>>,
          <<Other(MCBar, <<>>)>>,
          <<Other(CondTimeBefore, <<MaxTime>>)>>,
          <<Other(CondDeclared, <<"k", "v">>)>>,
          <<Raw(MCBar, <<>>)>>}
  @@
  "b" :> {<<TimeBeforeCaveat(MaxTime + 1)>>}
  @@
  "c" :> {<<>>}

MCAdditions == "a" :> {<<>>, <<Raw(CondDeclared, <<"k", "x">>)>>} @@ "b" :> {<<>>} @@ "c" :> {<<>>}

MCLegacyOps == <<<<3, 1>>>>

\* With the standard namespace without and with a prefix, and another one.
Std(prefix) == RegisterURI(<<>>, StdNamespace, prefix)
MCNamespaces ==
  {Std(<<>>), RegisterURI(Std(<<>>), MCOther, <<"o">>), RegisterURI(Std(<<"p">>), MCOther, <<>>)}

\* The other one has checks of its own, one of them, where it has a prefix to
\* tell them apart, with the name of a standard one.
MCOwn ==
  [namespace \in MCNamespaces |->
     IF MCOther \notin DOMAIN namespace THEN {}
     ELSE {MCOther} \X IF namespace[MCOther] = <<>> THEN {MCBar} ELSE {MCBar, CondDeclared}]
=============================================================================
