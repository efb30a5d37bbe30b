--------------------------- MODULE MCPodAdmission ---------------------------
(* Small instances of PodAdmission for TLC. *)
EXTENDS PodAdmission

CONSTANTS dev, kubeSystem

Complete(p)  == [priority |-> p, hasRules |-> TRUE, hasMatch |-> TRUE,
                  namespaceRegex |-> Cluster]
WithoutMatch == [priority |-> 1, hasRules |-> TRUE, hasMatch |-> FALSE,
                  namespaceRegex |-> Cluster]

TwoOwnAndCluster == {<<dev, "a">>, <<dev, "b">>, <<Cluster, "c">>}
OneOwn        == {<<dev, "a">>}
OneCluster    == {<<Cluster, "c">>}

OneSpec         == {Complete(1)}

(* The second ends every call of a pod that tries it. *)
AnyMatch        == {Complete(1), WithoutMatch}
ThreePriorities == {Complete(p) : p \in 1..3}

App     == <<dev, "app">>
OneApp  == {App}
AppAndSystem == {App, <<kubeSystem, "sys">>}

(* The application's pod fits every rule, or those of the middle and the     *)
(* highest priority value.                                                   *)
FitsAll  == OneApp \X KnownSpecs
FitsSome == OneApp \X {spec \in KnownSpecs : spec.priority \in {2, 3}}

Value(name, spec) == [name |-> <<Values, name>>, spec |-> spec]
ValidMap   == [controller |-> "c1", rules |-> <<Value("x", Complete(1))>>, valid |-> TRUE]
NoRulesMap == [controller |-> "c2", rules |-> <<>>, valid |-> TRUE]
BrokenMap  == [controller |-> "c3", rules |-> <<Value("y", Complete(1))>>, valid |-> FALSE]

(* Its second rule fits, its first does not. *)
TwoRulesMap == [controller |-> "c1", valid |-> TRUE,
                rules |-> <<Value("x", Complete(1)), Value("y", Complete(2))>>]

OneMap   == {ValidMap}
TwoRules == {TwoRulesMap}
AnyMap  == {ValidMap, NoRulesMap, BrokenMap}
=============================================================================
