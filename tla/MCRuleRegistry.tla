--------------------------- MODULE MCRuleRegistry ---------------------------
(* Small instances of RuleRegistry for TLC. *)
EXTENDS RuleRegistry

CONSTANTS dev, kubeSystem

(* One object of each kind, and one where the webhook does not look: the two *)
(* workers and the webhook interleave.                                       *)
OneOfEachKind == {<<dev, "a">>, <<kubeSystem, "k">>, <<Cluster, "c">>}

(* Two objects whose rules share a list. *)
TwoInOneList == {<<dev, "a">>, <<dev, "b">>}
OneKey       == {<<dev, "a">>}

Complete(p)   == [priority |-> p, hasRules |-> TRUE, hasMatch |-> TRUE,
                  namespaceRegex |-> Cluster]
RuleSetOnly   == [priority |-> 1, hasRules |-> FALSE, hasMatch |-> TRUE,
                  namespaceRegex |-> Cluster]
TwoPriorities == {Complete(1), Complete(2)}

(* A rule with an injectionRuleSet only: legal, and it ends the process. *)
AnySpec         == TwoPriorities \cup {RuleSetOnly}
WithRuleSetOnly == {RuleSetOnly}
=============================================================================
