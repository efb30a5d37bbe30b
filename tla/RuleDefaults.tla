---------------------------- MODULE RuleDefaults ----------------------------
(***************************************************************************)
(* How the options of an injection rule are completed (configuration.go):  *)
(* from a template, for rules of the config map, then from constants.      *)
(* Of the options, those are kept that the patch of a pod depends on:      *)
(*   technology, as in "java/otel"                                         *)
(*   attrs        injectK8SOtelResourceAttrs                               *)
(*   reservation  resourceReservation                                      *)
(*   collector    whether openTelemetryCollector names a collector         *)
(*   env          the variables users add, see Var                         *)
(***************************************************************************)
EXTENDS Integers, Sequences, SequencesExt

CONSTANTS
  Unset,        \* the option is not given (nil, or the empty string)
  NotFound      \* the rule names a template that there is none of

(* A variable, the variables its value refers to as $(name), and the         *)
(* collector endpoint in its value if there is one.                          *)
Var(name)           == [name |-> name, refs |-> {}, to |-> "none"]
VarWith(name, refs) == [name |-> name, refs |-> refs, to |-> "none"]
VarTo(name, to)     == [name |-> name, refs |-> {}, to |-> to]

(* The options of a template that the layers treat alike. *)
Options == {"attrs", "reservation", "collector"}

(* applyTemplateString, applyTemplateBool *)
applyTemplate(specific, other) == IF specific = Unset THEN other ELSE specific

(* The variables of both, by name: the last one given counts, and the        *)
(* iteration of the map puts them in any order.                              *)
mergeNameValues(specific, templated) ==
  LET given == templated \o specific
  IN  SetToSeqs({given[i] : i \in {n \in DOMAIN given :
                   \A later \in DOMAIN given :
                     later > n => given[later].name # given[n].name}})

(* Mutant of injectionRuleTemplate: an option that neither layer gives is    *)
(* left for the defaults.                                                    *)
TemplateLeavesUnset(rule, template) ==
  {[rule EXCEPT !.attrs       = applyTemplate(@, template.attrs),
                !.reservation = applyTemplate(@, template.reservation),
                !.collector   = applyTemplate(@, template.collector),
                !.env         = merged] :
     merged \in mergeNameValues(rule.env, template.env)}

(* An option that neither gives is false from here on, so that the default   *)
(* below, which is true, never applies to a rule with a template.            *)
injectionRuleTemplate(rule, template) ==
  {[rule EXCEPT !.attrs       = applyTemplate(@, applyTemplate(template.attrs, FALSE)),
                !.reservation = applyTemplate(@, template.reservation),
                !.collector   = applyTemplate(@, template.collector),
                !.env         = merged] :
     merged \in mergeNameValues(rule.env, template.env)}

injectionRuleDefaults(rule) ==
  [rule EXCEPT !.attrs       = applyTemplate(@, TRUE),
               !.reservation = applyTemplate(@, "default")]

(* A rule with a template that is not found stays as it is: the result of    *)
(* applyInjectionTemplates, which says so, is not looked at.                 *)
applyInjectionTemplates(rule) ==
  IF rule.template \in {Unset, NotFound} THEN {rule}
  ELSE injectionRuleTemplate(rule, rule.template)

(* Mutant of fromConfigMap: the members of a rule set get no defaults.       *)
ConfigMapSetsUndefaulted(rule, inSet) ==
  {IF inSet THEN r ELSE injectionRuleDefaults(r) : r \in applyInjectionTemplates(rule)}

(* Rules of the config map, alone or in a rule set (updateConfig).           *)
fromConfigMap(rule, inSet) ==
  {injectionRuleDefaults(r) : r \in applyInjectionTemplates(rule)}

(* Rules of custom resources have no templates, and members of a rule set    *)
(* get no defaults (upsertCrdInstrumentation, upsertCrdClusterInstrumentation).*)
fromCustomResource(rule, inSet) ==
  IF inSet THEN {rule} ELSE {injectionRuleDefaults(rule)}
=============================================================================
