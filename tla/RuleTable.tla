------------------------------ MODULE RuleTable ------------------------------
(***************************************************************************)
(* A list of instrumentation rules (InstrumentationConfig in               *)
(* configuration.go): what the registry keeps for one namespace, or for    *)
(* the cluster-wide rules.  A rule is a record [name, spec]; its name is   *)
(* "namespace/name" or "*cluster*/name" in the code and the object's key   *)
(* here.  Of a spec only the field `priority' matters to this module.      *)
(*                                                                         *)
(* Everything is a constant operator, so that TLC can run the operators on *)
(* small lists and TLAPS can prove facts about them for every list.        *)
(***************************************************************************)
EXTENDS Integers, SequencesExt

(* Priorities never fall from one rule to the next. *)
Ascending(rules) ==
  \A i, j \in DOMAIN rules :
    i < j => rules[i].spec.priority <= rules[j].spec.priority

(* No two rules of the list have one name. *)
NamesDistinct(rules) ==
  \A i, j \in DOMAIN rules : rules[i].name = rules[j].name => i = j

IsNamed(rules, name) == \E i \in DOMAIN rules : rules[i].name = name

-----------------------------------------------------------------------------

(* slices.SortFunc sorts by ascending priority and promises nothing about  *)
(* rules of equal priority: any ascending rearrangement may be the result. *)
SortFunc(rules) ==
  { sorted \in { [i \in 1..Len(rules) |-> rules[p[i]]] :
                   p \in Bijection(1..Len(rules), 1..Len(rules)) } : Ascending(sorted) }

(* The position of the first rule of that name, as a set: empty if none.   *)
FirstNamed(rules, name) ==
  { i \in DOMAIN rules :
      /\ rules[i].name = name
      /\ \A j \in 1..(i - 1) : rules[j].name # name }

(* Mutant of UpsertSpec: the loop that looks for the name is gone.          *)
UpsertSpecAlwaysAppends(rules, rule) == SortFunc(Append(rules, rule))

(* upsertInstrumentationSpecInConfig: replace the first rule of that name, *)
(* or append, then sort.  The set of the lists that may result.            *)
UpsertSpec(rules, rule) ==
  LET found == FirstNamed(rules, rule.name)
  IN  IF found = {}
        THEN SortFunc(Append(rules, rule))
        ELSE SortFunc([rules EXCEPT ![CHOOSE i \in found : TRUE] = rule])

(* Mutant of DeleteSpec: the rules after the deleted one are not appended.  *)
DeleteSpecTruncates(rules, name) ==
  IF IsNamed(rules, name)
    THEN SubSeq(rules, 1, (CHOOSE i \in FirstNamed(rules, name) : TRUE) - 1)
    ELSE rules

(* deleteInstrumentationSpecInConfig: drop the first rule of that name.    *)
DeleteSpec(rules, name) ==
  LET found == FirstNamed(rules, name)
  IN  IF found = {} THEN rules
                    ELSE RemoveAt(rules, CHOOSE i \in found : TRUE)
=============================================================================
