-------------------------- MODULE PodAdmissionProofs --------------------------
(* Theorems about PodAdmission, for all values of its constants. *)
EXTENDS PodAdmission, RuleFreshnessProofs, FiniteSetTheorems, WellFoundedInduction

(* Every nonempty set of positions has a first one.  The sets 0..i are finite *)
(* and strict inclusion of finite sets is well-founded.                       *)
LEMMA MinFacts ==
  ASSUME NEW S \in SUBSET Nat, S # {}
  PROVE  Min(S) \in S /\ \A j \in S : Min(S) <= j
<1> DEFINE UpTo(i) == 0..i
           T == {UpTo(i) : i \in S}
           R == StrictSubsetOrdering(Nat)
<1>1. T \subseteq FiniteSubsetsOf(Nat) /\ T # {}
  <2>1. \A i \in S : UpTo(i) \subseteq Nat /\ IsFiniteSet(UpTo(i))
    BY FS_Interval
  <2> QED BY <2>1 DEF FiniteSubsetsOf
<1>2. IsWellFoundedOn(R, FiniteSubsetsOf(Nat))
  BY FS_StrictSubsetOrderingWellFounded
<1>3. \E x \in T : \A y \in T : <<y, x>> \notin R
  <2> HIDE DEF T, R
  <2> QED BY <1>1, <1>2, WFMin
<1>4. PICK i \in S : \A j \in S : <<UpTo(j), UpTo(i)>> \notin R
  BY <1>3
<1>5. ASSUME NEW j \in S, j < i
      PROVE  FALSE
  <2>1. UpTo(j) \subseteq UpTo(i) /\ i \in UpTo(i) /\ i \notin UpTo(j)
    BY <1>5
  <2>2. <<UpTo(j), UpTo(i)>> \in R
    BY <2>1 DEF StrictSubsetOrdering
  <2> QED BY <1>4, <2>2
<1>6. \A j \in S : i <= j
  BY <1>5
<1> QED BY <1>6 DEF Min

-----------------------------------------------------------------------------
(* What may become of a pod: a call that has chosen a rule took it from the  *)
(* registry or from a valid configuration, and there is a configuration to   *)
(* apply it with: the second critical section never meets a nil pointer.     *)
PodInv(state) ==
  /\ state \in PodStates
  /\ state.at = "chosen" =>
       /\ settings # NoSettings
       /\ state.rule.name[1] = Values => OfSettings(state.rule)
  /\ state.at = "created" /\ state.why = "rule" =>
       /\ \E s \in Settings : s.controller = state.controller
       /\ state.rule.name[1] = Values => OfSettings(state.rule)

AdmissionInv ==
  /\ RegistryInv
  /\ AdmissionTypeOK
  /\ \A p \in Pods : PodInv(pod[p])

(* What a loaded configuration is. *)
LEMMA SettingsFacts ==
  ASSUME NEW s \in Settings
  PROVE  /\ s.rules \in Seq(ValuesRules)
         /\ s.controller \in {m.controller : m \in ConfigMaps}
<1>1. PICK m \in ConfigMaps : s = Loaded(m)
  BY DEF Settings
<1> QED BY <1>1, AdmissionAssumption DEF Loaded

(* The rules tried for a pod are its own namespace's, then the cluster's,    *)
(* then the config map's.                                                    *)
LEMMA CandidatesFacts ==
  ASSUME AdmissionTypeOK, settings # NoSettings, NEW p \in Pods
  PROVE  /\ registry[Scope(p)] \in Seq(Rules)
         /\ registry[Cluster] \in Seq(Rules)
         /\ settings \in Settings
         /\ settings.rules \in Seq(ValuesRules)
         /\ Candidates(p) \in Seq(Rules \cup ValuesRules)
         /\ \A i \in DOMAIN Candidates(p) :
              \/ Candidates(p)[i] \in Rules
              \/ \E j \in DOMAIN settings.rules : Candidates(p)[i] = settings.rules[j]
<1>1. Scope(p) \in Scopes /\ Cluster \in Scopes
  BY AdmissionAssumption DEF Scope, Scopes
<1>2. registry[Scope(p)] \in Seq(Rules) /\ registry[Cluster] \in Seq(Rules)
  BY <1>1 DEF AdmissionTypeOK, TypeOK
<1>3. settings \in Settings /\ settings.rules \in Seq(ValuesRules)
  BY SettingsFacts DEF AdmissionTypeOK
<1> DEFINE own == registry[Scope(p)]
           all == registry[Cluster]
           val == settings.rules
<1>4. own \o all \in Seq(Rules)
  BY <1>2
<1> HIDE DEF own, all, val
<1>5. \A x \in Seq(Rules), y \in Seq(ValuesRules) :
        /\ x \o y \in Seq(Rules \cup ValuesRules)
        /\ \A i \in DOMAIN (x \o y) :
             (x \o y)[i] \in Rules \/ \E j \in DOMAIN y : (x \o y)[i] = y[j]
  <2> TAKE x \in Seq(Rules), y \in Seq(ValuesRules)
  <2>1. x \in Seq(Rules \cup ValuesRules) /\ y \in Seq(Rules \cup ValuesRules)
    OBVIOUS
  <2>2. x \o y \in Seq(Rules \cup ValuesRules)
    BY <2>1
  <2>3. ASSUME NEW i \in DOMAIN (x \o y)
        PROVE  (x \o y)[i] \in Rules \/ \E j \in DOMAIN y : (x \o y)[i] = y[j]
    <3>1. /\ Len(x) \in Nat /\ Len(y) \in Nat
          /\ DOMAIN x = 1..Len(x) /\ DOMAIN y = 1..Len(y)
          /\ i \in 1..(Len(x) + Len(y))
      OBVIOUS
    <3>2. CASE i <= Len(x)
      BY <3>1, <3>2
    <3>3. CASE i > Len(x)
      <4>1. i - Len(x) \in DOMAIN y /\ (x \o y)[i] = y[i - Len(x)]
        BY <3>1, <3>3
      <4> QED BY <4>1
    <3> QED BY <3>1, <3>2, <3>3
  <2> QED BY <2>2, <2>3
<1>6. val \in Seq(ValuesRules)
  BY <1>3 DEF val
<1>7. /\ (own \o all) \o val \in Seq(Rules \cup ValuesRules)
      /\ \A i \in DOMAIN ((own \o all) \o val) :
           \/ ((own \o all) \o val)[i] \in Rules
           \/ \E j \in DOMAIN val : ((own \o all) \o val)[i] = val[j]
  BY <1>4, <1>5, <1>6
<1>8. Candidates(p) = (own \o all) \o val
  BY DEF Candidates, own, all, val
<1> QED BY <1>2, <1>3, <1>7, <1>8 DEF val

(* What getInstrumentationRule returns is one of the rules tried. *)
LEMMA ChosenFacts ==
  ASSUME AdmissionTypeOK, settings # NoSettings, NEW p \in Pods,
         NEW rule, rule = getInstrumentationRule(p), rule # NoRule
  PROVE  /\ rule \in Rules \cup ValuesRules
         /\ rule.name[1] = Values => OfSettings(rule)
<1> DEFINE rules == Candidates(p)
           stops == Stops(p, rules)
<1>1. /\ rules \in Seq(Rules \cup ValuesRules)
      /\ \A i \in DOMAIN rules :
           \/ rules[i] \in Rules
           \/ \E j \in DOMAIN settings.rules : rules[i] = settings.rules[j]
      /\ settings \in Settings
  BY CandidatesFacts
<1>2. stops # {} /\ rule = rules[Min(stops)]
  BY DEF getInstrumentationRule
<1> HIDE DEF rules
<1>3. stops \subseteq DOMAIN rules /\ stops \in SUBSET Nat
  BY <1>1 DEF Stops
<1>4. Min(stops) \in DOMAIN rules
  <2> HIDE DEF stops
  <2> QED BY <1>2, <1>3, MinFacts
<1>5. \A r \in Rules : r.name[1] # Values
  BY RegistryAssumption, AdmissionAssumption DEF Rules
<1>6. rule \in Rules \cup ValuesRules
  BY <1>1, <1>2, <1>4
<1>7. ASSUME rule.name[1] = Values
      PROVE  OfSettings(rule)
  BY <1>1, <1>2, <1>4, <1>5, <1>7 DEF OfSettings
<1> QED BY <1>6, <1>7

-----------------------------------------------------------------------------
LEMMA AdmissionInitInv == AdmissionInit => AdmissionInv
<1> SUFFICES ASSUME AdmissionInit PROVE AdmissionInv
  OBVIOUS
<1>1. TypeOK
  BY InitInv DEF AdmissionInit, RegistryInv
<1>2. \A p \in Pods : pod[p] = Absent
  BY DEF AdmissionInit
<1>3. 0 \in 0..MaxEdits
  BY AdmissionAssumption
<1>4. AdmissionTypeOK
  BY <1>1, <1>3 DEF AdmissionInit, AdmissionTypeOK, PodStates
<1>5. RegistryInv
  BY InitInv DEF AdmissionInit
<1> QED BY <1>2, <1>4, <1>5 DEF AdmissionInv, PodInv, Absent, PodStates

LEMMA PlainInv ==
  ASSUME NEW why \in {"kube", "none", "panic", "failed"}
  PROVE  PodInv(Plain(why))
BY DEF PodInv, Plain, PodStates

LEMMA ChoiceInv ==
  ASSUME AdmissionTypeOK, NEW p \in Pods
  PROVE  PodInv(Choice(p))
<1>1. CASE Scope(p) \in KubeNamespaces
  BY <1>1, PlainInv DEF Choice
<1>2. CASE Scope(p) \notin KubeNamespaces /\ settings = NoSettings
  BY <1>2 DEF Choice, Denied, PodInv, PodStates
<1>3. CASE Scope(p) \notin KubeNamespaces /\ settings # NoSettings
  <2> DEFINE rule == getInstrumentationRule(p)
  <2>1. CASE rule = NoRule \/ ~rule.spec.hasMatch
    BY <1>3, <2>1, PlainInv DEF Choice
  <2>2. CASE rule # NoRule /\ rule.spec.hasMatch
    <3>1. Choice(p) = Chosen(rule)
      BY <1>3, <2>2 DEF Choice
    <3>2. /\ rule \in Rules \cup ValuesRules
          /\ rule.name[1] = Values => OfSettings(rule)
      BY <1>3, <2>2, ChosenFacts
    <3> HIDE DEF rule
    <3> QED BY <1>3, <3>1, <3>2 DEF Chosen, PodInv, PodStates
  <2> QED BY <2>1, <2>2
<1> QED BY <1>1, <1>2, <1>3

LEMMA InstrumentInv ==
  ASSUME AdmissionInv, NEW p \in Pods, InCall(p)
  PROVE  PodInv(Instrumented(pod[p].rule, settings.controller))
<1>1. /\ pod[p].rule \in Rules \cup ValuesRules
      /\ pod[p].rule.name[1] = Values => OfSettings(pod[p].rule)
  <2>1. pod[p] \in PodStates /\ pod[p].at = "chosen"
    BY DEF AdmissionInv, AdmissionTypeOK, InCall
  <2> QED BY <2>1 DEF PodStates, Absent, Denied, Plain, AdmissionInv, PodInv
<1>2. settings \in Settings
  BY DEF AdmissionInv, AdmissionTypeOK, PodInv, InCall
<1>3. settings.controller \in {m.controller : m \in ConfigMaps}
  BY <1>2, SettingsFacts
<1> QED BY <1>1, <1>2, <1>3 DEF Instrumented, PodInv, PodStates

-----------------------------------------------------------------------------
(* A step that changes one pod, or none, and leaves the settings.            *)
LEMMA AdmitInv ==
  ASSUME AdmissionInv, NEW p \in Pods, NEW state, PodInv(state),
         pod' = [pod EXCEPT ![p] = state],
         UNCHANGED <<vars, configMap, unread, settings, edits>>
  PROVE  AdmissionInv'
<1>1. RegistryInv'
  BY DEF AdmissionInv, RegistryInv, TypeOK, RegistryInOrder, vars
<1>2. pod' \in [Pods -> PodStates]
  BY DEF AdmissionInv, AdmissionTypeOK, PodInv
<1>3. AdmissionTypeOK'
  BY <1>1, <1>2 DEF AdmissionInv, AdmissionTypeOK, RegistryInv
<1>4. \A q \in Pods : PodInv(pod'[q])
  BY DEF AdmissionInv, AdmissionTypeOK
<1> QED BY <1>1, <1>3, <1>4 DEF AdmissionInv, PodInv

LEMMA AdmissionNextInv == AdmissionInv /\ [AdmissionNext]_allVars => AdmissionInv'
<1> SUFFICES ASSUME AdmissionInv, [AdmissionNext]_allVars
             PROVE  AdmissionInv'
  OBVIOUS
<1> USE DEF AdmissionInv
<1>1. CASE Run /\ UNCHANGED admissionVars
  <2>1. RegistryInv'
    BY <1>1, NextInv DEF Next
  <2>2. AdmissionTypeOK'
    BY <1>1, <2>1 DEF AdmissionTypeOK, RegistryInv, admissionVars
  <2> QED BY <1>1, <2>1, <2>2 DEF PodInv, admissionVars
<1>2. CASE End /\ Forget
  <2>1. RegistryInv'
    BY <1>2, NextInv DEF Next
  <2>2. \A p \in Pods : pod'[p] = Plain("failed") \/ (~InCall(p) /\ pod'[p] = pod[p])
    BY <1>2 DEF Forget
  <2>3. \A p \in Pods : pod'[p] \in PodStates
    BY <2>2, PlainInv DEF PodInv
  <2>4. AdmissionTypeOK'
    BY <1>2, <2>1, <2>3 DEF Forget, AdmissionTypeOK, RegistryInv
  <2>5. \A p \in Pods : PodInv(pod[p])'
    BY <2>2, <2>3 DEF PodInv, InCall, Plain
  <2> QED BY <2>1, <2>4, <2>5
<1>3. ASSUME NEW m \in ConfigMaps, EditConfigMap(m)
      PROVE  AdmissionInv'
  <2>1. RegistryInv'
    BY <1>3 DEF EditConfigMap, RegistryInv, TypeOK, RegistryInOrder, vars
  <2>2. edits' \in 0..MaxEdits
    BY <1>3, AdmissionAssumption DEF EditConfigMap, AdmissionTypeOK
  <2>3. AdmissionTypeOK'
    BY <1>3, <2>1, <2>2 DEF EditConfigMap, AdmissionTypeOK, RegistryInv
  <2> QED BY <1>3, <2>1, <2>3 DEF EditConfigMap, PodInv
<1>4. CASE UpdateConfig
  <2>1. RegistryInv'
    BY <1>4 DEF UpdateConfig, RegistryInv, TypeOK, RegistryInOrder, vars
  <2>2. settings' \in Settings \cup {NoSettings}
    BY <1>4 DEF UpdateConfig, AdmissionTypeOK, Settings
  <2>3. AdmissionTypeOK'
    BY <1>4, <2>1, <2>2 DEF UpdateConfig, AdmissionTypeOK, RegistryInv
  <2>4. settings # NoSettings => settings' # NoSettings
    BY <1>4, AdmissionAssumption DEF UpdateConfig, Settings, AdmissionTypeOK
  <2> QED BY <1>4, <2>1, <2>3, <2>4 DEF UpdateConfig, PodInv
<1>5. ASSUME NEW p \in Pods, Admit(p)
      PROVE  AdmissionInv'
  BY <1>5, ChoiceInv, AdmitInv DEF Admit
<1>6. ASSUME NEW p \in Pods, Instrument(p)
      PROVE  AdmissionInv'
  BY <1>6, InstrumentInv, AdmitInv DEF Instrument
<1>7. ASSUME NEW p \in Pods, CallFails(p)
      PROVE  AdmissionInv'
  BY <1>7, PlainInv, AdmitInv DEF CallFails
<1>8. CASE UNCHANGED allVars
  BY <1>8 DEF allVars, admissionVars, vars, RegistryInv, TypeOK, RegistryInOrder,
              AdmissionTypeOK, PodInv
<1> QED BY <1>1, <1>2, <1>3, <1>4, <1>5, <1>6, <1>7, <1>8 DEF AdmissionNext

-----------------------------------------------------------------------------
(* The variables of the composition keep their types, whatever the constants *)
(* (main.go, match.go, configuration.go).                                    *)
THEOREM AdmissionTypeCorrect == AdmissionSpec => []AdmissionTypeOK
<1>1. AdmissionSpec => []AdmissionInv
  BY AdmissionInitInv, AdmissionNextInv, PTL DEF AdmissionSpec
<1>2. AdmissionInv => AdmissionTypeOK
  BY DEF AdmissionInv
<1> QED BY <1>1, <1>2, PTL

(* Whatever is edited and whenever the process ends, no pod is instrumented  *)
(* with rules or controller settings of an invalid config map (updateConfig).*)
THEOREM ValidConfigurationsOnly == AdmissionSpec => []OnlyValidConfigurationsApply
<1>1. AdmissionSpec => []AdmissionInv
  BY AdmissionInitInv, AdmissionNextInv, PTL DEF AdmissionSpec
<1>2. AdmissionInv => OnlyValidConfigurationsApply
  BY DEF AdmissionInv, OnlyValidConfigurationsApply, PodInv, IsInstrumented
<1> QED BY <1>1, <1>2, PTL

(* Pod admission only reads the registry: with it, the registry behaves as   *)
(* alone, so that every theorem about RuleRegistry holds of the composition. *)
THEOREM AdmissionKeepsRegistry == AdmissionSpec => Spec
<1>1. AdmissionInit => Init
  BY DEF AdmissionInit
<1>2. [AdmissionNext]_allVars => [Next]_vars
  <2>1. ASSUME UNCHANGED allVars
        PROVE  UNCHANGED vars
    BY <2>1 DEF allVars
  <2>2. ASSUME NEW p \in Pods, Admit(p) \/ Instrument(p) \/ CallFails(p)
        PROVE  UNCHANGED vars
    BY <2>2 DEF Admit, Instrument, CallFails
  <2>3. ASSUME NEW m \in ConfigMaps, EditConfigMap(m)
        PROVE  UNCHANGED vars
    BY <2>3 DEF EditConfigMap
  <2>4. ASSUME UpdateConfig
        PROVE  UNCHANGED vars
    BY <2>4 DEF UpdateConfig
  <2> QED BY <2>1, <2>2, <2>3, <2>4 DEF AdmissionNext, Next
<1> QED BY <1>1, <1>2, PTL DEF AdmissionSpec, Spec

(* A rule of the list that fits the pod. *)
IsFitting(p, rule) == isMatch(p, rule.spec)

(* First match by priority: if a rule of the pod's own namespace fits and    *)
(* every rule has match rules, the rule chosen is one of the namespace's,    *)
(* it fits, and none of the namespace's rules that fit has a lower priority  *)
(* value (getInstrumentationRule on lists upsertInstrumentationSpecInConfig  *)
(* sorted).                                                                  *)
THEOREM OwnRulesComeFirst ==
  ASSUME AdmissionInv, settings # NoSettings, NEW p \in Pods,
         \A i \in DOMAIN Candidates(p) : Candidates(p)[i].spec.hasMatch,
         NEW f \in DOMAIN registry[Scope(p)], IsFitting(p, registry[Scope(p)][f])
  PROVE  \E i \in DOMAIN registry[Scope(p)] :
           /\ getInstrumentationRule(p) = registry[Scope(p)][i]
           /\ IsFitting(p, registry[Scope(p)][i])
           /\ \A j \in DOMAIN registry[Scope(p)] :
                IsFitting(p, registry[Scope(p)][j]) =>
                  registry[Scope(p)][i].spec.priority <= registry[Scope(p)][j].spec.priority
<1> DEFINE own   == registry[Scope(p)]
           rules == Candidates(p)
           stops == Stops(p, rules)
           i     == Min(stops)
<1>1. /\ own \in Seq(Rules)
      /\ registry[Cluster] \in Seq(Rules)
      /\ settings.rules \in Seq(ValuesRules)
      /\ rules \in Seq(Rules \cup ValuesRules)
  BY CandidatesFacts DEF AdmissionInv
<1>2. Ascending(own)
  <2>1. Scope(p) \in Scopes
    BY AdmissionAssumption DEF Scope, Scopes
  <2> QED BY <2>1 DEF AdmissionInv, RegistryInv, RegistryInOrder
<1>3. \A j \in DOMAIN own : j \in DOMAIN rules /\ rules[j] = own[j]
  <2> DEFINE all == registry[Cluster]
             val == settings.rules
  <2>1. rules = (own \o all) \o val
    BY DEF Candidates
  <2>2. all \in Seq(Rules) /\ val \in Seq(ValuesRules)
    BY <1>1
  <2> HIDE DEF own, rules, all, val
  <2>3. /\ own \o all \in Seq(Rules)
        /\ \A j \in DOMAIN own : j \in DOMAIN (own \o all) /\ (own \o all)[j] = own[j]
    BY <1>1, <2>2
  <2> DEFINE front == own \o all
  <2>4. \A j \in DOMAIN front : j \in DOMAIN (front \o val) /\ (front \o val)[j] = front[j]
    <3>1. front \in Seq(Rules \cup ValuesRules) /\ val \in Seq(Rules \cup ValuesRules)
      BY <2>2, <2>3
    <3> HIDE DEF front
    <3> QED BY <3>1
  <2> QED BY <2>1, <2>3, <2>4
<1>4. f \in stops /\ stops \in SUBSET Nat /\ stops \subseteq DOMAIN rules
  <2>1. stops \subseteq DOMAIN rules
    BY DEF Stops
  <2>2. DOMAIN rules \subseteq Nat
    <3> HIDE DEF rules
    <3> QED BY <1>1
  <2> QED BY <1>3, <2>1, <2>2 DEF Stops, IsFitting
<1>5. i \in stops /\ \A j \in stops : i <= j
  <2> HIDE DEF stops
  <2> QED BY <1>4, MinFacts
<1>6. i \in DOMAIN own /\ i \in Nat
  <2>1. DOMAIN own = 1..Len(own) /\ Len(own) \in Nat
    BY <1>1
  <2>2. i <= f /\ i \in Nat /\ i # 0
    <3>1. DOMAIN rules = 1..Len(rules)
      <4> HIDE DEF rules
      <4> QED BY <1>1
    <3> HIDE DEF i, stops, rules
    <3> QED BY <1>4, <1>5, <3>1
  <2>3. f \in DOMAIN own
    OBVIOUS
  <2> HIDE DEF i, own
  <2> QED BY <2>1, <2>2, <2>3
<1>7. IsFitting(p, own[i]) /\ getInstrumentationRule(p) = own[i]
  <2>1. rules[i].spec.hasMatch /\ isMatch(p, rules[i].spec)
    BY <1>4, <1>5 DEF Stops
  <2>2. getInstrumentationRule(p) = rules[i]
    BY <1>4 DEF getInstrumentationRule
  <2> QED BY <1>3, <1>6, <2>1, <2>2 DEF IsFitting
<1>8. ASSUME NEW j \in DOMAIN own, IsFitting(p, own[j])
      PROVE  own[i].spec.priority <= own[j].spec.priority
  <2>1. j \in stops
    BY <1>3, <1>8 DEF Stops, IsFitting
  <2>2. i < j \/ i = j
    <3>1. j \in Nat /\ i <= j
      BY <1>4, <1>5, <2>1
    <3> HIDE DEF i
    <3> QED BY <1>6, <3>1
  <2>3. CASE i < j
    <3> HIDE DEF i, own
    <3> QED BY <1>2, <1>6, <1>8, <2>3 DEF Ascending
  <2>4. CASE i = j
    <3>1. own[i] \in Rules
      <4> HIDE DEF i, own
      <4> QED BY <1>1, <1>6
    <3>2. own[i].spec.priority \in Int
      BY <3>1, PriorityTyped DEF Rules
    <3> QED BY <2>4, <3>2
  <2> QED BY <2>2, <2>3, <2>4
<1> QED BY <1>6, <1>7, <1>8

-----------------------------------------------------------------------------
(* When nothing is pending, the lists of the registry are those of the       *)
(* cluster's objects.                                                        *)
UpToDate == \A k \in Keys : Registered(k) = Wanted(k)

(* Where the positions of lists are in the list of all. *)
LEMMA TwoLists ==
  ASSUME NEW S, NEW a \in Seq(S), NEW b \in Seq(S)
  PROVE  /\ a \o b \in Seq(S)
         /\ Len(a) \in Nat /\ Len(b) \in Nat /\ Len(a \o b) = Len(a) + Len(b)
         /\ DOMAIN a = 1..Len(a) /\ DOMAIN b = 1..Len(b)
         /\ DOMAIN (a \o b) = 1..(Len(a) + Len(b))
         /\ \A i \in DOMAIN a : (a \o b)[i] = a[i]
         /\ \A i \in DOMAIN b : (a \o b)[Len(a) + i] = b[i]
<1>1. /\ Len(a) \in Nat /\ Len(b) \in Nat
      /\ DOMAIN a = 1..Len(a) /\ DOMAIN b = 1..Len(b)
  OBVIOUS
<1>2. /\ a \o b \in Seq(S) /\ Len(a \o b) = Len(a) + Len(b)
      /\ DOMAIN (a \o b) = 1..(Len(a) + Len(b))
      /\ \A i \in DOMAIN a : (a \o b)[i] = a[i]
      /\ \A i \in DOMAIN b : (a \o b)[Len(a) + i] = b[i]
  BY <1>1
<1> QED BY <1>1, <1>2

LEMMA ThreeLists ==
  ASSUME NEW S, NEW a \in Seq(S), NEW b \in Seq(S), NEW c \in Seq(S),
         NEW r, r = (a \o b) \o c
  PROVE  /\ Len(a) \in Nat /\ Len(b) \in Nat /\ Len(c) \in Nat
         /\ DOMAIN a = 1..Len(a) /\ DOMAIN b = 1..Len(b) /\ DOMAIN c = 1..Len(c)
         /\ DOMAIN r = 1..(Len(a) + Len(b) + Len(c))
         /\ \A i \in DOMAIN a : r[i] = a[i]
         /\ \A i \in DOMAIN b : r[Len(a) + i] = b[i]
         /\ \A i \in DOMAIN c : r[Len(a) + Len(b) + i] = c[i]
<1> DEFINE ab == a \o b
<1>1. /\ ab \in Seq(S) /\ Len(ab) = Len(a) + Len(b)
      /\ Len(a) \in Nat /\ Len(b) \in Nat
      /\ DOMAIN a = 1..Len(a) /\ DOMAIN b = 1..Len(b) /\ DOMAIN ab = 1..(Len(a) + Len(b))
      /\ \A i \in DOMAIN a : ab[i] = a[i]
      /\ \A i \in DOMAIN b : ab[Len(a) + i] = b[i]
  BY TwoLists
<1>2. r = ab \o c
  OBVIOUS
<1> HIDE DEF ab
<1>3. ASSUME NEW l \in Seq(S)
      PROVE  /\ Len(c) \in Nat /\ DOMAIN c = 1..Len(c)
             /\ DOMAIN (l \o c) = 1..(Len(l) + Len(c))
             /\ \A i \in DOMAIN l : (l \o c)[i] = l[i]
             /\ \A i \in DOMAIN c : (l \o c)[Len(l) + i] = c[i]
  BY TwoLists
<1>4. /\ DOMAIN r = 1..(Len(ab) + Len(c))
      /\ \A i \in DOMAIN ab : r[i] = ab[i]
      /\ \A i \in DOMAIN c : r[Len(ab) + i] = c[i]
  BY <1>1, <1>2, <1>3, ZenonT(60)
<1>5. \A i \in DOMAIN a : r[i] = a[i]
  BY <1>1, <1>4
<1>6. \A i \in DOMAIN b : r[Len(a) + i] = b[i]
  BY <1>1, <1>4
<1> QED BY <1>1, <1>3, <1>4, <1>5, <1>6

LEMMA ListIsCluster ==
  ASSUME RegistryInv, UpToDate, NEW s \in Scopes
  PROVE  /\ registry[s] \in Seq(Rules) /\ Ascending(registry[s])
         /\ \A i \in DOMAIN registry[s] :
              /\ registry[s][i] \in Rules
              /\ registry[s][i].name \in Keys
              /\ Scope(registry[s][i].name) = s
              /\ Wanted(registry[s][i].name) = registry[s][i].spec
         /\ \A k \in Keys : Scope(k) = s /\ Wanted(k) # NoObject =>
              \E i \in DOMAIN registry[s] : registry[s][i].name = k
<1>1. /\ registry[s] \in Seq(Rules) /\ Ascending(registry[s])
      /\ \A i \in DOMAIN registry[s] : Scope(registry[s][i].name) = s
  BY DEF RegistryInv, TypeOK, RegistryInOrder
<1>2. ASSUME NEW i \in DOMAIN registry[s]
      PROVE  /\ registry[s][i] \in Rules
             /\ registry[s][i].name \in Keys
             /\ Wanted(registry[s][i].name) = registry[s][i].spec
  <2>1. registry[s][i] \in Rules
    BY <1>1
  <2>2. registry[s][i].name \in Keys
    BY <2>1 DEF Rules
  <2> QED BY <1>1, <2>1, <2>2, RegisteredTyped DEF UpToDate
<1>3. ASSUME NEW k \in Keys, Scope(k) = s, Wanted(k) # NoObject
      PROVE  \E i \in DOMAIN registry[s] : registry[s][i].name = k
  <2>1. Registered(k) # NoObject
    BY <1>3 DEF UpToDate
  <2> QED BY <1>3, <2>1 DEF Registered, IsNamed
<1> QED BY <1>1, <1>2, <1>3

(* The first rule of a list that fits is a first of the objects that fit.    *)
LEMMA FirstOfList ==
  ASSUME RegistryInv, UpToDate, NEW s \in Scopes, NEW p, NEW i \in DOMAIN registry[s],
         isMatch(p, registry[s][i].spec),
         \A j \in DOMAIN registry[s] : isMatch(p, registry[s][j].spec) => i <= j
  PROVE  \E k \in First(Fitting(p, s)) : registry[s][i] = [name |-> k, spec |-> Wanted(k)]
<1> DEFINE rule == registry[s][i]
           k    == rule.name
<1>1. rule \in Rules /\ k \in Keys /\ Scope(k) = s /\ Wanted(k) = rule.spec
  BY ListIsCluster
<1>2. rule.spec \in KnownSpecs /\ rule.spec # NoObject
  BY <1>1, RegistryAssumption DEF Rules
<1>3. k \in Fitting(p, s)
  BY <1>1, <1>2 DEF Fitting
<1>4. ASSUME NEW l \in Fitting(p, s)
      PROVE  Wanted(k).priority <= Wanted(l).priority
  <2>1. PICK j \in DOMAIN registry[s] : registry[s][j].name = l
    BY ListIsCluster DEF Fitting
  <2>2. Wanted(l) = registry[s][j].spec /\ isMatch(p, registry[s][j].spec)
    BY <2>1, ListIsCluster DEF Fitting
  <2>3. i <= j
    BY <2>2
  <2>4. i \in Nat /\ j \in Nat
    BY ListIsCluster
  <2>5. i = j \/ i < j
    BY <2>3, <2>4
  <2>6. CASE i = j
    <3>1. rule.spec.priority \in Int
      BY <1>2, PriorityTyped
    <3> QED BY <1>1, <2>2, <2>6, <3>1
  <2>7. CASE i < j
    BY <1>1, <2>2, <2>7, ListIsCluster DEF Ascending
  <2> QED BY <2>5, <2>6, <2>7
<1>5. rule = [name |-> k, spec |-> Wanted(k)]
  BY <1>1 DEF Rules
<1> QED BY <1>3, <1>4, <1>5 DEF First

LEMMA NoneOfList ==
  ASSUME RegistryInv, UpToDate, NEW s \in Scopes, NEW p,
         \A j \in DOMAIN registry[s] : ~isMatch(p, registry[s][j].spec)
  PROVE  First(Fitting(p, s)) = {}
<1>1. ASSUME NEW k \in Fitting(p, s)
      PROVE  FALSE
  <2>1. PICK j \in DOMAIN registry[s] : registry[s][j].name = k
    BY ListIsCluster DEF Fitting
  <2> QED BY <2>1, ListIsCluster DEF Fitting
<1> QED BY <1>1 DEF First

(* What is chosen on up-to-date lists is what the cluster calls for.         *)
LEMMA ChoiceFollows ==
  ASSUME AdmissionInv, UpToDate, NEW p \in Pods,
         Choice(p).at = "chosen" \/ Choice(p) = Plain("none")
  PROVE  Choice(p) \in CalledFor(p)
<1> DEFINE own   == registry[Scope(p)]
           all   == registry[Cluster]
           val   == settings.rules
           rules == Candidates(p)
           stops == Stops(p, rules)
           m     == Min(stops)
<1>1. settings # NoSettings /\ Scope(p) \notin KubeNamespaces
  BY DEF Choice, Denied, Plain
<1>2. Scope(p) \in Scopes /\ Cluster \in Scopes
  BY AdmissionAssumption DEF Scope, Scopes
<1>3. own \in Seq(Rules) /\ all \in Seq(Rules) /\ val \in Seq(ValuesRules)
  BY <1>1, CandidatesFacts DEF AdmissionInv
<1>4. rules \in Seq(Rules \cup ValuesRules)
  BY <1>1, CandidatesFacts DEF AdmissionInv
<1> DEFINE a == Len(own)
           b == Len(all)
           c == Len(val)
<1>5. /\ a \in Nat /\ b \in Nat /\ c \in Nat
      /\ DOMAIN own = 1..a /\ DOMAIN all = 1..b /\ DOMAIN val = 1..c
      /\ DOMAIN rules = 1..(a + b + c)
      /\ \A i \in 1..a : rules[i] = own[i]
      /\ \A i \in 1..b : rules[a + i] = all[i]
      /\ \A i \in 1..c : rules[a + b + i] = val[i]
  <2>1. /\ own \in Seq(Rules \cup ValuesRules) /\ all \in Seq(Rules \cup ValuesRules)
        /\ val \in Seq(Rules \cup ValuesRules)
    BY <1>3
  <2>2. rules = (own \o all) \o val
    BY DEF Candidates
  <2> HIDE DEF own, all, val, rules
  <2> QED BY <2>1, <2>2, ThreeLists
<1>6. stops = {i \in 1..(a + b + c) : isMatch(p, rules[i].spec) \/ ~rules[i].spec.hasMatch}
  BY <1>5 DEF Stops
<1>7. UpToDate /\ RegistryInv
  BY DEF AdmissionInv
<1>8. CalledFor(p) =
        IF First(Fitting(p, Scope(p))) # {}
          THEN {Chosen([name |-> k, spec |-> Wanted(k)]) : k \in First(Fitting(p, Scope(p)))}
        ELSE IF First(Fitting(p, Cluster)) # {}
          THEN {Chosen([name |-> k, spec |-> Wanted(k)]) : k \in First(Fitting(p, Cluster))}
        ELSE IF FittingValues(p) # {}
          THEN {Chosen(val[Min(FittingValues(p))])}
        ELSE {Plain("none")}
  BY DEF CalledFor
<1>9. CASE stops = {}
  <2>1. Choice(p) = Plain("none")
    BY <1>1, <1>9 DEF Choice, getInstrumentationRule
  <2>2. \A i \in 1..(a + b + c) : ~isMatch(p, rules[i].spec)
    BY <1>6, <1>9
  <2> HIDE DEF own, all, val, rules, stops, a, b, c
  <2>3. \A i \in DOMAIN own : ~isMatch(p, own[i].spec)
    BY <1>5, <2>2
  <2>4. \A i \in DOMAIN all : ~isMatch(p, all[i].spec)
    BY <1>5, <2>2
  <2>5. \A i \in DOMAIN val : ~isMatch(p, val[i].spec)
    BY <1>5, <2>2
  <2>6. First(Fitting(p, Scope(p))) = {} /\ First(Fitting(p, Cluster)) = {}
    BY <1>2, <1>7, <2>3, <2>4, NoneOfList DEF own, all
  <2>7. FittingValues(p) = {}
    BY <2>5 DEF FittingValues, val
  <2> QED BY <1>8, <2>1, <2>6, <2>7
<1>10. CASE stops # {}
  <2>1. m \in stops /\ \A j \in stops : m <= j
    <3>1. stops \in SUBSET Nat
      <4> HIDE DEF stops, rules, a, b, c
      <4> QED BY <1>5, <1>6
    <3> HIDE DEF stops
    <3> QED BY <1>10, <3>1, MinFacts
  <2>2. getInstrumentationRule(p) = rules[m]
    BY <1>10 DEF getInstrumentationRule
  <2>3. rules[m] \in Rules \cup ValuesRules
    <3>1. m \in DOMAIN rules
      BY <2>1 DEF Stops
    <3> HIDE DEF rules, stops, m
    <3> QED BY <1>4, <3>1
  <2>4. rules[m] # NoRule
    BY <2>3, AdmissionAssumption
  <2>5. Choice(p) = Chosen(rules[m]) /\ isMatch(p, rules[m].spec)
    <3>1. Choice(p) = IF ~rules[m].spec.hasMatch THEN Plain("panic") ELSE Chosen(rules[m])
      <4> HIDE DEF rules, m
      <4> QED BY <1>1, <2>2, <2>4 DEF Choice
    <3>2. rules[m].spec.hasMatch
      <4> HIDE DEF rules, m
      <4> QED BY <3>1 DEF Plain
    <3> HIDE DEF rules, m
    <3> QED BY <1>6, <2>1, <3>1, <3>2
  <2>6. \A j \in 1..(a + b + c) : isMatch(p, rules[j].spec) => m <= j
    BY <1>6, <2>1
  <2>7. m \in 1..(a + b + c)
    BY <1>6, <2>1
  <2> HIDE DEF own, all, val, rules, stops, a, b, c, m
  <2>8. CASE m <= a
    <3>1. m \in DOMAIN own /\ isMatch(p, own[m].spec) /\ rules[m] = own[m]
      BY <1>5, <2>5, <2>7, <2>8
    <3>2. \A j \in DOMAIN own : isMatch(p, own[j].spec) => m <= j
      BY <1>5, <2>6
    <3>3. \E k \in First(Fitting(p, Scope(p))) : own[m] = [name |-> k, spec |-> Wanted(k)]
      BY <1>2, <1>7, <3>1, <3>2, FirstOfList DEF own
    <3> QED BY <1>8, <2>5, <3>1, <3>3
  <2>9. CASE a < m
    <3>1. First(Fitting(p, Scope(p))) = {}
      <4>1. \A j \in DOMAIN own : ~isMatch(p, own[j].spec)
        BY <1>5, <2>6, <2>7, <2>9
      <4> QED BY <1>2, <1>7, <4>1, NoneOfList DEF own
    <3>2. CASE m <= a + b
      <4>1. PICK i \in DOMAIN all : m = a + i
        <5>1. m - a \in 1..b /\ m = a + (m - a)
          BY <1>5, <2>7, <2>9, <3>2
        <5> QED BY <1>5, <5>1
      <4>2. isMatch(p, all[i].spec) /\ rules[m] = all[i]
        BY <1>5, <2>5, <4>1
      <4>3. \A j \in DOMAIN all : isMatch(p, all[j].spec) => i <= j
        <5>1. ASSUME NEW j \in 1..b, isMatch(p, all[j].spec)
              PROVE  i <= j
          <6>1. a + j \in 1..(a + b + c) /\ rules[a + j] = all[j]
            BY <1>5
          <6>2. m <= a + j
            BY <2>6, <5>1, <6>1
          <6> QED BY <1>5, <4>1, <6>2
        <5> QED BY <1>5, <5>1
      <4>4. \E k \in First(Fitting(p, Cluster)) : all[i] = [name |-> k, spec |-> Wanted(k)]
        BY <1>2, <1>7, <4>2, <4>3, FirstOfList DEF all
      <4> QED BY <1>8, <2>5, <3>1, <4>2, <4>4
    <3>3. CASE a + b < m
      <4>1. First(Fitting(p, Cluster)) = {}
        <5>1. ASSUME NEW j \in 1..b, isMatch(p, all[j].spec)
              PROVE  FALSE
          <6>1. a + j \in 1..(a + b + c) /\ rules[a + j] = all[j]
            BY <1>5
          <6>2. m <= a + j
            BY <2>6, <5>1, <6>1
          <6> QED BY <1>5, <2>7, <3>3, <6>2
        <5> QED BY <1>2, <1>5, <1>7, <5>1, NoneOfList DEF all
      <4>2. PICK i \in 1..c : m = a + b + i
        <5>1. m - (a + b) \in 1..c /\ m = a + b + (m - (a + b))
          BY <1>5, <2>7, <3>3
        <5> QED BY <5>1
      <4>3. i \in FittingValues(p) /\ rules[m] = val[i]
        BY <1>5, <2>5, <4>2 DEF FittingValues, val
      <4>4. \A j \in FittingValues(p) : i <= j
        <5>1. ASSUME NEW j \in 1..c, isMatch(p, val[j].spec)
              PROVE  i <= j
          <6>1. a + b + j \in 1..(a + b + c) /\ rules[a + b + j] = val[j]
            BY <1>5
          <6>2. m <= a + b + j
            BY <2>6, <5>1, <6>1
          <6> QED BY <1>5, <4>2, <6>2
        <5> QED BY <1>5, <5>1 DEF FittingValues, val
      <4>5. Min(FittingValues(p)) = i
        <5>1. FittingValues(p) \in SUBSET Nat
          BY <1>5 DEF FittingValues, val
        <5>2. /\ Min(FittingValues(p)) \in FittingValues(p)
              /\ Min(FittingValues(p)) <= i
          BY <4>3, <5>1, MinFacts
        <5> QED BY <4>4, <5>1, <5>2
      <4> QED BY <1>8, <2>5, <3>1, <4>1, <4>3, <4>5
    <3> QED BY <1>5, <2>7, <3>2, <3>3
  <2> QED BY <1>5, <2>7, <2>8, <2>9
<1> QED BY <1>9, <1>10

(* For any lists, matches and configurations, without the faults that leave  *)
(* wrong rules behind: whenever no correction of the registry is on its way, *)
(* a pod gets what the cluster's objects call for: a rule of its own         *)
(* namespace before a cluster-wide one before one of the config map, and     *)
(* each time one of least priority value (match.go, getInstrumentationRule). *)
THEOREM ClusterIsFollowed ==
  ASSUME Faults = {}
  PROVE  AdmissionSpec => PodsFollowTheCluster
<1> DEFINE Follows == \A p \in Pods :
             Chooses(p) /\ ~(\E k \in Keys : CorrectionPending(k)) => pod'[p] \in CalledFor(p)
<1>1. AdmissionSpec => []AdmissionInv
  BY AdmissionInitInv, AdmissionNextInv, PTL DEF AdmissionSpec
<1>2. AdmissionSpec => []FreshInv
  BY AdmissionKeepsRegistry, RegistryStaysFresh, PTL
<1>3. AdmissionInv /\ FreshInv /\ [AdmissionNext]_allVars => [Follows]_allVars
  <2> SUFFICES ASSUME AdmissionInv, FreshInv, AdmissionNext, NEW p \in Pods, Chooses(p),
                      ~(\E k \in Keys : CorrectionPending(k))
               PROVE  pod'[p] \in CalledFor(p)
    OBVIOUS
  <2>1. UpToDate
    BY NothingPendingIsCorrect DEF UpToDate, AdmissionInv, RegistryInv
  <2>2. pod \in [Pods -> PodStates]
    BY DEF AdmissionInv, AdmissionTypeOK
  <2>3. \A q \in Pods : Instrument(q) \/ CallFails(q) => ~Chooses(p)
    BY <2>2 DEF Instrument, CallFails, Chooses, Instrumented, Plain
  <2>4. Forget => ~Chooses(p)
    BY DEF Forget, Chooses, Plain
  <2>5. UNCHANGED pod => ~Chooses(p)
    BY DEF Chooses
  <2>6. PICK q \in Pods : Admit(q)
    BY <2>3, <2>4, <2>5 DEF AdmissionNext, EditConfigMap, UpdateConfig, admissionVars
  <2>7. pod'[p] = Choice(p)
    BY <2>2, <2>6 DEF Admit, Chooses
  <2> QED BY <2>1, <2>7, ChoiceFollows DEF Chooses
<1>4. AdmissionSpec => [][Follows]_allVars
  BY <1>1, <1>2, <1>3, PTL DEF AdmissionSpec
<1> QED BY <1>4 DEF PodsFollowTheCluster
=============================================================================
