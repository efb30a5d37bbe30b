----------------------------- MODULE PodAdmission -----------------------------
(***************************************************************************)
(* Which rule a new pod is instrumented by: the /mutate webhook (main.go,  *)
(* applyAppdInstrumentation; match.go) on top of the registry of rules and *)
(* of the configuration that the config map watcher loads (updateConfig).  *)
(*                                                                         *)
(* A webhook call takes the mutex twice: to choose a rule and to apply it. *)
(* In between, rules and configuration may change, and the process may end.*)
(***************************************************************************)
EXTENDS RuleRegistry

CONSTANTS
  Pods,         \* the pods users create: pairs <<namespace, name>>
  MatchTable,   \* pairs <<pod, spec>>: the match rules of spec fit the pod
  ConfigMaps,   \* contents of the config map: [controller, rules, valid]
  Values,       \* the scope in the names of the config map's rules
  NoSettings,   \* no configuration has been loaded
  NoRule,       \* getInstrumentationRule returned nil
  MaxEdits      \* bound on edits of the config map

ValuesRules == [name : {Values} \X STRING, spec : Specs]

(* What is kept of a config map that is valid. *)
Loaded(m) == [controller |-> m.controller, rules |-> m.rules]
Settings  == {Loaded(m) : m \in {m \in ConfigMaps : m.valid}}

(* Content whose rules lack match rules is left out: it ends the process     *)
(* while it is validated.                                                    *)
ASSUME AdmissionAssumption ==
  /\ Values \notin Scopes
  /\ Pods \subseteq Namespaces \X STRING
  /\ ConfigMaps # {}
  /\ \A m \in ConfigMaps :
       /\ DOMAIN m = {"controller", "rules", "valid"}
       /\ m.valid \in BOOLEAN
       /\ m.rules \in Seq(ValuesRules)
       /\ \A i \in DOMAIN m.rules : m.rules[i].spec.hasMatch
  /\ NoSettings \notin Settings
  /\ NoRule \notin Rules \cup ValuesRules
  /\ MaxEdits \in Nat

VARIABLES
  configMap,   \* the config map in the cluster
  unread,      \* the watcher has not handled its present content
  settings,    \* what the process has loaded of it
  pod,         \* the pods: absent, in a webhook call, denied or created
  edits

admissionVars == <<configMap, unread, settings, pod, edits>>
allVars == <<vars, admissionVars>>

-----------------------------------------------------------------------------
Absent     == [at |-> "absent"]
Denied     == [at |-> "denied"]
Chosen(rule) == [at |-> "chosen", rule |-> rule]

(* A pod created as it was posted, and why: the webhook leaves its namespace *)
(* alone, no rule fits, the handler panicked, or the call failed.            *)
Plain(why) == [at |-> "created", why |-> why]

Instrumented(rule, controller) ==
  [at |-> "created", why |-> "rule", rule |-> rule, controller |-> controller]

InCall(p) == pod[p].at = "chosen"

isMatch(p, spec) == <<p, spec>> \in MatchTable

(* Mutant of Candidates: cluster-wide rules come first. *)
CandidatesClusterFirst(p) ==
  registry[Cluster] \o registry[Scope(p)] \o settings.rules

(* The rules in the order in which they are tried. *)
Candidates(p) == registry[Scope(p)] \o registry[Cluster] \o settings.rules

(* Trying a rule that has no match rules is a panic: it stops there as well. *)
Stops(p, rules) ==
  {i \in DOMAIN rules : isMatch(p, rules[i].spec) \/ ~rules[i].spec.hasMatch}

(* getInstrumentationRule *)
getInstrumentationRule(p) ==
  LET rules == Candidates(p)
      stops == Stops(p, rules)
  IN  IF stops = {} THEN NoRule ELSE rules[Min(stops)]

-----------------------------------------------------------------------------
(* The config map and its watcher.                                          *)

EditConfigMap(m) ==
  /\ edits < MaxEdits
  /\ configMap' = m
  /\ unread' = TRUE
  /\ edits' = edits + 1
  /\ UNCHANGED <<vars, settings, pod>>

(* Mutant of UpdateConfig: the test for validity comes after the first       *)
(* assignment.                                                               *)
UpdateConfigRulesFirst ==
  /\ unread
  /\ unread' = FALSE
  /\ settings' = IF configMap.valid        THEN Loaded(configMap)
                 ELSE IF settings = NoSettings THEN NoSettings
                 ELSE [settings EXCEPT !.rules = configMap.rules]
  /\ UNCHANGED <<vars, configMap, pod, edits>>

(* updateConfig: content that does not parse or is not valid is ignored.     *)
UpdateConfig ==
  /\ unread
  /\ unread' = FALSE
  /\ settings' = IF configMap.valid THEN Loaded(configMap) ELSE settings
  /\ UNCHANGED <<vars, configMap, pod, edits>>

-----------------------------------------------------------------------------
(* The /mutate webhook: applyAppdInstrumentation inside doServeAdmitFunc.    *)

(* What comes of choosing: the answer, or a rule still to be applied.        *)
Choice(p) ==
  IF Scope(p) \in KubeNamespaces THEN Plain("kube")
  ELSE IF settings = NoSettings  THEN Denied
  ELSE LET rule == getInstrumentationRule(p)
       IN  IF rule = NoRule               THEN Plain("none")
           ELSE IF ~rule.spec.hasMatch    THEN Plain("panic")
           ELSE Chosen(rule)

(* A pod is posted (again, if it was denied) and the webhook looks for its   *)
(* rule.  The test for a configuration, made without the mutex, is part of   *)
(* the step: a configuration once loaded never goes away.                    *)
Admit(p) ==
  /\ pod[p].at \in {"absent", "denied"}
  /\ pod' = [pod EXCEPT ![p] = Choice(p)]
  /\ UNCHANGED <<vars, configMap, unread, settings, edits>>

(* The mutex is taken again and the patch is made from the rule chosen and   *)
(* the controller settings of now.                                           *)
Instrument(p) ==
  /\ InCall(p)
  /\ pod' = [pod EXCEPT ![p] = Instrumented(@.rule, settings.controller)]
  /\ UNCHANGED <<vars, configMap, unread, settings, edits>>

(* The call fails or takes too long: failurePolicy is Ignore.                *)
CallFails(p) ==
  /\ pod[p].at \in {"absent", "denied", "chosen"}
  /\ pod' = [pod EXCEPT ![p] = Plain("failed")]
  /\ UNCHANGED <<vars, configMap, unread, settings, edits>>

-----------------------------------------------------------------------------
(* Mutant of Forget: the next process only watches, it does not list. *)
ForgetAndWatch ==
  /\ settings' = NoSettings
  /\ unread' = FALSE
  /\ pod' = [p \in Pods |-> IF InCall(p) THEN Plain("failed") ELSE pod[p]]
  /\ UNCHANGED <<configMap, edits>>

(* With the process go the settings and the calls.  The config map is listed *)
(* again by the next process.                                                *)
Forget ==
  /\ settings' = NoSettings
  /\ unread' = TRUE
  /\ pod' = [p \in Pods |-> IF InCall(p) THEN Plain("failed") ELSE pod[p]]
  /\ UNCHANGED <<configMap, edits>>

AdmissionInit ==
  /\ Init
  /\ configMap \in ConfigMaps
  /\ unread = TRUE
  /\ settings = NoSettings
  /\ pod = [p \in Pods |-> Absent]
  /\ edits = 0

AdmissionNext ==
  \/ Run /\ UNCHANGED admissionVars
  \/ End /\ Forget
  \/ \E m \in ConfigMaps : EditConfigMap(m)
  \/ UpdateConfig
  \/ \E p \in Pods : Admit(p) \/ Instrument(p) \/ CallFails(p)

Retry(p) == pod[p].at = "denied" /\ Admit(p)

(* The watcher and the handlers get the processor, and pods that were denied *)
(* are posted again by their ReplicaSet.                                     *)
AdmissionFairness ==
  /\ WF_allVars(UpdateConfig)
  /\ \A p \in Pods : WF_allVars(Retry(p)) /\ WF_allVars(Instrument(p))

AdmissionSpec == AdmissionInit /\ [][AdmissionNext]_allVars
FairAdmissionSpec == AdmissionSpec /\ AdmissionFairness

-----------------------------------------------------------------------------
(* Properties.                                                               *)
PodStates == {Absent, Denied}
               \cup {Plain(why) : why \in {"kube", "none", "panic", "failed"}}
               \cup [at : {"chosen"}, rule : Rules \cup ValuesRules]
               \cup [at : {"created"}, why : {"rule"}, rule : Rules \cup ValuesRules,
                     controller : {m.controller : m \in ConfigMaps}]

AdmissionTypeOK ==
  /\ TypeOK
  /\ configMap \in ConfigMaps
  /\ unread \in BOOLEAN
  /\ settings \in Settings \cup {NoSettings}
  /\ pod \in [Pods -> PodStates]
  /\ edits \in 0..MaxEdits

IsInstrumented(p) == pod[p].at = "created" /\ pod[p].why = "rule"
OfSettings(rule)  == \E s \in Settings : \E i \in DOMAIN s.rules : s.rules[i] = rule

(* All or nothing: whatever is edited, and between the two critical sections *)
(* of a call, a pod only ever gets rules and controller settings of config   *)
(* maps that were valid (updateConfig, the early returns).                   *)
OnlyValidConfigurationsApply ==
  \A p \in Pods : IsInstrumented(p) =>
    /\ \E s \in Settings : s.controller = pod[p].controller
    /\ pod[p].rule.name[1] = Values => OfSettings(pod[p].rule)

(* The objects of a scope whose rules fit the pod, and those of them that    *)
(* come first: the least priority.                                           *)
Fitting(p, scope) ==
  {k \in Keys : /\ Scope(k) = scope
                /\ Wanted(k) # NoObject
                /\ isMatch(p, Wanted(k))}
First(keys) ==
  {k \in keys : \A l \in keys : Wanted(k).priority <= Wanted(l).priority}

FittingValues(p) == {i \in DOMAIN settings.rules : isMatch(p, settings.rules[i].spec)}

(* What the cluster's objects and the loaded configuration call for: the     *)
(* states a call for p may be in after choosing.                             *)
CalledFor(p) ==
  LET own == First(Fitting(p, Scope(p)))
      all == First(Fitting(p, Cluster))
      keys == IF own # {} THEN own ELSE all
  IN  IF keys # {}
        THEN {Chosen([name |-> k, spec |-> Wanted(k)]) : k \in keys}
      ELSE IF FittingValues(p) # {}
        THEN {Chosen(settings.rules[Min(FittingValues(p))])}
      ELSE {Plain("none")}

Chooses(p) == /\ pod'[p] # pod[p]
              /\ pod'[p].at = "chosen" \/ pod'[p] = Plain("none")

(* A pod is instrumented by what the cluster's objects call for: its own     *)
(* namespace's rules before cluster-wide ones before the config map's, in    *)
(* the order of their priorities, whenever no correction of the registry is  *)
(* on its way.                                                               *)
PodsFollowTheCluster ==
  [][\A p \in Pods :
       Chooses(p) /\ ~(\E k \in Keys : CorrectionPending(k)) =>
         pod'[p] \in CalledFor(p)]_allVars

(* Pods denied because nothing was loaded yet get in, once crashes have      *)
(* stopped, if the config map is valid.                                      *)
DenialsEnd ==
  <>[](configMap.valid) => \A p \in Pods : pod[p].at = "denied" ~> pod[p].at = "created"

-----------------------------------------------------------------------------
(* What the documentation says and the code does not do.                     *)

(* Nothing is under way that concerns k, as far as anybody outside can see:  *)
(* its object was last written by the reconciler, no event is undelivered or *)
(* queued, no create is in flight.                                           *)
Quiet(k) ==
  /\ store[k] # NoObject => store[k].processed
  /\ watch[k] = <<>>
  /\ k \notin queue
  /\ worker[Kind(k)] = IdleWorker
  /\ \A r \in Requests : InFlight(r) => request[r].key # k

(* README.md, "The order of evaluation is following": the rules of the       *)
(* Instrumentation objects come before all others.  They are in force for    *)
(* every pod that is created while they stay as they are.                    *)
EstablishedRulesApply ==
  [][\A p \in Pods :
       Chooses(p) /\ (\A k \in Keys : Quiet(k)) => pod'[p] \in CalledFor(p)]_allVars
=============================================================================
