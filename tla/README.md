# A verification project for the webhook instrumentor

This directory models the Kubernetes admission webhook of
`src/webhook/pkg` (Go, controller-runtime), and the shim it injects into Node.js
applications, in TLA+, checks the models with TLC on small instances and proves
theorems about them with TLAPS.

Commands, from this directory:

    tlasany RuleRegistry.tla
    tlc -workers 2 -config RegistryConvergence.cfg MCRuleRegistry.tla
    tlc -workers 2 -config AdmissionPrecedence.cfg MCPodAdmission.tla
    tlc -workers 2 -config CollectorsRun.cfg MCOtelCollectors.tla
    tlc -workers 2 -config PodPatchAny.cfg MCPodPatch.tla
    tlc -workers 2 -config NodeShim.cfg MCNodeShim.tla
    tlapm RuleRegistryProofs.tla
    tlapm RuleFreshnessProofs.tla
    tlapm PodAdmissionProofs.tla
    tlapm OtelCollectorsProofs.tla
    tlapm PodPatchProofs.tla
    tlapm PodContentProofs.tla
    tlapm NodeShimProofs.tla

## 1. The system

The process is one Go program with a single replica. It has no storage of its
own: everything it knows is in memory and is rebuilt after a restart from the
API server. These parts share that memory.

| part | code | state | operations | driven by |
|---|---|---|---|---|
| Rule registry | `configuration.go` 655-743 | one list of rules per namespace, one cluster-wide list, under `config.mutex` | upsert (replace or append, then sort), delete | `/validate` handlers, two reconcilers |
| CRD reconcilers | `crdReconciler.go` 36-194 | informer caches, two work queues, one worker each | read the cache, upsert or delete the rule, write the annotated object back | watch events, requeues |
| Configuration watcher | `configuration.go` 114-332, 480-561 | controller settings, config-map rules, flex-match template | validate a config map, swap all of it in | config map informer |
| Rule defaults and templates | `configuration.go` 335-477, 618-637 | none | fill a rule from a template, then from constants | watcher, webhook, reconcilers |
| Matching | `match.go` | none | first match: namespaced rules, cluster rules, config-map rules | pod admission |
| Pod admission | `main.go` 123-176, `admission_controller.go` | none of its own | choose a rule, unlock, lock, build the patch | API server, CREATE of pods |
| Pod instrumentation | `instrument*.go` | none | JSON patch: environment, mounts, volumes, init containers, sidecars, annotations | pod admission |
| Collector registry | `otelCollSidecar.go` | sidecar configurations by name and by namespace, in maps without a lock (only the config-map part has one) | register, unregister, look up, add a sidecar | webhook, reconciler, watcher, pod admission |
| Collector reconciler | `crdReconciler.go` 196-508 | Deployments and Services in the cluster | create or update them, register the collector | watch events |
| Node.js shim | `buildEnv/.../nodejsAgentImage/opt/opentelemetry/shim.js`, with the test server `testWorkloads/nodejs/testserver/server.js` as its application | the SDK and its promises, requests in progress | start the SDK, flush it and exit on SIGTERM; answer requests | event loop of the instrumented process |
| Nginx patcher | `buildEnv/.../nginxConfPatcher/main.go` | none | apply patch operations to a parsed nginx configuration | init container |
| Self-tracing | `tracing.go` | exporter | spans | HTTP handlers |

How they interact: the API server calls `/validate` on CREATE of an
`Instrumentation`, `ClusterInstrumentation` or `OpenTelemetryCollector` *before*
it persists the object, with `timeoutSeconds: 2` and `failurePolicy: Ignore`.
The handler registers the object at once, so that pods created a moment later
see it. Updates and deletes are not sent to the webhook; they arrive only
through the informers of the reconcilers, which also see every create. So each
object is registered twice, by two writers that do not know of each other, one
of them ahead of the store and the other behind it. Pod admission reads what
both wrote.

### What is hard, and what makes each part correct

* **Registry and reconcilers.** Order of webhook call, persistence, watch event
  and reconcile; stale cache reads; conflicts; requeues; a reconcile that writes
  to the object it watches; refused, timed-out and dry-run creates; restarts.
  Correct when no two rules have one name, lists are ordered, no stale rule is
  final, users' specs survive the write-back but for the one field that is known
  to be lost, the registry converges and the reconcilers come to rest.
* **Pod admission.** Two critical sections with a gap; namespaced before
  cluster-wide before config-map rules; denial before the first configuration.
  Correct when a pod gets the first matching rule of some one moment, and only
  rules of its own namespace among the namespaced ones.
* **Collectors.** Unlocked maps written by handlers and the reconciler; errors
  of the Kubernetes API that are dropped; old copies of objects; Deployments and
  Services of a predecessor, garbage collected late. Correct when a lookup finds
  what the cluster has, collectors run as their objects say, and nothing remains
  of a deleted one.
* **Configuration watcher.** All or nothing: a rejected config map leaves the
  previous configuration whole.
* **Pod instrumentation.** The patch must apply, in order, to the pod it was
  computed from; a variable must be defined before a `$(VAR)` that refers to it;
  a mount needs its volume, a sidecar its users; the technologies of a rule set,
  and what the spec of a sidecar brings, share one pod; lookups of the collector may disagree during one call.
* **Defaults.** Two layers give defaults to one option, some rules get only one
  of them or none.
* **Node.js shim.** It runs inside somebody else's process: what fails in the
  SDK must not end it, and taking the default away from SIGTERM obliges the shim
  to end it.
* **Nginx patcher.** Line offsets after the first patch.

`PROJECT.json` lists the hazards at their lines, with the properties that watch
them; section 3 ends with behaviours that no property is about.

## 2. What is modelled

### RuleTable, RuleBook, RuleRegistry

`RuleTable.tla` holds the list operators. `UpsertSpec` and `DeleteSpec` are
`upsertInstrumentationSpecInConfig` and `deleteInstrumentationSpecInConfig`.
`slices.SortFunc` is not stable, so `SortFunc` is the set of all ascending
rearrangements and an upsert has a set of results.

`RuleRegistry.tla` is the state machine around them.

| variable | code |
|---|---|
| `registry` | `Config.InstrumentationNamespacedCrds`, `Config.InstrumentationClusterCrds`; the scope `Cluster` is the latter |
| `cache`, `queue`, `worker`, `synced` | informer cache, work queue, the one worker of `instr-controller` or `ginstr-controller` and where it is in `Reconcile`, cache sync |
| `store`, `version`, `watch` | API server: objects, resourceVersion, events not yet delivered |
| `request` | create calls: how far the API server is (`api`) and whether the handler has run (`hook`) |
| `writes`, `crashes` | counters that bound users and crashes |

| action | code |
|---|---|
| `Validate` | the whole `/validate` request: namespace test, dry-run test, defaults, upsert under the mutex; a panic is recovered by `net/http` and fails the call |
| `Get`, `Unregister`, `Register`, `Write` | the two `Reconcile` methods, split where other goroutines can come between: cache read, registry change under the mutex, `client.Update` with its conflict and not-found errors (a requeue) |
| `Panic` | a nil field dereferenced in a reconciler; controller-runtime 0.17 does not recover it, so the process restarts |
| `List`, `Deliver` | first list and watch events of the informers |
| `Create`, `GiveUp`, `Persist`, `Refuse`, `Update`, `MarkDeleting`, `Delete` | the API server and its users (external) |
| `Crash` | end of the process for an outside reason |

A spec is a record `[priority, hasRules, hasMatch, namespaceRegex]`: the priority
drives the sort, the next two say whether `injectionRules` and `matchRules` are
present, which decides whether the code panics. `upsertCrdInstrumentation`
overwrites `matchRules.namespaceRegex` with an expression for the object's own
namespace (`Scoped`), through a pointer that the caller's object shares
(`configuration.go:662`): the rule has it, and so has what the reconciler writes
back afterwards (`Processed`). Of expressions it matters for which one namespace
they are; all others, and none, are the value `Cluster`. The rest of a spec is
not looked at by this component. `processed` in an object stands for the
annotation *and* the defaults the reconciler writes back; with `Scoped` it says
whether writing changes anything.
resourceVersions are counted per object, which keeps all comparisons the same.
A restart and the time the process is down are one step; since no webhook call
has to be served at once, an outage is a run of steps without one.

`RuleBook.tla` is the abstract specification: a map `book` from objects to
rules. A step changes the rule of one object, and only of an object that a
webhook call or a worker is handling (`handling`); kinds once listed stay
listed (`listed`); only the end of the process empties the book.
`ImplementsRuleBook` instantiates it with `book[k] = Registered(k)`, the keys of
running calls and busy workers (`Handled`), and `synced`.

`Faults` says what the environment may do beyond outages: `reject` (a create is
refused after the webhook call), `late` (a call that timed out still runs),
`early` (a call is served before the informers have listed).

### PodAdmission

`PodAdmission.tla` extends `RuleRegistry` with what reads the registry: the
`/mutate` webhook and the configuration it needs. Its next-state relation runs
the registry's steps (`Run`) beside its own, and couples the end of the process
(`End`) with `Forget`, since one process holds both.

| variable | code |
|---|---|
| `configMap`, `unread` | the config map in the cluster; whether the informer of `configurationWatcher` still has to hand its content to `updateConfig` |
| `settings` | `Config.ControllerConfig` and `Config.InstrumentationConfig`, `NoSettings` while they are nil |
| `pod` | each pod: absent, in a call that has chosen a rule, denied, or created and by what |
| `edits` | counter that bounds edits of the config map |

| action | code |
|---|---|
| `Admit` | `doServeAdmitFunc` with the first part of `applyAppdInstrumentation`: Kubernetes namespaces are left alone, a missing configuration denies, `getInstrumentationRule` under the mutex |
| `Instrument` | the second critical section: the patch is built from the rule chosen before and the controller settings of now |
| `UpdateConfig` | `updateConfig` for the instrumentor's config map: every early return and failed validation leaves all settings as they were, otherwise all are replaced under the mutex |
| `Forget` | the end of the process: settings are nil again, running calls fail, the informer lists the config map again |
| `EditConfigMap`, `CallFails` | a user; a call that fails or exceeds `timeoutSeconds`, where `failurePolicy: Ignore` lets the pod in unchanged |

Whether a rule matches a pod is a constant relation, `MatchTable`: the regular
expressions are data, the order in which the rules are tried
(`Candidates`) and the first one that stops the search (`Stops`: a match, or a
panic on missing match rules) are control. The config map's contents are records
`[controller, rules, valid]`; no config map at all behaves as an invalid one.
The test for a configuration reads two pointers without the mutex. It is merged
with the search that follows: the pointers never become nil again, and a call
that sees one of them nil denies, as it would have a moment earlier. A rule
chosen is a copy, so later changes of the registry do not reach it.

Left out: a config map whose rules lack match rules (it ends the process in
`validateInstrumentationConfig`), `CrdsDisabled` and the flex match template
(never set, and only printed). The patch itself is `PodPatch`.

### OtelCollectors

The `OpenTelemetryCollector` objects of one namespace, from `/validate` to the
Deployment and the Service that the reconciler makes for them.

| variable | code |
|---|---|
| `outer`, `inner` | `otelCollsConfigNamespaced`: which map is the namespace's, and the maps that have been made, each named by the actor that made it |
| `actor` | each create call and the reconciler: where it is, for which object, and what its last step has read (`seen`) |
| `synced`, `cache`, `queue`, `watch`, `owned` | informer cache, work queue, events not yet delivered: of the objects, and of what they own (`Owns` in `SetupWithManager`) |
| `store`, `deployment`, `service` | API server |
| `writes`, `crashes`, `failures` | counters that bound users, crashes and failing API calls |

| action | code |
|---|---|
| `Lookup`, `CreateMap`, `Store` | `registerNamespacedSidecarCollector`, `registerNamespacedStandaloneCollector`, `unregisterNamespacedCollector`, step by step, since no lock keeps others out; run by `/validate` before the object is persisted and by the reconciler |
| `Get` | `Reconcile` up to the branch on not found, deletion timestamp and mode |
| `GetDeployment`, `WriteDeployment`, `GetService`, `WriteService` | `upsertOtelCollector`: read, then create or update, unless a dry run shows no change; an error of a read ends the reconcile and is dropped, an error of a write is logged and passed over |
| `List`, `Deliver`, `DeliverOwned` | informers |
| `Create`, `Ignore`, `Persist`, `Update`, `MarkDeleting`, `Delete`, `Collect` | the API server, its users and its garbage collector (external) |
| `Crash` | end of the process |

`Entry` is what is registered of an object, `OwnerOf` its owner reference: a
`uid`, so that a collector created again is told from its predecessor.
`config` stands for everything a Deployment is built from. Two HTTP handlers of
one namespace are two actors; one beside the reconciler is enough for every
race on the map. Late and early calls, refused creates and dry runs work here as
they do for rules and are `RuleRegistry`'s subject. The mode `external` of
`README.md:124` is refused by the schema of the shipped custom resource
(`ext.appd.com_opentelemetrycollectors.yaml:225-233`) and cannot occur; no mode
can, and is handled like `deployment`.

### RuleDefaults, PodPatch

`RuleDefaults.tla` translates the functions that complete the options of a rule,
with the names of the code: `applyTemplate` (`applyTemplateString`,
`applyTemplateBool`), `mergeNameValues` (through a Go map, hence a set of
results, one for each order), `injectionRuleTemplate`, `injectionRuleDefaults`,
`applyInjectionTemplates`, and which of them a rule of the config map
(`fromConfigMap`) and of a custom resource (`fromCustomResource`) goes through.
Of about thirty options those are kept on which a patch depends.

`PodPatch.tla` builds the patch of each technology and applies it. The API
server works on the pod as JSON, in which a list without elements is left out:
`Document` is the pod with the set of lists it has, and `applyPatch` folds the
operations over it, or refuses all of them as soon as one does not apply. Its
state is one call: the pod posted (`app`), the rule, its members after `Complete`, the
operations so far (`ops`), what the lookups of the collector have found
(`looked`), and the pod created.

| action | code |
|---|---|
| `Complete` | templates and defaults, then `EmptyLists`: the lists that the pod lacks (`applyInstrumentation`, `instrument.go:52-87`) |
| `Instrument` | `applyInjectionRule` for the only member or the next of a rule set, and then `removeDupliciteEnvs` for a rule set; a nil option panics (`Panics`) |
| `DereferenceNil` | a rule of the config map with neither `injectionRules` nor a set: `applyInjectionRule` dereferences nil (`instrument.go:98-109`) |
| `Patch` | the API server applies the JSON patch, as a whole or not at all (external) |

The operators of the technologies (`javaAppd`, `dotnetAppd`, `nodejsAppd`,
`javaOtel`, `dotnetOtel`, `nodejsOtel`, `webserverOtel` for Apache and Nginx)
give the operations in the order of the code. Variables nothing refers to are
one for each group, and values are what they refer to and the collector they
name. `Lookups` are up to four lookups of the collector with at most one change
in between, since no lock spans them. Abstracted: annotations, names, resources,
images, commands.

`SidecarOps` adds the sidecar of a collector with all that the collector's spec
gives it: its own mounts (`OwnMounts`) beside the one of its configuration, and
its own volumes (`OwnVolumes`) behind that of its configuration. The collectors
of the namespace that are sidecars are the constant `OwnSidecars`, and what the
spec of each mounts and brings are `SidecarMounts` and `SidecarVolumes`; the
collectors of the config map have neither. A collector of either kind may have
no mode.

Pods and rules are constants. `PatchAssumption` says what they may be: pods as
the API server accepts them (at least one container, mounts of volumes of the
pod only, no two volumes or containers of one name), and rules with either one
injection rule, or a set of any number of them (a set without members counts as
none, `instrument.go:89`), or, in the config map, with neither: its validation
lets them pass. (A custom resource without `injectionRules` panics before it is
registered, which is `RuleRegistry`'s subject; for a rule set it is assumed that
they are there as well.) Every option of an injection rule may be
unset. The field `to` of a variable or a container says which collector the
*webhook* made it name, so what users define themselves has none. They may use
the webhook's names, for variables and for containers; the properties that only
hold of a pod without such names say so (`IsUnclaimed`, `IsOverridden`).

### NodeShim

What happens in a Node.js application that was instrumented with `nodejs/otel`:
`shim.js` is loaded first, here in front of the repository's test server.

| variable | code |
|---|---|
| `process`, `code` | whether the process loads, runs or has exited, and why |
| `tracing`, `shutdown` | the promises of `sdk.start()` and `sdk.shutdown()` |
| `signals`, `delivered` | SIGTERMs sent and handled |
| `request`, `span` | requests to the server, and what became of their spans |

| action | code |
|---|---|
| `Load` | both files from the first line to the last |
| `StartSettles` | `then` and `catch` of `sdk.start()` |
| `OnSigterm`, `ShutdownSettles` | the handler, and `then` or `catch`, `finally` of `sdk.shutdown()` |
| `DefaultHandler` | SIGTERM before the handler is set: ends the process, or is lost when it is the first of its container |
| `Get`, `GetRoot`, `Timer` | the routes of `server.js` and the timer of a delayed answer |
| `Signal`, `Export` | the kubelet; the SDK's span processor (external) |

A step is a turn of the event loop. The SDK is external and modelled as far as
the shim relies on it: `start()` returns a promise (the image does not pin a
version), a second `shutdown()` gets the first one's promise, spans that end
after the shutdown has begun are dropped.

## 3. What is checked

| run | instance | question | result |
|---|---|---|---|
| `registry_faults` | two objects, two concurrent creates, 2 writes, 1 crash, all faults, a spec that panics | are the lists well-formed whatever the environment does; do they implement the map? | holds |
| `registry_convergence` | one object of each kind and one in kube-system, 2 writes, 1 crash | does a stale rule always have its correction on the way; does writing back from a cache ever undo a user's write, but for `namespaceRegex`; does the registry converge and do the reconcilers stop? | holds |
| `registry_priority` | two objects | are higher priorities evaluated first (`README.md:91`)? | violated |
| `registry_rule_set_only` | one object without `injectionRules` | does every object get its rule (`README.md:90`)? | violated |
| `admission_precedence` | two objects of the pod's namespace, a cluster-wide one, two config map rules, three priorities of which the lowest does not fit the pod, 2 writes | is the pod given the rule that the cluster's objects call for, by match, scope and priority? | holds |
| `admission_configuration` | three contents of the config map (one invalid), 2 edits, a cluster-wide object with or without match rules, 1 crash, a pod in `kube-system` | is a config map applied as a whole or not at all; do denied pods get in? | holds |
| `admission_restart` | one object, 1 crash | do rules nobody touches apply to every pod (`README.md:90-91`)? | violated |
| `collectors_registered` | two names, one create call beside the reconciler, 2 writes, 1 crash, 1 failing API call | without a lock, when is a registration wrong for good? | holds |
| `collectors_run` | one name, two configurations, 2 writes, 1 crash, 1 failing API call | do collectors come to run as their objects say, and do deleted ones go away? | holds |
| `pod_patch` | five pods; every technology, with and without templates and a rule set of its own, and every pair in a rule set; a rule with neither; a sidecar collector that brings some of what it mounts | does the patch apply, and does the pod it makes hang together? | holds |
| `patch_apache` | a pod with two configuration mounts | are only mounts of passed configuration dropped (`instrumentOtelApache.go:293`)? | violated |
| `node_shim` | 2 requests, 2 SIGTERMs | does an instrumented process end when, and only when, it is told to, with its finished spans flushed? | holds |

Bounds. Deletes are not counted, as each needs a create; so two writes allow
create, delete and recreate with another spec, or a create and an update, which
is what puts a reconcile behind its object. Two objects in one list exercise
insertion before and after, replacing with a new priority, and equal priorities.
Two requests are needed for two creates of one name. One crash reaches every
point at which memory is lost; a second one starts from the same empty memory.
One failing API call is enough for every point at which the reconcile is given
up. In `collectors_registered` the namespace has no map at first, the only
situation in which two actors can make one each; two names show that one
registration is lost with the map, and one name suffices for the Deployment and
the Service, which collectors do not share. In `pod_patch` one pod has no list
at all, one has volumes only, and one has all lists, with configuration mounts
of both web servers and a variable the agents also set; lists are treated
independently of each other. The last two mount the configuration of one web
server twice, after which the wrong mount is removed, and four times. The agent
adds two mounts behind them, so with three the third removal still finds a mount
(another one than is meant), and with four the last removal points behind the
list and the API server refuses the patch. `PatchApplies` excepts three as well:
a rule set may have two members for one web server, each of which removes by the
same indices. The sidecar collector mounts a volume that it brings and one that
is not there, and brings one that three of the pods have and two have not.
Options are combined freely for rules without a template; with one, those that
the layers treat differently. Rule sets of three add nothing that a pair does
not show: duplicate names, order, and the one index that is used. Two requests
in `node_shim` put one span before and one behind the begin of the shutdown.
Deadlock is not checked: when the bounds are used up and all is in step, when
the pod has been created, or when the process has ended, nothing is left to do.

`PodsFollowTheCluster` speaks of the moments at which no correction of the
registry is on its way (`CorrectionPending`): while one is, the registry may be
behind the cluster, and `NoStaleRuleIsFinal` says that it is not for good.
Its run has no crash: until the informers have listed again, corrections are on
their way, and the registry's runs cover the rest. It
has one pod, which may be denied and posted again, because pods do not
influence each other; `admission_configuration` has two, for the namespaces
that are left alone.

Fairness (`Fairness` in `RuleRegistry`): weak fairness of the webhook handler,
of the API server finishing a create, of informer list and delivery, and of the
worker of each controller (the work queue retries failed keys for ever and the
Go scheduler runs every goroutine). None for users, timeouts and crashes.
`AdmissionFairness` adds the config map watcher, the second critical section
(the mutex is held for short, and goroutines are scheduled fairly) and the
ReplicaSet that posts a denied pod again (`Retry`).

`OtelCollectors` assumes the same of its handlers, worker, informers and the API
server, which also collects garbage in the end. `collectors_run` speaks of
behaviours without failing API calls where it must: the reconciler drops the
errors, and nothing repeats the reconcile. `NodeShim` assumes that the event
loop comes to what is ready and that the SDK settles its promises and exports
its buffer (its exporter has a timeout); nobody has to send requests or signals.

The four violated properties state what the documentation or a comment says;
they are listed as findings in `PROJECT.json`:

1. *Priorities.* The sort is ascending; the first match is the lowest priority.
2. *injectionRuleSet.* A custom resource that has only an `injectionRuleSet`
   makes each reconcile panic.
3. *Restart.* A pod is admitted once the config map is loaded, whether or not
   the informers have listed: it gets the config map's rule, or none, instead
   of its namespace's, and keeps it.
4. *Passed configuration.* Mounts are removed by the indices they have in the
   unpatched pod, in ascending order. With two of them the second removal takes
   the mount behind the one that is meant; `MountsAreKept` says that with one
   the removal is right.

### Known behaviours

These follow from the code as it is modelled, or were met while reading it. No
run is about them alone; the properties that would otherwise be false name them
as exceptions.

* *Ghost rules.* `/validate` registers, then the create is refused (the name is
  taken, a quota, another webhook): nothing removes the rule
  (`main.go:117` says so). `NoStaleRuleIsFinal` is checked without `reject`;
  `registry_faults` has it.
* *Calls before the first list.* The HTTP server starts before the informers
  have synced. An object created and deleted in between leaves its rule.
* *Recreated objects.* An object is deleted and created again before the delete
  is reconciled: the reconcile removes, by name, the rule registered for the new
  object, until the event of the create is handled.
* *Match rules.* A `ClusterInstrumentation` without `matchRules` makes every pod
  call that tries it panic (`match.go:123`), which `admission_configuration`
  does; the pod gets in unchanged. A config map with such a rule ends the process
  (`configuration.go:523`), as does a member of a rule set that names a template
  that is not found, without `injectionRules` beside it (`configuration.go:406`).
* *Split maps.* Two actors that find no map for the namespace make one each, and
  the registrations in one of them are lost until their objects change (`Split`).
* *Dropped errors.* After a failed read of the API the collector is neither run
  nor registered until its object, its Deployment or its Service changes.
* *Mode.* Changing it from `deployment` to `sidecar` leaves the Deployment and
  the Service running. Without one the collector is run but no agent is told
  where it is (`ownModeless`). `loadOtelConfig` never removes a collector that
  is no longer in the config map.
* *Disagreeing lookups.* When a collector changes between two lookups of one
  call, an agent may send to a sidecar that is not there (`looked = "changed"`).
* *Pods without volumes.* The path that adds the list of volumes has a trailing
  slash (`instrument.go:76`), and the API server refuses the whole patch. Pods
  normally have a volume for their service account by then.
* *Many mounts of configuration.* With four or more mounts that pass
  configuration of one web server (three, if two members of a rule set are for
  it), the removals may point behind the list, and the API server refuses the
  whole patch (`instrumentOtelApache.go:293`).
* *Namespace expressions.* A `namespaceRegex` that a user writes in an
  `Instrumentation` is not only ignored, it is lost: registering the rule
  overwrites it through a pointer (`configuration.go:662`), and the reconciler
  writes the object back (`crdReconciler.go:141`). `ReconcilersKeepUserSpecs`
  names this field as the only one.
* *Sidecars of custom resources.* The mounts of a collector's spec are taken as
  they are, whether or not the spec brings their volumes (`NotBrought`), and so
  are its volumes, whose names the pod or an agent may have (`VolumesFit`); the
  pod is then refused.
* *Mount paths.* Members of a rule set may mount their agents at one path
  (`/opt/opentelemetry-agent`). Paths are abstracted, and no property is about
  them.
* *Template default.* Of two layers the first sets `injectK8SOtelResourceAttrs`
  to false, which hides the second's true; `doNotInstrument` is never read.
* *Incomplete rules.* A rule of the config map with neither `injectionRules` nor
  an `injectionRuleSet` passes `validateInstrumentationConfig`, and each call of
  a pod that it matches panics (`instrument.go:109`); `net/http` recovers it,
  and the pod gets in unchanged. An empty set counts as none (`instrument.go:89`).
* *Rule sets.* Members that come from a custom resource get no defaults, and an
  option that was not given is dereferenced. Two members for one agent, or that
  both bring a collector, make names collide and the pod is refused.
* *Overridden variables.* In a rule set `removeDupliciteEnvs` keeps the last
  variable of a name. A user's own `OTEL_EXPORTER_OTLP_ENDPOINT` or
  `JAVA_TOOL_OPTIONS` then takes the place of the webhook's, and the agent is not
  told where its collector is, though the sidecar is added (`IsOverridden`). Of
  `PATH=...; PATH=$(PATH):...` the second remains and refers to nothing
  (`ReferencesResolve` excepts what a later variable of the name supersedes).
* *Shutdown.* Requests in progress are cut off when the flush is done. A SIGTERM
  while the application loads is lost if node is the container's first process.

## 4. What is proved

`RuleTableProofs.tla`: for every list, what sorting, upserting and deleting
return: ascending order, distinct names, the new rule present, the deleted name
absent, all other rules kept.

`RuleRegistryProofs.tla`, from `RegistryAssumption` (types of the constants)
only, for any number of objects, requests, writes, crashes and any faults:

* `TypeCorrect`: `Spec => []TypeOK`
* `RegistryAlwaysInOrder`: `Spec => []RegistryInOrder`

Their inductive invariant is `RegistryInv == TypeOK /\ RegistryInOrder`. Neither
half is inductive alone: an upsert keeps names distinct only in a list whose
names are distinct (it replaces the first rule it finds), and the lists can
only be reasoned about as sequences of rules. There is one lemma per action or
group of actions that touch the same variables; the registry is written by
three of them, which rest on `UpsertsInOrder` and `DeletedInOrder`.

* `RegistryImplementsBook`: `Spec => ImplementsRuleBook`, the refinement of
  `RuleBook`

A list of distinct names is a map (`RuleOf`), so `RegistryInv` is the invariant
under which steps are compared. `UpsertEntersOne` and `DeleteStrikesOne` say
that an upsert and a delete change the map at one name and nowhere else, and
that this name is the one a running call or a busy worker is handling
(`ValidateChangesOne`, `WorkerChangesOne`). Every step is then one of
`RuleBook`, or a stutter (`BookStep`); the end of the process is its `Lose`.

`RuleFreshnessProofs.tla`, from `RegistryAssumption`:

* `UserSpecsAreKept`: `Spec => ReconcilersKeepUserSpecs`
* `RulesAreCorrected`: if `Faults = {}`, `Spec => []NoStaleRuleIsFinal`

What the first allows besides the user's spec is `Scoped` of it, which is what
registering the rule makes of it. It needs `VersionInv`: of all copies of an
object there are (in the store, the cache, events, a worker's hands), two of one
version are equal, and none is newer than the version last given out. Only then does the API server's
comparison of versions tell the reconciler that nobody has written in between.
The second needs `FreshInv`, which follows an object from the call that creates
it to the registry: `Fresh(k)` says that the last event not delivered, else the
cache, is the object in the store; that a worker has the cache's copy or the key
is queued again; and that the rule in memory is the cache's, or that the queue,
an event, a worker or a call is about to correct it. `CallsInOrder` ties the
handler to the API server (nothing is persisted before its handler has run, and
no handler runs after), `WorkersInOrder` a worker to its kind, `WorkersWait` it
to the first list. The hypothesis is needed, as each of the three faults refutes
the property: a refused create leaves the rule of an object that never was; a
call that timed out may register the spec of a creation after the reconciler has
registered that of an update; and a rule registered before the first list stays
if its object goes before that list. `registry_convergence` makes the same
assumption.

`PodAdmissionProofs.tla`, from `RegistryAssumption` and `AdmissionAssumption`:

* `AdmissionTypeCorrect`: `AdmissionSpec => []AdmissionTypeOK`
* `ValidConfigurationsOnly`: `AdmissionSpec => []OnlyValidConfigurationsApply`
* `AdmissionKeepsRegistry`: `AdmissionSpec => Spec`, so that every theorem about
  the registry alone holds in the composition
* `OwnRulesComeFirst`: for every state that satisfies the inductive invariant,
  if a rule of the pod's namespace fits, `getInstrumentationRule` returns one of
  that namespace that fits and has the least priority among those
* `ClusterIsFollowed`: if `Faults = {}`, `AdmissionSpec => PodsFollowTheCluster`

The inductive invariant is `AdmissionInv == RegistryInv /\ AdmissionTypeOK /\
\A p \in Pods : PodInv(pod[p])`. `PodInv` is the strengthening: a call between
its two critical sections has settings to work with (so the second section
never dereferences nil) and a rule that is the registry's or of a valid config
map. `OwnRulesComeFirst` rests on `RegistryInOrder`, which makes the first
match the one of least priority, and on `MinFacts`: a nonempty set of numbers
has a least element, from the library's well-foundedness of strict inclusion on
finite sets, since induction over numbers is out of the provers' reach. `ClusterIsFollowed` puts
the parts together: by `FreshInv`, a registry with no correction on its way is
the cluster's (`ListIsCluster`), and the rules a pod is tried against are three
lists one behind the other (`ThreeLists`), of which the first match is found.
For this the null values must be none of the specs and rules
(`NoObject \notin KnownSpecs`, `NoRule \notin Rules \cup ValuesRules`).

`NodeShimProofs.tla`, from `ShimAssumption`, for any number of requests and
signals:

* `ShimTypeCorrect`: `Spec => []ShimTypeOK`, with what ties the variables
  together (only a handled signal shuts down, an open span belongs to a request
  in progress)
* `NeverEndsByItself`: `Spec => []EndsOnlyWhenTold`
* `FlushesBeforeExit`: `Spec => []FinishedSpansAreFlushed`

The inductive invariant is `ShimTypeOK /\ Ending`, where `Ending` is the
conjunction of the last two. It needs `ShimTypeOK`: that the process which ends
by its handler was sent a signal follows from `shutdown = "pending" =>
delivered > 0`.

`OtelCollectorsProofs.tla`, from `CollectorsAssumption` and
`NoObjectAssumption` (the null value is none of the actors and maps), for any
number of collectors, create calls, writes, crashes and failing calls:

* `CollectorsTypeCorrect`: `Spec => []CollectorsTypeOK`
* `RegistrationsAreCorrected`: `Spec => []NoStaleRegistrationIsFinal`

The types alone are not inductive: `CallsOK` adds that an actor about to store
holds a map that exists, and that the steps of `upsertOtelCollector` have an
object that is not a sidecar. The second theorem needs `FreshInv`, a chain from
the API server to the map of which every link may be late but none is lost:

* `BeforeList`: nothing is queued, registered or stored until the informers have
  listed, so the first reconcile of every collector is still to come
* `CacheFollows`: the last event not delivered, or else the informer's copy, is
  the object in the API server
* `CopyIsFresh`: the reconciler works on the informer's copy, or the name is
  queued again
* `RegistrationsFollow`: each entry is that of the informer's copy, or an actor,
  the queue or an event is about to correct it, or a call of the API has failed
* `MapsInUse`: a map that has been made is the namespace's or was replaced; an
  actor about to make one has none

`RegistrationsFollow` is claimed for `~Split` only: once two actors have both
made the map, the entry one of them stored is in a map nobody reads, and no
event follows. Every other order in which the actors' steps on the maps
interleave is repaired.

`PodPatchProofs.tla`, from `PatchAssumption`, for any pods and for rules with any
number of members:

* `PanicsAreOfIncompleteRules`: `Spec => []OnlyIncompleteRulesPanic`
* `PatchesApply`: `Spec => []PatchApplies`
* `VolumesAreMounted`: `Spec => []MountsHaveVolumes`
* `ApplicationStays`: `Spec => []ApplicationIsKept`
* `PatchTypes`: `Spec => []PatchTypeOK`

The difficulty is that patches are built and applied by folds, whose recursion
the provers cannot see through. `SetInduction` is an induction over numbers for
*sets* of numbers (again from the well-foundedness of inclusion). `FoldExists`
uses it to turn a fold into a sequence of intermediate results, each the step of
the one before. From it come `PatchRuns` (a patch is applied one operation at a
time) and `PatchConcat` (one patch after the other), `DropsRun` for the indices
that `dropPassedConfig` computes and `KeptRun` for `removeDupliciteEnvs`.

The inductive invariant is `PatchInv`: `Typed`, `MembersAre` (each member is
completed from the rule's, with an environment, and has all its options unless
it is of a custom resource's rule set), `OpsAre` and `Outcome` (what `at` says is
what applying `ops` gives, and a panic is of one of the two kinds of rules that
are incomplete). `OpsAre` is the heart: the operations are the missing
lists followed by a patch that *carries* the volumes of everything it mounts,
and that applies to any pod that has all lists. `PatchesApply` and
`VolumesAreMounted` are about the finished patch, but a member of a rule set
appends to what others have left, and `removeDupliciteEnvs` then goes over all of
it; both keep `OpsAre`, because every technology's patch carries its own volumes
(`Brings`, one lemma for each; that of a sidecar is `SidecarBrings`, where what a
collector's spec does not bring itself is the exception `NotBrought`) and because removing variables makes no
difference to any other list (`KeptChanges`). At most two mounts of passed
configuration, where the indices stay within the list, is the exception that
`PatchApplies` states, not a hypothesis.

`PodContentProofs.tla`, from `PatchAssumption`, about what the created pod holds:

* `SidecarsAreUsed`: `Spec => []SidecarIsUsed`
* `AgentsAreTold`: `Spec => []CollectorIsTold`
* `AttributesAreConfigured`: `Spec => []AttributesAsConfigured`
* `MountsStay`: `Spec => []MountsAreKept`
* `NamesStayDistinct`: `Spec => []NamesAreDistinct`
* `ReferencesAreResolved`: `Spec => []ReferencesResolve`

`PatchInv` says which operations a patch may have, not which variables and
containers they add. `ContentInv` is `PatchInv` with that: the operations are the
missing lists and a patch `x` with `Content(x)`. Its part `Sided` is about rule
sets of any length: as long as the lookups agree (`looked`), whatever `x` adds
that sends to a sidecar comes with the sidecar's container; every technology's
patch satisfies it (`RuleTells`), it holds of two patches in a row, and dropping
variables cannot break it. Its part `Sole` is about a rule's only member, and
keeps `x` itself: the patch of that member with the lookups that were made,
reduced if the rule is a set. What the patch of each technology adds is computed
once (`Gives`: the sets of variables, init containers and containers), and from
it whether the agent is told where its collector is (`Tells`, with the user's
own variables as the exception they are in a rule set). `CreatedWith` carries
the sets over to the created pod. `AttributesAreConfigured` rests besides on
`MembersCompleted`: what the layers of templates and defaults make of `attrs`,
for every value that may be unset.

The part `Mounting` of `Content` says what the members so far leave of the
application's mounts: all of them in front (`Keeps`) until a web server's patch
has removed the one that passes its configuration, and all others in front from
then on (`AreKept`). The patch posts the index that the mount has in the pod as
it is posted, while the mounts of the members before are already behind it;
`DropServes` says that the index is still the right one, because additions only
append. With two such mounts it is not (finding 4), which is why the property,
and with it the theorem, is about one.

The part `Named` says that the lists of the document so far have no name twice,
and that every name in them is the pod's own or of a member so far (`Taken`).
Each technology's patch puts only the names that belong to its agent and the
container of its collector, none of them twice (`Puts`, `RulePuts`), as long as
the volumes of the collectors whose sidecars it adds have names of their own
(`Fits`); what
belongs to two members with different agents, of which one at most names a
collector, is disjoint (`OwnedApart`), which is where the numbered names of the
agents' volumes matter (`NumbersDiffer`); so the next member's names are free
(`OwnedIsFree`). `removeDupliciteEnvs` changes variables alone (`Alike`).

The part `Referring` is about order, which sets of variables do not have. Each
technology's patch refers only to what the same patch has defined further up,
and defines nothing twice but what its user defines as well (`Speaks`,
`RuleSpeaks`); a patch behind other members' keeps both (`ReferringNext`). What
`removeDupliciteEnvs` drops is still defined by the last variable of the name
(`LastIsKept`), but that one may be behind what refers to it: this is where the
first exception of `ReferencesResolve` comes from, and the proof shows that
nothing else can fall under it, for a variable nobody defines twice is kept where
it was (`ReferringReduced`). `Follows` carries the order to the created pod: its
variables are the application's and then those of the patch, as they were added
(`ChangesFollow`).

### Only model-checked

* Liveness (`RegistryConverges`, `ReconcilersComeToRest`, `DenialsEnd`,
  `CollectorsComeUp`, `DeletedCollectorsGoAway`, `EndsAfterSigterm`): out of
  reach for TLAPS.

Every other property of a passing run is stated by a theorem.

## 5. Plan

All modules of the plan but one are written: `RuleTable`, `RuleBook`,
`RuleRegistry`, `PodAdmission`, `OtelCollectors`, `RuleDefaults`, `PodPatch`,
`NodeShim`. What is left is `updateConfig` return by return, as a refinement of
`UpdateConfig`, and `loadOtelConfig`.

### Not modelled

* *Nginx patcher*: an init container's command that inserts two fixed directives
  into a text and ends. It keeps no state; its substance is text processing.
* *Self-tracing*: sets up an exporter and adds attributes; I/O only.
* *API types*: data; the deepcopy code is generated.
* *Helm charts, images, e2e tests, workloads*: configuration and samples. What
  the charts set for the webhooks (CREATE only, `timeoutSeconds`,
  `failurePolicy`) is built into `RuleRegistry` and `PodAdmission`. The .NET
  sample holds a vendored jQuery plugin.
* *Within modelled parts*: the flex match template, annotations, names,
  resources, images and commands of a patch, regular expressions.
