------------------------------ MODULE PodPatch ------------------------------
(***************************************************************************)
(* The JSON patch that instruments a pod (instrument.go, instrument*.go,   *)
(* otelCollSidecar.go) and what the API server, which is external, makes   *)
(* of the pod with it.                                                     *)
(*                                                                         *)
(* The instrumented container is the first one: its variables and mounts   *)
(* are `env' and `mounts' of the pod.  Several lookups of the collector    *)
(* are made on the way; nothing keeps the maps from changing in between.   *)
(* Variables that nothing refers to are represented by one of each group;  *)
(* annotations, resources, images and commands are left out.               *)
(***************************************************************************)
EXTENDS RuleDefaults, FiniteSets

CONSTANTS
  Apps,            \* pods that users create
  Rules,           \* rules that are chosen for them
  OwnSidecars,     \* collectors of the pod's namespace that are sidecars:
  SidecarMounts,   \* the volumes the spec of each of them mounts,
  SidecarVolumes   \* and the volumes that it brings

Lists == {"env", "mounts", "volumes", "inits", "containers"}

(* The volumes that the containers of a pod mount.                           *)
Mounted(p) ==
  {m.volume : m \in ToSet(p.mounts)}
    \cup UNION {ToSet(c.volumes) : c \in ToSet(p.inits) \cup ToSet(p.containers)}

IsSeq(s) == s \in Seq(ToSet(s))

IsPod(p) == p \in [env        : Seq(ToSet(p.env)),
                  mounts     : Seq(ToSet(p.mounts)),
                  volumes    : Seq(ToSet(p.volumes)),
                  inits      : Seq(ToSet(p.inits)),
                  containers : Seq(ToSet(p.containers))]

(* What users define themselves names no collector of the webhook's.         *)
SendsNowhere(s) == \A i \in DOMAIN s : s[i].to = "none"

IsOption(o) == /\ o.attrs \in BOOLEAN \cup {Unset}
               /\ IsSeq(o.env) /\ SendsNowhere(o.env)

Names(containers) == [i \in DOMAIN containers |-> containers[i].name]

IsInjectionRule(r) ==
  /\ DOMAIN r = {"technology", "template", "env"} \cup Options
  /\ IsOption(r)
  /\ r.template \in {Unset, NotFound} \/ IsOption(r.template)

(* What getCollectorConfigsByName may find: nothing, a collector of the      *)
(* namespace, registered for a custom resource, or one of the config map.    *)
(* Either may have no mode.                                                  *)
OtherCollectors == {"none", "ownService", "ownModeless",
                    "mapSidecar", "mapService", "mapModeless"}
Collectors      == OtherCollectors \cup OwnSidecars

(* What may be posted and chosen: pods with a container, that mount volumes  *)
(* of theirs only and name nothing twice, for the API server would not       *)
(* accept others, with or without the patch; rules with a rule set (`set':   *)
(* injectionRuleSet is not empty), or else with one injection rule, or of    *)
(* the config map with neither (validateInstrumentationConfig lets them      *)
(* pass; the reconcilers do not register objects without injectionRules).    *)
ASSUME PatchAssumption ==
  /\ Unset \notin BOOLEAN /\ Unset \notin {"default", "changed"}
  /\ OwnSidecars \cap (OtherCollectors \cup {"changed", Unset}) = {}
  /\ DOMAIN SidecarMounts = OwnSidecars /\ DOMAIN SidecarVolumes = OwnSidecars
  /\ \A c \in OwnSidecars : IsSeq(SidecarMounts[c]) /\ IsSeq(SidecarVolumes[c])
  /\ \A p \in Apps : /\ IsPod(p)
                     /\ p.containers # <<>>
                     /\ Mounted(p) \subseteq ToSet(p.volumes)
                     /\ IsInjective(p.volumes)
                     /\ IsInjective(Names(p.inits)) /\ IsInjective(Names(p.containers))
                     /\ SendsNowhere(p.env) /\ SendsNowhere(p.inits)
  /\ \A r \in Rules : /\ r.source \in {"configmap", "cr"}
                      /\ r.set \in BOOLEAN
                      /\ IsSeq(r.members)
                      /\ IF r.set THEN r.members # <<>>
                         ELSE \/ Len(r.members) = 1
                              \/ r.source = "configmap" /\ r.members = <<>>
                      /\ \A m \in ToSet(r.members) : IsInjectionRule(m)

VARIABLES
  app,          \* the pod as the API server posts it
  rule,         \* the rule that was chosen
  members,      \* its injection rules, completed from templates and defaults
  at,           \* "start", "instrument", or what came of it:
                \* "created", "failed", "panicked"
  next,         \* the injection rule that is next
  looked,       \* what every lookup of the collector has found, or "changed"
  ops,          \* the patch
  pod           \* the pod as it is: as posted, then as created

vars == <<app, rule, members, at, next, looked, ops, pod>>

-----------------------------------------------------------------------------
(* Patch operations.                                                         *)

Create(list)        == [op |-> "create", list |-> list, value |-> <<>>]
AddItem(list, item) == [op |-> "append", list |-> list, value |-> item]
Removing(list, index) == [op |-> "remove", list |-> list, value |-> index]

Adding(list, items) == [i \in DOMAIN items |-> AddItem(list, items[i])]
Env(variables)      == Adding("env", variables)

AppContainer == "app"
Mount(volume, dir) == [volume |-> volume, dir |-> dir]

(* Init containers and sidecars: the volumes they mount and the collector    *)
(* endpoint in their configuration.                                          *)
Container(name, volumes, to) == [name |-> name, volumes |-> volumes, to |-> to]

(* The pod as the API server patches it: lists that are empty are left out   *)
(* of its JSON; ok is false as soon as an operation does not apply.          *)
Document(p) == [lists |-> p, has |-> {list \in Lists : p[list] # <<>>}, ok |-> TRUE]

(* The path of the list of volumes ends in a slash, and names a member of a  *)
(* list that is not there.                                                   *)
Applicable(doc, o) ==
  CASE o.op = "create" -> o.list # "volumes"
    [] o.op = "append" -> o.list \in doc.has
    [] o.op = "remove" -> o.list \in doc.has /\ o.value \in DOMAIN doc.lists[o.list]

applyOp(doc, o) ==
  CASE o.op = "create" -> [doc EXCEPT !.lists[o.list] = <<>>, !.has = @ \cup {o.list}]
    [] o.op = "append" -> [doc EXCEPT !.lists[o.list] = Append(@, o.value)]
    [] o.op = "remove" -> [doc EXCEPT !.lists[o.list] = RemoveAt(@, o.value)]

(* A patch is applied as a whole or not at all. *)
applyPatch(doc, patch) ==
  FoldLeft(LAMBDA d, o : IF d.ok /\ Applicable(d, o) THEN applyOp(d, o)
                         ELSE [d EXCEPT !.ok = FALSE],
           doc, patch)

-----------------------------------------------------------------------------
(* Collectors.                                                               *)

Found(c)      == c # "none"
Namespaced(c) == c \in {"ownService", "ownModeless"} \cup OwnSidecars
IsSidecar(c)  == c \in {"mapSidecar"} \cup OwnSidecars
IsService(c)  == c \in {"ownService", "mapService"}
Endpoint(c)   == IF IsSidecar(c) THEN "sidecar" ELSE IF IsService(c) THEN "service" ELSE "none"

(* The lookups of one injection rule, with at most one change on the way.    *)
Lookups == {[i \in 1..4 |-> IF i <= n THEN c ELSE d] :
              c \in Collectors, d \in Collectors, n \in 0..4}

ConfigVolume == "otel-collector-config-vol"
SidecarName  == "otel-coll-sidecar"
SidecarInit  == "otel-coll-sidecar-init"

(* What the spec of a collector adds: those of the config map have none.     *)
OwnMounts(c)  == IF c \in OwnSidecars THEN SidecarMounts[c] ELSE <<>>
OwnVolumes(c) == IF c \in OwnSidecars THEN SidecarVolumes[c] ELSE <<>>

Sidecar(c) == Container(SidecarName, Append(OwnMounts(c), ConfigVolume), "none")

(* Mutant of SidecarOps: the loop over the spec's volumes is gone.           *)
SidecarOpsWithoutVolumes(c) ==
  <<AddItem("containers", Sidecar(c)),
    AddItem("inits", Container(SidecarInit, <<ConfigVolume>>, "none")),
    AddItem("volumes", ConfigVolume)>>

SidecarOps(c) ==
  <<AddItem("containers", Sidecar(c)),
    AddItem("inits", Container(SidecarInit, <<ConfigVolume>>, "none")),
    AddItem("volumes", ConfigVolume)>> \o Adding("volumes", OwnVolumes(c))

(* Mutant of addOtelCollSidecar: only the collectors of the config map. *)
MapSidecarsOnly(first, second) ==
  IF Found(first) /\ ~Namespaced(first) THEN SidecarOps(first) ELSE <<>>

(* addOtelCollSidecar looks the collector up again; if it is the namespace's *)
(* so does addOtelCollSidecarNamespaced, which wants a sidecar and takes the *)
(* spec that it has found itself.                                            *)
addOtelCollSidecar(first, second) ==
  IF Namespaced(first) THEN IF second \in OwnSidecars THEN SidecarOps(second) ELSE <<>>
  ELSE IF Found(first) THEN SidecarOps(first) ELSE <<>>

SidecarIf(tested, first, second) ==
  IF IsSidecar(tested) THEN addOtelCollSidecar(first, second) ELSE <<>>

(* Mutant of Exporting: the variable comes with a sidecar only. *)
ExportingToSidecars(look) ==
  IF IsSidecar(look[1])
    THEN Env(<<VarTo("OTEL_EXPORTER_OTLP_ENDPOINT", Endpoint(look[1]))>>)
           \o addOtelCollSidecar(look[2], look[3])
    ELSE <<>>

(* Where the agents of OpenTelemetry send to. *)
Exporting(look) ==
  IF IsSidecar(look[1]) \/ IsService(look[1])
    THEN Env(<<VarTo("OTEL_EXPORTER_OTLP_ENDPOINT", Endpoint(look[1]))>>)
           \o SidecarIf(look[1], look[2], look[3])
    ELSE <<>>

-----------------------------------------------------------------------------
(* The patches of the technologies, each for an injection rule r.            *)

AccessKey  == "APPDYNAMICS_AGENT_ACCOUNT_ACCESS_KEY"
Attributes == "OTEL_RESOURCE_ATTRIBUTES"

addControllerEnvVars == Env(<<Var(AccessKey), Var("APPDYNAMICS_CONTROLLER_HOST_NAME")>>)
Naming  == Env(<<Var("APPDYNAMICS_AGENT_APPLICATION_NAME")>>)
Netviz  == Env(<<Var("APPDYNAMICS_NETVIZ_AGENT_HOST")>>)
Service == Env(<<Var("OTEL_SERVICE_NAME")>>)

addK8SOtelResourceAttrs(r, name) ==
  IF r.attrs THEN Env(<<Var("K8S_POD_IP"), VarWith(name, {"K8S_POD_IP"})>>) ELSE <<>>

(* The agent's volume, and the init container that fills it. *)
Agent(repo) == <<AddItem("mounts", Mount(repo, "agent")),
                 AddItem("inits", Container(repo, <<repo>>, "none")),
                 AddItem("volumes", repo)>>

JavaOptions(r, c) ==
  [name |-> "JAVA_TOOL_OPTIONS", to |-> Endpoint(c),
   refs |-> {AccessKey} \cup (IF Found(c) /\ r.attrs THEN {Attributes} ELSE {})]

(* Mutant of addJavaEnvVar: what the options refer to comes after them.      *)
JavaOptionsFirst(r, c) ==
  Env(<<JavaOptions(r, c)>>) \o addK8SOtelResourceAttrs(r, Attributes)

addJavaEnvVar(r, c) ==
  addK8SOtelResourceAttrs(r, Attributes) \o Env(<<JavaOptions(r, c)>>)

javaAppd(r, look) ==
  addControllerEnvVars \o addJavaEnvVar(r, look[1])
    \o Naming \o Env(r.env) \o Netviz \o Agent("appd-agent-repo-java")
    \o SidecarIf(look[2], look[3], look[4])

dotnetOtelEnv(r) ==
  addK8SOtelResourceAttrs(r, "OTEL_RESOURCE_ATTRIBUTES_K8S")
    \o Env(<<VarWith(Attributes, IF r.attrs THEN {"OTEL_RESOURCE_ATTRIBUTES_K8S"} ELSE {})>>)

dotnetAppd(r, look) ==
  addControllerEnvVars \o Env(<<Var("CORECLR_PROFILER")>>)
    \o (IF Found(look[1]) THEN dotnetOtelEnv(r) ELSE <<>>) \o Exporting(look)
    \o Naming \o Env(r.env) \o Netviz \o Agent("appd-agent-repo-dotnetcore")

nodejsAppd(r) ==
  addControllerEnvVars \o Env(<<Var("NODE_OPTIONS")>>)
    \o Naming \o Env(r.env) \o Netviz \o Agent("appd-agent-repo-nodejs")

(* java/splunk is instrumented in the same way. *)
javaOtel(r, look) ==
  Env(<<Var("JAVA_TOOL_OPTIONS"), Var(Attributes)>>) \o Service \o Env(r.env)
    \o Agent("otel-agent-repo-java") \o Exporting(look)

dotnetOtel(r, look) ==
  Env(<<Var("CORECLR_PROFILER")>>) \o Service \o Env(<<Var(Attributes)>>)
    \o Exporting(look) \o Env(r.env) \o Agent("otel-agent-repo-dotnetcore")

(* Mutant of nodejsOtel: the volume of another agent. *)
NodejsWithJavaVolume(r, look) ==
  Env(<<Var("NODE_OPTIONS")>>) \o Service \o Env(r.env)
    \o Agent("otel-agent-repo-java") \o Exporting(look)

nodejsOtel(r, look) ==
  Env(<<Var("NODE_OPTIONS")>>) \o Service \o Env(r.env)
    \o Agent("otel-agent-repo-nodejs") \o Exporting(look)

(* dir tells the mounts that are passed configuration of the web server.     *)
Apache == [dir |-> "apache", repo |-> "otel-agent-repo-apache",
           conf |-> "apache-conf-dir", copy |-> "apache-source-copy", env |-> <<>>]
Nginx  == [dir |-> "nginx", repo |-> "otel-agent-repo-nginx",
           conf |-> "nginx-conf-dir", copy |-> "nginx-source-copy",
           env |-> <<Var("LD_LIBRARY_PATH")>>]

IsPassed(mount, server) == mount.dir = server.dir

(* Mutant of dropPassedConfig: indices count from 0. *)
DropBefore(p, server) ==
  FoldLeftDomain(LAMBDA drops, i : IF IsPassed(p.mounts[i], server)
                   THEN Append(drops, Removing("mounts", i - 1)) ELSE drops,
                 <<>>, p.mounts)

(* By the indices of the pod as it is posted, in ascending order.            *)
dropPassedConfig(p, server) ==
  FoldLeftDomain(LAMBDA drops, i : IF IsPassed(p.mounts[i], server)
                   THEN Append(drops, Removing("mounts", i)) ELSE drops,
                 <<>>, p.mounts)

(* A copy of the application's container, run first, copies the              *)
(* configuration to where the agent's init container changes it.             *)
CloneAsInit(p, server) ==
  Container(server.copy, Append([i \in DOMAIN p.mounts |-> p.mounts[i].volume],
                                server.conf), "none")

WebserverVolumes(server) ==
  <<AddItem("volumes", server.repo), AddItem("volumes", server.conf)>>

webserverOtel(p, r, look, server) ==
  Env(server.env) \o addK8SOtelResourceAttrs(r, Attributes) \o Env(r.env)
    \o <<AddItem("mounts", Mount(server.conf, server.dir)),
         AddItem("mounts", Mount(server.repo, "agent")),
         AddItem("inits", CloneAsInit(p, server))>>
    \o dropPassedConfig(p, server)
    \o <<AddItem("inits", Container(server.repo, <<server.conf, server.repo>>,
                                    Endpoint(look[1])))>>
    \o WebserverVolumes(server)
    \o SidecarIf(look[2], look[3], look[4])

(* What has no agent, or is unknown, is only annotated.                      *)
Instrumented == {"java/appd", "dotnetcore/appd", "nodejs/appd", "java/otel", "java/splunk",
                 "dotnetcore/otel", "nodejs/otel", "apache/otel", "nginx/otel"}

UsesAttrs(r, look) ==
  \/ r.technology \in {"java/appd", "apache/otel", "nginx/otel"}
  \/ r.technology = "dotnetcore/appd" /\ Found(look[1])

(* A nil option is dereferenced. *)
Panics(r, look) ==
  /\ r.technology \in Instrumented
  /\ r.reservation = Unset \/ (UsesAttrs(r, look) /\ r.attrs = Unset)

applyInjectionRule(p, r, look) ==
  CASE r.technology = "java/appd"       -> javaAppd(r, look)
    [] r.technology = "dotnetcore/appd" -> dotnetAppd(r, look)
    [] r.technology = "nodejs/appd"     -> nodejsAppd(r)
    [] r.technology \in {"java/otel", "java/splunk"} -> javaOtel(r, look)
    [] r.technology = "dotnetcore/otel" -> dotnetOtel(r, look)
    [] r.technology = "nodejs/otel"     -> nodejsOtel(r, look)
    [] r.technology = "apache/otel"     -> webserverOtel(p, r, look, Apache)
    [] r.technology = "nginx/otel"      -> webserverOtel(p, r, look, Nginx)
    [] OTHER                            -> <<>>

-----------------------------------------------------------------------------
IsVariable(o) == o.list = "env" /\ o.op = "append"

(* Keeps the last of the variables of one name.                              *)
removeDupliciteEnvs(patch) ==
  LET again(i) == \E j \in (i + 1)..Len(patch) :
                    IsVariable(patch[j]) /\ patch[j].value.name = patch[i].value.name
  IN  FoldLeftDomain(LAMBDA kept, i : IF IsVariable(patch[i]) /\ again(i) THEN kept
                                      ELSE Append(kept, patch[i]),
                     <<>>, patch)

(* Mutant of EmptyList: the variables of the pod are not looked at.          *)
EmptyListOrVariables(p, list) ==
  IF p[list] = <<>> \/ list = "env" THEN <<Create(list)>> ELSE <<>>

EmptyList(p, list) == IF p[list] = <<>> THEN <<Create(list)>> ELSE <<>>

(* Mutant of EmptyLists: the mounts are forgotten. *)
EmptyListsButMounts(p) ==
  EmptyList(p, "env") \o EmptyList(p, "volumes") \o EmptyList(p, "inits")

(* Lists that are empty are added first. *)
EmptyLists(p) ==
  EmptyList(p, "env") \o EmptyList(p, "mounts")
    \o EmptyList(p, "volumes") \o EmptyList(p, "inits")

Completed(r, inSet) ==
  IF rule.source = "configmap" THEN fromConfigMap(r, inSet) ELSE fromCustomResource(r, inSet)

Init ==
  /\ app \in Apps
  /\ rule \in Rules
  /\ members = <<>>
  /\ at = "start"
  /\ next = 1
  /\ looked = Unset
  /\ ops = <<>>
  /\ pod = app

(* The rule is completed when it is loaded or registered, long before; here  *)
(* it is when it is used.                                                    *)
Complete ==
  /\ at = "start"
  /\ LET may(r) == Completed(r, rule.set)
     IN  \E m \in [DOMAIN rule.members -> UNION {may(r) : r \in ToSet(rule.members)}] :
           /\ \A i \in DOMAIN m : m[i] \in may(rule.members[i])
           /\ members' = m
  /\ ops' = EmptyLists(app)
  /\ at' = "instrument"
  /\ UNCHANGED <<app, rule, next, looked, pod>>

(* What the lookups so far, and those of this injection rule, have found. *)
Looking(look) == IF \A i \in 1..4 : look[i] = look[1] /\ looked \in {Unset, look[i]}
                   THEN look[1] ELSE "changed"

NoLookups == [i \in 1..4 |-> "none"]

(* applyInjectionRule for the next member, or for the only one.              *)
Instrument ==
  /\ at = "instrument"
  /\ next \in DOMAIN members
  /\ LET r == members[next]
     IN  \E look \in IF r.collector = Unset THEN {NoLookups} ELSE Lookups :
           /\ looked' = IF r.collector = Unset THEN looked ELSE Looking(look)
           /\ IF Panics(r, look) THEN at' = "panicked" /\ UNCHANGED <<ops, next>>
              ELSE LET patch == ops \o applyInjectionRule(app, r, look)
                   IN  /\ ops' = IF rule.set THEN removeDupliciteEnvs(patch) ELSE patch
                       /\ next' = next + 1
                       /\ at' = at
  /\ UNCHANGED <<app, rule, members, pod>>

(* A rule of the config map with neither a set nor an injection rule: the    *)
(* injection rule that is not there is dereferenced.                         *)
DereferenceNil ==
  /\ at = "instrument"
  /\ members = <<>>
  /\ at' = "panicked"
  /\ UNCHANGED <<app, rule, members, next, looked, ops, pod>>

(* The API server applies the patch. *)
Patch ==
  /\ at = "instrument"
  /\ members # <<>> /\ next \notin DOMAIN members
  /\ LET doc == applyPatch(Document(app), ops)
     IN  IF doc.ok THEN at' = "created" /\ pod' = doc.lists
                   ELSE at' = "failed" /\ UNCHANGED pod
  /\ UNCHANGED <<app, rule, members, next, looked, ops>>

Next == Complete \/ Instrument \/ DereferenceNil \/ Patch

Spec == Init /\ [][Next]_vars

-----------------------------------------------------------------------------
(* Properties.                                                               *)

PatchTypeOK ==
  /\ at \in {"start", "instrument", "created", "failed", "panicked"}
  /\ next \in 1..Len(rule.members) + 1
  /\ looked \in Collectors \cup {"changed", Unset}
  /\ at # "start" => /\ Len(members) = Len(rule.members)
                     /\ \A i \in DOMAIN members :
                          /\ members[i].attrs \in BOOLEAN \cup {Unset}
                          /\ members[i].template = rule.members[i].template
  /\ \A i \in DOMAIN ops :
       /\ ops[i].list \in Lists
       /\ ops[i].op = "remove" => ops[i].value \in Nat \ {0}
  /\ at # "created" => pod = app

(* The mounts that pass configuration to a web server. *)
Passing(p, server) == {i \in DOMAIN p.mounts : IsPassed(p.mounts[i], server)}

(* The patch always applies, to whatever the pod has no list of, except to   *)
(* pods without volumes (instrument.go, "/spec/volumes/"), and to those that *)
(* pass configuration in so many mounts that the last indices, which count   *)
(* the mounts that are removed before them, point behind the list.           *)
PatchApplies ==
  at = "failed" =>
    \/ app.volumes = <<>>
    \/ \E server \in {Apache, Nginx} : Cardinality(Passing(app, server)) > 2

(* Of the volumes that a sidecar mounts, those that it mounts by the spec of *)
(* its collector only, and that this spec does not bring.                    *)
NotBrought(container) ==
  UNION {ToSet(SidecarMounts[c]) \ ToSet(SidecarVolumes[c]) :
           c \in {c \in OwnSidecars : container = Sidecar(c)}}

(* A container of the created pod mounts nothing but volumes of the pod: for *)
(* each agent, the mounts of the application, of the init containers and of  *)
(* the copy of the application's container come with their volumes, and so   *)
(* do those of a sidecar that its collector's spec brings.                   *)
MountsHaveVolumes ==
  at = "created" =>
    /\ Mounted([pod EXCEPT !.containers = <<>>]) \subseteq ToSet(pod.volumes)
    /\ \A c \in ToSet(pod.containers) :
         ToSet(c.volumes) \ NotBrought(c) \subseteq ToSet(pod.volumes)

UserVars == UNION {ToSet(r.env) : r \in ToSet(members)}

Templated == \E r \in ToSet(members) : r.template \notin {Unset, NotFound}

(* Variables that refer to nothing but what is defined further up.           *)
IsClosed(env) ==
  \A i \in DOMAIN env : \A name \in env[i].refs : \E j \in 1..(i - 1) : env[j].name = name

(* Kubernetes expands $(name) only if name is defined further up: what a     *)
(* variable refers to is, if the users' own variables are closed.  Two       *)
(* exceptions: of equal names in a rule set the last remains                 *)
(* (removeDupliciteEnvs), which refers to the first or is behind what does;  *)
(* and a template loses the order of the user's variables (mergeNameValues). *)
ReferencesResolve ==
  at = "created" /\ IsClosed(app.env) /\ (\A r \in ToSet(rule.members) : IsClosed(r.env)) =>
    \A i \in DOMAIN pod.env : \A name \in pod.env[i].refs :
      \/ \E j \in 1..(i - 1) : pod.env[j].name = name
      \/ /\ rule.set
         /\ Len(members) > 1 \/ \E v \in UserVars : v.name = name
         /\ \E j \in i..Len(pod.env) : pod.env[j].name = name
      \/ Templated /\ pod.env[i] \in UserVars

Webservers == {i \in DOMAIN members : members[i].technology \in {"apache/otel", "nginx/otel"}}

IsConfig(mount) ==
  \E i \in Webservers :
    IsPassed(mount, IF members[i].technology = "apache/otel" THEN Apache ELSE Nginx)

(* What the application has is left alone, and stays in front: variables,    *)
(* volumes and containers.                                                   *)
ApplicationIsKept ==
  at = "created" => \A list \in Lists \ {"mounts"} : IsPrefix(app[list], pod[list])

PassedMounts == {i \in DOMAIN app.mounts : IsConfig(app.mounts[i])}

(* So are its mounts, but for the configuration that is passed to a web      *)
(* server, if it is in one mount and there is one web server                 *)
(* (PassedConfigIsDropped is about two).                                     *)
MountsAreKept ==
  at = "created" /\ Cardinality(PassedMounts) <= 1 /\ Cardinality(Webservers) <= 1 =>
    /\ PassedMounts = {} => IsPrefix(app.mounts, pod.mounts)
    /\ \A i \in PassedMounts : IsPrefix(RemoveAt(app.mounts, i), pod.mounts)

(* What the webhook names.                                                   *)
Agents ==
  {"appd-agent-repo-java", "appd-agent-repo-dotnetcore", "appd-agent-repo-nodejs",
   "otel-agent-repo-java", "otel-agent-repo-dotnetcore", "otel-agent-repo-nodejs"}
    \cup UNION {{server.repo, server.conf, server.copy} : server \in {Apache, Nginx}}

SidecarNames == {ConfigVolume, SidecarName, SidecarInit}

(* The pod itself has none of those names; a pod that is a copy of one that  *)
(* was instrumented has them.                                                *)
IsUnclaimed(p) ==
  (ToSet(p.volumes) \cup ToSet(Names(p.inits)) \cup ToSet(Names(p.containers)))
    \cap (Agents \cup SidecarNames) = {}

(* The volumes of a collector have names of their own. *)
VolumesFit(c) ==
  /\ IsInjective(SidecarVolumes[c])
  /\ ToSet(SidecarVolumes[c]) \cap (ToSet(app.volumes) \cup Agents \cup SidecarNames) = {}

SidecarsFit ==
  \A c \in OwnSidecars : Sidecar(c) \in ToSet(pod.containers) => VolumesFit(c)

(* A pod with two containers or two volumes of one name is refused: there    *)
(* are none unless the pod, or the spec of the collector beside it, has a    *)
(* name of the webhook's or of the other's itself, or two members of a rule  *)
(* set are for the same agent, or name a collector each.                     *)
NamesAreDistinct ==
  /\ at = "created"
  /\ IsUnclaimed(app)
  /\ SidecarsFit
  /\ \A i, j \in DOMAIN members : i # j =>
       /\ members[i].technology # members[j].technology
       /\ {members[i].technology, members[j].technology} # {"java/otel", "java/splunk"}
       /\ Unset \in {members[i].collector, members[j].collector}
  => /\ IsInjective(pod.volumes)
     /\ IsInjective(Names(pod.inits))
     /\ IsInjective(Names(pod.containers))

SendsToSidecar == \/ \E v \in ToSet(pod.env)   : v.to = "sidecar"
                  \/ \E c \in ToSet(pod.inits) : c.to = "sidecar"

HasSidecar == \E c \in ToSet(pod.containers) : c.name = SidecarName

(* In a rule set, a variable of the user's own takes the place of the one    *)
(* that tells the agent where to send to (removeDupliciteEnvs).              *)
TellingVars == {"JAVA_TOOL_OPTIONS", "OTEL_EXPORTER_OTLP_ENDPOINT"}
IsOverridden == rule.set /\ \E v \in UserVars : v.name \in TellingVars

(* An agent sends to a collector beside it only if there is one, however the *)
(* technologies go about it; the converse holds but for rule sets, and pods  *)
(* with such a container of their own.  The lookups may disagree if the      *)
(* collector changes during the call.                                        *)
SidecarIsUsed ==
  at = "created" /\ looked # "changed" =>
    /\ SendsToSidecar => HasSidecar
    /\ HasSidecar /\ Len(members) = 1 /\ IsUnclaimed(app) /\ ~IsOverridden => SendsToSidecar

(* Technologies whose agent can send to a collector.                         *)
Sending == Instrumented \ {"nodejs/appd"}

(* Whatever the technology, an agent whose collector is found is told where  *)
(* it is, in one place or another of the pod; the exceptions are a collector *)
(* that has no mode, which if it is the namespace's is run all the same      *)
(* (crdReconciler.go), and a variable that is overridden.                    *)
CollectorIsTold ==
  at = "created" /\ Len(members) = 1 /\ members[1].technology \in Sending
    /\ looked \notin {Unset, "none", "changed", "ownModeless", "mapModeless"}
    /\ ~IsOverridden =>
      \/ \E v \in ToSet(pod.env)   : v.to = Endpoint(looked)
      \/ \E c \in ToSet(pod.inits) : c.to = Endpoint(looked)

(* Only incomplete rules can end the call of a pod in a panic, and of those  *)
(* only two kinds: a rule set of a custom resource, whose members get no     *)
(* defaults, and a rule of the config map with neither a set nor an          *)
(* injection rule.  Whatever else is left out, a layer of defaults fills in. *)
OnlyIncompleteRulesPanic ==
  at = "panicked" =>
    \/ rule.source = "cr" /\ rule.set
    \/ rule.source = "configmap" /\ rule.members = <<>>

(* The attributes of the pod are injected for a rule of the config map as    *)
(* the rule says, else its template, else if it has none (configuration.go,  *)
(* injectionRuleTemplate): a default that a layer gives is not overwritten   *)
(* by the next.  Unless the user defines them anyway.                        *)
AttributesAsConfigured ==
  at = "created" /\ rule.source = "configmap" /\ Len(members) = 1
    /\ members[1].technology \in {"java/appd", "apache/otel", "nginx/otel"}
    /\ (\A v \in ToSet(app.env) \cup UserVars : v.name # "K8S_POD_IP") =>
      LET raw == rule.members[1]
      IN  (\E v \in ToSet(pod.env) : v.name = "K8S_POD_IP")
            <=> applyTemplate(raw.attrs, IF Templated THEN raw.template.attrs = TRUE ELSE TRUE)

-----------------------------------------------------------------------------
(* What the code's comments say and the code does not do.                    *)

(* The mounts the application is to keep. *)
KeptMounts == SelectSeq(app.mounts, LAMBDA m : ~IsConfig(m))

(* The mounts it has kept. *)
RemainingMounts == SelectSeq(pod.mounts, LAMBDA m : m \in ToSet(app.mounts))

(* instrumentOtelApache.go: a mount that "potentially passes config, which   *)
(* we want to pass to init copy only" is dropped, and no other.              *)
PassedConfigIsDropped ==
  at = "created" /\ Cardinality(Webservers) = 1 => RemainingMounts = KeptMounts
=============================================================================
