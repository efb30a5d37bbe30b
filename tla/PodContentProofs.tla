-------------------------- MODULE PodContentProofs --------------------------
(***************************************************************************)
(* What the created pod holds: proofs about the variables, containers and  *)
(* mounts that the patches of PodPatch add to it.  PodPatchProofs has what *)
(* this rests on: which operations a patch consists of, and what applying  *)
(* them makes of the pod.                                                  *)
(***************************************************************************)
EXTENDS PodPatchProofs

-----------------------------------------------------------------------------
(* What a patch adds.                                                        *)

(* A patch that adds variables E, init containers I and containers K.        *)
Gives(x, E, I, K) ==
  /\ IsSeq(x)
  /\ Added(x, "env") = E /\ Added(x, "inits") = I /\ Added(x, "containers") = K

LEMMA AddedBoth ==
  ASSUME NEW a, NEW b, IsSeq(a), IsSeq(b)
  PROVE  IsSeq(a \o b) /\ \A list : Added(a \o b, list) = Added(a, list) \cup Added(b, list)
BY IsSeqConcat DEF Added, AddedBy

LEMMA GivesConcat ==
  ASSUME NEW a, NEW A, NEW I, NEW K, Gives(a, A, I, K),
         NEW b, NEW B, NEW J, NEW L, Gives(b, B, J, L)
  PROVE  Gives(a \o b, A \cup B, I \cup J, K \cup L)
BY AddedBoth DEF Gives

LEMMA GivesNothing == Gives(<<>>, {}, {}, {})
BY Tuples DEF Gives, Added, AddedBy

LEMMA AddedEnv ==
  ASSUME NEW v, IsSeq(v)
  PROVE  Gives(Env(v), ToSet(v), {}, {})
<1> DEFINE x == Env(v)
<1>1. DOMAIN v = 1..Len(v) /\ Len(v) \in Nat
  BY IsSeqFacts
<1>2. /\ DOMAIN x = DOMAIN v
      /\ \A i \in DOMAIN v : x[i] = AddItem("env", v[i])
  BY DEF Env, Adding
<1>3. IsSeq(x)
  BY EnvBrings DEF Brings
<1>4. \A i \in DOMAIN v : x[i].op = "append" /\ x[i].list = "env" /\ x[i].value = v[i]
  BY <1>2 DEF AddItem
<1> HIDE DEF x
<1>5. ToSet(x) = {x[i] : i \in DOMAIN v}
  BY <1>2 DEF ToSet
<1>6. Added(x, "env") = ToSet(v)
  BY <1>4, <1>5 DEF Added, AddedBy, ToSet
<1>7. Added(x, "inits") = {} /\ Added(x, "containers") = {}
  BY <1>4, <1>5 DEF Added, AddedBy
<1> QED BY <1>3, <1>6, <1>7 DEF Gives, x

LEMMA VariablesGive ==
  /\ \A v : Gives(Env(<<v>>), {v}, {}, {})
  /\ \A v, w : Gives(Env(<<v, w>>), {v, w}, {}, {})
<1>1. ASSUME NEW v
      PROVE  Gives(Env(<<v>>), {v}, {}, {})
  <2>1. IsSeq(<<v>>) /\ ToSet(<<v>>) = {v}
    BY Tuples
  <2> QED BY <2>1, AddedEnv
<1>2. ASSUME NEW v, NEW w
      PROVE  Gives(Env(<<v, w>>), {v, w}, {}, {})
  <2>1. IsSeq(<<v, w>>) /\ ToSet(<<v, w>>) = {v, w}
    BY Tuples
  <2> QED BY <2>1, AddedEnv
<1> QED BY <1>1, <1>2

(* The attributes of the pod. *)
Ip == Var("K8S_POD_IP")
AttrVars(r, name) == IF r.attrs THEN {Ip, VarWith(name, {"K8S_POD_IP"})} ELSE {}

LEMMA AttributesGive ==
  ASSUME NEW r, NEW name
  PROVE  Gives(addK8SOtelResourceAttrs(r, name), AttrVars(r, name), {}, {})
BY VariablesGive, GivesNothing DEF addK8SOtelResourceAttrs, AttrVars, Ip

LEMMA AgentGives ==
  ASSUME NEW repo
  PROVE  Gives(Agent(repo), {}, {Container(repo, <<repo>>, "none")}, {})
<1> DEFINE a == AddItem("mounts", Mount(repo, "agent"))
           b == AddItem("inits", Container(repo, <<repo>>, "none"))
           c == AddItem("volumes", repo)
<1>1. IsSeq(Agent(repo)) /\ ToSet(Agent(repo)) = {a, b, c}
  BY Tuples DEF Agent
<1>2. /\ a.op = "append" /\ a.list = "mounts"
      /\ b.op = "append" /\ b.list = "inits" /\ b.value = Container(repo, <<repo>>, "none")
      /\ c.op = "append" /\ c.list = "volumes"
  BY DEF AddItem
<1> HIDE DEF a, b, c
<1> QED BY <1>1, <1>2 DEF Gives, Added, AddedBy

(* The init container of a collector beside the application, and its         *)
(* container.                                                                *)
SidecarSetup == Container(SidecarInit, <<ConfigVolume>>, "none")

Sidecars(c) == IF IsSidecar(c) THEN {Sidecar(c)} ELSE {}
Setups(c)   == IF IsSidecar(c) THEN {SidecarSetup} ELSE {}

(* Lookups that all find c. *)
Steady(look, c) == \A i \in 1..4 : look[i] = c

LEMMA SidecarOpsGive ==
  ASSUME NEW c
  PROVE  /\ Gives(SidecarOps(c), {}, {SidecarSetup}, {Sidecar(c)})
         /\ Added(SidecarOps(c), "volumes") = {ConfigVolume} \cup ToSet(OwnVolumes(c))
<1> DEFINE a == AddItem("containers", Sidecar(c))
           b == AddItem("inits", SidecarSetup)
           v == AddItem("volumes", ConfigVolume)
           t == <<a, b, v>>
           w == Adding("volumes", OwnVolumes(c))
<1>1. IsSeq(t) /\ ToSet(t) = {a, b, v}
  BY Tuples
<1>2. /\ a.op = "append" /\ a.list = "containers" /\ a.value = Sidecar(c)
      /\ b.op = "append" /\ b.list = "inits" /\ b.value = SidecarSetup
      /\ v.op = "append" /\ v.list = "volumes" /\ v.value = ConfigVolume
  BY DEF AddItem
<1>3. SidecarOps(c) = t \o w
  BY DEF SidecarOps, SidecarSetup
<1>4. /\ IsSeq(w) /\ \A o \in ToSet(w) : o.list = "volumes"
      /\ Added(w, "volumes") = ToSet(OwnVolumes(c))
  BY OwnAreSeqs, AddingVolumes
<1> HIDE DEF a, b, v
<1>5. /\ Gives(t, {}, {SidecarSetup}, {Sidecar(c)}) /\ Added(t, "volumes") = {ConfigVolume}
  BY <1>1, <1>2 DEF Gives, Added, AddedBy
<1>6. Gives(w, {}, {}, {})
  BY <1>4 DEF Gives, Added, AddedBy
<1> HIDE DEF t, w
<1>7. Gives(t \o w, {} \cup {}, {SidecarSetup} \cup {}, {Sidecar(c)} \cup {})
  BY <1>5, <1>6, GivesConcat
<1>8. Added(t \o w, "volumes") = Added(t, "volumes") \cup Added(w, "volumes")
  BY <1>1, <1>4, AddedBoth DEF t
<1> QED BY <1>3, <1>4, <1>5, <1>7, <1>8

LEMMA SidecarGives ==
  ASSUME NEW c
  PROVE  Gives(SidecarIf(c, c, c), {}, Setups(c), Sidecars(c))
<1>1. IsSidecar(c) => SidecarIf(c, c, c) = SidecarOps(c)
  BY PatchAssumption DEF SidecarIf, addOtelCollSidecar, IsSidecar, Found, Namespaced, OtherCollectors
<1>2. ~IsSidecar(c) => SidecarIf(c, c, c) = <<>>
  BY DEF SidecarIf
<1> QED BY <1>1, <1>2, SidecarOpsGive, GivesNothing DEF Sidecars, Setups

(* Whatever the lookups find. *)
LEMMA SidecarAdds ==
  ASSUME NEW first, NEW second, NEW third
  PROVE  \E I, K : Gives(SidecarIf(first, second, third), {}, I, K)
<1>1. SidecarIf(first, second, third) \in {SidecarOps(second), SidecarOps(third), <<>>}
  BY DEF SidecarIf, addOtelCollSidecar
<1>2. SidecarIf(first, second, third) = <<>> \/ \E c : SidecarIf(first, second, third) = SidecarOps(c)
  BY <1>1
<1>3. CASE SidecarIf(first, second, third) = <<>>
  BY <1>3, GivesNothing
<1>4. CASE \E c : SidecarIf(first, second, third) = SidecarOps(c)
  <2>1. PICK c : SidecarIf(first, second, third) = SidecarOps(c)
    BY <1>4
  <2>2. Gives(SidecarOps(c), {}, {SidecarSetup}, {Sidecar(c)})
    BY SidecarOpsGive
  <2> QED BY <2>1, <2>2
<1> QED BY <1>2, <1>3, <1>4

(* The variable that tells where to export to. *)
Exporter(c)  == VarTo("OTEL_EXPORTER_OTLP_ENDPOINT", Endpoint(c))
Exporters(c) == IF IsSidecar(c) \/ IsService(c) THEN {Exporter(c)} ELSE {}

LEMMA ExportingGives ==
  ASSUME NEW c, NEW look, Steady(look, c)
  PROVE  Gives(Exporting(look), Exporters(c), Setups(c), Sidecars(c))
<1>1. look[1] = c /\ look[2] = c /\ look[3] = c
  BY DEF Steady
<1>2. CASE IsSidecar(c) \/ IsService(c)
  <2>1. Exporting(look) = Env(<<Exporter(c)>>) \o SidecarIf(c, c, c)
    BY <1>1, <1>2 DEF Exporting, Exporter
  <2>2. Gives(Env(<<Exporter(c)>>), {Exporter(c)}, {}, {})
    BY VariablesGive
  <2>3. Gives(Env(<<Exporter(c)>>) \o SidecarIf(c, c, c),
              {Exporter(c)} \cup {}, {} \cup Setups(c), {} \cup Sidecars(c))
    BY <2>2, SidecarGives, GivesConcat
  <2> QED BY <1>2, <2>1, <2>3 DEF Exporters
<1>3. CASE ~(IsSidecar(c) \/ IsService(c))
  <2>1. Exporting(look) = <<>>
    BY <1>1, <1>3 DEF Exporting
  <2> QED BY <1>3, <2>1, GivesNothing DEF Exporters, Setups, Sidecars
<1> QED BY <1>2, <1>3

LEMMA GivesFive ==
  ASSUME NEW a, NEW A, NEW I, NEW K, Gives(a, A, I, K),
         NEW b, NEW B, Gives(b, B, {}, {}), NEW c, NEW C, Gives(c, C, {}, {}),
         NEW d, NEW D, NEW J, Gives(d, D, J, {}),
         NEW e, NEW E, NEW M, NEW L, Gives(e, E, M, L)
  PROVE  Gives(a \o b \o c \o d \o e, A \cup B \cup C \cup D \cup E, I \cup J \cup M, K \cup L)
<1>1. Gives(a \o b, A \cup B, I, K)
  <2>1. Gives(a \o b, A \cup B, I \cup {}, K \cup {})
    BY GivesConcat
  <2> QED BY <2>1
<1>2. Gives(a \o b \o c, A \cup B \cup C, I, K)
  <2>1. Gives(a \o b \o c, A \cup B \cup C, I \cup {}, K \cup {})
    BY <1>1, GivesConcat
  <2> QED BY <2>1
<1>3. Gives(a \o b \o c \o d, A \cup B \cup C \cup D, I \cup J, K)
  <2>1. Gives(a \o b \o c \o d, A \cup B \cup C \cup D, I \cup J, K \cup {})
    BY <1>2, GivesConcat
  <2> QED BY <2>1
<1> QED BY <1>3, GivesConcat

-----------------------------------------------------------------------------
(* Who tells whom where to send to.                                          *)

(* The agent is told e in a container or a variable, which own variables of  *)
(* that name may stand beside.                                               *)
Told(x, e, own) ==
  \/ \E i \in Added(x, "inits") : i.to = e
  \/ \E name \in TellingVars :
       /\ \E v \in Added(x, "env") : v.name = name /\ v.to = e
       /\ \A v \in Added(x, "env") : v.name = name => v.to = e \/ v \in own

(* Nothing is told but where c is, a container for c is there if c is a      *)
(* sidecar, and the agent knows.                                             *)
Tells(x, c, own) ==
  /\ \A v \in Added(x, "env") \cup Added(x, "inits") : v.to \in {"none", Endpoint(c)}
  /\ Added(x, "containers") = Sidecars(c)
  /\ Endpoint(c) # "none" => Told(x, Endpoint(c), own)

LEMMA EndpointIs ==
  ASSUME NEW c
  PROVE  /\ Endpoint(c) # "none" => IsSidecar(c) \/ IsService(c)
         /\ Endpoint(c) = "sidecar" <=> IsSidecar(c)
         /\ Endpoint("none") = "none" /\ ~IsSidecar("none")
BY PatchAssumption DEF Endpoint, IsSidecar, IsService, OtherCollectors

LEMMA OwnIs ==
  ASSUME NEW v, IsSeq(v), SendsNowhere(v)
  PROVE  \A w \in ToSet(v) : w.to = "none"
BY DEF SendsNowhere, ToSet

(* The variables of java/appd, with where c is. *)
JavaVars(r, c) ==
  {Var(AccessKey), Var("APPDYNAMICS_CONTROLLER_HOST_NAME")} \cup AttrVars(r, Attributes)
    \cup {JavaOptions(r, c)} \cup {Var("APPDYNAMICS_AGENT_APPLICATION_NAME")}
    \cup ToSet(r.env) \cup {Var("APPDYNAMICS_NETVIZ_AGENT_HOST")}

JavaAgent == Container("appd-agent-repo-java", <<"appd-agent-repo-java">>, "none")

LEMMA JavaAppdGives ==
  ASSUME NEW r, IsSeq(r.env), NEW look, NEW I, NEW K,
         Gives(SidecarIf(look[2], look[3], look[4]), {}, I, K)
  PROVE  Gives(javaAppd(r, look), JavaVars(r, look[1]), {JavaAgent} \cup I, K)
<1> DEFINE own == ToSet(r.env)
           A == {Var(AccessKey), Var("APPDYNAMICS_CONTROLLER_HOST_NAME")}
           B == AttrVars(r, Attributes)
           options == JavaOptions(r, look[1])
           C == {options}
           D == {Var("APPDYNAMICS_AGENT_APPLICATION_NAME")}
           E == {Var("APPDYNAMICS_NETVIZ_AGENT_HOST")}
           java == addK8SOtelResourceAttrs(r, Attributes) \o Env(<<options>>)
           parts == addControllerEnvVars \o java \o Naming \o Env(r.env) \o Netviz
           sidecar == SidecarIf(look[2], look[3], look[4])
           X == A \cup (B \cup C) \cup D \cup own \cup E
<1>1. javaAppd(r, look) = parts \o Agent("appd-agent-repo-java") \o sidecar
  BY DEF javaAppd, addJavaEnvVar
<1>2. /\ Gives(addControllerEnvVars, A, {}, {}) /\ Gives(Naming, D, {}, {})
      /\ Gives(Env(r.env), own, {}, {}) /\ Gives(Netviz, E, {}, {})
      /\ Gives(Env(<<options>>), C, {}, {})
      /\ Gives(addK8SOtelResourceAttrs(r, Attributes), B, {}, {})
  BY VariablesGive, AddedEnv, AttributesGive DEF addControllerEnvVars, Naming, Netviz
<1>3. X = JavaVars(r, look[1])
  BY DEF JavaVars
<1> HIDE DEF A, B, C, D, E, own
<1>4. Gives(java, B \cup C, {}, {})
  <2>1. Gives(java, B \cup C, {} \cup {}, {} \cup {})
    BY <1>2, GivesConcat
  <2> QED BY <2>1
<1> HIDE DEF java
<1>5. Gives(parts, X, {}, {})
  <2>1. Gives(parts, X, {} \cup {} \cup {}, {} \cup {})
    BY <1>2, <1>4, GivesFive
  <2> QED BY <2>1
<1> HIDE DEF X, parts, sidecar
<1>6. Gives(parts \o Agent("appd-agent-repo-java"), X \cup {}, {} \cup {JavaAgent}, {} \cup {})
  BY <1>5, AgentGives, GivesConcat DEF JavaAgent
<1>7. Gives(parts \o Agent("appd-agent-repo-java") \o sidecar,
            (X \cup {}) \cup {}, ({} \cup {JavaAgent}) \cup I, ({} \cup {}) \cup K)
  BY <1>6, GivesConcat DEF sidecar
<1>8. Gives(parts \o Agent("appd-agent-repo-java") \o sidecar, X, {JavaAgent} \cup I, K)
  BY <1>7
<1> QED BY <1>1, <1>3, <1>8

LEMMA JavaAppdTells ==
  ASSUME NEW r, IsSeq(r.env), SendsNowhere(r.env), NEW c, NEW look, Steady(look, c)
  PROVE  Tells(javaAppd(r, look), c, ToSet(r.env))
<1> DEFINE own == ToSet(r.env)
           u == javaAppd(r, look)
           X == JavaVars(r, c)
           I == {JavaAgent} \cup Setups(c)
<1>1. look[1] = c /\ look[2] = c /\ look[3] = c /\ look[4] = c
  BY DEF Steady
<1>2. Gives(u, X, I, Sidecars(c))
  <2>1. Gives(SidecarIf(look[2], look[3], look[4]), {}, Setups(c), Sidecars(c))
    BY <1>1, SidecarGives
  <2> QED BY <1>1, <2>1, JavaAppdGives
<1>3. \A w \in own : w.to = "none"
  BY OwnIs
<1>4. \A w \in X : w \in own \/ w = JavaOptions(r, c) \/ (w.to = "none" /\ w.name \notin TellingVars)
  BY DEF Var, VarWith, AttrVars, Ip, TellingVars, AccessKey, Attributes, JavaVars
<1>5. /\ JavaOptions(r, c) \in X /\ JavaOptions(r, c).to = Endpoint(c)
      /\ JavaOptions(r, c).name = "JAVA_TOOL_OPTIONS" /\ "JAVA_TOOL_OPTIONS" \in TellingVars
  BY DEF JavaOptions, TellingVars, JavaVars
<1>6. \A i \in I : i.to = "none"
  BY DEF Container, Setups, SidecarSetup, JavaAgent
<1> HIDE DEF u, X, I
<1>7. Added(u, "env") = X /\ Added(u, "inits") = I /\ Added(u, "containers") = Sidecars(c)
  BY <1>2 DEF Gives
<1>8. \A v \in X \cup I : v.to \in {"none", Endpoint(c)}
  BY <1>3, <1>4, <1>5, <1>6
<1>9. Told(u, Endpoint(c), own)
  <2>1. \A v \in X : v.name = "JAVA_TOOL_OPTIONS" => v.to = Endpoint(c) \/ v \in own
    BY <1>4, <1>5
  <2> QED BY <1>5, <1>7, <2>1 DEF Told
<1> QED BY <1>7, <1>8, <1>9 DEF Tells, u

(* Additions of which none tells anything but Exporter(c), and own.          *)
Whispers(x, c, own) ==
  /\ IsSeq(x)
  /\ \A v \in Added(x, "env") :
       \/ v.to = "none" /\ v.name # "OTEL_EXPORTER_OTLP_ENDPOINT"
       \/ v = Exporter(c) /\ (IsSidecar(c) \/ IsService(c))
       \/ v \in own
  /\ \A i \in Added(x, "inits") : i.to = "none"
  /\ Added(x, "containers") \subseteq Sidecars(c)

LEMMA WhispersConcat ==
  ASSUME NEW c, NEW own, NEW a, NEW b, Whispers(a, c, own), Whispers(b, c, own)
  PROVE  /\ Whispers(a \o b, c, own)
         /\ \A list : Added(a, list) \cup Added(b, list) \subseteq Added(a \o b, list)
<1>1. IsSeq(a \o b) /\ \A list : Added(a \o b, list) = Added(a, list) \cup Added(b, list)
  BY AddedBoth DEF Whispers
<1> QED BY <1>1 DEF Whispers

LEMMA PartsWhisper ==
  ASSUME NEW c, NEW own
  PROVE  /\ Whispers(<<>>, c, own) /\ Whispers(addControllerEnvVars, c, own)
         /\ Whispers(Naming, c, own) /\ Whispers(Netviz, c, own) /\ Whispers(Service, c, own)
         /\ \A name \in {"CORECLR_PROFILER", "NODE_OPTIONS", Attributes} :
              Whispers(Env(<<Var(name)>>), c, own)
         /\ Whispers(Env(<<Var("JAVA_TOOL_OPTIONS"), Var(Attributes)>>), c, own)
         /\ \A repo : Whispers(Agent(repo), c, own)
         /\ \A r : Whispers(dotnetOtelEnv(r), c, own)
<1> DEFINE Quiet(v) == v.to = "none" /\ v.name # "OTEL_EXPORTER_OTLP_ENDPOINT"
<1>1. ASSUME NEW x, NEW A, Gives(x, A, {}, {}), \A v \in A : Quiet(v)
      PROVE  Whispers(x, c, own)
  BY <1>1 DEF Gives, Whispers
<1>2. Whispers(<<>>, c, own)
  BY <1>1, GivesNothing
<1>3. ASSUME NEW name, name # "OTEL_EXPORTER_OTLP_ENDPOINT", NEW refs
      PROVE  Quiet(VarWith(name, refs)) /\ Quiet(Var(name))
  BY <1>3 DEF VarWith, Var
<1>4. ASSUME NEW v, Quiet(v)
      PROVE  Whispers(Env(<<v>>), c, own)
  <2> HIDE DEF Quiet
  <2>1. Gives(Env(<<v>>), {v}, {}, {})
    BY VariablesGive
  <2> QED BY <1>1, <1>4, <2>1
<1>5. ASSUME NEW v, Quiet(v), NEW w, Quiet(w)
      PROVE  Whispers(Env(<<v, w>>), c, own)
  <2> HIDE DEF Quiet
  <2>1. Gives(Env(<<v, w>>), {v, w}, {}, {})
    BY VariablesGive
  <2> QED BY <1>1, <1>5, <2>1
<1>6. \A r, name : name # "OTEL_EXPORTER_OTLP_ENDPOINT" =>
        Whispers(addK8SOtelResourceAttrs(r, name), c, own)
  BY <1>2, <1>3, <1>5 DEF addK8SOtelResourceAttrs
<1>7. \A name \in {"CORECLR_PROFILER", "NODE_OPTIONS", Attributes, "JAVA_TOOL_OPTIONS",
                    AccessKey, "APPDYNAMICS_CONTROLLER_HOST_NAME",
                    "APPDYNAMICS_AGENT_APPLICATION_NAME", "APPDYNAMICS_NETVIZ_AGENT_HOST",
                    "OTEL_SERVICE_NAME", "OTEL_RESOURCE_ATTRIBUTES_K8S"} :
        name # "OTEL_EXPORTER_OTLP_ENDPOINT"
  BY DEF Attributes, AccessKey
<1>8. ASSUME NEW r
      PROVE  Whispers(dotnetOtelEnv(r), c, own)
  <2>1. Whispers(addK8SOtelResourceAttrs(r, "OTEL_RESOURCE_ATTRIBUTES_K8S"), c, own)
    BY <1>6
  <2>2. Quiet(VarWith(Attributes, IF r.attrs THEN {"OTEL_RESOURCE_ATTRIBUTES_K8S"} ELSE {}))
    BY <1>3, <1>7
  <2> HIDE DEF Quiet
  <2> QED BY <1>4, <2>1, <2>2, WhispersConcat DEF dotnetOtelEnv
<1>9. ASSUME NEW repo
      PROVE  Whispers(Agent(repo), c, own)
  BY AgentGives DEF Gives, Whispers, Container
<1> HIDE DEF Quiet
<1>10. Whispers(addControllerEnvVars, c, own)
  BY <1>3, <1>5, <1>7 DEF addControllerEnvVars
<1>11. Whispers(Naming, c, own) /\ Whispers(Netviz, c, own) /\ Whispers(Service, c, own)
  BY <1>3, <1>4, <1>7 DEF Naming, Netviz, Service
<1>12. \A name \in {"CORECLR_PROFILER", "NODE_OPTIONS", Attributes} :
         Whispers(Env(<<Var(name)>>), c, own)
  BY <1>3, <1>4, <1>7
<1>13. Whispers(Env(<<Var("JAVA_TOOL_OPTIONS"), Var(Attributes)>>), c, own)
  BY <1>3, <1>5, <1>7
<1> QED BY <1>2, <1>8, <1>9, <1>10, <1>11, <1>12, <1>13

LEMMA OwnWhispers ==
  ASSUME NEW v, IsSeq(v), NEW c
  PROVE  Whispers(Env(v), c, ToSet(v))
BY AddedEnv DEF Gives, Whispers

LEMMA ExportingWhispers ==
  ASSUME NEW c, NEW look, Steady(look, c), NEW own
  PROVE  Whispers(Exporting(look), c, own)
<1>1. Gives(Exporting(look), Exporters(c), Setups(c), Sidecars(c))
  BY ExportingGives
<1> QED BY <1>1 DEF Gives, Whispers, Exporters, Setups, SidecarSetup, Container

(* What whispers and contains Exporting tells. *)
LEMMA WhispersTells ==
  ASSUME NEW u, NEW c, NEW v, IsSeq(v), SendsNowhere(v), Whispers(u, c, ToSet(v)),
         Exporters(c) \subseteq Added(u, "env"), Sidecars(c) \subseteq Added(u, "containers")
  PROVE  Tells(u, c, ToSet(v))
<1>1. Exporter(c).to = Endpoint(c) /\ Exporter(c).name = "OTEL_EXPORTER_OTLP_ENDPOINT"
  BY DEF Exporter, VarTo
<1>2. \A w \in ToSet(v) : w.to = "none"
  BY OwnIs
<1>3. \A w \in Added(u, "env") \cup Added(u, "inits") : w.to \in {"none", Endpoint(c)}
  BY <1>1, <1>2 DEF Whispers
<1>4. Endpoint(c) # "none" => Told(u, Endpoint(c), ToSet(v))
  <2> SUFFICES ASSUME Endpoint(c) # "none" PROVE Told(u, Endpoint(c), ToSet(v))
    OBVIOUS
  <2>1. Exporter(c) \in Added(u, "env")
    BY EndpointIs DEF Exporters
  <2>2. \A w \in Added(u, "env") :
          w.name = "OTEL_EXPORTER_OTLP_ENDPOINT" => w.to = Endpoint(c) \/ w \in ToSet(v)
    BY <1>1 DEF Whispers
  <2>3. "OTEL_EXPORTER_OTLP_ENDPOINT" \in TellingVars
    BY DEF TellingVars
  <2> QED BY <1>1, <2>1, <2>2, <2>3 DEF Told
<1> QED BY <1>3, <1>4 DEF Tells, Whispers

LEMMA OtelTells ==
  ASSUME NEW r, IsSeq(r.env), SendsNowhere(r.env), NEW c, NEW look, Steady(look, c)
  PROVE  /\ Tells(dotnetAppd(r, look), c, ToSet(r.env))
         /\ Tells(javaOtel(r, look), c, ToSet(r.env))
         /\ Tells(dotnetOtel(r, look), c, ToSet(r.env))
         /\ Tells(nodejsOtel(r, look), c, ToSet(r.env))
<1> DEFINE own == ToSet(r.env)
           W(x) == Whispers(x, c, own)
           L(x) == Exporters(c) \subseteq Added(x, "env") /\ Sidecars(c) \subseteq Added(x, "containers")
           out  == Exporting(look)
           mine == Env(r.env)
<1>1. W(mine) /\ W(out) /\ L(out)
  <2>1. Gives(out, Exporters(c), Setups(c), Sidecars(c))
    BY ExportingGives
  <2> QED BY <2>1, OwnWhispers, ExportingWhispers DEF Gives
<1>2. /\ W(<<>>) /\ W(addControllerEnvVars) /\ W(Naming) /\ W(Netviz) /\ W(Service)
      /\ \A name \in {"CORECLR_PROFILER", "NODE_OPTIONS", Attributes} : W(Env(<<Var(name)>>))
      /\ W(Env(<<Var("JAVA_TOOL_OPTIONS"), Var(Attributes)>>))
      /\ \A repo : W(Agent(repo))
      /\ W(dotnetOtelEnv(r))
  BY PartsWhisper
<1>3. ASSUME NEW a, NEW b, W(a), W(b)
      PROVE  W(a \o b) /\ (L(a) \/ L(b) => L(a \o b))
  <2>1. /\ W(a \o b)
        /\ Added(a, "env") \cup Added(b, "env") \subseteq Added(a \o b, "env")
        /\ Added(a, "containers") \cup Added(b, "containers") \subseteq Added(a \o b, "containers")
    BY <1>3, WhispersConcat
  <2> QED BY <2>1
<1>4. ASSUME NEW x, W(x), L(x)
      PROVE  Tells(x, c, own)
  BY <1>4, WhispersTells
<1> HIDE DEF W, L, out, mine
<1>5. ASSUME NEW a, NEW b, NEW d, NEW e, W(a), W(b), W(d), W(e)
      PROVE  W(a \o b \o d \o e) /\ (L(a) \/ L(b) \/ L(d) \/ L(e) => L(a \o b \o d \o e))
  <2>1. W(a \o b) /\ (L(a) \/ L(b) => L(a \o b))
    BY <1>3, <1>5
  <2>2. W(a \o b \o d) /\ (L(a \o b) \/ L(d) => L(a \o b \o d))
    BY <1>3, <1>5, <2>1
  <2>3. W(a \o b \o d \o e) /\ (L(a \o b \o d) \/ L(e) => L(a \o b \o d \o e))
    BY <1>3, <1>5, <2>2
  <2> QED BY <2>1, <2>2, <2>3
<1>6. Tells(dotnetAppd(r, look), c, own)
  <2> DEFINE a == Env(<<Var("CORECLR_PROFILER")>>)
             b == IF Found(look[1]) THEN dotnetOtelEnv(r) ELSE <<>>
             z == Agent("appd-agent-repo-dotnetcore")
             x == addControllerEnvVars \o a \o b \o out
  <2>1. W(a) /\ W(b) /\ W(z)
    BY <1>2
  <2>2. dotnetAppd(r, look) = x \o Naming \o mine \o Netviz \o z
    BY DEF dotnetAppd, out, mine
  <2> HIDE DEF a, b, z
  <2>3. W(x) /\ L(x)
    BY <1>1, <1>2, <1>5, <2>1
  <2> HIDE DEF x
  <2>4. W(x \o Naming \o mine \o Netviz) /\ L(x \o Naming \o mine \o Netviz)
    BY <1>1, <1>2, <1>5, <2>3
  <2>5. W(x \o Naming \o mine \o Netviz \o z) /\ L(x \o Naming \o mine \o Netviz \o z)
    BY <1>3, <2>1, <2>4
  <2> QED BY <1>4, <2>2, <2>5
<1>7. Tells(javaOtel(r, look), c, own)
  <2> DEFINE a == Env(<<Var("JAVA_TOOL_OPTIONS"), Var(Attributes)>>)
             z == Agent("otel-agent-repo-java")
             x == a \o Service \o mine \o z
  <2>1. W(a) /\ W(z)
    BY <1>2
  <2>2. javaOtel(r, look) = x \o out
    BY DEF javaOtel, out, mine
  <2> HIDE DEF a, z
  <2>3. W(x)
    BY <1>1, <1>2, <1>5, <2>1
  <2> HIDE DEF x
  <2>4. W(x \o out) /\ L(x \o out)
    BY <1>1, <1>3, <2>3
  <2> QED BY <1>4, <2>2, <2>4
<1>8. Tells(dotnetOtel(r, look), c, own)
  <2> DEFINE a == Env(<<Var("CORECLR_PROFILER")>>)
             b == Env(<<Var(Attributes)>>)
             z == Agent("otel-agent-repo-dotnetcore")
             x == a \o Service \o b \o out
  <2>1. W(a) /\ W(b) /\ W(z)
    BY <1>2
  <2>2. dotnetOtel(r, look) = x \o mine \o z
    BY DEF dotnetOtel, out, mine
  <2> HIDE DEF a, b, z
  <2>3. W(x) /\ L(x)
    BY <1>1, <1>2, <1>5, <2>1
  <2> HIDE DEF x
  <2>4. W(x \o mine) /\ L(x \o mine)
    BY <1>1, <1>3, <2>3
  <2>5. W(x \o mine \o z) /\ L(x \o mine \o z)
    BY <1>3, <2>1, <2>4
  <2> QED BY <1>4, <2>2, <2>5
<1>9. Tells(nodejsOtel(r, look), c, own)
  <2> DEFINE a == Env(<<Var("NODE_OPTIONS")>>)
             z == Agent("otel-agent-repo-nodejs")
             x == a \o Service \o mine \o z
  <2>1. W(a) /\ W(z)
    BY <1>2
  <2>2. nodejsOtel(r, look) = x \o out
    BY DEF nodejsOtel, out, mine
  <2> HIDE DEF a, z
  <2>3. W(x)
    BY <1>1, <1>2, <1>5, <2>1
  <2> HIDE DEF x
  <2>4. W(x \o out) /\ L(x \o out)
    BY <1>1, <1>3, <2>3
  <2> QED BY <1>4, <2>2, <2>4
<1> QED BY <1>6, <1>7, <1>8, <1>9

LEMMA NodejsAppdTells ==
  ASSUME NEW r, IsSeq(r.env), SendsNowhere(r.env)
  PROVE  Tells(nodejsAppd(r), "none", ToSet(r.env)) /\ Tells(<<>>, "none", ToSet(r.env))
<1> DEFINE W(x) == Whispers(x, "none", ToSet(r.env))
           a == Env(<<Var("NODE_OPTIONS")>>)
           z == Agent("appd-agent-repo-nodejs")
           x == addControllerEnvVars \o a \o Naming \o Env(r.env)
<1>1. /\ W(<<>>) /\ W(addControllerEnvVars) /\ W(a) /\ W(Naming) /\ W(Env(r.env))
      /\ W(Netviz) /\ W(z)
  BY PartsWhisper, OwnWhispers
<1>2. nodejsAppd(r) = x \o Netviz \o z
  BY DEF nodejsAppd
<1>3. \A b, d : W(b) /\ W(d) => W(b \o d)
  BY WhispersConcat
<1> HIDE DEF W, a, z
<1>4. W(addControllerEnvVars \o a) /\ W(addControllerEnvVars \o a \o Naming) /\ W(x)
  BY <1>1, <1>3
<1> HIDE DEF x
<1>5. W(x \o Netviz) /\ W(x \o Netviz \o z)
  BY <1>1, <1>3, <1>4
<1>6. Exporters("none") = {} /\ Sidecars("none") = {}
  BY PatchAssumption DEF Exporters, Sidecars, IsSidecar, IsService, OtherCollectors
<1>7. \A y : W(y) => Tells(y, "none", ToSet(r.env))
  BY <1>6, WhispersTells DEF W
<1> QED BY <1>1, <1>2, <1>5, <1>7

(* The container of a web server's agent, and the copy of the application's. *)
ServerAgent(server, c) ==
  Container(server.repo, <<server.conf, server.repo>>, Endpoint(c))

LEMMA WebserverGives ==
  ASSUME NEW p, IsSeq(p.mounts), NEW r, IsSeq(r.env), NEW look, NEW server, IsSeq(server.env),
         NEW I, NEW K, Gives(SidecarIf(look[2], look[3], look[4]), {}, I, K)
  PROVE  Gives(webserverOtel(p, r, look, server),
               ToSet(server.env) \cup AttrVars(r, Attributes) \cup ToSet(r.env),
               {CloneAsInit(p, server), ServerAgent(server, look[1])} \cup I,
               K)
<1> DEFINE own == Env(server.env)
           attrs == addK8SOtelResourceAttrs(r, Attributes)
           mine == Env(r.env)
           a == AddItem("mounts", Mount(server.conf, server.dir))
           b == AddItem("mounts", Mount(server.repo, "agent"))
           d == AddItem("inits", CloneAsInit(p, server))
           first == <<a, b, d>>
           drops == dropPassedConfig(p, server)
           i == AddItem("inits", ServerAgent(server, look[1]))
           volumes == WebserverVolumes(server)
           E == ToSet(server.env)
           A == AttrVars(r, Attributes)
           M == ToSet(r.env)
           clone == CloneAsInit(p, server)
           agent == ServerAgent(server, look[1])
           front == own \o attrs \o mine \o first \o drops
           sidecar == SidecarIf(look[2], look[3], look[4])
           u == front \o <<i>> \o volumes \o sidecar
<1>1. webserverOtel(p, r, look, server) = u
  BY DEF webserverOtel, ServerAgent
<1>2. Gives(own, E, {}, {}) /\ Gives(attrs, A, {}, {}) /\ Gives(mine, M, {}, {})
  BY AddedEnv, AttributesGive
<1>3. Gives(first, {}, {clone}, {})
  <2>1. IsSeq(first) /\ ToSet(first) = {a, b, d}
    BY Tuples
  <2>2. /\ a.op = "append" /\ a.list = "mounts" /\ b.op = "append" /\ b.list = "mounts"
        /\ d.op = "append" /\ d.list = "inits" /\ d.value = clone
    BY DEF AddItem
  <2> HIDE DEF a, b, d, first, clone
  <2> QED BY <2>1, <2>2 DEF Gives, Added, AddedBy
<1>4. Gives(drops, {}, {}, {})
  <2>1. IsSeq(drops) /\ \A o \in ToSet(drops) : IsRemoval(o)
    BY DropsAre
  <2> HIDE DEF drops
  <2> QED BY <2>1 DEF Gives, Added, AddedBy, IsRemoval
<1>5. Gives(<<i>>, {}, {agent}, {})
  <2>1. IsSeq(<<i>>) /\ ToSet(<<i>>) = {i}
    BY Tuples
  <2>2. i.op = "append" /\ i.list = "inits" /\ i.value = agent
    BY DEF AddItem
  <2> HIDE DEF i, agent
  <2> QED BY <2>1, <2>2 DEF Gives, Added, AddedBy
<1>6. Gives(volumes, {}, {}, {})
  <2>1. IsSeq(volumes)
        /\ ToSet(volumes) = {AddItem("volumes", server.repo), AddItem("volumes", server.conf)}
    BY Tuples DEF WebserverVolumes
  <2> HIDE DEF volumes
  <2> QED BY <2>1 DEF Gives, Added, AddedBy, AddItem
<1> HIDE DEF own, attrs, mine, first, drops, i, volumes, E, A, M, clone, agent
<1>7. Gives(front, E \cup A \cup M, {clone}, {})
  <2>1. Gives(own \o attrs \o mine \o first, E \cup A \cup M \cup {}, {} \cup {} \cup {clone}, {} \cup {})
    <3>1. Gives(own \o attrs, E \cup A, {} \cup {}, {} \cup {})
      BY <1>2, GivesConcat
    <3>2. Gives(own \o attrs \o mine, E \cup A \cup M, {} \cup {}, {} \cup {})
      <4>1. Gives(own \o attrs, E \cup A, {}, {})
        BY <3>1
      <4> QED BY <1>2, <4>1, GivesConcat
    <3>3. Gives(own \o attrs \o mine, E \cup A \cup M, {}, {})
      BY <3>2
    <3>4. Gives(own \o attrs \o mine \o first, (E \cup A \cup M) \cup {}, {} \cup {clone}, {} \cup {})
      BY <1>3, <3>3, GivesConcat
    <3> QED BY <3>4
  <2>2. Gives(own \o attrs \o mine \o first, E \cup A \cup M, {clone}, {})
    BY <2>1
  <2>3. Gives(front, (E \cup A \cup M) \cup {}, {clone} \cup {}, {} \cup {})
    BY <1>4, <2>2, GivesConcat
  <2> QED BY <2>3
<1> DEFINE X == E \cup A \cup M
<1> HIDE DEF front, X, sidecar
<1>8. Gives(front, X, {clone}, {})
  BY <1>7 DEF X
<1>9. Gives(u, X \cup {} \cup {} \cup {}, {clone} \cup {agent} \cup {} \cup I,
            {} \cup {} \cup {} \cup K)
  <2>1. Gives(front \o <<i>>, X \cup {}, {clone} \cup {agent}, {} \cup {})
    BY <1>5, <1>8, GivesConcat
  <2>2. Gives(front \o <<i>> \o volumes, X \cup {} \cup {}, {clone} \cup {agent} \cup {}, {} \cup {} \cup {})
    BY <1>6, <2>1, GivesConcat
  <2> QED BY <2>2, GivesConcat DEF sidecar
<1>10. /\ X \cup {} \cup {} \cup {} = X
       /\ {clone} \cup {agent} \cup {} \cup I = {clone, agent} \cup I
       /\ {} \cup {} \cup {} \cup K = K
  OBVIOUS
<1>11. Gives(u, X, {clone, agent} \cup I, K)
  BY <1>9, <1>10
<1> QED BY <1>1, <1>11 DEF X, E, A, M, clone, agent

LEMMA WebserverTells ==
  ASSUME NEW p, IsSeq(p.mounts), NEW r, IsSeq(r.env), SendsNowhere(r.env), NEW c, NEW look,
         Steady(look, c), NEW server \in {Apache, Nginx}
  PROVE  Tells(webserverOtel(p, r, look, server), c, ToSet(r.env))
<1> DEFINE u == webserverOtel(p, r, look, server)
           X == ToSet(server.env) \cup AttrVars(r, Attributes) \cup ToSet(r.env)
           I == {CloneAsInit(p, server), ServerAgent(server, c)} \cup Setups(c)
<1>1. IsSeq(server.env) /\ ToSet(server.env) \subseteq {Var("LD_LIBRARY_PATH")}
  BY Tuples DEF Apache, Nginx
<1>2. look[1] = c /\ look[2] = c /\ look[3] = c /\ look[4] = c
  BY DEF Steady
<1>3. Gives(u, X, I, Sidecars(c))
  <2>1. Gives(SidecarIf(look[2], look[3], look[4]), {}, Setups(c), Sidecars(c))
    BY <1>2, SidecarGives
  <2> QED BY <1>1, <1>2, <2>1, WebserverGives
<1>4. \A w \in X : w.to = "none"
  BY <1>1, OwnIs DEF Var, VarWith, AttrVars, Ip
<1>5. /\ CloneAsInit(p, server).to = "none" /\ ServerAgent(server, c).to = Endpoint(c)
      /\ \A i \in Setups(c) : i.to = "none"
  BY DEF CloneAsInit, ServerAgent, Container, Setups, SidecarSetup
<1> HIDE DEF u, X
<1>6. Added(u, "env") = X /\ Added(u, "inits") = I /\ Added(u, "containers") = Sidecars(c)
  BY <1>3 DEF Gives
<1>7. (\A w \in I : w.to \in {"none", Endpoint(c)}) /\ Told(u, Endpoint(c), ToSet(r.env))
  BY <1>5, <1>6 DEF Told
<1> HIDE DEF I
<1> QED BY <1>4, <1>6, <1>7 DEF Tells, u

(* Where the agent of a technology can be told to send to. *)
Hears(r, c) == IF r.technology \in Sending THEN c ELSE "none"

(* What the patch of any technology tells. *)
LEMMA RuleTells ==
  ASSUME NEW p, IsSeq(p.mounts), NEW r, IsSeq(r.env), SendsNowhere(r.env), NEW c, NEW look,
         Steady(look, c)
  PROVE  Tells(applyInjectionRule(p, r, look), Hears(r, c), ToSet(r.env))
<1> DEFINE u == applyInjectionRule(p, r, look)
<1>1. CASE r.technology = "java/appd"
  <2>1. u = javaAppd(r, look) /\ Hears(r, c) = c
    BY <1>1 DEF applyInjectionRule, Hears, Sending, Instrumented
  <2> QED BY <2>1, JavaAppdTells
<1>2. CASE r.technology \in {"apache/otel", "nginx/otel"}
  <2>1. PICK server \in {Apache, Nginx} : u = webserverOtel(p, r, look, server)
    BY <1>2 DEF applyInjectionRule
  <2>2. Hears(r, c) = c
    BY <1>2 DEF Hears, Sending, Instrumented
  <2> QED BY <2>1, <2>2, WebserverTells
<1>3. CASE r.technology \in {"dotnetcore/appd", "java/otel", "java/splunk", "dotnetcore/otel", "nodejs/otel"}
  <2>1. u \in {dotnetAppd(r, look), javaOtel(r, look), dotnetOtel(r, look), nodejsOtel(r, look)}
    BY <1>3 DEF applyInjectionRule
  <2>2. Hears(r, c) = c
    BY <1>3 DEF Hears, Sending, Instrumented
  <2> QED BY <2>1, <2>2, OtelTells
<1>4. CASE r.technology \notin Sending
  <2>1. u \in {nodejsAppd(r), <<>>}
    BY <1>4 DEF applyInjectionRule, Sending, Instrumented
  <2>2. Hears(r, c) = "none"
    BY <1>4 DEF Hears, Sending, Instrumented
  <2> QED BY <2>1, <2>2, NodejsAppdTells
<1> QED BY <1>1, <1>2, <1>3, <1>4 DEF Sending, Instrumented

(* The attributes are among the variables if the rule says so. *)
LEMMA AttributesAdded ==
  ASSUME NEW p, IsSeq(p.mounts), NEW r, IsSeq(r.env), NEW look,
         r.technology \in {"java/appd", "apache/otel", "nginx/otel"},
         \A v \in ToSet(r.env) : v.name # "K8S_POD_IP"
  PROVE  (\E v \in Added(applyInjectionRule(p, r, look), "env") : v.name = "K8S_POD_IP")
            <=> r.attrs
<1> DEFINE u == applyInjectionRule(p, r, look)
           B == AttrVars(r, Attributes)
<1>1. PICK I, K : Gives(SidecarIf(look[2], look[3], look[4]), {}, I, K)
  BY SidecarAdds
<1>2. (\E v \in B : v.name = "K8S_POD_IP") <=> r.attrs
  BY DEF AttrVars, Ip, Var
<1>3. CASE r.technology = "java/appd"
  <2>1. u = javaAppd(r, look)
    BY <1>3 DEF applyInjectionRule
  <2>2. Added(u, "env") = JavaVars(r, look[1])
    BY <1>1, <2>1, JavaAppdGives DEF Gives
  <2>3. \A w \in JavaVars(r, look[1]) : w \in B \/ w.name # "K8S_POD_IP"
    BY DEF JavaVars, Var, JavaOptions, AccessKey
  <2>4. B \subseteq JavaVars(r, look[1])
    BY DEF JavaVars
  <2> HIDE DEF u, B
  <2> QED BY <1>2, <2>2, <2>3, <2>4 DEF u
<1>4. CASE r.technology \in {"apache/otel", "nginx/otel"}
  <2>1. PICK server \in {Apache, Nginx} : u = webserverOtel(p, r, look, server)
    BY <1>4 DEF applyInjectionRule
  <2>2. IsSeq(server.env) /\ ToSet(server.env) \subseteq {Var("LD_LIBRARY_PATH")}
    BY Tuples DEF Apache, Nginx
  <2>3. Added(u, "env") = ToSet(server.env) \cup B \cup ToSet(r.env)
    BY <1>1, <2>1, <2>2, WebserverGives DEF Gives
  <2>4. \A w \in ToSet(server.env) : w.name # "K8S_POD_IP"
    BY <2>2 DEF Var
  <2> HIDE DEF u, B
  <2> QED BY <1>2, <2>3, <2>4 DEF u
<1> QED BY <1>3, <1>4

-----------------------------------------------------------------------------
(* What removeDupliciteEnvs leaves.                                          *)

LEMMA NamesSurvive ==
  ASSUME NEW y, IsSeq(y), NEW z, IsSeq(z), Selects(z, y, Len(y)),
         NEW k \in DOMAIN y, IsVariable(y[k])
  PROVE  \E o \in ToSet(z) : IsVariable(o) /\ o.value.name = y[k].value.name
<1> DEFINE n == Len(y)
           Same == {i \in 1..n : IsVariable(y[i]) /\ y[i].value.name = y[k].value.name}
           m == Max(Same)
<1>1. n \in Nat /\ k \in 1..n /\ DOMAIN z = 1..Len(z)
  BY IsSeqFacts
<1>2. m \in Same /\ \A i \in Same : i <= m
  <2>1. Same \in SUBSET (1..n) /\ Same # {}
    BY <1>1
  <2> HIDE DEF Same
  <2> QED BY <1>1, <2>1, MaxFacts
<1> HIDE DEF m
<1>3. m \in 1..n /\ IsVariable(y[m]) /\ y[m].value.name = y[k].value.name
  BY <1>2
<1>4. ~IsSuperseded(y, m)
  <2> SUFFICES ASSUME NEW j \in (m + 1)..n, IsVariable(y[j]), y[j].value.name = y[m].value.name
               PROVE  FALSE
    BY DEF IsSuperseded
  <2>1. j \in 1..n /\ ~(j <= m)
    BY <1>1, <1>3
  <2>2. j \in Same
    BY <1>3, <2>1
  <2> HIDE DEF Same
  <2> QED BY <1>2, <2>1, <2>2
<1>5. PICK g : IsSelection(g, z, y, n)
  BY DEF Selects
<1>6. PICK i \in 1..Len(z) : g[i] = m
  BY <1>3, <1>4, <1>5 DEF IsSelection
<1>7. z[i] = y[m] /\ z[i] \in ToSet(z)
  BY <1>1, <1>5, <1>6 DEF IsSelection, ToSet
<1> QED BY <1>3, <1>7

LEMMA ReducedAdds ==
  ASSUME NEW y, IsChanges(y), NEW z, IsReduced(z, y)
  PROVE  /\ IsChanges(z)
         /\ \A list \in Lists \ {"env"} : Added(z, list) = Added(y, list)
         /\ Added(z, "env") \subseteq Added(y, "env")
         /\ \A v \in Added(y, "env") : \E w \in Added(z, "env") : w.name = v.name
<1>1. IsChanges(z)
  BY DEF IsReduced, Patches, Carries
<1>2. \A o : IsVariable(o) => o.list = "env"
  BY DEF IsVariable
<1>3. \A list \in Lists \ {"env"} : Added(z, list) = Added(y, list)
  BY <1>2 DEF IsReduced, Added, AddedBy
<1>4. Added(z, "env") \subseteq Added(y, "env")
  BY DEF IsReduced, Added, AddedBy
<1>5. ASSUME NEW v \in Added(y, "env")
      PROVE  \E w \in Added(z, "env") : w.name = v.name
  <2>1. PICK o \in ToSet(y) : o.op = "append" /\ o.list = "env" /\ o.value = v
    BY DEF Added, AddedBy
  <2>2. PICK k \in DOMAIN y : y[k] = o
    BY DEF ToSet
  <2>3. IsVariable(y[k]) /\ y[k].value.name = v.name
    BY <2>1, <2>2 DEF IsVariable
  <2>4. PICK q \in ToSet(z) : IsVariable(q) /\ q.value.name = v.name
    BY <1>1, <2>3, NamesSurvive DEF IsChanges, IsReduced
  <2>5. q.value \in Added(z, "env")
    BY <2>4 DEF Added, AddedBy, IsVariable
  <2> QED BY <2>4, <2>5
<1> QED BY <1>1, <1>3, <1>4, <1>5

-----------------------------------------------------------------------------
(* The names that a patch gives.                                             *)

NamedLists == {"volumes", "inits", "containers"}
NameIn(list, item) == IF list = "volumes" THEN item ELSE item.name

IsNaming(o) == o.op = "append" /\ o.list \in NamedLists
Label(o)    == <<o.list, NameIn(o.list, o.value)>>

(* The volumes of the collectors that a patch puts beside the application    *)
(* have names of their own.                                                  *)
Fits(x) == \A c \in OwnSidecars : Sidecar(c) \in Added(x, "containers") => VolumesFit(c)

(* What a patch adds to those lists is named by L, and each name only once.  *)
Puts(x, L) ==
  /\ IsSeq(x)
  /\ Fits(x) =>
       /\ \A i \in DOMAIN x : IsNaming(x[i]) => Label(x[i]) \in L
       /\ \A i, j \in DOMAIN x :
            IsNaming(x[i]) /\ IsNaming(x[j]) /\ Label(x[i]) = Label(x[j]) => i = j

LEMMA FitsBoth ==
  ASSUME NEW a, NEW b, IsSeq(a), IsSeq(b), Fits(a \o b)
  PROVE  Fits(a) /\ Fits(b)
BY AddedBoth DEF Fits

LEMMA PutsConcat ==
  ASSUME NEW a, NEW L, Puts(a, L), NEW b, NEW M, Puts(b, M), L \cap M = {}
  PROVE  Puts(a \o b, L \cup M)
<1> DEFINE x == a \o b
           m == Len(a)
           n == Len(b)
<1>1. /\ IsSeq(x) /\ m \in Nat /\ n \in Nat /\ Len(x) = m + n
      /\ \A i \in 1..(m + n) : x[i] = IF i <= m THEN a[i] ELSE b[i - m]
  BY IsSeqConcat, IsSeqFacts DEF Puts
<1>2. DOMAIN a = 1..m /\ DOMAIN b = 1..n /\ DOMAIN x = 1..(m + n)
  BY <1>1, IsSeqFacts DEF Puts
<1> SUFFICES ASSUME Fits(x) PROVE Puts(x, L \cup M)
  BY <1>1 DEF Puts
<1>0. Fits(a) /\ Fits(b)
  BY FitsBoth DEF Puts
<1> HIDE DEF x, m, n
<1>3. ASSUME NEW i \in 1..(m + n)
      PROVE  \/ i \in 1..m /\ x[i] = a[i]
             \/ ~(i <= m) /\ i - m \in 1..n /\ x[i] = b[i - m]
  BY <1>1
<1>4. ASSUME NEW i \in DOMAIN x, IsNaming(x[i])
      PROVE  Label(x[i]) \in L \cup M
  BY <1>0, <1>2, <1>3, <1>4 DEF Puts
<1>5. ASSUME NEW i \in DOMAIN x, NEW j \in DOMAIN x, IsNaming(x[i]), IsNaming(x[j]),
             Label(x[i]) = Label(x[j])
      PROVE  i = j
  <2>1. CASE i \in 1..m /\ x[i] = a[i] /\ j \in 1..m /\ x[j] = a[j]
    BY <1>0, <1>2, <1>5, <2>1 DEF Puts
  <2>2. CASE i - m \in 1..n /\ x[i] = b[i - m] /\ j - m \in 1..n /\ x[j] = b[j - m]
    <3>1. i - m = j - m
      BY <1>0, <1>2, <1>5, <2>2 DEF Puts
    <3> QED BY <1>1, <1>2, <3>1
  <2>3. CASE i \in 1..m /\ x[i] = a[i] /\ j - m \in 1..n /\ x[j] = b[j - m]
    <3>1. Label(x[i]) \in L /\ Label(x[j]) \in M
      BY <1>0, <1>2, <1>5, <2>3 DEF Puts
    <3> QED BY <1>5, <3>1
  <2>4. CASE j \in 1..m /\ x[j] = a[j] /\ i - m \in 1..n /\ x[i] = b[i - m]
    <3>1. Label(x[j]) \in L /\ Label(x[i]) \in M
      BY <1>0, <1>2, <1>5, <2>4 DEF Puts
    <3> QED BY <1>5, <3>1
  <2> QED BY <1>2, <1>3, <2>1, <2>2, <2>3, <2>4
<1> QED BY <1>1, <1>4, <1>5 DEF Puts

LEMMA PutsMore ==
  ASSUME NEW x, NEW L, Puts(x, L), NEW M, L \subseteq M
  PROVE  Puts(x, M)
BY DEF Puts

(* Patches that name nothing, before or after one that does.                 *)
LEMMA PutsAround ==
  ASSUME NEW a, Puts(a, {}), NEW b, NEW L, Puts(b, L)
  PROVE  Puts(a \o b, L) /\ Puts(b \o a, L)
<1>1. Puts(a \o b, {} \cup L) /\ Puts(b \o a, L \cup {})
  BY PutsConcat
<1> QED BY <1>1

LEMMA PutsNothing ==
  ASSUME NEW x, IsSeq(x), \A o \in ToSet(x) : ~IsNaming(o)
  PROVE  Puts(x, {})
BY DEF Puts, ToSet

LEMMA VariablesPut ==
  /\ Puts(<<>>, {})
  /\ \A v : IsSeq(v) => Puts(Env(v), {})
  /\ \A v : Puts(Env(<<v>>), {})
  /\ \A v, w : Puts(Env(<<v, w>>), {})
  /\ \A r, name : Puts(addK8SOtelResourceAttrs(r, name), {})
  /\ \A r : Puts(dotnetOtelEnv(r), {})
  /\ \A r, c : Puts(addJavaEnvVar(r, c), {})
<1>1. Puts(<<>>, {})
  BY Tuples, PutsNothing
<1>2. ASSUME NEW v, IsSeq(v)
      PROVE  Puts(Env(v), {})
  <2>1. DOMAIN Env(v) = DOMAIN v /\ \A i \in DOMAIN v : Env(v)[i] = AddItem("env", v[i])
    BY DEF Env, Adding
  <2>2. \A i \in DOMAIN v : AddItem("env", v[i]).list = "env"
    BY DEF AddItem
  <2>3. IsSeq(Env(v))
    BY <1>2, AddedEnv DEF Gives
  <2>4. \A o \in ToSet(Env(v)) : o.list = "env"
    BY <2>1, <2>2 DEF ToSet
  <2> QED BY <2>3, <2>4, PutsNothing DEF IsNaming, NamedLists
<1>3. \A v : Puts(Env(<<v>>), {})
  BY <1>2, Tuples
<1>4. \A v, w : Puts(Env(<<v, w>>), {})
  BY <1>2, Tuples
<1>5. \A r, name : Puts(addK8SOtelResourceAttrs(r, name), {})
  BY <1>1, <1>4 DEF addK8SOtelResourceAttrs
<1>6. \A r : Puts(dotnetOtelEnv(r), {})
  BY <1>3, <1>5, PutsAround DEF dotnetOtelEnv
<1>7. \A r, c : Puts(addJavaEnvVar(r, c), {})
  BY <1>3, <1>5, PutsAround DEF addJavaEnvVar
<1> QED BY <1>1, <1>2, <1>3, <1>4, <1>5, <1>6, <1>7

LEMMA AgentPuts ==
  ASSUME NEW repo
  PROVE  Puts(Agent(repo), NamedLists \X {repo})
<1> DEFINE a == AddItem("mounts", Mount(repo, "agent"))
           b == AddItem("inits", Container(repo, <<repo>>, "none"))
           c == AddItem("volumes", repo)
           x == Agent(repo)
<1>1. DOMAIN x = 1..3 /\ x[1] = a /\ x[2] = b /\ x[3] = c /\ IsSeq(x)
  BY Tuples DEF Agent
<1>2. /\ ~IsNaming(a) /\ Label(b) = <<"inits", repo>> /\ Label(c) = <<"volumes", repo>>
  BY DEF AddItem, IsNaming, NamedLists, Label, NameIn, Container
<1> HIDE DEF a, b, c, x
<1>3. \A i \in 1..3 : i = 1 \/ i = 2 \/ i = 3
  OBVIOUS
<1>4. Label(b) # Label(c) /\ Label(b) \in NamedLists \X {repo} /\ Label(c) \in NamedLists \X {repo}
  BY <1>2 DEF NamedLists
<1> QED BY <1>1, <1>2, <1>3, <1>4 DEF Puts, x

(* The lookups of an injection rule. *)
LookupsOf(r) == IF r.collector = Unset THEN {NoLookups} ELSE Lookups

(* Volumes of collectors, and those that are in nobody's way.                *)
CollectorVolumes == UNION {ToSet(SidecarVolumes[c]) : c \in OwnSidecars}
Brought == CollectorVolumes \ (ToSet(app.volumes) \cup Agents \cup SidecarNames)

(* What a collector beside the application brings, if one is named.          *)
CollectorLabels == (NamedLists \X SidecarNames) \cup ({"volumes"} \X Brought)
Beside(r) == IF r.collector = Unset THEN {} ELSE CollectorLabels

LEMMA BroughtIs ==
  /\ Brought \cap ToSet(app.volumes) = {}
  /\ Brought \cap Agents = {} /\ Brought \cap SidecarNames = {}
  /\ \A c \in OwnSidecars : VolumesFit(c) => ToSet(SidecarVolumes[c]) \subseteq Brought
<1>1. \A c \in OwnSidecars : ToSet(SidecarVolumes[c]) \subseteq CollectorVolumes
  BY DEF CollectorVolumes
<1> QED BY <1>1 DEF Brought, VolumesFit

(* The volumes of a collector that fits.                                     *)
LEMMA OwnVolumesPut ==
  ASSUME NEW c, c \in OwnSidecars => VolumesFit(c)
  PROVE  Puts(Adding("volumes", OwnVolumes(c)), {"volumes"} \X Brought)
<1> DEFINE v == OwnVolumes(c)
           x == Adding("volumes", v)
<1>1. IsSeq(x) /\ DOMAIN x = DOMAIN v /\ \A i \in DOMAIN v : x[i] = AddItem("volumes", v[i])
  BY OwnAreSeqs, AddingVolumes DEF Adding
<1>2. \A w : Label(AddItem("volumes", w)) = <<"volumes", w>>
  BY DEF Label, NameIn, AddItem
<1>3. CASE c \notin OwnSidecars
  <2>1. DOMAIN v = {}
    BY <1>3 DEF OwnVolumes
  <2> HIDE DEF v, x
  <2> QED BY <1>1, <2>1 DEF Puts, x, v
<1>4. CASE c \in OwnSidecars
  <2>1. v = SidecarVolumes[c] /\ VolumesFit(c)
    BY <1>4 DEF OwnVolumes
  <2>2. \A i, j \in DOMAIN v : v[i] = v[j] => i = j
    BY <2>1 DEF VolumesFit, IsInjective
  <2>3. \A i \in DOMAIN v : v[i] \in Brought
    <3>1. ToSet(v) \subseteq Brought
      BY <1>4, <2>1, BroughtIs
    <3> QED BY <3>1 DEF ToSet
  <2> HIDE DEF v, x
  <2> QED BY <1>1, <1>2, <2>2, <2>3 DEF Puts, x, v
<1> QED BY <1>3, <1>4

LEMMA SidecarOpsPut ==
  ASSUME NEW c
  PROVE  Puts(SidecarOps(c), CollectorLabels)
<1> DEFINE a == AddItem("containers", Sidecar(c))
           b == AddItem("inits", SidecarSetup)
           v == AddItem("volumes", ConfigVolume)
           x == <<a, b, v>>
           y == Adding("volumes", OwnVolumes(c))
<1>1. DOMAIN x = 1..3 /\ x[1] = a /\ x[2] = b /\ x[3] = v /\ IsSeq(x)
  BY Tuples
<1>2. /\ Label(a) = <<"containers", SidecarName>> /\ Label(b) = <<"inits", SidecarInit>>
      /\ Label(v) = <<"volumes", ConfigVolume>>
  BY DEF AddItem, Label, NameIn, Container, Sidecar, SidecarSetup
<1>3. SidecarOps(c) = x \o y
  BY DEF SidecarOps, SidecarSetup
<1> HIDE DEF a, b, v, x
<1>4. \A i \in 1..3 : i = 1 \/ i = 2 \/ i = 3
  OBVIOUS
<1>5. /\ Label(a) # Label(b) /\ Label(a) # Label(v) /\ Label(b) # Label(v)
      /\ {Label(a), Label(b), Label(v)} \subseteq NamedLists \X SidecarNames
  BY <1>2 DEF NamedLists, SidecarNames
<1>6. Puts(x, NamedLists \X SidecarNames)
  BY <1>1, <1>4, <1>5 DEF Puts
<1>7. CASE c \in OwnSidecars => VolumesFit(c)
  <2>1. Puts(y, {"volumes"} \X Brought)
    BY <1>7, OwnVolumesPut
  <2>2. (NamedLists \X SidecarNames) \cap ({"volumes"} \X Brought) = {}
    BY BroughtIs
  <2> HIDE DEF y
  <2> QED BY <1>3, <1>6, <2>1, <2>2, PutsConcat DEF CollectorLabels
<1>8. CASE c \in OwnSidecars /\ ~VolumesFit(c)
  BY <1>8, SidecarOpsGive DEF Puts, Fits, Gives
<1> QED BY <1>7, <1>8

LEMMA SidecarPuts ==
  ASSUME NEW r, NEW look \in LookupsOf(r)
  PROVE  /\ Puts(SidecarIf(look[2], look[3], look[4]), Beside(r))
         /\ Puts(Exporting(look), Beside(r))
<1>1. \A c : Puts(SidecarOps(c), Beside(r)) \/ r.collector = Unset
  BY SidecarOpsPut DEF Beside
<1>2. Puts(<<>>, Beside(r))
  BY VariablesPut, PutsMore
<1>3. r.collector = Unset => look[1] = "none" /\ look[2] = "none"
  BY DEF LookupsOf, NoLookups
<1>4. ~IsSidecar("none") /\ ~IsService("none")
  BY PatchAssumption DEF IsSidecar, IsService, OtherCollectors
<1>5. \A first, second, third :
         r.collector = Unset /\ first = "none" => Puts(SidecarIf(first, second, third), Beside(r))
  BY <1>2, <1>4 DEF SidecarIf
<1>6. \A first, second, third :
         r.collector # Unset => Puts(SidecarIf(first, second, third), Beside(r))
  BY <1>1, <1>2 DEF SidecarIf, addOtelCollSidecar
<1>7. Puts(SidecarIf(look[2], look[3], look[4]), Beside(r))
  BY <1>3, <1>5, <1>6
<1>8. Puts(Exporting(look), Beside(r))
  <2>1. CASE IsSidecar(look[1]) \/ IsService(look[1])
    <3>1. Puts(SidecarIf(look[1], look[2], look[3]), Beside(r))
      BY <1>3, <1>5, <1>6
    <3>2. Puts(Env(<<VarTo("OTEL_EXPORTER_OTLP_ENDPOINT", Endpoint(look[1]))>>), {})
      BY VariablesPut
    <3> QED BY <2>1, <3>1, <3>2, PutsAround DEF Exporting
  <2>2. CASE ~(IsSidecar(look[1]) \/ IsService(look[1]))
    BY <1>2, <2>2 DEF Exporting
  <2> QED BY <2>1, <2>2
<1> QED BY <1>7, <1>8

(* The agents' names, by technology.                                         *)
AgentNames(technology) ==
  CASE technology = "java/appd"       -> {"appd-agent-repo-java"}
    [] technology = "dotnetcore/appd" -> {"appd-agent-repo-dotnetcore"}
    [] technology = "nodejs/appd"     -> {"appd-agent-repo-nodejs"}
    [] technology \in {"java/otel", "java/splunk"} -> {"otel-agent-repo-java"}
    [] technology = "dotnetcore/otel" -> {"otel-agent-repo-dotnetcore"}
    [] technology = "nodejs/otel"     -> {"otel-agent-repo-nodejs"}
    [] technology = "apache/otel"     -> {Apache.repo, Apache.conf, Apache.copy}
    [] technology = "nginx/otel"      -> {Nginx.repo, Nginx.conf, Nginx.copy}
    [] OTHER                          -> {}

Owned(r) == (NamedLists \X AgentNames(r.technology)) \cup Beside(r)

(* Which agent a name is of. *)
AgentOf(name) ==
  CASE name = "appd-agent-repo-java"       -> 1
    [] name = "appd-agent-repo-dotnetcore" -> 2
    [] name = "appd-agent-repo-nodejs"     -> 3
    [] name = "otel-agent-repo-java"       -> 4
    [] name = "otel-agent-repo-dotnetcore" -> 5
    [] name = "otel-agent-repo-nodejs"     -> 6
    [] name \in {Apache.repo, Apache.conf, Apache.copy} -> 7
    [] name \in {Nginx.repo, Nginx.conf, Nginx.copy}    -> 8
    [] OTHER                               -> 0

Numbered(technology) ==
  CASE technology = "java/appd"       -> 1
    [] technology = "dotnetcore/appd" -> 2
    [] technology = "nodejs/appd"     -> 3
    [] technology \in {"java/otel", "java/splunk"} -> 4
    [] technology = "dotnetcore/otel" -> 5
    [] technology = "nodejs/otel"     -> 6
    [] technology = "apache/otel"     -> 7
    [] technology = "nginx/otel"      -> 8
    [] OTHER                          -> 9

LEMMA AgentNamesAre ==
  ASSUME NEW t
  PROVE  /\ AgentNames(t) \subseteq Agents /\ AgentNames(t) \cap SidecarNames = {}
         /\ \A name \in AgentNames(t) : AgentOf(name) = Numbered(t) /\ Numbered(t) # 9
<1>1. /\ Apache.repo = "otel-agent-repo-apache" /\ Apache.conf = "apache-conf-dir"
      /\ Apache.copy = "apache-source-copy" /\ Nginx.repo = "otel-agent-repo-nginx"
      /\ Nginx.conf = "nginx-conf-dir" /\ Nginx.copy = "nginx-source-copy"
  BY DEF Apache, Nginx
<1>2. AgentNames(t) \subseteq Agents
  BY DEF AgentNames, Agents
<1> HIDE DEF Apache, Nginx
<1>3. AgentNames(t) \cap SidecarNames = {}
  BY <1>1 DEF AgentNames, SidecarNames, ConfigVolume, SidecarName, SidecarInit
<1>4. \A name \in AgentNames(t) : AgentOf(name) = Numbered(t) /\ Numbered(t) # 9
  BY <1>1 DEF AgentNames, AgentOf, Numbered
<1> QED BY <1>2, <1>3, <1>4

LEMMA NumbersDiffer ==
  ASSUME NEW s, NEW t, s # t, {s, t} # {"java/otel", "java/splunk"}, Numbered(s) = Numbered(t)
  PROVE  Numbered(s) = 9
BY DEF Numbered

(* An agent and a collector name nothing alike.                              *)
LEMMA BesideApart ==
  ASSUME NEW r, NEW t
  PROVE  (NamedLists \X AgentNames(t)) \cap Beside(r) = {}
<1>1. AgentNames(t) \subseteq Agents /\ AgentNames(t) \cap SidecarNames = {}
  BY AgentNamesAre
<1> HIDE DEF Agents, SidecarNames
<1>2. AgentNames(t) \cap Brought = {}
  BY <1>1, BroughtIs
<1> QED BY <1>1, <1>2 DEF Beside, CollectorLabels

(* Members with different agents, of which one at most names a collector,    *)
(* name nothing alike.                                                       *)
LEMMA OwnedApart ==
  ASSUME NEW r, NEW s, r.technology # s.technology,
         {r.technology, s.technology} # {"java/otel", "java/splunk"},
         Unset \in {r.collector, s.collector}
  PROVE  Owned(r) \cap Owned(s) = {}
<1> DEFINE A == AgentNames(r.technology)
           B == AgentNames(s.technology)
<1>1. A \cap B = {}
  <2> SUFFICES ASSUME NEW name \in A, name \in B PROVE FALSE
    OBVIOUS
  <2>1. /\ AgentOf(name) = Numbered(r.technology) /\ Numbered(r.technology) # 9
        /\ AgentOf(name) = Numbered(s.technology)
    BY AgentNamesAre
  <2> QED BY <2>1, NumbersDiffer
<1>2. (NamedLists \X A) \cap Beside(s) = {} /\ (NamedLists \X B) \cap Beside(r) = {}
  BY BesideApart
<1>3. Beside(r) = {} \/ Beside(s) = {}
  BY DEF Beside
<1> HIDE DEF A, B
<1>4. (NamedLists \X A) \cap (NamedLists \X B) = {}
  BY <1>1
<1> QED BY <1>2, <1>3, <1>4 DEF Owned, A, B

LEMMA OwnedIs ==
  ASSUME NEW r
  PROVE  /\ Owned(r) \subseteq (NamedLists \X (Agents \cup SidecarNames)) \cup ({"volumes"} \X Brought)
         /\ (NamedLists \X AgentNames(r.technology)) \cap Beside(r) = {}
<1>1. AgentNames(r.technology) \subseteq Agents
  BY AgentNamesAre
<1>2. Beside(r) \subseteq (NamedLists \X SidecarNames) \cup ({"volumes"} \X Brought)
  BY DEF Beside, CollectorLabels
<1>3. (NamedLists \X AgentNames(r.technology)) \cap Beside(r) = {}
  BY BesideApart
<1> HIDE DEF Agents, SidecarNames, Brought
<1> QED BY <1>1, <1>2, <1>3 DEF Owned

(* An agent, and a collector maybe, among variables. *)
LEMMA AgentNamed ==
  ASSUME NEW r, NEW look \in LookupsOf(r), NEW repo, AgentNames(r.technology) = {repo}
  PROVE  \A a, x :
           /\ Puts(a, {}) => Puts(a \o Agent(repo), Owned(r))
           /\ Puts(a, {}) =>
                Puts(a \o Agent(repo) \o SidecarIf(look[2], look[3], look[4]), Owned(r))
           /\ Puts(a, {}) => Puts(a \o Agent(repo) \o Exporting(look), Owned(r))
           /\ Puts(x, Beside(r)) => Puts(x \o Agent(repo), Owned(r))
<1> DEFINE A == NamedLists \X {repo}
           B == Beside(r)
           agent == Agent(repo)
<1>1. A \cap B = {} /\ Owned(r) = A \cup B
  BY OwnedIs DEF Owned
<1>2. Puts(agent, A) /\ Puts(SidecarIf(look[2], look[3], look[4]), B) /\ Puts(Exporting(look), B)
  BY AgentPuts, SidecarPuts
<1> HIDE DEF A, B, agent
<1>3. ASSUME NEW a, Puts(a, {})
      PROVE  /\ Puts(a \o agent, Owned(r)) /\ Puts(a \o agent \o Exporting(look), Owned(r))
             /\ Puts(a \o agent \o SidecarIf(look[2], look[3], look[4]), Owned(r))
  <2>1. Puts(a \o agent, A)
    BY <1>2, <1>3, PutsAround
  <2> QED BY <1>1, <1>2, <2>1, PutsConcat, PutsMore
<1>4. ASSUME NEW x, Puts(x, B)
      PROVE  Puts(x \o agent, Owned(r))
  <2>1. Puts(x \o agent, B \cup A)
    BY <1>1, <1>2, <1>4, PutsConcat
  <2> QED BY <1>1, <2>1, PutsMore
<1> QED BY <1>3, <1>4 DEF agent, B

LEMMA PutsThree ==
  ASSUME NEW a, NEW b, NEW c, Puts(a, {}), Puts(b, {}), Puts(c, {})
  PROVE  Puts(a \o b \o c, {})
<1>1. Puts(a \o b, {})
  BY PutsAround
<1> QED BY <1>1, PutsAround

(* What the patch of any technology but the web servers' names. *)
LEMMA TechnologyPuts ==
  ASSUME NEW p, NEW r, IsSeq(r.env), NEW look \in LookupsOf(r),
         r.technology \notin {"apache/otel", "nginx/otel"}
  PROVE  Puts(applyInjectionRule(p, r, look), Owned(r))
<1> DEFINE u == applyInjectionRule(p, r, look)
           mine == Env(r.env)
<1>1. /\ Puts(<<>>, {}) /\ Puts(mine, {}) /\ Puts(addControllerEnvVars, {}) /\ Puts(Naming, {})
      /\ Puts(Netviz, {}) /\ Puts(Service, {}) /\ Puts(dotnetOtelEnv(r), {})
      /\ Puts(addJavaEnvVar(r, look[1]), {})
      /\ \A v : Puts(Env(<<v>>), {})
      /\ \A v, w : Puts(Env(<<v, w>>), {})
  BY VariablesPut DEF addControllerEnvVars, Naming, Netviz, Service
<1>2. Puts(Exporting(look), Beside(r))
  BY SidecarPuts
<1> HIDE DEF mine
<1>3. CASE r.technology = "java/appd"
  <2> DEFINE a == addControllerEnvVars \o addJavaEnvVar(r, look[1]) \o Naming
             x == a \o mine \o Netviz
  <2>1. u = x \o Agent("appd-agent-repo-java") \o SidecarIf(look[2], look[3], look[4])
    BY <1>3 DEF applyInjectionRule, javaAppd, mine
  <2>2. Puts(a, {})
    BY <1>1, PutsThree
  <2> HIDE DEF a
  <2>3. Puts(x, {})
    BY <1>1, <2>2, PutsThree
  <2>4. AgentNames(r.technology) = {"appd-agent-repo-java"}
    BY <1>3 DEF AgentNames
  <2> HIDE DEF x
  <2> QED BY <2>1, <2>3, <2>4, AgentNamed
<1>4. CASE r.technology = "dotnetcore/appd"
  <2> DEFINE a == Env(<<Var("CORECLR_PROFILER")>>)
             b == IF Found(look[1]) THEN dotnetOtelEnv(r) ELSE <<>>
             c == addControllerEnvVars \o a \o b
             x == c \o Exporting(look) \o Naming \o mine \o Netviz
  <2>1. u = x \o Agent("appd-agent-repo-dotnetcore")
    BY <1>4 DEF applyInjectionRule, dotnetAppd, mine
  <2>2. Puts(a, {}) /\ Puts(b, {})
    BY <1>1
  <2> HIDE DEF a, b
  <2>3. Puts(c, {})
    BY <1>1, <2>2, PutsThree
  <2> HIDE DEF c
  <2>4. Puts(c \o Exporting(look), Beside(r))
    BY <1>2, <2>3, PutsAround
  <2>5. Puts(c \o Exporting(look) \o Naming, Beside(r))
    BY <1>1, <2>4, PutsAround
  <2>6. Puts(c \o Exporting(look) \o Naming \o mine, Beside(r))
    BY <1>1, <2>5, PutsAround
  <2>7. Puts(x, Beside(r))
    BY <1>1, <2>6, PutsAround
  <2>8. AgentNames(r.technology) = {"appd-agent-repo-dotnetcore"}
    BY <1>4 DEF AgentNames
  <2> HIDE DEF x
  <2> QED BY <2>1, <2>7, <2>8, AgentNamed
<1>5. CASE r.technology = "nodejs/appd"
  <2> DEFINE a == addControllerEnvVars \o Env(<<Var("NODE_OPTIONS")>>) \o Naming
             x == a \o mine \o Netviz
  <2>1. u = x \o Agent("appd-agent-repo-nodejs")
    BY <1>5 DEF applyInjectionRule, nodejsAppd, mine
  <2>2. Puts(a, {})
    BY <1>1, PutsThree
  <2> HIDE DEF a
  <2>3. Puts(x, {})
    BY <1>1, <2>2, PutsThree
  <2>4. AgentNames(r.technology) = {"appd-agent-repo-nodejs"}
    BY <1>5 DEF AgentNames
  <2> HIDE DEF x
  <2> QED BY <2>1, <2>3, <2>4, AgentNamed
<1>6. CASE r.technology \in {"java/otel", "java/splunk"}
  <2> DEFINE x == Env(<<Var("JAVA_TOOL_OPTIONS"), Var(Attributes)>>) \o Service \o mine
  <2>1. u = x \o Agent("otel-agent-repo-java") \o Exporting(look)
    BY <1>6 DEF applyInjectionRule, javaOtel, mine
  <2>2. Puts(x, {})
    BY <1>1, PutsThree
  <2>3. AgentNames(r.technology) = {"otel-agent-repo-java"}
    BY <1>6 DEF AgentNames
  <2> HIDE DEF x
  <2> QED BY <2>1, <2>2, <2>3, AgentNamed
<1>7. CASE r.technology = "dotnetcore/otel"
  <2> DEFINE c == Env(<<Var("CORECLR_PROFILER")>>) \o Service \o Env(<<Var(Attributes)>>)
             x == c \o Exporting(look) \o mine
  <2>1. u = x \o Agent("otel-agent-repo-dotnetcore")
    BY <1>7 DEF applyInjectionRule, dotnetOtel, mine
  <2>2. Puts(c, {})
    BY <1>1, PutsThree
  <2> HIDE DEF c
  <2>3. Puts(c \o Exporting(look), Beside(r))
    BY <1>2, <2>2, PutsAround
  <2>4. Puts(x, Beside(r))
    BY <1>1, <2>3, PutsAround
  <2>5. AgentNames(r.technology) = {"otel-agent-repo-dotnetcore"}
    BY <1>7 DEF AgentNames
  <2> HIDE DEF x
  <2> QED BY <2>1, <2>4, <2>5, AgentNamed
<1>8. CASE r.technology = "nodejs/otel"
  <2> DEFINE x == Env(<<Var("NODE_OPTIONS")>>) \o Service \o mine
  <2>1. u = x \o Agent("otel-agent-repo-nodejs") \o Exporting(look)
    BY <1>8 DEF applyInjectionRule, nodejsOtel, mine
  <2>2. Puts(x, {})
    BY <1>1, PutsThree
  <2>3. AgentNames(r.technology) = {"otel-agent-repo-nodejs"}
    BY <1>8 DEF AgentNames
  <2> HIDE DEF x
  <2> QED BY <2>1, <2>2, <2>3, AgentNamed
<1>9. CASE r.technology \notin Instrumented
  <2>1. u = <<>>
    BY <1>9 DEF applyInjectionRule, Instrumented
  <2> QED BY <1>1, <2>1, PutsMore
<1> QED BY <1>3, <1>4, <1>5, <1>6, <1>7, <1>8, <1>9 DEF Instrumented

LEMMA WebserverPuts ==
  ASSUME NEW p, IsSeq(p.mounts), NEW r, IsSeq(r.env), NEW look \in LookupsOf(r), NEW server,
         IsSeq(server.env), server.repo # server.conf, server.repo # server.copy,
         AgentNames(r.technology) = {server.repo, server.conf, server.copy}
  PROVE  Puts(webserverOtel(p, r, look, server), Owned(r))
<1> DEFINE attrs == addK8SOtelResourceAttrs(r, Attributes)
           vars3 == Env(server.env) \o attrs \o Env(r.env)
           a == AddItem("mounts", Mount(server.conf, server.dir))
           b == AddItem("mounts", Mount(server.repo, "agent"))
           d == AddItem("inits", CloneAsInit(p, server))
           first == <<a, b, d>>
           drops == dropPassedConfig(p, server)
           i == AddItem("inits", ServerAgent(server, look[1]))
           v == AddItem("volumes", server.repo)
           w == AddItem("volumes", server.conf)
           volumes == <<v, w>>
           sidecar == SidecarIf(look[2], look[3], look[4])
           A == NamedLists \X AgentNames(r.technology)
           B == Beside(r)
           front == vars3 \o first \o drops
           u == front \o <<i>> \o volumes \o sidecar
<1>1. webserverOtel(p, r, look, server) = u
  BY DEF webserverOtel, ServerAgent, WebserverVolumes
<1>2. Puts(vars3, {})
  <2>1. Puts(Env(server.env), {}) /\ Puts(attrs, {}) /\ Puts(Env(r.env), {})
    BY VariablesPut
  <2> HIDE DEF attrs
  <2> QED BY <2>1, PutsThree
<1>3. /\ ~IsNaming(a) /\ ~IsNaming(b) /\ Label(d) = <<"inits", server.copy>>
      /\ Label(i) = <<"inits", server.repo>>
      /\ Label(v) = <<"volumes", server.repo>> /\ Label(w) = <<"volumes", server.conf>>
  BY DEF AddItem, IsNaming, NamedLists, Label, NameIn, Container, CloneAsInit, ServerAgent
<1> HIDE DEF a, b, d, i, v, w
<1>4. Puts(first, {Label(d)})
  <2>1. DOMAIN first = 1..3 /\ first[1] = a /\ first[2] = b /\ first[3] = d /\ IsSeq(first)
    BY Tuples
  <2> HIDE DEF first
  <2>2. \A k \in 1..3 : k = 1 \/ k = 2 \/ k = 3
    OBVIOUS
  <2> QED BY <1>3, <2>1, <2>2 DEF Puts
<1>5. Puts(drops, {})
  <2>1. IsSeq(drops) /\ \A o \in ToSet(drops) : IsRemoval(o)
    BY DropsAre
  <2> HIDE DEF drops
  <2> QED BY <2>1, PutsNothing DEF IsRemoval, IsNaming
<1>6. Puts(<<i>>, {Label(i)})
  <2>1. DOMAIN <<i>> = {1} /\ <<i>>[1] = i /\ IsSeq(<<i>>)
    BY Tuples
  <2> QED BY <2>1 DEF Puts
<1>7. Puts(volumes, {Label(v), Label(w)})
  <2>1. DOMAIN volumes = 1..2 /\ volumes[1] = v /\ volumes[2] = w /\ IsSeq(volumes)
    BY Tuples
  <2> HIDE DEF volumes
  <2>2. \A k \in 1..2 : k = 1 \/ k = 2
    OBVIOUS
  <2>3. Label(v) # Label(w)
    BY <1>3
  <2> QED BY <2>1, <2>2, <2>3 DEF Puts
<1>8. Puts(sidecar, B)
  BY SidecarPuts
<1>9. A \cap B = {} /\ Owned(r) = A \cup B
  BY OwnedIs DEF Owned
<1> HIDE DEF vars3, first, drops, volumes, sidecar
<1>10. Puts(front, {Label(d)})
  <2>1. Puts(vars3 \o first, {Label(d)})
    BY <1>2, <1>4, PutsAround
  <2> QED BY <1>5, <2>1, PutsAround
<1> HIDE DEF front
<1>11. Puts(front \o <<i>>, {Label(d)} \cup {Label(i)})
  <2>1. Label(d) # Label(i)
    BY <1>3
  <2> QED BY <1>6, <1>10, <2>1, PutsConcat
<1>12. Puts(front \o <<i>> \o volumes, {Label(d)} \cup {Label(i)} \cup {Label(v), Label(w)})
  <2>1. ({Label(d)} \cup {Label(i)}) \cap {Label(v), Label(w)} = {}
    BY <1>3
  <2> QED BY <1>7, <1>11, <2>1, PutsConcat
<1>13. Puts(front \o <<i>> \o volumes, A)
  <2>1. {Label(d)} \cup {Label(i)} \cup {Label(v), Label(w)} \subseteq A
    BY <1>3 DEF NamedLists
  <2> QED BY <1>12, <2>1, PutsMore
<1>14. Puts(u, A \cup B)
  <2> HIDE DEF A, B
  <2> QED BY <1>8, <1>9, <1>13, PutsConcat
<1> QED BY <1>1, <1>9, <1>14

(* A patch names what is its agent's, and its collector's, and nothing twice. *)
LEMMA RulePuts ==
  ASSUME NEW p, IsSeq(p.mounts), NEW r, IsSeq(r.env), NEW look \in LookupsOf(r)
  PROVE  Puts(applyInjectionRule(p, r, look), Owned(r))
<1>1. CASE r.technology \in {"apache/otel", "nginx/otel"}
  <2>1. PICK server \in {Apache, Nginx} :
          /\ applyInjectionRule(p, r, look) = webserverOtel(p, r, look, server)
          /\ AgentNames(r.technology) = {server.repo, server.conf, server.copy}
    <3>1. CASE r.technology = "apache/otel"
      BY <3>1 DEF applyInjectionRule, AgentNames
    <3>2. CASE r.technology = "nginx/otel"
      BY <3>2 DEF applyInjectionRule, AgentNames
    <3> QED BY <1>1, <3>1, <3>2
  <2>2. IsSeq(server.env) /\ server.repo # server.conf /\ server.repo # server.copy
    BY Tuples DEF Apache, Nginx
  <2> QED BY <2>1, <2>2, WebserverPuts
<1>2. CASE r.technology \notin {"apache/otel", "nginx/otel"}
  BY <1>2, TechnologyPuts
<1> QED BY <1>1, <1>2

(* The labels of what the first n operations add. *)
LabelsOf(x, n) == {Label(x[i]) : i \in {j \in 1..n : IsNaming(x[j])}}

(* Lists with the labels C, each of which is one item's only.                *)
Distinct(lists, C) ==
  \A list \in NamedLists :
    /\ \A i \in DOMAIN lists[list] : <<list, NameIn(list, lists[list][i])>> \in C
    /\ \A i, j \in DOMAIN lists[list] :
         NameIn(list, lists[list][i]) = NameIn(list, lists[list][j]) => i = j

LEMMA AppendIndices ==
  ASSUME NEW s, IsSeq(s), NEW v, NEW t, t = Append(s, v)
  PROVE  \A i \in DOMAIN t :
           \/ i \in DOMAIN s /\ t[i] = s[i]
           \/ i = Len(s) + 1 /\ t[i] = v
<1> DEFINE S == ToSet(s) \cup {v}
<1>1. s \in Seq(S) /\ v \in S
  BY IsSeqIn
<1>2. DOMAIN s = 1..Len(s) /\ Len(s) \in Nat
  BY IsSeqFacts
<1> HIDE DEF S
<1>3. /\ t \in Seq(S) /\ Len(t) = Len(s) + 1
      /\ \A i \in 1..Len(s) : t[i] = s[i]
      /\ t[Len(s) + 1] = v
  BY <1>1, AppendProperties
<1>4. DOMAIN t = 1..(Len(s) + 1)
  BY <1>3
<1>5. \A i \in 1..(Len(s) + 1) : i \in 1..Len(s) \/ i = Len(s) + 1
  BY <1>2
<1> QED BY <1>2, <1>3, <1>4, <1>5

LEMMA DistinctStep ==
  ASSUME NEW d, IsDoc(d), NEW o, IsAddition(o) \/ IsRemoval(o), Step(d, o).ok,
         NEW C, Distinct(d.lists, C), IsNaming(o) => Label(o) \notin C
  PROVE  Distinct(Step(d, o).lists, C \cup {l \in {Label(o)} : IsNaming(o)})
<1> DEFINE K == C \cup {l \in {Label(o)} : IsNaming(o)}
<1> SUFFICES ASSUME NEW list \in NamedLists
             PROVE  LET t == Step(d, o).lists[list]
                    IN  /\ \A i \in DOMAIN t : <<list, NameIn(list, t[i])>> \in K
                        /\ \A i, j \in DOMAIN t : NameIn(list, t[i]) = NameIn(list, t[j]) => i = j
  BY DEF Distinct
<1> DEFINE s == d.lists[list]
           t == Step(d, o).lists[list]
<1>1. list \in Lists /\ list # "mounts"
  BY DEF NamedLists, Lists
<1>2. /\ list # o.list => t = s
      /\ list = o.list => o.op = "append" /\ t = Append(s, o.value)
  BY <1>1, ChangeStep
<1>3. /\ \A i \in DOMAIN s : <<list, NameIn(list, s[i])>> \in C
      /\ \A i, j \in DOMAIN s : NameIn(list, s[i]) = NameIn(list, s[j]) => i = j
  BY DEF Distinct
<1>4. IsSeq(s)
  BY <1>1, DocFacts
<1>5. C \subseteq K /\ (IsNaming(o) => Label(o) \in K)
  OBVIOUS
<1> HIDE DEF s, t, K
<1>6. CASE t = s
  BY <1>3, <1>5, <1>6 DEF t
<1>7. CASE list = o.list
  <2>1. IsNaming(o) /\ Label(o) = <<list, NameIn(list, o.value)>> /\ t = Append(s, o.value)
    BY <1>2, <1>7 DEF IsNaming, Label
  <2>2. \A i \in DOMAIN t :
          \/ i \in DOMAIN s /\ t[i] = s[i]
          \/ i = Len(s) + 1 /\ t[i] = o.value
    BY <1>4, <2>1, AppendIndices
  <2>3. \A i \in DOMAIN t : <<list, NameIn(list, t[i])>> \in K
    BY <1>3, <1>5, <2>1, <2>2
  <2>4. ASSUME NEW i \in DOMAIN t, NEW j \in DOMAIN t, NameIn(list, t[i]) = NameIn(list, t[j])
        PROVE  i = j
    <3>1. \A k \in DOMAIN s : NameIn(list, s[k]) # NameIn(list, o.value)
      BY <1>3, <2>1
    <3> QED BY <1>3, <2>2, <2>4, <3>1
  <2> QED BY <2>3, <2>4 DEF t
<1> QED BY <1>2, <1>6, <1>7

(* A patch that names nothing the document does, nor anything twice.         *)
LEMMA ChangesDistinct ==
  ASSUME NEW d, IsDoc(d), NEW x, IsChanges(x), applyPatch(d, x).ok, NEW L, Puts(x, L), Fits(x),
         NEW C, Distinct(d.lists, C), L \cap C = {}
  PROVE  Distinct(applyPatch(d, x).lists, C \cup L)
<1>1. IsPatch(x) /\ Len(x) \in Nat /\ DOMAIN x = 1..Len(x)
  BY IsSeqFacts DEF IsPatch, IsChanges, IsOperation
<1>2. PICK f : /\ Runs(f, d, x) /\ applyPatch(d, x) = f[Len(x)]
                /\ \A n \in 0..Len(x) : IsDoc(f[n])
  BY <1>1, PatchRuns
<1> DEFINE Good == {n \in Nat : n <= Len(x) /\ f[n].ok => Distinct(f[n].lists, C \cup LabelsOf(x, n))}
<1>3. 0 \in Good
  <2>1. LabelsOf(x, 0) = {}
    BY DEF LabelsOf
  <2>2. f[0] = d /\ C \cup {} = C
    BY <1>2 DEF Runs
  <2> QED BY <2>1, <2>2
<1>4. ASSUME NEW n \in Nat, n \in Good
      PROVE  n + 1 \in Good
  <2> DEFINE o == x[n + 1]
  <2> SUFFICES ASSUME n + 1 <= Len(x), f[n + 1].ok
               PROVE  Distinct(f[n + 1].lists, C \cup LabelsOf(x, n + 1))
    OBVIOUS
  <2>1. n + 1 \in 1..Len(x) /\ (n + 1) - 1 = n /\ n <= Len(x) /\ n \in 0..Len(x)
    BY <1>1
  <2>2. f[n + 1] = Step(f[n], o)
    BY <1>2, <2>1 DEF Runs
  <2>3. IsAddition(o) \/ IsRemoval(o)
    BY <1>1, <2>1 DEF IsChanges, ToSet
  <2>4. IsDoc(f[n])
    BY <1>2, <2>1
  <2>5. f[n].ok
    BY <2>2, <2>3, <2>4, ChangeStep DEF Lists
  <2>6. Distinct(f[n].lists, C \cup LabelsOf(x, n))
    BY <1>4, <2>1, <2>5
  <2>7. IsNaming(o) => Label(o) \notin C \cup LabelsOf(x, n)
    <3> SUFFICES ASSUME IsNaming(o) PROVE Label(o) \notin C \cup LabelsOf(x, n)
      OBVIOUS
    <3>1. Label(o) \in L
      BY <1>1, <2>1 DEF Puts
    <3>2. ASSUME NEW i \in 1..n, IsNaming(x[i]), Label(x[i]) = Label(o)
          PROVE  FALSE
      <4>1. i \in DOMAIN x /\ n + 1 \in DOMAIN x /\ i # n + 1
        BY <1>1, <2>1
      <4> QED BY <3>2, <4>1 DEF Puts
    <3> QED BY <3>1, <3>2 DEF LabelsOf
  <2>8. LabelsOf(x, n + 1) = LabelsOf(x, n) \cup {l \in {Label(o)} : IsNaming(o)}
    <3>1. \A i : i \in 1..(n + 1) <=> i \in 1..n \/ i = n + 1
      OBVIOUS
    <3> QED BY <3>1 DEF LabelsOf
  <2> HIDE DEF Good, o
  <2>9. Distinct(f[n + 1].lists, (C \cup LabelsOf(x, n)) \cup {l \in {Label(o)} : IsNaming(o)})
    BY <2>2, <2>3, <2>4, <2>6, <2>7, DistinctStep
  <2>10. (C \cup LabelsOf(x, n)) \cup {l \in {Label(o)} : IsNaming(o)} = C \cup LabelsOf(x, n + 1)
    BY <2>8
  <2> QED BY <2>9, <2>10
<1>5. Len(x) \in Good
  <2> HIDE DEF Good
  <2> QED BY <1>1, <1>3, <1>4, SetInduction
<1>6. LabelsOf(x, Len(x)) \subseteq L
  BY <1>1 DEF LabelsOf, Puts
<1> QED BY <1>1, <1>2, <1>5, <1>6 DEF Distinct

-----------------------------------------------------------------------------
(* The order of the variables.                                               *)

Defines(x, i, name) == IsVariable(x[i]) /\ x[i].value.name = name

IsTemplated(r) == r.template \notin {Unset, NotFound}

OwnNames(r) == {v.name : v \in ToSet(r.env)}

(* A patch for the injection rule r defines N and what the user defines, and *)
(* nothing twice that the user does not define; what its variables refer to  *)
(* is P or defined before, but for the user's if a template has lost their   *)
(* order.                                                                    *)
Speaks(x, N, P, r) ==
  /\ IsSeq(x)
  /\ \A i \in DOMAIN x : IsVariable(x[i]) => x[i].value.name \in N \cup OwnNames(r)
  /\ \A name \in N : \E i \in DOMAIN x : Defines(x, i, name)
  /\ \A i, j \in DOMAIN x : \A name :
       Defines(x, i, name) /\ Defines(x, j, name) => i = j \/ name \in OwnNames(r)
  /\ \A i \in DOMAIN x : IsVariable(x[i]) => \A name \in x[i].value.refs :
       \/ name \in P
       \/ \E j \in DOMAIN x : j < i /\ Defines(x, j, name)
       \/ IsTemplated(r) /\ x[i].value \in ToSet(r.env)

LEMMA SpeaksConcat ==
  ASSUME NEW r, NEW a, NEW N, NEW P, Speaks(a, N, P, r), NEW b, NEW M, NEW Q, Speaks(b, M, Q, r),
         N \cap M = {}, Q \subseteq P \cup N
  PROVE  Speaks(a \o b, N \cup M, P, r)
<1> DEFINE x == a \o b
           m == Len(a)
           n == Len(b)
<1>1. /\ IsSeq(x) /\ m \in Nat /\ n \in Nat /\ Len(x) = m + n
      /\ \A i \in 1..(m + n) : x[i] = IF i <= m THEN a[i] ELSE b[i - m]
  BY IsSeqConcat, IsSeqFacts DEF Speaks
<1>2. DOMAIN a = 1..m /\ DOMAIN b = 1..n /\ DOMAIN x = 1..(m + n)
  BY <1>1, IsSeqFacts DEF Speaks
<1> HIDE DEF x, m, n
<1>3. ASSUME NEW i \in 1..(m + n)
      PROVE  \/ i \in 1..m /\ x[i] = a[i]
             \/ ~(i <= m) /\ i - m \in 1..n /\ x[i] = b[i - m]
  BY <1>1
<1>4. /\ \A i \in 1..m : i \in DOMAIN x /\ x[i] = a[i]
      /\ \A i \in 1..n : m + i \in DOMAIN x /\ x[m + i] = b[i] /\ m + i > m
  <2>1. ASSUME NEW i \in 1..n
        PROVE  m + i \in 1..(m + n) /\ ~(m + i <= m) /\ (m + i) - m = i
    BY <1>1
  <2> QED BY <1>1, <1>2, <2>1
<1>5. ASSUME NEW i \in DOMAIN x, IsVariable(x[i])
      PROVE  x[i].value.name \in N \cup M \cup OwnNames(r)
  BY <1>2, <1>3, <1>5 DEF Speaks
<1>6. ASSUME NEW name \in N \cup M
      PROVE  \E i \in DOMAIN x : Defines(x, i, name)
  <2>1. CASE name \in N
    <3>1. PICK i \in 1..m : Defines(a, i, name)
      BY <1>2, <2>1 DEF Speaks
    <3> QED BY <1>4, <3>1 DEF Defines
  <2>2. CASE name \in M
    <3>1. PICK i \in 1..n : Defines(b, i, name)
      BY <1>2, <2>2 DEF Speaks
    <3> QED BY <1>4, <3>1 DEF Defines
  <2> QED BY <2>1, <2>2
<1>7. ASSUME NEW i \in DOMAIN x, NEW j \in DOMAIN x, NEW name,
             Defines(x, i, name), Defines(x, j, name)
      PROVE  i = j \/ name \in OwnNames(r)
  <2>1. CASE i \in 1..m /\ x[i] = a[i] /\ j \in 1..m /\ x[j] = a[j]
    BY <1>2, <1>7, <2>1 DEF Speaks, Defines
  <2>2. CASE i - m \in 1..n /\ x[i] = b[i - m] /\ j - m \in 1..n /\ x[j] = b[j - m]
    <3>1. i - m = j - m \/ name \in OwnNames(r)
      BY <1>2, <1>7, <2>2 DEF Speaks, Defines
    <3> QED BY <1>1, <1>2, <3>1
  <2>3. CASE i \in 1..m /\ x[i] = a[i] /\ j - m \in 1..n /\ x[j] = b[j - m]
    <3>1. name \in N \cup OwnNames(r) /\ name \in M \cup OwnNames(r)
      BY <1>2, <1>7, <2>3 DEF Speaks, Defines
    <3> QED BY <3>1
  <2>4. CASE j \in 1..m /\ x[j] = a[j] /\ i - m \in 1..n /\ x[i] = b[i - m]
    <3>1. name \in N \cup OwnNames(r) /\ name \in M \cup OwnNames(r)
      BY <1>2, <1>7, <2>4 DEF Speaks, Defines
    <3> QED BY <3>1
  <2> QED BY <1>2, <1>3, <2>1, <2>2, <2>3, <2>4
<1>8. ASSUME NEW i \in DOMAIN x, IsVariable(x[i]), NEW name \in x[i].value.refs
      PROVE  \/ name \in P
             \/ \E j \in DOMAIN x : j < i /\ Defines(x, j, name)
             \/ IsTemplated(r) /\ x[i].value \in ToSet(r.env)
  <2>1. CASE i \in 1..m /\ x[i] = a[i]
    <3>1. \/ name \in P
          \/ \E j \in 1..m : j < i /\ Defines(a, j, name)
          \/ IsTemplated(r) /\ a[i].value \in ToSet(r.env)
      BY <1>2, <1>8, <2>1 DEF Speaks
    <3> QED BY <1>4, <2>1, <3>1 DEF Defines
  <2>2. CASE ~(i <= m) /\ i - m \in 1..n /\ x[i] = b[i - m]
    <3>1. \/ name \in P \cup N
          \/ \E j \in 1..n : j < i - m /\ Defines(b, j, name)
          \/ IsTemplated(r) /\ b[i - m].value \in ToSet(r.env)
      BY <1>2, <1>8, <2>2 DEF Speaks
    <3>2. CASE name \in N
      <4>1. PICK j \in 1..m : Defines(a, j, name)
        BY <1>2, <3>2 DEF Speaks
      <4>2. j < i
        BY <1>1, <1>2, <2>2
      <4> QED BY <1>4, <4>1, <4>2 DEF Defines
    <3>3. CASE \E j \in 1..n : j < i - m /\ Defines(b, j, name)
      <4>1. PICK j \in 1..n : j < i - m /\ Defines(b, j, name)
        BY <3>3
      <4>2. m + j < i
        BY <1>1, <1>2, <4>1
      <4> QED BY <1>4, <4>1, <4>2 DEF Defines
    <3> QED BY <2>2, <3>1, <3>2, <3>3
  <2> QED BY <1>2, <1>3, <2>1, <2>2
<1> QED BY <1>1, <1>5, <1>6, <1>7, <1>8 DEF Speaks, x

LEMMA SpeaksMore ==
  ASSUME NEW r, NEW x, NEW N, NEW P, Speaks(x, N, P, r), NEW Q, P \subseteq Q
  PROVE  Speaks(x, N, Q, r)
BY DEF Speaks

(* Two patches that refer to what they define themselves. *)
LEMMA SpeaksBoth ==
  ASSUME NEW r, NEW a, NEW N, Speaks(a, N, {}, r), NEW b, NEW M, Speaks(b, M, {}, r), N \cap M = {}
  PROVE  Speaks(a \o b, N \cup M, {}, r)
BY SpeaksConcat

(* Patches without variables. *)
LEMMA SpeaksNothing ==
  ASSUME NEW r, NEW x, IsSeq(x), Added(x, "env") = {}
  PROVE  Speaks(x, {}, {}, r)
<1>1. \A i \in DOMAIN x : ~IsVariable(x[i])
  BY DEF IsVariable, Added, AddedBy, ToSet
<1> QED BY <1>1 DEF Speaks, Defines

LEMMA EnvDefines ==
  ASSUME NEW s, IsSeq(s)
  PROVE  LET x == Env(s)
         IN  /\ IsSeq(x) /\ DOMAIN x = DOMAIN s /\ DOMAIN x = 1..Len(s) /\ Len(s) \in Nat
             /\ \A i \in DOMAIN s : IsVariable(x[i]) /\ x[i].value = s[i]
<1>1. DOMAIN Env(s) = DOMAIN s /\ \A i \in DOMAIN s : Env(s)[i] = AddItem("env", s[i])
  BY DEF Env, Adding
<1>2. IsSeq(Env(s))
  BY AddedEnv DEF Gives
<1>3. \A v : IsVariable(AddItem("env", v)) /\ AddItem("env", v).value = v
  BY DEF AddItem, IsVariable
<1> QED BY <1>1, <1>2, <1>3, IsSeqFacts

LEMMA OneSpeaks ==
  ASSUME NEW r, NEW v
  PROVE  Speaks(Env(<<v>>), {v.name}, v.refs, r)
<1> DEFINE s == <<v>>
           x == Env(s)
<1>1. IsSeq(s) /\ Len(s) = 1 /\ s[1] = v
  BY Tuples
<1>2. /\ IsSeq(x) /\ DOMAIN x = 1..1 /\ IsVariable(x[1]) /\ x[1].value = v
  <2> HIDE DEF s
  <2> QED BY <1>1, EnvDefines
<1> HIDE DEF s, x
<1> QED BY <1>2 DEF Speaks, Defines, x, s

LEMMA TwoSpeak ==
  ASSUME NEW r, NEW v, NEW w, v.name # w.name, v.refs = {}, w.refs \subseteq {v.name}
  PROVE  Speaks(Env(<<v, w>>), {v.name, w.name}, {}, r)
<1> DEFINE s == <<v, w>>
           x == Env(s)
<1>1. IsSeq(s) /\ Len(s) = 2 /\ s[1] = v /\ s[2] = w
  BY Tuples
<1>2. /\ IsSeq(x) /\ DOMAIN x = 1..2
      /\ IsVariable(x[1]) /\ x[1].value = v /\ IsVariable(x[2]) /\ x[2].value = w
  <2> HIDE DEF s
  <2> QED BY <1>1, EnvDefines
<1>3. \A i \in 1..2 : i = 1 \/ i = 2
  OBVIOUS
<1> HIDE DEF s, x
<1>4. ASSUME NEW i \in DOMAIN x, IsVariable(x[i]), NEW name \in x[i].value.refs
      PROVE  \E j \in DOMAIN x : j < i /\ Defines(x, j, name)
  <2>1. i = 2 /\ name = v.name
    BY <1>2, <1>3, <1>4
  <2>2. 1 \in DOMAIN x /\ 1 < i /\ Defines(x, 1, name)
    BY <1>2, <2>1 DEF Defines
  <2> QED BY <2>2
<1>5. ASSUME NEW name \in {v.name, w.name}
      PROVE  \E i \in DOMAIN x : Defines(x, i, name)
  <2>1. 1 \in DOMAIN x /\ 2 \in DOMAIN x
    BY <1>2
  <2> QED BY <1>2, <2>1 DEF Defines
<1>6. ASSUME NEW i \in DOMAIN x, NEW j \in DOMAIN x, NEW name,
             Defines(x, i, name), Defines(x, j, name)
      PROVE  i = j
  BY <1>2, <1>3, <1>6 DEF Defines
<1>7. \A i \in DOMAIN x : IsVariable(x[i]) => x[i].value.name \in {v.name, w.name}
  BY <1>2, <1>3
<1> QED BY <1>2, <1>4, <1>5, <1>6, <1>7 DEF Speaks, x, s

(* The user's own variables. *)
LEMMA OwnSpeak ==
  ASSUME NEW r, IsSeq(r.env), IsClosed(r.env) \/ IsTemplated(r)
  PROVE  Speaks(Env(r.env), {}, {}, r)
<1> DEFINE s == r.env
           x == Env(s)
<1>1. /\ IsSeq(x) /\ DOMAIN x = DOMAIN s /\ DOMAIN x = 1..Len(s) /\ Len(s) \in Nat
      /\ \A i \in DOMAIN s : IsVariable(x[i]) /\ x[i].value = s[i]
  BY EnvDefines
<1>2. \A i \in DOMAIN s : s[i] \in ToSet(s) /\ s[i].name \in OwnNames(r)
  BY DEF ToSet, OwnNames
<1> HIDE DEF x
<1>3. ASSUME NEW i \in DOMAIN x, NEW name \in x[i].value.refs, ~IsTemplated(r)
      PROVE  \E j \in DOMAIN x : j < i /\ Defines(x, j, name)
  <2>1. PICK j \in 1..(i - 1) : s[j].name = name
    BY <1>1, <1>3 DEF IsClosed
  <2>2. j \in DOMAIN x /\ j < i
    BY <1>1, <2>1
  <2>3. Defines(x, j, name)
    BY <1>1, <2>1, <2>2 DEF Defines
  <2> QED BY <2>2, <2>3
<1> QED BY <1>1, <1>2, <1>3 DEF Speaks, Defines, x

(* The attributes of the pod. *)
AttrNames(r, name) == IF r.attrs THEN {"K8S_POD_IP", name} ELSE {}

LEMMA AttributesSpeak ==
  ASSUME NEW r, NEW name, name # "K8S_POD_IP"
  PROVE  Speaks(addK8SOtelResourceAttrs(r, name), AttrNames(r, name), {}, r)
<1> DEFINE v == Var("K8S_POD_IP")
           w == VarWith(name, {"K8S_POD_IP"})
<1>1. v.name = "K8S_POD_IP" /\ v.refs = {} /\ w.name = name /\ w.refs = {"K8S_POD_IP"}
  BY DEF Var, VarWith
<1>2. Speaks(Env(<<v, w>>), {"K8S_POD_IP", name}, {}, r)
  <2> HIDE DEF v, w
  <2> QED BY <1>1, TwoSpeak
<1>3. Speaks(<<>>, {}, {}, r)
  BY GivesNothing, SpeaksNothing DEF Gives
<1> QED BY <1>2, <1>3 DEF addK8SOtelResourceAttrs, AttrNames

LEMMA VariablesSpeak ==
  ASSUME NEW r
  PROVE  /\ Speaks(<<>>, {}, {}, r)
         /\ \A name : Speaks(Env(<<Var(name)>>), {name}, {}, r)
         /\ \A name, to : Speaks(Env(<<VarTo(name, to)>>), {name}, {}, r)
         /\ \A one, other : one # other => Speaks(Env(<<Var(one), Var(other)>>), {one, other}, {}, r)
<1>1. Speaks(<<>>, {}, {}, r)
  BY GivesNothing, SpeaksNothing DEF Gives
<1>2. /\ \A name : Var(name).name = name /\ Var(name).refs = {}
      /\ \A name, to : VarTo(name, to).name = name /\ VarTo(name, to).refs = {}
  BY DEF Var, VarTo
<1>3. ASSUME NEW name
      PROVE  Speaks(Env(<<Var(name)>>), {name}, {}, r)
  <2>1. Speaks(Env(<<Var(name)>>), {Var(name).name}, Var(name).refs, r)
    BY OneSpeaks
  <2> QED BY <1>2, <2>1
<1>4. ASSUME NEW name, NEW to
      PROVE  Speaks(Env(<<VarTo(name, to)>>), {name}, {}, r)
  <2>1. Speaks(Env(<<VarTo(name, to)>>), {VarTo(name, to).name}, VarTo(name, to).refs, r)
    BY OneSpeaks
  <2> QED BY <1>2, <2>1
<1>5. ASSUME NEW one, NEW other, one # other
      PROVE  Speaks(Env(<<Var(one), Var(other)>>), {one, other}, {}, r)
  <2>1. Speaks(Env(<<Var(one), Var(other)>>), {Var(one).name, Var(other).name}, {}, r)
    BY <1>2, <1>5, TwoSpeak
  <2> QED BY <1>2, <2>1
<1> QED BY <1>1, <1>3, <1>4, <1>5

(* Where the agents of OpenTelemetry send to, if they are told. *)
LEMMA ExportingSpeaks ==
  ASSUME NEW r, NEW look
  PROVE  \E N \in SUBSET {"OTEL_EXPORTER_OTLP_ENDPOINT"} : Speaks(Exporting(look), N, {}, r)
<1>1. \A first, second, third : Speaks(SidecarIf(first, second, third), {}, {}, r)
  BY SidecarAdds, SpeaksNothing DEF Gives
<1>2. Speaks(Env(<<VarTo("OTEL_EXPORTER_OTLP_ENDPOINT", Endpoint(look[1]))>>),
             {"OTEL_EXPORTER_OTLP_ENDPOINT"}, {}, r)
  BY VariablesSpeak
<1>3. CASE IsSidecar(look[1]) \/ IsService(look[1])
  <2>1. Speaks(Exporting(look), {"OTEL_EXPORTER_OTLP_ENDPOINT"} \cup {}, {}, r)
    BY <1>1, <1>2, <1>3, SpeaksBoth DEF Exporting
  <2> QED BY <2>1
<1>4. CASE ~(IsSidecar(look[1]) \/ IsService(look[1]))
  BY <1>4, VariablesSpeak DEF Exporting
<1> QED BY <1>3, <1>4

(* What comes behind the agent's variables has none, or only where the agent *)
(* sends to.                                                                 *)
LEMMA SpeaksAgent ==
  ASSUME NEW r, NEW x, NEW N, Speaks(x, N, {}, r), NEW repo, NEW look,
         "OTEL_EXPORTER_OTLP_ENDPOINT" \notin N
  PROVE  /\ \E M : Speaks(x \o Agent(repo), M, {}, r)
         /\ \E M : Speaks(x \o Agent(repo) \o Exporting(look), M, {}, r)
         /\ \E M : Speaks(x \o Agent(repo) \o SidecarIf(look[2], look[3], look[4]), M, {}, r)
<1>1. Speaks(Agent(repo), {}, {}, r)
  BY AgentGives, SpeaksNothing DEF Gives
<1>2. Speaks(x \o Agent(repo), N \cup {}, {}, r)
  BY <1>1, SpeaksBoth
<1>3. PICK E \in SUBSET {"OTEL_EXPORTER_OTLP_ENDPOINT"} : Speaks(Exporting(look), E, {}, r)
  BY ExportingSpeaks
<1>4. Speaks(x \o Agent(repo) \o Exporting(look), N \cup {} \cup E, {}, r)
  BY <1>2, <1>3, SpeaksBoth
<1>5. Speaks(SidecarIf(look[2], look[3], look[4]), {}, {}, r)
  BY SidecarAdds, SpeaksNothing DEF Gives
<1>6. Speaks(x \o Agent(repo) \o SidecarIf(look[2], look[3], look[4]), N \cup {} \cup {}, {}, r)
  BY <1>2, <1>5, SpeaksBoth
<1> QED BY <1>2, <1>4, <1>6

(* The variables of the java agent refer to those of the controller.         *)
LEMMA JavaSpeaks ==
  ASSUME NEW r, NEW c
  PROVE  LET A == AttrNames(r, Attributes)
         IN  Speaks(addJavaEnvVar(r, c), A \cup {"JAVA_TOOL_OPTIONS"}, {AccessKey}, r)
<1> DEFINE A == AttrNames(r, Attributes)
           o == JavaOptions(r, c)
<1>1. Speaks(addK8SOtelResourceAttrs(r, Attributes), A, {AccessKey}, r)
  BY AttributesSpeak, SpeaksMore DEF Attributes
<1>2. /\ o.name = "JAVA_TOOL_OPTIONS"
      /\ o.refs = {AccessKey} \cup (IF Found(c) /\ r.attrs THEN {Attributes} ELSE {})
  BY DEF JavaOptions
<1>3. o.refs \subseteq {AccessKey} \cup A
  BY <1>2 DEF AttrNames
<1>4. A \cap {"JAVA_TOOL_OPTIONS"} = {}
  BY DEF AttrNames, Attributes
<1>5. Speaks(Env(<<o>>), {"JAVA_TOOL_OPTIONS"}, o.refs, r)
  BY <1>2, OneSpeaks
<1> HIDE DEF A, o
<1>6. Speaks(addK8SOtelResourceAttrs(r, Attributes) \o Env(<<o>>),
             A \cup {"JAVA_TOOL_OPTIONS"}, {AccessKey}, r)
  BY <1>1, <1>3, <1>4, <1>5, SpeaksConcat
<1> QED BY <1>6 DEF addJavaEnvVar, A, o

LEMMA DotnetSpeaks ==
  ASSUME NEW r
  PROVE  \E N \in SUBSET {"K8S_POD_IP", "OTEL_RESOURCE_ATTRIBUTES_K8S", Attributes} :
           Speaks(dotnetOtelEnv(r), N, {}, r)
<1> DEFINE K == "OTEL_RESOURCE_ATTRIBUTES_K8S"
           A == AttrNames(r, K)
           v == VarWith(Attributes, IF r.attrs THEN {K} ELSE {})
<1>1. Speaks(addK8SOtelResourceAttrs(r, K), A, {}, r)
  BY AttributesSpeak
<1>2. v.name = Attributes /\ v.refs \subseteq A
  BY DEF VarWith, AttrNames
<1>3. Speaks(Env(<<v>>), {Attributes}, v.refs, r)
  BY <1>2, OneSpeaks
<1>4. A \cap {Attributes} = {} /\ A \cup {Attributes} \in SUBSET {"K8S_POD_IP", K, Attributes}
  BY DEF AttrNames, Attributes
<1>5. dotnetOtelEnv(r) = addK8SOtelResourceAttrs(r, K) \o Env(<<v>>)
  BY DEF dotnetOtelEnv
<1> HIDE DEF A, v
<1>6. Speaks(addK8SOtelResourceAttrs(r, K) \o Env(<<v>>), A \cup {Attributes}, {}, r)
  BY <1>1, <1>2, <1>3, <1>4, SpeaksConcat
<1> QED BY <1>4, <1>5, <1>6

(* What the patch of any technology but the web servers' defines. *)
LEMMA TechnologySpeaks ==
  ASSUME NEW p, NEW r, IsSeq(r.env), IsClosed(r.env) \/ IsTemplated(r), NEW look,
         r.technology \notin {"apache/otel", "nginx/otel"}
  PROVE  \E N : Speaks(applyInjectionRule(p, r, look), N, {}, r)
<1> DEFINE u == applyInjectionRule(p, r, look)
           mine == Env(r.env)
           Host == "APPDYNAMICS_CONTROLLER_HOST_NAME"
           App  == "APPDYNAMICS_AGENT_APPLICATION_NAME"
           Viz  == "APPDYNAMICS_NETVIZ_AGENT_HOST"
           Own  == "OTEL_SERVICE_NAME"
           To   == "OTEL_EXPORTER_OTLP_ENDPOINT"
<1>1. /\ Speaks(<<>>, {}, {}, r) /\ Speaks(mine, {}, {}, r)
      /\ Speaks(addControllerEnvVars, {AccessKey, Host}, {}, r)
      /\ Speaks(Naming, {App}, {}, r) /\ Speaks(Netviz, {Viz}, {}, r) /\ Speaks(Service, {Own}, {}, r)
      /\ \A name : Speaks(Env(<<Var(name)>>), {name}, {}, r)
  BY OwnSpeak, VariablesSpeak DEF addControllerEnvVars, Naming, Netviz, Service, AccessKey
<1>2. PICK E \in SUBSET {To} : Speaks(Exporting(look), E, {}, r)
  BY ExportingSpeaks
<1> HIDE DEF mine
<1>3. CASE r.technology = "java/appd"
  <2> DEFINE A == AttrNames(r, Attributes)
             a == addControllerEnvVars \o addJavaEnvVar(r, look[1])
             N == {AccessKey, Host} \cup (A \cup {"JAVA_TOOL_OPTIONS"})
             x == a \o Naming \o mine \o Netviz
  <2>1. u = x \o Agent("appd-agent-repo-java") \o SidecarIf(look[2], look[3], look[4])
    BY <1>3 DEF applyInjectionRule, javaAppd, mine
  <2>2. A \subseteq {"K8S_POD_IP", Attributes}
    BY DEF AttrNames
  <2> HIDE DEF A
  <2>3. Speaks(a, N, {}, r)
    <3>1. Speaks(addJavaEnvVar(r, look[1]), A \cup {"JAVA_TOOL_OPTIONS"}, {AccessKey}, r)
      BY JavaSpeaks DEF A
    <3>2. {AccessKey, Host} \cap (A \cup {"JAVA_TOOL_OPTIONS"}) = {}
      BY <2>2 DEF AccessKey, Attributes
    <3> QED BY <1>1, <3>1, <3>2, SpeaksConcat
  <2>4. App \notin N /\ Viz \notin N /\ To \notin N
    BY <2>2 DEF AccessKey, Attributes
  <2> HIDE DEF a, N
  <2>5. Speaks(a \o Naming, N \cup {App}, {}, r)
    BY <1>1, <2>3, <2>4, SpeaksBoth
  <2>6. Speaks(a \o Naming \o mine, N \cup {App} \cup {}, {}, r)
    BY <1>1, <2>5, SpeaksBoth
  <2>7. Speaks(x, N \cup {App} \cup {} \cup {Viz}, {}, r)
    BY <1>1, <2>4, <2>6, SpeaksBoth
  <2>8. To \notin N \cup {App} \cup {} \cup {Viz}
    BY <2>4
  <2> HIDE DEF x
  <2>9. \E M : Speaks(x \o Agent("appd-agent-repo-java")
                        \o SidecarIf(look[2], look[3], look[4]), M, {}, r)
    BY <2>7, <2>8, SpeaksAgent
  <2> QED BY <2>1, <2>9
<1>4. CASE r.technology = "dotnetcore/appd"
  <2> DEFINE a == Env(<<Var("CORECLR_PROFILER")>>)
             b == IF Found(look[1]) THEN dotnetOtelEnv(r) ELSE <<>>
             c == addControllerEnvVars \o a \o b
             x == c \o Exporting(look) \o Naming \o mine \o Netviz
             Dotnet == {"K8S_POD_IP", "OTEL_RESOURCE_ATTRIBUTES_K8S", Attributes}
  <2>1. u = x \o Agent("appd-agent-repo-dotnetcore")
    BY <1>4 DEF applyInjectionRule, dotnetAppd, mine
  <2>2. Speaks(a, {"CORECLR_PROFILER"}, {}, r)
    BY <1>1
  <2>3. PICK D \in SUBSET Dotnet : Speaks(b, D, {}, r)
    BY <1>1, DotnetSpeaks
  <2> DEFINE C == {AccessKey, Host} \cup {"CORECLR_PROFILER"} \cup D
  <2> HIDE DEF a, b
  <2>4. Speaks(c, C, {}, r)
    <3>1. {AccessKey, Host} \cap {"CORECLR_PROFILER"} = {}
      BY DEF AccessKey
    <3>2. ({AccessKey, Host} \cup {"CORECLR_PROFILER"}) \cap D = {}
      BY DEF AccessKey, Attributes
    <3>3. Speaks(addControllerEnvVars \o a, {AccessKey, Host} \cup {"CORECLR_PROFILER"}, {}, r)
      BY <1>1, <2>2, <3>1, SpeaksBoth
    <3> QED BY <2>3, <3>2, <3>3, SpeaksBoth
  <2>5. App \notin C /\ Viz \notin C /\ To \notin C
    BY DEF AccessKey, Attributes
  <2> HIDE DEF c, C
  <2>6. Speaks(c \o Exporting(look), C \cup E, {}, r)
    BY <1>2, <2>4, <2>5, SpeaksBoth
  <2>7. Speaks(c \o Exporting(look) \o Naming, C \cup E \cup {App}, {}, r)
    BY <1>1, <2>5, <2>6, SpeaksBoth
  <2>8. Speaks(c \o Exporting(look) \o Naming \o mine, C \cup E \cup {App} \cup {}, {}, r)
    BY <1>1, <2>7, SpeaksBoth
  <2>9. Speaks(x, C \cup E \cup {App} \cup {} \cup {Viz}, {}, r)
    BY <1>1, <2>5, <2>8, SpeaksBoth
  <2> HIDE DEF x
  <2>10. Speaks(Agent("appd-agent-repo-dotnetcore"), {}, {}, r)
    BY AgentGives, SpeaksNothing DEF Gives
  <2>11. Speaks(x \o Agent("appd-agent-repo-dotnetcore"),
                C \cup E \cup {App} \cup {} \cup {Viz} \cup {}, {}, r)
    BY <2>9, <2>10, SpeaksBoth
  <2> QED BY <2>1, <2>11
<1>5. CASE r.technology = "nodejs/appd"
  <2> DEFINE a == addControllerEnvVars \o Env(<<Var("NODE_OPTIONS")>>) \o Naming
             N == {AccessKey, Host} \cup {"NODE_OPTIONS"} \cup {App}
             x == a \o mine \o Netviz
  <2>1. u = x \o Agent("appd-agent-repo-nodejs")
    BY <1>5 DEF applyInjectionRule, nodejsAppd, mine
  <2>2. Speaks(a, N, {}, r)
    <3>1. Speaks(addControllerEnvVars \o Env(<<Var("NODE_OPTIONS")>>),
                 {AccessKey, Host} \cup {"NODE_OPTIONS"}, {}, r)
      BY <1>1, SpeaksBoth DEF AccessKey
    <3>2. ({AccessKey, Host} \cup {"NODE_OPTIONS"}) \cap {App} = {}
      BY DEF AccessKey
    <3> QED BY <1>1, <3>1, <3>2, SpeaksBoth
  <2>3. Viz \notin N /\ To \notin N
    BY DEF AccessKey
  <2> HIDE DEF a, N
  <2>4. Speaks(a \o mine, N \cup {}, {}, r)
    BY <1>1, <2>2, SpeaksBoth
  <2>5. Speaks(x, N \cup {} \cup {Viz}, {}, r)
    BY <1>1, <2>3, <2>4, SpeaksBoth
  <2>6. To \notin N \cup {} \cup {Viz}
    BY <2>3
  <2> HIDE DEF x
  <2> QED BY <2>1, <2>5, <2>6, SpeaksAgent
<1>6. CASE r.technology \in {"java/otel", "java/splunk"}
  <2> DEFINE a == Env(<<Var("JAVA_TOOL_OPTIONS"), Var(Attributes)>>)
             N == {"JAVA_TOOL_OPTIONS", Attributes}
             x == a \o Service \o mine
  <2>1. u = x \o Agent("otel-agent-repo-java") \o Exporting(look)
    BY <1>6 DEF applyInjectionRule, javaOtel, mine
  <2>2. Speaks(a, N, {}, r)
    BY VariablesSpeak DEF Attributes
  <2>3. Own \notin N /\ To \notin N
    BY DEF Attributes
  <2> HIDE DEF a, N
  <2>4. Speaks(a \o Service, N \cup {Own}, {}, r)
    BY <1>1, <2>2, <2>3, SpeaksBoth
  <2>5. Speaks(x, N \cup {Own} \cup {}, {}, r)
    BY <1>1, <2>4, SpeaksBoth
  <2> HIDE DEF x
  <2> QED BY <2>1, <2>3, <2>5, SpeaksAgent
<1>7. CASE r.technology = "dotnetcore/otel"
  <2> DEFINE a == Env(<<Var("CORECLR_PROFILER")>>)
             b == Env(<<Var(Attributes)>>)
             c == a \o Service \o b
             C == {"CORECLR_PROFILER"} \cup {Own} \cup {Attributes}
             x == c \o Exporting(look) \o mine
  <2>1. u = x \o Agent("otel-agent-repo-dotnetcore")
    BY <1>7 DEF applyInjectionRule, dotnetOtel, mine
  <2>2. Speaks(a, {"CORECLR_PROFILER"}, {}, r) /\ Speaks(b, {Attributes}, {}, r)
    BY <1>1
  <2> HIDE DEF a, b
  <2>3. Speaks(c, C, {}, r)
    <3>1. ({"CORECLR_PROFILER"} \cup {Own}) \cap {Attributes} = {}
      BY DEF Attributes
    <3>2. Speaks(a \o Service, {"CORECLR_PROFILER"} \cup {Own}, {}, r)
      BY <1>1, <2>2, SpeaksBoth
    <3> QED BY <2>2, <3>1, <3>2, SpeaksBoth
  <2>4. To \notin C
    BY DEF Attributes
  <2> HIDE DEF c, C
  <2>5. Speaks(c \o Exporting(look), C \cup E, {}, r)
    BY <1>2, <2>3, <2>4, SpeaksBoth
  <2>6. Speaks(x, C \cup E \cup {}, {}, r)
    BY <1>1, <2>5, SpeaksBoth
  <2> HIDE DEF x
  <2>7. Speaks(Agent("otel-agent-repo-dotnetcore"), {}, {}, r)
    BY AgentGives, SpeaksNothing DEF Gives
  <2>8. Speaks(x \o Agent("otel-agent-repo-dotnetcore"), C \cup E \cup {} \cup {}, {}, r)
    BY <2>6, <2>7, SpeaksBoth
  <2> QED BY <2>1, <2>8
<1>8. CASE r.technology = "nodejs/otel"
  <2> DEFINE a == Env(<<Var("NODE_OPTIONS")>>)
             x == a \o Service \o mine
  <2>1. u = x \o Agent("otel-agent-repo-nodejs") \o Exporting(look)
    BY <1>8 DEF applyInjectionRule, nodejsOtel, mine
  <2>2. Speaks(a \o Service, {"NODE_OPTIONS"} \cup {Own}, {}, r)
    BY <1>1, SpeaksBoth
  <2> HIDE DEF a
  <2>3. Speaks(x, {"NODE_OPTIONS"} \cup {Own} \cup {}, {}, r)
    BY <1>1, <2>2, SpeaksBoth
  <2>4. To \notin {"NODE_OPTIONS"} \cup {Own} \cup {}
    OBVIOUS
  <2> HIDE DEF x
  <2>5. \E M : Speaks(x \o Agent("otel-agent-repo-nodejs") \o Exporting(look), M, {}, r)
    BY <2>3, <2>4, SpeaksAgent
  <2> QED BY <2>1, <2>5
<1>9. CASE r.technology \notin Instrumented
  <2>1. u = <<>>
    BY <1>9 DEF applyInjectionRule, Instrumented
  <2> QED BY <1>1, <2>1
<1> QED BY <1>3, <1>4, <1>5, <1>6, <1>7, <1>8, <1>9 DEF Instrumented

LEMMA WebserverSpeaks ==
  ASSUME NEW p, IsSeq(p.mounts), NEW r, IsSeq(r.env), IsClosed(r.env) \/ IsTemplated(r),
         NEW look, NEW server \in {Apache, Nginx}
  PROVE  \E N : Speaks(webserverOtel(p, r, look, server), N, {}, r)
<1> DEFINE attrs == addK8SOtelResourceAttrs(r, Attributes)
           A == AttrNames(r, Attributes)
           a == AddItem("mounts", Mount(server.conf, server.dir))
           b == AddItem("mounts", Mount(server.repo, "agent"))
           c == AddItem("inits", CloneAsInit(p, server))
           first == <<a, b, c>>
           drops == dropPassedConfig(p, server)
           i == AddItem("inits", Container(server.repo, <<server.conf, server.repo>>,
                                           Endpoint(look[1])))
           volumes == <<AddItem("volumes", server.repo), AddItem("volumes", server.conf)>>
           sidecar == SidecarIf(look[2], look[3], look[4])
           x == Env(server.env) \o attrs \o Env(r.env)
<1>1. webserverOtel(p, r, look, server) = x \o first \o drops \o <<i>> \o volumes \o sidecar
  BY DEF webserverOtel, WebserverVolumes
<1>2. PICK L \in SUBSET {"LD_LIBRARY_PATH"} : Speaks(Env(server.env), L, {}, r)
  <2>1. CASE server = Apache
    <3>1. server.env = <<>> /\ IsSeq(server.env)
      BY <2>1, Tuples DEF Apache
    <3>2. Added(Env(server.env), "env") = {} /\ IsSeq(Env(server.env))
      BY <3>1, AddedEnv, Tuples DEF Gives
    <3> QED BY <3>2, SpeaksNothing
  <2>2. CASE server = Nginx
    <3>1. server.env = <<Var("LD_LIBRARY_PATH")>>
      BY <2>2 DEF Nginx
    <3> QED BY <3>1, VariablesSpeak
  <2> QED BY <2>1, <2>2
<1>3. Speaks(attrs, A, {}, r) /\ A \subseteq {"K8S_POD_IP", Attributes}
  BY AttributesSpeak DEF AttrNames, Attributes
<1>4. Speaks(Env(r.env), {}, {}, r)
  BY OwnSpeak
<1>5. \E N : Speaks(x, N, {}, r)
  <2> HIDE DEF attrs, A
  <2>1. L \cap A = {}
    BY <1>3 DEF Attributes
  <2>2. Speaks(Env(server.env) \o attrs, L \cup A, {}, r)
    BY <1>2, <1>3, <2>1, SpeaksBoth
  <2>3. Speaks(x, L \cup A \cup {}, {}, r)
    BY <1>4, <2>2, SpeaksBoth
  <2> QED BY <2>3
<1>6. Speaks(first, {}, {}, r)
  <2>1. a.list # "env" /\ b.list # "env" /\ c.list # "env"
    BY DEF AddItem
  <2> HIDE DEF a, b, c
  <2>2. IsSeq(first) /\ ToSet(first) = {a, b, c}
    BY Tuples
  <2> HIDE DEF first
  <2> QED BY <2>1, <2>2, SpeaksNothing DEF Added, AddedBy
<1>7. Speaks(drops, {}, {}, r)
  <2>1. IsSeq(drops) /\ \A o \in ToSet(drops) : IsRemoval(o)
    BY DropsAre
  <2> HIDE DEF drops
  <2> QED BY <2>1, SpeaksNothing DEF IsRemoval, Added, AddedBy
<1>8. Speaks(<<i>>, {}, {}, r)
  <2>1. i.list # "env"
    BY DEF AddItem
  <2> HIDE DEF i
  <2>2. IsSeq(<<i>>) /\ ToSet(<<i>>) = {i}
    BY Tuples
  <2> QED BY <2>1, <2>2, SpeaksNothing DEF Added, AddedBy
<1>9. Speaks(volumes, {}, {}, r)
  <2> DEFINE v == AddItem("volumes", server.repo)
             w == AddItem("volumes", server.conf)
  <2>1. v.list # "env" /\ w.list # "env"
    BY DEF AddItem
  <2>2. IsSeq(volumes) /\ ToSet(volumes) = {v, w}
    BY Tuples
  <2> HIDE DEF v, w, volumes
  <2> QED BY <2>1, <2>2, SpeaksNothing DEF Added, AddedBy
<1>10. Speaks(sidecar, {}, {}, r)
  BY SidecarAdds, SpeaksNothing DEF Gives
<1> HIDE DEF x, first, drops, i, volumes, sidecar
<1>11. PICK N : Speaks(x, N, {}, r)
  BY <1>5
<1>12. \A y : Speaks(y, {}, {}, r) => \A z, M : Speaks(z, M, {}, r) => Speaks(z \o y, M, {}, r)
  <2> SUFFICES ASSUME NEW y, Speaks(y, {}, {}, r), NEW z, NEW M, Speaks(z, M, {}, r)
               PROVE  Speaks(z \o y, M, {}, r)
    OBVIOUS
  <2>1. Speaks(z \o y, M \cup {}, {}, r)
    BY SpeaksBoth
  <2> QED BY <2>1
<1>13. Speaks(x \o first, N, {}, r)
  BY <1>6, <1>11, <1>12
<1>14. Speaks(x \o first \o drops, N, {}, r)
  BY <1>7, <1>12, <1>13
<1>15. Speaks(x \o first \o drops \o <<i>>, N, {}, r)
  BY <1>8, <1>12, <1>14
<1>16. Speaks(x \o first \o drops \o <<i>> \o volumes, N, {}, r)
  BY <1>9, <1>12, <1>15
<1>17. Speaks(x \o first \o drops \o <<i>> \o volumes \o sidecar, N, {}, r)
  BY <1>10, <1>12, <1>16
<1> QED BY <1>1, <1>17

(* What the variables of a patch refer to is defined by it, further up.      *)
LEMMA RuleSpeaks ==
  ASSUME NEW p, IsSeq(p.mounts), NEW r, IsSeq(r.env), IsClosed(r.env) \/ IsTemplated(r), NEW look
  PROVE  \E N : Speaks(applyInjectionRule(p, r, look), N, {}, r)
<1>1. CASE r.technology = "apache/otel"
  <2>1. applyInjectionRule(p, r, look) = webserverOtel(p, r, look, Apache)
    BY <1>1 DEF applyInjectionRule
  <2> QED BY <2>1, WebserverSpeaks
<1>2. CASE r.technology = "nginx/otel"
  <2>1. applyInjectionRule(p, r, look) = webserverOtel(p, r, look, Nginx)
    BY <1>2 DEF applyInjectionRule
  <2> QED BY <2>1, WebserverSpeaks
<1>3. CASE r.technology \notin {"apache/otel", "nginx/otel"}
  BY <1>3, TechnologySpeaks
<1> QED BY <1>1, <1>2, <1>3

(* The last variable of a name is kept. *)
LEMMA LastIsKept ==
  ASSUME NEW y, IsSeq(y), NEW z, IsSeq(z), NEW g, IsSelection(g, z, y, Len(y)),
         NEW name, NEW k \in DOMAIN y, Defines(y, k, name)
  PROVE  \E i \in DOMAIN z : Defines(z, i, name) /\ k <= g[i]
<1> DEFINE n == Len(y)
           Same == {i \in 1..n : Defines(y, i, name)}
           m == Max(Same)
<1>1. n \in Nat /\ k \in 1..n /\ DOMAIN z = 1..Len(z)
  BY IsSeqFacts
<1>2. m \in Same /\ \A i \in Same : i <= m
  <2>1. Same \in SUBSET (1..n) /\ Same # {}
    BY <1>1
  <2> HIDE DEF Same
  <2> QED BY <1>1, <2>1, MaxFacts
<1> HIDE DEF m
<1>3. m \in 1..n /\ Defines(y, m, name) /\ k <= m
  BY <1>1, <1>2
<1>4. ~IsSuperseded(y, m)
  <2> SUFFICES ASSUME NEW j \in (m + 1)..n, IsVariable(y[j]), y[j].value.name = y[m].value.name
               PROVE  FALSE
    BY DEF IsSuperseded
  <2>1. j \in 1..n /\ ~(j <= m)
    BY <1>1, <1>3
  <2>2. j \in Same
    BY <1>3, <2>1 DEF Defines
  <2> HIDE DEF Same
  <2> QED BY <1>2, <2>1, <2>2
<1>5. PICK i \in 1..Len(z) : g[i] = m
  BY <1>3, <1>4 DEF IsSelection
<1>6. z[i] = y[m]
  BY <1>5 DEF IsSelection
<1> QED BY <1>1, <1>3, <1>5, <1>6 DEF Defines

(* The variables s come from base and from the first n operations of x, in   *)
(* their order.                                                              *)
Follows(base, s, x, n) ==
  /\ Keeps(base, s)
  /\ \A i \in 1..n : IsVariable(x[i]) => \E k \in DOMAIN s : s[k] = x[i].value
  /\ \A k \in DOMAIN s : k > Len(base) => \E i \in 1..n :
       /\ IsVariable(x[i]) /\ s[k] = x[i].value
       /\ \A j \in 1..n : IsVariable(x[j]) =>
            /\ j < i => \E l \in DOMAIN s : l < k /\ s[l] = x[j].value
            /\ i <= j => \E l \in DOMAIN s : k <= l /\ s[l] = x[j].value

LEMMA FollowsNext ==
  ASSUME NEW base, IsSeq(base), NEW s, IsSeq(s), NEW x, NEW n \in Nat, Follows(base, s, x, n)
  PROVE  /\ IsVariable(x[n + 1]) => Follows(base, Append(s, x[n + 1].value), x, n + 1)
         /\ ~IsVariable(x[n + 1]) => Follows(base, s, x, n + 1)
<1> DEFINE o == x[n + 1]
           v == o.value
           t == Append(s, v)
           m == Len(s)
<1>1. /\ m \in Nat /\ DOMAIN s = 1..m /\ Len(base) \in Nat
      /\ \A i : i \in 1..(n + 1) <=> i \in 1..n \/ i = n + 1
      /\ \A i : i \in 1..(m + 1) <=> i \in 1..m \/ i = m + 1
  BY IsSeqFacts
<1>2. IsVariable(o) => Follows(base, t, x, n + 1)
  <2> SUFFICES ASSUME IsVariable(o) PROVE Follows(base, t, x, n + 1)
    OBVIOUS
  <2>1. DOMAIN t = 1..(m + 1) /\ Len(t) = m + 1 /\ t[m + 1] = v /\ \A k \in 1..m : t[k] = s[k]
    <3> DEFINE S == ToSet(s) \cup {v}
    <3>1. s \in Seq(S) /\ v \in S
      BY IsSeqIn
    <3> HIDE DEF S, v
    <3>2. t \in Seq(S) /\ Len(t) = m + 1 /\ t[m + 1] = v /\ \A k \in 1..m : t[k] = s[k]
      BY <3>1, AppendProperties
    <3> QED BY <3>2
  <2> HIDE DEF t, m, v, o
  <2>2. Keeps(base, t)
    BY <1>1, <2>1 DEF Follows, Keeps, m
  <2>3. ASSUME NEW i \in 1..(n + 1), IsVariable(x[i])
        PROVE  \E k \in DOMAIN t : t[k] = x[i].value
    <3>1. CASE i \in 1..n
      <4>1. PICK k \in DOMAIN s : s[k] = x[i].value
        BY <2>3, <3>1 DEF Follows
      <4> QED BY <1>1, <2>1, <4>1
    <3>2. CASE i = n + 1
      BY <1>1, <2>1, <3>2 DEF o, v
    <3> QED BY <1>1, <3>1, <3>2
  <2>4. ASSUME NEW k \in DOMAIN t, k > Len(base)
        PROVE  \E i \in 1..(n + 1) :
                 /\ IsVariable(x[i]) /\ t[k] = x[i].value
                 /\ \A j \in 1..(n + 1) : IsVariable(x[j]) =>
                      /\ j < i => \E l \in DOMAIN t : l < k /\ t[l] = x[j].value
                      /\ i <= j => \E l \in DOMAIN t : k <= l /\ t[l] = x[j].value
    <3>1. CASE k \in 1..m
      <4>1. PICK i \in 1..n :
              /\ IsVariable(x[i]) /\ s[k] = x[i].value
              /\ \A j \in 1..n : IsVariable(x[j]) =>
                   /\ j < i => \E l \in DOMAIN s : l < k /\ s[l] = x[j].value
                   /\ i <= j => \E l \in DOMAIN s : k <= l /\ s[l] = x[j].value
        BY <1>1, <2>4, <3>1 DEF Follows
      <4>2. ASSUME NEW j \in 1..(n + 1), IsVariable(x[j])
            PROVE  /\ j < i => \E l \in DOMAIN t : l < k /\ t[l] = x[j].value
                   /\ i <= j => \E l \in DOMAIN t : k <= l /\ t[l] = x[j].value
        <5>1. CASE j \in 1..n
          <6>1. /\ j < i => \E l \in DOMAIN s : l < k /\ s[l] = x[j].value
                /\ i <= j => \E l \in DOMAIN s : k <= l /\ s[l] = x[j].value
            BY <4>1, <4>2, <5>1
          <6>2. \A l \in DOMAIN s : l \in DOMAIN t /\ t[l] = s[l]
            BY <1>1, <2>1
          <6> QED BY <6>1, <6>2
        <5>2. CASE j = n + 1
          <6>1. ~(j < i)
            BY <5>2
          <6>2. m + 1 \in DOMAIN t /\ k <= m + 1 /\ t[m + 1] = x[j].value
            BY <1>1, <2>1, <3>1, <5>2 DEF o, v
          <6> QED BY <6>1, <6>2
        <5> QED BY <1>1, <5>1, <5>2
      <4>3. i \in 1..(n + 1) /\ t[k] = x[i].value
        BY <1>1, <2>1, <3>1, <4>1
      <4> QED BY <4>1, <4>2, <4>3
    <3>2. CASE k = m + 1
      <4>1. n + 1 \in 1..(n + 1) /\ IsVariable(x[n + 1]) /\ t[k] = x[n + 1].value
        BY <1>1, <2>1, <3>2 DEF o, v
      <4>2. ASSUME NEW j \in 1..(n + 1), IsVariable(x[j])
            PROVE  /\ j < n + 1 => \E l \in DOMAIN t : l < k /\ t[l] = x[j].value
                   /\ n + 1 <= j => \E l \in DOMAIN t : k <= l /\ t[l] = x[j].value
        <5>1. CASE j \in 1..n
          <6>1. PICK l \in DOMAIN s : s[l] = x[j].value
            BY <4>2, <5>1 DEF Follows
          <6>2. l \in DOMAIN t /\ l < k /\ t[l] = x[j].value
            BY <1>1, <2>1, <3>2, <6>1
          <6>3. ~(n + 1 <= j)
            BY <5>1
          <6> QED BY <6>2, <6>3
        <5>2. CASE j = n + 1
          <6>1. k \in DOMAIN t /\ k <= k /\ t[k] = x[j].value /\ ~(j < n + 1)
            BY <1>1, <2>1, <3>2, <4>1, <5>2
          <6> QED BY <6>1
        <5> QED BY <1>1, <5>1, <5>2
      <4> QED BY <4>1, <4>2
    <3> QED BY <1>1, <2>1, <3>1, <3>2
  <2> QED BY <2>2, <2>3, <2>4 DEF Follows
<1>3. ~IsVariable(o) => Follows(base, s, x, n + 1)
  <2> HIDE DEF m
  <2> QED BY <1>1 DEF Follows
<1> QED BY <1>2, <1>3 DEF o, v, t

LEMMA VariableStep ==
  ASSUME NEW d, IsDoc(d), NEW o, IsAddition(o) \/ IsRemoval(o), Step(d, o).ok
  PROVE  LET s == d.lists["env"]
             t == Step(d, o).lists["env"]
         IN  d.ok /\ (IF IsVariable(o) THEN t = Append(s, o.value) ELSE t = s)
<1> DEFINE list == "env"
           s == d.lists[list]
           t == Step(d, o).lists[list]
<1>1. list \in Lists /\ list # "mounts" /\ list = "env"
  BY DEF Lists
<1> HIDE DEF list
<1>2. /\ d.ok
      /\ list # o.list => t = s
      /\ list = o.list => o.op = "append" /\ t = Append(s, o.value)
  BY <1>1, ChangeStep
<1> HIDE DEF s, t
<1>3. IF IsVariable(o) THEN t = Append(s, o.value) ELSE t = s
  BY <1>1, <1>2 DEF IsVariable
<1> QED BY <1>2, <1>3 DEF s, t, list

LEMMA ChangesFollow ==
  ASSUME NEW d, IsDoc(d), NEW x, IsChanges(x), applyPatch(d, x).ok
  PROVE  Follows(d.lists["env"], applyPatch(d, x).lists["env"], x, Len(x))
<1>1. IsPatch(x) /\ Len(x) \in Nat /\ DOMAIN x = 1..Len(x)
  BY IsSeqFacts DEF IsPatch, IsChanges, IsOperation
<1>2. PICK f : /\ Runs(f, d, x) /\ applyPatch(d, x) = f[Len(x)]
                /\ \A n \in 0..Len(x) : IsDoc(f[n])
  BY <1>1, PatchRuns
<1> DEFINE base == d.lists["env"]
           Good == {n \in Nat : n <= Len(x) /\ f[n].ok => Follows(base, f[n].lists["env"], x, n)}
<1>0. "env" \in Lists /\ IsSeq(base)
  BY DocFacts DEF Lists
<1>3. 0 \in Good
  <2>1. f[0] = d
    BY <1>2 DEF Runs
  <2>2. Follows(base, base, x, 0)
    <3>1. Keeps(base, base) /\ Len(base) \in Nat /\ DOMAIN base = 1..Len(base)
      BY <1>0, KeepsItself, IsSeqFacts
    <3> HIDE DEF base
    <3> QED BY <3>1 DEF Follows
  <2> QED BY <2>1, <2>2
<1>4. ASSUME NEW n \in Nat, n \in Good
      PROVE  n + 1 \in Good
  <2> DEFINE o == x[n + 1]
             s == f[n].lists["env"]
             t == f[n + 1].lists["env"]
  <2> SUFFICES ASSUME n + 1 <= Len(x), f[n + 1].ok
               PROVE  Follows(base, t, x, n + 1)
    OBVIOUS
  <2>1. n + 1 \in 1..Len(x) /\ (n + 1) - 1 = n /\ n <= Len(x) /\ n \in 0..Len(x)
    BY <1>1
  <2>2. f[n + 1] = Step(f[n], o)
    BY <1>2, <2>1 DEF Runs
  <2>3. IsAddition(o) \/ IsRemoval(o)
    BY <1>1, <2>1 DEF IsChanges, ToSet
  <2>4. IsDoc(f[n]) /\ IsSeq(s)
    BY <1>0, <1>2, <2>1, DocFacts
  <2>5. f[n].ok /\ (IF IsVariable(o) THEN t = Append(s, o.value) ELSE t = s)
    <3> HIDE DEF o
    <3>1. Step(f[n], o).ok
      BY <2>2
    <3>2. LET a == f[n].lists["env"]
              b == Step(f[n], o).lists["env"]
          IN  f[n].ok /\ (IF IsVariable(o) THEN b = Append(a, o.value) ELSE b = a)
      BY <2>3, <2>4, <3>1, VariableStep
    <3> QED BY <2>2, <3>2
  <2>6. Follows(base, s, x, n)
    BY <1>4, <2>1, <2>5
  <2> HIDE DEF base, s, t, Good
  <2> QED BY <1>0, <2>4, <2>5, <2>6, FollowsNext
<1>5. Len(x) \in Good
  <2> HIDE DEF Good
  <2> QED BY <1>1, <1>3, <1>4, SetInduction
<1> QED BY <1>1, <1>2, <1>5

-----------------------------------------------------------------------------
(* The invariant.                                                            *)

(* An agent of the patch sends to a collector beside it only if there is     *)
(* one, if l is what the lookups have found.                                 *)
Sided(x, l) ==
  l # "changed" /\ (\E v \in Added(x, "env") \cup Added(x, "inits") : v.to = "sidecar") =>
    \E c \in Added(x, "containers") : c.name = SidecarName

(* What the lookups of an injection rule have found. *)
FoundBy(r, look) ==
  IF r.collector = Unset THEN Unset
  ELSE IF \A i \in 1..4 : look[i] = look[1] THEN look[1] ELSE "changed"

(* The patch of the one injection rule, with such lookups. *)
IsSolePatch(x, look) ==
  /\ looked = FoundBy(members[1], look)
  /\ LET u == applyInjectionRule(app, members[1], look)
     IN  x = u \/ (rule.set /\ IsReduced(x, u))

Sole(x) ==
  Len(members) = 1 /\ next = 2 => \E look \in LookupsOf(members[1]) : IsSolePatch(x, look)

(* The mounts of the application, of which the one with configuration may be *)
(* passed on and dropped.                                                    *)
AreKept(mounts) ==
  /\ PassedMounts = {} => Keeps(app.mounts, mounts)
  /\ \A i \in PassedMounts : Keeps(RemoveAt(app.mounts, i), mounts)

(* What the patches of the members before the kth make of the mounts.        *)
Mounting(x, k) ==
  app.volumes # <<>> /\ Cardinality(PassedMounts) <= 1 /\ Cardinality(Webservers) <= 1 =>
    LET e == applyPatch(Prepared(app), x)
    IN  /\ Whole(e, Len(app.mounts))
        /\ IF \E i \in Webservers : i < k THEN AreKept(e.lists["mounts"])
                                         ELSE Keeps(app.mounts, e.lists["mounts"])

(* No two members are for the same agent, or name a collector each. *)
AgentsDiffer ==
  \A i, j \in DOMAIN members : i # j =>
    /\ members[i].technology # members[j].technology
    /\ {members[i].technology, members[j].technology} # {"java/otel", "java/splunk"}
    /\ Unset \in {members[i].collector, members[j].collector}

(* The labels of the pod as it is posted, and of what the members before the *)
(* kth bring.                                                                *)
Posted   == UNION {{<<list, NameIn(list, app[list][i])>> : i \in DOMAIN app[list]} : list \in NamedLists}
Taken(k) == Posted \cup UNION {Owned(members[j]) : j \in 1..(k - 1)}

(* What they make of the lists with names.                                   *)
Named(x, k) ==
  LET e == applyPatch(Prepared(app), x)
  IN  e.ok /\ IsUnclaimed(app) /\ Fits(x) /\ AgentsDiffer => Distinct(e.lists, Taken(k))

(* What the rules refer to is what they define, in their order. *)
Closed == \A r \in ToSet(rule.members) : IsClosed(r.env)

(* A name that several members may define, or the user besides the agent. *)
MayRecur(name) == Len(members) > 1 \/ \E v \in UserVars : v.name = name

(* What the variables of a patch refer to is defined by it further up, but   *)
(* for the two exceptions; no others are defined twice.                      *)
Referring(x) ==
  Closed =>
    /\ \A i \in DOMAIN x : IsVariable(x[i]) => \A name \in x[i].value.refs :
         \/ \E j \in DOMAIN x : j < i /\ Defines(x, j, name)
         \/ rule.set /\ MayRecur(name) /\ \E j \in DOMAIN x : i <= j /\ Defines(x, j, name)
         \/ Templated /\ x[i].value \in UserVars
    /\ \A i, j \in DOMAIN x : \A name :
         Defines(x, i, name) /\ Defines(x, j, name) => i = j \/ MayRecur(name)

Content(x) ==
  /\ Patches(x)
  /\ next = 1 => x = <<>> /\ looked = Unset
  /\ Sided(x, looked)
  /\ Mounting(x, next)
  /\ Named(x, next)
  /\ Referring(x)
  /\ Sole(x)

HasContent == \E x : ops = EmptyLists(app) \o x /\ Content(x)

ContentInv ==
  /\ PatchInv
  /\ at = "start" => next = 1 /\ looked = Unset
  /\ at \notin {"start", "panicked"} => HasContent
  /\ at = "created" => next > Len(members)

LEMMA SteadyIs ==
  ASSUME NEW r, NEW look \in LookupsOf(r),
         r.collector = Unset \/ \A i \in 1..4 : look[i] = look[1]
  PROVE  /\ look \in Lookups \cup {NoLookups}
         /\ look[1] \in Collectors /\ Steady(look, look[1])
         /\ r.collector = Unset => look[1] = "none"
<1>1. CASE r.collector = Unset
  <2>1. look = NoLookups
    BY <1>1 DEF LookupsOf
  <2>2. \A i \in 1..4 : look[i] = "none"
    BY <2>1 DEF NoLookups
  <2> QED BY <2>1, <2>2 DEF Collectors, OtherCollectors, Steady
<1>2. CASE r.collector # Unset
  <2>1. look \in Lookups
    BY <1>2 DEF LookupsOf
  <2>2. PICK c \in Collectors, d \in Collectors, n \in 0..4 :
          look = [i \in 1..4 |-> IF i <= n THEN c ELSE d]
    BY <2>1 DEF Lookups
  <2>3. look[1] \in Collectors
    BY <2>2
  <2>4. \A i \in 1..4 : look[i] = look[1]
    BY <1>2
  <2> QED BY <1>2, <2>1, <2>3, <2>4 DEF Steady
<1> QED BY <1>1, <1>2

LEMMA SidedNext ==
  ASSUME app \in Apps, NEW r, IsSeq(r.env), SendsNowhere(r.env), NEW look \in LookupsOf(r),
         NEW l, l = IF r.collector = Unset THEN looked ELSE Looking(look),
         NEW x, IsSeq(x), Sided(x, looked), IsSeq(applyInjectionRule(app, r, look))
  PROVE  Sided(x \o applyInjectionRule(app, r, look), l)
<1> DEFINE u == applyInjectionRule(app, r, look)
           y == x \o u
           o == Hears(r, look[1])
<1> SUFFICES ASSUME l # "changed",
                    NEW v \in Added(y, "env") \cup Added(y, "inits"), v.to = "sidecar"
             PROVE  \E c \in Added(y, "containers") : c.name = SidecarName
  BY DEF Sided
<1>1. looked # "changed" /\ Steady(look, look[1])
  <2>1. CASE r.collector = Unset
    BY <2>1, SteadyIs
  <2>2. CASE r.collector # Unset
    <3>1. \A i \in 1..4 : look[i] = look[1] /\ looked \in {Unset, look[i]}
      BY <2>2 DEF Looking
    <3>2. look[1] \in Collectors /\ Steady(look, look[1]) /\ looked \in {Unset, look[1]}
      BY <3>1, SteadyIs
    <3> QED BY <3>2, PatchAssumption DEF Collectors, OtherCollectors
  <2> QED BY <2>1, <2>2
<1>2. Tells(u, o, ToSet(r.env))
  <2>1. IsSeq(app.mounts)
    BY AppIs
  <2> QED BY <1>1, <2>1, RuleTells
<1> HIDE DEF u, o
<1>3. \A list : Added(y, list) = Added(x, list) \cup Added(u, list)
  BY AddedBoth DEF u
<1> HIDE DEF y
<1>4. CASE v \in Added(x, "env") \cup Added(x, "inits")
  BY <1>1, <1>3, <1>4 DEF Sided
<1>5. CASE v \in Added(u, "env") \cup Added(u, "inits")
  <2>1. IsSidecar(o)
    BY <1>2, <1>5, EndpointIs DEF Tells
  <2>2. Sidecar(o) \in Added(y, "containers") /\ Sidecar(o).name = SidecarName
    BY <1>2, <1>3, <2>1 DEF Tells, Sidecars, Sidecar, Container
  <2> QED BY <2>2
<1> QED BY <1>3, <1>4, <1>5

LEMMA SidedReduced ==
  ASSUME NEW l, NEW y, IsChanges(y), Sided(y, l), NEW z, IsReduced(z, y)
  PROVE  Sided(z, l)
BY ReducedAdds DEF Sided, Lists

LEMMA NamedSame ==
  ASSUME app' = app, members' = members, NEW x, Named(x, next')
  PROVE  Named(x, next)'
<1>1. Posted' = Posted
  BY DEF Posted
<1>2. Taken(next)' = Taken(next')
  BY <1>1 DEF Taken, Owned, Beside, CollectorLabels, Brought
<1>3. AgentsDiffer' <=> AgentsDiffer
  BY DEF AgentsDiffer
<1>4. Fits(x)' <=> Fits(x)
  BY DEF Fits, VolumesFit
<1> QED BY <1>2, <1>3, <1>4 DEF Named

LEMMA ReferringSame ==
  ASSUME rule' = rule, members' = members, NEW x, Referring(x)
  PROVE  Referring(x)'
BY DEF Referring, Closed, MayRecur, UserVars, Templated, Defines, IsVariable

LEMMA ContentSame ==
  ASSUME app' = app, rule' = rule, members' = members, next' = next, looked' = looked,
         NEW x, Content(x)
  PROVE  Content(x)'
<1>1. Patches(x)' /\ \A y, z : IsReduced(z, y) => IsReduced(z, y)'
  BY DEF Content, IsReduced, Patches
<1>2. Sole(x)'
  BY <1>1 DEF Content, Sole, IsSolePatch, FoundBy, LookupsOf
<1>3. Mounting(x, next)'
  BY DEF Content, Mounting, AreKept, PassedMounts, Webservers, IsConfig
<1>4. Named(x, next)'
  BY NamedSame DEF Content
<1>5. Referring(x)'
  BY ReferringSame DEF Content
<1> QED BY <1>1, <1>2, <1>3, <1>4, <1>5 DEF Content

(* The mounts before the first member. *)
LEMMA MountingFirst ==
  ASSUME app \in Apps, app.volumes # <<>>
  PROVE  LET e == applyPatch(Prepared(app), <<>>)
         IN  Whole(e, Len(app.mounts)) /\ Keeps(app.mounts, e.lists["mounts"])
<1> DEFINE d == Prepared(app)
<1>1. IsPod(app) /\ app.containers # <<>> /\ IsSeq(app.mounts) /\ Len(app.mounts) \in Nat
  BY AppIs
<1>2. IsDoc(d) /\ d = [lists |-> app, has |-> Lists, ok |-> TRUE]
  BY <1>1, PreparedIs
<1> HIDE DEF d
<1>3. applyPatch(d, <<>>) = d
  BY <1>2, EmptyPatch
<1>4. Whole(d, Len(app.mounts)) /\ Keeps(app.mounts, d.lists["mounts"])
  BY <1>1, <1>2, KeepsItself DEF Whole
<1> QED BY <1>3, <1>4 DEF d

LEMMA KeptOn ==
  ASSUME IsSeq(app.mounts), NEW s, NEW t, IsSeq(s), IsSeq(t), Keeps(s, t)
  PROVE  /\ Keeps(app.mounts, s) => Keeps(app.mounts, t)
         /\ AreKept(s) => AreKept(t)
<1>1. \A i \in PassedMounts : IsSeq(RemoveAt(app.mounts, i))
  BY RemoveLeaves DEF PassedMounts
<1> QED BY <1>1, KeepsOn DEF AreKept

(* The only web server is passed all the configuration there is.             *)
LEMMA PassedToServer ==
  ASSUME NEW k \in Webservers, Cardinality(Webservers) <= 1, IsFiniteSet(Webservers)
  PROVE  LET server == IF members[k].technology = "apache/otel" THEN Apache ELSE Nginx
         IN  Webservers = {k} /\ PassedMounts = Passing(app, server)
<1>1. Webservers = {k}
  <2>1. Cardinality(Webservers) \in Nat /\ (Cardinality(Webservers) = 0 <=> Webservers = {})
    BY FS_CardinalityType, FS_EmptySet
  <2>2. Cardinality(Webservers) = 1
    BY <2>1
  <2> QED BY <2>2, FS_Singleton
<1> QED BY <1>1 DEF PassedMounts, IsConfig, Passing

(* The patch of the kth member leaves the mounts as they are, or drops the   *)
(* one with the configuration.                                               *)
LEMMA MountingNext ==
  ASSUME app \in Apps, Len(members) \in Nat, DOMAIN members = 1..Len(members),
         NEW k \in DOMAIN members, IsSeq(members[k].env), NEW look,
         NEW x, IsChanges(x), Mounting(x, k)
  PROVE  Mounting(x \o applyInjectionRule(app, members[k], look), k + 1)
<1> DEFINE r == members[k]
           u == applyInjectionRule(app, r, look)
           n == Len(app.mounts)
           e == applyPatch(Prepared(app), x)
           f == applyPatch(e, u)
           server == IF r.technology = "apache/otel" THEN Apache ELSE Nginx
           Served(m) == \E i \in Webservers : i < m
<1>1. /\ IsPod(app) /\ app.containers # <<>> /\ IsSeq(app.mounts) /\ n \in Nat
      /\ Mounted(app) \subseteq ToSet(app.volumes)
  BY AppIs
<1> SUFFICES ASSUME app.volumes # <<>>, Cardinality(PassedMounts) <= 1,
                    Cardinality(Webservers) <= 1
             PROVE  /\ Whole(applyPatch(Prepared(app), x \o u), n)
                    /\ LET mounts == applyPatch(Prepared(app), x \o u).lists["mounts"]
                       IN  IF Served(k + 1) THEN AreKept(mounts) ELSE Keeps(app.mounts, mounts)
  BY DEF Mounting
<1>2. Whole(e, n) /\ (IF Served(k) THEN AreKept(e.lists["mounts"])
                                   ELSE Keeps(app.mounts, e.lists["mounts"]))
  BY DEF Mounting
<1>3. Carries(u, ToSet(app.volumes))
  BY <1>1, RulePatch
<1>4. applyPatch(Prepared(app), x \o u) = f
  <2>1. IsPatch(x) /\ IsPatch(u)
    BY <1>3, CarriesPatch DEF IsChanges, IsPatch, IsOperation
  <2>2. IsDoc(Prepared(app))
    BY <1>1, PreparedIs
  <2> HIDE DEF u
  <2> QED BY <2>1, <2>2, PatchConcat
<1>5. \A i \in Webservers : i \in Nat
  BY DEF Webservers
<1>6. \A q : Whole(q, n) => IsSeq(q.lists["mounts"])
  BY DocFacts DEF Whole, Lists
<1>7. CASE k \notin Webservers
  <2>1. Brings(u, ToSet(app.volumes))
    BY <1>7, TechnologyBrings DEF Webservers
  <2>2. IsSeq(u) /\ \A o \in ToSet(u) : IsAddition(o)
    BY <2>1 DEF Brings
  <2> HIDE DEF u, e, n
  <2>3. Whole(f, n) /\ Keeps(e.lists["mounts"], f.lists["mounts"])
    BY <1>1, <1>2, <2>2, AdditionsApply
  <2>4. Served(k + 1) <=> Served(k)
    BY <1>5, <1>7
  <2> HIDE DEF f, Served
  <2>5. /\ Keeps(app.mounts, e.lists["mounts"]) => Keeps(app.mounts, f.lists["mounts"])
        /\ AreKept(e.lists["mounts"]) => AreKept(f.lists["mounts"])
    BY <1>1, <1>2, <1>6, <2>3, KeptOn
  <2> QED BY <1>2, <1>4, <2>3, <2>4, <2>5
<1>8. CASE k \in Webservers
  <2>1. IsFiniteSet(Webservers)
    <3>1. IsFiniteSet(1..Len(members)) /\ Webservers \subseteq 1..Len(members)
      BY FS_Interval DEF Webservers
    <3> QED BY <3>1, FS_Subset
  <2>2. Webservers = {k} /\ PassedMounts = Passing(app, server)
    BY <1>8, <2>1, PassedToServer
  <2>3. ~Served(k) /\ Served(k + 1)
    BY <2>2
  <2>4. u = webserverOtel(app, r, look, server)
    BY <1>8 DEF Webservers, applyInjectionRule
  <2>5. IsSeq(server.env)
    BY Tuples DEF Apache, Nginx
  <2>6. Keeps(app.mounts, e.lists["mounts"])
    BY <1>2, <2>3
  <2>7. \A m \in ToSet(app.mounts) : m.volume \in ToSet(app.volumes)
    BY <1>1 DEF Mounted
  <2> HIDE DEF e, server, r, u, Served, f
  <2>8. Whole(f, n) /\ Serves(app, server, f.lists["mounts"])
    <3>1. Cardinality(Passing(app, server)) <= 1 /\ Cardinality(Passing(app, server)) <= 2
      <4>1. Cardinality(Passing(app, server)) \in Nat
        BY <1>1, DropsAre
      <4> QED BY <2>2, <4>1
    <3> QED BY <1>1, <1>2, <2>4, <2>5, <2>6, <2>7, <3>1, WebserverPatch DEF f, r
  <2>9. AreKept(f.lists["mounts"])
    BY <2>2, <2>8 DEF AreKept, Serves
  <2> QED BY <1>4, <2>3, <2>8, <2>9
<1> QED BY <1>7, <1>8

LEMMA MountingReduced ==
  ASSUME NEW y, NEW k, Mounting(y, k), NEW z, IsReduced(z, y)
  PROVE  Mounting(z, k)
<1> DEFINE e == applyPatch(Prepared(app), y)
           f == applyPatch(Prepared(app), z)
<1>1. Alike(e, f)
  BY DEF IsReduced
<1> HIDE DEF e, f
<1>2. Whole(e, Len(app.mounts)) =>
        Whole(f, Len(app.mounts)) /\ f.lists["mounts"] = e.lists["mounts"]
  <2>1. "mounts" \in Lists \ {"env"}
    BY DEF Lists
  <2> QED BY <1>1, <2>1 DEF Alike, Whole
<1> QED BY <1>2 DEF Mounting, e, f

(* The names before the first member. *)
LEMMA NamedFirst ==
  ASSUME app \in Apps
  PROVE  LET e == applyPatch(Prepared(app), <<>>)
         IN  e.ok => Distinct(e.lists, Posted)
<1> DEFINE d == Prepared(app)
<1>1. IsPod(app) /\ app.containers # <<>>
  BY AppIs
<1>2. IsDoc(d) /\ (d.ok => d = [lists |-> app, has |-> Lists, ok |-> TRUE])
  BY <1>1, PreparedIs
<1> HIDE DEF d
<1>3. applyPatch(d, <<>>) = d /\ (d.ok => d.lists = app)
  BY <1>2, EmptyPatch
<1>4. /\ IsInjective(app.volumes) /\ IsInjective(Names(app.inits))
      /\ IsInjective(Names(app.containers))
  BY PatchAssumption
<1>5. \A i, j \in DOMAIN app.volumes : app.volumes[i] = app.volumes[j] => i = j
  BY <1>4 DEF IsInjective
<1>6. \A i, j \in DOMAIN app.inits : app.inits[i].name = app.inits[j].name => i = j
  BY <1>4 DEF IsInjective, Names
<1>7. \A i, j \in DOMAIN app.containers : app.containers[i].name = app.containers[j].name => i = j
  BY <1>4 DEF IsInjective, Names
<1>8. Distinct(app, Posted)
  <2>1. ASSUME NEW list \in NamedLists, NEW i \in DOMAIN app[list]
        PROVE  <<list, NameIn(list, app[list][i])>> \in Posted
    BY <2>1 DEF Posted
  <2>2. ASSUME NEW list \in NamedLists, NEW i \in DOMAIN app[list], NEW j \in DOMAIN app[list],
               NameIn(list, app[list][i]) = NameIn(list, app[list][j])
        PROVE  i = j
    BY <1>5, <1>6, <1>7, <2>2 DEF NamedLists, NameIn
  <2> QED BY <2>1, <2>2 DEF Distinct
<1> QED BY <1>3, <1>8 DEF d

(* The kth member has no name of the pod's, nor of a member's before it.     *)
LEMMA OwnedIsFree ==
  ASSUME Len(members) \in Nat, DOMAIN members = 1..Len(members), NEW k \in DOMAIN members,
         IsUnclaimed(app), AgentsDiffer
  PROVE  Owned(members[k]) \cap Taken(k) = {} /\ Taken(k) \cup Owned(members[k]) \subseteq Taken(k + 1)
<1>1. Owned(members[k]) \cap Posted = {}
  <2> DEFINE Ours == Agents \cup SidecarNames
  <2>1. Owned(members[k]) \subseteq (NamedLists \X Ours) \cup ({"volumes"} \X Brought)
    BY OwnedIs
  <2>2. /\ ToSet(app.volumes) \cap Ours = {} /\ ToSet(Names(app.inits)) \cap Ours = {}
        /\ ToSet(Names(app.containers)) \cap Ours = {}
    BY DEF IsUnclaimed
  <2> HIDE DEF Ours
  <2>3. \A i \in DOMAIN app.volumes : app.volumes[i] \notin Ours
    BY <2>2 DEF ToSet
  <2>4. \A i \in DOMAIN app.inits : app.inits[i].name \notin Ours
    BY <2>2 DEF ToSet, Names
  <2>5. \A i \in DOMAIN app.containers : app.containers[i].name \notin Ours
    BY <2>2 DEF ToSet, Names
  <2>6. ASSUME NEW list \in NamedLists, NEW i \in DOMAIN app[list]
        PROVE  NameIn(list, app[list][i]) \notin Ours
    BY <2>3, <2>4, <2>5, <2>6 DEF NamedLists, NameIn
  <2> SUFFICES ASSUME NEW l \in Owned(members[k]), l \in Posted PROVE FALSE
    OBVIOUS
  <2>7. \E list \in NamedLists : \E i \in DOMAIN app[list] : l = <<list, NameIn(list, app[list][i])>>
    BY DEF Posted
  <2>8. \A i \in DOMAIN app.volumes : NameIn("volumes", app["volumes"][i]) \notin Brought
    BY BroughtIs DEF NameIn, ToSet
  <2> QED BY <2>1, <2>6, <2>7, <2>8
<1>2. ASSUME NEW j \in 1..(k - 1)
      PROVE  Owned(members[k]) \cap Owned(members[j]) = {}
  <2>1. j \in DOMAIN members /\ j # k
    OBVIOUS
  <2>2. /\ members[k].technology # members[j].technology
        /\ {members[k].technology, members[j].technology} # {"java/otel", "java/splunk"}
        /\ Unset \in {members[k].collector, members[j].collector}
    BY <2>1 DEF AgentsDiffer
  <2> QED BY <2>2, OwnedApart
<1>3. Taken(k) \cup Owned(members[k]) \subseteq Taken(k + 1)
  <2>1. \A j \in 1..(k - 1) : j \in 1..((k + 1) - 1)
    OBVIOUS
  <2>2. k \in 1..((k + 1) - 1)
    OBVIOUS
  <2> QED BY <2>1, <2>2 DEF Taken
<1> QED BY <1>1, <1>2, <1>3 DEF Taken

(* The patch of the kth member brings names that are free.                   *)
LEMMA NamedNext ==
  ASSUME app \in Apps, Len(members) \in Nat, DOMAIN members = 1..Len(members),
         NEW k \in DOMAIN members, IsSeq(members[k].env), NEW look \in LookupsOf(members[k]),
         NEW x, IsChanges(x), Named(x, k), IsChanges(applyInjectionRule(app, members[k], look))
  PROVE  Named(x \o applyInjectionRule(app, members[k], look), k + 1)
<1> DEFINE u == applyInjectionRule(app, members[k], look)
           d == Prepared(app)
           e == applyPatch(d, x)
           f == applyPatch(e, u)
<1>1. IsDoc(d) /\ IsSeq(app.mounts)
  BY AppIs, PreparedIs
<1>2. Puts(u, Owned(members[k]))
  BY <1>1, RulePuts
<1>3. applyPatch(d, x \o u) = f /\ IsDoc(e)
  <2>1. IsPatch(x) /\ IsPatch(u)
    BY DEF IsChanges, IsPatch, IsOperation
  <2> HIDE DEF d, u
  <2> QED BY <1>1, <2>1, PatchConcat, PatchType
<1> HIDE DEF u, d, e
<1>0. IsSeq(x) /\ IsSeq(u)
  BY DEF IsChanges, u
<1> SUFFICES ASSUME f.ok, IsUnclaimed(app), Fits(x \o u), AgentsDiffer
             PROVE  Distinct(f.lists, Taken(k + 1))
  BY <1>3 DEF Named, u, d
<1>4. e.ok
  BY <1>3, ChangesGrow DEF Grows, u
<1>5. Distinct(e.lists, Taken(k)) /\ Fits(u)
  BY <1>0, <1>4, FitsBoth DEF Named, e, d
<1>6. Owned(members[k]) \cap Taken(k) = {} /\ Taken(k) \cup Owned(members[k]) \subseteq Taken(k + 1)
  BY OwnedIsFree
<1>7. Distinct(f.lists, Taken(k) \cup Owned(members[k]))
  BY <1>2, <1>3, <1>5, <1>6, ChangesDistinct DEF u
<1> QED BY <1>6, <1>7 DEF Distinct

LEMMA NamedReduced ==
  ASSUME app \in Apps, NEW y, IsChanges(y), NEW k, Named(y, k), NEW z, IsReduced(z, y)
  PROVE  Named(z, k)
<1> DEFINE d == Prepared(app)
           e == applyPatch(d, y)
           f == applyPatch(d, z)
<1>1. Alike(e, f) /\ IsChanges(z)
  BY DEF IsReduced, Patches, Carries
<1>2. IsPod(app) /\ app.containers # <<>>
  BY AppIs
<1>3. IsDoc(d) /\ (d.ok => d.has = Lists)
  BY <1>2, PreparedIs
<1> HIDE DEF d
<1>4. f.ok => f.has = Lists
  BY <1>1, <1>3, ChangesGrow DEF Grows
<1> HIDE DEF e, f
<1>5. "env" \in Lists /\ NamedLists \subseteq Lists \ {"env"}
  BY DEF Lists, NamedLists
<1>6. f.ok => e.ok /\ \A list \in NamedLists : f.lists[list] = e.lists[list]
  BY <1>1, <1>4, <1>5 DEF Alike
<1>7. \A C : f.ok /\ Distinct(e.lists, C) => Distinct(f.lists, C)
  BY <1>6 DEF Distinct
<1>8. Fits(z) => Fits(y)
  BY ReducedAdds DEF Fits, Lists
<1> QED BY <1>6, <1>7, <1>8 DEF Named, e, f, d

(* The kth member refers to what it defines, and to nothing of the others'. *)
LEMMA ReferringNext ==
  ASSUME app \in Apps, rule \in Rules, Len(members) = Len(rule.members), Len(members) \in Nat,
         DOMAIN members = 1..Len(members), NEW k \in DOMAIN members,
         IsCompleted(members[k], rule.members[k]), NEW look,
         NEW x, IsSeq(x), k = 1 => x = <<>>, Referring(x),
         IsSeq(applyInjectionRule(app, members[k], look))
  PROVE  Referring(x \o applyInjectionRule(app, members[k], look))
<1> DEFINE r == members[k]
           u == applyInjectionRule(app, r, look)
           y == x \o u
           m == Len(x)
           n == Len(u)
<1> SUFFICES ASSUME Closed PROVE Referring(y)
  BY DEF Referring
<1>1. /\ IsSeq(app.mounts) /\ IsSeq(r.env) /\ r \in ToSet(members)
      /\ ToSet(r.env) \subseteq UserVars /\ (IsTemplated(r) => Templated)
      /\ IsClosed(r.env) \/ IsTemplated(r)
  <2>1. IsSeq(app.mounts) /\ IsSeq(r.env) /\ r \in ToSet(members)
    BY AppIs DEF IsCompleted, ToSet
  <2>2. rule.members[k] \in ToSet(rule.members)
    <3>1. IsSeq(rule.members)
      BY PatchAssumption
    <3> QED BY <3>1, IsSeqFacts
  <2>3. IsClosed(rule.members[k].env)
    BY <2>2 DEF Closed
  <2>4. IsClosed(r.env) \/ IsTemplated(r)
    BY <2>3 DEF IsCompleted, IsTemplated
  <2> HIDE DEF r
  <2>5. ToSet(r.env) \subseteq UserVars /\ (IsTemplated(r) => Templated)
    BY <2>1 DEF UserVars, Templated, IsTemplated
  <2> QED BY <2>1, <2>4, <2>5
<1> HIDE DEF r
<1>2. PICK N : Speaks(u, N, {}, r)
  BY <1>1, RuleSpeaks
<1>3. /\ IsSeq(u) /\ m \in Nat /\ n \in Nat
      /\ DOMAIN x = 1..m /\ DOMAIN u = 1..n /\ DOMAIN y = 1..(m + n)
      /\ \A i \in 1..(m + n) : y[i] = IF i <= m THEN x[i] ELSE u[i - m]
  <2>1. IsSeq(u)
    BY <1>2 DEF Speaks
  <2> HIDE DEF u
  <2>2. /\ IsSeq(y) /\ m \in Nat /\ n \in Nat /\ Len(y) = m + n
        /\ \A i \in 1..(m + n) : y[i] = IF i <= m THEN x[i] ELSE u[i - m]
    BY <2>1, IsSeqConcat, IsSeqFacts
  <2> HIDE DEF y
  <2> QED BY <2>1, <2>2, IsSeqFacts
<1>4. m = 0 \/ Len(members) > 1
  <2>1. CASE k = 1
    BY <2>1
  <2>2. CASE k # 1
    BY <2>2
  <2> QED BY <2>1, <2>2
<1> HIDE DEF u, y, m, n
<1>5. ASSUME NEW i \in 1..(m + n)
      PROVE  \/ i \in 1..m /\ y[i] = x[i]
             \/ ~(i <= m) /\ i - m \in 1..n /\ y[i] = u[i - m]
  BY <1>3
<1>6. /\ \A i \in 1..m : i \in DOMAIN y /\ y[i] = x[i]
      /\ \A i \in 1..n : m + i \in DOMAIN y /\ y[m + i] = u[i]
  <2>1. ASSUME NEW i \in 1..n
        PROVE  m + i \in 1..(m + n) /\ ~(m + i <= m) /\ (m + i) - m = i
    BY <1>3
  <2> QED BY <1>3, <2>1
<1>7. \A name \in OwnNames(r) : MayRecur(name)
  BY <1>1 DEF OwnNames, MayRecur
<1>8. ASSUME NEW i \in DOMAIN y, IsVariable(y[i]), NEW name \in y[i].value.refs
      PROVE  \/ \E j \in DOMAIN y : j < i /\ Defines(y, j, name)
             \/ rule.set /\ MayRecur(name) /\ \E j \in DOMAIN y : i <= j /\ Defines(y, j, name)
             \/ Templated /\ y[i].value \in UserVars
  <2>1. CASE i \in 1..m /\ y[i] = x[i]
    <3>1. \/ \E j \in 1..m : j < i /\ Defines(x, j, name)
          \/ rule.set /\ MayRecur(name) /\ \E j \in 1..m : i <= j /\ Defines(x, j, name)
          \/ Templated /\ x[i].value \in UserVars
      BY <1>3, <1>8, <2>1 DEF Referring
    <3>2. \A j \in 1..m : j \in DOMAIN y /\ (Defines(x, j, name) => Defines(y, j, name))
      BY <1>6 DEF Defines
    <3> QED BY <2>1, <3>1, <3>2
  <2>2. CASE ~(i <= m) /\ i - m \in 1..n /\ y[i] = u[i - m]
    <3>1. \/ \E j \in 1..n : j < i - m /\ Defines(u, j, name)
          \/ IsTemplated(r) /\ u[i - m].value \in ToSet(r.env)
      BY <1>2, <1>3, <1>8, <2>2 DEF Speaks
    <3>2. CASE \E j \in 1..n : j < i - m /\ Defines(u, j, name)
      <4>1. PICK j \in 1..n : j < i - m /\ Defines(u, j, name)
        BY <3>2
      <4>2. m + j < i /\ m + j \in DOMAIN y /\ Defines(y, m + j, name)
        BY <1>3, <1>6, <4>1 DEF Defines
      <4> QED BY <4>2
    <3> QED BY <1>1, <2>2, <3>1, <3>2
  <2> QED BY <1>3, <1>5, <2>1, <2>2
<1>9. ASSUME NEW i \in DOMAIN y, NEW j \in DOMAIN y, NEW name,
             Defines(y, i, name), Defines(y, j, name), Len(members) <= 1
      PROVE  i = j \/ MayRecur(name)
  <2>1. m = 0
    BY <1>4, <1>9
  <2>2. /\ i \in 1..n /\ y[i] = u[i] /\ j \in 1..n /\ y[j] = u[j]
    BY <1>3, <2>1
  <2> QED BY <1>2, <1>3, <1>7, <1>9, <2>2 DEF Speaks, Defines
<1>10. Len(members) > 1 => \A name : MayRecur(name)
  BY DEF MayRecur
<1> QED BY <1>8, <1>9, <1>10 DEF Referring

(* What is dropped from a rule set is defined by the last that is kept, which  *)
(* may be further down.                                                      *)
LEMMA ReferringReduced ==
  ASSUME rule.set, NEW y, IsChanges(y), Referring(y), NEW z, IsReduced(z, y)
  PROVE  Referring(z)
<1> SUFFICES ASSUME Closed PROVE Referring(z)
  BY DEF Referring
<1>1. IsSeq(y) /\ IsSeq(z) /\ DOMAIN y = 1..Len(y) /\ DOMAIN z = 1..Len(z) /\ Len(y) \in Nat
  BY IsSeqFacts DEF IsChanges, IsReduced, Patches, Carries
<1>2. PICK g : IsSelection(g, z, y, Len(y))
  BY DEF IsReduced, Selects
<1>3. /\ \A i \in DOMAIN z : g[i] \in DOMAIN y /\ g[i] \in Int /\ z[i] = y[g[i]]
      /\ \A i \in DOMAIN z : \A j \in 1..(i - 1) : g[j] < g[i]
  BY <1>1, <1>2 DEF IsSelection
<1>4. ASSUME NEW i \in DOMAIN z, NEW j \in DOMAIN z
      PROVE  i < j <=> g[i] < g[j]
  <2>1. CASE i < j
    <3>1. i \in 1..(j - 1)
      BY <1>1, <2>1
    <3> QED BY <1>3, <2>1, <3>1
  <2>2. CASE j < i
    <3>1. j \in 1..(i - 1) /\ ~(i < j)
      BY <1>1, <2>2
    <3>2. g[j] < g[i]
      BY <1>3, <3>1
    <3> QED BY <1>3, <3>1, <3>2
  <2>3. CASE i = j
    BY <1>1, <1>3, <2>3
  <2> QED BY <1>1, <2>1, <2>2, <2>3
<1>5. ASSUME NEW i \in DOMAIN z, IsVariable(z[i]), NEW name \in z[i].value.refs
      PROVE  \/ \E j \in DOMAIN z : j < i /\ Defines(z, j, name)
             \/ rule.set /\ MayRecur(name) /\ \E j \in DOMAIN z : i <= j /\ Defines(z, j, name)
             \/ Templated /\ z[i].value \in UserVars
  <2>1. \/ \E j \in DOMAIN y : j < g[i] /\ Defines(y, j, name)
        \/ MayRecur(name) /\ \E j \in DOMAIN y : g[i] <= j /\ Defines(y, j, name)
        \/ Templated /\ z[i].value \in UserVars
    BY <1>3, <1>5 DEF Referring
  <2>2. CASE \E j \in DOMAIN y : j < g[i] /\ Defines(y, j, name)
    <3>1. PICK j \in DOMAIN y : j < g[i] /\ Defines(y, j, name)
      BY <2>2
    <3>2. PICK l \in DOMAIN z : Defines(z, l, name) /\ j <= g[l]
      BY <1>1, <1>2, <3>1, LastIsKept
    <3>3. CASE l < i
      BY <3>2, <3>3
    <3>4. CASE ~(l < i)
      <4>1. i <= l
        BY <1>1, <3>4
      <4>2. ~(g[l] < g[i])
        BY <1>4, <3>4
      <4>3. j # g[l]
        BY <1>1, <3>1, <4>2
      <4>4. g[l] \in DOMAIN y /\ Defines(y, g[l], name)
        BY <1>3, <3>2 DEF Defines
      <4>5. MayRecur(name)
        BY <3>1, <4>3, <4>4 DEF Referring
      <4> QED BY <3>2, <4>1, <4>5
    <3> QED BY <3>3, <3>4
  <2>3. CASE MayRecur(name) /\ \E j \in DOMAIN y : g[i] <= j /\ Defines(y, j, name)
    <3>1. PICK j \in DOMAIN y : g[i] <= j /\ Defines(y, j, name)
      BY <2>3
    <3>2. PICK l \in DOMAIN z : Defines(z, l, name) /\ j <= g[l]
      BY <1>1, <1>2, <3>1, LastIsKept
    <3>3. ~(g[l] < g[i])
      BY <1>1, <1>3, <3>1, <3>2
    <3>4. ~(l < i)
      BY <1>4, <3>3
    <3>5. i <= l
      BY <1>1, <3>4
    <3> QED BY <2>3, <3>2, <3>5
  <2> QED BY <2>1, <2>2, <2>3
<1>6. ASSUME NEW i \in DOMAIN z, NEW j \in DOMAIN z, NEW name,
             Defines(z, i, name), Defines(z, j, name)
      PROVE  i = j \/ MayRecur(name)
  <2>1. Defines(y, g[i], name) /\ Defines(y, g[j], name)
    BY <1>3, <1>6 DEF Defines
  <2>2. g[i] = g[j] \/ MayRecur(name)
    BY <1>3, <2>1 DEF Referring
  <2>3. g[i] = g[j] => i = j
    <3>1. g[i] = g[j] => ~(i < j) /\ ~(j < i)
      BY <1>3, <1>4
    <3> QED BY <1>1, <3>1
  <2> QED BY <2>2, <2>3
<1> QED BY <1>5, <1>6 DEF Referring

(* The member that is next. *)
LEMMA InstrumentedIs ==
  ASSUME PatchInv, Instrument
  PROVE  /\ app \in Apps /\ rule \in Rules /\ Len(rule.members) \in Nat
         /\ next \in 1..Len(rule.members) /\ DOMAIN members = 1..Len(rule.members)
         /\ Len(members) = Len(rule.members)
         /\ IsCompleted(members[next], rule.members[next])
<1>1. at # "start" /\ next \in DOMAIN members
  BY DEF Instrument
<1>2. app \in Apps /\ rule \in Rules
  BY DEF PatchInv, Typed
<1>3. Len(rule.members) \in Nat
  BY <1>2, PatchAssumption, IsSeqFacts
<1> QED BY <1>1, <1>2, <1>3 DEF PatchInv, MembersAre

LEMMA ContentInit == Init => ContentInv
<1> SUFFICES ASSUME Init PROVE ContentInv
  OBVIOUS
<1>1. PatchInv
  BY InitInv
<1> QED BY <1>1 DEF ContentInv, Init

LEMMA ContentComplete == ContentInv /\ Complete => ContentInv'
<1> SUFFICES ASSUME ContentInv, Complete PROVE ContentInv'
  OBVIOUS
<1>1. PatchInv /\ PatchInv'
  BY CompleteInv DEF ContentInv
<1>2. /\ at = "start" /\ at' = "instrument" /\ ops' = EmptyLists(app) /\ app' = app
      /\ rule' = rule /\ next' = next /\ looked' = looked /\ next = 1 /\ looked = Unset
  BY DEF Complete, ContentInv
<1>3. app \in Apps
  BY <1>1 DEF PatchInv, Typed
<1>4. ops' = EmptyLists(app) \o <<>> /\ Patches(<<>>)
  BY <1>2, <1>3, NothingPatched
<1>5. \A list : Added(<<>>, list) = {}
  BY Tuples DEF Added, AddedBy
<1>6. Content(<<>>)'
  <2>1. Patches(<<>>)'
    BY <1>2, <1>4 DEF Patches
  <2>2. Sided(<<>>, looked')
    BY <1>5 DEF Sided
  <2>3. next' = 1 /\ looked' = Unset
    BY <1>2
  <2>4. Mounting(<<>>, next)'
    <3>1. ~\E i \in Webservers' : i < 1
      BY <1>1, <1>2 DEF PatchInv, MembersAre, Webservers
    <3>2. app.volumes # <<>> =>
            LET e == applyPatch(Prepared(app), <<>>)
            IN  Whole(e, Len(app.mounts)) /\ Keeps(app.mounts, e.lists["mounts"])
      BY <1>3, MountingFirst
    <3> QED BY <1>2, <2>3, <3>1, <3>2 DEF Mounting
  <2>5. Named(<<>>, next)'
    <3>1. LET e == applyPatch(Prepared(app), <<>>) IN e.ok => Distinct(e.lists, Posted)
      BY <1>3, NamedFirst
    <3>2. Posted' = Posted
      BY <1>2 DEF Posted
    <3>3. Posted' \subseteq Taken(next)'
      BY DEF Taken
    <3>4. \A lists : Distinct(lists, Posted) => Distinct(lists, Taken(next)')
      BY <3>2, <3>3 DEF Distinct
    <3> QED BY <1>2, <3>1, <3>4 DEF Named
  <2>6. Referring(<<>>)'
    <3>1. DOMAIN <<>> = {}
      OBVIOUS
    <3> QED BY <3>1 DEF Referring
  <2> QED BY <2>1, <2>2, <2>3, <2>4, <2>5, <2>6 DEF Content, Sole
<1>7. HasContent'
  BY <1>2, <1>4, <1>6 DEF HasContent
<1> QED BY <1>1, <1>2, <1>7 DEF ContentInv

(* The patch of the next member, and what is left of it in a rule set. *)
LEMMA ContentNext ==
  ASSUME PatchInv, Instrument, at' # "panicked", NEW x, Content(x), ops = EmptyLists(app) \o x
  PROVE  HasContent'
<1> DEFINE r == members[next]
<1>1. PICK look \in LookupsOf(r) :
        /\ looked' = IF r.collector = Unset THEN looked ELSE Looking(look)
        /\ IF Panics(r, look) THEN at' = "panicked" /\ UNCHANGED <<ops, next>>
           ELSE LET patch == ops \o applyInjectionRule(app, r, look)
                IN  /\ ops' = IF rule.set THEN removeDupliciteEnvs(patch) ELSE patch
                    /\ next' = next + 1
                    /\ at' = at
  BY DEF Instrument, LookupsOf
<1> DEFINE u == applyInjectionRule(app, r, look)
           y == x \o u
<1>2. /\ next \in DOMAIN members /\ next' = next + 1 /\ next \in Nat \ {0}
      /\ app' = app /\ rule' = rule /\ members' = members
      /\ ops' = IF rule.set THEN removeDupliciteEnvs(ops \o u) ELSE ops \o u
  <2>1. next \in 1..Len(rule.members) /\ Len(rule.members) \in Nat
    BY InstrumentedIs
  <2>2. next \in DOMAIN members /\ app' = app /\ rule' = rule /\ members' = members
    BY DEF Instrument
  <2> HIDE DEF r
  <2>3. next' = next + 1 /\ ops' = IF rule.set THEN removeDupliciteEnvs(ops \o u) ELSE ops \o u
    BY <1>1
  <2> QED BY <2>1, <2>2, <2>3
<1>3. /\ app \in Apps /\ IsSeq(r.env) /\ SendsNowhere(r.env)
  BY InstrumentedIs DEF IsCompleted
<1>4. /\ Patches(x) /\ Sided(x, looked) /\ (next = 1 => x = <<>> /\ looked = Unset)
  BY DEF Content
<1> HIDE DEF r
<1>5. /\ Patches(y) /\ ops \o u = EmptyLists(app) \o y /\ CanReduce(y)
      /\ IsChanges(x) /\ IsChanges(u)
  BY <1>3, <1>4, PatchesLonger
<1>6. IsSeq(x) /\ IsSeq(u)
  BY <1>5 DEF IsChanges
<1>7. Sided(y, looked') /\ Mounting(y, next + 1) /\ Named(y, next + 1) /\ Referring(y)
  <2>1. Sided(y, looked')
    BY <1>1, <1>3, <1>4, <1>6, SidedNext
  <2>2. /\ Mounting(x, next) /\ Len(members) \in Nat /\ DOMAIN members = 1..Len(members)
        /\ next \in DOMAIN members
    BY InstrumentedIs DEF Content
  <2>3. Mounting(y, next + 1)
    BY <1>3, <1>5, <2>2, MountingNext DEF r
  <2>4. Named(y, next + 1)
    <3>1. Named(x, next) /\ look \in LookupsOf(members[next])
      BY <1>1 DEF Content, r
    <3> QED BY <1>3, <1>5, <2>2, <3>1, NamedNext DEF r
  <2>5. Referring(y)
    <3>1. /\ rule \in Rules /\ Len(members) = Len(rule.members)
          /\ IsCompleted(members[next], rule.members[next])
      BY InstrumentedIs
    <3>2. Referring(x) /\ (next = 1 => x = <<>>)
      BY DEF Content
    <3> QED BY <1>3, <1>6, <2>2, <3>1, <3>2, ReferringNext DEF r
  <2> QED BY <2>1, <2>3, <2>4, <2>5
<1>8. next = 1 => y = u /\ looked' = FoundBy(r, look)
  <2> SUFFICES ASSUME next = 1 PROVE y = u /\ looked' = FoundBy(r, look)
    OBVIOUS
  <2>1. x = <<>> /\ looked = Unset
    BY <1>4
  <2>2. y = u
    BY <1>6, <2>1, ConcatEmptySeq DEF IsSeq
  <2>3. Looking(look) = IF \A i \in 1..4 : look[i] = look[1] THEN look[1] ELSE "changed"
    BY <2>1 DEF Looking
  <2> QED BY <1>1, <2>1, <2>2, <2>3 DEF FoundBy
<1> HIDE DEF u, y
<1>9. ASSUME NEW z, z = y \/ (rule.set /\ IsReduced(z, y)), Patches(z), Sided(z, looked'),
             Mounting(z, next + 1), Named(z, next + 1), Referring(z)
      PROVE  Content(z)'
  <2>1. Patches(z)'
    BY <1>2, <1>9 DEF Patches
  <2>2. Sole(z)'
    <3> SUFFICES ASSUME Len(members) = 1, next' = 2
                 PROVE  \E l \in LookupsOf(members[1]) : IsSolePatch(z, l)'
      BY <1>2 DEF Sole, LookupsOf
    <3>1. next = 1
      BY <1>2
    <3>2. r = members[1]
      BY <3>1 DEF r
    <3>3. IsSolePatch(z, look)'
      <4>1. looked' = FoundBy(r, look) /\ y = u
        BY <1>8, <3>1
      <4>2. members'[1] = r
        BY <1>2, <3>2
      <4>3. applyInjectionRule(app, members[1], look)' = u
        BY <1>2, <4>2 DEF u
      <4>4. IsReduced(z, applyInjectionRule(app, members[1], look))' <=> IsReduced(z, u)
        BY <1>2, <4>3 DEF IsReduced, Patches
      <4>5. z = u \/ (rule.set /\ IsReduced(z, u))
        BY <1>9, <4>1
      <4> QED BY <1>2, <4>1, <4>2, <4>3, <4>4, <4>5 DEF IsSolePatch, FoundBy
    <3> QED BY <1>1, <3>2, <3>3
  <2>3. next' # 1
    BY <1>2
  <2>4. Mounting(z, next)'
    BY <1>2, <1>9 DEF Mounting, AreKept, PassedMounts, Webservers, IsConfig
  <2>5. Named(z, next)'
    BY <1>2, <1>9, NamedSame
  <2>6. Referring(z)'
    BY <1>2, <1>9, ReferringSame
  <2> QED BY <1>9, <2>1, <2>2, <2>3, <2>4, <2>5, <2>6 DEF Content
<1>10. CASE ~rule.set
  <2>1. PICK z : z = y
    OBVIOUS
  <2>2. ops' = EmptyLists(app) \o z
    BY <1>2, <1>5, <1>10, <2>1
  <2>3. /\ Patches(z) /\ Sided(z, looked')
        /\ Mounting(z, next + 1) /\ Named(z, next + 1) /\ Referring(z)
    BY <1>5, <1>7, <2>1
  <2>4. Content(z)'
    BY <1>9, <2>1, <2>3
  <2> QED BY <1>2, <2>2, <2>4 DEF HasContent
<1>11. CASE rule.set
  <2>1. PICK z : IsReduced(z, y)
    BY <1>5 DEF CanReduce
  <2>2. IsChanges(y)
    BY <1>5 DEF Patches, Carries
  <2>3. /\ Patches(z) /\ Sided(z, looked')
        /\ Mounting(z, next + 1) /\ Named(z, next + 1) /\ Referring(z)
    <3>1. Referring(z)
      BY <1>7, <1>11, <2>1, <2>2, ReferringReduced
    <3> QED BY <1>3, <1>7, <2>1, <2>2, <3>1, SidedReduced, MountingReduced, NamedReduced
            DEF IsReduced
  <2>4. ops' = EmptyLists(app) \o z
    BY <1>2, <1>5, <1>11, <2>1 DEF IsReduced
  <2>5. Content(z)'
    BY <1>9, <1>11, <2>1, <2>3
  <2> QED BY <1>2, <2>4, <2>5 DEF HasContent
<1> QED BY <1>10, <1>11

LEMMA ContentInstrument == ContentInv /\ Instrument => ContentInv'
<1> SUFFICES ASSUME ContentInv, Instrument PROVE ContentInv'
  OBVIOUS
<1>1. PatchInv /\ PatchInv'
  BY InstrumentInv DEF ContentInv
<1>2. at = "instrument" /\ at' \in {"instrument", "panicked"}
  BY DEF Instrument
<1>3. at' # "panicked" => HasContent'
  <2>1. PICK x : ops = EmptyLists(app) \o x /\ Content(x)
    BY <1>2 DEF ContentInv, HasContent
  <2> QED BY <1>1, <2>1, ContentNext
<1> QED BY <1>1, <1>2, <1>3 DEF ContentInv

LEMMA ContentDereference == ContentInv /\ DereferenceNil => ContentInv'
<1> SUFFICES ASSUME ContentInv, DereferenceNil PROVE ContentInv'
  OBVIOUS
<1>1. PatchInv' /\ at' = "panicked"
  BY DereferenceInv DEF ContentInv, DereferenceNil
<1> QED BY <1>1 DEF ContentInv

LEMMA ContentPatch == ContentInv /\ Patch => ContentInv'
<1> SUFFICES ASSUME ContentInv, Patch PROVE ContentInv'
  OBVIOUS
<1>1. PatchInv /\ PatchInv'
  BY PatchStepInv DEF ContentInv
<1>2. /\ at = "instrument" /\ at' \in {"created", "failed"} /\ next \notin DOMAIN members
      /\ app' = app /\ rule' = rule /\ members' = members
      /\ next' = next /\ looked' = looked /\ ops' = ops
  BY DEF Patch
<1>3. HasContent'
  <2>1. PICK x : ops = EmptyLists(app) \o x /\ Content(x)
    BY <1>2 DEF ContentInv, HasContent
  <2>2. Content(x)'
    BY <1>2, <2>1, ContentSame
  <2> QED BY <1>2, <2>1, <2>2 DEF HasContent
<1>4. next' > Len(members')
  <2>1. /\ Len(members) = Len(rule.members) /\ DOMAIN members = 1..Len(rule.members)
        /\ rule \in Rules /\ next \in 1..Len(rule.members) + 1
    BY <1>1, <1>2 DEF PatchInv, MembersAre, Typed
  <2>2. Len(rule.members) \in Nat
    BY <2>1, PatchAssumption, IsSeqFacts
  <2> QED BY <1>2, <2>1, <2>2
<1> QED BY <1>1, <1>2, <1>3, <1>4 DEF ContentInv

LEMMA ContentStutter == ContentInv /\ UNCHANGED vars => ContentInv'
<1> SUFFICES ASSUME ContentInv, UNCHANGED vars PROVE ContentInv'
  OBVIOUS
<1>1. PatchInv'
  BY StutterInv DEF ContentInv
<1>2. /\ app' = app /\ rule' = rule /\ members' = members /\ at' = at
      /\ next' = next /\ looked' = looked /\ ops' = ops
  BY DEF vars
<1>3. HasContent => HasContent'
  BY <1>2, ContentSame DEF HasContent
<1> QED BY <1>1, <1>2, <1>3 DEF ContentInv

LEMMA ContentInvariance == Spec => []ContentInv
<1>1. ContentInv /\ [Next]_vars => ContentInv'
  BY ContentComplete, ContentInstrument, ContentDereference, ContentPatch, ContentStutter DEF Next
<1> QED BY ContentInit, <1>1, PTL DEF Spec

-----------------------------------------------------------------------------
(* The theorems.                                                             *)

LEMMA CreatedHas ==
  ASSUME ContentInv, at = "created"
  PROVE  \E x : ops = EmptyLists(app) \o x /\ Content(x)
BY DEF ContentInv, HasContent

(* The lists of the created pod but the mounts. *)
LEMMA CreatedLists ==
  ASSUME ContentInv, at = "created", NEW x, ops = EmptyLists(app) \o x, Content(x)
  PROVE  /\ \A list \in Lists \ {"mounts"} :
              ToSet(pod[list]) = ToSet(app[list]) \cup Added(x, list)
         /\ \A v \in ToSet(app.env) \cup ToSet(app.inits) : v.to = "none"
<1>1. PatchInv /\ Patches(x)
  BY DEF ContentInv, Content
<1>2. app \in Apps /\ \A list \in Lists \ {"mounts"} :
        ToSet(pod[list]) = ToSet(app[list]) \cup Added(x, list)
  BY <1>1, CreatedWith
<1>3. SendsNowhere(app.env) /\ SendsNowhere(app.inits)
  BY <1>2, PatchAssumption
<1> QED BY <1>2, <1>3 DEF SendsNowhere, ToSet

(* The patch of the only injection rule. *)
LEMMA CreatedAlone ==
  ASSUME ContentInv, at = "created", Len(members) = 1, NEW x, Content(x)
  PROVE  LET r == members[1]
         IN  /\ DOMAIN members = {1} /\ rule \in Rules /\ app \in Apps
             /\ IsCompleted(r, rule.members[1]) /\ ToSet(r.env) = UserVars
             /\ \E look \in LookupsOf(r) : IsSolePatch(x, look)
<1>1. PatchInv /\ next > 1
  BY DEF ContentInv
<1>2. /\ rule \in Rules /\ app \in Apps /\ next \in 1..Len(rule.members) + 1
      /\ Len(members) = Len(rule.members) /\ DOMAIN members = 1..Len(rule.members)
      /\ \A i \in DOMAIN members : IsCompleted(members[i], rule.members[i])
  BY <1>1 DEF PatchInv, Typed, MembersAre
<1>3. next = 2 /\ DOMAIN members = {1}
  <2>1. Len(rule.members) = 1
    BY <1>2
  <2>2. next \in 1..2 /\ DOMAIN members = 1..1
    BY <1>2, <2>1
  <2>3. next > 1
    BY <1>1
  <2> QED BY <2>2, <2>3
<1>4. ToSet(members) = {members[1]}
  BY <1>3 DEF ToSet
<1> QED BY <1>2, <1>3, <1>4 DEF Content, Sole, UserVars

(* What is left in a rule set tells the same, unless the user's own          *)
(* variables take over.                                                      *)
LEMMA ReducedTells ==
  ASSUME NEW u, IsChanges(u), NEW c, NEW own, Tells(u, c, own), NEW z, IsReduced(z, u),
         \A v \in own : v.name \notin TellingVars
  PROVE  Tells(z, c, own)
<1>1. /\ Added(z, "inits") = Added(u, "inits") /\ Added(z, "containers") = Added(u, "containers")
      /\ Added(z, "env") \subseteq Added(u, "env")
      /\ \A v \in Added(u, "env") : \E w \in Added(z, "env") : w.name = v.name
  BY ReducedAdds DEF Lists
<1>2. Endpoint(c) # "none" => Told(z, Endpoint(c), own)
  <2> SUFFICES ASSUME Endpoint(c) # "none" PROVE Told(z, Endpoint(c), own)
    OBVIOUS
  <2>1. CASE \E i \in Added(u, "inits") : i.to = Endpoint(c)
    BY <1>1, <2>1 DEF Told
  <2>2. CASE ~\E i \in Added(u, "inits") : i.to = Endpoint(c)
    <3>1. PICK name \in TellingVars :
            /\ \E v \in Added(u, "env") : v.name = name /\ v.to = Endpoint(c)
            /\ \A v \in Added(u, "env") : v.name = name => v.to = Endpoint(c) \/ v \in own
      BY <2>2 DEF Tells, Told
    <3>2. PICK w \in Added(z, "env") : w.name = name
      BY <1>1, <3>1
    <3>3. w \notin own /\ w \in Added(u, "env")
      BY <1>1, <3>1, <3>2
    <3>4. w.to = Endpoint(c)
      BY <3>1, <3>2, <3>3
    <3> QED BY <1>1, <3>1, <3>2, <3>4 DEF Told
  <2> QED BY <2>1, <2>2
<1> QED BY <1>1, <1>2 DEF Tells

(* What the only injection rule tells, if the lookups agree. *)
LEMMA SoleTells ==
  ASSUME ContentInv, at = "created", Len(members) = 1, looked # "changed",
         NEW x, Content(x), ~IsOverridden
  PROVE  \E c \in Collectors : /\ looked # Unset => c = looked
                             /\ Tells(x, Hears(members[1], c), UserVars)
<1> DEFINE r == members[1]
<1>1. /\ rule \in Rules /\ app \in Apps /\ IsCompleted(r, rule.members[1])
      /\ ToSet(r.env) = UserVars
      /\ \E look \in LookupsOf(r) : IsSolePatch(x, look)
  BY CreatedAlone
<1>2. PICK look \in LookupsOf(r) : IsSolePatch(x, look)
  BY <1>1
<1> DEFINE u == applyInjectionRule(app, r, look)
           c == look[1]
<1>3. /\ looked = FoundBy(r, look)
      /\ x = u \/ (rule.set /\ IsReduced(x, u))
  BY <1>2 DEF IsSolePatch
<1>4. IsSeq(r.env) /\ SendsNowhere(r.env) /\ IsSeq(app.mounts)
  BY <1>1, AppIs DEF IsCompleted
<1> HIDE DEF r
<1>5. c \in Collectors /\ Steady(look, c)
  BY <1>3, SteadyIs DEF FoundBy
<1>6. looked # Unset => c = looked
  BY <1>3 DEF FoundBy
<1>7. Tells(u, Hears(r, c), UserVars)
  BY <1>1, <1>4, <1>5, RuleTells
<1>8. IsChanges(u)
  <2>1. IsPod(app) /\ Mounted(app) \subseteq ToSet(app.volumes)
    BY <1>1, AppIs
  <2> QED BY <1>4, <2>1, RulePatch DEF Carries
<1>9. Tells(x, Hears(r, c), UserVars)
  <2> HIDE DEF u
  <2>1. rule.set => \A v \in UserVars : v.name \notin TellingVars
    BY DEF IsOverridden
  <2> QED BY <1>3, <1>7, <1>8, <2>1, ReducedTells
<1> QED BY <1>5, <1>6, <1>9 DEF r

(* An agent sends to a collector beside it only if there is one, whichever   *)
(* of the technologies, with their four ways to go about it, a rule or a     *)
(* rule set instruments the pod with; and a collector that is put beside one *)
(* agent is sent to.                                                         *)
THEOREM SidecarsAreUsed == Spec => []SidecarIsUsed
<1>1. ASSUME ContentInv PROVE SidecarIsUsed
  <2> SUFFICES ASSUME at = "created", looked # "changed"
               PROVE  /\ SendsToSidecar => HasSidecar
                      /\ HasSidecar /\ Len(members) = 1 /\ IsUnclaimed(app) /\ ~IsOverridden
                           => SendsToSidecar
    BY DEF SidecarIsUsed
  <2>1. PICK x : ops = EmptyLists(app) \o x /\ Content(x)
    BY <1>1, CreatedHas
  <2>2. /\ ToSet(pod.env) = ToSet(app.env) \cup Added(x, "env")
        /\ ToSet(pod.inits) = ToSet(app.inits) \cup Added(x, "inits")
        /\ ToSet(pod.containers) = ToSet(app.containers) \cup Added(x, "containers")
        /\ \A v \in ToSet(app.env) \cup ToSet(app.inits) : v.to = "none"
    BY <1>1, <2>1, CreatedLists DEF Lists
  <2>3. ASSUME SendsToSidecar PROVE HasSidecar
    <3>1. \E v \in Added(x, "env") \cup Added(x, "inits") : v.to = "sidecar"
      BY <2>2, <2>3 DEF SendsToSidecar
    <3>2. \E c \in Added(x, "containers") : c.name = SidecarName
      BY <2>1, <3>1 DEF Content, Sided
    <3> QED BY <2>2, <3>2 DEF HasSidecar
  <2>4. ASSUME HasSidecar, Len(members) = 1, IsUnclaimed(app), ~IsOverridden
        PROVE  SendsToSidecar
    <3>1. PICK c \in Collectors : Tells(x, Hears(members[1], c), UserVars)
      BY <1>1, <2>1, <2>4, SoleTells
    <3> DEFINE o == Hears(members[1], c)
    <3>2. PICK k \in ToSet(pod.containers) : k.name = SidecarName
      BY <2>4 DEF HasSidecar
    <3>3. k \notin ToSet(app.containers)
      <4> SUFFICES ASSUME k \in ToSet(app.containers) PROVE FALSE
        OBVIOUS
      <4>1. PICK i \in DOMAIN app.containers : app.containers[i] = k
        BY DEF ToSet
      <4>2. SidecarName \in ToSet(Names(app.containers))
        BY <3>2, <4>1 DEF ToSet, Names
      <4> QED BY <2>4, <4>2 DEF IsUnclaimed, SidecarNames
    <3>4. k \in Sidecars(o)
      BY <2>2, <3>1, <3>2, <3>3 DEF Tells
    <3> HIDE DEF o
    <3>5. Endpoint(o) = "sidecar"
      BY <3>4, EndpointIs DEF Sidecars
    <3>6. Told(x, "sidecar", UserVars)
      BY <3>1, <3>5 DEF Tells, o
    <3> QED BY <2>2, <3>6 DEF Told, SendsToSidecar
  <2> QED BY <2>3, <2>4
<1> QED BY <1>1, ContentInvariance, PTL

(* Whatever the technology, an agent whose collector is found and has a mode *)
(* is told where it is.                                                      *)
THEOREM AgentsAreTold == Spec => []CollectorIsTold
<1>1. ASSUME ContentInv PROVE CollectorIsTold
  <2> SUFFICES ASSUME at = "created", Len(members) = 1, members[1].technology \in Sending,
                      looked \notin {Unset, "none", "changed", "ownModeless", "mapModeless"},
                      ~IsOverridden
               PROVE  \/ \E v \in ToSet(pod.env)   : v.to = Endpoint(looked)
                      \/ \E c \in ToSet(pod.inits) : c.to = Endpoint(looked)
    BY DEF CollectorIsTold
  <2>1. PICK x : ops = EmptyLists(app) \o x /\ Content(x)
    BY <1>1, CreatedHas
  <2>2. /\ Added(x, "env") \subseteq ToSet(pod.env) /\ Added(x, "inits") \subseteq ToSet(pod.inits)
    BY <1>1, <2>1, CreatedLists DEF Lists
  <2>3. looked \in Collectors /\ Tells(x, Hears(members[1], looked), UserVars)
    BY <1>1, <2>1, SoleTells
  <2>4. Endpoint(looked) # "none"
    BY <2>3 DEF Collectors, OtherCollectors, Endpoint, IsSidecar, IsService
  <2>5. Told(x, Endpoint(looked), UserVars)
    BY <2>3, <2>4 DEF Tells, Hears
  <2> QED BY <2>2, <2>5 DEF Told
<1> QED BY <1>1, ContentInvariance, PTL

(* The pod's attributes are injected for a rule of the config map as the     *)
(* rule says, else its template, else if it has none: neither a layer of     *)
(* defaults, nor the patch, nor what is dropped from it loses the decision.  *)
THEOREM AttributesAreConfigured == Spec => []AttributesAsConfigured
<1>1. ASSUME ContentInv PROVE AttributesAsConfigured
  <2> DEFINE r == members[1]
             raw == rule.members[1]
  <2> SUFFICES ASSUME at = "created", rule.source = "configmap", Len(members) = 1,
                      r.technology \in {"java/appd", "apache/otel", "nginx/otel"},
                      \A v \in ToSet(app.env) \cup UserVars : v.name # "K8S_POD_IP"
               PROVE  (\E v \in ToSet(pod.env) : v.name = "K8S_POD_IP")
                        <=> applyTemplate(raw.attrs, IF Templated THEN raw.template.attrs = TRUE ELSE TRUE)
    BY DEF AttributesAsConfigured
  <2>1. PICK x : ops = EmptyLists(app) \o x /\ Content(x)
    BY <1>1, CreatedHas
  <2>2. ToSet(pod.env) = ToSet(app.env) \cup Added(x, "env")
    BY <1>1, <2>1, CreatedLists DEF Lists
  <2>3. /\ DOMAIN members = {1} /\ app \in Apps /\ IsCompleted(r, raw) /\ ToSet(r.env) = UserVars
        /\ \E look \in LookupsOf(r) : IsSolePatch(x, look)
    BY <1>1, <2>1, CreatedAlone
  <2>4. PICK look \in LookupsOf(r) : IsSolePatch(x, look)
    BY <2>3
  <2> DEFINE u == applyInjectionRule(app, r, look)
  <2>5. x = u \/ IsReduced(x, u)
    BY <2>4 DEF IsSolePatch
  <2>6. Templated <=> raw.template \notin {Unset, NotFound}
    BY <2>3 DEF Templated, ToSet, IsCompleted
  <2>7. r.attrs = applyTemplate(raw.attrs, IF Templated THEN raw.template.attrs = TRUE ELSE TRUE)
    BY <2>3, <2>6 DEF IsCompleted, AttrsOf
  <2>8. IsPod(app) /\ Mounted(app) \subseteq ToSet(app.volumes) /\ IsSeq(app.mounts) /\ IsSeq(r.env)
    BY <2>3, AppIs DEF IsCompleted
  <2> HIDE DEF r, raw
  <2>9. (\E v \in Added(u, "env") : v.name = "K8S_POD_IP") <=> r.attrs
    BY <2>3, <2>8, AttributesAdded
  <2>10. IsChanges(u)
    BY <2>8, RulePatch DEF Carries
  <2> HIDE DEF u
  <2>11. (\E v \in Added(x, "env") : v.name = "K8S_POD_IP")
           <=> (\E v \in Added(u, "env") : v.name = "K8S_POD_IP")
    BY <2>5, <2>10, ReducedAdds
  <2>12. (\E v \in ToSet(pod.env) : v.name = "K8S_POD_IP")
           <=> (\E v \in Added(x, "env") : v.name = "K8S_POD_IP")
    BY <2>2
  <2> QED BY <2>7, <2>9, <2>11, <2>12
<1> QED BY <1>1, ContentInvariance, PTL

(* What a variable of the created pod refers to is defined further up, for   *)
(* any number of members and whatever the users define in order, but for     *)
(* what a rule set supersedes and for templates.                             *)
THEOREM ReferencesAreResolved == Spec => []ReferencesResolve
<1>1. ASSUME ContentInv PROVE ReferencesResolve
  <2> SUFFICES ASSUME at = "created", IsClosed(app.env), Closed,
                      NEW k \in DOMAIN pod.env, NEW name \in pod.env[k].refs
               PROVE  \/ \E j \in 1..(k - 1) : pod.env[j].name = name
                      \/ /\ rule.set /\ MayRecur(name)
                         /\ \E j \in k..Len(pod.env) : pod.env[j].name = name
                      \/ Templated /\ pod.env[k] \in UserVars
    BY DEF ReferencesResolve, Closed, MayRecur
  <2>1. PICK x : ops = EmptyLists(app) \o x /\ Content(x)
    BY <1>1, CreatedHas
  <2>2. PatchInv /\ Patches(x) /\ Referring(x)
    BY <1>1, <2>1 DEF ContentInv, Content
  <2> DEFINE d == Prepared(app)
  <2>3. /\ app \in Apps /\ IsDoc(d) /\ d.lists = app /\ IsChanges(x)
        /\ applyPatch(d, x).ok /\ pod = applyPatch(d, x).lists
    BY <2>1, <2>2, CreatedFrom
  <2> HIDE DEF d
  <2>4. Follows(app.env, pod.env, x, Len(x))
    BY <2>3, ChangesFollow
  <2>5. IsSeq(app.env) /\ IsSeq(pod.env)
    BY <2>1, <2>2, CreatedWith DEF Lists
  <2>6. /\ DOMAIN app.env = 1..Len(app.env) /\ Len(app.env) \in Nat
        /\ DOMAIN pod.env = 1..Len(pod.env) /\ Len(pod.env) \in Nat
        /\ DOMAIN x = 1..Len(x) /\ Len(x) \in Nat
    BY <2>3, <2>5, IsSeqFacts DEF IsChanges
  <2>7. CASE k <= Len(app.env)
    <3>1. k \in 1..Len(app.env) /\ pod.env[k] = app.env[k]
      BY <2>4, <2>6, <2>7 DEF Follows, Keeps
    <3>2. PICK j \in 1..(k - 1) : app.env[j].name = name
      BY <2>6, <3>1 DEF IsClosed
    <3>3. j \in 1..Len(app.env)
      BY <2>6, <2>7, <3>2
    <3>4. pod.env[j] = app.env[j]
      BY <2>4, <3>3 DEF Follows, Keeps
    <3> QED BY <3>2, <3>4
  <2>8. CASE ~(k <= Len(app.env))
    <3>1. PICK i \in DOMAIN x :
            /\ IsVariable(x[i]) /\ pod.env[k] = x[i].value
            /\ \A j \in DOMAIN x : IsVariable(x[j]) =>
                 /\ j < i => \E l \in DOMAIN pod.env : l < k /\ pod.env[l] = x[j].value
                 /\ i <= j => \E l \in DOMAIN pod.env : k <= l /\ pod.env[l] = x[j].value
      <4>1. k > Len(app.env)
        BY <2>6, <2>8
      <4>2. PICK i \in 1..Len(x) :
              /\ IsVariable(x[i]) /\ pod.env[k] = x[i].value
              /\ \A j \in 1..Len(x) : IsVariable(x[j]) =>
                   /\ j < i => \E l \in DOMAIN pod.env : l < k /\ pod.env[l] = x[j].value
                   /\ i <= j => \E l \in DOMAIN pod.env : k <= l /\ pod.env[l] = x[j].value
        BY <2>4, <4>1 DEF Follows
      <4> QED BY <2>6, <4>2
    <3>2. \/ \E j \in DOMAIN x : j < i /\ Defines(x, j, name)
          \/ rule.set /\ MayRecur(name) /\ \E j \in DOMAIN x : i <= j /\ Defines(x, j, name)
          \/ Templated /\ x[i].value \in UserVars
      BY <2>2, <3>1 DEF Referring
    <3>3. CASE \E j \in DOMAIN x : j < i /\ Defines(x, j, name)
      <4>1. PICK l \in DOMAIN pod.env : l < k /\ pod.env[l].name = name
        BY <3>1, <3>3 DEF Defines
      <4>2. l \in 1..(k - 1)
        BY <2>6, <4>1
      <4> QED BY <4>1, <4>2
    <3>4. CASE rule.set /\ MayRecur(name) /\ \E j \in DOMAIN x : i <= j /\ Defines(x, j, name)
      <4>1. PICK l \in DOMAIN pod.env : k <= l /\ pod.env[l].name = name
        BY <3>1, <3>4 DEF Defines
      <4>2. l \in k..Len(pod.env)
        BY <2>6, <4>1
      <4> QED BY <3>4, <4>1, <4>2
    <3> QED BY <3>1, <3>2, <3>3, <3>4
  <2> QED BY <2>6, <2>7, <2>8
<1> QED BY <1>1, ContentInvariance, PTL

(* The volumes, init containers and containers of a created pod have         *)
(* different names, with any number of agents and whatever volumes the       *)
(* specs of collectors bring, but for the cases that the property excepts.   *)
THEOREM NamesStayDistinct == Spec => []NamesAreDistinct
<1>1. ASSUME ContentInv PROVE NamesAreDistinct
  <2> SUFFICES ASSUME at = "created", IsUnclaimed(app), SidecarsFit, AgentsDiffer
               PROVE  /\ IsInjective(pod.volumes)
                      /\ IsInjective(Names(pod.inits))
                      /\ IsInjective(Names(pod.containers))
    BY DEF NamesAreDistinct, AgentsDiffer
  <2>1. PICK x : ops = EmptyLists(app) \o x /\ Content(x)
    BY <1>1, CreatedHas
  <2>2. PatchInv /\ Patches(x) /\ Named(x, next)
    BY <1>1, <2>1 DEF ContentInv, Content
  <2>3. applyPatch(Prepared(app), x).ok /\ pod = applyPatch(Prepared(app), x).lists
    BY <2>1, <2>2, CreatedFrom
  <2>4. Distinct(pod, Taken(next))
    <3>1. Added(x, "containers") \subseteq ToSet(pod.containers)
      BY <1>1, <2>1, CreatedLists DEF Lists
    <3>2. Fits(x)
      BY <3>1 DEF SidecarsFit, Fits
    <3> QED BY <2>2, <2>3, <3>2 DEF Named
  <2>5. /\ \A i, j \in DOMAIN pod.volumes : pod.volumes[i] = pod.volumes[j] => i = j
        /\ \A i, j \in DOMAIN pod.inits : pod.inits[i].name = pod.inits[j].name => i = j
        /\ \A i, j \in DOMAIN pod.containers :
             pod.containers[i].name = pod.containers[j].name => i = j
    BY <2>4 DEF Distinct, NamedLists, NameIn
  <2> QED BY <2>5 DEF IsInjective, Names
<1> QED BY <1>1, ContentInvariance, PTL

(* The application's mounts are left alone and stay in front, but for the    *)
(* configuration of the web server, which is the mount that is dropped.      *)
THEOREM MountsStay == Spec => []MountsAreKept
<1>1. ASSUME ContentInv PROVE MountsAreKept
  <2> SUFFICES ASSUME at = "created", Cardinality(PassedMounts) <= 1,
                      Cardinality(Webservers) <= 1
               PROVE  /\ PassedMounts = {} => IsPrefix(app.mounts, pod.mounts)
                      /\ \A i \in PassedMounts : IsPrefix(RemoveAt(app.mounts, i), pod.mounts)
    BY DEF MountsAreKept
  <2> DEFINE d == Prepared(app)
  <2>1. PICK x : ops = EmptyLists(app) \o x /\ Content(x)
    BY <1>1, CreatedHas
  <2>2. PatchInv /\ next > Len(members) /\ Patches(x) /\ Mounting(x, next)
    BY <1>1, <2>1 DEF ContentInv, Content
  <2>3. /\ app \in Apps /\ pod = applyPatch(d, x).lists /\ d.ok
        /\ IsDoc(applyPatch(d, x))
    BY <2>1, <2>2, CreatedFrom DEF Grows
  <2>4. IsSeq(pod.mounts) /\ IsSeq(app.mounts)
    BY <2>3, AppIs, DocFacts DEF Lists
  <2>5. app.volumes # <<>>
    BY <2>3, AppIs, PreparedIs
  <2>6. IF \E i \in Webservers : i < next THEN AreKept(pod.mounts)
                                          ELSE Keeps(app.mounts, pod.mounts)
    BY <2>2, <2>3, <2>5 DEF Mounting
  <2>7. \A i \in Webservers : i < next
    <3>1. /\ Len(members) = Len(rule.members) /\ DOMAIN members = 1..Len(rule.members)
          /\ rule \in Rules /\ next \in 1..Len(rule.members) + 1
      BY <2>2 DEF PatchInv, MembersAre, Typed
    <3>2. Len(rule.members) \in Nat
      BY <3>1, PatchAssumption, IsSeqFacts
    <3> QED BY <2>2, <3>1, <3>2 DEF Webservers
  <2>8. Webservers = {} => PassedMounts = {}
    BY DEF PassedMounts, IsConfig
  <2>9. AreKept(pod.mounts)
    BY <2>6, <2>7, <2>8 DEF AreKept
  <2>10. \A i \in PassedMounts : IsSeq(RemoveAt(app.mounts, i))
    BY <2>4, RemoveLeaves DEF PassedMounts
  <2> QED BY <2>4, <2>9, <2>10, KeepsIsPrefix DEF AreKept
<1> QED BY <1>1, ContentInvariance, PTL
=============================================================================
