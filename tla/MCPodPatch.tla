----------------------------- MODULE MCPodPatch -----------------------------
(* Small instances of PodPatch for TLC. *)
EXTENDS PodPatch

CONSTANT ownSidecar

(* Of what it mounts it brings one volume, and another is not there; it also *)
(* brings one that most of the pods below have as well.                      *)
OneSidecar == {ownSidecar}
ItsMounts  == ownSidecar :> <<"buffer", "absent">>
ItsVolumes == ownSidecar :> <<"buffer", "data">>

Data       == Mount("data", "data")
ApacheConf == Mount("conf", "apache")
NginxConf  == Mount("conf", "nginx")

App(env, mounts, volumes) ==
  [env |-> env, mounts |-> mounts, volumes |-> volumes, inits |-> <<>>,
   containers |-> <<Container(AppContainer, <<>>, "none")>>]

(* Nothing but a container; volumes that are not mounted; configuration of   *)
(* both web servers around data, a variable and an init container; more      *)
(* mounts of configuration than one.                                         *)
BarePod    == App(<<>>, <<>>, <<>>)
VolumePod  == App(<<>>, <<>>, <<"data">>)
DataPod    == [App(<<Var(Attributes)>>, <<ApacheConf, Data, NginxConf>>, <<"data", "conf">>)
                 EXCEPT !.inits = <<Container("prepare", <<"data">>, "none")>>]
TwoConfPod == App(<<>>, <<ApacheConf, Data, ApacheConf>>, <<"data", "conf">>)
AllConfPod == App(<<>>, [i \in 1..4 |-> ApacheConf], <<"conf">>)

AnyApp  == {BarePod, VolumePod, DataPod, TwoConfPod, AllConfPod}
TwoConf == {TwoConfPod}

Technologies == Instrumented \cup {"apache/appd", "cobol/appd"}

Option(attrs, reservation, collector, env) ==
  [attrs |-> attrs, reservation |-> reservation, collector |-> collector, env |-> env]

(* The second refers to the first. *)
Greetings == <<Var("NAME"), VarWith("GREETING", {"NAME"})>>
Redefined == <<Var(Attributes)>>
Extended  == <<Var("PATH"), VarWith("PATH", {"PATH"}), Var("OTEL_EXPORTER_OTLP_ENDPOINT")>>

Templates == {Option(Unset, Unset, Unset, Greetings), Option(TRUE, "mine", "coll", <<>>),
              Option(FALSE, Unset, "coll", <<Var("NAME")>>)}

InjectionRule(technology, template, o) ==
  [technology |-> technology, template |-> template] @@ o

Given == {Option(attrs, "mine", collector, <<>>) :
            attrs \in {Unset, TRUE, FALSE}, collector \in {Unset, "coll"}}
           \cup {Option(Unset, Unset, collector, <<>>) : collector \in {Unset, "coll"}}
           \cup {Option(TRUE, "mine", collector, env) :
                   collector \in {Unset, "coll"}, env \in {Greetings, Redefined, Extended}}

(* What a rule says itself that names a template. *)
Sparse == {Option(attrs, Unset, Unset, <<>>) : attrs \in {Unset, TRUE, FALSE}}
            \cup {Option(Unset, Unset, "coll", env) : env \in {Greetings, Redefined}}

Alone(technologies, templates, options) ==
  {<<InjectionRule(t, template, o)>> :
     t \in technologies, template \in templates, o \in options}

Incomplete == Option(Unset, Unset, Unset, <<>>)
Whole      == Option(TRUE, "mine", Unset, <<>>)
Collecting == Option(TRUE, "mine", "coll", <<>>)

Pair(t, o, u, q) == <<InjectionRule(t, Unset, o), InjectionRule(u, Unset, q)>>

(* The first may name a collector; two that both do. *)
Pairs(technologies, o) ==
  {Pair(t, first, u, o) : t \in technologies, u \in technologies,
                          first \in {Incomplete, Whole, Collecting}}
TwoCollectors == {Pair(t, Collecting, u, Collecting) :
                    t \in {"java/otel", "apache/otel"}, u \in {"nodejs/otel"}}

Rule(source, set, m) == [source |-> source, set |-> set, members |-> m]

(* The schema of the custom resources does not know all technologies.        *)
InSchema == Technologies \ {"java/splunk", "cobol/appd"}

AnyRule ==
  {Rule("configmap", set, m) :
     set \in BOOLEAN, m \in Alone(Technologies, {Unset}, Given)
                         \cup Alone(Technologies, Templates \cup {NotFound}, Sparse)}
    \cup {Rule("cr", set, m) : set \in BOOLEAN, m \in Alone(InSchema, {Unset}, Given)}
    \cup {Rule("configmap", TRUE, m) : m \in Pairs(Instrumented, Whole) \cup TwoCollectors}
    \cup {Rule("cr", TRUE, m) : m \in Pairs(Instrumented \cap InSchema, Incomplete)}
    \cup {Rule("configmap", FALSE, <<>>)}

ApacheRule == {Rule("configmap", FALSE,
                    <<InjectionRule("apache/otel", Unset, Option(Unset, Unset, "coll", <<>>))>>)}
=============================================================================
