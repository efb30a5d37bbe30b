---------------------------- MODULE OtelCollectors ----------------------------
(***************************************************************************)
(* The OpenTelemetryCollector objects of one namespace: the maps in which  *)
(* the process registers them for pod admission (otelCollSidecar.go), and  *)
(* the Deployments and Services the reconciler runs for them               *)
(* (crdReconciler.go, reconcileOtelColCrd).                                *)
(*                                                                         *)
(* Unlike the rules, the maps have no mutex.  An HTTP handler and the      *)
(* reconciler look the namespace's map up, may create it, and store into   *)
(* what they hold: each is a step of its own here.  (When the Go runtime   *)
(* notices two writers at once it ends the process: that is a Crash.)      *)
(*                                                                         *)
(* The API server, the informers, the work queue and the garbage collector *)
(* are external.                                                           *)
(***************************************************************************)
EXTENDS Integers, Sequences

CONSTANTS
  Names,        \* the collectors there may be
  Modes,        \* those that users ask for, see ModeKinds
  Configs,      \* what a Deployment is built from: configuration, image, ...
  Requests,     \* create calls the API server handles at one time
  Reconciler,   \* the controller's one worker
  NoObject,     \* stands for "there is none"
  MaxWrites,    \* bound on creates, updates and deletions by users
  MaxCrashes,   \* bound on ends of the process
  MaxFailures   \* bound on failing calls of the Kubernetes API

(* The schema of the objects allows two modes, or none, which is handled     *)
(* like "deployment".                                                        *)
ModeKinds == {"deployment", "sidecar", "none"}

ASSUME CollectorsAssumption ==
  /\ Modes \subseteq ModeKinds
  /\ Reconciler \notin Requests
  /\ MaxWrites \in Nat
  /\ MaxCrashes \in Nat
  /\ MaxFailures \in Nat

VARIABLES
  store,        \* the API server: the object of each name, or NoObject
  deployment,   \* the Deployment made for each name
  service,      \* the Service made for each name
  watch,        \* events of each object not yet delivered to the informer
  owned,        \* names whose Deployment or Service had an event not yet delivered
  synced,       \* the informers have listed
  cache,        \* the informer's copy of the objects
  queue,        \* names in the work queue
  actor,        \* what each create call and the reconciler are doing
  outer,        \* otelCollsConfigNamespaced[namespace]: whose map it is
  inner,        \* the maps, each by the actor that made it
  writes, crashes, failures

apiVars      == <<store, watch>>
clusterVars  == <<deployment, service, owned>>
informerVars == <<synced, cache, queue>>
mapVars      == <<outer, inner>>
bounds       == <<writes, crashes, failures>>
vars         == <<store, deployment, service, watch, owned, synced, cache, queue,
                  actor, outer, inner, writes, crashes, failures>>

-----------------------------------------------------------------------------
Actors == Requests \cup {Reconciler}

(* uid identifies the object through updates: 0 before it is persisted. *)
Objects     == [mode : Modes, config : Configs, uid : Nat, deleting : BOOLEAN]
Deployments == [config : Configs, owner : Nat]
Services    == [owner : Nat]
Entries     == [mode : Modes, config : Configs]
Maps        == [Names -> Entries \cup {NoObject}]

NoMap == NoObject

ASSUME NoObjectAssumption == NoObject \notin Actors \cup Maps

Idle  == [at |-> "idle"]
Steps == {"deployment", "writeDeployment", "service", "writeService",
          "lookup", "create", "store", "persist"}

(* `seen' is what the step before has read: the Deployment, the Service, or  *)
(* whose map is the namespace's.                                            *)
Calls == [at : Steps, name : Names, object : Objects \cup {NoObject},
          seen : Deployments \cup Services \cup Actors \cup {NoObject}]

Busy(at, k, object, seen) ==
  [at |-> at, name |-> k, object |-> object, seen |-> seen]

Gone(object) == IF object = NoObject THEN TRUE ELSE object.deleting

(* Mutant of Entry: what is registered is the object itself. *)
EntryWithMetadata(object) == IF Gone(object) THEN NoObject ELSE object

(* What is registered of an object. *)
Entry(object) == IF Gone(object) THEN NoObject
                 ELSE [mode |-> object.mode, config |-> object.config]

(* Mutant of OwnerOf: the owner reference is missing. *)
OwnerMissing(object) == 0

(* controllerutil.SetControllerReference *)
OwnerOf(object) == object.uid

EmptyMap == [k \in Names |-> NoObject]

Init ==
  /\ store = [k \in Names |-> NoObject]
  /\ deployment = [k \in Names |-> NoObject]
  /\ service = [k \in Names |-> NoObject]
  /\ watch = [k \in Names |-> <<>>]
  /\ owned = {}
  /\ synced = FALSE
  /\ cache = [k \in Names |-> NoObject]
  /\ queue = {}
  /\ actor = [a \in Actors |-> Idle]
  /\ outer = NoMap
  /\ inner = [a \in Actors |-> NoMap]
  /\ writes = 0 /\ crashes = 0 /\ failures = 0

Go(a, at) == actor' = [actor EXCEPT ![a].at = at]
Rest(a)   == actor' = [actor EXCEPT ![a] = Idle]

-----------------------------------------------------------------------------
(* The API server and its users.                                            *)

Commit(k, object) ==
  /\ store' = [store EXCEPT ![k] = object]
  /\ watch' = [watch EXCEPT ![k] = IF synced THEN Append(@, object) ELSE @]

UserWrites == writes < MaxWrites /\ writes' = writes + 1

(* A user creates an object; the API server calls /validate first.  Names   *)
(* in use and dry runs, which leave no object, are RuleRegistry's subject.  *)
Create(r, k, mode, config) ==
  /\ UserWrites
  /\ actor[r] = Idle
  /\ store[k] = NoObject
  /\ \A q \in Requests : actor[q] # Idle => actor[q].name # k
  /\ actor' = [actor EXCEPT ![r] =
       Busy("lookup", k, [mode |-> mode, config |-> config,
                          uid |-> writes + 1, deleting |-> FALSE], NoMap)]
  /\ UNCHANGED <<apiVars, clusterVars, informerVars, mapVars, crashes, failures>>

(* The call of /validate fails, and does not run: failurePolicy is Ignore.   *)
(* (RuleRegistry has the call that times out and runs all the same, "late".) *)
Ignore(r) ==
  /\ actor[r].at = "lookup"
  /\ Go(r, "persist")
  /\ UNCHANGED <<apiVars, clusterVars, informerVars, mapVars, bounds>>

(* The object is persisted. *)
Persist(r) ==
  /\ actor[r].at = "persist"
  /\ Commit(actor[r].name, actor[r].object)
  /\ Rest(r)
  /\ UNCHANGED <<clusterVars, informerVars, mapVars, bounds>>

Update(k, mode, config) ==
  /\ UserWrites
  /\ store[k] # NoObject
  /\ Commit(k, [store[k] EXCEPT !.mode = mode, !.config = config])
  /\ UNCHANGED <<clusterVars, informerVars, actor, mapVars, crashes, failures>>

(* A user deletes an object that has a finalizer. *)
MarkDeleting(k) ==
  /\ UserWrites
  /\ ~Gone(store[k])
  /\ Commit(k, [store[k] EXCEPT !.deleting = TRUE])
  /\ UNCHANGED <<clusterVars, informerVars, actor, mapVars, crashes, failures>>

Delete(k) ==
  /\ store[k] # NoObject
  /\ Commit(k, NoObject)
  /\ UNCHANGED <<clusterVars, informerVars, actor, mapVars, bounds>>

(* Mutant of Tell: the controller does not watch what it owns. *)
TellNobody(k) == owned' = owned

(* An event of a Deployment or Service is on its way to the reconciler of   *)
(* its owner.                                                               *)
Tell(k) == owned' = IF synced THEN owned \cup {k} ELSE owned

Ownerless(k, dependent) ==
  /\ dependent # NoObject
  /\ dependent.owner # 0
  /\ store[k] # NoObject => store[k].uid # dependent.owner

(* The garbage collector removes what belongs to an object that has gone,   *)
(* even if there is another one of that name by now.                        *)
Collect(k) ==
  /\ \/ /\ Ownerless(k, deployment[k])
        /\ deployment' = [deployment EXCEPT ![k] = NoObject]
        /\ UNCHANGED service
     \/ /\ Ownerless(k, service[k])
        /\ service' = [service EXCEPT ![k] = NoObject]
        /\ UNCHANGED deployment
  /\ Tell(k)
  /\ UNCHANGED <<apiVars, informerVars, actor, mapVars, bounds>>

-----------------------------------------------------------------------------
(* The informers and the work queue.                                        *)

(* The first list: every object is queued, and the owner of every           *)
(* Deployment and Service.                                                  *)
List ==
  /\ ~synced
  /\ synced' = TRUE
  /\ cache' = store
  /\ queue' = {k \in Names : store[k] # NoObject \/ deployment[k] # NoObject
                                \/ service[k] # NoObject}
  /\ UNCHANGED <<apiVars, clusterVars, actor, mapVars, bounds>>

Deliver(k) ==
  /\ watch[k] # <<>>
  /\ cache' = [cache EXCEPT ![k] = Head(watch[k])]
  /\ watch' = [watch EXCEPT ![k] = Tail(@)]
  /\ queue' = queue \cup {k}
  /\ UNCHANGED <<store, clusterVars, synced, actor, mapVars, bounds>>

DeliverOwned(k) ==
  /\ k \in owned
  /\ owned' = owned \ {k}
  /\ queue' = queue \cup {k}
  /\ UNCHANGED <<apiVars, deployment, service, synced, cache, actor, mapVars, bounds>>

-----------------------------------------------------------------------------
(* registerNamespaced(Sidecar|Standalone)Collector, and                     *)
(* unregisterNamespacedCollector when there is no object to register: of    *)
(* the reconciler and, before the object is persisted, of /validate.        *)

(* What is left to do once the maps have been written. *)
Done(a) == IF a = Reconciler THEN Rest(a) ELSE Go(a, "persist")

(* collectors, found = otelCollsConfigNamespaced[namespace].  (A call before *)
(* the first list is RuleRegistry's "early".)                                *)
Lookup(a) ==
  /\ actor[a].at = "lookup"
  /\ synced
  /\ IF outer # NoMap
       THEN actor' = [actor EXCEPT ![a].at = "store", ![a].seen = outer]
       ELSE IF Gone(actor[a].object) THEN Done(a) ELSE Go(a, "create")
  /\ UNCHANGED <<apiVars, clusterVars, informerVars, mapVars, bounds>>

(* The namespace had no map. *)
CreateMap(a) ==
  /\ actor[a].at = "create"
  /\ inner' = [inner EXCEPT ![a] = EmptyMap]
  /\ outer' = a
  /\ actor' = [actor EXCEPT ![a].at = "store", ![a].seen = a]
  /\ UNCHANGED <<apiVars, clusterVars, informerVars, bounds>>

(* The entry is written to, or deleted from, the map the actor holds, which *)
(* becomes the namespace's.                                                 *)
Store(a) ==
  /\ actor[a].at = "store"
  /\ LET map == actor[a].seen
     IN  /\ inner' = [inner EXCEPT ![map][actor[a].name] = Entry(actor[a].object)]
         /\ outer' = map
  /\ Done(a)
  /\ UNCHANGED <<apiVars, clusterVars, informerVars, bounds>>

-----------------------------------------------------------------------------
(* reconcileOtelColCrd.Reconcile                                             *)

(* Mutant of Get: an object that is not found is left alone, as if only the  *)
(* deletion timestamp told of a deletion.                                    *)
GetSkipsMissing ==
  /\ synced
  /\ actor[Reconciler] = Idle
  /\ \E k \in queue :
       /\ queue' = queue \ {k}
       /\ LET object == cache[k]
              standalone == ~Gone(object) /\ object.mode # "sidecar"
          IN  actor' = IF object = NoObject THEN actor
                ELSE [actor EXCEPT ![Reconciler] =
                Busy(IF standalone THEN "deployment" ELSE "lookup", k, object, NoMap)]
  /\ UNCHANGED <<apiVars, clusterVars, synced, cache, mapVars, bounds>>

(* The worker takes a name and reads the object from the cache. *)
Get ==
  /\ synced
  /\ actor[Reconciler] = Idle
  /\ \E k \in queue :
       /\ queue' = queue \ {k}
       /\ LET object == cache[k]
              standalone == ~Gone(object) /\ object.mode # "sidecar"
          IN  actor' = [actor EXCEPT ![Reconciler] =
                Busy(IF standalone THEN "deployment" ELSE "lookup", k, object, NoMap)]
  /\ UNCHANGED <<apiVars, clusterVars, synced, cache, mapVars, bounds>>

Fails == failures < MaxFailures /\ failures' = failures + 1

(* upsertOtelCollector reads the Deployment, then the Service, from the API  *)
(* server.  An error other than "not found" ends the reconcile; Reconcile    *)
(* drops it.                                                                 *)
GetDeployment ==
  /\ actor[Reconciler].at = "deployment"
  /\ \/ /\ actor' = [actor EXCEPT ![Reconciler].at = "writeDeployment",
                                  ![Reconciler].seen = deployment[actor[Reconciler].name]]
        /\ UNCHANGED failures
     \/ Fails /\ Rest(Reconciler)
  /\ UNCHANGED <<apiVars, clusterVars, informerVars, mapVars, writes, crashes>>

GetService ==
  /\ actor[Reconciler].at = "service"
  /\ \/ /\ actor' = [actor EXCEPT ![Reconciler].at = "writeService",
                                  ![Reconciler].seen = service[actor[Reconciler].name]]
        /\ UNCHANGED failures
     \/ Fails /\ Rest(Reconciler)
  /\ UNCHANGED <<apiVars, clusterVars, informerVars, mapVars, writes, crashes>>

(* Create if the Get found none, otherwise update, unless a dry run shows    *)
(* that this would change nothing of the spec (a dry run that fails shows    *)
(* nothing).  What is no longer there cannot be updated.  An error is logged *)
(* and the reconcile goes on.  Events tell of a new spec, not a new owner.   *)
WriteDeployment ==
  /\ actor[Reconciler].at = "writeDeployment"
  /\ LET k      == actor[Reconciler].name
         seen   == actor[Reconciler].seen
         wanted == [config |-> actor[Reconciler].object.config,
                    owner  |-> OwnerOf(actor[Reconciler].object)]
         changes == IF seen = NoObject THEN deployment[k] = NoObject
                    ELSE deployment[k] # NoObject /\ seen.config # wanted.config
     IN  \/ /\ changes
            /\ deployment' = [deployment EXCEPT ![k] = wanted]
            /\ Tell(k)
            /\ UNCHANGED failures
         \/ ~changes /\ UNCHANGED <<deployment, owned, failures>>
         \/ /\ Fails
            /\ ~changes /\ seen # NoObject /\ deployment[k] # NoObject
            /\ deployment' = [deployment EXCEPT ![k] = wanted]
            /\ UNCHANGED owned
         \/ Fails /\ UNCHANGED <<deployment, owned>>
  /\ Go(Reconciler, "service")
  /\ UNCHANGED <<apiVars, service, informerVars, mapVars, writes, crashes>>

(* The same for the Service, whose spec is the same for all objects: it is    *)
(* updated only after a dry run that fails.                                  *)
WriteService ==
  /\ actor[Reconciler].at = "writeService"
  /\ LET k == actor[Reconciler].name
         seen    == actor[Reconciler].seen
         creates == seen = NoObject /\ service[k] = NoObject
         made    == [service EXCEPT ![k] = [owner |-> OwnerOf(actor[Reconciler].object)]]
     IN  \/ creates /\ service' = made /\ Tell(k) /\ UNCHANGED failures
         \/ ~creates /\ UNCHANGED <<service, owned, failures>>
         \/ /\ Fails
            /\ seen # NoObject /\ service[k] # NoObject
            /\ service' = made
            /\ UNCHANGED owned
         \/ Fails /\ UNCHANGED <<service, owned>>
  /\ Go(Reconciler, "lookup")
  /\ UNCHANGED <<apiVars, deployment, informerVars, mapVars, writes, crashes>>

-----------------------------------------------------------------------------
(* The process ends and starts again with empty maps; a call that waited     *)
(* for /validate goes on without it.                                         *)
Crash ==
  /\ crashes < MaxCrashes
  /\ crashes' = crashes + 1
  /\ synced' = FALSE
  /\ cache' = [k \in Names |-> NoObject]
  /\ queue' = {}
  /\ watch' = [k \in Names |-> <<>>]
  /\ owned' = {}
  /\ outer' = NoMap
  /\ inner' = [a \in Actors |-> NoMap]
  /\ actor' = [a \in Actors |-> IF a = Reconciler \/ actor[a] = Idle THEN Idle
                                ELSE [actor[a] EXCEPT !.at = "persist", !.seen = NoMap]]
  /\ UNCHANGED <<store, deployment, service, writes, failures>>

Register(a) == Lookup(a) \/ CreateMap(a) \/ Store(a)

Reconcile == \/ Get \/ Register(Reconciler)
             \/ GetDeployment \/ WriteDeployment \/ GetService \/ WriteService

User ==
  \/ \E r \in Requests, k \in Names, m \in Modes, c \in Configs : Create(r, k, m, c)
  \/ \E k \in Names, m \in Modes, c \in Configs : Update(k, m, c)
  \/ \E k \in Names : MarkDeleting(k) \/ Delete(k)

Next ==
  \/ User \/ Crash
  \/ \E r \in Requests : Ignore(r) \/ Register(r) \/ Persist(r)
  \/ List \/ Reconcile
  \/ \E k \in Names : Deliver(k) \/ DeliverOwned(k) \/ Collect(k)

(* Handlers and the worker get the processor, the API server answers, its    *)
(* watches and its garbage collector go on.  Nothing is assumed of users,    *)
(* crashes and failing calls.                                                *)
Fairness ==
  /\ \A r \in Requests : WF_vars(Register(r)) /\ WF_vars(Persist(r))
  /\ WF_vars(List) /\ WF_vars(Reconcile)
  /\ \A k \in Names : /\ WF_vars(Deliver(k)) /\ WF_vars(DeliverOwned(k))
                      /\ WF_vars(Collect(k))

Spec == Init /\ [][Next]_vars
FairSpec == Spec /\ Fairness

-----------------------------------------------------------------------------
(* Properties.                                                               *)

CollectorsTypeOK ==
  /\ store      \in [Names -> Objects \cup {NoObject}]
  /\ deployment \in [Names -> Deployments \cup {NoObject}]
  /\ service    \in [Names -> Services \cup {NoObject}]
  /\ watch      \in [Names -> Seq(Objects \cup {NoObject})]
  /\ owned      \subseteq Names
  /\ synced     \in BOOLEAN
  /\ cache      \in [Names -> Objects \cup {NoObject}]
  /\ queue      \subseteq Names
  /\ actor      \in [Actors -> {Idle} \cup Calls]
  /\ outer      \in Actors \cup {NoMap}
  /\ inner      \in [Actors -> Maps \cup {NoMap}]
  /\ writes \in 0..MaxWrites
  /\ crashes \in 0..MaxCrashes
  /\ failures \in 0..MaxFailures

(* What a pod of the namespace finds (getCollectorConfigsByName).            *)
Registered(k) == IF outer = NoMap THEN NoObject ELSE inner[outer][k]

(* Two actors found no map and each made one: one of the two is lost.        *)
Split == \E a, b \in Actors : a # b /\ inner[a] # NoMap /\ inner[b] # NoMap

CorrectionPending(k) ==
  \/ ~synced
  \/ watch[k] # <<>>
  \/ k \in queue
  \/ \E a \in Actors : actor[a] # Idle /\ actor[a].name = k

Standalone(k) == ~Gone(store[k]) /\ store[k].mode # "sidecar"

(* Although nothing guards the maps, a registration is wrong for good only   *)
(* if two actors have both made the namespace's map, or, for a collector     *)
(* that is not a sidecar, if a call of the API has failed on the way to it:  *)
(* any other that differs from its object is about to be corrected.          *)
NoStaleRegistrationIsFinal ==
  Split \/ \A k \in Names :
    \/ Registered(k) = Entry(store[k])
    \/ CorrectionPending(k)
    \/ failures > 0 /\ Standalone(k)

Runs(k) ==
  /\ deployment[k] = [config |-> store[k].config, owner |-> store[k].uid]
  /\ service[k]    = [owner |-> store[k].uid]

(* If no call of the API fails, every collector that is not a sidecar comes  *)
(* to run as its object says, also one deleted and created again under the   *)
(* same name while what it had before is still to be collected: the          *)
(* reconciler leaves that alone and has to be told when it goes.             *)
CollectorsComeUp ==
  <>[](failures > 0 \/ \A k \in Names : Standalone(k) => Runs(k))

(* README.md: "When you delete the OpenTelemetryCollector resource,          *)
(* collector will be also deleted": whatever a reconcile that was under way, *)
(* with an old copy of the object, still creates.                            *)
DeletedCollectorsGoAway ==
  <>[](\A k \in Names : store[k] = NoObject =>
                            deployment[k] = NoObject /\ service[k] = NoObject)
=============================================================================
