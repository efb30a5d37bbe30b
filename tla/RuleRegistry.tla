----------------------------- MODULE RuleRegistry -----------------------------
(***************************************************************************)
(* How the process keeps its in-memory instrumentation rules in step with  *)
(* the Instrumentation and ClusterInstrumentation objects of the cluster.  *)
(*                                                                         *)
(* Two writers feed the registry:                                          *)
(*   - the /validate webhook, called by the API server for each CREATE     *)
(*     before the object is persisted (main.go, handleInstrumentationCRDs) *)
(*   - two controllers, one per kind, each with an informer cache, a work  *)
(*     queue and one worker (crdReconciler.go).                            *)
(*                                                                         *)
(* The API server, the watch stream, the informer and the work queue are   *)
(* external: they are modelled from the way the code uses them.            *)
(***************************************************************************)
EXTENDS RuleTable

CONSTANTS
  Namespaces,       \* namespaces with Instrumentation objects
  KubeNamespaces,   \* those the webhook leaves alone (kube-system, kube-public)
  Cluster,          \* the scope of the ClusterInstrumentation objects
  Keys,             \* the objects there may be: pairs <<scope, name>>
  Specs,            \* what users may write, see KnownSpecs
  Requests,         \* create calls the API server handles at one time
  NoObject,         \* stands for "there is no such object"
  Faults,           \* what the environment may do, see FaultKinds
  MaxWrites,        \* bound on creates and updates by users
  MaxCrashes        \* bound on crashes for reasons outside the program

(* "reject": a create may be refused after the webhook was called (the name *)
(*           is taken, another webhook, a quota);                           *)
(* "late":   a webhook call may time out and run to its end all the same;   *)
(* "early":  the API server may call before the informers have synced.      *)
FaultKinds == {"reject", "late", "early"}

Scopes == Namespaces \cup {Cluster}

Kinds    == {"Instrumentation", "ClusterInstrumentation"}
Scope(k) == k[1]
Kind(k)  == IF Scope(k) = Cluster THEN "ClusterInstrumentation"
                                  ELSE "Instrumentation"

(* upsertCrdInstrumentation overwrites matchRules.namespaceRegex: the rule   *)
(* of a namespace is for that namespace only.                                *)
Scoped(k, spec) ==
  IF Scope(k) = Cluster THEN spec ELSE [spec EXCEPT !.namespaceRegex = Scope(k)]

(* A spec is a record [priority, hasRules, hasMatch, namespaceRegex]: the    *)
(* priority, whether injectionRules and matchRules are there, and which one  *)
(* namespace matchRules.namespaceRegex is for ("^dev$" is dev; Cluster is    *)
(* any other expression, or none).  Those there may be: as users write them  *)
(* and as the code changes them.                                             *)
KnownSpecs == Specs \cup {Scoped(k, spec) : k \in Keys, spec \in Specs}

ASSUME RegistryAssumption ==
  /\ Cluster \notin Namespaces
  /\ KubeNamespaces \subseteq Namespaces
  /\ Keys \subseteq Scopes \X STRING
  /\ Specs \subseteq [priority : Int, hasRules : BOOLEAN, hasMatch : BOOLEAN,
                      namespaceRegex : Scopes]
  /\ NoObject \notin KnownSpecs
  /\ Faults \subseteq FaultKinds
  /\ MaxWrites \in Nat
  /\ MaxCrashes \in Nat

VARIABLES
  store,       \* the API server: the object of each key, or NoObject
  version,     \* the resourceVersion last given out for each key
  watch,       \* watch events of each key not yet delivered to its informer
  request,     \* the create calls in flight
  synced,      \* kinds whose informer has listed its objects
  cache,       \* the informer caches
  queue,       \* keys in the work queues
  worker,      \* the worker of each kind
  registry,    \* the rules in memory, one list per scope
  writes, crashes

apiVars     == <<store, version, watch>>
processVars == <<synced, cache, queue, worker, registry>>
bounds      == <<writes, crashes>>
vars        == <<store, version, watch, request, synced, cache, queue, worker,
                 registry, writes, crashes>>

-----------------------------------------------------------------------------
(* Objects, rules, workers and requests.                                    *)

(* `processed': the annotation is set and the defaults are filled in.       *)
Objects == [spec : KnownSpecs, processed : BOOLEAN, deleting : BOOLEAN, rv : Nat]

Rules   == [name : Keys, spec : KnownSpecs]

IdleWorker  == [at |-> "idle"]
Registering == [at : {"register"}, key : Keys, object : Objects \cup {NoObject}]
Writing     == [at : {"write"}, key : Keys, object : Objects]

NoRequest == [api |-> "none", hook |-> "none"]
Calls == [key : Keys, spec : Specs, dryRun : BOOLEAN,
          api : {"waiting", "ignored", "answered"}, hook : {"pending", "done"}]

(* The reconcilers treat a missing object and one being deleted alike. *)
Gone(object) == IF object = NoObject THEN TRUE ELSE object.deleting

(* The call is over when the API server has answered and the handler is done. *)
Settled(call) ==
  IF call.api = "answered" /\ call.hook = "done" THEN NoRequest ELSE call

InFlight(r) == request[r] # NoRequest

(* injectionRuleDefaults dereferences spec.injectionRules; for a namespaced *)
(* rule upsertCrdInstrumentation dereferences spec.matchRules.  Neither     *)
(* field is required of the objects, and both are checked for nil nowhere.  *)
Panics(k, spec) == ~spec.hasRules \/ (Scope(k) # Cluster /\ ~spec.hasMatch)

(* Mutant of Upserts: namespaced rules are named like cluster-wide ones. *)
UpsertsClusterName(k, spec) ==
  { [registry EXCEPT ![Scope(k)] = rules] :
      rules \in UpsertSpec(registry[Scope(k)],
                           [name |-> <<Cluster, k[2]>>, spec |-> Scoped(k, spec)]) }

(* The lists the registry may hold after upsertCrd(Cluster)Instrumentation.  *)
(* The field it overwrites is behind a pointer: the caller's object has it   *)
(* overwritten as well, see Processed.                                       *)
Upserts(k, spec) ==
  { [registry EXCEPT ![Scope(k)] = rules] :
      rules \in UpsertSpec(registry[Scope(k)],
                           [name |-> k, spec |-> Scoped(k, spec)]) }

(* What the reconciler makes of an object it has read: upserting it has      *)
(* changed its spec, and the annotation and the defaults are put in.         *)
Processed(k, object) == [object EXCEPT !.spec = Scoped(k, @), !.processed = TRUE]

(* deleteCrd(Cluster)Instrumentation *)
Deleted(k) == [registry EXCEPT ![Scope(k)] = DeleteSpec(@, k)]

Init ==
  /\ store    = [k \in Keys |-> NoObject]
  /\ version  = [k \in Keys |-> 0]
  /\ watch    = [k \in Keys |-> <<>>]
  /\ request  = [r \in Requests |-> NoRequest]
  /\ synced   = [c \in Kinds |-> FALSE]
  /\ cache    = [k \in Keys |-> NoObject]
  /\ queue    = {}
  /\ worker   = [c \in Kinds |-> IdleWorker]
  /\ registry = [s \in Scopes |-> <<>>]
  /\ writes = 0 /\ crashes = 0

-----------------------------------------------------------------------------
(* The API server and its users.                                            *)

(* The store holds `object' for k from now on; a connected watch is told.   *)
Commit(k, object) ==
  /\ store' = [store EXCEPT ![k] = object]
  /\ watch' = [watch EXCEPT ![k] =
                 IF synced[Kind(k)] THEN Append(@, object) ELSE @]

NewVersion(k) == version' = [version EXCEPT ![k] = @ + 1]

(* A user posts a new object; the API server calls /validate.  Without the  *)
(* fault "reject" users create only what does not exist, one at a time.     *)
Create(r, k, spec, dryRun) ==
  /\ ~InFlight(r)
  /\ writes < MaxWrites
  /\ "reject" \in Faults \/ dryRun
       \/ /\ store[k] = NoObject
          /\ \A q \in Requests : InFlight(q) => request[q].key # k
  /\ request' = [request EXCEPT ![r] =
                   [key |-> k, spec |-> spec, dryRun |-> dryRun,
                    api |-> "waiting", hook |-> "pending"]]
  /\ writes' = writes + 1
  /\ UNCHANGED <<apiVars, processVars, crashes>>

(* The call fails or takes longer than timeoutSeconds: failurePolicy is     *)
(* Ignore.  A call that timed out in the API server still runs here.        *)
GiveUp(r) ==
  /\ request[r].api = "waiting"
  /\ request[r].hook = "pending"
  /\ \E hook \in {"done"} \cup {h \in {"pending"} : "late" \in Faults} :
       request' = [request EXCEPT ![r] =
                       [@ EXCEPT !.api = "ignored", !.hook = hook]]
  /\ UNCHANGED <<apiVars, processVars, bounds>>

Admitted(r) == \/ request[r].api = "waiting" /\ request[r].hook = "done"
               \/ request[r].api = "ignored"

Answer(r) == request' = [request EXCEPT ![r] = Settled([@ EXCEPT !.api = "answered"])]

(* The object is persisted and the create call succeeds. *)
Persist(r) ==
  /\ Admitted(r)
  /\ ~request[r].dryRun
  /\ LET k == request[r].key
     IN  /\ store[k] = NoObject
         /\ Commit(k, [spec |-> request[r].spec, processed |-> FALSE,
                       deleting |-> FALSE, rv |-> version[k] + 1])
         /\ NewVersion(k)
  /\ Answer(r)
  /\ UNCHANGED <<processVars, bounds>>

(* The create call ends without an object: a dry run, or a refusal. *)
Refuse(r) ==
  /\ Admitted(r)
  /\ "reject" \in Faults \/ request[r].dryRun
  /\ Answer(r)
  /\ UNCHANGED <<apiVars, processVars, bounds>>

(* A user changes the spec; no webhook is registered for UPDATE.  Applying  *)
(* keeps the annotation and the defaults of the object, replacing does not. *)
Update(k, spec, keep) ==
  /\ store[k] # NoObject
  /\ writes < MaxWrites
  /\ Commit(k, [store[k] EXCEPT !.spec = spec,
                                !.processed = keep /\ @,
                                !.rv = version[k] + 1])
  /\ NewVersion(k)
  /\ writes' = writes + 1
  /\ UNCHANGED <<request, processVars, crashes>>

(* A user deletes an object that carries a finalizer. *)
MarkDeleting(k) ==
  /\ store[k] # NoObject
  /\ ~store[k].deleting
  /\ writes < MaxWrites
  /\ Commit(k, [store[k] EXCEPT !.deleting = TRUE, !.rv = version[k] + 1])
  /\ NewVersion(k)
  /\ writes' = writes + 1
  /\ UNCHANGED <<request, processVars, crashes>>

(* The object goes: deleted by a user, or its last finalizer is removed. *)
Delete(k) ==
  /\ store[k] # NoObject
  /\ Commit(k, NoObject)
  /\ UNCHANGED <<version, request, processVars, bounds>>

-----------------------------------------------------------------------------
(* The /validate webhook: handleInstrumentationCRDs inside doServeAdmitFunc. *)

(* Mutant of Validate: the test for a dry run is missing. *)
ValidateDryRunsToo(r) ==
  /\ request[r].hook = "pending"
  /\ LET call == request[r]
         skips == Scope(call.key) \in KubeNamespaces \/ Panics(call.key, call.spec)
     IN  /\ synced[Kind(call.key)] \/ "early" \in Faults
         /\ registry' \in IF skips THEN {registry}
                                   ELSE Upserts(call.key, call.spec)
         /\ request' = [request EXCEPT ![r] = Settled([@ EXCEPT !.hook = "done"])]
  /\ UNCHANGED <<apiVars, synced, cache, queue, worker, bounds>>

(* A panic in the handler is recovered by net/http and fails the call.       *)
Validate(r) ==
  /\ request[r].hook = "pending"
  /\ LET call == request[r]
         skips == call.dryRun \/ Scope(call.key) \in KubeNamespaces
                    \/ Panics(call.key, call.spec)
     IN  /\ synced[Kind(call.key)] \/ "early" \in Faults
         /\ registry' \in IF skips THEN {registry}
                                   ELSE Upserts(call.key, call.spec)
         /\ request' = [request EXCEPT ![r] = Settled([@ EXCEPT !.hook = "done"])]
  /\ UNCHANGED <<apiVars, synced, cache, queue, worker, bounds>>

-----------------------------------------------------------------------------
(* The informers and the work queues (EnqueueRequestForObject).              *)

(* The first list of a kind: its objects are cached and queued. *)
List(c) ==
  /\ ~synced[c]
  /\ synced' = [synced EXCEPT ![c] = TRUE]
  /\ cache'  = [k \in Keys |-> IF Kind(k) = c THEN store[k] ELSE cache[k]]
  /\ queue'  = queue \cup {k \in Keys : Kind(k) = c /\ store[k] # NoObject}
  /\ UNCHANGED <<apiVars, request, worker, registry, bounds>>

(* Mutant of Deliver: delete events are filtered out by a predicate. *)
DeliverSkipsDeletes(k) ==
  /\ watch[k] # <<>>
  /\ cache' = [cache EXCEPT ![k] = Head(watch[k])]
  /\ watch' = [watch EXCEPT ![k] = Tail(@)]
  /\ queue' = IF Head(watch[k]) = NoObject THEN queue ELSE queue \cup {k}
  /\ UNCHANGED <<store, version, request, synced, worker, registry, bounds>>

(* The next watch event of k updates the cache and queues k. *)
Deliver(k) ==
  /\ watch[k] # <<>>
  /\ cache' = [cache EXCEPT ![k] = Head(watch[k])]
  /\ watch' = [watch EXCEPT ![k] = Tail(@)]
  /\ queue' = queue \cup {k}
  /\ UNCHANGED <<store, version, request, synced, worker, registry, bounds>>

-----------------------------------------------------------------------------
(* The reconcilers: reconcileInstrCrd.Reconcile, reconcileGInstrCrd.Reconcile *)

(* The worker takes a key and reads the object from the cache. *)
Get(c) ==
  /\ synced[c]
  /\ worker[c].at = "idle"
  /\ \E k \in queue :
       /\ Kind(k) = c
       /\ queue'  = queue \ {k}
       /\ worker' = [worker EXCEPT ![c] =
                       [at |-> "register", key |-> k, object |-> cache[k]]]
  /\ UNCHANGED <<apiVars, request, synced, cache, registry, bounds>>

(* No object, or one that is being deleted: the rule goes. *)
Unregister(c) ==
  /\ worker[c].at = "register"
  /\ Gone(worker[c].object)
  /\ registry' = Deleted(worker[c].key)
  /\ worker' = [worker EXCEPT ![c] = IdleWorker]
  /\ UNCHANGED <<apiVars, request, synced, cache, queue, bounds>>

(* Otherwise defaults are filled in and the rule is upserted. *)
Register(c) ==
  /\ worker[c].at = "register"
  /\ ~Gone(worker[c].object)
  /\ ~Panics(worker[c].key, worker[c].object.spec)
  /\ registry' \in Upserts(worker[c].key, worker[c].object.spec)
  /\ worker' = [worker EXCEPT ![c].at = "write"]
  /\ UNCHANGED <<apiVars, request, synced, cache, queue, bounds>>

(* Mutant of Write: written back without the resourceVersion, so that there  *)
(* is no conflict (and an object that is gone is created again).             *)
WriteUnconditionally(c) ==
  /\ worker[c].at = "write"
  /\ LET k == worker[c].key
     IN  /\ Commit(k, [Processed(k, worker[c].object) EXCEPT !.rv = version[k] + 1])
         /\ NewVersion(k)
  /\ worker' = [worker EXCEPT ![c] = IdleWorker]
  /\ UNCHANGED <<request, synced, cache, queue, registry, bounds>>

(* Mutant of Write: the result asks for a requeue even after success. *)
WriteAlwaysRequeues(c) ==
  /\ worker[c].at = "write"
  /\ LET k == worker[c].key
         read == worker[c].object
     IN  /\ queue' = queue \cup {k}
         /\ IF \/ store[k] = NoObject \/ store[k].rv # read.rv
               \/ Processed(k, read) = read
              THEN UNCHANGED apiVars
              ELSE /\ Commit(k, [Processed(k, read) EXCEPT !.rv = version[k] + 1])
                   /\ NewVersion(k)
  /\ worker' = [worker EXCEPT ![c] = IdleWorker]
  /\ UNCHANGED <<request, synced, cache, registry, bounds>>

(* The object, processed, is written back with the resourceVersion it was    *)
(* read at.  A conflict or a vanished object is an error: k is queued again. *)
(* The API server makes no new version of what is not changed.               *)
Write(c) ==
  /\ worker[c].at = "write"
  /\ LET k == worker[c].key
         read == worker[c].object
     IN  IF store[k] = NoObject \/ store[k].rv # read.rv
           THEN /\ queue' = queue \cup {k}
                /\ UNCHANGED apiVars
           ELSE /\ IF Processed(k, read) = read
                     THEN UNCHANGED apiVars
                     ELSE /\ Commit(k, [Processed(k, read) EXCEPT !.rv = version[k] + 1])
                          /\ NewVersion(k)
                /\ UNCHANGED queue
  /\ worker' = [worker EXCEPT ![c] = IdleWorker]
  /\ UNCHANGED <<request, synced, cache, registry, bounds>>

-----------------------------------------------------------------------------
(* The process ends: memory, caches and connections are gone, a call that    *)
(* was waiting for its handler fails.                                        *)
Restart ==
  /\ registry' = [s \in Scopes |-> <<>>]
  /\ synced'   = [c \in Kinds |-> FALSE]
  /\ cache'    = [k \in Keys |-> NoObject]
  /\ queue'    = {}
  /\ worker'   = [c \in Kinds |-> IdleWorker]
  /\ watch'    = [k \in Keys |-> <<>>]
  /\ request'  = [r \in Requests |->
                    IF request[r].hook = "pending"
                      THEN Settled([request[r] EXCEPT !.hook = "done"])
                      ELSE request[r]]
  /\ UNCHANGED <<store, version>>

(* Eviction, node failure, upgrade. *)
Crash ==
  /\ crashes < MaxCrashes
  /\ crashes' = crashes + 1
  /\ Restart
  /\ UNCHANGED writes

(* A panic in a reconciler is not recovered and ends the process. *)
Panic(c) ==
  /\ worker[c].at = "register"
  /\ ~Gone(worker[c].object)
  /\ Panics(worker[c].key, worker[c].object.spec)
  /\ Restart
  /\ UNCHANGED bounds

Reconcile(c) == Get(c) \/ Unregister(c) \/ Register(c) \/ Write(c)

Controller(c) == Reconcile(c) \/ Panic(c)

User ==
  \/ \E r \in Requests, k \in Keys, spec \in Specs, dryRun \in BOOLEAN :
       Create(r, k, spec, dryRun)
  \/ \E k \in Keys, spec \in Specs, keep \in BOOLEAN : Update(k, spec, keep)
  \/ \E k \in Keys : MarkDeleting(k) \/ Delete(k)

(* The steps of a process that goes on, and those that end it. *)
Run ==
  \/ User
  \/ \E r \in Requests : GiveUp(r) \/ Persist(r) \/ Refuse(r) \/ Validate(r)
  \/ \E c \in Kinds : List(c) \/ Reconcile(c)
  \/ \E k \in Keys : Deliver(k)

End == Crash \/ \E c \in Kinds : Panic(c)

Next == Run \/ End

(* The API server answers its calls and keeps its watches going, handlers    *)
(* and workers get the processor.  Nothing is assumed of users and crashes.  *)
Fairness ==
  /\ \A r \in Requests : WF_vars(Validate(r)) /\ WF_vars(Persist(r) \/ Refuse(r))
  /\ \A c \in Kinds : WF_vars(List(c)) /\ WF_vars(Controller(c))
  /\ \A k \in Keys : WF_vars(Deliver(k))

Spec == Init /\ [][Next]_vars
FairSpec == Spec /\ Fairness

-----------------------------------------------------------------------------
(* Properties.                                                               *)

TypeOK ==
  /\ store   \in [Keys -> Objects \cup {NoObject}]
  /\ version \in [Keys -> Nat]
  /\ watch   \in [Keys -> Seq(Objects \cup {NoObject})]
  /\ request \in [Requests -> Calls \cup {NoRequest}]
  /\ synced  \in [Kinds -> BOOLEAN]
  /\ cache   \in [Keys -> Objects \cup {NoObject}]
  /\ queue   \subseteq Keys
  /\ worker  \in [Kinds -> {IdleWorker} \cup Registering \cup Writing]
  /\ registry \in [Scopes -> Seq(Rules)]
  /\ writes \in 0..MaxWrites
  /\ crashes \in 0..MaxCrashes

(* Whatever the order in which the webhook and the two reconcilers write to  *)
(* it, the registry never holds two rules of one name, and each list is in   *)
(* the order upsertInstrumentationSpecInConfig sorts it into; a rule is in   *)
(* the list of its own scope only.                                           *)
RegistryInOrder ==
  \A s \in Scopes :
    /\ NamesDistinct(registry[s])
    /\ Ascending(registry[s])
    /\ \A i \in DOMAIN registry[s] : Scope(registry[s][i].name) = s

(* The spec of the rule the registry holds for k, NoObject if there is none. *)
Registered(k) ==
  LET rules == registry[Scope(k)]
  IN  IF IsNamed(rules, k)
        THEN rules[CHOOSE i \in DOMAIN rules : rules[i].name = k].spec
        ELSE NoObject

(* The spec the registry should hold for k. *)
Wanted(k) == IF Gone(store[k]) THEN NoObject ELSE Scoped(k, store[k].spec)

(* Something still to happen may change the rule of k. *)
CorrectionPending(k) ==
  \/ ~synced[Kind(k)]
  \/ watch[k] # <<>>
  \/ k \in queue
  \/ worker[Kind(k)] # IdleWorker /\ worker[Kind(k)].key = k
  \/ \E r \in Requests : InFlight(r) /\ request[r].key = k

(* The reconcilers leave nothing behind: at any moment a rule in memory that *)
(* differs from the object in the cluster is about to be corrected, because  *)
(* of an undelivered event, a queued key, a reconcile or a create under way. *)
NoStaleRuleIsFinal ==
  \A k \in Keys : Registered(k) = Wanted(k) \/ CorrectionPending(k)

(* The reconcilers write objects back from their caches, which may be old:   *)
(* that must never undo what a user wrote, nor bring a deleted object back.  *)
(* An object changes only by a user's step (counted in `writes', or a create *)
(* call), by going away, or with its deletion mark and its spec kept.  Of    *)
(* the spec one field is not kept: upsertCrdInstrumentation has overwritten  *)
(* matchRules.namespaceRegex, and the user's expression is lost.             *)
ReconcilersKeepUserSpecs ==
  [][\A k \in Keys :
       store'[k] # store[k] =>
         \/ writes' # writes
         \/ request' # request
         \/ store'[k] = NoObject
         \/ /\ store[k] # NoObject
            /\ store'[k].spec \in {store[k].spec, Scoped(k, store[k].spec)}
            /\ store'[k].deleting = store[k].deleting]_vars

(* Once users and crashes stop, the registry comes to hold exactly the rules *)
(* of the objects in the cluster, and keeps them.                            *)
RegistryConverges == <>[](\A k \in Keys : Registered(k) = Wanted(k))

(* Once users and crashes stop, so do the reconcilers: writing the           *)
(* annotation back triggers one more reconcile, and that one changes nothing *)
(* (crdReconciler.go, the two calls of client.Update).                       *)
ReconcilersComeToRest ==
  <>[](queue = {} /\ \A c \in Kinds : worker[c] = IdleWorker)

(* The objects a webhook handler or a worker is busy with. *)
Handled == {request[r].key : r \in {q \in Requests : request[q].hook = "pending"}}
             \cup {worker[c].key : c \in {d \in Kinds : worker[d] # IdleWorker}}

(* The lists implement a map from objects to rules (RuleBook): no step on    *)
(* behalf of one object touches the rule of another, wherever it is in the   *)
(* list (upsertInstrumentationSpecInConfig, deleteInstrumentationSpecInConfig). *)
Book == INSTANCE RuleBook WITH book     <- [k \in Keys |-> Registered(k)],
                               handling <- Handled,
                               listed   <- {c \in Kinds : synced[c]},
                               Specs    <- KnownSpecs,
                               NoRule   <- NoObject

ImplementsRuleBook == Book!Spec

-----------------------------------------------------------------------------
(* What the documentation says and the code does not do.                     *)

(* README.md: "higher priorities are evaluated first" (the lists are         *)
(* evaluated from the front, match.go getInstrumentationRule).               *)
HigherPrioritiesFirst ==
  \A s \in Scopes : \A i, j \in DOMAIN registry[s] :
    i < j => registry[s][i].spec.priority >= registry[s][j].spec.priority

(* README.md: the syntax of rules is common to values.yaml and to the custom *)
(* resources: an object that stays in the cluster gets its rule registered.  *)
ObjectsGetTheirRule ==
  \A k \in Keys :
    (Wanted(k) # NoObject) ~> (Registered(k) = Wanted(k) \/ Wanted(k) = NoObject)
=============================================================================
