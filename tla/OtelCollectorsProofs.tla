------------------------- MODULE OtelCollectorsProofs -------------------------
(* Theorems about OtelCollectors, for any number of collectors, requests,   *)
(* writes, crashes and failures.                                            *)
EXTENDS OtelCollectors, SequenceTheorems, TLAPS

-----------------------------------------------------------------------------
(* The steps of upsertOtelCollector, for collectors that are not sidecars.  *)
Upserting == {"deployment", "writeDeployment", "service", "writeService"}

IsStandalone(object) == ~Gone(object) /\ object.mode # "sidecar"

(* What an actor is about to use exists: the object of which it makes a      *)
(* Deployment, the map it stores into.                                      *)
CallOK(call) ==
  /\ call.at \in Upserting => call.object \in Objects /\ IsStandalone(call.object)
  /\ call.at = "store" => call.seen \in Actors /\ inner[call.seen] \in Maps

(* So does the namespace's map, once there is one. *)
CallsOK ==
  /\ \A a \in Actors : CallOK(actor[a])
  /\ outer # NoMap => inner[outer] \in Maps

TypeInv == CollectorsTypeOK /\ CallsOK

LEMMA TypeHolds == Init => TypeInv
<1> SUFFICES ASSUME Init
             PROVE  TypeInv
  OBVIOUS
<1>1. CollectorsTypeOK
  <2>1. /\ 0 \in 0..MaxWrites /\ 0 \in 0..MaxCrashes /\ 0 \in 0..MaxFailures
        /\ <<>> \in Seq(Objects \cup {NoObject})
    BY CollectorsAssumption
  <2>2. QED
    BY <2>1 DEF Init, CollectorsTypeOK
<1>2. CallsOK
  BY DEF Init, CallsOK, CallOK, Idle, Upserting
<1>3. QED
  BY <1>1, <1>2 DEF TypeInv

(* Users, and the API server for them. *)
LEMMA UsersKeepTypes ==
  ASSUME TypeInv, User
  PROVE  TypeInv'
<1> USE CollectorsAssumption DEF UserWrites
<1>1. ASSUME NEW r \in Requests, NEW k \in Names, NEW m \in Modes, NEW c \in Configs,
             Create(r, k, m, c)
      PROVE  TypeInv'
  <2> DEFINE object == [mode |-> m, config |-> c, uid |-> writes + 1, deleting |-> FALSE]
  <2>1. object \in Objects
    BY DEF Objects, TypeInv, CollectorsTypeOK
  <2>2. Busy("lookup", k, object, NoMap) \in Calls
    BY <2>1 DEF Busy, Calls, Steps, NoMap
  <2>3. CollectorsTypeOK'
    BY <1>1, <2>2
    DEF Create, apiVars, clusterVars, informerVars, mapVars, Actors, TypeInv, CollectorsTypeOK
  <2>4. CallsOK'
    BY <1>1 DEF Create, mapVars, CallsOK, CallOK, Busy, Upserting, Actors, TypeInv
  <2>5. QED
    BY <2>3, <2>4 DEF TypeInv
<1>2. ASSUME NEW k \in Names, NEW object \in Objects \cup {NoObject}, Commit(k, object),
             writes' \in 0..MaxWrites,
             UNCHANGED <<clusterVars, informerVars, actor, mapVars, crashes, failures>>
      PROVE  TypeInv'
  <2>1. watch' \in [Names -> Seq(Objects \cup {NoObject})]
    BY <1>2 DEF Commit, TypeInv, CollectorsTypeOK
  <2>2. CollectorsTypeOK'
    BY <1>2, <2>1 DEF Commit, clusterVars, informerVars, mapVars, TypeInv, CollectorsTypeOK
  <2>3. CallsOK'
    BY <1>2 DEF mapVars, CallsOK, CallOK, TypeInv
  <2>4. QED
    BY <2>2, <2>3 DEF TypeInv
<1>3. ASSUME NEW k \in Names, NEW m \in Modes, NEW c \in Configs, Update(k, m, c)
      PROVE  TypeInv'
  <2>1. [store[k] EXCEPT !.mode = m, !.config = c] \in Objects
    BY <1>3 DEF Update, Objects, TypeInv, CollectorsTypeOK
  <2>2. writes' \in 0..MaxWrites
    BY <1>3 DEF Update, TypeInv, CollectorsTypeOK
  <2>3. QED
    BY <1>2, <1>3, <2>1, <2>2 DEF Update
<1>4. ASSUME NEW k \in Names, MarkDeleting(k)
      PROVE  TypeInv'
  <2>1. [store[k] EXCEPT !.deleting = TRUE] \in Objects
    BY <1>4 DEF MarkDeleting, Gone, Objects, TypeInv, CollectorsTypeOK
  <2>2. writes' \in 0..MaxWrites
    BY <1>4 DEF MarkDeleting, TypeInv, CollectorsTypeOK
  <2>3. QED
    BY <1>2, <1>4, <2>1, <2>2 DEF MarkDeleting
<1>5. ASSUME NEW k \in Names, Delete(k)
      PROVE  TypeInv'
  <2>1. writes' \in 0..MaxWrites
    BY <1>5 DEF Delete, bounds, TypeInv, CollectorsTypeOK
  <2>2. QED
    BY <1>2, <1>5, <2>1 DEF Delete, bounds
<1>6. QED
  BY <1>1, <1>3, <1>4, <1>5 DEF User

(* The API server, its garbage collector and the informers. *)
LEMMA ServersKeepTypes ==
  ASSUME TypeInv,
         \/ \E r \in Requests : Ignore(r) \/ Persist(r)
         \/ List
         \/ \E k \in Names : Deliver(k) \/ DeliverOwned(k) \/ Collect(k)
  PROVE  TypeInv'
<1> USE CollectorsAssumption
<1>1. ASSUME NEW r \in Requests, Ignore(r)
      PROVE  TypeInv'
  <2>0. actor[r] \in Calls
    BY <1>1 DEF Ignore, Idle, Actors, TypeInv, CollectorsTypeOK
  <2>1. [actor[r] EXCEPT !.at = "persist"] \in Calls
    BY <2>0 DEF Calls, Steps
  <2>2. CollectorsTypeOK'
    BY <1>1, <2>1
    DEF Ignore, Go, apiVars, clusterVars, informerVars, mapVars, bounds, TypeInv, CollectorsTypeOK
  <2>3. CallsOK'
    BY <1>1 DEF Ignore, Go, mapVars, CallsOK, CallOK, Upserting, TypeInv
  <2>4. QED
    BY <2>2, <2>3 DEF TypeInv
<1>2. ASSUME NEW r \in Requests, Persist(r)
      PROVE  TypeInv'
  <2>1. actor[r] \in Calls
    BY <1>2 DEF Persist, Idle, Actors, TypeInv, CollectorsTypeOK
  <2>2. actor[r].name \in Names /\ actor[r].object \in Objects \cup {NoObject}
    BY <2>1 DEF Calls, TypeInv, CollectorsTypeOK
  <2>3. watch' \in [Names -> Seq(Objects \cup {NoObject})]
    BY <1>2, <2>2 DEF Persist, Commit, TypeInv, CollectorsTypeOK
  <2>4. CollectorsTypeOK'
    BY <1>2, <2>2, <2>3
    DEF Persist, Commit, Rest, clusterVars, informerVars, mapVars, bounds, TypeInv, CollectorsTypeOK
  <2>5. CallsOK'
    BY <1>2 DEF Persist, Rest, Idle, mapVars, CallsOK, CallOK, Upserting, TypeInv
  <2>6. QED
    BY <2>4, <2>5 DEF TypeInv
<1>3. ASSUME List
      PROVE  TypeInv'
  BY <1>3
  DEF List, apiVars, clusterVars, mapVars, bounds, CallsOK, CallOK, TypeInv, CollectorsTypeOK
<1>4. ASSUME NEW k \in Names, Deliver(k)
      PROVE  TypeInv'
  <2>1. Head(watch[k]) \in Objects \cup {NoObject} /\ Tail(watch[k]) \in Seq(Objects \cup {NoObject})
    BY <1>4 DEF Deliver, TypeInv, CollectorsTypeOK
  <2>2. QED
    BY <1>4, <2>1
    DEF Deliver, clusterVars, mapVars, bounds, CallsOK, CallOK, TypeInv, CollectorsTypeOK
<1>5. ASSUME NEW k \in Names, DeliverOwned(k)
      PROVE  TypeInv'
  BY <1>5
  DEF DeliverOwned, apiVars, mapVars, bounds, CallsOK, CallOK, TypeInv, CollectorsTypeOK
<1>6. ASSUME NEW k \in Names, Collect(k)
      PROVE  TypeInv'
  BY <1>6
  DEF Collect, Tell, apiVars, informerVars, mapVars, bounds, CallsOK, CallOK, TypeInv, CollectorsTypeOK
<1>7. QED
  BY <1>1, <1>2, <1>3, <1>4, <1>5, <1>6

(* A handler or the reconciler registers a collector. *)
LEMMA RegisterKeepsTypes ==
  ASSUME TypeInv, NEW a \in Actors, Register(a)
  PROVE  TypeInv'
<1> USE CollectorsAssumption
<1>1. actor[a] \in Calls
  BY DEF Register, Lookup, CreateMap, Store, Idle, TypeInv, CollectorsTypeOK
<1>2. ASSUME NEW call \in {Idle} \cup Calls, actor' = [actor EXCEPT ![a] = call], CallOK(call),
             UNCHANGED mapVars, UNCHANGED <<apiVars, clusterVars, informerVars, bounds>>
      PROVE  TypeInv'
  <2>1. CollectorsTypeOK'
    BY <1>2
    DEF apiVars, clusterVars, informerVars, mapVars, bounds, TypeInv, CollectorsTypeOK
  <2>2. CallsOK'
    BY <1>2 DEF mapVars, CallsOK, CallOK, TypeInv
  <2>3. QED
    BY <2>1, <2>2 DEF TypeInv
<1>3. CASE Lookup(a)
  <2>1. CASE outer # NoMap
    <3> DEFINE call == [actor[a] EXCEPT !.at = "store", !.seen = outer]
    <3>1. call \in Calls
      BY <1>1, <2>1 DEF Calls, Steps, TypeInv, CollectorsTypeOK
    <3>2. CallOK(call)
      BY <1>1, <1>3, <2>1
      DEF Lookup, mapVars, CallsOK, CallOK, Calls, Upserting, TypeInv, CollectorsTypeOK
    <3>3. actor' = [actor EXCEPT ![a] = call]
      BY <1>3, <2>1 DEF Lookup
    <3> HIDE DEF call
    <3>4. QED
      BY <1>2, <1>3, <3>1, <3>2, <3>3 DEF Lookup
  <2>2. ASSUME NEW at \in {"create", "persist"}, Go(a, at)
        PROVE  TypeInv'
    <3> DEFINE call == [actor[a] EXCEPT !.at = at]
    <3>1. call \in Calls
      BY <1>1 DEF Calls, Steps
    <3>2. CallOK(call)
      BY <1>1 DEF CallOK, Calls, Upserting
    <3>3. actor' = [actor EXCEPT ![a] = call]
      BY <2>2 DEF Go
    <3> HIDE DEF call
    <3>4. QED
      BY <1>2, <1>3, <3>1, <3>2, <3>3 DEF Lookup
  <2>3. CASE Rest(a)
    BY <1>2, <1>3, <2>3 DEF Lookup, Rest, CallOK, Idle, Upserting
  <2>4. QED
    BY <1>3, <2>1, <2>2, <2>3 DEF Lookup, Done
<1>4. ASSUME NEW call \in {Idle} \cup Calls, actor' = [actor EXCEPT ![a] = call],
             call.at # "store" /\ call.at \notin Upserting,
             NEW m \in Actors, inner[m] \in Maps,
             NEW map \in Maps, inner' = [inner EXCEPT ![m] = map], outer' = m,
             UNCHANGED <<apiVars, clusterVars, informerVars, bounds>>
      PROVE  TypeInv'
  <2>1. CollectorsTypeOK'
    BY <1>4 DEF apiVars, clusterVars, informerVars, bounds, TypeInv, CollectorsTypeOK
  <2>2. CallsOK'
    BY <1>4 DEF CallsOK, CallOK, TypeInv
  <2>3. QED
    BY <2>1, <2>2 DEF TypeInv
<1>5. CASE CreateMap(a)
  <2> DEFINE call == [actor[a] EXCEPT !.at = "store", !.seen = a]
  <2>1. call \in Calls
    BY <1>1 DEF Calls, Steps
  <2>2. EmptyMap \in Maps
    BY DEF EmptyMap, Maps
  <2>3. inner' = [inner EXCEPT ![a] = EmptyMap] /\ outer' = a /\ actor' = [actor EXCEPT ![a] = call]
    BY <1>5 DEF CreateMap
  <2>4. CollectorsTypeOK'
    BY <1>5, <2>1, <2>2, <2>3
    DEF CreateMap, apiVars, clusterVars, informerVars, bounds, TypeInv, CollectorsTypeOK
  <2>5. CallOK(actor[a])'
    BY <1>1, <2>2, <2>3 DEF CallOK, Calls, Upserting, TypeInv, CollectorsTypeOK
  <2>6. CallsOK'
    BY <2>2, <2>3, <2>5 DEF CallsOK, CallOK, TypeInv, CollectorsTypeOK
  <2>7. QED
    BY <2>4, <2>6 DEF TypeInv
<1>6. CASE Store(a)
  <2> DEFINE m   == actor[a].seen
             map == [inner[m] EXCEPT ![actor[a].name] = Entry(actor[a].object)]
  <2>1. m \in Actors /\ inner[m] \in Maps
    BY <1>6 DEF Store, CallsOK, CallOK, TypeInv
  <2>2. Entry(actor[a].object) \in Entries \cup {NoObject}
    BY <1>1 DEF Calls, Entry, Gone, Objects, Entries
  <2>3. map \in Maps
    BY <2>1, <2>2 DEF Maps
  <2>4. inner' = [inner EXCEPT ![m] = map] /\ outer' = m
    BY <1>6 DEF Store
  <2>5. CASE Rest(a)
    <3>1. Idle.at # "store" /\ Idle.at \notin Upserting
      BY DEF Idle, Upserting
    <3>2. actor' = [actor EXCEPT ![a] = Idle]
      BY <2>5 DEF Rest
    <3> HIDE DEF map, m
    <3>3. QED
      BY <1>4, <1>6, <2>1, <2>3, <2>4, <3>1, <3>2 DEF Store
  <2>6. CASE Go(a, "persist")
    <3> DEFINE call == [actor[a] EXCEPT !.at = "persist"]
    <3>1. call \in Calls /\ call.at = "persist"
      BY <1>1 DEF Calls, Steps
    <3>2. actor' = [actor EXCEPT ![a] = call]
      BY <2>6 DEF Go
    <3> HIDE DEF call, map, m
    <3>3. QED
      BY <1>4, <1>6, <2>1, <2>3, <2>4, <3>1, <3>2 DEF Store, Upserting
  <2>7. QED
    BY <1>6, <2>5, <2>6 DEF Store, Done
<1>7. QED
  BY <1>3, <1>5, <1>6 DEF Register

(* The reconciler, but for the maps. *)
LEMMA ReconcilerKeepsTypes ==
  ASSUME TypeInv, Get \/ GetDeployment \/ WriteDeployment \/ GetService \/ WriteService
  PROVE  TypeInv'
<1> USE CollectorsAssumption
<1>1. Reconciler \in Actors
  BY DEF Actors
<1>2. CASE Get
  <2>1. PICK k \in queue :
          /\ queue' = queue \ {k}
          /\ actor' = [actor EXCEPT ![Reconciler] =
                Busy(IF IsStandalone(cache[k]) THEN "deployment" ELSE "lookup",
                     k, cache[k], NoMap)]
    BY <1>2 DEF Get, IsStandalone
  <2> DEFINE call == Busy(IF IsStandalone(cache[k]) THEN "deployment" ELSE "lookup",
                          k, cache[k], NoMap)
  <2>2. call \in Calls
    BY DEF Busy, Calls, Steps, NoMap, TypeInv, CollectorsTypeOK
  <2>3. CallOK(call)
    BY DEF Busy, CallOK, Upserting, IsStandalone, Gone, TypeInv, CollectorsTypeOK
  <2> HIDE DEF call
  <2>4. CollectorsTypeOK'
    BY <1>2, <2>1, <2>2
    DEF Get, apiVars, clusterVars, mapVars, bounds, call, TypeInv, CollectorsTypeOK
  <2>5. CallsOK'
    BY <1>2, <2>1, <2>3 DEF Get, mapVars, CallsOK, CallOK, call, TypeInv
  <2>6. QED
    BY <2>4, <2>5 DEF TypeInv
<1>3. ASSUME NEW call \in {Idle} \cup Calls, actor' = [actor EXCEPT ![Reconciler] = call],
             CallOK(call), call.at # "store",
             UNCHANGED <<apiVars, informerVars, mapVars, writes, crashes>>,
             deployment' \in [Names -> Deployments \cup {NoObject}],
             service' \in [Names -> Services \cup {NoObject}],
             owned' \subseteq Names, failures' \in 0..MaxFailures
      PROVE  TypeInv'
  <2>1. CollectorsTypeOK'
    BY <1>1, <1>3 DEF apiVars, informerVars, mapVars, TypeInv, CollectorsTypeOK
  <2>2. CallsOK'
    BY <1>3 DEF mapVars, CallsOK, CallOK, TypeInv
  <2>3. QED
    BY <2>1, <2>2 DEF TypeInv
<1> DEFINE own == actor[Reconciler]
<1>4. own \in {Idle} \cup Calls /\ CallOK(own)
  BY <1>1 DEF CallsOK, TypeInv, CollectorsTypeOK
<1>5. Fails \/ UNCHANGED failures => failures' \in 0..MaxFailures
  BY DEF Fails, TypeInv, CollectorsTypeOK
(* The object of a Deployment or a Service, once the actor is known to have one. *)
<1>6. ASSUME own.at \in Upserting
      PROVE  /\ own \in Calls /\ own.name \in Names
             /\ own.object.config \in Configs /\ OwnerOf(own.object) \in Nat
             /\ IsStandalone(own.object) /\ own.object \in Objects
  BY <1>4, <1>6 DEF Idle, CallOK, Calls, Objects, OwnerOf, Upserting
<1>7. ASSUME Rest(Reconciler), UNCHANGED <<apiVars, clusterVars, informerVars, mapVars, writes, crashes>>,
             Fails
      PROVE  TypeInv'
  <2>1. CallOK(Idle) /\ Idle.at # "store"
    BY DEF CallOK, Idle, Upserting
  <2>2. QED
    BY <1>3, <1>5, <1>7, <2>1 DEF Rest, clusterVars, TypeInv, CollectorsTypeOK
(* The actor goes on, with what it has read. *)
<1>8. ASSUME own.at \in Upserting, NEW at \in Upserting \cup {"lookup"},
             NEW seen \in Deployments \cup Services \cup Actors \cup {NoObject}
      PROVE  LET call == [own EXCEPT !.at = at, !.seen = seen]
             IN  call \in Calls /\ CallOK(call) /\ call.at # "store"
  BY <1>6, <1>8 DEF Calls, Steps, CallOK, Upserting
<1>9. CASE GetDeployment
  <2>1. CASE Fails /\ Rest(Reconciler)
    BY <1>7, <1>9, <2>1 DEF GetDeployment
  <2>2. CASE /\ actor' = [actor EXCEPT ![Reconciler].at = "writeDeployment",
                                      ![Reconciler].seen = deployment[own.name]]
             /\ UNCHANGED failures
    <3> DEFINE call == [own EXCEPT !.at = "writeDeployment", !.seen = deployment[own.name]]
    <3>1. own.at \in Upserting
      BY <1>9 DEF GetDeployment, Upserting
    <3>2. deployment[own.name] \in Deployments \cup {NoObject}
      BY <1>6, <3>1 DEF TypeInv, CollectorsTypeOK
    <3>3. call \in Calls /\ CallOK(call) /\ call.at # "store"
      BY <1>8, <3>1, <3>2 DEF Upserting
    <3>4. actor' = [actor EXCEPT ![Reconciler] = call]
      BY <2>2
    <3> HIDE DEF call, own
    <3>5. QED
      BY <1>3, <1>5, <1>9, <2>2, <3>3, <3>4
      DEF GetDeployment, clusterVars, TypeInv, CollectorsTypeOK
  <2>3. QED
    BY <1>9, <2>1, <2>2 DEF GetDeployment
<1>10. CASE GetService
  <2>1. CASE Fails /\ Rest(Reconciler)
    BY <1>7, <1>10, <2>1 DEF GetService
  <2>2. CASE /\ actor' = [actor EXCEPT ![Reconciler].at = "writeService",
                                      ![Reconciler].seen = service[own.name]]
             /\ UNCHANGED failures
    <3> DEFINE call == [own EXCEPT !.at = "writeService", !.seen = service[own.name]]
    <3>1. own.at \in Upserting
      BY <1>10 DEF GetService, Upserting
    <3>2. service[own.name] \in Services \cup {NoObject}
      BY <1>6, <3>1 DEF TypeInv, CollectorsTypeOK
    <3>3. call \in Calls /\ CallOK(call) /\ call.at # "store"
      BY <1>8, <3>1, <3>2 DEF Upserting
    <3>4. actor' = [actor EXCEPT ![Reconciler] = call]
      BY <2>2
    <3> HIDE DEF call, own
    <3>5. QED
      BY <1>3, <1>5, <1>10, <2>2, <3>3, <3>4
      DEF GetService, clusterVars, TypeInv, CollectorsTypeOK
  <2>3. QED
    BY <1>10, <2>1, <2>2 DEF GetService
<1>11. ASSUME own.at \in Upserting, NEW at \in {"service", "lookup"}, Go(Reconciler, at)
       PROVE  LET call == [own EXCEPT !.at = at]
              IN  /\ call \in Calls /\ CallOK(call) /\ call.at # "store"
                  /\ actor' = [actor EXCEPT ![Reconciler] = call]
  BY <1>6, <1>11 DEF Calls, Steps, CallOK, Upserting, Go
<1>12. CASE WriteDeployment
  <2> DEFINE wanted == [config |-> own.object.config, owner |-> OwnerOf(own.object)]
  <2>1. own.at \in Upserting
    BY <1>12 DEF WriteDeployment, Upserting
  <2>2. own.name \in Names /\ wanted \in Deployments
    BY <1>6, <2>1 DEF Deployments
  <2>3. \/ deployment' = deployment
        \/ deployment' = [deployment EXCEPT ![own.name] = wanted]
    BY <1>12 DEF WriteDeployment
  <2>4. deployment' \in [Names -> Deployments \cup {NoObject}]
    BY <2>2, <2>3 DEF TypeInv, CollectorsTypeOK
  <2>5. owned' \subseteq Names /\ (Fails \/ UNCHANGED failures)
    BY <1>12, <2>2 DEF WriteDeployment, Tell, TypeInv, CollectorsTypeOK
  <2>6. QED
    BY <1>3, <1>5, <1>11, <1>12, <2>1, <2>4, <2>5
    DEF WriteDeployment, TypeInv, CollectorsTypeOK
<1>13. CASE WriteService
  <2> DEFINE made == [service EXCEPT ![own.name] = [owner |-> OwnerOf(own.object)]]
  <2>1. own.at \in Upserting
    BY <1>13 DEF WriteService, Upserting
  <2>2. own.name \in Names /\ [owner |-> OwnerOf(own.object)] \in Services
    BY <1>6, <2>1 DEF Services
  <2>3. service' = service \/ service' = made
    BY <1>13 DEF WriteService
  <2>4. service' \in [Names -> Services \cup {NoObject}]
    BY <2>2, <2>3 DEF TypeInv, CollectorsTypeOK
  <2>5. owned' \subseteq Names /\ (Fails \/ UNCHANGED failures)
    BY <1>13, <2>2 DEF WriteService, Tell, TypeInv, CollectorsTypeOK
  <2>6. QED
    BY <1>3, <1>5, <1>11, <1>13, <2>1, <2>4, <2>5
    DEF WriteService, TypeInv, CollectorsTypeOK
<1>14. QED
  BY <1>2, <1>9, <1>10, <1>12, <1>13

LEMMA CrashKeepsTypes ==
  ASSUME TypeInv, Crash
  PROVE  TypeInv'
<1>1. actor' \in [Actors -> {Idle} \cup Calls]
  <2>1. ASSUME NEW a \in Actors, actor[a] # Idle
        PROVE  [actor[a] EXCEPT !.at = "persist", !.seen = NoMap] \in Calls
    <3>1. actor[a] \in Calls
      BY <2>1 DEF TypeInv, CollectorsTypeOK
    <3>2. QED
      BY <3>1 DEF Calls, Steps, NoMap
  <2>2. QED
    BY <2>1 DEF Crash
<1>2. CollectorsTypeOK'
  <2>1. <<>> \in Seq(Objects \cup {NoObject})
    OBVIOUS
  <2>2. crashes \in 0..MaxCrashes /\ crashes < MaxCrashes /\ crashes' = crashes + 1
    BY DEF Crash, TypeInv, CollectorsTypeOK
  <2>3. crashes' \in 0..MaxCrashes
    BY <2>2, CollectorsAssumption
  <2>4. QED
    BY <1>1, <2>1, <2>3 DEF Crash, TypeInv, CollectorsTypeOK
<1>3. \A a \in Actors : actor'[a].at \in {"idle", "persist"}
  BY DEF Crash, TypeInv, CollectorsTypeOK, Calls, Idle
<1>4. CallsOK'
  BY <1>3 DEF Crash, CallsOK, CallOK, Upserting
<1>5. QED
  BY <1>2, <1>4 DEF TypeInv

LEMMA TypeIsKept == TypeInv /\ [Next]_vars => TypeInv'
<1> SUFFICES ASSUME TypeInv, [Next]_vars
             PROVE  TypeInv'
  OBVIOUS
<1>1. CASE UNCHANGED vars
  BY <1>1 DEF vars, TypeInv, CollectorsTypeOK, CallsOK, CallOK
<1>2. QED
  BY <1>1, UsersKeepTypes, ServersKeepTypes, RegisterKeepsTypes, ReconcilerKeepsTypes,
     CrashKeepsTypes
  DEF Next, Reconcile, Actors

(* The maps hold entries of collectors, the cluster what is made of them, and *)
(* no step works on an object or a map that is not there.                     *)
THEOREM CollectorsTypeCorrect == Spec => []CollectorsTypeOK
<1>1. TypeInv => CollectorsTypeOK
  BY DEF TypeInv
<1>2. QED
  BY <1>1, TypeHolds, TypeIsKept, PTL DEF Spec

-----------------------------------------------------------------------------
(* Before the informers have listed nothing is queued or registered.         *)
BeforeList ==
  ~synced => /\ queue = {} /\ owned = {}
             /\ outer = NoMap
             /\ \A k \in Names : watch[k] = <<>>
             /\ actor[Reconciler] = Idle
             /\ \A a \in Actors : actor[a].at \notin {"create", "store"}

(* A map that has been made is in use, and was made by an actor that did not *)
(* have one.                                                                 *)
MapsInUse ==
  /\ \A a \in Actors : inner[a] # NoMap => outer # NoMap
  /\ \A a \in Actors : actor[a].at = "create" => inner[a] = NoMap

(* The last event, or the copy that the informer has, is the object.         *)
Latest(k) == IF watch[k] = <<>> THEN cache[k] ELSE watch[k][Len(watch[k])]

CacheFollows == synced => \A k \in Names : Latest(k) = store[k]

(* The reconciler has the informer's copy, or the name is queued again.      *)
CopyIsFresh ==
  actor[Reconciler] # Idle =>
    LET k == actor[Reconciler].name
    IN  k \in queue \/ actor[Reconciler].object = cache[k]

(* A registration that differs from the informer's copy is about to be       *)
(* corrected, or a call of the API has failed on the way.                    *)
Corrected(k) ==
  \/ k \in queue
  \/ watch[k] # <<>>
  \/ \E a \in Actors : actor[a] # Idle /\ actor[a].name = k
  \/ Registered(k) = Entry(cache[k])
  \/ failures > 0 /\ IsStandalone(cache[k])

RegistrationsFollow == synced /\ ~Split => \A k \in Names : Corrected(k)

FreshInv == BeforeList /\ MapsInUse /\ CacheFollows /\ CopyIsFresh /\ RegistrationsFollow

LEMMA FreshHolds == Init => FreshInv
<1> SUFFICES ASSUME Init
             PROVE  FreshInv
  OBVIOUS
<1>1. BeforeList /\ MapsInUse /\ CopyIsFresh
  BY DEF Init, BeforeList, MapsInUse, CopyIsFresh, Idle, Actors
<1>2. CacheFollows /\ RegistrationsFollow
  BY DEF Init, CacheFollows, RegistrationsFollow
<1>3. QED
  BY <1>1, <1>2 DEF FreshInv

-----------------------------------------------------------------------------
(* What the steps have in common: those of the cluster and the informers,    *)
(* of upsertOtelCollector, and of the maps.                                  *)
Commits == User \/ \E r \in Requests : Persist(r)

Outside ==
  \/ Commits
  \/ List
  \/ \E r \in Requests : Ignore(r)
  \/ \E k \in Names : Deliver(k) \/ DeliverOwned(k) \/ Collect(k)

Upsert == GetDeployment \/ WriteDeployment \/ GetService \/ WriteService

LEMMA EveryStep ==
  Next => \/ Outside \/ Crash \/ Get \/ Upsert
          \/ \E a \in Actors : Register(a)
BY DEF Next, Outside, Commits, Reconcile, Upsert, Actors

(* A commit is told to the informers, if they have listed.                   *)
LEMMA CommitStep ==
  ASSUME TypeInv, Commits
  PROVE  /\ UNCHANGED <<informerVars, clusterVars, mapVars, failures>>
         /\ \/ UNCHANGED apiVars
            \/ \E k \in Names : \E object \in Objects \cup {NoObject} : Commit(k, object)
         /\ actor'[Reconciler] = actor[Reconciler]
         /\ \A a \in Actors : \/ actor'[a] = actor[a]
                              \/ actor[a] = Idle /\ actor'[a].at = "lookup"
                              \/ /\ actor[a].at = "persist" /\ actor'[a] = Idle
                                 /\ Commit(actor[a].name, actor[a].object)
<1>1. ASSUME NEW r \in Requests, NEW k \in Names, NEW m \in Modes, NEW c \in Configs,
             Create(r, k, m, c)
      PROVE  /\ UNCHANGED <<apiVars, informerVars, clusterVars, mapVars, failures>>
             /\ actor[r] = Idle
             /\ \A a \in Actors \ {r} : actor'[a] = actor[a]
             /\ actor'[r].at = "lookup"
  BY <1>1 DEF Create, Busy, TypeInv, CollectorsTypeOK, Actors
<1>2. ASSUME NEW k \in Names, NEW object \in Objects \cup {NoObject}, Commit(k, object),
             UNCHANGED <<clusterVars, informerVars, actor, mapVars, failures>>
      PROVE  /\ UNCHANGED <<informerVars, clusterVars, mapVars, failures, actor>>
             /\ \E n \in Names : \E o \in Objects \cup {NoObject} : Commit(n, o)
  BY <1>2
<1>3. ASSUME NEW k \in Names, NEW m \in Modes, NEW c \in Configs, Update(k, m, c)
      PROVE  /\ UNCHANGED <<informerVars, clusterVars, mapVars, failures, actor>>
             /\ \E n \in Names : \E o \in Objects \cup {NoObject} : Commit(n, o)
  <2>1. [store[k] EXCEPT !.mode = m, !.config = c] \in Objects
    BY <1>3 DEF Update, Objects, TypeInv, CollectorsTypeOK
  <2>2. QED
    BY <1>2, <1>3, <2>1 DEF Update
<1>4. ASSUME NEW k \in Names, MarkDeleting(k)
      PROVE  /\ UNCHANGED <<informerVars, clusterVars, mapVars, failures, actor>>
             /\ \E n \in Names : \E o \in Objects \cup {NoObject} : Commit(n, o)
  <2>1. [store[k] EXCEPT !.deleting = TRUE] \in Objects
    BY <1>4 DEF MarkDeleting, Gone, Objects, TypeInv, CollectorsTypeOK
  <2>2. QED
    BY <1>2, <1>4, <2>1 DEF MarkDeleting
<1>5. ASSUME NEW k \in Names, Delete(k)
      PROVE  /\ UNCHANGED <<informerVars, clusterVars, mapVars, failures, actor>>
             /\ \E n \in Names : \E o \in Objects \cup {NoObject} : Commit(n, o)
  BY <1>2, <1>5 DEF Delete, bounds
<1>6. ASSUME NEW r \in Requests, Persist(r)
      PROVE  /\ UNCHANGED <<informerVars, clusterVars, mapVars, failures>>
             /\ \E n \in Names : \E o \in Objects \cup {NoObject} : Commit(n, o)
             /\ \A a \in Actors \ {r} : actor'[a] = actor[a]
             /\ actor[r].at = "persist" /\ actor'[r] = Idle
             /\ Commit(actor[r].name, actor[r].object)
  <2>1. actor[r] \in Calls
    BY <1>6 DEF Persist, Idle, Actors, TypeInv, CollectorsTypeOK
  <2>2. actor[r].name \in Names /\ actor[r].object \in Objects \cup {NoObject}
    BY <2>1 DEF Calls
  <2>3. QED
    BY <1>6, <2>2 DEF Persist, Rest, bounds, Actors, TypeInv, CollectorsTypeOK
<1>7. Reconciler \in Actors /\ Reconciler \notin Requests
  BY CollectorsAssumption DEF Actors
<1>8. QED
  BY <1>1, <1>3, <1>4, <1>5, <1>6, <1>7 DEF Commits, User

LEMMA OutsideStep ==
  ASSUME TypeInv, Outside
  PROVE  /\ UNCHANGED <<mapVars, failures>>
         /\ actor'[Reconciler] = actor[Reconciler]
         /\ \A a \in Actors : \/ actor'[a] = actor[a]
                              \/ actor'[a].at \notin {"create", "store"}
<1>1. CASE Commits
  BY <1>1, CommitStep DEF Idle
<1>2. ASSUME NEW r \in Requests, Ignore(r)
      PROVE  /\ UNCHANGED <<mapVars, failures>>
             /\ actor'[Reconciler] = actor[Reconciler]
             /\ \A a \in Actors : \/ actor'[a] = actor[a]
                                  \/ actor'[a].at \notin {"create", "store"}
  <2>1. r \in Actors /\ Reconciler \in Actors /\ Reconciler # r
    BY CollectorsAssumption DEF Actors
  <2>2. actor[r] \in Calls
    BY <1>2, <2>1 DEF Ignore, Idle, TypeInv, CollectorsTypeOK
  <2>3. actor' = [actor EXCEPT ![r] = [actor[r] EXCEPT !.at = "persist"]]
    BY <1>2 DEF Ignore, Go
  <2>4. [actor[r] EXCEPT !.at = "persist"].at = "persist"
    BY <2>2 DEF Calls
  <2>5. QED
    BY <1>2, <2>1, <2>3, <2>4 DEF Ignore, bounds, TypeInv, CollectorsTypeOK
<1>3. ASSUME \/ List
             \/ \E k \in Names : Deliver(k) \/ DeliverOwned(k) \/ Collect(k)
      PROVE  UNCHANGED <<mapVars, failures, actor>>
  BY <1>3 DEF List, Deliver, DeliverOwned, Collect, bounds
<1>4. QED
  BY <1>1, <1>2, <1>3 DEF Outside

(* The reconcile goes on with its object, or is given up for an error. *)
LEMMA UpsertStep ==
  ASSUME TypeInv, Upsert
  PROVE  /\ UNCHANGED <<apiVars, informerVars, mapVars>>
         /\ failures' >= failures
         /\ actor[Reconciler] # Idle /\ IsStandalone(actor[Reconciler].object)
         /\ \A a \in Actors \ {Reconciler} : actor'[a] = actor[a]
         /\ \/ actor'[Reconciler] = Idle /\ failures' > 0
            \/ /\ actor'[Reconciler].at \notin {"idle", "create", "store"}
               /\ actor'[Reconciler].name = actor[Reconciler].name
               /\ actor'[Reconciler].object = actor[Reconciler].object
<1> DEFINE own == actor[Reconciler]
<1>1. own.at \in Upserting
  BY DEF Upsert, GetDeployment, WriteDeployment, GetService, WriteService, Upserting
<1>2. own # Idle /\ IsStandalone(own.object) /\ own \in Calls
  BY <1>1 DEF TypeInv, CollectorsTypeOK, CallsOK, CallOK, Idle, Upserting, Actors
<1>3. failures \in Nat /\ (failures' = failures \/ failures' = failures + 1)
  BY CollectorsAssumption
  DEF Upsert, GetDeployment, WriteDeployment, GetService, WriteService, Fails, TypeInv,
      CollectorsTypeOK
<1>4. UNCHANGED <<apiVars, informerVars, mapVars>>
  BY DEF Upsert, GetDeployment, WriteDeployment, GetService, WriteService
<1>5. \/ Fails /\ Rest(Reconciler)
      \/ Go(Reconciler, "service") \/ Go(Reconciler, "lookup")
      \/ \E at \in {"writeDeployment", "writeService"} : \E seen :
           actor' = [actor EXCEPT ![Reconciler] = [own EXCEPT !.at = at, !.seen = seen]]
  BY DEF Upsert, GetDeployment, WriteDeployment, GetService, WriteService
<1>6. CASE Fails /\ Rest(Reconciler)
  <2>1. failures' > 0
    BY <1>3, <1>6 DEF Fails
  <2>2. QED
    BY <1>2, <1>3, <1>4, <1>6, <2>1 DEF Rest, Actors, TypeInv, CollectorsTypeOK
<1>7. ASSUME NEW call, actor' = [actor EXCEPT ![Reconciler] = call],
             call.at \notin {"idle", "create", "store"},
             call.name = own.name, call.object = own.object
      PROVE  /\ \A a \in Actors \ {Reconciler} : actor'[a] = actor[a]
             /\ actor'[Reconciler] = call
  BY <1>7 DEF Actors, TypeInv, CollectorsTypeOK
<1>8. CASE \E at \in {"service", "lookup"} : Go(Reconciler, at)
  <2>1. PICK at \in {"service", "lookup"} : Go(Reconciler, at)
    BY <1>8
  <2> DEFINE call == [own EXCEPT !.at = at]
  <2>2. call.at = at /\ call.name = own.name /\ call.object = own.object
    BY <1>2 DEF Calls
  <2>3. actor' = [actor EXCEPT ![Reconciler] = call]
    BY <2>1 DEF Go
  <2> HIDE DEF call
  <2>4. /\ \A a \in Actors \ {Reconciler} : actor'[a] = actor[a]
        /\ actor'[Reconciler] = call
    BY <1>7, <2>2, <2>3
  <2>5. QED
    BY <1>2, <1>3, <1>4, <2>2, <2>4
<1>9. CASE \E at \in {"writeDeployment", "writeService"} : \E seen :
             actor' = [actor EXCEPT ![Reconciler] = [own EXCEPT !.at = at, !.seen = seen]]
  <2>0. PICK at \in {"writeDeployment", "writeService"} : \E seen :
             actor' = [actor EXCEPT ![Reconciler] = [own EXCEPT !.at = at, !.seen = seen]]
    BY <1>9
  <2>1. PICK seen : actor' = [actor EXCEPT ![Reconciler] = [own EXCEPT !.at = at, !.seen = seen]]
    BY <2>0
  <2> DEFINE call == [own EXCEPT !.at = at, !.seen = seen]
  <2>2. call.at = at /\ call.name = own.name /\ call.object = own.object
    BY <1>2 DEF Calls
  <2>3. actor' = [actor EXCEPT ![Reconciler] = call]
    BY <2>1
  <2> HIDE DEF call
  <2>4. /\ \A a \in Actors \ {Reconciler} : actor'[a] = actor[a]
        /\ actor'[Reconciler] = call
    BY <1>7, <2>2, <2>3
  <2>5. QED
    BY <1>2, <1>3, <1>4, <2>2, <2>4
<1>10. QED
  BY <1>5, <1>6, <1>8, <1>9

(* An actor goes on with its object; the reconciler may be done. *)
LEMMA RegisterStep ==
  ASSUME TypeInv, NEW a \in Actors, Register(a)
  PROVE  /\ UNCHANGED <<apiVars, clusterVars, informerVars, bounds>>
         /\ actor[a] \in Calls
         /\ \A b \in Actors \ {a} : actor'[b] = actor[b]
         /\ \/ actor'[a] = Idle /\ a = Reconciler
            \/ /\ actor'[a].at # "idle"
               /\ actor'[a].name = actor[a].name /\ actor'[a].object = actor[a].object
<1>1. actor[a] \in Calls
  BY DEF Register, Lookup, CreateMap, Store, Idle, TypeInv, CollectorsTypeOK
<1>2. UNCHANGED <<apiVars, clusterVars, informerVars, bounds>>
  BY DEF Register, Lookup, CreateMap, Store
<1>3. \/ Rest(a) /\ a = Reconciler
      \/ \E at \in {"create", "persist"} : Go(a, at)
      \/ \E seen : actor' = [actor EXCEPT ![a] = [actor[a] EXCEPT !.at = "store", !.seen = seen]]
  BY DEF Register, Lookup, CreateMap, Store, Done
<1>4. ASSUME NEW call, actor' = [actor EXCEPT ![a] = call]
      PROVE  actor'[a] = call /\ \A b \in Actors \ {a} : actor'[b] = actor[b]
  BY <1>4 DEF TypeInv, CollectorsTypeOK
<1>5. ASSUME NEW at \in {"create", "persist"}, Go(a, at)
      PROVE  /\ \A b \in Actors \ {a} : actor'[b] = actor[b]
             /\ actor'[a].at # "idle"
             /\ actor'[a].name = actor[a].name /\ actor'[a].object = actor[a].object
  <2> DEFINE call == [actor[a] EXCEPT !.at = at]
  <2>1. call.at # "idle" /\ call.name = actor[a].name /\ call.object = actor[a].object
    BY <1>1 DEF Calls
  <2>2. actor' = [actor EXCEPT ![a] = call]
    BY <1>5 DEF Go
  <2> HIDE DEF call
  <2>3. QED
    BY <1>4, <2>1, <2>2
<1>6. ASSUME NEW seen,
             actor' = [actor EXCEPT ![a] = [actor[a] EXCEPT !.at = "store", !.seen = seen]]
      PROVE  /\ \A b \in Actors \ {a} : actor'[b] = actor[b]
             /\ actor'[a].at # "idle"
             /\ actor'[a].name = actor[a].name /\ actor'[a].object = actor[a].object
  <2> DEFINE call == [actor[a] EXCEPT !.at = "store", !.seen = seen]
  <2>1. call.at # "idle" /\ call.name = actor[a].name /\ call.object = actor[a].object
    BY <1>1 DEF Calls
  <2>2. actor' = [actor EXCEPT ![a] = call]
    BY <1>6
  <2> HIDE DEF call
  <2>3. QED
    BY <1>4, <2>1, <2>2
<1>7. QED
  BY <1>1, <1>2, <1>3, <1>4, <1>5, <1>6 DEF Rest

-----------------------------------------------------------------------------
LEMMA BeforeListIsKept ==
  ASSUME TypeInv, BeforeList, Next
  PROVE  BeforeList'
<1>1. Reconciler \in Actors
  BY DEF Actors
<1>2. CASE Crash
  <2>1. \A a \in Actors : actor'[a].at \notin {"create", "store"}
    BY <1>2 DEF Crash, TypeInv, CollectorsTypeOK, Calls, Idle
  <2>2. QED
    BY <1>1, <1>2, <2>1 DEF Crash, BeforeList
<1>3. CASE synced /\ ~Crash
  <2>1. synced'
    BY <1>3
    DEF Next, User, Create, Update, MarkDeleting, Delete, Ignore, Persist, List, Reconcile,
                Get, Register, Lookup, CreateMap, Store, GetDeployment, WriteDeployment, GetService,
                WriteService, Deliver, DeliverOwned, Collect, informerVars
  <2>2. QED
    BY <2>1 DEF BeforeList
<1>4. CASE ~synced
  <2> SUFFICES ASSUME ~Crash, ~List
               PROVE  BeforeList'
    BY <1>2 DEF List, BeforeList
  <2>1. Outside
    <3>1. ~Get
      BY <1>4 DEF Get
    <3>2. ~Upsert
      BY <1>4, UpsertStep DEF BeforeList
    <3>3. ASSUME NEW a \in Actors
          PROVE  ~Register(a)
      BY <1>4 DEF BeforeList, Register, Lookup, CreateMap, Store
    <3>4. QED
      BY <3>1, <3>2, <3>3, EveryStep
  <2>2. /\ actor'[Reconciler] = Idle
        /\ \A a \in Actors : actor'[a].at \notin {"create", "store"}
        /\ outer' = NoMap
    BY <1>4, <2>1, OutsideStep DEF BeforeList, mapVars
  <2>3. queue' = {} /\ owned' = {} /\ \A k \in Names : watch'[k] = <<>>
    <3>1. CASE Commits
      BY <1>4, <3>1, CommitStep
      DEF BeforeList, informerVars, clusterVars, apiVars, Commit, TypeInv, CollectorsTypeOK
    <3>2. ASSUME NEW r \in Requests, Ignore(r)
          PROVE  UNCHANGED <<queue, owned, watch>>
      BY <3>2 DEF Ignore, informerVars, clusterVars, apiVars
    <3>3. ASSUME NEW k \in Names, Deliver(k) \/ DeliverOwned(k) \/ Collect(k)
          PROVE  UNCHANGED <<queue, owned, watch>>
      BY <1>4, <3>3
      DEF BeforeList, Deliver, DeliverOwned, Collect, Tell, informerVars, apiVars
    <3>4. QED
      BY <1>4, <2>1, <3>1, <3>2, <3>3 DEF Outside, BeforeList
  <2>4. QED
    BY <2>2, <2>3 DEF BeforeList
<1>5. QED
  BY <1>2, <1>3, <1>4

LEMMA MapsInUseIsKept ==
  ASSUME TypeInv, MapsInUse, Next
  PROVE  MapsInUse'
<1>1. ASSUME UNCHANGED mapVars,
             \A a \in Actors : actor'[a].at = "create" => actor[a].at = "create"
      PROVE  MapsInUse'
  BY <1>1 DEF MapsInUse, mapVars
<1>2. CASE Outside
  BY <1>1, <1>2, OutsideStep
<1>3. CASE Upsert
  BY <1>1, <1>3, UpsertStep DEF Idle
<1>4. CASE Get
  <2>1. UNCHANGED mapVars /\ \A a \in Actors : actor'[a] = actor[a] \/ actor'[a].at # "create"
    BY <1>4 DEF Get, Busy, TypeInv, CollectorsTypeOK
  <2>2. QED
    BY <1>1, <2>1
<1>5. CASE Crash
  <2>1. \A a \in Actors : actor'[a].at # "create"
    BY <1>5 DEF Crash, TypeInv, CollectorsTypeOK, Calls, Idle
  <2>2. QED
    BY <1>5, <2>1 DEF Crash, MapsInUse
<1>6. ASSUME NEW a \in Actors, Lookup(a)
      PROVE  MapsInUse'
  <2>1. CASE outer # NoMap
    <3>1. actor' = [actor EXCEPT ![a] = [actor[a] EXCEPT !.at = "store", !.seen = outer]]
      BY <1>6, <2>1 DEF Lookup
    <3>2. actor'[a].at = "store"
      BY <1>6, <3>1, RegisterStep DEF Register, Calls, TypeInv, CollectorsTypeOK
    <3>3. QED
      BY <1>1, <1>6, <3>2, RegisterStep DEF Lookup, Register
  <2>2. CASE outer = NoMap
    BY <1>6, <2>2, RegisterStep DEF Lookup, Register, MapsInUse, mapVars
  <2>3. QED
    BY <2>1, <2>2
<1>7. ASSUME NEW a \in Actors, CreateMap(a) \/ Store(a)
      PROVE  MapsInUse'
  <2>1. PICK m \in Actors : outer' = m /\ \A b \in Actors \ {m} : inner'[b] = inner[b]
    BY <1>7 DEF CreateMap, Store, TypeInv, CollectorsTypeOK, CallsOK, CallOK
  <2>2. m = a \/ inner[m] # NoMap
    BY <1>7, <2>1, NoObjectAssumption
    DEF CreateMap, Store, TypeInv, CollectorsTypeOK, CallsOK, CallOK, NoMap
  <2>3. outer' # NoMap
    BY <2>1, NoObjectAssumption DEF NoMap
  <2>4. actor'[a].at # "create" /\ \A b \in Actors \ {a} : actor'[b] = actor[b]
    <3>1. \A b \in Actors \ {a} : actor'[b] = actor[b]
      BY <1>7, RegisterStep DEF Register
    <3>2. CASE CreateMap(a)
      BY <1>7, <3>2, RegisterStep DEF CreateMap, Register, Calls, TypeInv, CollectorsTypeOK
    <3>3. CASE Store(a)
      BY <1>7, <3>3, RegisterStep
      DEF Store, Done, Rest, Go, Idle, Register, Calls, TypeInv, CollectorsTypeOK
    <3>4. QED
      BY <1>7, <3>1, <3>2, <3>3
  <2>5. ASSUME NEW b \in Actors, actor'[b].at = "create"
        PROVE  inner'[b] = NoMap
    BY <2>1, <2>2, <2>4, <2>5 DEF MapsInUse
  <2>6. QED
    BY <2>3, <2>5 DEF MapsInUse
<1>8. QED
  BY <1>2, <1>3, <1>4, <1>5, <1>6, <1>7, EveryStep DEF Register

(* The last of the tail of a sequence is its last. *)
LEMMA LastOfTail ==
  ASSUME NEW S, NEW w \in Seq(S), w # <<>>
  PROVE  IF Tail(w) = <<>> THEN Head(w) = w[Len(w)]
         ELSE Tail(w)[Len(Tail(w))] = w[Len(w)]
<1>1. Len(w) \in Nat \ {0} /\ Head(w) = w[1]
  BY EmptySeq
<1>2. /\ Tail(w) \in Seq(S)
      /\ Len(Tail(w)) = Len(w) - 1
      /\ \A i \in 1..Len(Tail(w)) : Tail(w)[i] = w[i + 1]
  BY HeadTailProperties
<1>3. Tail(w) = <<>> <=> Len(w) = 1
  BY <1>1, <1>2, EmptySeq, SMTT(60)
<1>4. CASE Len(w) = 1
  BY <1>1, <1>3, <1>4
<1>5. CASE Len(w) # 1
  BY <1>1, <1>2, <1>3, <1>5
<1>6. QED
  BY <1>4, <1>5

LEMMA CacheFollowsIsKept ==
  ASSUME TypeInv, BeforeList, CacheFollows, Next
  PROVE  CacheFollows'
<1>1. ASSUME UNCHANGED <<store, watch, cache, synced>>
      PROVE  CacheFollows'
  BY <1>1 DEF CacheFollows, Latest
<1>2. ASSUME NEW k \in Names, NEW object \in Objects \cup {NoObject}, Commit(k, object),
             UNCHANGED <<cache, synced>>
      PROVE  CacheFollows'
  <2> SUFFICES ASSUME synced, NEW n \in Names
               PROVE  Latest(n)' = store'[n]
    BY <1>2 DEF CacheFollows
  <2>1. CASE n # k
    BY <1>2, <2>1 DEF Commit, CacheFollows, Latest, TypeInv, CollectorsTypeOK
  <2>2. CASE n = k
    <3>1. watch[k] \in Seq(Objects \cup {NoObject})
      BY DEF TypeInv, CollectorsTypeOK
    <3>2. watch'[k] = Append(watch[k], object) /\ store'[k] = object
      BY <1>2 DEF Commit, TypeInv, CollectorsTypeOK
    <3>3. watch'[k] # <<>> /\ watch'[k][Len(watch'[k])] = object
      BY <3>1, <3>2
    <3>4. QED
      BY <2>2, <3>2, <3>3 DEF Latest
  <2>3. QED
    BY <2>1, <2>2
<1>3. CASE Commits
  <2>1. UNCHANGED <<cache, synced>>
    BY <1>3, CommitStep DEF informerVars
  <2>2. QED
    BY <1>1, <1>2, <1>3, <2>1, CommitStep DEF apiVars
<1>4. ASSUME NEW k \in Names, Deliver(k)
      PROVE  CacheFollows'
  <2> SUFFICES ASSUME synced, NEW n \in Names
               PROVE  Latest(n)' = store'[n]
    BY <1>4 DEF Deliver, CacheFollows
  <2>1. CASE n # k
    BY <1>4, <2>1 DEF Deliver, CacheFollows, Latest, TypeInv, CollectorsTypeOK
  <2>2. CASE n = k
    <3>1. watch[k] \in Seq(Objects \cup {NoObject}) /\ watch[k] # <<>>
      BY <1>4 DEF Deliver, TypeInv, CollectorsTypeOK
    <3>2. watch'[k] = Tail(watch[k]) /\ cache'[k] = Head(watch[k]) /\ store' = store
      BY <1>4 DEF Deliver, TypeInv, CollectorsTypeOK
    <3>3. store[k] = watch[k][Len(watch[k])]
      BY <3>1 DEF CacheFollows, Latest
    <3>4. QED
      BY <2>2, <3>1, <3>2, <3>3, LastOfTail DEF Latest
  <2>3. QED
    BY <2>1, <2>2
<1>5. CASE List
  BY <1>5 DEF List, BeforeList, CacheFollows, Latest, apiVars
<1>6. CASE Crash
  BY <1>6 DEF Crash, CacheFollows
<1>7. ASSUME \/ Get
             \/ Upsert
             \/ \E a \in Actors : Register(a)
             \/ \E r \in Requests : Ignore(r)
             \/ \E k \in Names : DeliverOwned(k) \/ Collect(k)
      PROVE  UNCHANGED <<store, watch, cache, synced>>
  BY <1>7, UpsertStep, RegisterStep
  DEF Get, Ignore, DeliverOwned, Collect, apiVars, informerVars
<1>8. QED
  BY <1>1, <1>3, <1>4, <1>5, <1>6, <1>7, EveryStep DEF Outside

LEMMA CopyIsFreshIsKept ==
  ASSUME TypeInv, BeforeList, CopyIsFresh, Next
  PROVE  CopyIsFresh'
<1>1. ASSUME actor'[Reconciler] # Idle => /\ actor[Reconciler] # Idle
                                          /\ actor'[Reconciler].name = actor[Reconciler].name
                                          /\ actor'[Reconciler].object = actor[Reconciler].object,
             queue \subseteq queue',
             \A k \in Names : k \in queue' \/ cache'[k] = cache[k]
      PROVE  CopyIsFresh'
  <2>1. actor[Reconciler] # Idle => actor[Reconciler].name \in Names
    BY DEF TypeInv, CollectorsTypeOK, Calls, Actors
  <2>2. QED
    BY <1>1, <2>1 DEF CopyIsFresh
<1>2. CASE Outside
  <2>1. actor'[Reconciler] = actor[Reconciler]
    BY <1>2, OutsideStep
  <2>2. CASE List
    BY <2>1, <2>2 DEF List, BeforeList, CopyIsFresh
  <2>3. CASE Commits
    BY <1>1, <2>1, <2>3, CommitStep DEF informerVars
  <2>4. ASSUME NEW r \in Requests, Ignore(r)
        PROVE  CopyIsFresh'
    BY <1>1, <2>1, <2>4 DEF Ignore, informerVars
  <2>5. ASSUME NEW k \in Names, Deliver(k) \/ DeliverOwned(k) \/ Collect(k)
        PROVE  CopyIsFresh'
    <3>1. queue \subseteq queue' /\ \A n \in Names : n \in queue' \/ cache'[n] = cache[n]
      BY <2>5 DEF Deliver, DeliverOwned, Collect, informerVars, TypeInv, CollectorsTypeOK
    <3>2. QED
      BY <1>1, <2>1, <3>1
  <2>6. QED
    BY <1>2, <2>2, <2>3, <2>4, <2>5 DEF Outside
<1>3. CASE Upsert
  BY <1>1, <1>3, UpsertStep DEF informerVars
<1>4. ASSUME NEW a \in Actors, Register(a)
      PROVE  CopyIsFresh'
  <2>1. UNCHANGED informerVars
    BY <1>4, RegisterStep
  <2>2. CASE a # Reconciler
    BY <1>1, <1>4, <2>1, <2>2, RegisterStep DEF informerVars, Actors
  <2>3. CASE a = Reconciler
    BY <1>1, <1>4, <2>1, <2>3, RegisterStep DEF informerVars, Calls, Steps, Idle
  <2>4. QED
    BY <2>2, <2>3
<1>5. CASE Get
  <2>1. PICK k \in queue : \E at : actor' = [actor EXCEPT ![Reconciler] =
                                               Busy(at, k, cache[k], NoMap)]
    BY <1>5 DEF Get
  <2>2. actor'[Reconciler].name = k /\ actor'[Reconciler].object = cache[k]
    BY <2>1 DEF Busy, Actors, TypeInv, CollectorsTypeOK
  <2>3. QED
    BY <1>5, <2>2 DEF Get, CopyIsFresh
<1>6. CASE Crash
  BY <1>6 DEF Crash, CopyIsFresh, Actors
<1>7. QED
  BY <1>2, <1>3, <1>4, <1>5, <1>6, EveryStep

-----------------------------------------------------------------------------
(* What storing an entry does to the maps. *)
LEMMA StoreStep ==
  ASSUME TypeInv, NEW a \in Actors, Store(a)
  PROVE  LET m == actor[a].seen
         IN  /\ m \in Actors /\ inner[m] \in Maps /\ inner'[m] \in Maps
             /\ outer' = m
             /\ inner'[m] = [inner[m] EXCEPT ![actor[a].name] = Entry(actor[a].object)]
             /\ \A b \in Actors \ {m} : inner'[b] = inner[b]
<1> DEFINE m == actor[a].seen
           e == Entry(actor[a].object)
<1>1. m \in Actors /\ inner[m] \in Maps
  BY DEF Store, TypeInv, CallsOK, CallOK
<1>2. e \in Entries \cup {NoObject}
  <2>1. actor[a].object \in Objects \cup {NoObject}
    BY RegisterStep DEF Register, Calls
  <2>2. QED
    BY <2>1 DEF Entry, Gone, Objects, Entries
<1>3. inner' = [inner EXCEPT ![m] = [inner[m] EXCEPT ![actor[a].name] = e]] /\ outer' = m
  BY DEF Store
<1>4. [inner[m] EXCEPT ![actor[a].name] = e] \in Maps
  BY <1>1, <1>2 DEF Maps
<1> HIDE DEF m, e
<1>5. /\ inner'[m] = [inner[m] EXCEPT ![actor[a].name] = e]
      /\ \A b \in Actors \ {m} : inner'[b] = inner[b]
  BY <1>1, <1>3 DEF TypeInv, CollectorsTypeOK
<1>6. QED
  BY <1>1, <1>3, <1>4, <1>5 DEF m, e

(* Two maps stay two, as long as the process goes on. *)
LEMMA SplitStays ==
  ASSUME TypeInv, Next, ~Crash, Split
  PROVE  Split'
<1>1. \A a \in Actors : inner[a] # NoMap => inner'[a] # NoMap
  <2>1. CASE UNCHANGED mapVars
    BY <2>1 DEF mapVars
  <2>2. ASSUME NEW a \in Actors, CreateMap(a)
        PROVE  \A b \in Actors : inner[b] # NoMap => inner'[b] # NoMap
    <3>1. EmptyMap \in Maps
      BY DEF EmptyMap, Maps
    <3>2. QED
      BY <2>2, <3>1, NoObjectAssumption DEF CreateMap, NoMap, TypeInv, CollectorsTypeOK
  <2>3. ASSUME NEW a \in Actors, Store(a)
        PROVE  \A b \in Actors : inner[b] # NoMap => inner'[b] # NoMap
    BY <2>3, StoreStep, NoObjectAssumption DEF NoMap
  <2>4. Outside \/ Upsert \/ Get \/ (\E a \in Actors : Lookup(a)) => UNCHANGED mapVars
    BY OutsideStep, UpsertStep DEF Get, Lookup
  <2>5. QED
    BY <2>1, <2>2, <2>3, <2>4, EveryStep DEF Register
<1>2. QED
  BY <1>1 DEF Split

(* A map that is made when there is only one was not there before. *)
LEMMA FirstMap ==
  ASSUME TypeInv, MapsInUse, NEW a \in Actors, CreateMap(a), ~Split'
  PROVE  outer = NoMap /\ \A k \in Names : Registered(k) = NoObject /\ Registered(k)' = NoObject
<1>1. /\ inner' = [inner EXCEPT ![a] = EmptyMap] /\ outer' = a
      /\ inner[a] = NoMap
  BY DEF CreateMap, MapsInUse
<1>2. EmptyMap \in Maps /\ NoMap \notin Maps
  BY NoObjectAssumption DEF EmptyMap, Maps, NoMap
<1>3. inner'[a] = EmptyMap /\ \A b \in Actors \ {a} : inner'[b] = inner[b]
  BY <1>1 DEF TypeInv, CollectorsTypeOK
<1>4. ASSUME NEW b \in Actors
      PROVE  inner[b] = NoMap
  BY <1>1, <1>2, <1>3 DEF Split
<1>5. outer = NoMap
  BY <1>2, <1>4 DEF TypeInv, CollectorsTypeOK, CallsOK
<1>6. QED
  BY <1>1, <1>3, <1>5 DEF Registered, EmptyMap

LEMMA RegistrationsFollowIsKept ==
  ASSUME TypeInv, FreshInv, Next
  PROVE  RegistrationsFollow'
<1> SUFFICES ASSUME synced', ~Split', NEW n \in Names
             PROVE  Corrected(n)'
  BY DEF RegistrationsFollow
<1> USE DEF FreshInv
<1>1. Reconciler \in Actors /\ Reconciler \notin Requests
  BY CollectorsAssumption DEF Actors
<1>2. CASE List
  <2>1. outer' = NoMap /\ cache' = store /\ (store[n] # NoObject => n \in queue')
    BY <1>2 DEF List, BeforeList, mapVars
  <2>2. QED
    BY <2>1 DEF Corrected, Registered, Entry, Gone
<1>3. ~Crash
  BY DEF Crash
<1> SUFFICES ASSUME synced, ~List
             PROVE  Corrected(n)'
  <2>1. synced \/ List
    BY <1>3
    DEF Next, User, Create, Update, MarkDeleting, Delete, Ignore, Persist, List, Reconcile,
                Get, Register, Lookup, CreateMap, Store, GetDeployment, WriteDeployment, GetService,
                WriteService, Deliver, DeliverOwned, Collect, informerVars
  <2>2. QED
    BY <1>2, <2>1
<1>4. Corrected(n)
  BY <1>3, SplitStays DEF RegistrationsFollow
(* Nothing is taken back. *)
<1>5. ASSUME n \in queue => n \in queue',
             watch[n] # <<>> => watch'[n] # <<>> \/ n \in queue',
             \A a \in Actors : actor[a] # Idle /\ actor[a].name = n =>
               \/ actor'[a] # Idle /\ actor'[a].name = n
               \/ watch'[n] # <<>>,
             UNCHANGED mapVars, n \in queue' \/ UNCHANGED cache, failures' >= failures
      PROVE  Corrected(n)'
  <2>1. CASE failures > 0 /\ IsStandalone(cache[n])
    <3>1. failures' > 0
      BY <1>5, <2>1, TypeIsKept DEF TypeInv, CollectorsTypeOK
    <3>2. QED
      BY <1>5, <2>1, <3>1 DEF Corrected
  <2>2. QED
    BY <1>4, <1>5, <2>1 DEF Corrected, Registered, mapVars
<1>6. failures \in Nat
  BY DEF TypeInv, CollectorsTypeOK
<1>7. CASE Commits
  <2>1. /\ n \in queue => n \in queue'
        /\ UNCHANGED <<mapVars, cache, failures>>
    BY <1>7, CommitStep DEF informerVars
  <2>2. ASSUME NEW k \in Names, NEW object \in Objects \cup {NoObject}, Commit(k, object)
        PROVE  (watch[n] # <<>> => watch'[n] # <<>>) /\ watch'[k] # <<>>
    <3>1. watch[k] \in Seq(Objects \cup {NoObject})
      BY DEF TypeInv, CollectorsTypeOK
    <3>2. watch' = [watch EXCEPT ![k] = Append(watch[k], object)]
      BY <2>2 DEF Commit
    <3>3. Append(watch[k], object) # <<>>
      BY <3>1
    <3>4. QED
      BY <3>2, <3>3 DEF TypeInv, CollectorsTypeOK
  <2>3. watch[n] # <<>> => watch'[n] # <<>>
    BY <1>7, <2>2, CommitStep DEF apiVars
  <2>4. ASSUME NEW a \in Actors, actor[a] # Idle, actor[a].name = n
        PROVE  (actor'[a] # Idle /\ actor'[a].name = n) \/ watch'[n] # <<>>
    <3>1. actor[a] \in Calls /\ actor[a].object \in Objects \cup {NoObject}
      BY <2>4 DEF TypeInv, CollectorsTypeOK, Calls
    <3>2. QED
      BY <1>7, <2>2, <2>4, <3>1, CommitStep
  <2>5. QED
    BY <1>5, <1>6, <2>1, <2>3, <2>4
<1>8. ASSUME NEW r \in Requests, Ignore(r)
      PROVE  Corrected(n)'
  <2>1. r \in Actors /\ actor[r] \in Calls
    BY <1>8 DEF Ignore, Idle, Actors, TypeInv, CollectorsTypeOK
  <2> DEFINE call == [actor[r] EXCEPT !.at = "persist"]
  <2>2. call.at = "persist" /\ call.name = actor[r].name
    BY <2>1 DEF Calls
  <2>3. actor' = [actor EXCEPT ![r] = call]
    BY <1>8 DEF Ignore, Go
  <2> HIDE DEF call
  <2>4. \A a \in Actors : actor[a] # Idle => actor'[a] # Idle /\ actor'[a].name = actor[a].name
    BY <2>1, <2>2, <2>3 DEF Idle, TypeInv, CollectorsTypeOK
  <2>5. QED
    BY <1>5, <1>6, <1>8, <2>4 DEF Ignore, apiVars, informerVars, bounds
<1>9. ASSUME NEW k \in Names, Deliver(k)
      PROVE  Corrected(n)'
  <2>1. CASE n = k
    BY <1>9, <2>1 DEF Deliver, Corrected
  <2>2. CASE n # k
    <3>1. watch'[n] = watch[n] /\ cache'[n] = cache[n] /\ (n \in queue => n \in queue')
      BY <1>9, <2>2 DEF Deliver, TypeInv, CollectorsTypeOK
    <3>2. UNCHANGED <<actor, mapVars, failures>>
      BY <1>9 DEF Deliver, bounds
    <3>3. QED
      BY <1>4, <3>1, <3>2 DEF Corrected, Registered, mapVars
  <2>3. QED
    BY <2>1, <2>2
<1>10. ASSUME NEW k \in Names, DeliverOwned(k) \/ Collect(k)
       PROVE  Corrected(n)'
  BY <1>5, <1>6, <1>10 DEF DeliverOwned, Collect, apiVars, informerVars, bounds
<1>11. CASE Get
  <2>1. PICK k \in queue :
          /\ queue' = queue \ {k}
          /\ \E at \in {"deployment", "lookup"} :
               actor' = [actor EXCEPT ![Reconciler] = Busy(at, k, cache[k], NoMap)]
    BY <1>11 DEF Get
  <2>2. /\ actor'[Reconciler].name = k /\ actor'[Reconciler].at # "idle"
        /\ \A a \in Actors \ {Reconciler} : actor'[a] = actor[a]
    BY <1>1, <2>1 DEF Busy, TypeInv, CollectorsTypeOK
  <2>3. CASE n = k
    BY <1>1, <2>1, <2>2, <2>3 DEF Corrected, Idle
  <2>4. CASE n # k
    BY <1>5, <1>6, <1>11, <2>1, <2>2, <2>4 DEF Get, apiVars, bounds
  <2>5. QED
    BY <2>3, <2>4
(* The reconcile that corrects n is done. *)
<1>12. ASSUME actor[Reconciler] # Idle, actor[Reconciler].name = n,
              UNCHANGED <<queue, cache>>,
              \/ Registered(n)' = Entry(actor[Reconciler].object)
              \/ failures' > 0 /\ IsStandalone(actor[Reconciler].object)
       PROVE  Corrected(n)'
  BY <1>12 DEF CopyIsFresh, Corrected
<1>13. CASE Upsert
  <2>1. CASE actor'[Reconciler] = Idle /\ actor[Reconciler].name = n
    BY <1>12, <1>13, <2>1, UpsertStep DEF informerVars, Idle
  <2>2. CASE ~(actor'[Reconciler] = Idle /\ actor[Reconciler].name = n)
    <3>1. ASSUME NEW a \in Actors, actor[a] # Idle, actor[a].name = n
          PROVE  actor'[a] # Idle /\ actor'[a].name = n
      BY <1>13, <2>2, <3>1, UpsertStep DEF Idle
    <3>2. QED
      BY <1>5, <1>13, <3>1, UpsertStep DEF apiVars, informerVars
  <2>3. QED
    BY <2>1, <2>2
<1>14. ASSUME NEW a \in Actors, Register(a), a # Reconciler \/ actor'[a] # Idle,
              Registered(n)' = Registered(n)
       PROVE  Corrected(n)'
  <2>1. UNCHANGED <<queue, watch, cache, failures>>
    BY <1>14, RegisterStep DEF informerVars, apiVars, bounds
  <2>2. \A b \in Actors : actor[b] # Idle => actor'[b] # Idle /\ actor'[b].name = actor[b].name
    BY <1>14, RegisterStep DEF Idle
  <2>3. QED
    BY <1>4, <1>14, <2>1, <2>2 DEF Corrected
(* Nobody else works on n when the reconciler is done with another one. *)
<1>15. ASSUME Register(Reconciler), actor'[Reconciler] = Idle,
              IF actor[Reconciler].name = n
                THEN Registered(n)' = Entry(actor[Reconciler].object)
                ELSE Registered(n)' = Registered(n)
       PROVE  Corrected(n)'
  <2>1. UNCHANGED <<queue, watch, cache, failures>> /\ actor[Reconciler] # Idle
    BY <1>1, <1>15, RegisterStep DEF informerVars, apiVars, bounds, Calls, Steps, Idle
  <2>2. CASE actor[Reconciler].name = n
    BY <1>12, <1>15, <2>1, <2>2
  <2>3. CASE actor[Reconciler].name # n
    <3>1. \A b \in Actors : actor[b] # Idle /\ actor[b].name = n => actor'[b] = actor[b]
      BY <1>1, <1>15, <2>3, RegisterStep
    <3>2. QED
      BY <1>4, <1>15, <2>1, <2>3, <3>1 DEF Corrected
  <2>4. QED
    BY <2>2, <2>3
<1>16. ASSUME NEW a \in Actors, Lookup(a)
       PROVE  Corrected(n)'
  <2>1. Registered(n)' = Registered(n)
    BY <1>16 DEF Lookup, Registered, mapVars
  <2>2. CASE a # Reconciler \/ actor'[a] # Idle
    BY <1>14, <1>16, <2>1, <2>2 DEF Register
  <2>3. CASE a = Reconciler /\ actor'[a] = Idle
    <3>1. outer = NoMap /\ Gone(actor[a].object)
      <4>1. actor[a] \in Calls
        BY <1>16, RegisterStep DEF Register
      <4>2. ASSUME NEW call, call.at # "idle", actor' = [actor EXCEPT ![a] = call]
            PROVE  FALSE
        BY <2>3, <4>2 DEF Idle, TypeInv, CollectorsTypeOK
      <4>3. /\ [actor[a] EXCEPT !.at = "store", !.seen = outer].at # "idle"
            /\ [actor[a] EXCEPT !.at = "create"].at # "idle"
        BY <4>1 DEF Calls
      <4>4. QED
        BY <1>16, <4>2, <4>3 DEF Lookup, Go
    <3>2. Registered(n) = NoObject /\ Entry(actor[a].object) = NoObject
      BY <3>1 DEF Registered, Entry
    <3>3. QED
      BY <1>15, <1>16, <2>1, <2>3, <3>2 DEF Register
  <2>4. QED
    BY <2>2, <2>3
<1>17. ASSUME NEW a \in Actors, CreateMap(a)
       PROVE  Corrected(n)'
  <2>1. Registered(n)' = Registered(n)
    BY <1>17, FirstMap
  <2>2. actor'[a] # Idle
    <3>1. actor[a] \in Calls
      BY <1>17, RegisterStep DEF Register
    <3>2. [actor[a] EXCEPT !.at = "store", !.seen = a].at = "store"
      BY <3>1 DEF Calls
    <3>3. actor'[a] = [actor[a] EXCEPT !.at = "store", !.seen = a]
      BY <1>17 DEF CreateMap, TypeInv, CollectorsTypeOK
    <3>4. actor'[a].at = "store"
      BY <3>2, <3>3
    <3>5. QED
      BY <3>4 DEF Idle
  <2>3. QED
    BY <1>14, <1>17, <2>1, <2>2 DEF Register
<1>18. ASSUME NEW a \in Actors, Store(a)
       PROVE  Corrected(n)'
  <2> DEFINE m == actor[a].seen
  <2>1. /\ m \in Actors /\ inner[m] \in Maps /\ outer' = m /\ outer' # NoMap
        /\ inner'[m] = [inner[m] EXCEPT ![actor[a].name] = Entry(actor[a].object)]
    BY <1>18, StoreStep, NoObjectAssumption DEF NoMap
  <2>2. Registered(n)' = IF actor[a].name = n THEN Entry(actor[a].object) ELSE inner[m][n]
    BY <2>1 DEF Registered, Maps
  <2>3. inner[m][n] = Registered(n)
    <3>1. inner[m] # NoMap /\ outer # NoMap
      BY <2>1, NoObjectAssumption DEF MapsInUse, NoMap
    <3>2. inner[outer] # NoMap /\ outer \in Actors
      BY <3>1, NoObjectAssumption DEF TypeInv, CollectorsTypeOK, CallsOK, NoMap
    <3>3. ~Split
      BY <1>3, SplitStays
    <3>4. outer = m
      BY <2>1, <3>1, <3>2, <3>3 DEF Split
    <3>5. QED
      BY <3>1, <3>4 DEF Registered
  <2>4. CASE a = Reconciler
    <3>1. actor'[Reconciler] = Idle
      BY <1>1, <1>18, <2>4 DEF Store, Done, Rest, TypeInv, CollectorsTypeOK
    <3>2. QED
      BY <1>15, <1>18, <2>2, <2>3, <2>4, <3>1 DEF Register
  <2>5. CASE a # Reconciler
    <3>1. CASE actor[a].name = n
      <4>1. actor'[a] # Idle /\ actor'[a].name = n
        BY <1>18, <2>5, <3>1, RegisterStep DEF Register, Idle
      <4>2. QED
        BY <4>1 DEF Corrected
    <3>2. CASE actor[a].name # n
      BY <1>14, <1>18, <2>2, <2>3, <2>5, <3>2 DEF Register
    <3>3. QED
      BY <3>1, <3>2
  <2>6. QED
    BY <2>4, <2>5
<1>19. CASE Outside
  BY <1>7, <1>8, <1>9, <1>10, <1>19 DEF Outside
<1>20. QED
  BY <1>3, <1>11, <1>13, <1>16, <1>17, <1>18, <1>19, EveryStep DEF Register

LEMMA FreshIsKept == TypeInv /\ FreshInv /\ [Next]_vars => FreshInv'
<1> SUFFICES ASSUME TypeInv, FreshInv, [Next]_vars
             PROVE  FreshInv'
  OBVIOUS
<1>1. CASE UNCHANGED vars
  BY <1>1 DEF vars, FreshInv, BeforeList, MapsInUse, CacheFollows, Latest, CopyIsFresh,
              RegistrationsFollow, Split, Corrected, Registered
<1>2. CASE Next
  BY <1>2, BeforeListIsKept, MapsInUseIsKept, CacheFollowsIsKept, CopyIsFreshIsKept,
     RegistrationsFollowIsKept DEF FreshInv
<1>3. QED
  BY <1>1, <1>2

(* Although nothing guards the maps, a registration is wrong for good only   *)
(* if two actors have both made the namespace's map, or if a call of the API *)
(* has failed on the way to it: for any number of collectors, create calls,  *)
(* writes, crashes and failing calls.                                        *)
THEOREM RegistrationsAreCorrected == Spec => []NoStaleRegistrationIsFinal
<1>1. TypeInv /\ FreshInv => NoStaleRegistrationIsFinal
  <2> SUFFICES ASSUME TypeInv, FreshInv, ~Split, NEW k \in Names, ~CorrectionPending(k)
               PROVE  \/ Registered(k) = Entry(store[k])
                      \/ failures > 0 /\ Standalone(k)
    BY DEF NoStaleRegistrationIsFinal
  <2>1. cache[k] = store[k]
    BY DEF CorrectionPending, FreshInv, CacheFollows, Latest
  <2>2. Corrected(k)
    BY DEF CorrectionPending, FreshInv, RegistrationsFollow
  <2>3. QED
    BY <2>1, <2>2 DEF CorrectionPending, Corrected, Standalone, IsStandalone
<1>2. QED
  BY <1>1, TypeHolds, TypeIsKept, FreshHolds, FreshIsKept, PTL DEF Spec
=============================================================================
