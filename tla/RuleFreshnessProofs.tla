-------------------------- MODULE RuleFreshnessProofs --------------------------
(* What the process knows of an object is late, but never wrong for good:    *)
(* which copy of an object is which version of it, and how the registry      *)
(* follows the objects.                                                      *)
EXTENDS RuleRegistryProofs, SequenceTheorems

(* Every copy of an object there is outside the create calls.                *)
Copies(k) ==
  {store[k], cache[k]}
    \cup {watch[k][i] : i \in DOMAIN watch[k]}
    \cup {worker[c].object : c \in {d \in Kinds : worker[d] # IdleWorker /\ worker[d].key = k}}

(* A version tells what the object was: two copies of one version are equal, *)
(* and none is newer than the version last given out.                        *)
VersionsTell(k) ==
  \A o, p \in Copies(k) \ {NoObject} :
    /\ o.rv <= version[k]
    /\ o.rv = p.rv => o = p

VersionInv == \A k \in Keys : VersionsTell(k)

(* A worker is busy with objects of its own kind, and writes back none that  *)
(* are gone.                                                                 *)
WorkersInOrder ==
  \A c \in Kinds :
    /\ worker[c] # IdleWorker => Kind(worker[c].key) = c
    /\ worker[c].at = "write" => ~Gone(worker[c].object)

LEMMA WorkersStep ==
  ASSUME TypeOK, WorkersInOrder, [Next]_vars
  PROVE  WorkersInOrder'
<1> DEFINE InOrder(w, c) == /\ w # IdleWorker => Kind(w.key) = c
                            /\ w.at = "write" => ~Gone(w.object)
<1>1. ASSUME NEW c \in Kinds, NEW w, InOrder(w, c), worker' = [worker EXCEPT ![c] = w]
      PROVE  WorkersInOrder'
  BY <1>1 DEF WorkersInOrder, TypeOK
<1>2. \A c \in Kinds : InOrder(IdleWorker, c)
  BY DEF IdleWorker
<1>3. ASSUME NEW c \in Kinds, Get(c)
      PROVE  WorkersInOrder'
  <2>1. PICK k \in Keys : /\ Kind(k) = c
                          /\ worker' = [worker EXCEPT ![c] =
                               [at |-> "register", key |-> k, object |-> cache[k]]]
    BY <1>3 DEF Get, TypeOK
  <2>2. InOrder([at |-> "register", key |-> k, object |-> cache[k]], c)
    BY <2>1
  <2> HIDE DEF InOrder
  <2> QED BY <1>1, <2>1, <2>2
<1>4. ASSUME NEW c \in Kinds, Register(c)
      PROVE  WorkersInOrder'
  <2> DEFINE w == [worker[c] EXCEPT !.at = "write"]
  <2>1. worker[c] \in Registering /\ worker[c] # IdleWorker /\ ~Gone(worker[c].object)
    BY <1>4, BusyWorker DEF Register, IdleWorker
  <2>2. w.key = worker[c].key /\ w.object = worker[c].object
    BY <2>1 DEF Registering
  <2>3. InOrder(w, c)
    BY <2>1, <2>2 DEF WorkersInOrder
  <2>4. worker' = [worker EXCEPT ![c] = w]
    BY <1>4 DEF Register
  <2> HIDE DEF w, InOrder
  <2> QED BY <1>1, <2>3, <2>4
<1>5. ASSUME NEW c \in Kinds, worker' = [worker EXCEPT ![c] = IdleWorker]
      PROVE  WorkersInOrder'
  <2> HIDE DEF InOrder
  <2> QED BY <1>1, <1>2, <1>5
<1>6. CASE worker' = [c \in Kinds |-> IdleWorker]
  BY <1>2, <1>6 DEF WorkersInOrder
<1>7. CASE UNCHANGED worker
  BY <1>7 DEF WorkersInOrder
<1>8. \/ UNCHANGED worker
      \/ worker' = [c \in Kinds |-> IdleWorker]
      \/ \E c \in Kinds : \/ Get(c) \/ Register(c)
                          \/ worker' = [worker EXCEPT ![c] = IdleWorker]
  BY DEF Next, vars, processVars, Run, User, End, Crash, Panic, Restart, Create, GiveUp, Persist,
         Refuse, Update, MarkDeleting, Delete, Validate, List, Deliver, Reconcile, Unregister,
         Write
<1> QED BY <1>3, <1>4, <1>5, <1>6, <1>7, <1>8

-----------------------------------------------------------------------------
(* What is committed is a new version, or nothing.                           *)
Committed(k, object) ==
  /\ Commit(k, object)
  /\ \/ object = NoObject /\ UNCHANGED version
     \/ object \in Objects /\ object.rv = version[k] + 1 /\ NewVersion(k)

LEMMA UserCommits ==
  ASSUME TypeOK, User
  PROVE  /\ UNCHANGED processVars
         /\ \/ /\ UNCHANGED apiVars
               /\ \E r \in Requests, k \in Keys, spec \in Specs, dryRun \in BOOLEAN :
                    Create(r, k, spec, dryRun)
            \/ /\ UNCHANGED request
               /\ \E k \in Keys : \E object \in Objects \cup {NoObject} :
                    /\ Committed(k, object)
                    /\ object # NoObject => writes' = writes + 1
<1>1. ASSUME NEW k \in Keys, NEW spec \in Specs, NEW keep \in BOOLEAN, Update(k, spec, keep)
      PROVE  \E object \in Objects : Committed(k, object) /\ writes' = writes + 1
  <2> DEFINE object == [store[k] EXCEPT !.spec = spec, !.processed = keep /\ @,
                                        !.rv = version[k] + 1]
  <2>1. store[k] \in Objects /\ version[k] + 1 \in Nat
    BY <1>1 DEF Update, TypeOK
  <2>2. (keep /\ store[k].processed) \in BOOLEAN
    BY <2>1 DEF Objects
  <2>3. object \in Objects /\ object.rv = version[k] + 1
    BY <2>1, <2>2, ScopedKnown DEF Objects
  <2>4. Commit(k, object) /\ NewVersion(k) /\ writes' = writes + 1
    BY <1>1 DEF Update
  <2> HIDE DEF object
  <2> QED BY <2>3, <2>4 DEF Committed
<1>2. ASSUME NEW k \in Keys, MarkDeleting(k)
      PROVE  \E object \in Objects : Committed(k, object) /\ writes' = writes + 1
  <2> DEFINE object == [store[k] EXCEPT !.deleting = TRUE, !.rv = version[k] + 1]
  <2>1. store[k] \in Objects /\ version[k] + 1 \in Nat
    BY <1>2 DEF MarkDeleting, TypeOK
  <2>2. object \in Objects /\ object.rv = version[k] + 1
    BY <2>1 DEF Objects
  <2>3. Commit(k, object) /\ NewVersion(k) /\ writes' = writes + 1
    BY <1>2 DEF MarkDeleting
  <2> HIDE DEF object
  <2> QED BY <2>2, <2>3 DEF Committed
<1>3. ASSUME NEW k \in Keys, Delete(k)
      PROVE  Committed(k, NoObject)
  BY <1>3 DEF Delete, Committed
<1>4. UNCHANGED processVars
  BY DEF User, Create, Update, MarkDeleting, Delete
<1>5. \/ \E r \in Requests, k \in Keys, spec \in Specs, dryRun \in BOOLEAN :
           Create(r, k, spec, dryRun)
      \/ UNCHANGED request
  BY DEF User, Update, MarkDeleting, Delete
<1>6. \A r \in Requests, k \in Keys, spec \in Specs, dryRun \in BOOLEAN :
        Create(r, k, spec, dryRun) => UNCHANGED apiVars
  BY DEF Create
<1> QED BY <1>1, <1>2, <1>3, <1>4, <1>5, <1>6 DEF User, Update, MarkDeleting, Delete

LEMMA PersistCommits ==
  ASSUME TypeOK, NEW r \in Requests, Persist(r)
  PROVE  /\ request[r] \in Calls /\ request[r].key \in Keys
         /\ Answer(r) /\ UNCHANGED processVars
         /\ \E object \in Objects : Committed(request[r].key, object)
<1> DEFINE k == request[r].key
           object == [spec |-> request[r].spec, processed |-> FALSE,
                      deleting |-> FALSE, rv |-> version[k] + 1]
<1>1. request[r] \in Calls
  BY DEF Persist, Admitted, TypeOK, NoRequest
<1>2. k \in Keys /\ object \in Objects
  BY <1>1, ScopedKnown DEF Calls, Objects, TypeOK
<1>3. Commit(k, object) /\ NewVersion(k) /\ object.rv = version[k] + 1
  BY DEF Persist
<1> HIDE DEF object
<1> QED BY <1>1, <1>2, <1>3 DEF Persist, Committed

(* The worker writes back what it has read, processed, if that is still the  *)
(* version there is; otherwise the key is queued again.                      *)
LEMMA WriteCommits ==
  ASSUME TypeOK, NEW c \in Kinds, Write(c)
  PROVE  /\ worker[c] \in Writing /\ worker[c].key \in Keys /\ worker[c].object \in Objects
         /\ worker' = [worker EXCEPT ![c] = IdleWorker]
         /\ UNCHANGED <<request, synced, cache, registry>>
         /\ queue \subseteq queue'
         /\ \/ UNCHANGED apiVars /\ worker[c].key \in queue'
            \/ UNCHANGED apiVars /\ store[worker[c].key] # NoObject
            \/ \E object \in Objects :
                 /\ Committed(worker[c].key, object)
                 /\ object.spec = Scoped(worker[c].key, worker[c].object.spec)
                 /\ object.deleting = worker[c].object.deleting
                 /\ store[worker[c].key] # NoObject
                 /\ store[worker[c].key].rv = worker[c].object.rv
<1> DEFINE k == worker[c].key
           read == worker[c].object
           object == [Processed(k, read) EXCEPT !.rv = version[k] + 1]
<1>1. worker[c] \in Writing
  BY BusyWorker DEF Write
<1>2. k \in Keys /\ read \in Objects
  BY <1>1 DEF Writing
<1>3. version[k] + 1 \in Nat
  BY <1>2 DEF TypeOK
<1>4. /\ object \in Objects /\ object.rv = version[k] + 1
      /\ object.spec = Scoped(k, read.spec) /\ object.deleting = read.deleting
  BY <1>2, <1>3, ProcessedTyped
<1>5. \/ UNCHANGED apiVars /\ k \in queue'
      \/ UNCHANGED apiVars /\ store[k] # NoObject
      \/ /\ Commit(k, object) /\ NewVersion(k)
         /\ store[k] # NoObject /\ store[k].rv = read.rv
  BY DEF Write
<1>6. /\ worker' = [worker EXCEPT ![c] = IdleWorker]
      /\ UNCHANGED <<request, synced, cache, registry>>
      /\ queue \subseteq queue'
  BY DEF Write
<1> HIDE DEF object
<1> QED BY <1>1, <1>2, <1>4, <1>5, <1>6 DEF Committed

-----------------------------------------------------------------------------
LEMMA CopiesTyped ==
  ASSUME TypeOK, NEW k \in Keys
  PROVE  Copies(k) \subseteq Objects \cup {NoObject}
<1>1. \A i \in DOMAIN watch[k] : watch[k][i] \in Objects \cup {NoObject}
  <2>1. watch[k] \in Seq(Objects \cup {NoObject})
    BY DEF TypeOK
  <2> QED BY <2>1
<1>2. \A c \in Kinds : worker[c] # IdleWorker => worker[c].object \in Objects \cup {NoObject}
  BY DEF TypeOK, Registering, Writing
<1> QED BY <1>1, <1>2 DEF Copies, TypeOK

(* Copying what is there changes nothing, and a new version is told from all *)
(* that there are.                                                           *)
LEMMA CopyingTells ==
  ASSUME NEW k \in Keys, VersionsTell(k), UNCHANGED version,
         Copies(k)' \subseteq Copies(k) \cup {NoObject}
  PROVE  VersionsTell(k)'
BY DEF VersionsTell

LEMMA NewVersionTells ==
  ASSUME TypeOK, NEW k \in Keys, VersionsTell(k),
         NEW object, object.rv = version[k] + 1, version'[k] = version[k] + 1,
         Copies(k)' \subseteq Copies(k) \cup {object}
  PROVE  VersionsTell(k)'
<1>1. version[k] \in Nat
  BY DEF TypeOK
<1>2. \A o \in Copies(k) \ {NoObject} : o.rv \in Nat
  BY CopiesTyped DEF Objects
<1>3. \A o \in Copies(k) \ {NoObject} : o.rv <= version[k] /\ o.rv # object.rv
  BY <1>1, <1>2 DEF VersionsTell
<1>4. SUFFICES ASSUME NEW o \in Copies(k)' \ {NoObject}, NEW p \in Copies(k)' \ {NoObject}
               PROVE  o.rv <= version'[k] /\ (o.rv = p.rv => o = p)
  BY DEF VersionsTell
<1>5. o.rv <= version'[k]
  BY <1>1, <1>2, <1>3
<1>6. o.rv = p.rv => o = p
  BY <1>3 DEF VersionsTell
<1> QED BY <1>5, <1>6

(* A commit adds one copy, of one object.                                    *)
LEMMA CommitTells ==
  ASSUME TypeOK, VersionInv, NEW k \in Keys, NEW object, Committed(k, object),
         UNCHANGED cache, \A c \in Kinds : worker'[c] \in {worker[c], IdleWorker}
  PROVE  VersionInv'
<1>1. ASSUME NEW l \in Keys
      PROVE  Copies(l)' \subseteq Copies(l) \cup (IF l = k THEN {object} ELSE {})
  <2>1. store'[l] \in {store[l]} \cup (IF l = k THEN {object} ELSE {})
    BY DEF Committed, Commit, TypeOK
  <2>2. ASSUME NEW i \in DOMAIN watch'[l]
        PROVE  watch'[l][i] \in {watch[l][j] : j \in DOMAIN watch[l]}
                                  \cup (IF l = k THEN {object} ELSE {})
    <3>1. CASE watch'[l] = watch[l]
      BY <2>2, <3>1
    <3>2. CASE l = k /\ watch'[l] = Append(watch[l], object)
      <4>1. watch[l] \in Seq(Objects \cup {NoObject})
        BY DEF TypeOK
      <4> QED BY <2>2, <3>2, <4>1
    <3> QED BY <3>1, <3>2 DEF Committed, Commit, TypeOK
  <2>3. ASSUME NEW c \in Kinds, worker'[c] # IdleWorker, worker'[c].key = l
        PROVE  worker'[c].object \in Copies(l)
    BY <2>3 DEF Copies
  <2>4. cache'[l] \in Copies(l)
    BY DEF Copies
  <2> QED BY <2>1, <2>2, <2>3, <2>4 DEF Copies
<1>2. ASSUME NEW l \in Keys, l # k
      PROVE  VersionsTell(l)'
  <2>1. version'[l] = version[l]
    BY <1>2 DEF Committed, NewVersion, TypeOK
  <2>2. Copies(l)' \subseteq Copies(l)
    BY <1>1, <1>2
  <2> QED BY <2>1, <2>2 DEF VersionInv, VersionsTell
<1>3. VersionsTell(k)'
  <2>1. CASE object = NoObject /\ UNCHANGED version
    BY <1>1, <2>1, CopyingTells DEF VersionInv
  <2>2. CASE object.rv = version[k] + 1 /\ NewVersion(k)
    <3>1. version'[k] = version[k] + 1
      BY <2>2 DEF NewVersion, TypeOK
    <3> QED BY <1>1, <2>2, <3>1, NewVersionTells DEF VersionInv
  <2> QED BY <2>1, <2>2 DEF Committed
<1> QED BY <1>2, <1>3 DEF VersionInv

LEMMA VersionStep ==
  ASSUME TypeOK, VersionInv, [Next]_vars
  PROVE  VersionInv'
<1>1. CASE User
  <2>1. UNCHANGED <<cache, worker>>
    BY <1>1, UserCommits DEF processVars
  <2>2. CASE UNCHANGED apiVars
    BY <2>1, <2>2 DEF apiVars, VersionInv, VersionsTell, Copies
  <2>3. CASE \E k \in Keys : \E object : Committed(k, object)
    BY <2>1, <2>3, CommitTells
  <2> QED BY <1>1, <2>2, <2>3, UserCommits
<1>2. ASSUME NEW r \in Requests, Persist(r)
      PROVE  VersionInv'
  BY <1>2, PersistCommits, CommitTells DEF processVars
<1>3. ASSUME NEW c \in Kinds, Write(c)
      PROVE  VersionInv'
  <2>1. UNCHANGED cache /\ \A d \in Kinds : worker'[d] \in {worker[d], IdleWorker}
    BY <1>3, WriteCommits DEF TypeOK
  <2>2. CASE UNCHANGED apiVars
    <3>1. \A k \in Keys : Copies(k)' \subseteq Copies(k)
      BY <2>1, <2>2 DEF apiVars, Copies
    <3> QED BY <2>2, <3>1, CopyingTells DEF apiVars, VersionInv
  <2>3. CASE \E object \in Objects : Committed(worker[c].key, object)
    BY <1>3, <2>1, <2>3, WriteCommits, CommitTells
  <2> QED BY <1>3, <2>2, <2>3, WriteCommits
<1>4. ASSUME UNCHANGED version, \A k \in Keys : Copies(k)' \subseteq Copies(k) \cup {NoObject}
      PROVE  VersionInv'
  BY <1>4, CopyingTells DEF VersionInv
<1>5. ASSUME NEW k \in Keys, Deliver(k)
      PROVE  VersionInv'
  <2>1. watch[k] \in Seq(Objects \cup {NoObject}) /\ watch[k] # <<>>
    BY <1>5 DEF Deliver, TypeOK
  <2>2. Head(watch[k]) \in Copies(k)
    BY <2>1 DEF Copies
  <2>3. \A i \in DOMAIN Tail(watch[k]) : Tail(watch[k])[i] \in Copies(k)
    <3>1. ASSUME NEW i \in DOMAIN Tail(watch[k])
          PROVE  i + 1 \in DOMAIN watch[k] /\ Tail(watch[k])[i] = watch[k][i + 1]
      BY <2>1
    <3> QED BY <3>1 DEF Copies
  <2>4. \A l \in Keys : Copies(l)' \subseteq Copies(l)
    BY <1>5, <2>2, <2>3 DEF Deliver, TypeOK, Copies
  <2> QED BY <1>4, <1>5, <2>4 DEF Deliver
<1>6. ASSUME NEW c \in Kinds, List(c)
      PROVE  VersionInv'
  <2>1. \A l \in Keys : Copies(l)' \subseteq Copies(l)
    BY <1>6 DEF List, apiVars, Copies
  <2> QED BY <1>4, <1>6, <2>1 DEF List, apiVars
<1>7. ASSUME NEW c \in Kinds, Get(c)
      PROVE  VersionInv'
  <2>1. \A l \in Keys : Copies(l)' \subseteq Copies(l)
    BY <1>7 DEF Get, apiVars, Copies, TypeOK
  <2> QED BY <1>4, <1>7, <2>1 DEF Get, apiVars
<1>8. ASSUME NEW c \in Kinds, Unregister(c) \/ Register(c)
      PROVE  VersionInv'
  <2>1. worker[c] \in Registering /\ worker[c] # IdleWorker
    BY <1>8, BusyWorker DEF Unregister, Register, IdleWorker
  <2>2. \A d \in Kinds : worker'[d] # IdleWorker =>
          /\ worker[d] # IdleWorker
          /\ worker'[d].key = worker[d].key /\ worker'[d].object = worker[d].object
    <3> DEFINE w == [worker[c] EXCEPT !.at = "write"]
    <3>1. w.key = worker[c].key /\ w.object = worker[c].object
      BY <2>1 DEF Registering
    <3>2. worker' = [worker EXCEPT ![c] = IdleWorker] \/ worker' = [worker EXCEPT ![c] = w]
      BY <1>8 DEF Unregister, Register
    <3> HIDE DEF w
    <3> QED BY <2>1, <3>1, <3>2 DEF TypeOK
  <2>3. \A l \in Keys : Copies(l)' \subseteq Copies(l)
    BY <1>8, <2>2 DEF Unregister, Register, apiVars, Copies
  <2> QED BY <1>4, <1>8, <2>3 DEF Unregister, Register, apiVars
<1>9. CASE Restart
  <2>1. \A l \in Keys : Copies(l)' \subseteq Copies(l) \cup {NoObject}
    BY <1>9 DEF Restart, Copies
  <2> QED BY <1>4, <1>9, <2>1 DEF Restart
<1>10. ASSUME UNCHANGED <<apiVars, cache, worker>>
       PROVE  VersionInv'
  BY <1>10 DEF apiVars, VersionInv, VersionsTell, Copies
<1>11. \/ User \/ Restart
       \/ \E r \in Requests : Persist(r)
       \/ \E c \in Kinds : List(c) \/ Get(c) \/ Unregister(c) \/ Register(c) \/ Write(c)
       \/ \E k \in Keys : Deliver(k)
       \/ UNCHANGED <<apiVars, cache, worker>>
  BY DEF Next, vars, apiVars, processVars, Run, End, Crash, Panic, GiveUp, Refuse, Validate,
         Reconcile
<1> QED BY <1>1, <1>2, <1>3, <1>5, <1>6, <1>7, <1>8, <1>9, <1>10, <1>11

LEMMA VersionsAlwaysTell == Spec => [](TypeOK /\ VersionInv /\ WorkersInOrder)
<1>1. Init => VersionInv /\ WorkersInOrder
  BY DEF Init, VersionInv, VersionsTell, Copies, WorkersInOrder, IdleWorker
<1>2. TypeOK /\ VersionInv /\ WorkersInOrder /\ [Next]_vars => VersionInv' /\ WorkersInOrder'
  BY VersionStep, WorkersStep
<1> QED BY <1>1, <1>2, TypeCorrect, PTL DEF Spec

(* Whatever the caches hold and however the writes interleave: the           *)
(* reconcilers never undo what a user wrote, but for the namespaceRegex that *)
(* upsertCrdInstrumentation overwrites (configuration.go), nor bring an      *)
(* object back (crdReconciler.go, client.Update with the version read).      *)
THEOREM UserSpecsAreKept == Spec => ReconcilersKeepUserSpecs
<1> DEFINE Kept == \A k \in Keys :
             store'[k] # store[k] =>
               \/ writes' # writes
               \/ request' # request
               \/ store'[k] = NoObject
               \/ /\ store[k] # NoObject
                  /\ store'[k].spec \in {store[k].spec, Scoped(k, store[k].spec)}
                  /\ store'[k].deleting = store[k].deleting
<1>1. TypeOK /\ VersionInv /\ WorkersInOrder /\ [Next]_vars => [Kept]_vars
  <2> SUFFICES ASSUME TypeOK, VersionInv, WorkersInOrder, Next PROVE Kept
    OBVIOUS
  <2>1. CASE User
    <3>1. writes' = writes + 1 => writes' # writes
      BY DEF TypeOK
    <3>2. ASSUME NEW k \in Keys, Commit(k, NoObject)
          PROVE  Kept
      BY <3>2 DEF Commit, TypeOK
    <3> QED BY <2>1, <3>1, <3>2, UserCommits DEF Committed, apiVars
  <2>2. ASSUME NEW r \in Requests, Persist(r)
        PROVE  request' # request
    <3>1. /\ request[r] \in Calls /\ request[r].api # "answered" /\ Answer(r)
          /\ request \in [Requests -> Calls \cup {NoRequest}]
      BY <2>2, PersistCommits DEF Persist, Admitted, TypeOK
    <3>2. [request[r] EXCEPT !.api = "answered"].api = "answered"
      BY <3>1 DEF Calls
    <3>3. Settled([request[r] EXCEPT !.api = "answered"]).api # request[r].api
      BY <3>1, <3>2 DEF Settled, NoRequest, Calls
    <3>4. request'[r] = Settled([request[r] EXCEPT !.api = "answered"])
      BY <3>1 DEF Answer
    <3> QED BY <3>3, <3>4
  <2>3. ASSUME NEW c \in Kinds, Write(c)
        PROVE  Kept
    <3> DEFINE k == worker[c].key
    <3>1. CASE UNCHANGED store
      BY <3>1
    <3>2. ASSUME NEW object \in Objects, Commit(k, object),
                 object.spec = Scoped(k, worker[c].object.spec),
                 object.deleting = worker[c].object.deleting,
                 store[k] # NoObject, store[k].rv = worker[c].object.rv
          PROVE  Kept
      <4>1. k \in Keys /\ worker[c] # IdleWorker
        BY <2>3, WriteCommits DEF Writing, IdleWorker
      <4>2. store[k] \in Copies(k) /\ worker[c].object \in Copies(k)
        BY <4>1 DEF Copies
      <4>3. worker[c].object # NoObject
        BY <2>3 DEF Write, WorkersInOrder, Gone
      <4>4. store[k] = worker[c].object
        BY <3>2, <4>1, <4>2, <4>3 DEF VersionInv, VersionsTell
      <4> QED BY <3>2, <4>1, <4>4 DEF Commit, TypeOK
    <3> QED BY <2>3, <3>1, <3>2, WriteCommits DEF Committed, apiVars
  <2>4. \/ User
        \/ \E r \in Requests : Persist(r)
        \/ \E c \in Kinds : Write(c)
        \/ UNCHANGED store
    BY DEF Next, apiVars, Run, End, Crash, Restart, Panic, GiveUp, Refuse, Validate, List, Deliver,
           Reconcile, Get, Unregister, Register
  <2> QED BY <2>1, <2>2, <2>3, <2>4
<1>2. Spec => [][Kept]_vars
  BY <1>1, VersionsAlwaysTell, PTL DEF Spec
<1> QED BY <1>2 DEF ReconcilersKeepUserSpecs

-----------------------------------------------------------------------------
(* How the registry follows the objects when the API server neither refuses  *)
(* a create after the webhook was called, nor lets a call go on that has     *)
(* timed out, nor calls before the informers have synced.                    *)

(* The worker of k's kind handles k. *)
Busy(k) == worker[Kind(k)] # IdleWorker /\ worker[Kind(k)].key = k

(* A call is under way that may yet create k. *)
Creating(k) == \E r \in Requests : InFlight(r) /\ ~request[r].dryRun /\ request[r].key = k

(* The reconciler of k will run, or an object will come that makes it run.   *)
Coming(k) == k \in queue \/ watch[k] # <<>> \/ Creating(k)

(* The rule that goes with a copy of the object. *)
RuleFor(k, object) == IF Gone(object) THEN NoObject ELSE Scoped(k, object.spec)

(* Before its kind has been listed, nothing of k is queued or registered.    *)
BeforeList(k) ==
  ~synced[Kind(k)] => /\ watch[k] = <<>>
                      /\ k \notin queue
                      /\ Registered(k) = NoObject

(* Thereafter the last event, or the copy that the informer has, is the      *)
(* object in the cluster.                                                    *)
Latest(k) == IF watch[k] = <<>> THEN cache[k] ELSE watch[k][Len(watch[k])]

CacheFollows(k) == synced[Kind(k)] => Latest(k) = store[k]

(* The worker has the informer's copy, or the key is queued again.           *)
CopyIsFresh(k) == Busy(k) => k \in queue \/ worker[Kind(k)].object = cache[k]

(* A rule that is not the one of the informer's copy is about to be          *)
(* corrected; so is one that is not what the worker has registered.          *)
RuleFollows(k) ==
  /\ synced[Kind(k)] => Coming(k) \/ Busy(k) \/ Registered(k) = RuleFor(k, cache[k])
  /\ Busy(k) /\ worker[Kind(k)].at = "write" =>
       Coming(k) \/ Registered(k) = RuleFor(k, worker[Kind(k)].object)

Fresh(k) == BeforeList(k) /\ CacheFollows(k) /\ CopyIsFresh(k) /\ RuleFollows(k)

(* Workers start when their kind has been listed, and the handler is done    *)
(* before the API server answers.                                            *)
WorkersWait == \A c \in Kinds : ~synced[c] => worker[c] = IdleWorker

CallsInOrder ==
  \A r \in Requests : /\ request[r].api # "answered"
                      /\ request[r].api = "ignored" => request[r].hook = "done"

FreshInv == WorkersInOrder /\ WorkersWait /\ CallsInOrder /\ \A k \in Keys : Fresh(k)

-----------------------------------------------------------------------------
(* A step that has nothing to do with k. *)
WorkKept(k) ==
  /\ Busy(k)' <=> Busy(k)
  /\ Busy(k) => worker'[Kind(k)] = worker[Kind(k)]

Untouched(k) ==
  /\ store'[k] = store[k] /\ cache'[k] = cache[k] /\ watch'[k] = watch[k]
  /\ synced'[Kind(k)] = synced[Kind(k)]
  /\ k \in queue' <=> k \in queue
  /\ Registered(k)' = Registered(k)
  /\ Creating(k) => Creating(k)'
  /\ WorkKept(k)

LEMMA FreshKept ==
  ASSUME NEW k \in Keys, Fresh(k), Untouched(k)
  PROVE  Fresh(k)'
<1>1. (BeforeList(k) /\ CacheFollows(k) /\ CopyIsFresh(k))'
  BY DEF Fresh, Untouched, WorkKept, BeforeList, CacheFollows, Latest, CopyIsFresh
<1>2. Coming(k) => Coming(k)'
  BY DEF Untouched, Coming
<1>3. RuleFollows(k)'
  BY <1>2 DEF Fresh, Untouched, WorkKept, RuleFollows
<1> QED BY <1>1, <1>3 DEF Fresh

(* The worker of a kind turns to k, or from it. *)
LEMMA OtherWorkKept ==
  ASSUME TypeOK, NEW k \in Keys, NEW w, worker' = [worker EXCEPT ![Kind(k)] = w],
         worker[Kind(k)] = IdleWorker \/ worker[Kind(k)].key = k,
         w = IdleWorker \/ w.key = k
  PROVE  \A l \in Keys : l # k => WorkKept(l)
<1>1. Kind(k) \in Kinds
  BY DEF Kind, Kinds
<1>2. \A l \in Keys : Kind(l) # Kind(k) => worker'[Kind(l)] = worker[Kind(l)]
  BY DEF TypeOK
<1>3. worker'[Kind(k)] = w
  BY <1>1 DEF TypeOK
<1> QED BY <1>2, <1>3 DEF WorkKept, Busy

(* What the step of a worker is about. *)
LEMMA WorkerKey ==
  ASSUME TypeOK, FreshInv, NEW c \in Kinds, worker[c] # IdleWorker
  PROVE  /\ worker[c].key \in Keys /\ Kind(worker[c].key) = c
         /\ Busy(worker[c].key) /\ synced[c]
<1>1. worker[c].key \in Keys
  BY DEF TypeOK, Registering, Writing
<1> QED BY <1>1 DEF FreshInv, WorkersInOrder, WorkersWait, Busy, TypeOK

(* A commit reaches the informer of a kind that is listed, and will be found *)
(* by the list of one that is not.                                           *)
LEMMA CommitFresh ==
  ASSUME TypeOK, NEW k \in Keys, Fresh(k), NEW object, Commit(k, object),
         object \in Objects \cup {NoObject},
         UNCHANGED <<synced, cache, registry>>, k \in queue' <=> k \in queue,
         ~synced[Kind(k)] => ~Busy(k),
         Busy(k)' => WorkKept(k)
  PROVE  Fresh(k)'
<1>1. Registered(k)' = Registered(k)
  BY DEF Registered
<1>2. CASE synced[Kind(k)]
  <2>1. watch[k] \in Seq(Objects \cup {NoObject})
    BY DEF TypeOK
  <2>2. watch'[k] = Append(watch[k], object) /\ store'[k] = object
    BY <1>2 DEF Commit, TypeOK
  <2>3. watch'[k] # <<>> /\ watch'[k][Len(watch'[k])] = object
    BY <2>1, <2>2
  <2>4. Coming(k)' /\ (Latest(k) = store[k])'
    BY <2>2, <2>3 DEF Coming, Latest
  <2>5. CopyIsFresh(k)'
    BY DEF CopyIsFresh, Fresh, WorkKept
  <2> QED BY <1>2, <2>4, <2>5 DEF Fresh, BeforeList, CacheFollows, RuleFollows
<1>3. CASE ~synced[Kind(k)]
  <2>1. watch'[k] = watch[k]
    BY <1>3 DEF Commit, TypeOK
  <2>2. ~Busy(k)'
    BY <1>3 DEF WorkKept
  <2> QED BY <1>1, <1>3, <2>1, <2>2 DEF Fresh, BeforeList, CacheFollows, CopyIsFresh, RuleFollows
<1> QED BY <1>2, <1>3

LEMMA CommitLeaves ==
  ASSUME TypeOK, NEW k \in Keys, NEW object, Commit(k, object)
  PROVE  \A l \in Keys : l # k => store'[l] = store[l] /\ watch'[l] = watch[l]
BY DEF Commit, TypeOK

(* A call goes on: it may still create what it could have created before.    *)
LEMMA CallGoesOn ==
  ASSUME TypeOK, CallsInOrder, NEW r \in Requests, NEW call,
         request' = [request EXCEPT ![r] = call],
         call.api # "answered", call.api = "ignored" => call.hook = "done"
  PROVE  /\ CallsInOrder'
         /\ \A k : Creating(k) =>
              \/ Creating(k)'
              \/ /\ InFlight(r) /\ ~request[r].dryRun /\ request[r].key = k
                 /\ call = NoRequest \/ call.dryRun \/ call.key # k
<1>1. \A q \in Requests : request'[q] = IF q = r THEN call ELSE request[q]
  BY DEF TypeOK
<1> QED BY <1>1 DEF CallsInOrder, Creating, InFlight

(* Only the calls change. *)
LEMMA CallsFresh ==
  ASSUME FreshInv, UNCHANGED <<apiVars, synced, cache, queue, worker>>, CallsInOrder',
         \A k \in Keys : /\ Registered(k)' = Registered(k)
                         /\ Creating(k) => Creating(k)'
  PROVE  FreshInv'
<1>1. \A k \in Keys : Untouched(k)
  BY DEF apiVars, Untouched, WorkKept, Busy
<1>2. WorkersInOrder' /\ WorkersWait'
  BY DEF FreshInv, WorkersInOrder, WorkersWait
<1> QED BY <1>1, <1>2, FreshKept DEF FreshInv

(* What a call is that the API server has admitted, or is about to validate. *)
LEMMA AdmittedCall ==
  ASSUME TypeOK, CallsInOrder, NEW r \in Requests, Admitted(r)
  PROVE  /\ request[r] \in Calls /\ request[r].hook = "done" /\ InFlight(r)
         /\ Answer(r) => request' = [request EXCEPT ![r] = NoRequest]
<1>1. request[r] \in Calls /\ InFlight(r)
  BY DEF Admitted, TypeOK, NoRequest, InFlight
<1>2. request[r].hook = "done"
  BY DEF Admitted, CallsInOrder
<1> DEFINE call == [request[r] EXCEPT !.api = "answered"]
<1>3. call.api = "answered" /\ call.hook = "done"
  BY <1>1, <1>2 DEF Calls
<1>4. Settled(call) = NoRequest
  BY <1>3 DEF Settled
<1> HIDE DEF call
<1>5. Answer(r) => request' = [request EXCEPT ![r] = Settled(call)]
  BY DEF Answer, call
<1> QED BY <1>1, <1>2, <1>4, <1>5

LEMMA PendingCall ==
  ASSUME TypeOK, CallsInOrder, NEW r \in Requests, request[r].hook = "pending"
  PROVE  /\ request[r] \in Calls /\ request[r].api = "waiting"
         /\ LET call == [request[r] EXCEPT !.hook = "done"]
            IN  /\ Settled(call) = call /\ call \in Calls /\ call # NoRequest
                /\ call.api = "waiting"
                /\ call.key = request[r].key /\ call.dryRun = request[r].dryRun
<1>1. request[r] \in Calls
  BY DEF TypeOK, NoRequest
<1>2. request[r].api = "waiting"
  BY <1>1 DEF CallsInOrder, Calls
<1> DEFINE call == [request[r] EXCEPT !.hook = "done"]
<1>3. /\ call \in Calls /\ call.api = "waiting"
      /\ call.key = request[r].key /\ call.dryRun = request[r].dryRun
  BY <1>1, <1>2 DEF Calls
<1>4. Settled(call) = call /\ call # NoRequest
  BY <1>3 DEF Settled, NoRequest
<1> QED BY <1>1, <1>2, <1>3, <1>4

LEMMA UserFresh ==
  ASSUME TypeOK, FreshInv, User
  PROVE  FreshInv'
<1>1. UNCHANGED <<synced, cache, queue, worker, registry>>
  BY UserCommits DEF processVars
<1>2. \A k \in Keys : Registered(k)' = Registered(k) /\ WorkKept(k)
  BY <1>1 DEF Registered, WorkKept, Busy
<1>3. ASSUME NEW r \in Requests, NEW k \in Keys, NEW spec \in Specs, NEW dryRun \in BOOLEAN,
             Create(r, k, spec, dryRun)
      PROVE  FreshInv'
  <2> DEFINE call == [key |-> k, spec |-> spec, dryRun |-> dryRun,
                      api |-> "waiting", hook |-> "pending"]
  <2>1. request' = [request EXCEPT ![r] = call] /\ ~InFlight(r) /\ UNCHANGED apiVars
    BY <1>3 DEF Create
  <2>2. call.api = "waiting"
    OBVIOUS
  <2> HIDE DEF call
  <2>3. CallsInOrder' /\ \A l : Creating(l) => Creating(l)'
    BY <2>1, <2>2, CallGoesOn DEF FreshInv
  <2> QED BY <1>1, <1>2, <2>1, <2>3, CallsFresh
<1>4. ASSUME UNCHANGED request, NEW k \in Keys, NEW object \in Objects \cup {NoObject},
             Commit(k, object)
      PROVE  FreshInv'
  <2>1. \A l \in Keys : Creating(l) => Creating(l)'
    BY <1>4 DEF Creating, InFlight
  <2>2. \A l \in Keys : l # k => Untouched(l)
    BY <1>1, <1>2, <1>4, <2>1, CommitLeaves DEF Untouched
  <2>3. ~synced[Kind(k)] => ~Busy(k)
    BY DEF FreshInv, WorkersWait, Busy, Kind, Kinds
  <2>4. Fresh(k)'
    <3>1. Fresh(k)
      BY DEF FreshInv
    <3> QED BY <1>1, <1>2, <1>4, <2>3, <3>1, CommitFresh
  <2>5. \A l \in Keys : Fresh(l)'
    BY <2>2, <2>4, FreshKept DEF FreshInv
  <2>6. WorkersInOrder' /\ WorkersWait' /\ CallsInOrder'
    BY <1>1, <1>4 DEF FreshInv, WorkersInOrder, WorkersWait, CallsInOrder
  <2> QED BY <2>5, <2>6 DEF FreshInv
<1> QED BY <1>3, <1>4, UserCommits DEF Committed

LEMMA ApiFresh ==
  ASSUME TypeOK, FreshInv, Faults = {}, NEW r \in Requests, GiveUp(r) \/ Persist(r) \/ Refuse(r)
  PROVE  FreshInv'
<1>1. UNCHANGED <<synced, cache, queue, worker, registry>>
  BY DEF GiveUp, Persist, Refuse, processVars
<1>2. \A k \in Keys : Registered(k)' = Registered(k) /\ WorkKept(k)
  BY <1>1 DEF Registered, WorkKept, Busy
<1>3. CASE GiveUp(r)
  <2> DEFINE call == [request[r] EXCEPT !.api = "ignored", !.hook = "done"]
  <2>1. request[r] \in Calls
    <3>1. request[r].api = "waiting"
      BY <1>3 DEF GiveUp
    <3> QED BY <3>1 DEF TypeOK, NoRequest
  <2>2. /\ call.api = "ignored" /\ call.hook = "done"
        /\ call.key = request[r].key /\ call.dryRun = request[r].dryRun
    BY <2>1 DEF Calls
  <2>3. request' = [request EXCEPT ![r] = call]
    BY <1>3 DEF GiveUp
  <2> HIDE DEF call
  <2>4. call # NoRequest
    BY <2>2 DEF NoRequest
  <2>5. CallsInOrder' /\ \A l : Creating(l) => Creating(l)'
    BY <2>2, <2>3, <2>4, CallGoesOn DEF FreshInv
  <2> QED BY <1>1, <1>2, <1>3, <2>5, CallsFresh DEF GiveUp
<1>4. ASSUME Admitted(r), Answer(r)
      PROVE  CallsInOrder' /\ \A l : Creating(l) =>
               Creating(l)' \/ (~request[r].dryRun /\ request[r].key = l)
  <2>1. request' = [request EXCEPT ![r] = NoRequest]
    BY <1>4, AdmittedCall DEF FreshInv
  <2>2. NoRequest.api = "none"
    BY DEF NoRequest
  <2> QED BY <2>1, <2>2, CallGoesOn DEF FreshInv
<1>5. CASE Refuse(r)
  <2>1. request[r].dryRun
    BY <1>5 DEF Refuse
  <2> QED BY <1>1, <1>2, <1>4, <1>5, <2>1, CallsFresh DEF Refuse
<1>6. CASE Persist(r)
  <2>1. PICK k \in Keys : k = request[r].key
    BY <1>6, PersistCommits
  <2>2. PICK object \in Objects : Commit(k, object)
    BY <1>6, <2>1, PersistCommits DEF Committed
  <2>3. CallsInOrder' /\ \A l : l # k => (Creating(l) => Creating(l)')
    BY <1>4, <1>6, <2>1 DEF Persist
  <2>4. \A l \in Keys : l # k => Untouched(l)
    BY <1>1, <1>2, <2>1, <2>2, <2>3, CommitLeaves DEF Untouched
  <2>5. ~synced[Kind(k)] => ~Busy(k)
    BY DEF FreshInv, WorkersWait, Busy, Kind, Kinds
  <2>6. Fresh(k)'
    <3>1. Fresh(k)
      BY DEF FreshInv
    <3> QED BY <1>1, <1>2, <2>1, <2>2, <2>5, <3>1, CommitFresh
  <2>7. \A l \in Keys : Fresh(l)'
    BY <2>4, <2>6, FreshKept DEF FreshInv
  <2>8. WorkersInOrder' /\ WorkersWait'
    BY <1>1 DEF FreshInv, WorkersInOrder, WorkersWait
  <2> QED BY <2>3, <2>7, <2>8 DEF FreshInv
<1> QED BY <1>3, <1>5, <1>6

(* The webhook registers a rule while the call is under way. *)
LEMMA ValidateFresh ==
  ASSUME RegistryInv, FreshInv, Faults = {}, NEW r \in Requests, Validate(r)
  PROVE  FreshInv'
<1>1. PICK k \in Keys : k = request[r].key
  BY ValidateChangesOne DEF Calls
<1> DEFINE call == [request[r] EXCEPT !.hook = "done"]
<1>2. /\ request[r] \in Calls /\ call.api = "waiting" /\ call # NoRequest
      /\ call.key = k /\ call.dryRun = request[r].dryRun /\ InFlight(r)
      /\ request' = [request EXCEPT ![r] = call] /\ synced[Kind(k)]
  <2>1. request[r].hook = "pending" /\ synced[Kind(k)]
    BY <1>1 DEF Validate
  <2>2. /\ request[r] \in Calls /\ call.api = "waiting" /\ call # NoRequest
        /\ call.key = k /\ call.dryRun = request[r].dryRun /\ Settled(call) = call
    BY <1>1, <2>1, PendingCall DEF RegistryInv, FreshInv
  <2>3. request' = [request EXCEPT ![r] = Settled(call)]
    BY DEF Validate
  <2>4. InFlight(r)
    BY <2>1 DEF InFlight, NoRequest
  <2> HIDE DEF call
  <2> QED BY <2>1, <2>2, <2>3, <2>4
<1> HIDE DEF call
<1>3. CallsInOrder' /\ \A l : Creating(l) => Creating(l)'
  <2>1. TypeOK /\ CallsInOrder /\ call.api # "answered" /\ call.api # "ignored"
    BY <1>2 DEF RegistryInv, FreshInv
  <2>2. /\ CallsInOrder'
        /\ \A l : Creating(l) =>
             \/ Creating(l)'
             \/ /\ InFlight(r) /\ ~request[r].dryRun /\ request[r].key = l
                /\ call = NoRequest \/ call.dryRun \/ call.key # l
    BY <1>2, <2>1, CallGoesOn
  <2> QED BY <1>1, <1>2, <2>2
<1>4. UNCHANGED <<apiVars, synced, cache, queue, worker>>
  BY DEF Validate
<1>5. CASE request[r].dryRun
  BY <1>3, <1>4, <1>5, ValidateChangesOne, CallsFresh
<1>6. CASE ~request[r].dryRun
  <2>1. \A l \in Keys : WorkKept(l)
    BY <1>4 DEF WorkKept, Busy
  <2>2. \A l \in Keys : l # k => Registered(l)' = Registered(l)
    BY <1>1, ValidateChangesOne
  <2>3. \A l \in Keys : l # k => Untouched(l)
    BY <1>3, <1>4, <2>1, <2>2 DEF Untouched, apiVars
  <2>4. Creating(k)'
    BY <1>2, <1>1, <1>3, <1>6 DEF Creating
  <2>5. Fresh(k)
    BY DEF FreshInv
  <2>6. Fresh(k)'
    BY <1>2, <1>4, <2>4, <2>5
       DEF Fresh, BeforeList, CacheFollows, Latest, CopyIsFresh, RuleFollows, Coming, Busy, apiVars
  <2>7. \A l \in Keys : Fresh(l)'
    BY <2>3, <2>6, FreshKept DEF FreshInv
  <2>8. WorkersInOrder' /\ WorkersWait'
    BY <1>4 DEF FreshInv, WorkersInOrder, WorkersWait
  <2> QED BY <1>3, <2>7, <2>8 DEF FreshInv
<1> QED BY <1>5, <1>6

(* The first list of a kind finds every object, and no rule yet. *)
LEMMA ListFresh ==
  ASSUME FreshInv, NEW c \in Kinds, List(c), TypeOK
  PROVE  FreshInv'
<1>1. /\ UNCHANGED <<store, watch, request, worker, registry>>
      /\ synced' = [synced EXCEPT ![c] = TRUE] /\ ~synced[c]
      /\ \A k \in Keys :
           /\ cache'[k] = IF Kind(k) = c THEN store[k] ELSE cache[k]
           /\ k \in queue' <=> k \in queue \/ (Kind(k) = c /\ store[k] # NoObject)
  BY DEF List, apiVars
<1>2. \A k \in Keys : Registered(k)' = Registered(k) /\ (Creating(k)' <=> Creating(k))
  BY <1>1 DEF Registered, Creating, InFlight
<1>3. ASSUME NEW k \in Keys, Kind(k) = c
      PROVE  Fresh(k)'
  <2>1. ~Busy(k) /\ ~Busy(k)'
    BY <1>1, <1>3 DEF FreshInv, WorkersWait, Busy
  <2>2. watch'[k] = <<>> /\ Registered(k)' = NoObject /\ cache'[k] = store'[k] /\ synced'[Kind(k)]
    BY <1>1, <1>2, <1>3 DEF FreshInv, Fresh, BeforeList, TypeOK
  <2>3. k \in queue' \/ RuleFor(k, cache[k])' = NoObject
    BY <1>1, <1>3 DEF RuleFor, Gone
  <2> QED BY <2>1, <2>2, <2>3
          DEF Fresh, BeforeList, CacheFollows, Latest, CopyIsFresh, RuleFollows, Coming
<1>4. ASSUME NEW k \in Keys, Kind(k) # c
      PROVE  Untouched(k)
  <2>1. synced'[Kind(k)] = synced[Kind(k)]
    BY <1>1, <1>4 DEF TypeOK, Kind, Kinds
  <2> QED BY <1>1, <1>2, <1>4, <2>1 DEF Untouched, WorkKept, Busy
<1>5. WorkersInOrder' /\ WorkersWait' /\ CallsInOrder'
  BY <1>1 DEF FreshInv, WorkersInOrder, WorkersWait, CallsInOrder, TypeOK
<1> QED BY <1>3, <1>4, <1>5, FreshKept DEF FreshInv

(* An event makes the cache a newer copy and queues the key. *)
LEMMA DeliverFresh ==
  ASSUME TypeOK, FreshInv, NEW k \in Keys, Deliver(k)
  PROVE  FreshInv'
<1>1. /\ UNCHANGED <<store, request, synced, worker, registry>>
      /\ watch[k] # <<>> /\ watch[k] \in Seq(Objects \cup {NoObject})
      /\ watch'[k] = Tail(watch[k]) /\ cache'[k] = Head(watch[k])
      /\ k \in queue'
      /\ \A l \in Keys : l # k => /\ watch'[l] = watch[l] /\ cache'[l] = cache[l]
                                  /\ l \in queue' <=> l \in queue
  BY DEF Deliver, TypeOK
<1>2. \A l \in Keys : /\ Registered(l)' = Registered(l)
                      /\ Creating(l)' <=> Creating(l)
                      /\ WorkKept(l)
  BY <1>1 DEF Registered, Creating, InFlight, WorkKept, Busy
<1>3. Fresh(k)'
  <2>1. synced[Kind(k)] /\ synced'[Kind(k)]
    BY <1>1 DEF FreshInv, Fresh, BeforeList
  <2>2. Latest(k)' = Latest(k)
    <3>1. CASE Tail(watch[k]) = <<>>
      <4>1. Len(watch[k]) = 1
        <5>1. Len(Tail(watch[k])) = Len(watch[k]) - 1 /\ Len(watch[k]) \in Nat
          BY <1>1
        <5>2. \A s \in Seq(Objects \cup {NoObject}) : s = <<>> => Len(s) = 0
          OBVIOUS
        <5>3. Tail(watch[k]) \in Seq(Objects \cup {NoObject})
          BY <1>1
        <5>4. Len(Tail(watch[k])) = 0
          BY <3>1, <5>2, <5>3, Zenon
        <5> QED BY <5>1, <5>4
      <4>2. watch[k][Len(watch[k])] = Head(watch[k])
        BY <1>1, <4>1
      <4> QED BY <1>1, <3>1, <4>2 DEF Latest
    <3>2. CASE Tail(watch[k]) # <<>>
      <4>1. /\ Len(Tail(watch[k])) = Len(watch[k]) - 1 /\ Len(watch[k]) > 1
            /\ Tail(watch[k])[Len(watch[k]) - 1] = watch[k][Len(watch[k])]
        BY <1>1, <3>2
      <4> QED BY <1>1, <3>2, <4>1 DEF Latest
    <3> QED BY <3>1, <3>2
  <2>3. CacheFollows(k)'
    BY <1>1, <2>1, <2>2 DEF FreshInv, Fresh, CacheFollows
  <2> QED BY <1>1, <2>1, <2>3 DEF Fresh, BeforeList, CopyIsFresh, RuleFollows, Coming
<1>4. \A l \in Keys : l # k => Untouched(l)
  BY <1>1, <1>2 DEF Untouched
<1>5. WorkersInOrder' /\ WorkersWait' /\ CallsInOrder'
  BY <1>1 DEF FreshInv, WorkersInOrder, WorkersWait, CallsInOrder
<1> QED BY <1>3, <1>4, <1>5, FreshKept DEF FreshInv

(* The steps of a reconciler. *)
LEMMA GetFresh ==
  ASSUME TypeOK, FreshInv, NEW c \in Kinds, Get(c), WorkersInOrder'
  PROVE  FreshInv'
<1>1. PICK k \in queue :
        /\ Kind(k) = c /\ queue' = queue \ {k}
        /\ worker' = [worker EXCEPT ![Kind(k)] =
                        [at |-> "register", key |-> k, object |-> cache[k]]]
  BY DEF Get
<1>2. /\ UNCHANGED <<store, watch, request, synced, cache, registry>>
      /\ synced[c] /\ worker[c] = IdleWorker /\ k \in Keys
  BY DEF Get, apiVars, TypeOK, Registering, Writing, IdleWorker
<1>3. \A l \in Keys : Registered(l)' = Registered(l) /\ (Creating(l)' <=> Creating(l))
  BY <1>2 DEF Registered, Creating, InFlight
<1>4. worker'[Kind(k)] = [at |-> "register", key |-> k, object |-> cache[k]]
  BY <1>1 DEF TypeOK
<1>5. Fresh(k)'
  <2>1. /\ worker'[Kind(k)].at = "register" /\ worker'[Kind(k)].object = cache[k]
        /\ Busy(k)'
    BY <1>4 DEF Busy, IdleWorker
  <2>2. CacheFollows(k)'
    BY <1>2 DEF FreshInv, Fresh, CacheFollows, Latest
  <2> QED BY <1>1, <1>2, <2>1, <2>2 DEF Fresh, BeforeList, CopyIsFresh, RuleFollows
<1>6. \A l \in Keys : l # k => Untouched(l)
  <2> DEFINE w == [at |-> "register", key |-> k, object |-> cache[k]]
  <2>1. w.key = k /\ worker' = [worker EXCEPT ![Kind(k)] = w]
    BY <1>1
  <2> HIDE DEF w
  <2>2. \A l \in Keys : l # k => WorkKept(l)
    BY <1>1, <1>2, <2>1, OtherWorkKept
  <2> QED BY <1>1, <1>2, <1>3, <2>2 DEF Untouched
<1>7. WorkersWait' /\ CallsInOrder'
  <2>1. \A d \in Kinds : d # c => worker'[d] = worker[d]
    BY <1>1 DEF TypeOK
  <2> QED BY <1>2, <2>1 DEF FreshInv, WorkersWait, CallsInOrder
<1> QED BY <1>5, <1>6, <1>7, FreshKept DEF FreshInv

(* Every other step of a reconciler ends or goes on with its work on one key. *)
LEMMA WorkFresh ==
  ASSUME TypeOK, FreshInv, NEW c \in Kinds, NEW k \in Keys, NEW w,
         worker[c] # IdleWorker, k = worker[c].key,
         worker' = [worker EXCEPT ![c] = w], w = IdleWorker \/ w.key = k,
         WorkersInOrder', Fresh(k)', UNCHANGED <<synced, request>>,
         \A l \in Keys : l # k => /\ store'[l] = store[l] /\ cache'[l] = cache[l]
                                  /\ watch'[l] = watch[l] /\ (l \in queue' <=> l \in queue)
                                  /\ Registered(l)' = Registered(l)
  PROVE  FreshInv'
<1>1. Kind(k) = c /\ synced[c]
  BY WorkerKey
<1>2. \A l \in Keys : l # k => WorkKept(l)
  BY <1>1, OtherWorkKept
<1>3. \A l \in Keys : Creating(l)' <=> Creating(l)
  BY DEF Creating, InFlight
<1>4. \A l \in Keys : l # k => Untouched(l)
  BY <1>2, <1>3 DEF Untouched
<1>5. WorkersWait' /\ CallsInOrder'
  <2>1. \A d \in Kinds : d # c => worker'[d] = worker[d]
    BY DEF TypeOK
  <2> QED BY <1>1, <2>1 DEF FreshInv, WorkersWait, CallsInOrder
<1> QED BY <1>4, <1>5, FreshKept DEF FreshInv

LEMMA RegistrationFresh ==
  ASSUME RegistryInv, FreshInv, NEW c \in Kinds, Unregister(c) \/ Register(c), WorkersInOrder'
  PROVE  FreshInv'
<1>1. PICK k \in Keys : k = worker[c].key
  BY WorkerChangesOne
<1>2. /\ worker[c] \in Registering /\ worker[c] # IdleWorker
      /\ UNCHANGED <<store, watch, request, synced, cache, queue>>
  BY WorkerChangesOne DEF Unregister, Register, IdleWorker, apiVars
<1>3. Kind(k) = c /\ synced[c] /\ Busy(k) /\ Fresh(k)
  BY <1>1, <1>2, WorkerKey DEF RegistryInv, FreshInv
<1>4. BeforeList(k)' /\ CacheFollows(k)' /\ (Coming(k)' <=> Coming(k))
  BY <1>2, <1>3 DEF Fresh, BeforeList, CacheFollows, Latest, Coming, Creating, InFlight
<1>5. CASE Unregister(c)
  <2>1. Registered(k)' = NoObject /\ \A l \in Keys : l # k => Registered(l)' = Registered(l)
    BY <1>1, <1>5, WorkerChangesOne
  <2>2. worker' = [worker EXCEPT ![c] = IdleWorker] /\ Gone(worker[c].object)
    BY <1>5 DEF Unregister
  <2>3. ~Busy(k)'
    BY <1>3, <2>2 DEF Busy, RegistryInv, TypeOK
  <2>4. Coming(k)' \/ RuleFor(k, cache[k])' = NoObject
    BY <1>2, <1>3, <2>2 DEF Fresh, CopyIsFresh, Coming, RuleFor
  <2>5. Fresh(k)'
    BY <1>4, <2>1, <2>3, <2>4 DEF Fresh, CopyIsFresh, RuleFollows
  <2> QED BY <1>1, <1>2, <2>1, <2>2, <2>5, WorkFresh DEF RegistryInv
<1>6. CASE Register(c)
  <2> DEFINE w == [worker[c] EXCEPT !.at = "write"]
  <2>1. /\ Registered(k)' = RuleFor(k, worker[c].object)
        /\ \A l \in Keys : l # k => Registered(l)' = Registered(l)
    BY <1>1, <1>6, WorkerChangesOne DEF Register, RuleFor
  <2>2. w.key = k /\ w.object = worker[c].object /\ w # IdleWorker
    BY <1>1, <1>2 DEF Registering, IdleWorker
  <2>3. worker' = [worker EXCEPT ![c] = w]
    BY <1>6 DEF Register
  <2> HIDE DEF w
  <2>4. worker'[Kind(k)] = w
    BY <1>3, <2>3 DEF RegistryInv, TypeOK
  <2>5. Busy(k)' /\ CopyIsFresh(k)'
    BY <1>2, <1>3, <2>2, <2>4 DEF Busy, Fresh, CopyIsFresh
  <2>6. Fresh(k)'
    BY <1>3, <1>4, <2>1, <2>2, <2>4, <2>5 DEF Fresh, RuleFollows
  <2> QED BY <1>1, <1>2, <2>1, <2>2, <2>3, <2>6, WorkFresh DEF RegistryInv
<1> QED BY <1>5, <1>6

(* The worker is done: what it registered was the rule of the informer's     *)
(* copy, or the key is queued, or the write makes a new event.               *)
LEMMA WriteFresh ==
  ASSUME RegistryInv, FreshInv, NEW c \in Kinds, Write(c), WorkersInOrder'
  PROVE  FreshInv'
<1>1. TypeOK
  BY DEF RegistryInv
<1>2. PICK k \in Keys : k = worker[c].key
  BY <1>1, WriteCommits
<1>3. /\ worker[c] # IdleWorker /\ worker[c].at = "write" /\ worker[c].object \in Objects
      /\ worker' = [worker EXCEPT ![c] = IdleWorker]
      /\ UNCHANGED <<request, synced, cache, registry>>
  <2>1. worker[c].at = "write"
    BY DEF Write
  <2>2. worker[c] # IdleWorker
    BY <2>1 DEF IdleWorker
  <2> QED BY <1>1, <2>1, <2>2, WriteCommits
<1>4. Kind(k) = c /\ synced[c] /\ Busy(k) /\ Fresh(k) /\ ~Gone(worker[c].object)
  BY <1>1, <1>2, <1>3, WorkerKey DEF FreshInv, WorkersInOrder
<1>5. ~Busy(k)'
  BY <1>1, <1>3, <1>4 DEF Busy, TypeOK
<1>6. \A l \in Keys : Registered(l)' = Registered(l) /\ (Creating(l)' <=> Creating(l))
  BY <1>3 DEF Registered, Creating, InFlight
<1>7. \A l \in Keys : l # k => (l \in queue' <=> l \in queue)
  BY <1>2 DEF Write
<1>8. CASE UNCHANGED apiVars
  <2>1. UNCHANGED <<store, watch>> /\ queue \subseteq queue'
    BY <1>1, <1>8, WriteCommits DEF apiVars
  <2>2. BeforeList(k)' /\ CacheFollows(k)' /\ CopyIsFresh(k)'
    BY <1>3, <1>4, <1>5, <2>1 DEF Fresh, BeforeList, CacheFollows, Latest, CopyIsFresh
  <2>3. Coming(k) => Coming(k)'
    BY <1>6, <2>1 DEF Coming
  <2>4. Coming(k) \/ Registered(k) = RuleFor(k, worker[c].object)
    BY <1>3, <1>4 DEF Fresh, RuleFollows
  <2>5. Coming(k) \/ worker[c].object = cache[k]
    BY <1>4 DEF Fresh, CopyIsFresh, Coming
  <2>6. Coming(k)' \/ Registered(k)' = RuleFor(k, cache[k])'
    BY <1>3, <1>4, <1>6, <2>3, <2>4, <2>5 DEF RuleFor
  <2>7. Fresh(k)'
    BY <1>5, <2>2, <2>6 DEF Fresh, RuleFollows
  <2> QED BY <1>1, <1>2, <1>3, <1>6, <1>7, <2>1, <2>7, WorkFresh
<1>9. ASSUME NEW object \in Objects, Commit(k, object), k \in queue' <=> k \in queue
      PROVE  FreshInv'
  <2>1. Fresh(k)'
    BY <1>1, <1>3, <1>4, <1>5, <1>9, CommitFresh
  <2>2. \A l \in Keys : l # k => store'[l] = store[l] /\ watch'[l] = watch[l]
    BY <1>1, <1>9, CommitLeaves
  <2> QED BY <1>1, <1>2, <1>3, <1>6, <1>7, <2>1, <2>2, WorkFresh
<1>10. \/ UNCHANGED apiVars
      \/ /\ UNCHANGED queue
         /\ \E object \in Objects : Commit(k, object)
  <2>1. UNCHANGED apiVars \/ UNCHANGED queue
    BY DEF Write
  <2> QED BY <1>1, <1>2, <2>1, WriteCommits DEF Committed
<1> QED BY <1>8, <1>9, <1>10

(* The end of the process: everything is to be listed again. *)
LEMMA RestartFresh ==
  ASSUME TypeOK, FreshInv, Restart
  PROVE  FreshInv'
<1>1. \A k \in Keys : Registered(k)' = NoObject
  BY EmptyHasNone DEF Restart
<1>2. \A c \in Kinds : ~synced'[c] /\ worker'[c] = IdleWorker
  BY DEF Restart
<1>3. \A k \in Keys : Kind(k) \in Kinds /\ watch'[k] = <<>> /\ k \notin queue'
  BY DEF Restart, Kind, Kinds
<1>4. \A k \in Keys : Fresh(k)'
  BY <1>1, <1>2, <1>3 DEF Fresh, BeforeList, CacheFollows, CopyIsFresh, RuleFollows, Busy
<1>5. WorkersInOrder' /\ WorkersWait'
  BY <1>2 DEF WorkersInOrder, WorkersWait, IdleWorker
<1>6. CallsInOrder'
  <2>1. ASSUME NEW r \in Requests, request[r].hook = "pending"
        PROVE  request'[r].api = "waiting"
    BY <2>1, PendingCall DEF Restart, FreshInv
  <2>2. ASSUME NEW r \in Requests, request[r].hook # "pending"
        PROVE  request'[r] = request[r]
    BY <2>2 DEF Restart
  <2> QED BY <2>1, <2>2 DEF FreshInv, CallsInOrder
<1> QED BY <1>4, <1>5, <1>6 DEF FreshInv

LEMMA FreshInit == Init => FreshInv
<1> SUFFICES ASSUME Init PROVE FreshInv
  OBVIOUS
<1>1. \A k \in Keys : Registered(k) = NoObject /\ Kind(k) \in Kinds
  BY EmptyHasNone DEF Init, Kind, Kinds
<1>2. \A k \in Keys : Fresh(k)
  BY <1>1 DEF Init, Fresh, BeforeList, CacheFollows, CopyIsFresh, RuleFollows, Busy
<1> QED BY <1>2 DEF Init, FreshInv, WorkersInOrder, WorkersWait, CallsInOrder, IdleWorker,
                    NoRequest

LEMMA FreshStep ==
  ASSUME RegistryInv, FreshInv, Faults = {}, [Next]_vars
  PROVE  FreshInv'
<1>1. TypeOK /\ WorkersInOrder'
  BY WorkersStep DEF RegistryInv, FreshInv
<1>2. CASE UNCHANGED vars
  <2>1. CallsInOrder' /\ UNCHANGED <<apiVars, synced, cache, queue, worker>>
    BY <1>2 DEF vars, apiVars, FreshInv, CallsInOrder
  <2>2. \A k \in Keys : Registered(k)' = Registered(k) /\ (Creating(k) => Creating(k)')
    BY <1>2 DEF vars, Registered, Creating, InFlight
  <2> QED BY <2>1, <2>2, CallsFresh
<1>3. CASE User
  BY <1>1, <1>3, UserFresh
<1>4. ASSUME NEW r \in Requests, GiveUp(r) \/ Persist(r) \/ Refuse(r) \/ Validate(r)
      PROVE  FreshInv'
  BY <1>1, <1>4, ApiFresh, ValidateFresh
<1>5. ASSUME NEW c \in Kinds, List(c) \/ Reconcile(c)
      PROVE  FreshInv'
  BY <1>1, <1>5, ListFresh, GetFresh, RegistrationFresh, WriteFresh DEF Reconcile
<1>6. ASSUME NEW k \in Keys, Deliver(k)
      PROVE  FreshInv'
  BY <1>1, <1>6, DeliverFresh
<1>7. CASE End
  BY <1>1, <1>7, RestartFresh DEF End, Crash, Panic
<1> QED BY <1>2, <1>3, <1>4, <1>5, <1>6, <1>7 DEF Next, Run

(* What FreshInv is for. *)
LEMMA NothingPendingIsCorrect ==
  ASSUME TypeOK, FreshInv, NEW k \in Keys, ~CorrectionPending(k)
  PROVE  Registered(k) = Wanted(k)
<1>1. /\ synced[Kind(k)] /\ ~Coming(k) /\ ~Busy(k) /\ watch[k] = <<>>
  BY DEF CorrectionPending, Coming, Creating, Busy
<1>2. Registered(k) = RuleFor(k, cache[k])
  BY <1>1 DEF FreshInv, Fresh, RuleFollows
<1>3. cache[k] = store[k]
  BY <1>1 DEF FreshInv, Fresh, CacheFollows, Latest
<1> QED BY <1>2, <1>3 DEF RuleFor, Wanted

LEMMA RegistryStaysFresh ==
  ASSUME Faults = {}
  PROVE  Spec => [](RegistryInv /\ FreshInv)
<1>1. RegistryInv /\ FreshInv /\ [Next]_vars => RegistryInv' /\ FreshInv'
  BY NextInv, FreshStep
<1> QED BY <1>1, InitInv, FreshInit, PTL DEF Spec

(* For any number of objects, creates, updates, deletes and crashes: a rule  *)
(* in memory that differs from its object in the cluster is never final, a   *)
(* correction is always under way (crdReconciler.go, main.go).  Each of the  *)
(* three faults refutes it: a refused create leaves the rule of an object    *)
(* that never was; a call that timed out may register the spec of a creation *)
(* after the reconciler has registered that of an update; and a rule that is *)
(* registered before the first list stays if its object goes before it.      *)
THEOREM RulesAreCorrected ==
  ASSUME Faults = {}
  PROVE  Spec => []NoStaleRuleIsFinal
<1>1. RegistryInv /\ FreshInv => NoStaleRuleIsFinal
  BY NothingPendingIsCorrect DEF RegistryInv, NoStaleRuleIsFinal
<1> QED BY <1>1, RegistryStaysFresh, PTL
=============================================================================
