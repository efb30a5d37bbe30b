-------------------------- MODULE RuleRegistryProofs --------------------------
(* Theorems about RuleRegistry, for all values of its constants: that its    *)
(* lists are in order, and that they implement a book of rules (RuleBook).   *)
EXTENDS RuleRegistry, RuleTableProofs

(* What TypeOK and RegistryInOrder need of one another: an upsert keeps the  *)
(* order and the names only in a list that is in order.                      *)
RegistryInv == TypeOK /\ RegistryInOrder

(* Scoping a spec for an object gives one of the known specs, whatever it    *)
(* was scoped for before.                                                    *)
LEMMA ScopedKnown ==
  /\ Specs \subseteq KnownSpecs
  /\ \A k \in Keys, spec \in KnownSpecs : Scoped(k, spec) \in KnownSpecs
<1>1. ASSUME NEW k \in Keys, NEW l \in Keys, NEW spec \in Specs
      PROVE  Scoped(k, Scoped(l, spec)) \in {Scoped(k, spec), Scoped(l, spec)}
  <2>1. spec \in [priority : Int, hasRules : BOOLEAN, hasMatch : BOOLEAN,
                  namespaceRegex : Scopes]
    BY RegistryAssumption
  <2>2. [[spec EXCEPT !.namespaceRegex = Scope(l)] EXCEPT !.namespaceRegex = Scope(k)]
          = [spec EXCEPT !.namespaceRegex = Scope(k)]
    BY <2>1
  <2> QED BY <2>2 DEF Scoped
<1>2. ASSUME NEW k \in Keys, NEW spec \in KnownSpecs
      PROVE  Scoped(k, spec) \in KnownSpecs
  <2>1. CASE spec \in Specs
    BY <2>1 DEF KnownSpecs
  <2>2. CASE \E l \in Keys, origin \in Specs : spec = Scoped(l, origin)
    BY <1>1, <2>2 DEF KnownSpecs
  <2> QED BY <2>1, <2>2 DEF KnownSpecs
<1> QED BY <1>2 DEF KnownSpecs

LEMMA PriorityTyped == \A spec \in KnownSpecs : spec.priority \in Int
BY RegistryAssumption DEF KnownSpecs, Scoped

(* What the reconciler makes of an object is an object. *)
LEMMA ProcessedTyped ==
  ASSUME NEW k \in Keys, NEW object \in Objects, NEW rv \in Nat
  PROVE  /\ [Processed(k, object) EXCEPT !.rv = rv] \in Objects
         /\ [Processed(k, object) EXCEPT !.rv = rv].rv = rv
         /\ [Processed(k, object) EXCEPT !.rv = rv].spec = Scoped(k, object.spec)
         /\ [Processed(k, object) EXCEPT !.rv = rv].deleting = object.deleting
BY ScopedKnown DEF Processed, Objects

(* Both writers of the registry leave it well-typed and in order. *)
LEMMA UpsertsInOrder ==
  ASSUME TypeOK, RegistryInOrder, NEW k \in Keys, NEW spec \in KnownSpecs,
         registry' \in Upserts(k, spec)
  PROVE  registry' \in [Scopes -> Seq(Rules)] /\ RegistryInOrder'
<1> DEFINE s    == Scope(k)
           rule == [name |-> k, spec |-> Scoped(k, spec)]
<1>1. s \in Scopes /\ rule \in Rules /\ rule.name = k
  BY RegistryAssumption, ScopedKnown DEF Scope, Rules
<1>2. /\ registry[s] \in Seq(Rules)
      /\ NamesDistinct(registry[s])
      /\ \A i \in DOMAIN registry[s] : Scope(registry[s][i].name) = s
  BY <1>1 DEF TypeOK, RegistryInOrder
<1>3. PICK rules \in UpsertSpec(registry[s], rule) :
        registry' = [registry EXCEPT ![s] = rules]
  BY DEF Upserts
<1> HIDE DEF s, rule
<1>4. /\ rules \in Seq(Rules)
      /\ Ascending(rules)
      /\ NamesDistinct(rules)
      /\ \A i \in DOMAIN rules :
           \/ rules[i] = rule
           \/ \E j \in DOMAIN registry[s] : rules[i] = registry[s][j]
  BY <1>1, <1>2, UpsertSpecFacts
<1>5. \A i \in DOMAIN rules : Scope(rules[i].name) = s
  BY <1>1, <1>2, <1>4 DEF s
<1>6. /\ registry' \in [Scopes -> Seq(Rules)]
      /\ registry'[s] = rules
      /\ \A t \in Scopes : t # s => registry'[t] = registry[t]
  BY <1>1, <1>3, <1>4 DEF TypeOK
<1> QED BY <1>4, <1>5, <1>6 DEF RegistryInOrder

LEMMA DeletedInOrder ==
  ASSUME TypeOK, RegistryInOrder, NEW k \in Keys, registry' = Deleted(k)
  PROVE  registry' \in [Scopes -> Seq(Rules)] /\ RegistryInOrder'
<1> DEFINE s     == Scope(k)
           rules == DeleteSpec(registry[s], k)
<1>1. s \in Scopes
  BY RegistryAssumption DEF Scope
<1>2. /\ registry[s] \in Seq(Rules)
      /\ NamesDistinct(registry[s])
      /\ Ascending(registry[s])
      /\ \A i \in DOMAIN registry[s] : Scope(registry[s][i].name) = s
  BY <1>1 DEF TypeOK, RegistryInOrder
<1>3. registry' = [registry EXCEPT ![s] = rules]
  BY DEF Deleted
<1>4. /\ rules \in Seq(Rules)
      /\ Ascending(rules)
      /\ NamesDistinct(rules)
      /\ \A i \in DOMAIN rules : \E j \in DOMAIN registry[s] : rules[i] = registry[s][j]
  BY <1>2, DeleteSpecFacts
<1> HIDE DEF s, rules
<1>5. \A i \in DOMAIN rules : Scope(rules[i].name) = s
  BY <1>2, <1>4
<1>6. /\ registry' \in [Scopes -> Seq(Rules)]
      /\ registry'[s] = rules
      /\ \A t \in Scopes : t # s => registry'[t] = registry[t]
  BY <1>1, <1>3, <1>4 DEF TypeOK
<1> QED BY <1>4, <1>5, <1>6 DEF RegistryInOrder

(* The process starts with empty lists, and after a crash has them again. *)
LEMMA EmptyInOrder ==
  ASSUME NEW lists, lists = [s \in Scopes |-> <<>>]
  PROVE  /\ lists \in [Scopes -> Seq(Rules)]
         /\ \A s \in Scopes :
              /\ NamesDistinct(lists[s])
              /\ Ascending(lists[s])
              /\ \A i \in DOMAIN lists[s] : Scope(lists[s][i].name) = s
BY DEF NamesDistinct, Ascending

-----------------------------------------------------------------------------
LEMMA InitInv == Init => RegistryInv
<1> SUFFICES ASSUME Init PROVE RegistryInv
  OBVIOUS
<1>1. registry \in [Scopes -> Seq(Rules)] /\ RegistryInOrder
  BY EmptyInOrder DEF Init, RegistryInOrder
<1>2. TypeOK
  BY <1>1, RegistryAssumption DEF Init, TypeOK
<1> QED BY <1>1, <1>2 DEF RegistryInv

(* An object the API server takes is an object: what Commit records is typed. *)
LEMMA CommitTyped ==
  ASSUME TypeOK, NEW k \in Keys, NEW object \in Objects \cup {NoObject},
         Commit(k, object)
  PROVE  /\ store' \in [Keys -> Objects \cup {NoObject}]
         /\ watch' \in [Keys -> Seq(Objects \cup {NoObject})]
<1>1. store' \in [Keys -> Objects \cup {NoObject}]
  BY DEF TypeOK, Commit
<1>2. watch[k] \in Seq(Objects \cup {NoObject})
  BY DEF TypeOK
<1>3. Append(watch[k], object) \in Seq(Objects \cup {NoObject})
  BY <1>2
<1> QED BY <1>1, <1>2, <1>3 DEF TypeOK, Commit

LEMMA SettledTyped ==
  ASSUME NEW call \in Calls
  PROVE  Settled(call) \in Calls \cup {NoRequest}
BY DEF Settled

(* Create calls.  An entry of `request' that has reached the API server is a  *)
(* call, which is what lets its fields be used.                               *)
LEMMA ApiTyped ==
  ASSUME TypeOK, NEW r \in Requests, GiveUp(r) \/ Persist(r) \/ Refuse(r)
  PROVE  TypeOK'
<1>1. request[r] \in Calls
  <2>1. request[r].api \in {"waiting", "ignored"}
    BY DEF GiveUp, Persist, Refuse, Admitted
  <2> QED BY <2>1 DEF TypeOK, NoRequest
<1>2. CASE GiveUp(r)
  <2>1. request' \in [Requests -> Calls \cup {NoRequest}]
    <3>1. PICK hook \in {"done", "pending"} :
            request' = [request EXCEPT ![r] =
                          [@ EXCEPT !.api = "ignored", !.hook = hook]]
      BY <1>2 DEF GiveUp
    <3>2. [request[r] EXCEPT !.api = "ignored", !.hook = hook] \in Calls
      BY <1>1 DEF Calls
    <3> QED BY <3>1, <3>2 DEF TypeOK
  <2> QED BY <1>2, <2>1 DEF GiveUp, TypeOK, apiVars, processVars, bounds
<1>3. ASSUME Answer(r)
      PROVE  request' \in [Requests -> Calls \cup {NoRequest}]
  <2>1. [request[r] EXCEPT !.api = "answered"] \in Calls
    BY <1>1 DEF Calls
  <2> QED BY <1>3, <2>1, SettledTyped DEF Answer, TypeOK
<1>4. CASE Persist(r)
  <2> DEFINE k == request[r].key
             object == [spec |-> request[r].spec, processed |-> FALSE,
                        deleting |-> FALSE, rv |-> version[k] + 1]
  <2>1. k \in Keys /\ object \in Objects
    BY <1>1, ScopedKnown DEF Calls, Objects, TypeOK
  <2>2. Commit(k, object) /\ NewVersion(k) /\ Answer(r)
    BY <1>4 DEF Persist
  <2>3. version' \in [Keys -> Nat]
    BY <2>1, <2>2 DEF NewVersion, TypeOK
  <2> HIDE DEF object
  <2> QED BY <1>3, <1>4, <2>1, <2>2, <2>3, CommitTyped
          DEF Persist, TypeOK, processVars, bounds
<1>5. CASE Refuse(r)
  BY <1>3, <1>5 DEF Refuse, TypeOK, apiVars, processVars, bounds
<1> QED BY <1>2, <1>4, <1>5

(* The steps of users. *)
LEMMA UserTyped == TypeOK /\ User => TypeOK'
<1> SUFFICES ASSUME TypeOK, User PROVE TypeOK'
  OBVIOUS
<1>1. ASSUME NEW r \in Requests, NEW k \in Keys, NEW spec \in Specs,
             NEW dryRun \in BOOLEAN, Create(r, k, spec, dryRun)
      PROVE  TypeOK'
  <2>1. [key |-> k, spec |-> spec, dryRun |-> dryRun, api |-> "waiting",
         hook |-> "pending"] \in Calls
    BY DEF Calls
  <2>2. request' \in [Requests -> Calls \cup {NoRequest}]
    BY <1>1, <2>1 DEF Create, TypeOK
  <2>3. writes' \in 0..MaxWrites
    BY <1>1, RegistryAssumption DEF Create, TypeOK
  <2> QED BY <1>1, <2>2, <2>3 DEF Create, TypeOK, apiVars, processVars
<1>2. ASSUME NEW k \in Keys, NEW spec \in Specs, NEW keep \in BOOLEAN,
             Update(k, spec, keep)
      PROVE  TypeOK'
  <2> DEFINE object == [store[k] EXCEPT !.spec = spec, !.processed = keep /\ @,
                                        !.rv = version[k] + 1]
  <2>1. store[k] \in Objects
    BY <1>2 DEF Update, TypeOK
  <2>2. (keep /\ store[k].processed) \in BOOLEAN /\ version[k] + 1 \in Nat
    BY <2>1 DEF TypeOK, Objects
  <2>3. object \in Objects
    BY <2>1, <2>2, ScopedKnown DEF Objects
  <2>4. writes' \in 0..MaxWrites /\ version' \in [Keys -> Nat]
    BY <1>2, RegistryAssumption DEF Update, NewVersion, TypeOK
  <2>5. Commit(k, object)
    BY <1>2 DEF Update
  <2> HIDE DEF object
  <2> QED BY <1>2, <2>3, <2>4, <2>5, CommitTyped DEF Update, TypeOK, processVars
<1>3. ASSUME NEW k \in Keys, MarkDeleting(k)
      PROVE  TypeOK'
  <2> DEFINE object == [store[k] EXCEPT !.deleting = TRUE, !.rv = version[k] + 1]
  <2>1. store[k] \in Objects /\ version[k] + 1 \in Nat
    BY <1>3 DEF MarkDeleting, TypeOK
  <2>2. object \in Objects
    BY <2>1 DEF Objects
  <2>3. writes' \in 0..MaxWrites /\ version' \in [Keys -> Nat]
    BY <1>3, RegistryAssumption DEF MarkDeleting, NewVersion, TypeOK
  <2>4. Commit(k, object)
    BY <1>3 DEF MarkDeleting
  <2> HIDE DEF object
  <2> QED BY <1>3, <2>2, <2>3, <2>4, CommitTyped DEF MarkDeleting, TypeOK, processVars
<1>4. ASSUME NEW k \in Keys, Delete(k)
      PROVE  TypeOK'
  BY <1>4, CommitTyped DEF Delete, TypeOK, processVars, bounds
<1> QED BY <1>1, <1>2, <1>3, <1>4 DEF User

LEMMA ValidateInv ==
  ASSUME TypeOK, RegistryInOrder, NEW r \in Requests, Validate(r)
  PROVE  TypeOK' /\ RegistryInOrder'
<1>1. request[r] \in Calls
  BY DEF TypeOK, Validate, NoRequest
<1>2. request[r].key \in Keys /\ request[r].spec \in KnownSpecs
  BY <1>1, ScopedKnown DEF Calls
<1>3. registry' = registry \/ registry' \in Upserts(request[r].key, request[r].spec)
  BY DEF Validate
<1>4. registry' \in [Scopes -> Seq(Rules)] /\ RegistryInOrder'
  BY <1>2, <1>3, UpsertsInOrder DEF TypeOK, RegistryInOrder
<1>5. [request[r] EXCEPT !.hook = "done"] \in Calls
  BY <1>1 DEF Calls
<1>6. request' \in [Requests -> Calls \cup {NoRequest}]
  BY <1>5, SettledTyped DEF Validate, TypeOK
<1> QED BY <1>4, <1>6 DEF Validate, TypeOK, apiVars, bounds

(* The informers only move objects and keys. *)
LEMMA InformerTyped ==
  ASSUME TypeOK, (\E c \in Kinds : List(c)) \/ (\E k \in Keys : Deliver(k))
  PROVE  TypeOK'
<1>1. ASSUME NEW c \in Kinds, List(c)
      PROVE  TypeOK'
  BY <1>1 DEF List, TypeOK, apiVars, bounds
<1>2. ASSUME NEW k \in Keys, Deliver(k)
      PROVE  TypeOK'
  <2>1. /\ watch[k] \in Seq(Objects \cup {NoObject})
        /\ watch[k] # <<>>
    BY <1>2 DEF Deliver, TypeOK
  <2>2. /\ Head(watch[k]) \in Objects \cup {NoObject}
        /\ Tail(watch[k]) \in Seq(Objects \cup {NoObject})
    BY <2>1
  <2>3. /\ cache' \in [Keys -> Objects \cup {NoObject}]
        /\ watch' \in [Keys -> Seq(Objects \cup {NoObject})]
        /\ queue' \subseteq Keys
    BY <1>2, <2>2 DEF Deliver, TypeOK
  <2> QED BY <1>2, <2>3 DEF Deliver, TypeOK, bounds
<1> QED BY <1>1, <1>2

(* A worker that is not idle holds a key and what the cache said of it. *)
LEMMA BusyWorker ==
  ASSUME TypeOK, NEW c \in Kinds
  PROVE  /\ worker[c].at = "register" => worker[c] \in Registering
         /\ worker[c].at = "write"    => worker[c] \in Writing
BY DEF TypeOK, IdleWorker, Registering, Writing

LEMMA RestartInv ==
  ASSUME TypeOK, Restart, writes' = writes, crashes' \in 0..MaxCrashes
  PROVE  TypeOK' /\ RegistryInOrder'
<1>1. registry' \in [Scopes -> Seq(Rules)] /\ RegistryInOrder'
  BY EmptyInOrder DEF Restart, RegistryInOrder
<1>2. ASSUME NEW r \in Requests
      PROVE  request'[r] \in Calls \cup {NoRequest}
  <2>1. CASE request[r].hook = "pending"
    <3>1. request[r] \in Calls
      BY <2>1 DEF TypeOK, NoRequest
    <3>2. [request[r] EXCEPT !.hook = "done"] \in Calls
      BY <3>1 DEF Calls
    <3> QED BY <2>1, <3>2, SettledTyped DEF Restart
  <2>2. CASE request[r].hook # "pending"
    BY <2>2 DEF Restart, TypeOK
  <2> QED BY <2>1, <2>2
<1>3. request' \in [Requests -> Calls \cup {NoRequest}]
  BY <1>2 DEF Restart
<1> QED BY <1>1, <1>3 DEF Restart, TypeOK

(* The steps of a reconciler. *)
LEMMA ControllerInv ==
  ASSUME TypeOK, RegistryInOrder, NEW c \in Kinds, Controller(c)
  PROVE  TypeOK' /\ RegistryInOrder'
<1> DEFINE busy == worker[c]
<1>1. CASE Get(c)
  <2>1. PICK k \in queue :
          /\ queue' = queue \ {k}
          /\ worker' = [worker EXCEPT ![c] =
                           [at |-> "register", key |-> k, object |-> cache[k]]]
    BY <1>1 DEF Get
  <2>2. [at |-> "register", key |-> k, object |-> cache[k]] \in Registering
    BY DEF TypeOK, Registering
  <2>3. RegistryInOrder'
    BY <1>1 DEF Get, RegistryInOrder
  <2> QED BY <1>1, <2>1, <2>2, <2>3 DEF Get, TypeOK, apiVars, bounds
<1>2. CASE Unregister(c)
  <2>1. busy \in Registering
    BY <1>2, BusyWorker DEF Unregister
  <2>2. busy.key \in Keys /\ registry' = Deleted(busy.key)
    BY <1>2, <2>1 DEF Unregister, Registering
  <2>3. registry' \in [Scopes -> Seq(Rules)] /\ RegistryInOrder'
    BY <2>2, DeletedInOrder
  <2> QED BY <1>2, <2>3 DEF Unregister, TypeOK, apiVars, bounds
<1>3. CASE Register(c)
  <2>1. busy \in Registering /\ busy.object # NoObject
    BY <1>3, BusyWorker DEF Register, Gone
  <2>2. busy.key \in Keys /\ busy.object.spec \in KnownSpecs
    BY <2>1 DEF Registering, Objects
  <2>3. registry' \in [Scopes -> Seq(Rules)] /\ RegistryInOrder'
    BY <1>3, <2>2, UpsertsInOrder DEF Register
  <2>4. [busy EXCEPT !.at = "write"] \in Writing
    BY <2>1 DEF Registering, Writing
  <2>5. worker' \in [Kinds -> {IdleWorker} \cup Registering \cup Writing]
    BY <1>3, <2>4 DEF Register, TypeOK
  <2> QED BY <1>3, <2>3, <2>5 DEF Register, TypeOK, apiVars, bounds
<1>4. CASE Write(c)
  <2> DEFINE k == busy.key
             object == [Processed(k, busy.object) EXCEPT !.rv = version[k] + 1]
  <2>1. busy \in Writing
    BY <1>4, BusyWorker DEF Write
  <2>2. k \in Keys /\ busy.object \in Objects
    BY <2>1 DEF Writing
  <2>3. /\ worker' \in [Kinds -> {IdleWorker} \cup Registering \cup Writing]
        /\ queue' \subseteq Keys
        /\ RegistryInOrder'
    BY <1>4, <2>2 DEF Write, TypeOK, RegistryInOrder
  <2>4. /\ store' \in [Keys -> Objects \cup {NoObject}]
        /\ watch' \in [Keys -> Seq(Objects \cup {NoObject})]
        /\ version' \in [Keys -> Nat]
    <3>1. CASE UNCHANGED apiVars
      BY <3>1 DEF apiVars, TypeOK
    <3>2. CASE Commit(k, object) /\ NewVersion(k)
      <4>1. version[k] + 1 \in Nat
        BY <2>2 DEF TypeOK
      <4>2. object \in Objects
        BY <2>2, <4>1, ProcessedTyped
      <4>3. version' \in [Keys -> Nat]
        BY <2>2, <3>2, <4>1 DEF NewVersion, TypeOK
      <4> HIDE DEF object, k
      <4> QED BY <2>2, <3>2, <4>2, <4>3, CommitTyped
    <3> QED BY <1>4, <3>1, <3>2 DEF Write
  <2> QED BY <1>4, <2>3, <2>4 DEF Write, TypeOK, bounds
<1>5. CASE Panic(c)
  BY <1>5, RestartInv DEF Panic, bounds, TypeOK
<1> QED BY <1>1, <1>2, <1>3, <1>4, <1>5 DEF Controller, Reconcile

LEMMA NextInv == RegistryInv /\ [Next]_vars => RegistryInv'
<1> SUFFICES ASSUME TypeOK, RegistryInOrder, [Next]_vars
             PROVE  TypeOK' /\ RegistryInOrder'
  BY DEF RegistryInv
<1>1. ASSUME registry' = registry
      PROVE  RegistryInOrder'
  BY <1>1 DEF RegistryInOrder
<1>2. CASE User
  BY <1>1, <1>2, UserTyped
     DEF User, Create, Update, MarkDeleting, Delete, processVars
<1>3. ASSUME NEW r \in Requests, GiveUp(r) \/ Persist(r) \/ Refuse(r)
      PROVE  TypeOK' /\ RegistryInOrder'
  BY <1>1, <1>3, ApiTyped DEF GiveUp, Persist, Refuse, processVars
<1>4. ASSUME NEW r \in Requests, Validate(r)
      PROVE  TypeOK' /\ RegistryInOrder'
  BY <1>4, ValidateInv
<1>5. CASE (\E c \in Kinds : List(c)) \/ (\E k \in Keys : Deliver(k))
  BY <1>1, <1>5, InformerTyped DEF List, Deliver
<1>6. ASSUME NEW c \in Kinds, Controller(c)
      PROVE  TypeOK' /\ RegistryInOrder'
  BY <1>6, ControllerInv
<1>7. CASE Crash
  <2>1. crashes' \in 0..MaxCrashes /\ writes' = writes /\ Restart
    BY <1>7, RegistryAssumption DEF Crash, TypeOK
  <2> QED BY <2>1, RestartInv
<1>8. CASE UNCHANGED vars
  BY <1>8 DEF vars, TypeOK, RegistryInOrder
<1>9. CASE Run
  BY <1>2, <1>3, <1>4, <1>5, <1>6, <1>9 DEF Run, Controller
<1>10. CASE End
  BY <1>6, <1>7, <1>10 DEF End, Controller
<1> QED BY <1>8, <1>9, <1>10 DEF Next

-----------------------------------------------------------------------------
(* The variables keep their types, whatever the constants: in particular the *)
(* registry holds nothing but rules named after objects.                     *)
THEOREM TypeCorrect == Spec => []TypeOK
<1>1. Spec => []RegistryInv
  BY InitInv, NextInv, PTL DEF Spec
<1>2. RegistryInv => TypeOK
  BY DEF RegistryInv
<1> QED BY <1>1, <1>2, PTL

(* For any number of objects, create calls, faults and crashes: no list ever *)
(* holds two rules of one name, every list is sorted by ascending priority,  *)
(* and a rule is only in the list of its own namespace or in the cluster's.  *)
THEOREM RegistryAlwaysInOrder == Spec => []RegistryInOrder
<1>1. Spec => []RegistryInv
  BY InitInv, NextInv, PTL DEF Spec
<1>2. RegistryInv => RegistryInOrder
  BY DEF RegistryInv
<1> QED BY <1>1, <1>2, PTL
-----------------------------------------------------------------------------
(* What each step does to the rule of one object, and the book.              *)

(* The spec of the rule of that name in a list, see Registered. *)
RuleOf(rules, name) ==
  IF IsNamed(rules, name)
    THEN rules[CHOOSE i \in DOMAIN rules : rules[i].name = name].spec
    ELSE NoObject

(* In a list of distinct names it is found wherever it is. *)
LEMMA RuleOfFacts ==
  ASSUME NEW rules, NamesDistinct(rules), NEW name
  PROVE  /\ \A i \in DOMAIN rules :
              rules[i].name = name => RuleOf(rules, name) = rules[i].spec
         /\ ~IsNamed(rules, name) => RuleOf(rules, name) = NoObject
<1>1. ASSUME NEW i \in DOMAIN rules, rules[i].name = name
      PROVE  RuleOf(rules, name) = rules[i].spec
  <2>1. IsNamed(rules, name)
    BY <1>1 DEF IsNamed
  <2>2. (CHOOSE j \in DOMAIN rules : rules[j].name = name) = i
    BY <1>1 DEF NamesDistinct
  <2> QED BY <2>1, <2>2 DEF RuleOf
<1> QED BY <1>1 DEF RuleOf

(* Two lists that hold the same rules of a name agree on it. *)
LEMMA RuleOfKept ==
  ASSUME NEW rules, NEW result, NamesDistinct(rules), NamesDistinct(result), NEW name,
         \A i \in DOMAIN result : result[i].name = name =>
           \E j \in DOMAIN rules : result[i] = rules[j],
         \A j \in DOMAIN rules : rules[j].name = name =>
           \E i \in DOMAIN result : result[i] = rules[j]
  PROVE  RuleOf(result, name) = RuleOf(rules, name)
<1>1. CASE IsNamed(rules, name)
  <2>1. PICK j \in DOMAIN rules : rules[j].name = name
    BY <1>1 DEF IsNamed
  <2>2. PICK i \in DOMAIN result : result[i] = rules[j]
    BY <2>1
  <2> QED BY <2>1, <2>2, RuleOfFacts
<1>2. CASE ~IsNamed(rules, name)
  <2>1. ~IsNamed(result, name)
    BY <1>2 DEF IsNamed
  <2> QED BY <1>2, <2>1, RuleOfFacts
<1> QED BY <1>1, <1>2

LEMMA RegisteredIsRuleOf ==
  /\ \A k \in Keys : Registered(k) = RuleOf(registry[Scope(k)], k)
  /\ \A k \in Keys : Registered(k)' = RuleOf(registry'[Scope(k)], k)
BY DEF Registered, RuleOf

(* What the registry has for an object is a spec, or nothing. *)
LEMMA RegisteredTyped ==
  ASSUME RegistryInv, NEW k \in Keys
  PROVE  /\ Registered(k) \in KnownSpecs \cup {NoObject}
         /\ \A i \in DOMAIN registry[Scope(k)] :
              registry[Scope(k)][i].name = k => Registered(k) = registry[Scope(k)][i].spec
<1> DEFINE rules == registry[Scope(k)]
<1>1. Scope(k) \in Scopes
  BY RegistryAssumption DEF Scope
<1>2. rules \in Seq(Rules) /\ NamesDistinct(rules)
  BY <1>1 DEF RegistryInv, TypeOK, RegistryInOrder
<1> HIDE DEF rules
<1>3. \A i \in DOMAIN rules : rules[i] \in Rules
  BY <1>2
<1>4. RuleOf(rules, k) \in KnownSpecs \cup {NoObject}
  BY <1>2, <1>3, RuleOfFacts DEF IsNamed, Rules
<1> QED BY <1>2, <1>4, RuleOfFacts, RegisteredIsRuleOf DEF rules

(* An upsert enters the rule of its own object, a delete strikes it out, and *)
(* both leave all others, in the same list and elsewhere.                    *)
LEMMA UpsertEntersOne ==
  ASSUME RegistryInv, NEW k \in Keys, NEW spec \in KnownSpecs, registry' \in Upserts(k, spec)
  PROVE  \A l \in Keys : Registered(l)' = IF l = k THEN Scoped(k, spec) ELSE Registered(l)
<1> DEFINE s     == Scope(k)
           rule  == [name |-> k, spec |-> Scoped(k, spec)]
           rules == registry[s]
<1>1. s \in Scopes /\ rule \in Rules /\ rule.name = k /\ rule.spec = Scoped(k, spec)
  BY RegistryAssumption, ScopedKnown DEF Scope, Rules
<1>2. rules \in Seq(Rules) /\ NamesDistinct(rules) /\ registry \in [Scopes -> Seq(Rules)]
  BY <1>1 DEF RegistryInv, TypeOK, RegistryInOrder
<1>3. PICK result \in UpsertSpec(rules, rule) : registry' = [registry EXCEPT ![s] = result]
  BY DEF Upserts
<1>4. registry'[s] = result /\ \A t \in Scopes : t # s => registry'[t] = registry[t]
  BY <1>1, <1>2, <1>3
<1> HIDE DEF rule, rules
<1>5. /\ result \in Seq(Rules)
      /\ NamesDistinct(result)
      /\ \A i \in DOMAIN result :
           result[i] = rule \/ \E j \in DOMAIN rules : result[i] = rules[j]
      /\ \E i \in DOMAIN result : result[i] = rule
      /\ \A j \in DOMAIN rules : rules[j].name # rule.name =>
           \E i \in DOMAIN result : result[i] = rules[j]
  BY <1>1, <1>2, <1>3, UpsertSpecFacts
<1>6. RuleOf(result, k) = Scoped(k, spec)
  BY <1>1, <1>5, RuleOfFacts
<1>7. ASSUME NEW l, l # k
      PROVE  RuleOf(result, l) = RuleOf(rules, l)
  <2>1. \A i \in DOMAIN result : result[i].name = l => \E j \in DOMAIN rules : result[i] = rules[j]
    BY <1>1, <1>5, <1>7
  <2>2. \A j \in DOMAIN rules : rules[j].name = l => \E i \in DOMAIN result : result[i] = rules[j]
    BY <1>1, <1>5, <1>7
  <2> QED BY <1>2, <1>5, <2>1, <2>2, RuleOfKept
<1>8. \A l \in Keys : Scope(l) \in Scopes
  BY RegistryAssumption DEF Scope
<1> QED BY <1>4, <1>6, <1>7, <1>8, RegisteredIsRuleOf DEF rules

LEMMA DeleteStrikesOne ==
  ASSUME RegistryInv, NEW k \in Keys, registry' = Deleted(k)
  PROVE  \A l \in Keys : Registered(l)' = IF l = k THEN NoObject ELSE Registered(l)
<1> DEFINE s      == Scope(k)
           rules  == registry[s]
           result == DeleteSpec(rules, k)
<1>1. s \in Scopes
  BY RegistryAssumption DEF Scope
<1>2. /\ rules \in Seq(Rules) /\ NamesDistinct(rules) /\ Ascending(rules)
      /\ registry \in [Scopes -> Seq(Rules)]
  BY <1>1 DEF RegistryInv, TypeOK, RegistryInOrder
<1>3. registry' = [registry EXCEPT ![s] = result]
  BY DEF Deleted
<1>4. /\ result \in Seq(Rules)
      /\ NamesDistinct(result)
      /\ \A i \in DOMAIN result : \E j \in DOMAIN rules : result[i] = rules[j]
  BY <1>2, DeleteSpecFacts
<1>5. ~IsNamed(result, k)
  BY <1>2, DeleteSpecFacts
<1>6. \A j \in DOMAIN rules : rules[j].name # k =>
        \E i \in DOMAIN result : result[i] = rules[j]
  BY <1>2, DeleteSpecFacts
<1> HIDE DEF rules, result
<1>7. registry'[s] = result /\ \A t \in Scopes : t # s => registry'[t] = registry[t]
  BY <1>1, <1>2, <1>3
<1>8. RuleOf(result, k) = NoObject
  BY <1>4, <1>5, RuleOfFacts
<1>9. \A l : l # k => RuleOf(result, l) = RuleOf(rules, l)
  BY <1>2, <1>4, <1>6, RuleOfKept
<1>10. \A l \in Keys : Scope(l) \in Scopes
  BY RegistryAssumption DEF Scope
<1> QED BY <1>7, <1>8, <1>9, <1>10, RegisteredIsRuleOf DEF rules

(* The end of the process empties the registry. *)
LEMMA EmptyHasNone ==
  /\ registry  = [s \in Scopes |-> <<>>] => \A k \in Keys : Registered(k) = NoObject
  /\ registry' = [s \in Scopes |-> <<>>] => \A k \in Keys : Registered(k)' = NoObject
<1>1. \A k \in Keys : Scope(k) \in Scopes
  BY RegistryAssumption DEF Scope
<1>2. \A k : RuleOf(<<>>, k) = NoObject
  BY DEF RuleOf, IsNamed
<1> QED BY <1>1, <1>2, RegisteredIsRuleOf

(* The three steps that write to the registry of a process that goes on.     *)
LEMMA ValidateChangesOne ==
  ASSUME RegistryInv, NEW r \in Requests, Validate(r)
  PROVE  /\ request[r] \in Calls
         /\ \E rule \in KnownSpecs \cup {NoObject} : \A l \in Keys :
              Registered(l)' = IF l = request[r].key THEN rule ELSE Registered(l)
         /\ request[r].dryRun => \A l \in Keys : Registered(l)' = Registered(l)
<1> DEFINE call == request[r]
<1>1. call \in Calls
  BY DEF RegistryInv, TypeOK, Validate, NoRequest
<1>2. call.key \in Keys /\ call.spec \in KnownSpecs /\ Scoped(call.key, call.spec) \in KnownSpecs
  BY <1>1, ScopedKnown DEF Calls
<1>3. CASE registry' = registry
  <2>1. \A l \in Keys : Registered(l)' = Registered(l)
    BY <1>3 DEF Registered
  <2>2. Registered(call.key) \in KnownSpecs \cup {NoObject}
    BY <1>2, RegisteredTyped
  <2> QED BY <1>1, <2>1, <2>2
<1>4. CASE registry' \in Upserts(call.key, call.spec) /\ ~call.dryRun
  BY <1>1, <1>2, <1>4, UpsertEntersOne
<1> QED BY <1>3, <1>4 DEF Validate

LEMMA WorkerChangesOne ==
  ASSUME RegistryInv, NEW c \in Kinds, Unregister(c) \/ Register(c)
  PROVE  /\ worker[c] \in Registering /\ worker[c].key \in Keys
         /\ Unregister(c) => \A l \in Keys :
              Registered(l)' = IF l = worker[c].key THEN NoObject ELSE Registered(l)
         /\ Register(c) =>
              /\ worker[c].object \in Objects
              /\ \A l \in Keys :
                   Registered(l)' = IF l = worker[c].key
                                      THEN Scoped(worker[c].key, worker[c].object.spec)
                                      ELSE Registered(l)
<1> DEFINE k == worker[c].key
<1>1. worker[c] \in Registering
  BY BusyWorker DEF Unregister, Register, RegistryInv
<1>2. k \in Keys
  BY <1>1 DEF Registering
<1>3. CASE Unregister(c)
  BY <1>1, <1>2, <1>3, DeleteStrikesOne DEF Unregister, Register
<1>4. CASE Register(c)
  <2>1. worker[c].object \in Objects
    BY <1>1, <1>4 DEF Register, Gone, Registering
  <2>2. worker[c].object.spec \in KnownSpecs
    BY <2>1 DEF Objects
  <2> QED BY <1>1, <1>2, <1>4, <2>1, <2>2, UpsertEntersOne DEF Register, Unregister
<1> QED BY <1>3, <1>4

-----------------------------------------------------------------------------
(* The refinement. *)
BookNow == [k \in Keys |-> Registered(k)]

LEMMA HandledTyped == TypeOK => Handled \subseteq Keys
<1> SUFFICES ASSUME TypeOK PROVE Handled \subseteq Keys
  OBVIOUS
<1>1. ASSUME NEW r \in Requests, request[r].hook = "pending"
      PROVE  request[r].key \in Keys
  BY <1>1 DEF TypeOK, NoRequest, Calls
<1>2. ASSUME NEW c \in Kinds, worker[c] # IdleWorker
      PROVE  worker[c].key \in Keys
  BY <1>2 DEF TypeOK, Registering, Writing
<1> QED BY <1>1, <1>2 DEF Handled

(* A step of the process that goes on forgets nothing the informers listed. *)
LEMMA RunProceeds ==
  ASSUME RegistryInv, [Next]_vars, ~Restart
  PROVE  /\ Handled' \subseteq Keys
         /\ {c \in Kinds : synced[c]} \subseteq {c \in Kinds : synced'[c]}
<1>1. TypeOK'
  BY NextInv DEF RegistryInv
<1>2. Handled' \subseteq Keys
  <2>1. ASSUME NEW r \in Requests, request'[r].hook = "pending"
        PROVE  request'[r].key \in Keys
    BY <1>1, <2>1 DEF TypeOK, NoRequest, Calls
  <2>2. ASSUME NEW c \in Kinds, worker'[c] # IdleWorker
        PROVE  worker'[c].key \in Keys
    BY <1>1, <2>2 DEF TypeOK, Registering, Writing
  <2> QED BY <2>1, <2>2 DEF Handled
<1>3. synced' = synced \/ \E c \in Kinds : synced' = [synced EXCEPT ![c] = TRUE]
  BY DEF Next, vars, Run, User, End, Crash, Panic, Create, GiveUp, Persist, Refuse, Update,
         MarkDeleting, Delete, Validate, List, Deliver, Reconcile, Get, Unregister, Register,
         Write, processVars
<1>4. \A c \in Kinds : synced[c] => synced'[c]
  BY <1>3 DEF RegistryInv, TypeOK
<1> QED BY <1>2, <1>4

LEMMA BookStep ==
  ASSUME RegistryInv, [Next]_vars
  PROVE  [Book!Next]_Book!vars
<1>1. CASE Restart
  <2>1. \A k \in Keys : Registered(k)' = NoObject
    BY <1>1, EmptyHasNone DEF Restart
  <2>2. \A r \in Requests : request'[r].hook # "pending"
    <3>1. ASSUME NEW r \in Requests, request[r].hook = "pending"
          PROVE  [request[r] EXCEPT !.hook = "done"].hook = "done"
      BY <3>1 DEF RegistryInv, TypeOK, NoRequest, Calls
    <3> QED BY <1>1, <3>1 DEF Restart, Settled, NoRequest
  <2>3. Handled' = {} /\ {c \in Kinds : synced'[c]} = {}
    BY <1>1, <2>2 DEF Restart, Handled
  <2>4. Book!Lose
    BY <2>1, <2>3 DEF Book!Lose, Book!Empty
  <2> QED BY <2>4 DEF Book!Next
<1>2. ASSUME ~Restart, NEW k \in Handled, NEW rule \in KnownSpecs \cup {NoObject},
             \A l \in Keys : Registered(l)' = IF l = k THEN rule ELSE Registered(l)
      PROVE  Book!Next
  <2>1. BookNow' = [BookNow EXCEPT ![k] = rule]
    BY <1>2 DEF BookNow
  <2>2. Book!Change(k, rule)
    BY <1>2, <2>1, RunProceeds DEF Book!Change, Book!Proceed, BookNow
  <2> QED BY <2>2 DEF Book!Next
<1>3. ASSUME ~Restart, registry' = registry
      PROVE  Book!Next
  <2>1. BookNow' = BookNow
    BY <1>3 DEF BookNow, Registered
  <2>2. Book!Leave
    BY <1>3, <2>1, RunProceeds DEF Book!Leave, Book!Proceed, BookNow
  <2> QED BY <2>2 DEF Book!Next
<1>4. ASSUME ~Restart, NEW r \in Requests, Validate(r)
      PROVE  Book!Next
  <2>1. request[r].key \in Handled
    BY <1>4 DEF Validate, Handled
  <2> QED BY <1>2, <1>4, <2>1, ValidateChangesOne
<1>5. ASSUME ~Restart, NEW c \in Kinds, Unregister(c) \/ Register(c)
      PROVE  Book!Next
  <2>1. worker[c].key \in Handled
    BY <1>5 DEF Unregister, Register, IdleWorker, Handled
  <2>2. CASE Unregister(c)
    BY <1>2, <1>5, <2>1, <2>2, WorkerChangesOne
  <2>3. CASE Register(c)
    <3>1. Scoped(worker[c].key, worker[c].object.spec) \in KnownSpecs
      BY <1>5, <2>3, WorkerChangesOne, ScopedKnown DEF Objects
    <3> QED BY <1>2, <1>5, <2>1, <2>3, <3>1, WorkerChangesOne
  <2> QED BY <1>5, <2>2, <2>3
<1>6. \/ Restart
      \/ registry' = registry
      \/ \E r \in Requests : Validate(r)
      \/ \E c \in Kinds : Unregister(c) \/ Register(c)
  BY DEF Next, vars, Run, User, End, Crash, Panic, Create, GiveUp, Persist, Refuse, Update,
         MarkDeleting, Delete, List, Deliver, Reconcile, Get, Write, processVars
<1> QED BY <1>1, <1>3, <1>4, <1>5, <1>6

(* The lists implement a book of rules, for any number of objects, requests, *)
(* faults and crashes: a rule is entered, replaced or struck out only while  *)
(* its own object is handled, and no step on behalf of one object touches    *)
(* the rule of another.                                                      *)
THEOREM RegistryImplementsBook == Spec => ImplementsRuleBook
<1>1. Init => Book!Init
  <2> SUFFICES ASSUME Init PROVE Book!Init
    OBVIOUS
  <2>1. \A k \in Keys : Registered(k) = NoObject
    BY EmptyHasNone DEF Init
  <2>2. Handled = {} /\ {c \in Kinds : synced[c]} = {}
    BY DEF Init, Handled, NoRequest
  <2> QED BY <2>1, <2>2 DEF Book!Init, Book!Empty
<1>2. RegistryInv /\ [Next]_vars => [Book!Next]_Book!vars
  BY BookStep
<1> QED BY <1>1, <1>2, InitInv, NextInv, PTL DEF Spec, ImplementsRuleBook, Book!Spec
=============================================================================
