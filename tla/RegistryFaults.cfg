\* Refused and late creates, early calls, specs that panic, a crash.
SPECIFICATION Spec
CONSTANTS
  dev = dev
  kubeSystem = kubeSystem
  Cluster = Cluster
  NoObject = NoObject
  Namespaces = {dev}
  KubeNamespaces = {}
  Keys <- TwoInOneList
  Specs <- AnySpec
  Requests = {r1, r2}
  Faults = {"reject", "late", "early"}
  MaxWrites = 2
  MaxCrashes = 1
INVARIANTS
  TypeOK
  RegistryInOrder
PROPERTIES
  ImplementsRuleBook
CHECK_DEADLOCK FALSE
