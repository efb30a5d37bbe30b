\* The order of evaluation the README documents.
SPECIFICATION Spec
CONSTANTS
  dev = dev
  kubeSystem = kubeSystem
  Cluster = Cluster
  NoObject = NoObject
  Namespaces = {dev}
  KubeNamespaces = {}
  Keys <- TwoInOneList
  Specs <- TwoPriorities
  Requests = {r1}
  Faults = {}
  MaxWrites = 2
  MaxCrashes = 0
INVARIANTS
  HigherPrioritiesFirst
CHECK_DEADLOCK FALSE
