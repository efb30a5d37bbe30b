\* One object of each kind and one in kube-system, one crash: safety and liveness.
SPECIFICATION FairSpec
CONSTANTS
  dev = dev
  kubeSystem = kubeSystem
  Cluster = Cluster
  NoObject = NoObject
  Namespaces = {dev, kubeSystem}
  KubeNamespaces = {kubeSystem}
  Keys <- OneOfEachKind
  Specs <- TwoPriorities
  Requests = {r1}
  Faults = {}
  MaxWrites = 2
  MaxCrashes = 1
INVARIANTS
  NoStaleRuleIsFinal
PROPERTIES
  ReconcilersKeepUserSpecs
  RegistryConverges
  ReconcilersComeToRest
CHECK_DEADLOCK FALSE
