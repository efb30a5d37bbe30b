\* Two rules of the pod's namespace, a cluster-wide one and two of the config map.
SPECIFICATION AdmissionSpec
CONSTANTS
  dev = dev
  kubeSystem = kubeSystem
  Cluster = Cluster
  NoObject = NoObject
  NoSettings = NoSettings
  NoRule = NoRule
  Values = Values
  Namespaces = {dev, kubeSystem}
  KubeNamespaces = {kubeSystem}
  Requests = {r1}
  Faults = {}
  Keys <- TwoOwnAndCluster
  Specs <- ThreePriorities
  Pods <- OneApp
  MatchTable <- FitsSome
  ConfigMaps <- TwoRules
  MaxWrites = 2
  MaxCrashes = 0
  MaxEdits = 0
PROPERTIES
  PodsFollowTheCluster
CHECK_DEADLOCK FALSE
