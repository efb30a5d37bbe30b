\* A pod is created just after a restart.
SPECIFICATION AdmissionSpec
CONSTANTS
  dev = dev
  kubeSystem = kubeSystem
  Cluster = Cluster
  NoObject = NoObject
  NoSettings = NoSettings
  NoRule = NoRule
  Values = Values
  Namespaces = {dev, kubeSystem}
  KubeNamespaces = {kubeSystem}
  Requests = {r1}
  Faults = {}
  Keys <- OneOwn
  Specs <- OneSpec
  Pods <- OneApp
  MatchTable <- FitsAll
  ConfigMaps <- OneMap
  MaxWrites = 1
  MaxCrashes = 1
  MaxEdits = 0
PROPERTIES
  EstablishedRulesApply
CHECK_DEADLOCK FALSE
