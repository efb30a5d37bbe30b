\* The config map is edited while pods are admitted; a rule may lack match rules.
SPECIFICATION FairAdmissionSpec
CONSTANTS
  dev = dev
  kubeSystem = kubeSystem
  Cluster = Cluster
  NoObject = NoObject
  NoSettings = NoSettings
  NoRule = NoRule
  Values = Values
  Namespaces = {dev, kubeSystem}
  KubeNamespaces = {kubeSystem}
  Requests = {r1}
  Faults = {}
  Keys <- OneCluster
  Specs <- AnyMatch
  Pods <- AppAndSystem
  MatchTable <- FitsAll
  ConfigMaps <- AnyMap
  MaxWrites = 1
  MaxCrashes = 1
  MaxEdits = 2
INVARIANTS
  AdmissionTypeOK
  OnlyValidConfigurationsApply
PROPERTIES
  DenialsEnd
CHECK_DEADLOCK FALSE
