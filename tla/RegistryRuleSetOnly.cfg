\* An object with an injectionRuleSet and no injectionRules.
SPECIFICATION FairSpec
CONSTANTS
  dev = dev
  kubeSystem = kubeSystem
  Cluster = Cluster
  NoObject = NoObject
  Namespaces = {dev}
  KubeNamespaces = {}
  Keys <- OneKey
  Specs <- WithRuleSetOnly
  Requests = {r1}
  Faults = {}
  MaxWrites = 1
  MaxCrashes = 0
PROPERTIES
  ObjectsGetTheirRule
CHECK_DEADLOCK FALSE
