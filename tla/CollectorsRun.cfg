\* One collector, changed, deleted and created again, one crash and one failing
\* call of the API: liveness.
SPECIFICATION FairSpec
CONSTANTS
  Names = {a}
  Modes <- DeploymentOrSidecar
  Configs = {c1, c2}
  Requests = {r1}
  Reconciler = Reconciler
  NoObject = NoObject
  MaxWrites = 2
  MaxCrashes = 1
  MaxFailures = 1
PROPERTIES
  CollectorsComeUp
  DeletedCollectorsGoAway
CHECK_DEADLOCK FALSE
