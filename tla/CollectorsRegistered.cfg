\* Two collectors of a namespace that has no map yet, a create call beside the
\* reconciler, one crash, one failing call of the API: safety.
SPECIFICATION Spec
CONSTANTS
  Names = {a, b}
  Modes <- DeploymentOrSidecar
  Configs = {c1}
  Requests = {r1}
  Reconciler = Reconciler
  NoObject = NoObject
  MaxWrites = 2
  MaxCrashes = 1
  MaxFailures = 1
INVARIANTS
  CollectorsTypeOK
  NoStaleRegistrationIsFinal
CHECK_DEADLOCK FALSE
