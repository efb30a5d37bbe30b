\* A pod that passes configuration to Apache in two mounts.
SPECIFICATION Spec
CONSTANTS
  Apps <- TwoConf
  Rules <- ApacheRule
  ownSidecar = ownSidecar
  OwnSidecars <- OneSidecar
  SidecarMounts <- ItsMounts
  SidecarVolumes <- ItsVolumes
  Unset = Unset
  NotFound = NotFound
INVARIANTS
  PassedConfigIsDropped
CHECK_DEADLOCK FALSE
