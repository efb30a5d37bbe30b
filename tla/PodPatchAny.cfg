\* Every technology, alone and in pairs, for pods with and without each list.
SPECIFICATION Spec
CONSTANTS
  Apps <- AnyApp
  Rules <- AnyRule
  ownSidecar = ownSidecar
  OwnSidecars <- OneSidecar
  SidecarMounts <- ItsMounts
  SidecarVolumes <- ItsVolumes
  Unset = Unset
  NotFound = NotFound
INVARIANTS
  PatchTypeOK
  PatchApplies
  MountsHaveVolumes
  ReferencesResolve
  ApplicationIsKept
  MountsAreKept
  NamesAreDistinct
  SidecarIsUsed
  CollectorIsTold
  OnlyIncompleteRulesPanic
  AttributesAsConfigured
CHECK_DEADLOCK FALSE
