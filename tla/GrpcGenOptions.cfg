SPECIFICATION Spec
CONSTANTS
  plain = plain
  revised = revised
  withType = withType
  absent = absent
  Absent = absent
  Root <- MCRoot
  Entry <- OptionEntries
  Content <- MCContent
  Uses <- MCUses
  Config <- OptionConfigs
  LockRoots <- ProtoLock
INVARIANTS IInv OneBuildSuffices
PROPERTY EventuallyBuilt
