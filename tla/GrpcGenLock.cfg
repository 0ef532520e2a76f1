SPECIFICATION Spec
CONSTANTS
  plain = plain
  revised = revised
  withType = withType
  absent = absent
  Absent = absent
  Root <- MCRoot
  Entry <- LockEntries
  Content <- MCContent
  Uses <- MCUses
  Config <- LockConfigs
  LockRoots <- ProtoLock
INVARIANT EveryProtoUnderRoots
