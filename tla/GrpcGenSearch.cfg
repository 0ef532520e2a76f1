SPECIFICATION Spec
CONSTANTS
  plain = plain
  revised = revised
  withType = withType
  absent = absent
  Absent = absent
  Root <- MCRoot
  Entry <- SearchEntries
  Content <- MCContent
  Uses <- MCUses
  Config <- SearchConfigs
  LockRoots <- NoLocks
INVARIANT NoStaleStubs
