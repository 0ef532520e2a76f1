SPECIFICATION Spec
CONSTANTS
  plain = plain
  revised = revised
  withType = withType
  absent = absent
  Absent = absent
  Root <- MCRoot
  Entry <- SharedEntries
  Content <- RevisedContent
  Uses <- MCUses
  Config <- SharedConfigs
  LockRoots <- NoLocks
INVARIANTS IncrementalEqualsClean EveryProtoGenerated HeaderClosure
SYMMETRY Revisions
VIEW WithoutHistory
