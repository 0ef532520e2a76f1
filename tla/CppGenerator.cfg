SPECIFICATION Spec
CONSTANTS
  Files <- MCFiles
  Parameters <- MCParameters
INVARIANTS
  IInv
  TurnsOK
  PrintedOK
  OverridesMatch
  DefinedOnce
  CallsResolve
  SlotsAgree
  TypedefsWrap
  StartsOnce
  ScopesAgree
  RedeclaresOnlyRaw
  NothingHalfWritten
PROPERTIES ImplementsPromise GenerateReturns
