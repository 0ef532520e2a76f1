SPECIFICATION Spec
CONSTANTS
  Files <- PromiseFiles
  Parameters <- NoOptions
INVARIANT CommentsOrPortsKept
