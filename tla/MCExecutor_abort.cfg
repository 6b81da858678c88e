CONSTANTS
  v1 = v1
  VUs = {v1}
  DrainsQueue = FALSE
  HasAbort = TRUE
SPECIFICATION Spec
INVARIANTS
  AbortIsReported
