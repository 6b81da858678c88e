CONSTANTS
  ServedVUs = {"u", "v"}
  DeclaredParams <- MCDeclaredParams
  CheckNames = {"c"}
  MaxChecks = 1
SPECIFICATION ServicesSpec
CHECK_DEADLOCK FALSE
INVARIANT UsedParamsAreNotReported
