SPECIFICATION Spec
CONSTANTS
  Nothing = Nothing
  MaxSkew = 1
  maxInboxResolutionSteps = 3
  pub4 = pub4  pub6 = pub6  priv4 = priv4  any4 = any4
  Addresses = {pub4, pub6, priv4, any4}
  Private = {priv4}
  Unspecified = {any4}
  Local = priv4
  V4 = {pub4, priv4, any4}
  Resolvable <- MCResolvable
  Documents <- MCDocuments
  Redirects <- MCRedirects
  Elsewhere <- MCElsewhere
  Ids = {1, 2, 3, 4, 5}
  Accepted = {1, 2, 3, 4}
  MaxLimit = 2
  DefaultLimit = 1
  Changes = 2
  MaxTime = 2
  Plans <- MCPlans
CHECK_DEADLOCK FALSE
INVARIANTS SearchBounded DialsChecked AcceptedAsSigned RefusedForCause PagesComplete
