SPECIFICATION Spec
CONSTANTS
  c1 = c1
  r1 = r1
  r2 = r2
  r3 = r3
  ConsentIds <- MCConsentIds
  Callers <- MCCallers
  Grants <- MCGrants
INVARIANTS
  TypeOK
  AcceptedOnce
  NotFoundTrue
PROPERTIES
  ImplementsSingleUse
  ConsumeReturns
