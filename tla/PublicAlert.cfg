SPECIFICATION FairSpec
CONSTANTS
  Operator <- MCOperator
  Writer <- MCWriter
  Client <- MCClient
  Writes <- MCWrites
  Levels <- MCLevels
  Deployments <- MCDeployments
  MaxLosses = 1
  MaxAttempts = 1
  MaxAnnotations = 1
INVARIANTS
  AuditIsTruthful
  AlertCarriesItsMap
PROPERTIES
  EventuallyFresh
\* When every superevent is written and every alert made, nothing has to happen.
CHECK_DEADLOCK FALSE
