CONSTANTS
  MaxInt = 127
  Second = 2
  Calls = {c1}
  Methods = {"GET", "POST"}
  Statuses <- RichStatuses
  Hints <- RichHints
  MaxRetries = 3
  Backoff = 1
  MaxWait = 5
SPECIFICATION FairSpec
INVARIANTS
  TypeOK
  PostAtMostOnce
  ResultIsTrue
  BodiesClosed
  WaitBounded
  UnauthorizedAtMostTwice
  TransientErrorsExhaustRetries
PROPERTIES
  ImplementsRemoteCall
  
