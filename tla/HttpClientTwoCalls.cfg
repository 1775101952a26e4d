CONSTANTS
  MaxInt = 127
  Second = 2
  Calls = {c1, c2}
  Methods = {"GET", "POST"}
  Statuses = {200, 429}
  Hints <- PlainHints
  MaxRetries = 2
  Backoff = 1
  MaxWait = 5
SPECIFICATION Spec
INVARIANTS
  RateLimitNotForgotten
