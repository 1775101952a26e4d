CONSTANTS
  Subjects = {"limits", "rules", "envelope", "errors",
              "scalars", "times", "ports", "boot", "resets", "rulesets", "queries"}
  MaxInt = 15
  Second = 3
  DefaultMaxRetryAfter = 7
  DefaultMaxResponseBytes = 5
  Bodies = {"mail", "all"}
  MaxRules = 3
  MaxUint = 8191
  KiB = 4
  FloatMax = 1024
  MaxPort = 3
  Offset <- BerlinOffset
  Threshold = 5
  Separators = {"a&b"}
SPECIFICATION Spec
INVARIANTS
  WaitIsTheClampedRequest
  BodyIsReadWholeOrRefused
  EquivalentFiltersAlike
  NormalizationIsEquivalent
  DiffIsExact
  ReconcileConvergesIfSeparable
  EnvelopeAloneIsTaken
  ErrorsAreActionable
  DecodingDependsOnTheMeaning
  ReencodingIsStable
  LargerQuotaIsNotLess
  InstantSurvives
  PortsAreThoseWritten
  ActiveOrAvailable
  ResetMeansTheSame
  FormsArrive
