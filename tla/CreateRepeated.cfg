CONSTANTS
  Services = {"rdns"}
  Inputs = {"x", "y"}
  Users = {"u", "v"}
  MaxTries = 2
  Fields <- MCFields
  Operations <- MCOperations
  Initial <- MCInitial
  Values <- MCValues
  Plans <- MCPlans
  Calls = {1, 2, 3}
SPECIFICATION Spec
INVARIANT
  CreateConflictIsReal
