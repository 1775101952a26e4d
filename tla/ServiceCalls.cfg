CONSTANTS
  Services = {"rdns", "failover", "key", "ip", "subnet", "server", "reset", "wol", "rescue", "install", "storagebox", "snapshots", "snapshotplan", "subaccount", "template", "vswitch", "vswitchready"}
  Inputs = {"x", "y"}
  Users = {"u", "v"}
  MaxTries = 2
  Fields <- MCFields
  Operations <- MCOperations
  Initial <- MCInitial
  Values <- MCValues
  Plans <- MCPlans
  Calls = {1, 2, 3}
SPECIFICATION Spec
INVARIANTS
  TypeOK
  SuccessIsKnown
  AnswerIsOfTheCall
  ReadyMeansAccepted
PROPERTY
  ImplementsRemoteCall
