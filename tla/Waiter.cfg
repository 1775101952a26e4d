CONSTANTS
  Resources = {"firewall", "vswitch"}
  Servers = 2
  EmptyAnswers = TRUE
  MinDelay = 2
  MaxDelay = 30
  MaxPolls = 30
SPECIFICATION FairSpec
INVARIANTS
  TypeOK
  OutcomeIsOfTheLastAnswer
PROPERTIES
  EveryWaitReturns
