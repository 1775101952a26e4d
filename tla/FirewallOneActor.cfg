CONSTANTS
  Bodies = {"web", "mail"}
  Actors = {a1}
  Operations <- AllOperations
  Internal <- MailBlock
  Configs <- Start
  MaxInputRules = 2
  MaxOps = 4
  LatePosts = FALSE
SPECIFICATION Spec
INVARIANTS
  TypeOK
  KeepsRulesetWhenTold
  LastSuccessStands
  InputAccumulationIsBounded
