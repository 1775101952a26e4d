CONSTANTS
  Bodies = {"web", "mail"}
  Actors = {a1}
  Operations <- StatusOperations
  Internal <- NoRules
  Configs <- Start
  MaxInputRules = 2
  MaxOps = 1
  LatePosts = FALSE
SPECIFICATION Spec
INVARIANTS
  KeepsRuleset
