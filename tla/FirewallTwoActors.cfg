CONSTANTS
  Bodies = {"web", "mail"}
  Actors = {a1, a2}
  Operations <- StatusOperations
  Internal <- MailBlock
  Configs <- Start
  MaxInputRules = 2
  MaxOps = 2
  LatePosts = TRUE
SPECIFICATION Spec
INVARIANTS
  NeverAMixture
PROPERTIES
  SettingsSurvive
