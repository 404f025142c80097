\* Two connections, calls of every class, transient failures of every model.
SPECIFICATION Spec
CONSTANTS
  Slots = {c1, c2}
  Sessions = {"work-a", "ds-a", "bg-a", "a"}
  ClassOf <- Classed
  Requests <- Mixed
  Models <- Names
  Pool <- Ladder
  Tier <- TierOf
  Cost <- CostOf
  Resolve <- Keyword
  NoModel = "none"
  Window <- Windows
  Floor = 1
  DeepSeekModel = "deepseek"
  BgModel = "sonnet"
  ClassifierWork = TRUE
  MaxRetries = 1
  ClassifierMaxRetries = 1
  Threshold = 2
  Configs = {{"normal"}}
  Cap = 1
  Usage <- Metered
  MaxTurn = 1
  MaxTorn = 1
INVARIANTS NeverUpgrades CeilingStops
PROPERTIES RefusedOnlyByItsOwn AttemptsEnd
SYMMETRY Symmetry
