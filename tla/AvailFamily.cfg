SPECIFICATION Spec
CONSTANTS
  g1 = g1
  g2 = g2
  c1 = c1
  x1 = x1
  gemini = gemini
  claude = claude
  e1 = e1
  NoFamily = NoFamily
  Models = {g1, g2}
  Families = {gemini}
  FamilyOf <- FamilyOfModel
  MaxLevel = 1
  QuotaCooldown <- CooldownOfLevel
  ChallengeMin = 1
  RateLimitMin = 1
  Short = 1
  Long = 1
  Transient = 1
  RetryAfters = {0, 2}
  Editors = {}
  Modelless = TRUE
SYMMETRY SameFamily
INVARIANTS TypeOK FamilyQuotaRespected
PROPERTIES FailureKeepsFamilyAside
