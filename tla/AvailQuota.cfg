SPECIFICATION Spec
CONSTANTS
  g1 = g1
  g2 = g2
  c1 = c1
  x1 = x1
  gemini = gemini
  claude = claude
  e1 = e1
  NoFamily = NoFamily
  Models = {x1}
  Families = {}
  FamilyOf <- FamilyOfModel
  MaxLevel = 1
  QuotaCooldown <- CooldownOfLevel
  ChallengeMin = 1
  RateLimitMin = 2
  Short = 1
  Long = 2
  Transient = 1
  RetryAfters = {0, 3}
  Editors = {}
  Modelless = FALSE
INVARIANT QuotaRespected
