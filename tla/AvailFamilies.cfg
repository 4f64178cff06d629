SPECIFICATION PartsSpec
CONSTANTS
  g1 = g1
  g2 = g2
  c1 = c1
  x1 = x1
  gemini = gemini
  claude = claude
  e1 = e1
  NoFamily = NoFamily
  Models = {g1, c1, x1}
  Families = {gemini, claude}
  FamilyOf <- FamilyOfModel
  MaxLevel = 0
  QuotaCooldown <- CooldownOfLevel
  ChallengeMin = 1
  RateLimitMin = 1
  Short = 1
  Long = 1
  Transient = 1
  RetryAfters = {0, 2}
  Editors = {e1}
  Modelless = FALSE
INVARIANTS AggregateSound NoQuotaWhenOff
PROPERTIES SuccessKeepsIsolation FailureStaysInFamily
