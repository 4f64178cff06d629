SPECIFICATION PicksSpec
CONSTANTS
  Auths = {a1, a2}
  Callers = {c1, c2}
  Pickers = {p1, p2}
  Cooldown = 1
  Requests = {r1, r2}
  Keys = {"first", "later"}
  FirstTurn <- FirstTurnsChecked
  NoKey = NoKey
  TTL = 2
  Nobody = Nobody
  Unsure = Unsure
SYMMETRY Exchangeable
INVARIANT PickFindsReady
PROPERTIES ForgottenStays ImplementsPool SessionSticks
