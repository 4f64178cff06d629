SPECIFICATION Spec
CONSTANTS
  Auths = {a1}
  Callers = {c1, c2}
  Pickers = {}
  Cooldown = 1
INVARIANT NoStaleReady
