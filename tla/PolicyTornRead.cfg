SPECIFICATION RegistrySpec
CONSTANTS
  t = t
  f = f
  r1 = r1
  p = p
  g = g
  Tools = {t}
  Functions = {f}
  Roles = {r1, r2}
  Patterns = {p}
  Gates = {g}
  Asked <- Typical
  IdentitySettings <- Defaults
  Limits = {1}
  NoLimit = NoLimit
  DEFAULT_RATE_LIMIT = 2
  ExampleRows <- Seeded
INVARIANT NeverUnapproved
CHECK_DEADLOCK FALSE
