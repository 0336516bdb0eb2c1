SPECIFICATION Spec
CONSTANTS
  Dummies = {d}
  Secured = {h1, h2}
  Open = {}
  None = None
  Asked = {None, d}
  Sdks = {19}
  Threads = {t}
  PreferredRetries = 1
  GenericRetries = 0
INVARIANTS
  OthersEnabledAgain
CHECK_DEADLOCK FALSE
