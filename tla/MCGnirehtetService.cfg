SPECIFICATION FairSpec
CONSTANTS
  Dummies = {d}
  Secured = {h}
  Open = {}
  None = None
  Asked = {None, d}
  Sdks = {19, 26, 29}
  Threads = {t}
  PreferredRetries = 1
  GenericRetries = 0
INVARIANTS
  PreviousIsTheUsers
  PasswordsKept
  NoSuggestionLeft
PROPERTIES
  FallbackEnds
CHECK_DEADLOCK FALSE
