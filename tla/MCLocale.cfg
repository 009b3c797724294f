SPECIFICATION Spec
CONSTANTS
  Browsers = {"b1"}
  MaxAsks = 1
  PrefsOf <- MCPrefsOf
  Settings <- MCSettings
  Unpopulated <- MCUnpopulated
INVARIANTS Precedence MatchDecided NeverARawKey
CHECK_DEADLOCK FALSE
