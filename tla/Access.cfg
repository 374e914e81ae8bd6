\* Two requests of a node at once, two install commands.  Two tabs, three refresh tokens
\* and two TOTP secrets.
CONSTANTS
  Slots = {1, 2}
  MaxInstalls = 2
  MaxRegistrations = 2
  MaxLosses = 1
  Tabs = {a, b}
  MaxSessions = 3
  MaxSecrets = 2
SYMMETRY TabSymmetry
SPECIFICATION AccessSpec
INVARIANTS NodeHasItsToken OneLive EndedIsEnded SecretProved
PROPERTY RetiredStaysOut
CHECK_DEADLOCK FALSE
