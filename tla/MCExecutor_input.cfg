SPECIFICATION ExSpec
CONSTANTS
  Layer = {1, 2}
  Routed = {e1, e2, e3}
  Widths = {2, 3}
  MaxUsed = 2
  TopCand = 2
  MaxTokens = 2
INVARIANTS
  InputIsUpdated
CHECK_DEADLOCK FALSE
