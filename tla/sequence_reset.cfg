SPECIFICATION Spec
CONSTANTS
  Emitters = {e1, e2}
  Contents = {c1, c2}
  Genesis = genesis
  QuietSpells = TRUE
  MaxEvents = 4
INVARIANT SequenceNeverResets
CHECK_DEADLOCK FALSE
