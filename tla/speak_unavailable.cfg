SPECIFICATION Spec
CONSTANTS
  Workers = {w1, w2}
  None = none
  Plays = 2
  Attempts = 2
  Sinks <- MCSinks
  Worlds <- MCWorlds
PROPERTIES UnavailableMeansGone
CHECK_DEADLOCK FALSE
