SPECIFICATION Spec
CONSTANTS
  Pids = {p1, p2}
  None = none
  Overlap = TRUE
  PidReuse = FALSE
  MaxKills = 0
INVARIANT OneOwner
