SPECIFICATION Spec
CONSTANTS
  Pids = {p1, p2, p3}
  None = none
  Overlap = FALSE
  PidReuse = FALSE
  MaxKills = 2
INVARIANTS TypeOK OneOwner OwnerKeepsFiles
PROPERTIES RefusedByLive StartSettles
