SPECIFICATION Spec
CONSTANTS
  Clients = {c1, c2}
  Players = {2, 3}
  NoPlayer = 255
  SendThreshold = 1
  MaxEvents = 2
  Exposed = {"join_fails"}
INVARIANT ActiveHasAudience
SYMMETRY ClientSymmetry
CHECK_DEADLOCK FALSE
