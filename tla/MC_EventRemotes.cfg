SPECIFICATION Spec
CONSTANTS
  Clients = {c1, c2, c3}
  Players = {2, 3}
  NoPlayer = 255
  SendThreshold = 1
  MaxEvents = 3
  Exposed = {}
INVARIANTS StreamComplete PadsConserved ActiveHasAudience
PROPERTIES JoinServed RemotesFollow
CHECK_DEADLOCK FALSE
