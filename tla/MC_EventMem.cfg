SPECIFICATION Spec
CONSTANTS
  Addresses = {0, 1, 3}
  DeltaLimit = 2
  MaxSessions = 2
  MaxEvents = 4
  Exposed = {}
INVARIANT DecodesWhatWasLogged
PROPERTIES PublishedIsDecoded ThreadEnds RenderThreadsFollow
CHECK_DEADLOCK FALSE
