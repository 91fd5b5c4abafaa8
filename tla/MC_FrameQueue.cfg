SPECIFICATION Spec
CONSTANTS
  Drawers = {renderer}
  renderer = renderer
  Outputs = {odd, even}
  odd = odd
  even = even
  Slots = 4
  MaxCopies = 2
  MaxFrames = 4
  MaxReloads = 1
  Exposed = {}
INVARIANTS BuffersOwned NobodyWaitsForRoom
PROPERTIES QueueIsMailbox NewestShown ReleaseEndsLoop
