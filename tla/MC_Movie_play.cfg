SPECIFICATION Spec
CONSTANTS
  Inputs = {up, left}
  NoInput = up
  ResetMark = reset
  Files = {f1}
  NoFile = none
  Slots = {s1}
  FlushFrames = 2
  MaxFrames = 3
  MaxCommands = 5
  Exposed = {}
INVARIANT ReplayIsIdentical
PROPERTIES GoesLiveAtTheEnd PlaybackEnds
