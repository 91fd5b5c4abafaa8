SPECIFICATION Spec
CONSTANTS
  Inputs = {up, left}
  NoInput = up
  ResetMark = reset
  Files = {f1}
  NoFile = none
  Slots = {s1, s2}
  FlushFrames = 2
  MaxFrames = 3
  MaxCommands = 4
  Exposed = {"menu_play", "load_in_play", "live_input"}
SYMMETRY SlotSymmetry
INVARIANTS TypeOK RecordingIsTheSession ClosedMovieComplete NextSlotAllocated
PROPERTY RecorderIsATape
