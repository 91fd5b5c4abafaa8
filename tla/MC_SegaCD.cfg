SPECIFICATION Spec
CONSTANTS
  Banks = {b0, b1}
  MaxBytes = 4
  Exposed = {}
INVARIANTS
  MapMatchesRegisters
  PausedCanResume
  EachByteOnce
  StallHasReason
PROPERTY EdtMarksTheEnd
