SPECIFICATION Spec
CONSTANTS
  Pads = {0, 1}
  StepCounts = {1, 2}
  Elapsed = {1, 2}
  RxSize = 4
  MaxRequests = 3
  Exposed = {"state_while_running"}
PROPERTY EveryRequestAnswered
CHECK_DEADLOCK FALSE
