SPECIFICATION Spec
CONSTANTS
  Pads = {0, 1}
  StepCounts = {1, 2}
  Elapsed = {1, 2}
  RxSize = 4
  MaxRequests = 3
  Exposed = {"long_instruction", "hang_up"}
INVARIANTS AnswersInOrder HeldStill StepsAsAsked StepSeesPad
PROPERTIES EveryRequestAnswered ServerEnds
CHECK_DEADLOCK FALSE
