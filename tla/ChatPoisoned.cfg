SPECIFICATION Spec
CONSTANTS
  None = None
  Turns = {t1, t2}
  Conversations = {c1}
  MaxRounds = 2
  Attempts = 2
  MaxFaults = 1
INVARIANTS
  ToolCallsAnswered
CHECK_DEADLOCK FALSE
