SPECIFICATION FairSpec
CONSTANTS
  None = None
  Turns = {t1, t2}
  Conversations = {c1}
  MaxRounds = 2
  Attempts = 2
  MaxFaults = 2
INVARIANTS
  HistoryAcceptable
  ValidatedTurnsAnswer
  OneAttemptStreamed
PROPERTIES
  NothingForgotten
  TurnsEnd
CHECK_DEADLOCK FALSE
