CONSTANTS
  m1 = m1  m2 = m2  t1 = t1  r1 = r1  r2 = r2  w1 = w1  w2 = w2
  None = None
  Replies = {}
  Triggers = {t1}
  Runs = {r1, r2}
  Steps <- MCSteps
  Fields <- MCFields
  Turns <- MCTurns
  Workers = {w1, w2}
  MaxAttempts = 2
  MaxStalls = 1
  Moves = {"booked"}
  Events = 2
  Faults = 1
SPECIFICATION FairSpec
CHECK_DEADLOCK FALSE
INVARIANTS StepsOnceInOrder OneRunningRun
PROPERTIES AutomationStops RunEnds
