CONSTANTS
  m1 = m1  m2 = m2  t1 = t1  r1 = r1  r2 = r2  w1 = w1  w2 = w2
  None = None
  Replies = {m1, m2}
  Triggers = {}
  Runs = {r1}
  Steps <- MCSteps
  Fields <- MCFields
  Turns <- MCTurns
  Workers = {w1, w2}
  MaxAttempts = 1
  MaxStalls = 1
  Moves = {}
  Events = 3
  Faults = 1
SPECIFICATION Spec
CHECK_DEADLOCK FALSE
INVARIANTS TypeOK PreviousIsRemembered QualifiedIsHandedOff NoReplyForgotten
PROPERTIES  AnswersKept AutomationStops
SYMMETRY Symmetry
