CONSTANTS
  l1 = l1  r1 = r1  r2 = r2  i1 = i1  i2 = i2  s1 = s1  s2 = s2  w1 = w1  w2 = w2
  None = None
  Leads = {l1}
  Rows = {r1, r2}
  Inbounds = {i1}
  Sids = {s1}
  Workers = {w1, w2}
  MaxAttempts = 2
  MaxStalls = 1
  InLead <- MCInLead
  InKind <- MCStop
  FollowUps = {}
  Moves = {}
  Evicted = {}
  Outcomes = {}
  ProviderDedupes = TRUE
  Faults = 1
SPECIFICATION FairSpec
CHECK_DEADLOCK FALSE
PROPERTIES EveryIntentSettles StopTakesEffect
