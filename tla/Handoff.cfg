CONSTANTS
  l1 = l1  l2 = l2  l3 = l3  ra = ra  rb = rb  w1 = w1  w2 = w2  d1 = d1  d2 = d2
  None = None
  Leads = {l1, l2, l3}
  Reps = {ra, rb}
  Workers = {w1, w2}
  Profile <- MCProfile
  Inquiry <- MCInquiry
  Hot = {l1}
  Ladder = 2
  Attended = {l1}
  Connected = {l1}
  Deals = {d1, d2}
  Handed <- MCHanded
  MaxAttempts = 2
  MaxStalls = 1
  Faults = 1
  OpenReports = 2
SPECIFICATION FairSpec
CHECK_DEADLOCK FALSE
INVARIANTS TypeOK OnePrimary CapRespected OneDeal
PROPERTIES  HotLeadEscalated SyncSettles
