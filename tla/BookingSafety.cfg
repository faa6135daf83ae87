CONSTANTS
  b1 = b1  b2 = b2  la = la  lb = lb  sl = sl  w1 = w1  w2 = w2
  h1 = h1  h2 = h2  h3 = h3  e1 = e1  e2 = e2  e3 = e3
  None = None
  Bookings = {b1, b2}
  Leads = {la, lb}
  Slots = {sl}
  Holds = {h1, h2, h3}
  Events = {e1, e2}
  Workers = {w1, w2}
  MaxAttempts = 2
  MaxStalls = 1
  LeadOf <- MCLeadOf
  SlotOf <- MCSlotOf
  Unconnected = {}
  Moves = {"opted_out"}
  Sweeps = TRUE
  Faults = 1
SPECIFICATION FairSpec
CHECK_DEADLOCK FALSE
INVARIANTS TypeOK OnlyWinnerCreates
PROPERTIES ReservesSlots SomeoneWins
