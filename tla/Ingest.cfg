CONSTANTS
  i1 = i1  i2 = i2  i3 = i3  l1 = l1  l2 = l2  l3 = l3  l4 = l4  w1 = w1  w2 = w2
  pa = pa  ea = ea
  None = None
  Inquiries = {i1, i2, i3}
  Payloads <- MCPayloads
  Forms <- MCForms
  Leads = {l1, l2, l3, l4}
  Phones = {pa}
  Emails = {ea}
  Workers = {w1, w2}
  MaxAttempts = 2
  MaxStalls = 1
  Moves = {"opted_out"}
  Faults = 1
SPECIFICATION FairSpec
CHECK_DEADLOCK FALSE
INVARIANTS TypeOK NoDuplicateLeads OneLeadPerInquiry FirstTouchHasEvidence
PROPERTIES AcceptedIsServed
