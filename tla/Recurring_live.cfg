SPECIFICATION FairSpec
CONSTANTS
  s1 = s1
  c1 = c1
  c2 = c2
  Subs = {s1}
  Charges = {c1}
  SubOf <- MCSubOf
  Hooks = {web}
  Sweepers = {sweep}
  Clients = {owner}
  NoSub = NoSub
  NoEvent = NoEvent
  MaxCrashes = 1
  MaxFaults = 1
  MaxSent = 1
CHECK_DEADLOCK FALSE
PROPERTY EventsClose
