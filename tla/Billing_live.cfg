SPECIFICATION FairSpec
CONSTANTS
  o1 = o1
  o2 = o2
  u1 = u1
  paid1 = paid1
  again1 = again1
  short1 = short1
  cancel1 = cancel1
  back1 = back1
  ton2 = ton2
  stray = stray
  Orders = {o1}
  Users = {u1}
  Events = {paid1, back1, stray}
  TonEvents = {}
  Owner <- MCOwner
  Kind <- MCKind
  Target <- MCTarget
  Amount <- MCAmount
  Hooks = {web}
  TonLoops = {}
  Sweepers = {sweep}
  Admins = {}
  NoOrder = NoOrder
  NoEvent = NoEvent
  MaxCrashes = 1
  MaxFaults = 2
CHECK_DEADLOCK FALSE
PROPERTIES ConfirmedIsHonoured GrantIsServed
