SPECIFICATION Spec
CONSTANTS
  o1 = o1
  o2 = o2
  u1 = u1
  paid1 = paid1
  again1 = again1
  short1 = short1
  cancel1 = cancel1
  back1 = back1
  ton2 = ton2
  stray = stray
  Orders = {o1, o2}
  Users = {u1}
  Events = {paid1, back1, ton2}
  TonEvents = {ton2}
  Owner <- MCOwner
  Kind <- MCKind
  Target <- MCTarget
  Amount <- MCAmount
  Hooks = {web}
  TonLoops = {ton}
  Sweepers = {sweep}
  Admins = {}
  NoOrder = NoOrder
  NoEvent = NoEvent
  MaxCrashes = 1
  MaxFaults = 0
CHECK_DEADLOCK FALSE
INVARIANTS BillingInv TypeOK HonouredOnce PaidIsHonoured DoneMeansHonoured ServedOnce NoMintedTime
PROPERTY LedgerSpec
