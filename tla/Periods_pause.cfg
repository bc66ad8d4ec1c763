SPECIFICATION Spec
CHECK_DEADLOCK FALSE
CONSTANTS
  a = a  b = b  o1 = o1  o2 = o2
  NoUser = NoUser
  Users = {a, b}
  Orders = {o1, o2}
  Plans = {p1, p2}
  Owner <- MCOwner
  Term <- MCTerm
  Inviter <- MCInviter
  First <- MCFirst
  FirstPlan = p1
  FirstDays = 1
  BonusDays = 1
  GiftDays = {1, 2}
  Day = 2
  MinPause = 2
  PerMonth = 2
  MaxTime = 3
  MaxCalls = 4
PROPERTIES TransferIsExact
