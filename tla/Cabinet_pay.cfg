SPECIFICATION MCSpec
CHECK_DEADLOCK FALSE
CONSTANTS
  A = A  B = B  o1 = o1  o2 = o2  k1 = k1  k2 = k2
  NoLogin = NoLogin  NoToken = NoToken  NoOrder = NoOrder
  NoPlan = NoPlan  NoInvoice = NoInvoice
  Tabs = {t1}
  Logins = {A, B}
  Tokens = {k1, k2}
  Orders = {o1, o2}
  Plans = {p1}
  TokenOwner <- MCTokenOwner
  MaxFaults = 1
INVARIANTS TypeOK PaidIsPaid OwnInvoice RenewsOnce
PROPERTIES ShowsItsAccount PaidIsShown
