\* Two pages of one account, two orders, a lost call or a restart; no time passes.
SPECIFICATION PaymentSpec
CONSTANTS
  Page = {p1, p2}
  Slots = 2
  MaxOrders = 2
  MaxQrs = 2
  MaxFaults = 1
  MaxTime = 0
  Valid = 1
  Tries = 1
  Nothing = Nothing
INVARIANTS GoneStaysGone PaidIsPaid CodeFits
SYMMETRY Symmetry
