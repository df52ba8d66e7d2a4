\* What the order dialog says, violated by two pages that order one after the other.
SPECIFICATION PaymentSpec
CONSTANTS
  Page = {p1, p2}
  Slots = 2
  MaxOrders = 2
  MaxQrs = 2
  MaxFaults = 0
  MaxTime = 0
  Valid = 1
  Tries = 1
  Nothing = Nothing
INVARIANT AmountOfCode
