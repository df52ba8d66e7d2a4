\* One page and one order; codes expire, are refreshed and asked for again.
SPECIFICATION PaymentSpec
CONSTANTS
  Page = {p1}
  Slots = 2
  MaxOrders = 1
  MaxQrs = 2
  MaxFaults = 1
  MaxTime = 2
  Valid = 1
  Tries = 1
  Nothing = Nothing
INVARIANT RefreshHonest
PROPERTIES RequestsEnd PaidSeen
