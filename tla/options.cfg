SPECIFICATION Spec
CONSTANTS
  Account = {a1}
  Flavor = {f1}
  View = {"verified", "plain"}
  Loader = {l1, l2}
  VerifiedTTL = 1
  PlainTTL = 2
  StockTTL = 2
  ErrorTTL = 1
  SoldTTL = 1
  MaxErrors = 1
  Fallback = TRUE
  None = None
INVARIANTS TypeOK SoldOutWithdrawn OfferAge
PROPERTIES AsksOnce
SYMMETRY Symmetry
