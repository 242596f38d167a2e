SPECIFICATION FairSpec
CONSTANTS
  AccountIds = {a1, a2}
  Addresses = {e1, upperE1, e2}
  Wallets = {w1}
  Codes = {c1, c2}
  Countries = {}
  KnownCountries = {}
  None = None
  e1 = e1
  upperE1 = upperE1
  e2 = e2
  w1 = w1
  Requests <- AllRequests
  Normalize <- Lower
  WellFormed = {e1, upperE1, e2}
  Replicas = {p1}
  Disabled = FALSE
  MaxMoving = 3
CHECK_DEADLOCK FALSE
INVARIANTS
  EmailIsCurrent
  MessagesAreTrue
  MessagesInvariant
PROPERTIES
  ToldOrLost
