SPECIFICATION Spec
CONSTANTS
  AccountIds = {a1, a2}
  Addresses = {e1, upperE1, e2, e3}
  Wallets = {w1, w2}
  Codes = {c1, c2}
  Countries = {}
  Sessions = {s1, s2}
  None = None
  Kept = Kept
  e1 = e1
  upperE1 = upperE1
  e2 = e2
  e3 = e3
  w1 = w1
  w2 = w2
  w3 = w3
  usa = usa
  zzz = zzz
  Scenarios <- LinksScenarios
  Normalize <- Lower
  WellFormed = {e1, upperE1, e3}
  KnownCountries = {}
  Replica <- OneReplica
SYMMETRY Symmetry
INVARIANTS
  AccountsTypeOK
  HandlersInvariant
  EveryAccountReachable
  OneAccountPerMailbox
  NoLeakedTransactions
  ToldEmailIsLinked
  AnswersHold
PROPERTIES
  LinksSticky
