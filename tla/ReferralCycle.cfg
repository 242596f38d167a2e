SPECIFICATION Spec
CONSTANTS
  AccountIds = {a1, a2, a3}
  Addresses = {e1}
  Wallets = {w1, w2, w3}
  Codes = {c1, c2, c3}
  Countries = {}
  Sessions = {s1}
  None = None
  Kept = Kept
  e1 = e1
  upperE1 = upperE1
  e2 = e2
  e3 = e3
  w1 = w1
  w2 = w2
  w3 = w3
  usa = usa
  zzz = zzz
  Scenarios <- CycleScenario
  Normalize <- Lower
  WellFormed = {e1}
  KnownCountries = {}
  Replica <- OneReplica
SYMMETRY Symmetry
INVARIANTS
  NoReferralCycle
