SPECIFICATION BoundedSpec
CONSTANTS
  AccountIds = {a1, a2}
  Addresses = {e1, e2}
  Wallets = {w1}
  Codes = {c1, c2}
  Countries = {}
  Sessions = {s1, s2}
  None = None
  Kept = Kept
  MaxWrites = 2
SYMMETRY Symmetry
CHECK_DEADLOCK FALSE
INVARIANTS TypeOK TablesConsistent StoreInvariant
