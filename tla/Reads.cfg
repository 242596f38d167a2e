SPECIFICATION ScenarioSpec
CONSTANTS
  AccountIds = {a1, a2, a3}
  Addresses = {e1, upperE1}
  Wallets = {w1, w2}
  Codes = {c1, c2, c3}
  Countries = {}
  KnownCountries = {}
  None = None
  Malformed = Malformed
  e1 = e1
  upperE1 = upperE1
  w1 = w1
  w2 = w2
  Requests <- Changes
  Calls <- AllCalls
  Normalize <- Lower
  WellFormed = {e1, upperE1}
  Limit = 2
SYMMETRY Symmetry
INVARIANTS
  ReadsInvariant
  TypeOK
  EntriesConsistent
  ReportedLinksAreReal
  ReturnsWhatWasAsked
  FoundIfThere
  ReplyCoversStart
  ListIsNewest
  ReferrerHiddenOnlyIfGone
