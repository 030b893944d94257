SPECIFICATION Spec
CONSTANTS
  cash = cash
  sales = sales
  tax = tax
  general = general
  bank = bank
  Accounts = {cash, sales, tax}
  MoveIds = {m1, m2, m3}
  Journals = {general, bank}
  Periods = {jan}
  Actors = {ann}
  Keys = {k1}
  Workers = {w1}
  PrefixesOf <- NewPrefix
  Drafts <- OneDraft
  Threshold = 0
  Base = 10
  Cap = 100000
  MaxVersion = 1
  MaxBulk = 1
  NullHashLoads = TRUE
  NoMove = NoMove
  NoActor = NoActor
SYMMETRY Symmetry
INVARIANTS
  ChainLinear
  ReversedOnce
  AuditComplete
