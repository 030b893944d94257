SPECIFICATION Spec
CONSTANTS
  cash = cash
  sales = sales
  tax = tax
  general = general
  bank = bank
  Accounts = {cash, sales, tax}
  MoveIds = {m1, m2}
  Journals = {general}
  Periods = {jan}
  Actors = {ann, bob}
  Keys = {k1}
  Workers = {w1, w2}
  PrefixesOf <- OwnPrefix
  Drafts <- LargeAndFractional
  Threshold = 4
  Base = 10
  Cap = 100000
  MaxVersion = 2
  MaxBulk = 2
  NullHashLoads = TRUE
  NoMove = NoMove
  NoActor = NoActor
SYMMETRY Symmetry
INVARIANTS
  TypeOK
  PostedBalanced
  MakerChecker
  OneMovePerKey
  GaplessNumbering
PROPERTIES
  PostedImmutable
  PostsWhatWasSaved
  ClosedPeriodSealed
