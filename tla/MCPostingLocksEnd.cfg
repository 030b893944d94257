SPECIFICATION FairLockSpec
CONSTANTS
  cash = cash
  sales = sales
  general = general
  bank = bank
  Accounts = {cash, sales}
  MoveIds = {m1, m2}
  Journals = {general}
  Periods = {jan}
  Actors = {ann}
  Keys = {k1}
  Workers = {w1, w2}
  PrefixesOf <- OwnPrefix
  Drafts <- OneDraft
  Threshold = 0
  Base = 10
  Cap = 100000
  MaxVersion = 1
  MaxBulk = 1
  MaxRequests = 2
  NullHashLoads = TRUE
  NoMove = NoMove
  NoActor = NoActor
PROPERTIES
  RequestsEnd
