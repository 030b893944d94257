SPECIFICATION FairSpec
CONSTANTS
  w1 = w1
  w2 = w2
  Workers <- TwoWorkers
  FirstLines <- OpenInvoice
  MaxMatches = 2
  Requests <- Asked
INVARIANTS
  TypeOK
  ResidualsMatch
  SettledWithinRounding
  FxReversedOnce
  OnlyCrossedDeadlock
PROPERTIES
  ImplementsOpenItems
  RequestsEnd
CHECK_DEADLOCK FALSE
