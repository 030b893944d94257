SPECIFICATION Spec
CONSTANTS
  a1 = a1
  a2 = a2
  a3 = a3
  a4 = a4
  w1 = w1
  w2 = w2
  None = None
  Accounts = {a1, a2, a3, a4}
  Codes = {"c1", "c2", "c3", "c4"}
  Types = {"equity", "asset"}
  Workers = {w1, w2}
  FirstAccounts <- FirstChart
  Requests <- Asked
INVARIANTS
  ClosedIntoEquity
