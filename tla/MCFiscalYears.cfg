CONSTANTS
  bank = bank
  deposits = deposits
  capital = capital
  gains = gains
  losses = losses
  wear = wear
  worn = worn
  local = local
  euro = euro
  d1 = d1
  d2 = d2
  Accounts <- AllAccounts
  Currencies <- AllCurrencies
  TypeOf <- Types
  Contra <- Worn
  Cash <- Banks
  NonCash <- Adjusted
  ActivityOf <- AllActivities
  Months = 2
  LastYear = 2
  Starts = {1, 2, 3, 5}
  EntryDates = {2}
  AskedStates = {"hard_closed"}
  DraftIds = {d1, d2}
  Entries <- AllEntries
  Functional = local
  RateOn <- Rates
  Gain = gains
  Loss = losses
SPECIFICATION Spec
SYMMETRY Drafting
INVARIANTS TypeOK BooksBalance StatementsAgree CashFlowExplained
PROPERTIES ClosedYearSealed ClosingZeroes
CHECK_DEADLOCK FALSE
