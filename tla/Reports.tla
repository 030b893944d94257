------------------------------ MODULE Reports ------------------------------
(***************************************************************************)
(* The financial statements of internal/features/accounting as functions   *)
(* of the book: the queries of internal/queries.go and the use cases that  *)
(* add up their rows.  A book is a function from move ids to moves.  The   *)
(* lines of a move are a function from the positions it touches, pairs of  *)
(* an account and a currency, to the functional amount (debit - credit)    *)
(* and the foreign amount booked there.  A date is the number of a month.  *)
(***************************************************************************)
EXTENDS Integers, FiniteSets, FiniteSetsExt, Functions

CONSTANTS
  Accounts, Currencies,
  TypeOf,       \* accounts.account_type
  Contra,       \* accounts whose normal_balance is not the usual one of their type
  Cash,         \* accounts with is_cash_equivalent
  NonCash,      \* accounts with is_non_cash_adjustment
  ActivityOf    \* accounts.cash_flow_activity

ASSUME TypeAssumption ==
  TypeOf \in [Accounts -> {"asset", "liability", "equity", "income", "expense"}]
ASSUME ActivityAssumption ==
  ActivityOf \in [Accounts ->
    {"operating", "investing", "financing", "none", "unclassified"}]
ASSUME FiniteAssumption == IsFiniteSet(Accounts) /\ IsFiniteSet(Currencies)
ASSUME FlagAssumption == Contra \cup Cash \cup NonCash \subseteq Accounts

Nominal == {a \in Accounts : TypeOf[a] \in {"income", "expense"}}
Permanent == Accounts \ Nominal

Positions == Accounts \X Currencies
Entry == [net : Int, foreign : Int]

Nets(lines) == [p \in DOMAIN lines |-> lines[p].net]

\* What a move books on an account, in the functional currency.
Booked(move, a) ==
  SumFunctionOnSet(Nets(move.lines), {p \in DOMAIN move.lines : p[1] = a})

Touches(move, a) == \E p \in DOMAIN move.lines : p[1] = a

Posted(book) == {m \in DOMAIN book : book[m].state = "posted"}
PostedIn(book, from, to) == {m \in Posted(book) : book[m].date \in from .. to}

Net(book, ids, a) == SumFunction([m \in ids |-> Booked(book[m], a)])

-----------------------------------------------------------------------------
\* GetTrialBalanceData, the column the statements use: what the posted moves of the
\* period book on every account.
TrialBalance(book, from, to) ==
  LET within == PostedIn(book, from, to) IN [a \in Accounts |-> Net(book, within, a)]

\* Forgets WHERE l.id IS NULL OR m.id IS NOT NULL: the lines of drafts are summed.
BalancesAsOfBug(book, d) ==
  [a \in Accounts |-> Net(book, {m \in DOMAIN book : book[m].date <= d}, a)]

\* GetAccountBalancesAsOf.  The WHERE clause after the two outer joins drops an
\* account that only drafts touch.
BalancesAsOf(book, d) ==
  LET touching(a) == {m \in DOMAIN book : book[m].date <= d /\ Touches(book[m], a)}
      listed == {a \in Accounts :
                   touching(a) = {} \/ touching(a) \cap Posted(book) # {}}
  IN [a \in listed |-> Net(book, PostedIn(book, 0, d), a)]

\* The result of the current period is not added to equity.
BalanceSheetBug(book, d) ==
  LET balances == BalancesAsOf(book, d)
      of(types) == {a \in DOMAIN balances : TypeOf[a] \in types}
      total(types) == SumFunctionOnSet(balances, of(types))
  IN [assets |-> total({"asset"}), liabilities |-> -total({"liability"}),
      equity |-> -total({"equity"}), income |-> -total({"income", "expense"}),
      difference |-> total({"asset", "liability", "equity"})]

\* GenerateBalanceSheetUseCase: the amount of a line has the sign of the normal
\* balance of its account, the total of a section adds the amounts up.
BalanceSheet(book, d) ==
  LET balances == BalancesAsOf(book, d)
      debitNormal(a) == (TypeOf[a] = "asset") # (a \in Contra)
      amounts == [a \in DOMAIN balances |-> IF debitNormal(a) THEN balances[a] ELSE -balances[a]]
      of(types) == {a \in DOMAIN balances : TypeOf[a] \in types}
      income == -SumFunctionOnSet(balances, of({"income", "expense"}))
      assets == SumFunctionOnSet(amounts, of({"asset"}))
      liabilities == SumFunctionOnSet(amounts, of({"liability"}))
      equity == SumFunctionOnSet(amounts, of({"equity"})) + income
  IN [assets |-> assets, liabilities |-> liabilities, equity |-> equity,
      income |-> income, difference |-> assets - liabilities - equity]

\* GenerateIncomeStatementUseCase.
IncomeStatement(book, from, to) ==
  LET rows == TrialBalance(book, from, to)
      of(type) == {a \in Accounts : TypeOf[a] = type}
      revenue == -SumFunctionOnSet(rows, of("income"))
      expenses == SumFunctionOnSet(rows, of("expense"))
  IN [revenue |-> revenue, expenses |-> expenses, net |-> revenue - expenses]

-----------------------------------------------------------------------------
\* GetCashFlowMovements: the moves that change cash, with the activities of their
\* counterpart accounts and whether one of these has none.
CashAmount(move) == SumFunction([a \in Cash |-> Booked(move, a)])

\* Forgets that a counterpart is not a cash account itself.
CounterpartsBug(move) == {a \in Accounts : Touches(move, a)}

Counterparts(move) == {a \in Accounts \ Cash : Touches(move, a)}

Activities(move) ==
  {ActivityOf[a] : a \in Counterparts(move)} \ {"none", "unclassified"}

Unclassified(move) ==
  \/ \E a \in Counterparts(move) : ActivityOf[a] \in {"none", "unclassified"}
  \/ Activities(move) = {}

CashMovements(book, from, to) ==
  {m \in PostedIn(book, from, to) : CashAmount(book[m]) # 0}

\* A move with counterparts in several activities makes the statement fail.
CashFlowFails(book, from, to) ==
  \E m \in CashMovements(book, from, to) :
    ~Unclassified(book[m]) /\ Cardinality(Activities(book[m])) > 1

\* GenerateCashFlowUseCase where it does not fail: the indirect operating flow, the
\* direct investing and financing flows, and what they leave unexplained.
CashFlow(book, from, to) ==
  LET rows == TrialBalance(book, from, to)
      working == {a \in Accounts \ Cash : ActivityOf[a] = "operating"
                                          /\ TypeOf[a] \in {"asset", "liability"}}
      operating == IncomeStatement(book, from, to).net
                   + SumFunctionOnSet(rows, NonCash \ Cash) - SumFunctionOnSet(rows, working)
      classified(activity) == {m \in CashMovements(book, from, to) :
        ~Unclassified(book[m]) /\ Activities(book[m]) = {activity}}
      flow(moves) == SumFunction([m \in moves |-> CashAmount(book[m])])
      unclassified == {m \in CashMovements(book, from, to) : Unclassified(book[m])}
      change == SumFunctionOnSet(rows, Cash)
      explained == operating + flow(classified("investing"))
                   + flow(classified("financing")) + flow(unclassified)
  IN [operating |-> operating, change |-> change, difference |-> change - explained]
=============================================================================
