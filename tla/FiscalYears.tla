---------------------------- MODULE FiscalYears ----------------------------
(***************************************************************************)
(* Fiscal years, their periods, the drafts that live in them, revaluation  *)
(* of foreign positions and year close.  A period is one month; a date is  *)
(* the number of a month, and the lines of a move carry the date of the    *)
(* move.  Calendar year y has the months y * Months .. y * Months +        *)
(* Months - 1 (Months is 12 in the code); a fiscal year is named after the *)
(* calendar year it begins in, may begin in any month of it, and two years *)
(* may overlap: only their names are unique.                               *)
(*                                                                         *)
(* Transactions of the repository are atomic here.  Creating a draft and   *)
(* revaluing read the tables first and insert later, in two actions.  The  *)
(* journals, numbers and hashes of the moves are module Ledger's.          *)
(***************************************************************************)
EXTENDS Reports

CONSTANTS
  Months,       \* periods of a year
  LastYear,     \* bound on the years that are created
  Starts,       \* bound on the months in which years begin
  EntryDates,   \* bound on the dates of drafts
  AskedStates,  \* bound on the states requested for periods
  DraftIds,     \* ids of the moves users draft
  Entries,      \* the entries users submit
  Functional,   \* functional currency
  RateOn,       \* closing rate of a unit of any foreign currency, per date
  Gain, Loss    \* the accounts of the accounting configuration

ASSUME YearAssumption == Months \in Nat \ {0} /\ LastYear \in Nat
ASSUME BoundAssumption ==
  /\ Starts \subseteq Nat /\ IsFiniteSet(Starts) /\ Starts # {}
  /\ EntryDates \subseteq Nat /\ IsFiniteSet(DraftIds)

Years == 0 .. LastYear
Dates == 0 .. Max(Starts) + Months - 1

ASSUME FXAssumption ==
  /\ Functional \in Currencies /\ RateOn \in [Dates -> Nat \ {0}]
  /\ {Gain, Loss} \subseteq Accounts /\ TypeOf[Gain] = "income" /\ TypeOf[Loss] = "expense"
ASSUME DraftAssumption == DraftIds \cap ({"closing", "opening"} \X Years) = {}
ASSUME EntryAssumption ==
  \A e \in Entries : DOMAIN e \subseteq Positions /\ \A p \in DOMAIN e : e[p] \in Entry

VARIABLES
  years,     \* tables fiscal_years and fiscal_periods
  book,      \* table account_moves with its lines
  requests   \* drafts validated by a request and not inserted yet

vars == <<years, book, requests>>

-----------------------------------------------------------------------------
PeriodStates == {"open", "soft_closed", "hard_closed"}
YearRows == [start : Dates, state : {"open", "closed"}, periods : [1 .. Months -> PeriodStates]]
PeriodIds == Years \X (1 .. Months)
SystemIds == {"closing", "opening"} \X Years

End(y) == years[y].start + Months - 1
PeriodState(p) == years[p[1]].periods[p[2]]
IsOpen(p) == PeriodState(p) = "open"

\* GetPeriodByDate: overlapping years give a date several periods that begin on the
\* same day, of which the query takes any.
PeriodsOf(d) ==
  {p \in (DOMAIN years) \X (1 .. Months) : years[p[1]].start + p[2] - 1 = d}

Put(f, x, value) == [y \in DOMAIN f \cup {x} |-> IF y = x THEN value ELSE f[y]]
Drop(f, x) == [y \in DOMAIN f \ {x} |-> f[y]]

Move(state, date, period, lines) ==
  [state |-> state, date |-> date, period |-> period, lines |-> lines]

TypeOK ==
  /\ DOMAIN years \subseteq Years /\ \A y \in DOMAIN years : years[y] \in YearRows
  /\ DOMAIN book \subseteq DraftIds \cup SystemIds
  /\ DOMAIN requests \subseteq DraftIds /\ DOMAIN requests \cap DOMAIN book = {}
  /\ \A m \in DOMAIN book :
       /\ book[m].state \in {"draft", "posted"} /\ book[m].period \in PeriodIds
       /\ book[m].date \in Dates /\ DOMAIN book[m].lines \subseteq Positions
       /\ \A p \in DOMAIN book[m].lines : book[m].lines[p] \in Entry

Empty == [x \in {} |-> x]

Init == years = Empty /\ book = Empty /\ requests = Empty

-----------------------------------------------------------------------------
\* Years and periods.

\* CreateFiscalYearUseCase: Months whole months from the first of a month of y.
CreateFiscalYear(y, start) ==
  /\ y \notin DOMAIN years /\ start \div Months = y
  /\ years' = Put(years, y, [start |-> start, state |-> "open",
                             periods |-> [n \in 1 .. Months |-> "open"]])
  /\ UNCHANGED <<book, requests>>

\* validPeriodTransition.
PeriodStep(from, to) ==
  \/ from = "open" /\ to \in {"soft_closed", "hard_closed"}
  \/ from = "soft_closed" /\ to \in {"open", "hard_closed"}

\* UpdatePeriodState: the year and the period are locked and read again.
ChangePeriodState(y, n, s) ==
  /\ y \in DOMAIN years /\ years[y].state = "open"
  /\ PeriodStep(years[y].periods[n], s)
  /\ years' = [years EXCEPT ![y].periods[n] = s]
  /\ UNCHANGED <<book, requests>>

-----------------------------------------------------------------------------
\* Drafts.

\* AccountMove.ValidateBalance.
Balanced(lines) ==
  /\ Cardinality(DOMAIN lines) >= 2
  /\ \A p \in DOMAIN lines : lines[p].net # 0
  /\ SumFunction(Nets(lines)) = 0

\* A request chooses the period of its date, sees it open and keeps the draft.
Prepare(m, d, lines) ==
  /\ m \notin DOMAIN book \cup DOMAIN requests
  /\ \E p \in PeriodsOf(d) :
       IsOpen(p) /\ requests' = Put(requests, m, Move("draft", d, p, lines))
  /\ UNCHANGED <<years, book>>

CreateDraft(m, d, lines) == Balanced(lines) /\ Prepare(m, d, lines)

\* Keeps the request, which is saved once more.
SaveDraftBug(m) ==
  /\ m \in DOMAIN requests
  /\ book' = Put(book, m, requests[m])
  /\ UNCHANGED <<years, requests>>

\* SaveDraftMove: the insert does not look at the period.  Its foreign key waits for
\* a year close that has locked the period.
SaveDraft(m) ==
  /\ m \in DOMAIN requests
  /\ book' = Put(book, m, requests[m])
  /\ requests' = Drop(requests, m)
  /\ UNCHANGED years

DeleteDraft(m) ==
  /\ m \in DOMAIN book /\ book[m].state = "draft"
  /\ book' = Drop(book, m)
  /\ UNCHANGED <<years, requests>>

\* Forgets lockOpenPeriod.
PostMoveBug(m) ==
  /\ m \in DOMAIN book /\ book[m].state = "draft"
  /\ book' = [book EXCEPT ![m].state = "posted"]
  /\ UNCHANGED <<years, requests>>

\* PostMoveAtomic: the period of the move is open.
PostMove(m) ==
  /\ m \in DOMAIN book /\ book[m].state = "draft" /\ IsOpen(book[m].period)
  /\ book' = [book EXCEPT ![m].state = "posted"]
  /\ UNCHANGED <<years, requests>>

-----------------------------------------------------------------------------
\* Positions: sums of posted lines up to a date.

SumOf(b, d, p, field) ==
  LET touching == {m \in PostedIn(b, 0, d) : p \in DOMAIN b[m].lines}
  IN SumFunction([m \in touching |-> b[m].lines[p][field]])

\* GetFXMonetaryBalances and GetFXRevaluationSnapshot: the foreign positions.
MonetaryPositions(d) ==
  {p \in Positions : p[2] # Functional /\ SumOf(book, d, p, "foreign") # 0}

\* RevalueFXUseCase, the lines.  The adjustment is booked in the functional currency:
\* the carrying amount of the foreign position itself stays what it was.
RevaluationLines(d) ==
  LET delta == [p \in MonetaryPositions(d) |->
                 RateOn[d] * SumOf(book, d, p, "foreign") - SumOf(book, d, p, "net")]
      ups   == {p \in DOMAIN delta : delta[p] > 0}
      downs == {p \in DOMAIN delta : delta[p] < 0}
      net(a) == CASE a = Gain -> -SumFunctionOnSet(delta, ups)
                  [] a = Loss -> -SumFunctionOnSet(delta, downs)
                  [] OTHER -> SumFunctionOnSet(delta, {p \in ups \cup downs : p[1] = a})
      touched == {p[1] : p \in ups \cup downs}
                 \cup (IF ups = {} THEN {} ELSE {Gain})
                 \cup (IF downs = {} THEN {} ELSE {Loss})
  IN [q \in touched \X {Functional} |-> [net |-> net(q[1]), foreign |-> net(q[1])]]

\* RevalueFXUseCase: one position that is no asset or liability fails the whole run;
\* a run without adjustments leaves no draft.
RevalueFX(m, d) ==
  /\ \A p \in MonetaryPositions(d) : TypeOf[p[1]] \in {"asset", "liability"}
  /\ RevaluationLines(d) # Empty
  /\ Prepare(m, d, RevaluationLines(d))

-----------------------------------------------------------------------------
\* Year close.

\* Leaves a year without a result alone.
ClosingLinesBug(end, retained) ==
  LET balance == [a \in Nominal |-> Net(book, PostedIn(book, 0, end), a)]
      closed == {a \in Nominal : balance[a] # 0}
      result == SumFunctionOnSet(balance, closed)
      touched == IF result = 0 THEN {} ELSE closed \cup {retained}
  IN [p \in touched \X {Functional} |->
       [net |-> IF p[1] = retained THEN result ELSE -balance[p[1]], foreign |-> 0]]

\* fiscalClosingLines: every income and expense account that has a balance up to the
\* end of the year is brought to zero against retained earnings.
ClosingLines(end, retained) ==
  LET balance == [a \in Nominal |-> Net(book, PostedIn(book, 0, end), a)]
      closed == {a \in Nominal : balance[a] # 0}
      result == SumFunctionOnSet(balance, closed)
      touched == closed \cup (IF result = 0 THEN {} ELSE {retained})
  IN [p \in touched \X {Functional} |->
       [net |-> IF p[1] = retained THEN result ELSE -balance[p[1]], foreign |-> 0]]

\* fiscalOpeningLines: every asset, liability and equity position with a balance.
OpeningLines(b, end) ==
  [p \in {p \in Permanent \X Currencies :
            SumOf(b, end, p, "net") # 0 \/ SumOf(b, end, p, "foreign") # 0} |->
    [net |-> SumOf(b, end, p, "net"), foreign |-> SumOf(b, end, p, "foreign")]]

\* insertSystemMove validates the entry, a foreign balance needs a foreign amount.
Accepted(lines) ==
  /\ lines # Empty => Balanced(lines)
  /\ \A p \in DOMAIN lines : p[2] # Functional => lines[p].foreign # 0

\* The move is posted into the period without asking whether it is open.
InsertSystemMove(b, id, date, period, lines) ==
  IF lines = Empty THEN b ELSE Put(b, id, Move("posted", date, period, lines))

\* Does not ask for every period to be hard closed.
ClosableBug(y) ==
  /\ y \in DOMAIN years /\ years[y].state = "open"
  /\ \A m \in DOMAIN book : book[m].state = "draft" => book[m].date \notin years[y].start .. End(y)
  /\ y + 1 \in DOMAIN years /\ years[y + 1].state = "open"
  /\ years[y + 1].start = End(y) + 1 /\ IsOpen(<<y + 1, 1>>)

\* What CloseFiscalYear locks and requires.
Closable(y) ==
  /\ y \in DOMAIN years /\ years[y].state = "open"
  /\ \A n \in 1 .. Months : years[y].periods[n] = "hard_closed"
  /\ \A m \in DOMAIN book : book[m].state = "draft" => book[m].date \notin years[y].start .. End(y)
  /\ y + 1 \in DOMAIN years /\ years[y + 1].state = "open"
  /\ years[y + 1].start = End(y) + 1 /\ IsOpen(<<y + 1, 1>>)

CloseFiscalYear(y, retained) ==
  /\ Closable(y) /\ TypeOf[retained] = "equity"
  /\ LET closing == ClosingLines(End(y), retained)
         closed == InsertSystemMove(book, <<"closing", y>>, End(y), <<y, Months>>, closing)
         opening == OpeningLines(closed, End(y))
     IN /\ Accepted(closing) /\ Accepted(opening)
        /\ book' = InsertSystemMove(closed, <<"opening", y + 1>>, End(y) + 1,
                                    <<y + 1, 1>>, opening)
  /\ years' = [years EXCEPT ![y].state = "closed"]
  /\ UNCHANGED requests

Next ==
  \/ \E y \in Years :
       \/ \E start \in Starts : CreateFiscalYear(y, start)
       \/ \E n \in 1 .. Months, s \in AskedStates : ChangePeriodState(y, n, s)
       \/ \E a \in Permanent : CloseFiscalYear(y, a)
  \/ \E m \in DraftIds :
       \/ \E d \in EntryDates : (\E e \in Entries : CreateDraft(m, d, e)) \/ RevalueFX(m, d)
       \/ SaveDraft(m) \/ DeleteDraft(m) \/ PostMove(m)

Spec == Init /\ [][Next]_vars

-----------------------------------------------------------------------------
\* Safety.

\* What the accounts of some types with the other normal balance hold as of a date.
HeldContra(b, d, types) ==
  SumFunctionOnSet(TrialBalance(b, 0, d), {a \in Contra : TypeOf[a] \in types})

\* The balance sheet as of any date is out by exactly twice what the balance sheet
\* accounts with the other normal balance hold, whose amounts GenerateBalanceSheetUseCase
\* adds where it should subtract: it balances where they hold nothing, whatever was
\* drafted, posted, revalued, closed and carried forward.
BooksBalance ==
  \A d \in Dates : BalanceSheet(book, d).difference =
                     -2 * HeldContra(book, d, {"asset", "liability", "equity"})

\* The income statement of a range explains how the result shown in the balance
\* sheet moved over it, although the two come from different queries.
StatementsAgree ==
  LET sheets == {[at |-> d, income |-> BalanceSheet(book, d).income] : d \in Dates}
  IN \A s \in sheets :
       /\ IncomeStatement(book, 0, s.at).net = s.income
       /\ \A r \in sheets : r.at < s.at =>
            IncomeStatement(book, r.at + 1, s.at).net = s.income - r.income

\* The accounts of a move that are not cash, and those whose balances working capital is.
Others(lines) == {a \in Accounts \ Cash : \E p \in DOMAIN lines : p[1] = a}
Working ==
  {a \in Accounts \ Cash : ActivityOf[a] = "operating" /\ TypeOf[a] \in {"asset", "liability"}}

\* All of it belongs to the operating activities, and nothing is adjusted.
OfOperations(lines) ==
  \A a \in Others(lines) : ActivityOf[a] = "operating" /\ TypeOf[a] # "equity" /\ a \notin NonCash

\* Income and expenses in it are adjusted away, and no operating account moves with cash.
OutsideOperations(lines) ==
  /\ \A a \in Others(lines) : a \notin Working /\ (a \in Nominal <=> a \in NonCash)
  /\ (\E p \in DOMAIN lines : p[1] \in Cash) => \A a \in Others(lines) : ActivityOf[a] # "operating"

\* Neither, or cash itself is income or expense: the closing of a year is such a move.
Mixes(lines) ==
  \/ \E p \in DOMAIN lines : p[1] \in Cash \cap Nominal
  \/ ~OfOperations(lines) /\ ~OutsideOperations(lines)

Alone(b, m) == [x \in {m} |-> b[m]]

\* What the cash flow statement of a range leaves unexplained of the change in cash is
\* what the moves that mix operations with other things leave unexplained each on its
\* own: no other move, and no combination of moves, leaves anything, unless the use case
\* refuses a move with counterparts in several activities.
CashFlowExplained ==
  \A to \in Dates : \A from \in 0 .. to :
    LET mixed == {m \in PostedIn(book, from, to) : Mixes(book[m].lines)}
    IN \/ CashFlowFails(book, from, to)
       \/ CashFlow(book, from, to).difference =
            SumFunction([m \in mixed |-> CashFlow(Alone(book, m), from, to).difference])

PostedOf(b, y) == {<<m, b[m]>> : m \in {m \in Posted(b) : b[m].period[1] = y}}
Closes(y) == years[y].state = "open" /\ years'[y].state = "closed"

\* What is posted in the periods of a closed year and the states of these periods
\* never change again: also not by a draft that was validated before the close.
ClosedYearSealed ==
  [][\A y \in DOMAIN years : years[y].state = "closed" =>
       years'[y] = years[y] /\ PostedOf(book', y) = PostedOf(book, y)]_vars

NetUpTo(b, d, a) == Net(b, PostedIn(b, 0, d), a)

\* Closing a year empties every income and expense account as of its end and moves their
\* sum, the result the balance sheet showed, into one equity account; every other account
\* and the totals of assets, liabilities and equity stay as they were.  Where that account
\* has the other normal balance the result changes sides in the total of equity.
ClosingZeroes ==
  [][\A y \in DOMAIN years : Closes(y) =>
       LET end == End(y)
           result == BalanceSheet(book, end).income
       IN /\ \A a \in Nominal : NetUpTo(book', end, a) = 0
          /\ \E retained \in Accounts :
               /\ TypeOf[retained] = "equity"
               /\ \A a \in Permanent : NetUpTo(book', end, a) =
                    NetUpTo(book, end, a) - (IF a = retained THEN result ELSE 0)
               /\ BalanceSheet(book', end).equity = BalanceSheet(book, end).equity
                    - (IF retained \in Contra THEN 2 * result ELSE 0)
          /\ \A section \in {"assets", "liabilities"} :
               BalanceSheet(book', end)[section] = BalanceSheet(book, end)[section]]_vars

BookedOnFirstDay(y, p) == SumOf(book, End(y) + 1, p, "net") - SumOf(book, End(y), p, "net")

\* The standard the documentation sets: the balances the closed year ends with become
\* the opening balances of its successor, so that on the first day of it each position
\* stands where the closed year left it, but for what users booked on that day.
OpeningRollsForward ==
  [][\A y \in DOMAIN years : Closes(y) =>
       \A p \in Permanent \X Currencies :
         SumOf(book', End(y) + 1, p, "net") =
           SumOf(book', End(y), p, "net") + BookedOnFirstDay(y, p)]_vars
=============================================================================
