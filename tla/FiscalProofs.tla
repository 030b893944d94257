---------------------------- MODULE FiscalProofs ----------------------------
(***************************************************************************)
(* Proofs about modules Reports and FiscalYears: sums over moves, accounts *)
(* and positions, the statements, and what closing a year does to them.    *)
(***************************************************************************)
EXTENDS FiscalYears, SumTheorems

-----------------------------------------------------------------------------
\* Sums of the book.

IsLines(l) == DOMAIN l \subseteq Positions /\ \A p \in DOMAIN l : l[p] \in Entry

\* The functional amounts of a move add up to nothing.
IsEven(l) == SumFunction(Nets(l)) = 0

HasLines(b) == IsFiniteSet(DOMAIN b) /\ \A m \in DOMAIN b : IsLines(b[m].lines)

LEMMA FinitePositions == IsFiniteSet(Accounts) /\ IsFiniteSet(Currencies) /\ IsFiniteSet(Positions)
BY FiniteAssumption, FS_Product DEF Positions

LEMMA FiniteLines == ASSUME NEW l, IsLines(l) PROVE IsFiniteSet(DOMAIN l)
BY FinitePositions, FS_Subset DEF IsLines

LEMMA NetsInt ==
  ASSUME NEW l, IsLines(l)
  PROVE  DOMAIN Nets(l) = DOMAIN l /\ \A p \in DOMAIN l : Nets(l)[p] = l[p].net /\ Nets(l)[p] \in Int
BY DEF Nets, IsLines, Entry

LEMMA BookedInt ==
  ASSUME NEW move, IsLines(move.lines), NEW a
  PROVE  /\ Booked(move, a) \in Int
         /\ ~Touches(move, a) => Booked(move, a) = 0
<1> DEFINE l == move.lines
           on == {p \in DOMAIN l : p[1] = a}
           f == Nets(l)
<1>1. IsFiniteSet(on) BY FiniteLines, FS_Subset
<1>2. \A p \in on : f[p] \in Int BY NetsInt
<1>3. ~Touches(move, a) => on = {} BY DEF Touches
<1>4. Booked(move, a) = SumFunctionOnSet(f, on) BY DEF Booked
<1> HIDE DEF on, f
<1>5. SumFunctionOnSet(f, on) \in Int BY <1>1, <1>2, SumLaws
<1>6. ~Touches(move, a) => SumFunctionOnSet(f, on) = 0 BY <1>3, SumEmpty
<1> QED BY <1>4, <1>5, <1>6

LEMMA NetIs ==
  ASSUME NEW b, NEW ids, NEW a
  PROVE  Net(b, ids, a) = SumFunctionOnSet([m \in ids |-> Booked(b[m], a)], ids)
BY DEF Net, SumFunction

LEMMA NetInt ==
  ASSUME NEW b, HasLines(b), NEW ids \in SUBSET DOMAIN b, NEW a
  PROVE  IsFiniteSet(ids) /\ Net(b, ids, a) \in Int
<1> DEFINE f == [m \in ids |-> Booked(b[m], a)]
<1>1. IsFiniteSet(ids) BY FS_Subset DEF HasLines
<1>2. \A m \in ids : f[m] \in Int BY BookedInt DEF HasLines
<1> HIDE DEF f
<1>3. SumFunctionOnSet(f, ids) \in Int BY <1>1, <1>2, SumLaws
<1> QED BY <1>1, <1>3, NetIs DEF f

\* What a move books on all accounts is what its lines add up to.
LEMMA BookedTotal ==
  ASSUME NEW move, IsLines(move.lines)
  PROVE  SumFunctionOnSet([a \in Accounts |-> Booked(move, a)], Accounts) =
         SumFunction(Nets(move.lines))
<1> DEFINE D == DOMAIN move.lines
           f == Nets(move.lines)
           c == [a \in Accounts |-> [p \in D |-> IF p[1] = a THEN f[p] ELSE 0]]
           row == [a \in Accounts |-> SumFunctionOnSet(c[a], D)]
           column == [p \in D |-> SumFunctionOnSet([a \in Accounts |-> c[a][p]], Accounts)]
<1>1. IsFiniteSet(D) /\ IsFiniteSet(Accounts) BY FiniteLines, FinitePositions
<1>2. DOMAIN f = D /\ \A p \in D : f[p] \in Int BY NetsInt
<1>3. \A p \in D : p[1] \in Accounts BY DEF IsLines, Positions
<1>4. \A a \in Accounts : \A p \in D : c[a][p] = (IF p[1] = a THEN f[p] ELSE 0) /\ c[a][p] \in Int
  <2> HIDE DEF f, D
  <2> QED BY <1>2
<1>5. SumFunctionOnSet(row, Accounts) = SumFunctionOnSet(column, D)
  <2> HIDE DEF c, D
  <2> QED BY <1>1, <1>4, SumSwap
<1>6. ASSUME NEW a \in Accounts PROVE row[a] = Booked(move, a)
  <2> DEFINE on == {p \in D : p[1] = a}
             g == c[a]
  <2>1. row[a] = SumFunctionOnSet(g, D) OBVIOUS
  <2>2. /\ \A p \in on : g[p] = f[p] /\ g[p] \in Int
        /\ \A p \in D \ on : g[p] = 0 BY <1>4
  <2>3. on \in SUBSET D /\ IsFiniteSet(on) BY <1>1, FS_Subset
  <2>4. Booked(move, a) = SumFunctionOnSet(f, on) BY DEF Booked
  <2> HIDE DEF on, g, f, D, row
  <2>5. SumFunctionOnSet(g, D) = SumFunctionOnSet(g, on) BY <1>1, <2>2, <2>3, SumWithin
  <2>6. SumFunctionOnSet(g, on) = SumFunctionOnSet(f, on) BY <2>2, <2>3, SumSame
  <2> QED BY <2>1, <2>4, <2>5, <2>6
<1>7. ASSUME NEW p \in D PROVE column[p] = f[p]
  <2> DEFINE g == [a \in Accounts |-> c[a][p]]
  <2>1. column[p] = SumFunctionOnSet(g, Accounts) OBVIOUS
  <2>2. /\ p[1] \in Accounts /\ f[p] \in Int
        /\ \A a \in {p[1]} : g[a] = f[p] /\ g[a] \in Int
        /\ \A a \in Accounts \ {p[1]} : g[a] = 0 BY <1>2, <1>3, <1>4
  <2> HIDE DEF g, f, column
  <2>3. {p[1]} \in SUBSET Accounts BY <2>2
  <2>4. SumFunctionOnSet(g, Accounts) = SumFunctionOnSet(g, {p[1]})
    BY <1>1, <2>2, <2>3, SumWithin
  <2>5. SumFunctionOnSet(g, {p[1]}) = f[p]
    <3>1. IsFiniteSet({}) BY FS_EmptySet
    <3>2. SumFunctionOnSet(g, {} \cup {p[1]}) = g[p[1]] + SumFunctionOnSet(g, {})
      BY <2>2, <3>1, SumAdds
    <3>3. {} \cup {p[1]} = {p[1]} OBVIOUS
    <3> QED BY <2>2, <3>2, <3>3, SumEmpty
  <2> QED BY <2>1, <2>4, <2>5
<1>8. SumFunctionOnSet(column, D) = SumFunctionOnSet(f, D)
  <2> HIDE DEF column, f, D
  <2> QED BY <1>1, <1>2, <1>7, SumSame
<1>9. row = [a \in Accounts |-> Booked(move, a)]
  <2>1. row = [a \in Accounts |-> row[a]] OBVIOUS
  <2> HIDE DEF row
  <2> QED BY <1>6, <2>1
<1>10. SumFunction(f) = SumFunctionOnSet(f, D) BY <1>2, SumFunctionIs
<1> HIDE DEF row, column, f, D
<1>11. SumFunctionOnSet(row, Accounts) = SumFunction(f) BY <1>5, <1>8, <1>10
<1> QED BY <1>9, <1>11 DEF f

-----------------------------------------------------------------------------
\* The statements.

AccountsOf(types) == {a \in Accounts : TypeOf[a] \in types}
Total(b, from, to, types) == SumFunctionOnSet(TrialBalance(b, from, to), AccountsOf(types))

EvenBook(b) == HasLines(b) /\ \A m \in DOMAIN b : IsEven(b[m].lines)

LEMMA PostedInBook == ASSUME NEW b, NEW from, NEW to PROVE PostedIn(b, from, to) \in SUBSET DOMAIN b
BY DEF PostedIn, Posted

LEMMA TrialBalanceIs ==
  ASSUME NEW b, HasLines(b), NEW from, NEW to
  PROVE  /\ DOMAIN TrialBalance(b, from, to) = Accounts
         /\ \A a \in Accounts :
              /\ TrialBalance(b, from, to)[a] = Net(b, PostedIn(b, from, to), a)
              /\ TrialBalance(b, from, to)[a] \in Int
<1>1. ASSUME NEW a \in Accounts PROVE Net(b, PostedIn(b, from, to), a) \in Int
  BY PostedInBook, NetInt
<1> QED BY <1>1 DEF TrialBalance

LEMMA TotalInt ==
  ASSUME NEW b, HasLines(b), NEW from, NEW to, NEW types
  PROVE  Total(b, from, to, types) \in Int
<1>1. IsFiniteSet(AccountsOf(types)) BY FinitePositions, FS_Subset DEF AccountsOf
<1> DEFINE f == TrialBalance(b, from, to)
<1>2. \A a \in AccountsOf(types) : f[a] \in Int BY TrialBalanceIs DEF AccountsOf
<1> HIDE DEF f
<1>3. SumFunctionOnSet(f, AccountsOf(types)) \in Int BY <1>1, <1>2, SumLaws
<1> QED BY <1>3 DEF Total, f

\* Even moves leave the accounts even.
LEMMA NetTotal ==
  ASSUME NEW b, EvenBook(b), NEW from, NEW to
  PROVE  SumFunctionOnSet(TrialBalance(b, from, to), Accounts) = 0
<1> DEFINE ids == PostedIn(b, from, to)
           c == [m \in ids |-> [a \in Accounts |-> Booked(b[m], a)]]
           row == [m \in ids |-> SumFunctionOnSet(c[m], Accounts)]
           column == [a \in Accounts |-> SumFunctionOnSet([m \in ids |-> c[m][a]], ids)]
<1>1. HasLines(b) /\ ids \in SUBSET DOMAIN b BY PostedInBook DEF EvenBook
<1>2. IsFiniteSet(ids) /\ IsFiniteSet(Accounts) BY <1>1, FinitePositions, FS_Subset DEF HasLines
<1>3. \A m \in ids : \A a \in Accounts : c[m][a] \in Int
  <2>1. ASSUME NEW m \in ids, NEW a \in Accounts PROVE Booked(b[m], a) \in Int
    BY <1>1, BookedInt DEF HasLines
  <2> HIDE DEF ids
  <2> QED BY <2>1
<1>4. SumFunctionOnSet(row, ids) = SumFunctionOnSet(column, Accounts)
  <2> HIDE DEF c, ids
  <2> QED BY <1>2, <1>3, SumSwap
<1>5. ASSUME NEW m \in ids PROVE row[m] = 0
  <2>1. IsLines(b[m].lines) /\ SumFunction(Nets(b[m].lines)) = 0
    BY <1>1 DEF EvenBook, HasLines, IsEven
  <2>2. row[m] = SumFunctionOnSet([a \in Accounts |-> Booked(b[m], a)], Accounts)
    <3> HIDE DEF ids
    <3> QED OBVIOUS
  <2> HIDE DEF row, ids
  <2> QED BY <2>1, <2>2, BookedTotal
<1>6. SumFunctionOnSet(row, ids) = 0
  <2> HIDE DEF row, ids
  <2> QED BY <1>2, <1>5, SumZero
<1>7. column = TrialBalance(b, from, to)
  <2>1. ASSUME NEW a \in Accounts PROVE column[a] = Net(b, ids, a)
    <3>1. column[a] = SumFunctionOnSet([m \in ids |-> c[m][a]], ids) OBVIOUS
    <3>2. [m \in ids |-> c[m][a]] = [m \in ids |-> Booked(b[m], a)]
      <4> HIDE DEF ids
      <4> QED OBVIOUS
    <3> HIDE DEF column, c, ids
    <3> QED BY <3>1, <3>2, NetIs
  <2>2. column = [a \in Accounts |-> column[a]] OBVIOUS
  <2> HIDE DEF column
  <2> QED BY <2>1, <2>2 DEF TrialBalance
<1> HIDE DEF row, column
<1> QED BY <1>4, <1>6, <1>7

\* Accounts the balance sheet does not list have no balance.
LEMMA BalancesAre ==
  ASSUME NEW b, HasLines(b), NEW d
  PROVE  /\ DOMAIN BalancesAsOf(b, d) \subseteq Accounts
         /\ \A a \in DOMAIN BalancesAsOf(b, d) :
              BalancesAsOf(b, d)[a] = TrialBalance(b, 0, d)[a]
         /\ \A a \in Accounts \ DOMAIN BalancesAsOf(b, d) : TrialBalance(b, 0, d)[a] = 0
<1> DEFINE ids == PostedIn(b, 0, d)
           touching(a) == {m \in DOMAIN b : b[m].date <= d /\ Touches(b[m], a)}
           listed == {a \in Accounts : touching(a) = {} \/ touching(a) \cap Posted(b) # {}}
<1>1. DOMAIN BalancesAsOf(b, d) = listed /\ listed \subseteq Accounts BY DEF BalancesAsOf
<1>2. \A a \in listed : BalancesAsOf(b, d)[a] = Net(b, ids, a) BY DEF BalancesAsOf
<1>3. \A a \in Accounts : TrialBalance(b, 0, d)[a] = Net(b, ids, a) BY DEF TrialBalance
<1>4. ASSUME NEW a \in Accounts \ listed PROVE Net(b, ids, a) = 0
  <2> DEFINE f == [m \in ids |-> Booked(b[m], a)]
  <2>1. IsFiniteSet(ids) BY PostedInBook, FS_Subset DEF HasLines
  <2>2. ASSUME NEW m \in ids PROVE ~Touches(b[m], a)
    <3>1. m \in DOMAIN b /\ m \in Posted(b) /\ b[m].date <= d BY DEF PostedIn, Posted
    <3> QED BY <3>1
  <2>3. \A m \in ids : f[m] = 0 BY <2>2, PostedInBook, BookedInt DEF HasLines
  <2> HIDE DEF f, ids
  <2>4. SumFunctionOnSet(f, ids) = 0 BY <2>1, <2>3, SumZero
  <2> QED BY <2>4, NetIs DEF f
<1> HIDE DEF listed, ids
<1> QED BY <1>1, <1>2, <1>3, <1>4

LEMMA BalancesOver ==
  ASSUME NEW b, HasLines(b), NEW d, NEW S \in SUBSET Accounts
  PROVE  SumFunctionOnSet(BalancesAsOf(b, d), S \cap DOMAIN BalancesAsOf(b, d))
         = SumFunctionOnSet(TrialBalance(b, 0, d), S)
<1> DEFINE f == BalancesAsOf(b, d)
           g == TrialBalance(b, 0, d)
           T == S \cap DOMAIN f
<1>1. /\ DOMAIN f \subseteq Accounts
      /\ \A a \in DOMAIN f : f[a] = g[a]
      /\ \A a \in Accounts \ DOMAIN f : g[a] = 0
  BY BalancesAre
<1>2. \A a \in Accounts : g[a] \in Int BY TrialBalanceIs
<1> HIDE DEF f, g
<1>3. T \in SUBSET S /\ (\A a \in T : f[a] = g[a] /\ g[a] \in Int) /\ (\A a \in S \ T : g[a] = 0)
  BY <1>1, <1>2
<1>4. IsFiniteSet(S) /\ IsFiniteSet(T) BY FinitePositions, FS_Subset
<1> HIDE DEF T
<1>5. SumFunctionOnSet(g, S) = SumFunctionOnSet(g, T) BY <1>3, <1>4, SumWithin
<1>6. SumFunctionOnSet(g, T) = SumFunctionOnSet(f, T) BY <1>3, <1>4, SumSame
<1> QED BY <1>5, <1>6 DEF f, g, T

LEMMA BalancesTotal ==
  ASSUME NEW b, HasLines(b), NEW d, NEW types
  PROVE  SumFunctionOnSet(BalancesAsOf(b, d), {a \in DOMAIN BalancesAsOf(b, d) : TypeOf[a] \in types})
         = Total(b, 0, d, types)
<1>1. DOMAIN BalancesAsOf(b, d) \subseteq Accounts BY BalancesAre
<1>2. {a \in DOMAIN BalancesAsOf(b, d) : TypeOf[a] \in types}
        = AccountsOf(types) \cap DOMAIN BalancesAsOf(b, d)
  BY <1>1 DEF AccountsOf
<1>3. AccountsOf(types) \in SUBSET Accounts BY DEF AccountsOf
<1> QED BY <1>2, <1>3, BalancesOver DEF Total

\* What the sheet adds up for one section.
LEMMA SectionIs ==
  ASSUME NEW b, HasLines(b), NEW d, NEW types, NEW amounts,
         NEW of, of = {a \in DOMAIN BalancesAsOf(b, d) : TypeOf[a] \in types}
  PROVE  /\ Total(b, 0, d, types) \in Int /\ HeldContra(b, d, types) \in Int
         /\ (\A a \in of : amounts[a] =
               IF a \in Contra THEN -BalancesAsOf(b, d)[a] ELSE BalancesAsOf(b, d)[a])
              => SumFunctionOnSet(amounts, of) = Total(b, 0, d, types) - 2 * HeldContra(b, d, types)
         /\ (\A a \in of : amounts[a] =
               IF a \in Contra THEN BalancesAsOf(b, d)[a] ELSE -BalancesAsOf(b, d)[a])
              => SumFunctionOnSet(amounts, of) = -Total(b, 0, d, types) + 2 * HeldContra(b, d, types)
<1> DEFINE f == BalancesAsOf(b, d)
           T == Total(b, 0, d, types)
           C == HeldContra(b, d, types)
           X == {a \in Contra : TypeOf[a] \in types}
           g == [a \in of |-> IF a \in Contra THEN -f[a] ELSE f[a]]
<1>1. DOMAIN f \subseteq Accounts /\ \A a \in DOMAIN f : f[a] \in Int BY BalancesAre, TrialBalanceIs
<1>2. IsFiniteSet(of) /\ \A a \in of : f[a] \in Int BY <1>1, FinitePositions, FS_Subset
<1>3. SumFunctionOnSet(f, of) = T BY BalancesTotal
<1>4. SumFunctionOnSet(f, of \cap Contra) = C
  <2>1. X \in SUBSET Accounts BY FlagAssumption
  <2>2. of \cap Contra = X \cap DOMAIN f OBVIOUS
  <2>3. SumFunctionOnSet(f, X \cap DOMAIN f) = SumFunctionOnSet(TrialBalance(b, 0, d), X)
    BY <2>1, BalancesOver
  <2> QED BY <2>2, <2>3 DEF HeldContra
<1>5. \A a \in of : g[a] = IF a \in Contra THEN -f[a] ELSE f[a] OBVIOUS
<1> HIDE DEF f, T, C, X, g
<1>6. T \in Int /\ C \in Int /\ SumFunctionOnSet(g, of) = T - 2 * C
  <2> DEFINE R == of \cap Contra
  <2>1. /\ R \in SUBSET of /\ \A a \in R : g[a] = -f[a]
        /\ \A a \in of \ R : g[a] = f[a]
    BY <1>5
  <2> HIDE DEF R
  <2>2. /\ SumFunctionOnSet(f, of) \in Int /\ SumFunctionOnSet(f, R) \in Int
        /\ SumFunctionOnSet(g, of) = SumFunctionOnSet(f, of) - 2 * SumFunctionOnSet(f, R)
    BY <1>2, <2>1, SumFlip
  <2> QED BY <1>3, <1>4, <2>2 DEF R
<1>7. ASSUME \A a \in of : amounts[a] = IF a \in Contra THEN -f[a] ELSE f[a]
      PROVE  SumFunctionOnSet(amounts, of) = T - 2 * C
  <2>1. \A a \in of : g[a] \in Int /\ amounts[a] = g[a] BY <1>2, <1>5, <1>7
  <2>2. SumFunctionOnSet(g, of) = SumFunctionOnSet(amounts, of) BY <1>2, <2>1, SumSame
  <2> QED BY <1>6, <2>2
<1>8. ASSUME \A a \in of : amounts[a] = IF a \in Contra THEN f[a] ELSE -f[a]
      PROVE  SumFunctionOnSet(amounts, of) = -T + 2 * C
  <2>1. \A a \in of : g[a] \in Int /\ amounts[a] = -g[a]
    <3> SUFFICES ASSUME NEW a \in of PROVE g[a] \in Int /\ amounts[a] = -g[a] OBVIOUS
    <3>1. /\ f[a] \in Int /\ g[a] = (IF a \in Contra THEN -f[a] ELSE f[a])
          /\ amounts[a] = (IF a \in Contra THEN f[a] ELSE -f[a])
      BY <1>2, <1>5, <1>8
    <3> QED BY <3>1
  <2>2. SumFunctionOnSet(amounts, of) = -SumFunctionOnSet(g, of) BY <1>2, <2>1, SumMinus
  <2> QED BY <1>6, <2>2
<1> QED BY <1>6, <1>7, <1>8 DEF f, T, C

\* The sections of the sheet: an account with the other normal balance counts on the
\* other side.
LEMMA SheetIs ==
  ASSUME NEW b, HasLines(b), NEW d
  PROVE  /\ BalanceSheet(b, d).assets =
              Total(b, 0, d, {"asset"}) - 2 * HeldContra(b, d, {"asset"})
         /\ BalanceSheet(b, d).liabilities =
              -Total(b, 0, d, {"liability"}) + 2 * HeldContra(b, d, {"liability"})
         /\ BalanceSheet(b, d).income = -Total(b, 0, d, {"income", "expense"})
         /\ BalanceSheet(b, d).equity =
              -Total(b, 0, d, {"equity"}) + 2 * HeldContra(b, d, {"equity"})
              - Total(b, 0, d, {"income", "expense"})
         /\ BalanceSheet(b, d).difference = BalanceSheet(b, d).assets
              - BalanceSheet(b, d).liabilities - BalanceSheet(b, d).equity
<1> DEFINE balances == BalancesAsOf(b, d)
           debitNormal(a) == (TypeOf[a] = "asset") # (a \in Contra)
           amounts == [a \in DOMAIN balances |-> IF debitNormal(a) THEN balances[a] ELSE -balances[a]]
           of(types) == {a \in DOMAIN balances : TypeOf[a] \in types}
           N == {"income", "expense"}
           A == {"asset"}
           L == {"liability"}
           Q == {"equity"}
           income == -SumFunctionOnSet(balances, of(N))
           sum(types) == SumFunctionOnSet(amounts, of(types))
<1>1. BalanceSheet(b, d) = [assets |-> sum(A), liabilities |-> sum(L), equity |-> sum(Q) + income,
                            income |-> income,
                            difference |-> sum(A) - sum(L) - (sum(Q) + income)]
  BY DEF BalanceSheet
<1>2. income = -Total(b, 0, d, N) /\ Total(b, 0, d, N) \in Int BY BalancesTotal, TotalInt
<1>3. \A a \in of(A) : amounts[a] = IF a \in Contra THEN -balances[a] ELSE balances[a]
  <2> HIDE DEF balances
  <2> QED OBVIOUS
<1>4. \A types \in {L, Q} : \A a \in of(types) :
        amounts[a] = IF a \in Contra THEN balances[a] ELSE -balances[a]
  <2> HIDE DEF balances
  <2> QED OBVIOUS
<1> HIDE DEF amounts
<1>5. sum(A) = Total(b, 0, d, A) - 2 * HeldContra(b, d, A) BY <1>3, SectionIs
<1>6. sum(L) = -Total(b, 0, d, L) + 2 * HeldContra(b, d, L) BY <1>4, SectionIs
<1>7. sum(Q) = -Total(b, 0, d, Q) + 2 * HeldContra(b, d, Q) BY <1>4, SectionIs
<1>8. Total(b, 0, d, Q) \in Int /\ HeldContra(b, d, Q) \in Int BY SectionIs
<1> HIDE DEF A, L, Q, N, sum, income
<1>9. sum(Q) + income = -Total(b, 0, d, Q) + 2 * HeldContra(b, d, Q) - Total(b, 0, d, N)
  BY <1>2, <1>7, <1>8
<1> QED BY <1>1, <1>2, <1>5, <1>6, <1>9 DEF A, L, Q, N

\* The sections are the whole.
LEMMA TotalSplits ==
  ASSUME NEW b, HasLines(b), NEW from, NEW to
  PROVE  /\ SumFunctionOnSet(TrialBalance(b, from, to), Accounts) =
              Total(b, from, to, {"asset"}) + Total(b, from, to, {"liability"})
              + Total(b, from, to, {"equity"}) + Total(b, from, to, {"income", "expense"})
         /\ Total(b, from, to, {"income", "expense"}) =
              Total(b, from, to, {"income"}) + Total(b, from, to, {"expense"})
<1> DEFINE f == TrialBalance(b, from, to)
           A == AccountsOf({"asset"})
           L == AccountsOf({"liability"})
           Q == AccountsOf({"equity"})
           I == AccountsOf({"income"})
           E == AccountsOf({"expense"})
           N == AccountsOf({"income", "expense"})
<1>1. \A a \in Accounts : f[a] \in Int BY TrialBalanceIs
<1>2. /\ A \subseteq Accounts /\ L \subseteq Accounts /\ Q \subseteq Accounts
      /\ I \subseteq Accounts /\ E \subseteq Accounts
      /\ N = I \cup E /\ I \cap E = {}
      /\ Accounts = A \cup (L \cup (Q \cup N))
      /\ A \cap (L \cup (Q \cup N)) = {} /\ L \cap (Q \cup N) = {} /\ Q \cap N = {}
  <2>1. \A a \in Accounts : TypeOf[a] \in {"asset", "liability", "equity", "income", "expense"}
    BY TypeAssumption
  <2> QED BY <2>1 DEF AccountsOf
<1> HIDE DEF f, A, L, Q, I, E, N
<1>3. /\ IsFiniteSet(A) /\ IsFiniteSet(L) /\ IsFiniteSet(Q) /\ IsFiniteSet(I) /\ IsFiniteSet(E)
      /\ IsFiniteSet(N) /\ IsFiniteSet(Q \cup N) /\ IsFiniteSet(L \cup (Q \cup N))
  BY <1>2, FinitePositions, FS_Subset
<1>4. SumFunctionOnSet(f, I \cup E) = SumFunctionOnSet(f, I) + SumFunctionOnSet(f, E)
  BY <1>1, <1>2, <1>3, SumUnion
<1>5. SumFunctionOnSet(f, Q \cup N) = SumFunctionOnSet(f, Q) + SumFunctionOnSet(f, N)
  BY <1>1, <1>2, <1>3, SumUnion
<1>6. SumFunctionOnSet(f, L \cup (Q \cup N)) = SumFunctionOnSet(f, L) + SumFunctionOnSet(f, Q \cup N)
  BY <1>1, <1>2, <1>3, SumUnion
<1>7. SumFunctionOnSet(f, A \cup (L \cup (Q \cup N))) =
        SumFunctionOnSet(f, A) + SumFunctionOnSet(f, L \cup (Q \cup N))
  BY <1>1, <1>2, <1>3, SumUnion
<1>8. /\ SumFunctionOnSet(f, A) \in Int /\ SumFunctionOnSet(f, L) \in Int
      /\ SumFunctionOnSet(f, Q) \in Int /\ SumFunctionOnSet(f, N) \in Int
  BY <1>1, <1>2, <1>3, SumLaws
<1>9. SumFunctionOnSet(f, Accounts) = SumFunctionOnSet(f, A) + SumFunctionOnSet(f, L)
        + SumFunctionOnSet(f, Q) + SumFunctionOnSet(f, N)
  BY <1>2, <1>5, <1>6, <1>7, <1>8
<1> QED BY <1>2, <1>4, <1>9 DEF Total, f, A, L, Q, I, E, N

\* What the sections hold with the other normal balance.
LEMMA ContraSplits ==
  ASSUME NEW b, HasLines(b), NEW d
  PROVE  HeldContra(b, d, {"asset", "liability", "equity"}) =
           HeldContra(b, d, {"asset"}) + HeldContra(b, d, {"liability"}) + HeldContra(b, d, {"equity"})
<1> DEFINE f == TrialBalance(b, 0, d)
           A == {a \in Contra : TypeOf[a] \in {"asset"}}
           L == {a \in Contra : TypeOf[a] \in {"liability"}}
           Q == {a \in Contra : TypeOf[a] \in {"equity"}}
           all == {a \in Contra : TypeOf[a] \in {"asset", "liability", "equity"}}
<1>1. \A a \in Contra : f[a] \in Int BY FlagAssumption, TrialBalanceIs
<1>2. /\ A \subseteq Contra /\ L \subseteq Contra /\ Q \subseteq Contra
      /\ all = A \cup (L \cup Q) /\ A \cap (L \cup Q) = {} /\ L \cap Q = {}
  OBVIOUS
<1>3. IsFiniteSet(A) /\ IsFiniteSet(L) /\ IsFiniteSet(Q) /\ IsFiniteSet(L \cup Q)
  <2>1. IsFiniteSet(Contra) BY FlagAssumption, FinitePositions, FS_Subset
  <2> QED BY <2>1, FS_Subset
<1> HIDE DEF f, A, L, Q, all
<1>4. SumFunctionOnSet(f, L \cup Q) = SumFunctionOnSet(f, L) + SumFunctionOnSet(f, Q)
  BY <1>1, <1>2, <1>3, SumUnion
<1>5. SumFunctionOnSet(f, A \cup (L \cup Q)) = SumFunctionOnSet(f, A) + SumFunctionOnSet(f, L \cup Q)
  BY <1>1, <1>2, <1>3, SumUnion
<1>6. /\ SumFunctionOnSet(f, A) \in Int /\ SumFunctionOnSet(f, L) \in Int
      /\ SumFunctionOnSet(f, Q) \in Int
  BY <1>1, <1>2, <1>3, SumLaws
<1>7. SumFunctionOnSet(f, all) =
        SumFunctionOnSet(f, A) + SumFunctionOnSet(f, L) + SumFunctionOnSet(f, Q)
  BY <1>2, <1>4, <1>5, <1>6
<1> QED BY <1>7 DEF HeldContra, f, A, L, Q, all

LEMMA SheetDifference ==
  ASSUME NEW b, EvenBook(b), NEW d
  PROVE  BalanceSheet(b, d).difference = -2 * HeldContra(b, d, {"asset", "liability", "equity"})
<1>0. HasLines(b) BY DEF EvenBook
<1> DEFINE A == Total(b, 0, d, {"asset"})
           L == Total(b, 0, d, {"liability"})
           Q == Total(b, 0, d, {"equity"})
           N == Total(b, 0, d, {"income", "expense"})
           x == HeldContra(b, d, {"asset"})
           y == HeldContra(b, d, {"liability"})
           z == HeldContra(b, d, {"equity"})
<1>1. A + L + Q + N = 0 BY <1>0, NetTotal, TotalSplits
<1>2. BalanceSheet(b, d).difference = (A - 2 * x) - (-L + 2 * y) - (-Q + 2 * z - N)
  BY <1>0, SheetIs
<1>3. A \in Int /\ L \in Int /\ Q \in Int /\ N \in Int BY <1>0, TotalInt
<1>4. \A types : HeldContra(b, d, types) \in Int BY <1>0, SectionIs
<1>5. x \in Int /\ y \in Int /\ z \in Int BY <1>4
<1>6. HeldContra(b, d, {"asset", "liability", "equity"}) = x + y + z BY <1>0, ContraSplits
<1> HIDE DEF A, L, Q, N, x, y, z
<1> QED BY <1>1, <1>2, <1>3, <1>5, <1>6

\* A range that is cut in two.
LEMMA TotalAdds ==
  ASSUME NEW b, HasLines(b), \A m \in DOMAIN b : b[m].date \in Int, NEW types,
         NEW r \in Nat, NEW s \in Nat, r < s
  PROVE  Total(b, 0, s, types) = Total(b, 0, r, types) + Total(b, r + 1, s, types)
<1> DEFINE ids == PostedIn(b, 0, r)
           more == PostedIn(b, r + 1, s)
           all == PostedIn(b, 0, s)
           S == AccountsOf(types)
           f == TrialBalance(b, 0, r)
           g == TrialBalance(b, r + 1, s)
           h == TrialBalance(b, 0, s)
<1>1. all = ids \cup more /\ ids \cap more = {}
  <2>1. \A m \in Posted(b) : b[m].date \in Int BY DEF Posted
  <2>2. \A x \in Int : /\ x \in 0 .. s <=> x \in 0 .. r \/ x \in r + 1 .. s
                       /\ ~(x \in 0 .. r /\ x \in r + 1 .. s) OBVIOUS
  <2> QED BY <2>1, <2>2 DEF PostedIn
<1>2. IsFiniteSet(ids) /\ IsFiniteSet(more) BY PostedInBook, FS_Subset DEF HasLines
<1>3. ASSUME NEW a \in Accounts PROVE h[a] = f[a] + g[a] /\ f[a] \in Int /\ g[a] \in Int
  <2> DEFINE F(i) == [m \in i |-> Booked(b[m], a)]
             k == F(all)
  <2>1. \A m \in all : k[m] \in Int BY PostedInBook, BookedInt DEF HasLines
  <2>2. \A m \in ids : k[m] = F(ids)[m] BY <1>1
  <2>3. \A m \in more : k[m] = F(more)[m] BY <1>1
  <2>4. /\ h[a] = SumFunctionOnSet(k, all)
        /\ f[a] = SumFunctionOnSet(F(ids), ids)
        /\ g[a] = SumFunctionOnSet(F(more), more) BY TrialBalanceIs, NetIs
  <2> DEFINE x == F(ids)
             y == F(more)
  <2>5. /\ f[a] = SumFunctionOnSet(x, ids) /\ \A m \in ids : x[m] = k[m]
        /\ g[a] = SumFunctionOnSet(y, more) /\ \A m \in more : y[m] = k[m] BY <2>2, <2>3, <2>4
  <2> HIDE DEF k, x, y, F, ids, more, all, f, g, h
  <2>6. SumFunctionOnSet(k, ids \cup more) = SumFunctionOnSet(k, ids) + SumFunctionOnSet(k, more)
    BY <1>1, <1>2, <2>1, SumUnion
  <2>7. SumFunctionOnSet(k, ids) = SumFunctionOnSet(x, ids) /\ SumFunctionOnSet(k, ids) \in Int
    BY <1>1, <1>2, <2>1, <2>5, SumSame, SumLaws
  <2>8. SumFunctionOnSet(k, more) = SumFunctionOnSet(y, more) /\ SumFunctionOnSet(k, more) \in Int
    BY <1>1, <1>2, <2>1, <2>5, SumSame, SumLaws
  <2> QED BY <1>1, <2>4, <2>5, <2>6, <2>7, <2>8
<1>4. IsFiniteSet(S) /\ S \subseteq Accounts BY FinitePositions, FS_Subset DEF AccountsOf
<1> HIDE DEF f, g, h, S
<1>5. SumFunctionOnSet(h, S) = SumFunctionOnSet(f, S) + SumFunctionOnSet(g, S)
  BY <1>3, <1>4, SumPlus
<1> QED BY <1>5 DEF Total, f, g, h, S

LEMMA IncomeIs ==
  ASSUME NEW b, HasLines(b), NEW from, NEW to
  PROVE  IncomeStatement(b, from, to).net = -Total(b, from, to, {"income", "expense"})
<1> DEFINE rows == TrialBalance(b, from, to)
           of(type) == {a \in Accounts : TypeOf[a] = type}
<1>1. IncomeStatement(b, from, to).net =
        -SumFunctionOnSet(rows, of("income")) - SumFunctionOnSet(rows, of("expense"))
  BY DEF IncomeStatement
<1>2. of("income") = AccountsOf({"income"}) /\ of("expense") = AccountsOf({"expense"})
  BY DEF AccountsOf
<1> DEFINE I == Total(b, from, to, {"income"})
           E == Total(b, from, to, {"expense"})
<1>3. IncomeStatement(b, from, to).net = -I - E BY <1>1, <1>2 DEF Total
<1>4. Total(b, from, to, {"income", "expense"}) = I + E BY TotalSplits
<1>5. I \in Int /\ E \in Int BY TotalInt
<1> HIDE DEF I, E
<1> QED BY <1>3, <1>4, <1>5

-----------------------------------------------------------------------------
\* The invariant.

\* A move as the tables hold it: complete, even, and in a period of a year that exists.
Kept(move, ys) ==
  /\ move = Move(move.state, move.date, move.period, move.lines)
  /\ move.state \in {"draft", "posted"} /\ move.date \in Dates
  /\ move.period \in PeriodIds /\ move.period[1] \in DOMAIN ys
  /\ IsLines(move.lines) /\ IsEven(move.lines)

\* The periods of a closed year are hard closed.
CalendarKept(ys) ==
  /\ DOMAIN ys \subseteq Years
  /\ \A y \in DOMAIN ys :
       /\ ys[y] \in [start : Starts, state : {"open", "closed"}, periods : [1 .. Months -> PeriodStates]]
       /\ ys[y].state = "closed" => \A n \in 1 .. Months : ys[y].periods[n] = "hard_closed"

\* Only the close of a year writes system moves.
BookKept(b, ys) ==
  /\ DOMAIN b \subseteq DraftIds \cup SystemIds
  /\ \A m \in DOMAIN b : Kept(b[m], ys)
  /\ \A y \in Years : <<"closing", y>> \in DOMAIN b => y \in DOMAIN ys /\ ys[y].state = "closed"
  /\ \A y \in Years : y + 1 \in Years /\ <<"opening", y + 1>> \in DOMAIN b =>
       y \in DOMAIN ys /\ ys[y].state = "closed"

RequestsKept(q, b, ys) ==
  /\ DOMAIN q \subseteq DraftIds /\ DOMAIN q \cap DOMAIN b = {}
  /\ \A m \in DOMAIN q : Kept(q[m], ys) /\ q[m].state = "draft"

FiscalInv ==
  CalendarKept(years) /\ BookKept(book, years) /\ RequestsKept(requests, book, years)

LEMMA LastStart == Max(Starts) \in Starts /\ \A x \in Starts : Max(Starts) >= x
<1> DEFINE F == {T \in SUBSET Starts : T = {} \/ \E x \in T : \A y \in T : x >= y}
<1>1. Starts \subseteq Nat /\ IsFiniteSet(Starts) /\ Starts # {} BY BoundAssumption
<1>2. {} \in F OBVIOUS
<1>3. ASSUME NEW T \in SUBSET Starts, NEW z \in Starts \ T, T \in F PROVE T \cup {z} \in F
  <2>1. CASE T = {}
    <3>1. \A y \in T \cup {z} : z >= y BY <1>1, <2>1
    <3> QED BY <3>1
  <2>2. CASE T # {}
    <3>1. PICK x \in T : \A y \in T : x >= y BY <1>3, <2>2
    <3>2. CASE x >= z
      <4>1. \A y \in T \cup {z} : x >= y BY <3>1, <3>2
      <4> QED BY <4>1
    <3>3. CASE z >= x
      <4>1. \A y \in T \cup {z} : z >= y BY <1>1, <3>1, <3>3
      <4> QED BY <4>1
    <3> QED BY <1>1, <3>2, <3>3
  <2> QED BY <2>1, <2>2
<1> HIDE DEF F
<1>4. Starts \in F BY <1>1, <1>2, <1>3, FiniteInduction
<1>5. \E x \in Starts : \A y \in Starts : x >= y BY <1>1, <1>4 DEF F
<1> QED BY <1>5 DEF Max

LEMMA DatesAre ==
  /\ Dates \subseteq Nat
  /\ \A s \in Starts : \A n \in 1 .. Months : s + n - 1 \in Dates
  /\ \A s \in Starts : s \in Dates /\ s + Months - 1 \in Dates
<1>1. Max(Starts) \in Nat /\ \A s \in Starts : s \in Nat /\ Max(Starts) >= s BY LastStart, BoundAssumption
<1>2. Months \in Nat \ {0} BY YearAssumption
<1> QED BY <1>1, <1>2 DEF Dates

LEMMA FiniteBook ==
  ASSUME NEW b, NEW ys, BookKept(b, ys)
  PROVE  EvenBook(b) /\ HasLines(b) /\ \A m \in DOMAIN b : b[m].date \in Int
<1>1. IsFiniteSet(DraftIds) BY BoundAssumption
<1>2. IsFiniteSet(SystemIds)
  <2>1. IsFiniteSet(Years) BY YearAssumption, FS_Interval DEF Years
  <2>2. IsFiniteSet({"closing", "opening"})
    <3>1. IsFiniteSet({"closing"}) BY FS_Singleton
    <3>2. {"closing", "opening"} = {"closing"} \cup {"opening"} OBVIOUS
    <3> QED BY <3>1, <3>2, FS_AddElement
  <2> QED BY <2>1, <2>2, FS_Product DEF SystemIds
<1>3. IsFiniteSet(DOMAIN b) BY <1>1, <1>2, FS_Union, FS_Subset DEF BookKept
<1>4. \A m \in DOMAIN b : b[m].date \in Dates /\ IsLines(b[m].lines) /\ IsEven(b[m].lines)
  BY DEF BookKept, Kept
<1>5. HasLines(b) BY <1>3, <1>4 DEF HasLines
<1>6. \A x \in Dates : x \in Int BY DatesAre
<1> QED BY <1>4, <1>5, <1>6 DEF EvenBook

LEMMA SumOfInt ==
  ASSUME NEW b, HasLines(b), NEW d, NEW p, NEW field \in {"net", "foreign"}
  PROVE  SumOf(b, d, p, field) \in Int
<1> DEFINE touching == {m \in PostedIn(b, 0, d) : p \in DOMAIN b[m].lines}
           f == [m \in touching |-> b[m].lines[p][field]]
<1>1. IsFiniteSet(touching) BY PostedInBook, FS_Subset DEF HasLines
<1>2. ASSUME NEW m \in touching PROVE f[m] \in Int
  <2>1. IsLines(b[m].lines) /\ p \in DOMAIN b[m].lines BY PostedInBook DEF HasLines
  <2>2. b[m].lines[p] \in Entry BY <2>1 DEF IsLines
  <2> QED BY <2>2 DEF Entry
<1>3. SumOf(b, d, p, field) = SumFunction(f) BY DEF SumOf
<1>4. DOMAIN f = touching OBVIOUS
<1> HIDE DEF f, touching
<1>5. SumFunction(f) = SumFunctionOnSet(f, touching) BY <1>4, SumFunctionIs
<1> QED BY <1>1, <1>2, <1>3, <1>5, SumLaws

-----------------------------------------------------------------------------
\* The entries the system makes.

\* Lines in the functional currency, one for each account.
LocalPositions(touched) == touched \X {Functional}

LEMMA OneLineEach ==
  ASSUME NEW touched \in SUBSET Accounts, NEW net, \A a \in touched : net[a] \in Int,
         NEW l, DOMAIN l = LocalPositions(touched),
         \A q \in DOMAIN l : l[q].net = net[q[1]] /\ l[q] \in Entry
  PROVE  /\ IsLines(l)
         /\ \A move : move.lines = l => \A a \in Accounts :
              Booked(move, a) = IF a \in touched THEN net[a] ELSE 0
         /\ SumFunction(Nets(l)) = SumFunctionOnSet(net, touched)
<1>0. DOMAIN l = touched \X {Functional} BY DEF LocalPositions
<1>1. IsLines(l) BY <1>0, FXAssumption DEF IsLines, Positions
<1> DEFINE f == Nets(l)
<1>2. DOMAIN f = DOMAIN l /\ \A q \in DOMAIN l : f[q] = net[q[1]] BY DEF Nets
<1> HIDE DEF f
<1>3. ASSUME NEW move, move.lines = l, NEW a \in Accounts
      PROVE  Booked(move, a) = IF a \in touched THEN net[a] ELSE 0
  <2> DEFINE on == {q \in DOMAIN l : q[1] = a}
  <2>1. Booked(move, a) = SumFunctionOnSet(f, on) BY <1>3 DEF Booked, f
  <2>2. CASE a \in touched
    <3>1. on = {<<a, Functional>>} BY <1>0, <2>2
    <3>2. f[<<a, Functional>>] = net[a] /\ net[a] \in Int BY <1>0, <1>2, <2>2
    <3> QED BY <2>1, <2>2, <3>1, <3>2, SumSingle
  <2>3. CASE a \notin touched
    <3>1. on = {} BY <1>0, <2>3
    <3> QED BY <2>1, <2>3, <3>1, SumEmpty
  <2> QED BY <2>2, <2>3
<1>4. SumFunction(Nets(l)) = SumFunctionOnSet(net, touched)
  <2> DEFINE move == [lines |-> l]
             g == [a \in Accounts |-> Booked(move, a)]
  <2>1. move.lines = l OBVIOUS
  <2>2. \A a \in Accounts : g[a] = IF a \in touched THEN net[a] ELSE 0 BY <1>3, <2>1
  <2>3. SumFunctionOnSet(g, Accounts) = SumFunction(Nets(l)) BY <1>1, <2>1, BookedTotal
  <2> HIDE DEF g
  <2>4. (\A a \in touched : g[a] \in Int /\ g[a] = net[a]) /\ \A a \in Accounts \ touched : g[a] = 0
    BY <2>2
  <2>5. SumFunctionOnSet(g, Accounts) = SumFunctionOnSet(g, touched)
    BY <2>4, FinitePositions, SumWithin
  <2>6. IsFiniteSet(touched) BY FinitePositions, FS_Subset
  <2>7. SumFunctionOnSet(g, touched) = SumFunctionOnSet(net, touched) BY <2>4, <2>6, SumSame
  <2> QED BY <2>3, <2>5, <2>7
<1> QED BY <1>1, <1>3, <1>4

\* The closing entry moves the nominal balances, and nothing else but the retained earnings.
LEMMA ClosingIs ==
  ASSUME HasLines(book), NEW end, NEW retained \in Accounts \ Nominal
  PROVE  LET l == ClosingLines(end, retained)
             N == Total(book, 0, end, {"income", "expense"})
         IN /\ IsLines(l)
            /\ N \in Int
            /\ \A move : move.lines = l => \A a \in Accounts :
                 Booked(move, a) = IF a \in Nominal THEN -TrialBalance(book, 0, end)[a]
                                   ELSE IF a = retained THEN N ELSE 0
<1> DEFINE ids == PostedIn(book, 0, end)
           balance == [a \in Nominal |-> Net(book, ids, a)]
           closed == {a \in Nominal : balance[a] # 0}
           result == SumFunctionOnSet(balance, closed)
           touched == closed \cup (IF result = 0 THEN {} ELSE {retained})
           net == [a \in touched |-> IF a = retained THEN result ELSE -balance[a]]
           l == ClosingLines(end, retained)
           N == Total(book, 0, end, {"income", "expense"})
<1>1. l = [p \in touched \X {Functional} |->
             [net |-> IF p[1] = retained THEN result ELSE -balance[p[1]], foreign |-> 0]]
  BY DEF ClosingLines
<1>2. ASSUME NEW a \in Nominal
      PROVE  balance[a] = TrialBalance(book, 0, end)[a] /\ balance[a] \in Int
  BY TrialBalanceIs DEF Nominal
<1>3. closed \subseteq Nominal /\ Nominal \subseteq Accounts BY DEF Nominal
<1>4. IsFiniteSet(Nominal) /\ IsFiniteSet(closed) BY <1>3, FinitePositions, FS_Subset
<1>5. result = N /\ result \in Int
  <2> DEFINE f == TrialBalance(book, 0, end)
  <2>1. (\A a \in closed : balance[a] \in Int) /\ \A a \in Nominal \ closed : balance[a] = 0
    <3>1. \A a \in Nominal \ closed : balance[a] = 0 OBVIOUS
    <3> HIDE DEF balance
    <3> QED BY <1>2, <1>3, <3>1
  <2>2. \A a \in Nominal : balance[a] \in Int /\ f[a] = balance[a] BY <1>2
  <2>3. Nominal = AccountsOf({"income", "expense"}) BY DEF Nominal, AccountsOf
  <2> HIDE DEF balance, closed, f
  <2>4. SumFunctionOnSet(balance, Nominal) = SumFunctionOnSet(balance, closed)
    BY <1>3, <1>4, <2>1, SumWithin
  <2>5. SumFunctionOnSet(balance, Nominal) = SumFunctionOnSet(f, Nominal)
    BY <1>4, <2>2, SumSame
  <2>6. SumFunctionOnSet(balance, closed) \in Int BY <1>4, <2>1, SumLaws
  <2> QED BY <2>3, <2>4, <2>5, <2>6 DEF Total, f
<1> HIDE DEF result, N, balance
<1>6. touched \in SUBSET Accounts BY <1>3
<1>7. \A a \in touched : net[a] = (IF a = retained THEN result ELSE -balance[a]) /\ net[a] \in Int
  BY <1>2, <1>3, <1>5
<1>8. DOMAIN l = touched \X {Functional} BY <1>1
<1>9. \A q \in DOMAIN l : q[1] \in touched /\ l[q].net = net[q[1]] /\ l[q] \in Entry
  <2> SUFFICES ASSUME NEW q \in DOMAIN l
               PROVE  q[1] \in touched /\ l[q].net = net[q[1]] /\ l[q] \in Entry OBVIOUS
  <2>1. q[1] \in touched BY <1>8
  <2>2. l[q] = [net |-> net[q[1]], foreign |-> 0] BY <1>1, <1>8, <2>1
  <2> HIDE DEF net, touched, l
  <2> QED BY <1>7, <2>1, <2>2 DEF Entry
<1>11. \A a \in Nominal : balance[a] # 0 => a \in closed OBVIOUS
<1>12. retained \notin closed /\ (retained \in touched <=> result # 0) BY <1>3
<1>13. \A a \in touched : a \in closed \/ a = retained OBVIOUS
<1> HIDE DEF net, touched, l
<1>10. /\ IsLines(l)
       /\ \A move : move.lines = l => \A a \in Accounts :
            Booked(move, a) = IF a \in touched THEN net[a] ELSE 0
  <2>1. \A a \in touched : net[a] \in Int BY <1>7
  <2>2. \A q \in DOMAIN l : l[q].net = net[q[1]] /\ l[q] \in Entry BY <1>9
  <2>0. DOMAIN l = LocalPositions(touched) BY <1>8 DEF LocalPositions
  <2>3. IsLines(l) BY <1>6, <2>1, <2>0, <2>2, OneLineEach
  <2>4. ASSUME NEW move, move.lines = l, NEW a \in Accounts
        PROVE  Booked(move, a) = IF a \in touched THEN net[a] ELSE 0
    BY <1>6, <2>1, <2>0, <2>2, <2>4, OneLineEach
  <2> QED BY <2>3, <2>4
<1>14. ASSUME NEW a \in Accounts
       PROVE  (IF a \in touched THEN net[a] ELSE 0) =
                IF a \in Nominal THEN -balance[a] ELSE IF a = retained THEN N ELSE 0
  <2>1. CASE a \in Nominal BY <2>1, <1>2, <1>7, <1>11 DEF touched
  <2>2. CASE a = retained BY <2>2, <1>5, <1>7, <1>12
  <2>3. CASE a \notin Nominal /\ a # retained BY <2>3, <1>3, <1>13
  <2> QED BY <2>1, <2>2, <2>3
<1>15. ASSUME NEW move, move.lines = l, NEW a \in Accounts
       PROVE  Booked(move, a) = IF a \in Nominal THEN -TrialBalance(book, 0, end)[a]
                                ELSE IF a = retained THEN N ELSE 0
  BY <1>2, <1>10, <1>14, <1>15
<1> QED BY <1>5, <1>10, <1>15 DEF l, N

LEMMA OpeningIs ==
  ASSUME NEW b, HasLines(b), NEW end
  PROVE  IsLines(OpeningLines(b, end))
<1> DEFINE S == {p \in Permanent \X Currencies :
                   SumOf(b, end, p, "net") # 0 \/ SumOf(b, end, p, "foreign") # 0}
           l == OpeningLines(b, end)
<1>1. l = [p \in S |-> [net |-> SumOf(b, end, p, "net"), foreign |-> SumOf(b, end, p, "foreign")]]
  BY DEF OpeningLines
<1>2. S \subseteq Positions BY DEF Positions, Permanent
<1>3. \A p \in S : SumOf(b, end, p, "net") \in Int /\ SumOf(b, end, p, "foreign") \in Int
  BY SumOfInt
<1> HIDE DEF S, l
<1> QED BY <1>1, <1>2, <1>3 DEF IsLines, Entry, l

\* What the revalued positions gain or lose goes to the two configured accounts.
LEMMA RevaluationIs ==
  ASSUME HasLines(book), NEW d \in Dates,
         \A p \in MonetaryPositions(d) : TypeOf[p[1]] \in {"asset", "liability"}
  PROVE  IsLines(RevaluationLines(d)) /\ IsEven(RevaluationLines(d))
<1> DEFINE P == MonetaryPositions(d)
           delta == [p \in P |->
                      RateOn[d] * SumOf(book, d, p, "foreign") - SumOf(book, d, p, "net")]
           ups == {p \in P : delta[p] > 0}
           downs == {p \in P : delta[p] < 0}
           U == ups \cup downs
           gained == SumFunctionOnSet(delta, ups)
           lost == SumFunctionOnSet(delta, downs)
           net == [a \in Accounts |->
                    CASE a = Gain -> -gained
                      [] a = Loss -> -lost
                      [] OTHER -> SumFunctionOnSet(delta, {p \in U : p[1] = a})]
           ons == {p[1] : p \in U}
           touched == ons \cup (IF ups = {} THEN {} ELSE {Gain}) \cup (IF downs = {} THEN {} ELSE {Loss})
           l == RevaluationLines(d)
<1>1. Gain \in Accounts /\ Loss \in Accounts /\ Gain # Loss BY FXAssumption
<1>2. P \subseteq Positions /\ IsFiniteSet(P) BY FinitePositions, FS_Subset DEF MonetaryPositions
<1>3. \A p \in P : p[1] \in Accounts /\ p[1] # Gain /\ p[1] # Loss
  BY <1>2, FXAssumption DEF Positions
<1>4. touched \in SUBSET Accounts BY <1>1, <1>3
<1>5. DOMAIN delta = P /\ \A p \in P : delta[p] \in Int
  <2>1. RateOn[d] \in Nat BY FXAssumption
  <2>2. \A p \in P : SumOf(book, d, p, "foreign") \in Int /\ SumOf(book, d, p, "net") \in Int
    BY SumOfInt
  <2> HIDE DEF P
  <2> QED BY <2>1, <2>2
<1>6. l = [q \in touched \X {Functional} |-> [net |-> net[q[1]], foreign |-> net[q[1]]]]
  <2>1. \A q \in touched \X {Functional} : q[1] \in Accounts BY <1>4
  <2>2. DOMAIN delta = P OBVIOUS
  <2> DEFINE amount(a) == CASE a = Gain -> -gained
                            [] a = Loss -> -lost
                            [] OTHER -> SumFunctionOnSet(delta, {p \in U : p[1] = a})
  <2>3. l = [q \in touched \X {Functional} |-> [net |-> amount(q[1]), foreign |-> amount(q[1])]]
    BY <2>2 DEF RevaluationLines
  <2>4. \A a \in Accounts : net[a] = amount(a) OBVIOUS
  <2> HIDE DEF amount, net, touched, l
  <2> QED BY <2>1, <2>3, <2>4
<1>7. U \subseteq P /\ ups \cap downs = {} /\ IsFiniteSet(U) /\ IsFiniteSet(ups) /\ IsFiniteSet(downs)
  <2>1. U \subseteq P /\ ups \subseteq P /\ downs \subseteq P OBVIOUS
  <2>2. ups \cap downs = {}
    <3> HIDE DEF delta, P
    <3> QED BY <1>5
  <2> HIDE DEF U, ups, downs, P
  <2> QED BY <1>2, <2>1, <2>2, FS_Subset
<1>8. gained \in Int /\ lost \in Int /\ SumFunctionOnSet(delta, U) = gained + lost
  <2>1. \A p \in ups \cup downs : delta[p] \in Int
    <3> HIDE DEF delta, P
    <3> QED BY <1>5
  <2> HIDE DEF delta, ups, downs
  <2> QED BY <1>7, <2>1, SumUnion, SumLaws
<1> DEFINE k == [p \in U |-> [net |-> delta[p], foreign |-> 0]]
           one == [lines |-> k]
           h1 == [a \in Accounts |-> Booked(one, a)]
           h2 == [a \in Accounts |-> IF a = Gain THEN -gained ELSE IF a = Loss THEN -lost ELSE 0]
           g == [a \in Accounts |-> IF a \in touched THEN net[a] ELSE 0]
<1>9. \A p \in U : p \in Positions /\ delta[p] \in Int
  <2> HIDE DEF delta, P, U
  <2> QED BY <1>2, <1>5, <1>7
<1>10. IsLines(one.lines)
  <2> HIDE DEF delta, U
  <2> QED BY <1>9 DEF IsLines, Entry
<1>11. DOMAIN Nets(k) = U /\ \A p \in U : Nets(k)[p] = delta[p]
  <2> HIDE DEF delta, U
  <2> QED BY DEF Nets
<1>12. SumFunctionOnSet(h1, Accounts) = gained + lost
  <2>1. SumFunctionOnSet(h1, Accounts) = SumFunction(Nets(k))
    <3>1. one.lines = k OBVIOUS
    <3> HIDE DEF k, one
    <3> QED BY <1>10, <3>1, BookedTotal
  <2> HIDE DEF h1, k, delta, U, gained, lost
  <2>2. SumFunction(Nets(k)) = SumFunctionOnSet(Nets(k), U) BY <1>11, SumFunctionIs
  <2>3. SumFunctionOnSet(Nets(k), U) = SumFunctionOnSet(delta, U)
    BY <1>7, <1>9, <1>11, SumSame
  <2> QED BY <1>8, <2>1, <2>2, <2>3
<1>13. ASSUME NEW a \in Accounts
       PROVE  /\ h1[a] \in Int
              /\ a \notin ons => h1[a] = 0
              /\ h1[a] = SumFunctionOnSet(delta, {p \in U : p[1] = a})
  <2>1. h1[a] = Booked(one, a) OBVIOUS
  <2>2. a \notin ons => ~Touches(one, a)
    <3>1. DOMAIN one.lines = U OBVIOUS
    <3> HIDE DEF one, U
    <3> QED BY <3>1 DEF Touches
  <2>3. Booked(one, a) \in Int /\ (~Touches(one, a) => Booked(one, a) = 0) BY <1>10, BookedInt
  <2> DEFINE on == {p \in U : p[1] = a}
  <2>4. Booked(one, a) = SumFunctionOnSet(Nets(k), on) BY DEF Booked
  <2>5. IsFiniteSet(on) /\ on \subseteq U BY <1>7, FS_Subset
  <2> HIDE DEF k, delta, U, h1, ons, one, on
  <2>6. SumFunctionOnSet(Nets(k), on) = SumFunctionOnSet(delta, on)
    BY <1>9, <1>11, <2>5, SumSame
  <2> QED BY <2>1, <2>2, <2>3, <2>4, <2>6 DEF on
<1>14. ASSUME NEW a \in Accounts PROVE net[a] \in Int
  <2>1. net[a] = CASE a = Gain -> -gained [] a = Loss -> -lost
                   [] OTHER -> SumFunctionOnSet(delta, {p \in U : p[1] = a}) OBVIOUS
  <2> HIDE DEF net, gained, lost, U, delta, h1
  <2> QED BY <1>8, <1>13, <2>1
<1>15. Gain \notin ons /\ Loss \notin ons /\ (Gain \notin touched => gained = 0)
       /\ (Loss \notin touched => lost = 0)
       /\ (\A a \in Accounts : a # Gain /\ a # Loss => (a \in touched <=> a \in ons))
  <2>1. Gain \notin ons /\ Loss \notin ons
    <3> HIDE DEF U, P
    <3> QED BY <1>3, <1>7
  <2>2. (Gain \notin touched => ups = {}) /\ (Loss \notin touched => downs = {})
    <3> HIDE DEF ups, downs, ons
    <3> QED OBVIOUS
  <2>3. (ups = {} => gained = 0) /\ (downs = {} => lost = 0)
    <3> HIDE DEF ups, downs, delta
    <3> QED BY SumEmpty
  <2>4. \A a \in Accounts : a # Gain /\ a # Loss => (a \in touched <=> a \in ons)
    <3> HIDE DEF ups, downs, ons
    <3> QED OBVIOUS
  <2> HIDE DEF ons, touched, gained, lost, ups, downs
  <2> QED BY <2>1, <2>2, <2>3, <2>4
<1>16. ASSUME NEW a \in Accounts PROVE g[a] = h1[a] + h2[a] /\ h2[a] \in Int
  <2>1. net[a] = CASE a = Gain -> -gained [] a = Loss -> -lost
                   [] OTHER -> SumFunctionOnSet(delta, {p \in U : p[1] = a}) OBVIOUS
  <2>2. g[a] = (IF a \in touched THEN net[a] ELSE 0)
        /\ h2[a] = IF a = Gain THEN -gained ELSE IF a = Loss THEN -lost ELSE 0 OBVIOUS
  <2>3. /\ h1[a] \in Int /\ (a \notin ons => h1[a] = 0)
        /\ h1[a] = SumFunctionOnSet(delta, {p \in U : p[1] = a}) BY <1>13
  <2> HIDE DEF net, gained, lost, U, delta, h1, h2, g, ons, touched
  <2>4. CASE a = Gain BY <1>1, <1>8, <1>15, <2>1, <2>2, <2>3, <2>4
  <2>5. CASE a = Loss BY <1>1, <1>8, <1>15, <2>1, <2>2, <2>3, <2>5
  <2>6. CASE a # Gain /\ a # Loss BY <1>15, <2>1, <2>2, <2>3, <2>6
  <2> QED BY <2>4, <2>5, <2>6
<1>17. SumFunctionOnSet(h2, Accounts) = -gained - lost
  <2> DEFINE S == {Gain} \cup {Loss}
  <2>0. h2[Gain] = -gained /\ h2[Loss] = -lost /\ \A a \in Accounts \ S : h2[a] = 0 BY <1>1
  <2> HIDE DEF h2, gained, lost, h1, g, k, net, touched, ons, U, ups, downs, delta, P
  <2>1. /\ h2[Gain] = -gained /\ h2[Loss] = -lost /\ \A a \in Accounts \ S : h2[a] = 0
        /\ h2[Gain] \in Int /\ h2[Loss] \in Int BY <1>8, <2>0
  <2>2. S \in SUBSET Accounts /\ \A a \in S : h2[a] \in Int BY <1>1, <1>8, <2>1
  <2>3. SumFunctionOnSet(h2, Accounts) = SumFunctionOnSet(h2, S)
    <3> HIDE DEF S
    <3> QED BY <2>1, <2>2, FinitePositions, SumWithin
  <2>4. IsFiniteSet({Gain}) BY FS_Singleton
  <2>5. SumFunctionOnSet(h2, {Gain} \cup {Loss}) = h2[Loss] + SumFunctionOnSet(h2, {Gain})
    <3>1. Loss \notin {Gain} /\ \A y \in {Gain} : h2[y] \in Int BY <1>1, <2>1
    <3> QED BY <2>1, <2>4, <3>1, SumAdds
  <2>6. SumFunctionOnSet(h2, {Gain}) = h2[Gain] BY <2>1, SumSingle
  <2>7. SumFunctionOnSet(h2, Accounts) = h2[Loss] + h2[Gain]
    <3>1. SumFunctionOnSet(h2, S) = h2[Loss] + SumFunctionOnSet(h2, {Gain}) BY <2>5
    <3> HIDE DEF S
    <3> QED BY <2>3, <2>6, <3>1
  <2> QED BY <1>8, <2>1, <2>7
<1>18. SumFunctionOnSet(g, Accounts) = 0
  <2>0. \A a \in Accounts : h1[a] \in Int /\ h2[a] \in Int /\ g[a] = h1[a] + h2[a] BY <1>13, <1>16
  <2> HIDE DEF g, h1, h2, gained, lost
  <2>1. SumFunctionOnSet(g, Accounts) = SumFunctionOnSet(h1, Accounts) + SumFunctionOnSet(h2, Accounts)
    BY <2>0, FinitePositions, SumPlus
  <2> QED BY <1>8, <1>12, <1>17, <2>1
<1>19. SumFunctionOnSet(net, touched) = 0
  <2>1. \A a \in Accounts : g[a] = IF a \in touched THEN net[a] ELSE 0 OBVIOUS
  <2> HIDE DEF g, net, touched
  <2>2. IsFiniteSet(touched) BY <1>4, FinitePositions, FS_Subset
  <2>3. (\A a \in touched : g[a] \in Int /\ net[a] = g[a]) /\ \A a \in Accounts \ touched : g[a] = 0
    BY <1>4, <1>14, <2>1
  <2>4. SumFunctionOnSet(g, Accounts) = SumFunctionOnSet(g, touched)
    BY <1>4, <2>3, FinitePositions, SumWithin
  <2>5. SumFunctionOnSet(g, touched) = SumFunctionOnSet(net, touched) BY <2>2, <2>3, SumSame
  <2> QED BY <1>18, <2>4, <2>5
<1>20. IsLines(l) /\ SumFunction(Nets(l)) = SumFunctionOnSet(net, touched)
  <2> HIDE DEF net, touched, l
  <2>1. DOMAIN l = LocalPositions(touched) BY <1>6 DEF LocalPositions
  <2>2. \A a \in touched : net[a] \in Int BY <1>4, <1>14
  <2>3. \A q \in DOMAIN l : l[q].net = net[q[1]] /\ l[q] \in Entry
    <3> SUFFICES ASSUME NEW q \in DOMAIN l PROVE l[q].net = net[q[1]] /\ l[q] \in Entry OBVIOUS
    <3>1. q[1] \in touched /\ l[q] = [net |-> net[q[1]], foreign |-> net[q[1]]] BY <1>6
    <3> QED BY <2>2, <3>1 DEF Entry
  <2> QED BY <1>4, <2>1, <2>2, <2>3, OneLineEach
<1> HIDE DEF l, net, touched
<1> QED BY <1>19, <1>20 DEF IsEven, l

-----------------------------------------------------------------------------
\* Every action keeps the invariant.

LEMMA PutIs ==
  ASSUME NEW f, NEW x, NEW value
  PROVE  /\ DOMAIN Put(f, x, value) = DOMAIN f \cup {x}
         /\ Put(f, x, value)[x] = value
         /\ \A y \in DOMAIN f \ {x} : Put(f, x, value)[y] = f[y]
BY DEF Put

LEMMA PutNew ==
  ASSUME NEW f, NEW x, x \notin DOMAIN f, NEW value
  PROVE  /\ DOMAIN Put(f, x, value) = DOMAIN f \cup {x}
         /\ Put(f, x, value)[x] = value
         /\ \A y \in DOMAIN f : Put(f, x, value)[y] = f[y]
BY DEF Put

LEMMA DropIs ==
  ASSUME NEW f, NEW x
  PROVE  DOMAIN Drop(f, x) = DOMAIN f \ {x} /\ \A y \in DOMAIN f \ {x} : Drop(f, x)[y] = f[y]
BY DEF Drop

LEMMA SystemIdsApart ==
  \A m \in DraftIds : \A y \in Years : m # <<"closing", y>> /\ m # <<"opening", y>>
BY DraftAssumption

LEMMA CalendarGrows ==
  ASSUME NEW ys, NEW zs, DOMAIN ys \subseteq DOMAIN zs,
         \A y \in DOMAIN ys : ys[y].state = "closed" => zs[y].state = "closed"
  PROVE  /\ \A b : BookKept(b, ys) => BookKept(b, zs)
         /\ \A b, q : RequestsKept(q, b, ys) => RequestsKept(q, b, zs)
BY DEF BookKept, RequestsKept, Kept

LEMMA CreateYearKeeps ==
  ASSUME FiscalInv, NEW y \in Years, NEW start \in Starts, CreateFiscalYear(y, start)
  PROVE  FiscalInv'
<1> DEFINE row == [start |-> start, state |-> "open", periods |-> [n \in 1 .. Months |-> "open"]]
<1>1. /\ y \notin DOMAIN years /\ years' = Put(years, y, row)
      /\ book' = book /\ requests' = requests BY DEF CreateFiscalYear
<1>2. row \in [start : Starts, state : {"open", "closed"}, periods : [1 .. Months -> PeriodStates]]
      /\ row.state = "open" BY DEF PeriodStates
<1> HIDE DEF row
<1>3. /\ DOMAIN years' = DOMAIN years \cup {y} /\ years'[y] = row
      /\ \A z \in DOMAIN years : years'[z] = years[z] BY <1>1 DEF Put
<1>4. CalendarKept(years') BY <1>2, <1>3 DEF FiscalInv, CalendarKept
<1>5. BookKept(book', years') BY <1>1, <1>3, CalendarGrows DEF FiscalInv
<1>6. RequestsKept(requests', book', years') BY <1>1, <1>3, CalendarGrows DEF FiscalInv
<1> QED BY <1>4, <1>5, <1>6 DEF FiscalInv

LEMMA ChangePeriodKeeps ==
  ASSUME FiscalInv, NEW y \in Years, NEW n \in 1 .. Months, NEW s, ChangePeriodState(y, n, s)
  PROVE  FiscalInv'
<1> DEFINE R == [start : Starts, state : {"open", "closed"}, periods : [1 .. Months -> PeriodStates]]
<1>1. /\ y \in DOMAIN years /\ years[y].state = "open" /\ s \in PeriodStates
      /\ years' = [years EXCEPT ![y].periods[n] = s]
      /\ book' = book /\ requests' = requests
  BY DEF ChangePeriodState, PeriodStep, PeriodStates
<1>2. /\ DOMAIN years' = DOMAIN years
      /\ years'[y] = [years[y] EXCEPT !.periods = [@ EXCEPT ![n] = s]]
      /\ \A z \in DOMAIN years : z # y => years'[z] = years[z] BY <1>1
<1>3. years[y] \in R BY <1>1 DEF FiscalInv, CalendarKept
<1>4. years'[y] \in R /\ years'[y].state = "open" BY <1>1, <1>2, <1>3
<1>5. CalendarKept(years') BY <1>1, <1>2, <1>4 DEF FiscalInv, CalendarKept
<1>6. \A z \in DOMAIN years : years[z].state = "closed" => years'[z].state = "closed" BY <1>1, <1>2
<1>7. BookKept(book', years') BY <1>1, <1>2, <1>6, CalendarGrows DEF FiscalInv
<1>8. RequestsKept(requests', book', years') BY <1>1, <1>2, <1>6, CalendarGrows DEF FiscalInv
<1> QED BY <1>5, <1>7, <1>8 DEF FiscalInv

LEMMA PrepareKeeps ==
  ASSUME FiscalInv, NEW m \in DraftIds, NEW d, NEW lines, IsLines(lines), IsEven(lines),
         Prepare(m, d, lines)
  PROVE  FiscalInv'
<1>1. /\ m \notin DOMAIN book /\ m \notin DOMAIN requests
      /\ years' = years /\ book' = book BY DEF Prepare
<1>2. PICK p \in PeriodsOf(d) : requests' = Put(requests, m, Move("draft", d, p, lines))
  BY DEF Prepare
<1> DEFINE move == Move("draft", d, p, lines)
<1>3. p[1] \in DOMAIN years /\ p \in PeriodIds /\ d \in Dates
  <2>1. p \in (DOMAIN years) \X (1 .. Months) /\ years[p[1]].start + p[2] - 1 = d BY DEF PeriodsOf
  <2>2. p[1] \in DOMAIN years /\ p[2] \in 1 .. Months BY <2>1
  <2>3. years[p[1]].start \in Starts /\ DOMAIN years \subseteq Years
    BY <2>2 DEF FiscalInv, CalendarKept
  <2> QED BY <2>1, <2>2, <2>3, DatesAre DEF PeriodIds
<1>4. Kept(move, years) /\ move.state = "draft" BY <1>3 DEF Kept, Move
<1> HIDE DEF move
<1>5. /\ DOMAIN requests' = DOMAIN requests \cup {m} /\ requests'[m] = move
      /\ \A x \in DOMAIN requests : requests'[x] = requests[x] BY <1>1, <1>2 DEF Put, move
<1>6. RequestsKept(requests', book', years') BY <1>1, <1>4, <1>5 DEF FiscalInv, RequestsKept
<1> QED BY <1>1, <1>6 DEF FiscalInv

LEMMA RevalueKeeps ==
  ASSUME FiscalInv, NEW m \in DraftIds, NEW d, RevalueFX(m, d)
  PROVE  FiscalInv'
<1>1. HasLines(book) BY FiniteBook DEF FiscalInv
<1>2. PICK p \in PeriodsOf(d) : TRUE BY DEF RevalueFX, Prepare
<1>3. d \in Dates
  <2>1. p \in (DOMAIN years) \X (1 .. Months) /\ years[p[1]].start + p[2] - 1 = d BY DEF PeriodsOf
  <2>2. p[2] \in 1 .. Months /\ years[p[1]].start \in Starts
    BY <2>1 DEF FiscalInv, CalendarKept
  <2> QED BY <2>1, <2>2, DatesAre
<1>4. IsLines(RevaluationLines(d)) /\ IsEven(RevaluationLines(d))
  BY <1>1, <1>3, RevaluationIs DEF RevalueFX
<1>5. Prepare(m, d, RevaluationLines(d)) BY DEF RevalueFX
<1> HIDE DEF RevalueFX
<1> QED BY <1>4, <1>5, PrepareKeeps

LEMMA SaveKeeps ==
  ASSUME FiscalInv, NEW m \in DraftIds, SaveDraft(m)
  PROVE  FiscalInv'
<1>1. /\ m \in DOMAIN requests /\ years' = years
      /\ book' = Put(book, m, requests[m]) /\ requests' = Drop(requests, m) BY DEF SaveDraft
<1>2. m \notin DOMAIN book BY <1>1 DEF FiscalInv, RequestsKept
<1>3. /\ DOMAIN book' = DOMAIN book \cup {m} /\ book'[m] = requests[m]
      /\ \A x \in DOMAIN book : book'[x] = book[x] BY <1>1, <1>2 DEF Put
<1>4. /\ DOMAIN requests' = DOMAIN requests \ {m}
      /\ \A x \in DOMAIN requests' : requests'[x] = requests[x] BY <1>1, DropIs
<1>5. BookKept(book', years')
  <2>1. DOMAIN book' \subseteq DraftIds \cup SystemIds BY <1>3 DEF FiscalInv, BookKept
  <2>2. \A x \in DOMAIN book' : Kept(book'[x], years')
    BY <1>1, <1>3 DEF FiscalInv, BookKept, RequestsKept
  <2>3. \A y \in Years : m # <<"closing", y>> /\ m # <<"opening", y>> BY SystemIdsApart
  <2> QED BY <1>1, <1>3, <2>1, <2>2, <2>3 DEF FiscalInv, BookKept
<1>6. RequestsKept(requests', book', years') BY <1>1, <1>3, <1>4 DEF FiscalInv, RequestsKept
<1> QED BY <1>1, <1>5, <1>6 DEF FiscalInv

LEMMA DeleteKeeps ==
  ASSUME FiscalInv, NEW m \in DraftIds, DeleteDraft(m)
  PROVE  FiscalInv'
<1>1. book' = Drop(book, m) /\ years' = years /\ requests' = requests BY DEF DeleteDraft
<1>2. DOMAIN book' = DOMAIN book \ {m} /\ \A x \in DOMAIN book' : book'[x] = book[x] BY <1>1, DropIs
<1>3. BookKept(book', years') BY <1>1, <1>2 DEF FiscalInv, BookKept
<1>4. RequestsKept(requests', book', years') BY <1>1, <1>2 DEF FiscalInv, RequestsKept
<1> QED BY <1>1, <1>3, <1>4 DEF FiscalInv

LEMMA PostKeeps ==
  ASSUME FiscalInv, NEW m \in DraftIds, PostMove(m)
  PROVE  FiscalInv'
<1>1. /\ m \in DOMAIN book /\ book' = [book EXCEPT ![m].state = "posted"]
      /\ years' = years /\ requests' = requests BY DEF PostMove
<1>2. /\ DOMAIN book' = DOMAIN book /\ book'[m] = [book[m] EXCEPT !.state = "posted"]
      /\ \A x \in DOMAIN book : x # m => book'[x] = book[x] BY <1>1
<1>3. Kept(book[m], years) BY <1>1 DEF FiscalInv, BookKept
<1>4. Kept(book'[m], years) BY <1>2, <1>3 DEF Kept, Move
<1>5. BookKept(book', years') BY <1>1, <1>2, <1>4 DEF FiscalInv, BookKept
<1>6. RequestsKept(requests', book', years') BY <1>1, <1>2 DEF FiscalInv, RequestsKept
<1> QED BY <1>1, <1>5, <1>6 DEF FiscalInv

\* A system move, or none, joins the book.
LEMMA InsertIs ==
  ASSUME NEW b, NEW id, id \notin DOMAIN b, NEW date, NEW period, NEW lines
  PROVE  LET c == InsertSystemMove(b, id, date, period, lines)
         IN /\ DOMAIN b \subseteq DOMAIN c /\ DOMAIN c \subseteq DOMAIN b \cup {id}
            /\ \A m \in DOMAIN b : c[m] = b[m]
            /\ id \in DOMAIN c <=> lines # Empty
            /\ id \in DOMAIN c => c[id] = Move("posted", date, period, lines)
<1> DEFINE c == InsertSystemMove(b, id, date, period, lines)
<1>1. CASE lines = Empty
  <2>1. c = b BY <1>1 DEF InsertSystemMove
  <2> QED BY <1>1, <2>1
<1>2. CASE lines # Empty
  <2>1. c = Put(b, id, Move("posted", date, period, lines)) BY <1>2 DEF InsertSystemMove
  <2> HIDE DEF c
  <2>2. /\ DOMAIN c = DOMAIN b \cup {id}
        /\ c[id] = Move("posted", date, period, lines)
        /\ \A m \in DOMAIN b : c[m] = b[m] BY <2>1 DEF Put
  <2> QED BY <1>2, <2>2 DEF c
<1> QED BY <1>1, <1>2

LEMMA InsertKeeps ==
  ASSUME NEW b, NEW ys, \A m \in DOMAIN b : Kept(b[m], ys),
         NEW id, id \notin DOMAIN b, NEW date \in Dates, NEW period \in PeriodIds,
         period[1] \in DOMAIN ys, NEW lines, IsLines(lines), lines # Empty => Balanced(lines)
  PROVE  LET c == InsertSystemMove(b, id, date, period, lines)
         IN \A m \in DOMAIN c : Kept(c[m], ys)
<1> DEFINE c == InsertSystemMove(b, id, date, period, lines)
           move == Move("posted", date, period, lines)
<1>1. /\ DOMAIN c \subseteq DOMAIN b \cup {id}
      /\ \A m \in DOMAIN b : c[m] = b[m]
      /\ id \in DOMAIN c => lines # Empty /\ c[id] = move BY InsertIs
<1>2. ASSUME lines # Empty PROVE Kept(move, ys)
  <2>1. IsEven(lines) BY <1>2 DEF Balanced, IsEven
  <2> QED BY <2>1 DEF Kept, Move
<1> HIDE DEF c, move
<1>3. \A m \in DOMAIN c : Kept(c[m], ys) BY <1>1, <1>2
<1> QED BY <1>3 DEF c

\* The book after the closing entry of a year.
ClosedBook(y, retained) ==
  InsertSystemMove(book, <<"closing", y>>, End(y), <<y, Months>>, ClosingLines(End(y), retained))

LEMMA CloseIs ==
  ASSUME FiscalInv, NEW y \in Years, NEW retained \in Permanent, CloseFiscalYear(y, retained)
  PROVE  LET b == ClosedBook(y, retained)
             opening == OpeningLines(b, End(y))
         IN /\ y \in DOMAIN years /\ years[y].state = "open"
            /\ \A n \in 1 .. Months : years[y].periods[n] = "hard_closed"
            /\ y + 1 \in DOMAIN years /\ y + 1 \in Years /\ years[y + 1].state = "open"
            /\ End(y) \in Dates /\ End(y) + 1 \in Dates
            /\ retained \in Accounts \ Nominal /\ TypeOf[retained] = "equity"
            /\ <<"closing", y>> \notin DOMAIN book /\ <<"opening", y + 1>> \notin DOMAIN b
            /\ Accepted(ClosingLines(End(y), retained)) /\ Accepted(opening)
            /\ years' = [years EXCEPT ![y].state = "closed"] /\ requests' = requests
            /\ book' = InsertSystemMove(b, <<"opening", y + 1>>, End(y) + 1, <<y + 1, 1>>, opening)
<1> DEFINE b == ClosedBook(y, retained)
           opening == OpeningLines(b, End(y))
<1>1. /\ y \in DOMAIN years /\ years[y].state = "open"
      /\ \A n \in 1 .. Months : years[y].periods[n] = "hard_closed"
      /\ y + 1 \in DOMAIN years /\ years[y + 1].state = "open" /\ years[y + 1].start = End(y) + 1
  BY DEF CloseFiscalYear, Closable
<1>2. /\ Accepted(ClosingLines(End(y), retained)) /\ Accepted(opening)
      /\ years' = [years EXCEPT ![y].state = "closed"] /\ requests' = requests
      /\ book' = InsertSystemMove(b, <<"opening", y + 1>>, End(y) + 1, <<y + 1, 1>>, opening)
      /\ TypeOf[retained] = "equity"
  BY DEF CloseFiscalYear, ClosedBook
<1>3. /\ y + 1 \in Years /\ years[y].start \in Starts /\ years[y + 1].start \in Starts
  BY <1>1 DEF FiscalInv, CalendarKept
<1>4. End(y) \in Dates /\ End(y) + 1 \in Dates BY <1>1, <1>3, DatesAre DEF End
<1>5. retained \in Accounts \ Nominal BY DEF Permanent
<1>6. <<"closing", y>> \notin DOMAIN book /\ <<"opening", y + 1>> \notin DOMAIN book
  BY <1>1, <1>3 DEF FiscalInv, BookKept
<1>7. <<"opening", y + 1>> \notin DOMAIN b
  <2>1. DOMAIN b \subseteq DOMAIN book \cup {<<"closing", y>>} BY <1>6, InsertIs DEF ClosedBook
  <2> HIDE DEF b
  <2> QED BY <1>6, <2>1
<1> QED BY <1>1, <1>2, <1>3, <1>4, <1>5, <1>6, <1>7

LEMMA CloseKeeps ==
  ASSUME FiscalInv, NEW y \in Years, NEW retained \in Permanent, CloseFiscalYear(y, retained)
  PROVE  FiscalInv'
<1> DEFINE b == ClosedBook(y, retained)
           closing == ClosingLines(End(y), retained)
           opening == OpeningLines(b, End(y))
           c == InsertSystemMove(b, <<"opening", y + 1>>, End(y) + 1, <<y + 1, 1>>, opening)
<1>1. /\ y \in DOMAIN years /\ years[y].state = "open"
      /\ \A n \in 1 .. Months : years[y].periods[n] = "hard_closed"
      /\ y + 1 \in DOMAIN years /\ y + 1 \in Years
      /\ End(y) \in Dates /\ End(y) + 1 \in Dates
      /\ retained \in Accounts \ Nominal
      /\ <<"closing", y>> \notin DOMAIN book /\ <<"opening", y + 1>> \notin DOMAIN b
      /\ Accepted(closing) /\ Accepted(opening)
      /\ years' = [years EXCEPT ![y].state = "closed"] /\ requests' = requests
      /\ book' = c
  BY CloseIs
<1>2. HasLines(book) /\ DOMAIN book \subseteq DraftIds \cup SystemIds
      /\ \A m \in DOMAIN book : Kept(book[m], years)
  BY FiniteBook DEF FiscalInv, BookKept
<1>3. IsLines(closing) BY <1>1, <1>2, ClosingIs
<1>4. <<y, Months>> \in PeriodIds /\ <<y + 1, 1>> \in PeriodIds BY <1>1, YearAssumption DEF PeriodIds
<1>5. \A l : Accepted(l) /\ l # Empty => Balanced(l) BY DEF Accepted
<1>6. /\ \A m \in DOMAIN b : Kept(b[m], years)
      /\ DOMAIN book \subseteq DOMAIN b /\ DOMAIN b \subseteq DOMAIN book \cup {<<"closing", y>>}
      /\ \A m \in DOMAIN book : b[m] = book[m]
  <2>1. b = InsertSystemMove(book, <<"closing", y>>, End(y), <<y, Months>>, closing) BY DEF ClosedBook
  <2>2. closing # Empty => Balanced(closing) BY <1>1, <1>5
  <2>3. <<y, Months>>[1] = y OBVIOUS
  <2> HIDE DEF b, closing
  <2>4. \A m \in DOMAIN b : Kept(b[m], years)
    BY <1>1, <1>2, <1>3, <1>4, <2>1, <2>2, <2>3, InsertKeeps
  <2>5. /\ DOMAIN book \subseteq DOMAIN b /\ DOMAIN b \subseteq DOMAIN book \cup {<<"closing", y>>}
        /\ \A m \in DOMAIN book : b[m] = book[m] BY <1>1, <2>1, InsertIs
  <2> QED BY <2>4, <2>5
<1>7. <<"closing", y>> \in SystemIds /\ <<"opening", y + 1>> \in SystemIds BY <1>1 DEF SystemIds
<1>8. HasLines(b)
  <2>1. IsFiniteSet({<<"closing", y>>}) BY FS_Singleton
  <2> HIDE DEF b
  <2>2. IsFiniteSet(DOMAIN b) BY <1>2, <1>6, <2>1, FS_Union, FS_Subset DEF HasLines
  <2> QED BY <1>6, <2>2 DEF HasLines, Kept
<1>9. IsLines(opening) BY <1>8, OpeningIs
<1>10. /\ \A m \in DOMAIN c : Kept(c[m], years)
       /\ DOMAIN b \subseteq DOMAIN c /\ DOMAIN c \subseteq DOMAIN b \cup {<<"opening", y + 1>>}
       /\ \A m \in DOMAIN b : c[m] = b[m]
  <2>1. opening # Empty => Balanced(opening) BY <1>1, <1>5
  <2>2. <<y + 1, 1>>[1] = y + 1 OBVIOUS
  <2> HIDE DEF b, opening
  <2>3. \A m \in DOMAIN c : Kept(c[m], years)
    BY <1>1, <1>4, <1>6, <1>9, <2>1, <2>2, InsertKeeps
  <2>4. /\ DOMAIN b \subseteq DOMAIN c /\ DOMAIN c \subseteq DOMAIN b \cup {<<"opening", y + 1>>}
        /\ \A m \in DOMAIN b : c[m] = b[m]
    <3> DEFINE id == <<"opening", y + 1>>
               first == <<y + 1, 1>>
               date == End(y) + 1
    <3>1. id \notin DOMAIN b /\ c = InsertSystemMove(b, id, date, first, opening) BY <1>1
    <3> HIDE DEF c, id, first, date
    <3>2. /\ DOMAIN b \subseteq DOMAIN c /\ DOMAIN c \subseteq DOMAIN b \cup {id}
          /\ \A m \in DOMAIN b : c[m] = b[m] BY <3>1, InsertIs
    <3> QED BY <3>2 DEF id
  <2> QED BY <2>3, <2>4
<1> HIDE DEF b, c, closing, opening
<1>11. /\ DOMAIN years' = DOMAIN years /\ years'[y] = [years[y] EXCEPT !.state = "closed"]
       /\ \A z \in DOMAIN years : z # y => years'[z] = years[z] BY <1>1
<1>12. CalendarKept(years') /\ years'[y].state = "closed"
       /\ \A z \in DOMAIN years : years[z].state = "closed" => years'[z].state = "closed"
  <2>1. years[y] \in [start : Starts, state : {"open", "closed"}, periods : [1 .. Months -> PeriodStates]]
    BY <1>1 DEF FiscalInv, CalendarKept
  <2> QED BY <1>1, <1>11, <2>1 DEF FiscalInv, CalendarKept
<1>13. BookKept(book', years')
  <2>1. DOMAIN book' \subseteq DraftIds \cup SystemIds BY <1>1, <1>2, <1>6, <1>7, <1>10
  <2>2. \A m \in DOMAIN book' : Kept(book'[m], years')
    <3>1. \A m \in DOMAIN book' : Kept(book'[m], years) BY <1>1, <1>10
    <3> QED BY <3>1, <1>11 DEF Kept
  <2>3. ASSUME NEW z \in Years, <<"closing", z>> \in DOMAIN book'
        PROVE  z \in DOMAIN years' /\ years'[z].state = "closed"
    <3>1. z = y \/ <<"closing", z>> \in DOMAIN book BY <1>1, <1>6, <1>10, <2>3
    <3>2. <<"closing", z>> \in DOMAIN book => z \in DOMAIN years /\ years[z].state = "closed"
      BY DEF FiscalInv, BookKept
    <3> QED BY <1>1, <1>11, <1>12, <3>1, <3>2
  <2>4. ASSUME NEW z \in Years, z + 1 \in Years, <<"opening", z + 1>> \in DOMAIN book'
        PROVE  z \in DOMAIN years' /\ years'[z].state = "closed"
    <3>1. z + 1 = y + 1 \/ <<"opening", z + 1>> \in DOMAIN book BY <1>1, <1>6, <1>10, <2>4
    <3>2. z \in Int /\ y \in Int BY DEF Years
    <3>3. <<"opening", z + 1>> \in DOMAIN book => z \in DOMAIN years /\ years[z].state = "closed"
      BY <2>4 DEF FiscalInv, BookKept
    <3> QED BY <1>1, <1>11, <1>12, <3>1, <3>2, <3>3
  <2> QED BY <2>1, <2>2, <2>3, <2>4 DEF BookKept
<1>14. RequestsKept(requests', book', years')
  <2>1. DOMAIN requests \subseteq DraftIds /\ DOMAIN requests \cap DOMAIN book = {}
        /\ \A m \in DOMAIN requests : Kept(requests[m], years) /\ requests[m].state = "draft"
    BY DEF FiscalInv, RequestsKept
  <2>2. \A m \in DraftIds : m # <<"closing", y>> /\ m # <<"opening", y + 1>> BY <1>1, SystemIdsApart
  <2>3. DOMAIN requests \cap DOMAIN book' = {} BY <1>1, <1>6, <1>10, <2>1, <2>2
  <2>4. \A m \in DOMAIN requests : Kept(requests[m], years') BY <2>1, <1>11 DEF Kept
  <2> QED BY <1>1, <2>1, <2>3, <2>4 DEF RequestsKept
<1> QED BY <1>12, <1>13, <1>14 DEF FiscalInv

LEMMA EntryIs ==
  ASSUME NEW e \in Entries, Balanced(e)
  PROVE  IsLines(e) /\ IsEven(e)
BY EntryAssumption DEF Balanced, IsLines, IsEven

LEMMA InvInit == Init => FiscalInv
BY DEF Init, Empty, FiscalInv, CalendarKept, BookKept, RequestsKept

\* The shapes a step can have.
LEMMA StepIs ==
  ASSUME Next
  PROVE  \/ \E y \in Years, start \in Starts : CreateFiscalYear(y, start)
         \/ \E y \in Years, n \in 1 .. Months, s \in AskedStates : ChangePeriodState(y, n, s)
         \/ \E y \in Years, a \in Permanent : CloseFiscalYear(y, a)
         \/ \E m \in DraftIds, d \in EntryDates, e \in Entries : CreateDraft(m, d, e)
         \/ \E m \in DraftIds, d \in EntryDates : RevalueFX(m, d)
         \/ \E m \in DraftIds : SaveDraft(m) \/ DeleteDraft(m) \/ PostMove(m)
BY DEF Next

LEMMA InvStep == FiscalInv /\ [Next]_vars => FiscalInv'
<1> SUFFICES ASSUME FiscalInv, [Next]_vars PROVE FiscalInv' OBVIOUS
<1>1. CASE UNCHANGED vars
  BY <1>1 DEF vars, FiscalInv, CalendarKept, BookKept, RequestsKept, Kept
<1>2. CASE Next
  <2>1. CASE \E y \in Years, start \in Starts : CreateFiscalYear(y, start) BY <2>1, CreateYearKeeps
  <2>2. CASE \E y \in Years, n \in 1 .. Months, s \in AskedStates : ChangePeriodState(y, n, s)
    BY <2>2, ChangePeriodKeeps
  <2>3. CASE \E y \in Years, a \in Permanent : CloseFiscalYear(y, a) BY <2>3, CloseKeeps
  <2>4. CASE \E m \in DraftIds, d \in EntryDates, e \in Entries : CreateDraft(m, d, e)
    <3>1. PICK m \in DraftIds, d \in EntryDates, e \in Entries : CreateDraft(m, d, e) BY <2>4
    <3>2. Balanced(e) /\ Prepare(m, d, e) BY <3>1 DEF CreateDraft
    <3>3. IsLines(e) /\ IsEven(e) BY <3>2, EntryIs
    <3> QED BY <3>2, <3>3, PrepareKeeps
  <2>5. CASE \E m \in DraftIds, d \in EntryDates : RevalueFX(m, d) BY <2>5, RevalueKeeps
  <2>6. CASE \E m \in DraftIds : SaveDraft(m) \/ DeleteDraft(m) \/ PostMove(m)
    BY <2>6, SaveKeeps, DeleteKeeps, PostKeeps
  <2> QED BY <1>2, <2>1, <2>2, <2>3, <2>4, <2>5, <2>6, StepIs
<1> QED BY <1>1, <1>2

LEMMA InvHolds == Spec => []FiscalInv
BY InvInit, InvStep, PTL DEF Spec

-----------------------------------------------------------------------------
\* What follows in every state.

\* Years, moves and requests have their types; years and moves come from the actions.
THEOREM YearsAndMovesWellTyped == Spec => []TypeOK
<1>1. FiscalInv => TypeOK
  <2> SUFFICES ASSUME FiscalInv PROVE TypeOK OBVIOUS
  <2>1. DOMAIN years \subseteq Years /\ \A y \in DOMAIN years : years[y] \in YearRows
    <3>1. Starts \subseteq Dates BY DatesAre
    <3> QED BY <3>1 DEF FiscalInv, CalendarKept, YearRows
  <2>2. \A m \in DOMAIN book :
          /\ book[m].state \in {"draft", "posted"} /\ book[m].period \in PeriodIds
          /\ book[m].date \in Dates /\ DOMAIN book[m].lines \subseteq Positions
          /\ \A p \in DOMAIN book[m].lines : book[m].lines[p] \in Entry
    BY DEF FiscalInv, BookKept, Kept, IsLines
  <2>3. DOMAIN book \subseteq DraftIds \cup SystemIds BY DEF FiscalInv, BookKept
  <2>4. DOMAIN requests \subseteq DraftIds /\ DOMAIN requests \cap DOMAIN book = {}
    BY DEF FiscalInv, RequestsKept
  <2> QED BY <2>1, <2>2, <2>3, <2>4 DEF TypeOK
<1> QED BY <1>1, InvHolds, PTL

\* The balance sheet as of any date is out by exactly twice what accounts with the other
\* normal balance hold, whatever was drafted, posted, revalued, closed and carried forward
\* (GenerateBalanceSheetUseCase).
THEOREM SheetsBalance == Spec => []BooksBalance
<1>1. FiscalInv => BooksBalance
  <2> SUFFICES ASSUME FiscalInv PROVE BooksBalance OBVIOUS
  <2>1. EvenBook(book) BY FiniteBook DEF FiscalInv
  <2> QED BY <2>1, SheetDifference DEF BooksBalance
<1> QED BY <1>1, InvHolds, PTL

\* So the sheet balances as long as no balance sheet account with the other normal balance
\* holds anything.
THEOREM SheetsBalanceWithoutContra ==
  Spec => [](\A d \in Dates : (\A a \in Contra : TrialBalance(book, 0, d)[a] = 0)
                                => BalanceSheet(book, d).difference = 0)
<1>1. BooksBalance => \A d \in Dates : (\A a \in Contra : TrialBalance(book, 0, d)[a] = 0)
                                         => BalanceSheet(book, d).difference = 0
  <2> SUFFICES ASSUME BooksBalance, NEW d \in Dates, \A a \in Contra : TrialBalance(book, 0, d)[a] = 0
               PROVE  BalanceSheet(book, d).difference = 0
    OBVIOUS
  <2> DEFINE f == TrialBalance(book, 0, d)
             S == {a \in Contra : TypeOf[a] \in {"asset", "liability", "equity"}}
  <2>1. IsFiniteSet(S) BY FlagAssumption, FinitePositions, FS_Subset
  <2>2. \A a \in S : f[a] = 0 OBVIOUS
  <2> HIDE DEF f, S
  <2>3. SumFunctionOnSet(f, S) = 0 BY <2>1, <2>2, SumZero
  <2>4. HeldContra(book, d, {"asset", "liability", "equity"}) = 0 BY <2>3 DEF HeldContra, f, S
  <2> DEFINE x == HeldContra(book, d, {"asset", "liability", "equity"})
             y == BalanceSheet(book, d).difference
  <2>5. x \in Int /\ x =< 0 /\ 0 =< x BY <2>4
  <2>6. y = -2 * x BY DEF BooksBalance
  <2> HIDE DEF x, y
  <2>7. y \in Int /\ y =< 0 /\ 0 =< y BY <2>5, <2>6
  <2>8. y = 0 BY <2>7
  <2> QED BY <2>8 DEF y
<1> QED BY <1>1, SheetsBalance, PTL

LEMMA SheetIncome ==
  ASSUME NEW b, HasLines(b), NEW d
  PROVE  BalanceSheet(b, d).income = -Total(b, 0, d, {"income", "expense"})
<1> DEFINE balances == BalancesAsOf(b, d)
           S == {a \in DOMAIN balances : TypeOf[a] \in {"income", "expense"}}
<1>1. BalanceSheet(b, d).income = -SumFunctionOnSet(balances, S) BY DEF BalanceSheet
<1>2. SumFunctionOnSet(balances, S) = Total(b, 0, d, {"income", "expense"}) BY BalancesTotal
<1> HIDE DEF balances, S
<1> QED BY <1>1, <1>2

\* The income statement of every range is the difference of the results that the balance
\* sheets at its ends show, although other queries compute it.
THEOREM StatementsTellTheSame == Spec => []StatementsAgree
<1>1. FiscalInv => StatementsAgree
  <2> SUFFICES ASSUME FiscalInv PROVE StatementsAgree OBVIOUS
  <2> DEFINE T(from, to) == Total(book, from, to, {"income", "expense"})
             sheets == {[at |-> d, income |-> BalanceSheet(book, d).income] : d \in Dates}
  <2>1. HasLines(book) /\ \A m \in DOMAIN book : book[m].date \in Int BY FiniteBook DEF FiscalInv
  <2>2. \A from, to : IncomeStatement(book, from, to).net = -T(from, to) /\ T(from, to) \in Int
    BY <2>1, IncomeIs, TotalInt
  <2>3. \A s \in sheets : s.at \in Nat /\ s.income = -T(0, s.at)
    <3>1. \A d \in Dates : BalanceSheet(book, d).income = -T(0, d) BY <2>1, SheetIncome
    <3>2. Dates \subseteq Nat BY DatesAre
    <3> HIDE DEF T
    <3> QED BY <3>1, <3>2
  <2>4. \A r \in Nat : \A s \in Nat : r < s => T(0, s) = T(0, r) + T(r + 1, s)
    BY <2>1, TotalAdds
  <2> HIDE DEF T, sheets
  <2>5. \A s \in sheets : IncomeStatement(book, 0, s.at).net = s.income BY <2>2, <2>3
  <2>6. ASSUME NEW s \in sheets, NEW r \in sheets, r.at < s.at
        PROVE  IncomeStatement(book, r.at + 1, s.at).net = s.income - r.income
    <3>1. T(0, s.at) = T(0, r.at) + T(r.at + 1, s.at) BY <2>3, <2>4, <2>6
    <3>2. T(0, s.at) \in Int /\ T(0, r.at) \in Int /\ T(r.at + 1, s.at) \in Int BY <2>2
    <3>3. s.income = -T(0, s.at) /\ r.income = -T(0, r.at) BY <2>3
    <3>4. IncomeStatement(book, r.at + 1, s.at).net = -T(r.at + 1, s.at) BY <2>2
    <3> QED BY <3>1, <3>2, <3>3, <3>4
  <2> QED BY <2>5, <2>6 DEF StatementsAgree, sheets
<1> QED BY <1>1, InvHolds, PTL

-----------------------------------------------------------------------------
\* What a step may never do.

LEMMA SamePosted ==
  ASSUME NEW b, NEW c, NEW y,
         \A m \in DOMAIN b : b[m].state = "posted" /\ b[m].period[1] = y =>
           m \in DOMAIN c /\ c[m] = b[m],
         \A m \in DOMAIN c : c[m].state = "posted" /\ c[m].period[1] = y =>
           m \in DOMAIN b /\ c[m] = b[m]
  PROVE  PostedOf(c, y) = PostedOf(b, y)
<1> DEFINE B == {m \in Posted(b) : b[m].period[1] = y}
           C == {m \in Posted(c) : c[m].period[1] = y}
<1>1. B = C /\ \A m \in B : c[m] = b[m] BY DEF Posted
<1>2. PostedOf(b, y) = {<<m, b[m]>> : m \in B} /\ PostedOf(c, y) = {<<m, c[m]>> : m \in C}
  BY DEF PostedOf
<1> HIDE DEF B, C
<1> QED BY <1>1, <1>2

LEMMA SealedStep ==
  ASSUME FiscalInv, [Next]_vars, NEW y \in DOMAIN years, years[y].state = "closed"
  PROVE  years'[y] = years[y] /\ PostedOf(book', y) = PostedOf(book, y)
<1>0. /\ \A n \in 1 .. Months : years[y].periods[n] = "hard_closed"
      /\ \A m \in DOMAIN book : Kept(book[m], years)
      /\ \A m \in DOMAIN requests : m \notin DOMAIN book /\ requests[m].state = "draft"
  BY DEF FiscalInv, CalendarKept, BookKept, RequestsKept
<1>1. CASE UNCHANGED vars BY <1>1 DEF vars
<1>2. CASE Next
  <2>1. CASE \E z \in Years, start \in Starts : CreateFiscalYear(z, start)
    BY <2>1 DEF CreateFiscalYear, Put
  <2>2. CASE \E z \in Years, n \in 1 .. Months, s \in AskedStates : ChangePeriodState(z, n, s)
    BY <2>2 DEF ChangePeriodState
  <2>3. CASE \E z \in Years, a \in Permanent : CloseFiscalYear(z, a)
    <3>1. PICK z \in Years, a \in Permanent : CloseFiscalYear(z, a) BY <2>3
    <3> DEFINE b == ClosedBook(z, a)
               closing == ClosingLines(End(z), a)
               opening == OpeningLines(b, End(z))
               id == <<"closing", z>>
               last == <<z, Months>>
               next == <<"opening", z + 1>>
               first == <<z + 1, 1>>
               date == End(z) + 1
    <3>2. /\ z \in DOMAIN years /\ years[z].state = "open" /\ years[z + 1].state = "open"
          /\ id \notin DOMAIN book /\ next \notin DOMAIN b
          /\ years' = [years EXCEPT ![z].state = "closed"]
          /\ b = InsertSystemMove(book, id, End(z), last, closing)
          /\ book' = InsertSystemMove(b, next, date, first, opening)
      BY <3>1, CloseIs DEF ClosedBook
    <3>3. last[1] = z /\ first[1] = z + 1 OBVIOUS
    <3> HIDE DEF b, closing, opening, id, next, last, first, date
    <3>4. /\ DOMAIN book \subseteq DOMAIN b /\ DOMAIN b \subseteq DOMAIN book \cup {id}
          /\ \A m \in DOMAIN book : b[m] = book[m]
          /\ id \in DOMAIN b => b[id] = Move("posted", End(z), last, closing)
      BY <3>2, InsertIs
    <3>5. /\ DOMAIN b \subseteq DOMAIN book' /\ DOMAIN book' \subseteq DOMAIN b \cup {next}
          /\ \A m \in DOMAIN b : book'[m] = b[m]
          /\ next \in DOMAIN book' => book'[next] = Move("posted", date, first, opening)
      BY <3>2, InsertIs
    <3>6. y # z /\ y # z + 1 BY <3>2
    <3>7. id \in DOMAIN b => b[id].period[1] # y BY <3>3, <3>4, <3>6 DEF Move
    <3>8. next \in DOMAIN book' => book'[next].period[1] # y BY <3>3, <3>5, <3>6 DEF Move
    <3>9. \A m \in DOMAIN book : m \in DOMAIN book' /\ book'[m] = book[m] BY <3>4, <3>5
    <3>10. \A m \in DOMAIN book' : book'[m].period[1] = y => m \in DOMAIN book
      BY <3>4, <3>5, <3>7, <3>8
    <3>11. PostedOf(book', y) = PostedOf(book, y) BY <3>9, <3>10, SamePosted
    <3> QED BY <3>2, <3>6, <3>11
  <2>4. CASE \E m \in DraftIds, d \in EntryDates, e \in Entries : CreateDraft(m, d, e)
    BY <2>4 DEF CreateDraft, Prepare
  <2>5. CASE \E m \in DraftIds, d \in EntryDates : RevalueFX(m, d) BY <2>5 DEF RevalueFX, Prepare
  <2>6. CASE \E m \in DraftIds : SaveDraft(m)
    <3>1. PICK m \in DraftIds : SaveDraft(m) BY <2>6
    <3>2. m \in DOMAIN requests /\ book' = Put(book, m, requests[m]) /\ years' = years
      BY <3>1 DEF SaveDraft
    <3>3. m \notin DOMAIN book /\ requests[m].state = "draft" BY <1>0, <3>2
    <3>4. /\ DOMAIN book' = DOMAIN book \cup {m} /\ book'[m] = requests[m]
          /\ \A x \in DOMAIN book : book'[x] = book[x] BY <3>2, <3>3 DEF Put
    <3>5. PostedOf(book', y) = PostedOf(book, y) BY <3>3, <3>4, SamePosted
    <3> QED BY <3>2, <3>5
  <2>7. CASE \E m \in DraftIds : DeleteDraft(m)
    <3>1. PICK m \in DraftIds : DeleteDraft(m) BY <2>7
    <3>2. book[m].state = "draft" /\ book' = Drop(book, m) /\ years' = years
      BY <3>1 DEF DeleteDraft
    <3>3. DOMAIN book' = DOMAIN book \ {m} /\ \A x \in DOMAIN book' : book'[x] = book[x]
      BY <3>2 DEF Drop
    <3>4. PostedOf(book', y) = PostedOf(book, y) BY <3>2, <3>3, SamePosted
    <3> QED BY <3>2, <3>4
  <2>8. CASE \E m \in DraftIds : PostMove(m)
    <3>1. PICK m \in DraftIds : PostMove(m) BY <2>8
    <3>2. /\ m \in DOMAIN book /\ book[m].state = "draft" /\ IsOpen(book[m].period)
          /\ book' = [book EXCEPT ![m].state = "posted"] /\ years' = years
      BY <3>1 DEF PostMove
    <3>3. Kept(book[m], years) BY <1>0, <3>2
    <3>4. book[m].period[1] # y
      <4>1. book[m].period[2] \in 1 .. Months BY <3>3 DEF Kept, PeriodIds
      <4> QED BY <1>0, <3>2, <4>1 DEF IsOpen, PeriodState
    <3>5. /\ DOMAIN book' = DOMAIN book /\ book'[m] = [book[m] EXCEPT !.state = "posted"]
          /\ \A x \in DOMAIN book : x # m => book'[x] = book[x] BY <3>2
    <3>6. book'[m].period = book[m].period BY <3>3, <3>5 DEF Kept, Move
    <3>7. PostedOf(book', y) = PostedOf(book, y)
      <4>1. \A x \in DOMAIN book : book[x].state = "posted" /\ book[x].period[1] = y =>
              x \in DOMAIN book' /\ book'[x] = book[x] BY <3>4, <3>5
      <4>2. \A x \in DOMAIN book' : book'[x].state = "posted" /\ book'[x].period[1] = y =>
              x \in DOMAIN book /\ book'[x] = book[x] BY <3>4, <3>5, <3>6
      <4> QED BY <4>1, <4>2, SamePosted
    <3> QED BY <3>2, <3>7
  <2> QED BY <1>2, <2>1, <2>2, <2>3, <2>4, <2>5, <2>6, <2>7, <2>8, StepIs
<1> QED BY <1>1, <1>2

\* No step changes a closed year, its periods or what is posted in them: not the save or
\* the post of a draft validated before the close, nor the close of another year.
THEOREM ClosedYearsStaySealed == Spec => ClosedYearSealed
<1> DEFINE A == \A y \in DOMAIN years : years[y].state = "closed" =>
                  years'[y] = years[y] /\ PostedOf(book', y) = PostedOf(book, y)
<1>1. FiscalInv /\ [Next]_vars => A BY SealedStep
<1>2. ClosedYearSealed <=> [][A]_vars BY DEF ClosedYearSealed
<1> HIDE DEF A
<1>3. Spec => [][A]_vars BY <1>1, InvHolds, PTL DEF Spec
<1> QED BY <1>2, <1>3

\* A system move changes the balances as of its date by what it books, and the balances
\* as of earlier dates not at all.
LEMMA InsertBooks ==
  ASSUME NEW b, HasLines(b), NEW id, id \notin DOMAIN b, NEW date \in Nat, NEW period,
         NEW lines, IsLines(lines), NEW d \in Nat, NEW a \in Accounts,
         NEW c, c = InsertSystemMove(b, id, date, period, lines),
         NEW move, move = Move("posted", date, period, lines)
  PROVE  Net(c, PostedIn(c, 0, d), a) =
           Net(b, PostedIn(b, 0, d), a) + (IF date <= d THEN Booked(move, a) ELSE 0)
<1> DEFINE ids == PostedIn(b, 0, d)
           all == PostedIn(c, 0, d)
           f == [m \in ids |-> Booked(b[m], a)]
           g == [m \in all |-> Booked(c[m], a)]
<1>1. IsFiniteSet(ids) /\ ids \subseteq DOMAIN b BY PostedInBook, FS_Subset DEF HasLines
<1>2. \A m \in ids : f[m] \in Int BY PostedInBook, BookedInt DEF HasLines
<1>3. Net(c, all, a) = SumFunctionOnSet(g, all) /\ Net(b, ids, a) = SumFunctionOnSet(f, ids)
  BY NetIs
<1>4. /\ DOMAIN b \subseteq DOMAIN c /\ DOMAIN c \subseteq DOMAIN b \cup {id}
      /\ \A m \in DOMAIN b : c[m] = b[m]
      /\ id \in DOMAIN c <=> lines # Empty
      /\ id \in DOMAIN c => c[id] = move
  BY InsertIs
<1>5. move.lines = lines /\ move.date = date /\ move.state = "posted" BY DEF Move
<1>6. Booked(move, a) \in Int /\ (lines = Empty => Booked(move, a) = 0)
  <2>1. lines = Empty => ~Touches(move, a) BY <1>5 DEF Touches, Empty
  <2> QED BY <1>5, <2>1, BookedInt
<1>7. all = IF id \in DOMAIN c /\ date <= d THEN ids \cup {id} ELSE ids
  <2>1. id \in DOMAIN c => (id \in all <=> date <= d) BY <1>4, <1>5 DEF PostedIn, Posted
  <2>2. \A m \in DOMAIN b : m \in all <=> m \in ids BY <1>4 DEF PostedIn, Posted
  <2>3. all \subseteq DOMAIN c /\ ids \subseteq DOMAIN b BY PostedInBook
  <2> HIDE DEF all, ids
  <2> QED BY <1>4, <2>1, <2>2, <2>3
<1>8. \A m \in ids : m \in all /\ g[m] = f[m]
  <2>1. \A m \in ids : m \in all BY <1>7
  <2> HIDE DEF all, ids
  <2> QED BY <1>1, <1>4, <2>1
<1>9. id \in all => g[id] = Booked(move, a)
  <2>1. id \in all => id \in DOMAIN c BY PostedInBook
  <2> HIDE DEF all
  <2> QED BY <1>4, <2>1
<1> HIDE DEF ids, all, f, g
<1>10. SumFunctionOnSet(g, ids) = SumFunctionOnSet(f, ids) /\ SumFunctionOnSet(f, ids) \in Int
  BY <1>1, <1>2, <1>8, SumSame, SumLaws
<1>11. CASE id \in DOMAIN c /\ date <= d
  <2>1. all = ids \cup {id} /\ id \notin ids BY <1>1, <1>7, <1>11
  <2>2. g[id] = Booked(move, a) BY <1>9, <2>1
  <2>3. \A m \in ids : g[m] \in Int BY <1>2, <1>8
  <2>4. SumFunctionOnSet(g, ids \cup {id}) = g[id] + SumFunctionOnSet(g, ids)
    BY <1>1, <1>6, <2>1, <2>2, <2>3, SumAdds
  <2>5. SumFunctionOnSet(g, all) = Booked(move, a) + SumFunctionOnSet(f, ids)
    BY <1>10, <2>1, <2>2, <2>4
  <2> QED BY <1>3, <1>6, <1>10, <1>11, <2>5 DEF ids, all
<1>12. CASE ~(id \in DOMAIN c /\ date <= d)
  <2>1. all = ids BY <1>7, <1>12
  <2>2. date <= d => Booked(move, a) = 0 BY <1>4, <1>6, <1>12
  <2>3. Net(c, all, a) = Net(b, ids, a) /\ Net(b, ids, a) \in Int BY <1>3, <1>10, <2>1
  <2> QED BY <2>2, <2>3 DEF ids, all
<1> QED BY <1>11, <1>12

\* What the year close does to the trial balance as of the end of the year.
LEMMA CloseBooks ==
  ASSUME FiscalInv, NEW y \in Years, NEW retained \in Permanent, CloseFiscalYear(y, retained)
  PROVE  \A a \in Accounts : TrialBalance(book', 0, End(y))[a] =
           TrialBalance(book, 0, End(y))[a] +
             IF a \in Nominal THEN -TrialBalance(book, 0, End(y))[a]
             ELSE IF a = retained THEN Total(book, 0, End(y), {"income", "expense"}) ELSE 0
<1> DEFINE b == ClosedBook(y, retained)
           end == End(y)
           closing == ClosingLines(end, retained)
           opening == OpeningLines(b, end)
           id == <<"closing", y>>
           last == <<y, Months>>
           next == <<"opening", y + 1>>
           first == <<y + 1, 1>>
           date == end + 1
           move == Move("posted", end, last, closing)
           other == Move("posted", date, first, opening)
<1>1. /\ id \notin DOMAIN book /\ next \notin DOMAIN b /\ end \in Dates /\ date \in Dates
      /\ retained \in Accounts \ Nominal
      /\ b = InsertSystemMove(book, id, end, last, closing)
      /\ book' = InsertSystemMove(b, next, date, first, opening)
  BY CloseIs DEF ClosedBook
<1>2. HasLines(book) BY FiniteBook DEF FiscalInv
<1>3. IsLines(closing)
  <2> HIDE DEF end
  <2> QED BY <1>1, <1>2, ClosingIs
<1>4. \A a \in Accounts : Booked(move, a) =
        IF a \in Nominal THEN -TrialBalance(book, 0, end)[a]
        ELSE IF a = retained THEN Total(book, 0, end, {"income", "expense"}) ELSE 0
  <2>1. move.lines = closing BY DEF Move
  <2> HIDE DEF end, move, closing
  <2> QED BY <1>1, <1>2, <2>1, ClosingIs DEF closing
<1>5. end \in Nat /\ date \in Nat /\ ~(date <= end)
  <2>1. end \in Nat BY <1>1, DatesAre
  <2> HIDE DEF end
  <2> QED BY <2>1
<1> HIDE DEF b, closing, opening, id, last, next, first, date, move, other, end
<1>6. HasLines(b)
  <2>1. /\ DOMAIN b \subseteq DOMAIN book \cup {id}
        /\ \A m \in DOMAIN book : b[m] = book[m]
        /\ id \in DOMAIN b => b[id] = move
    BY <1>1, InsertIs DEF move
  <2>2. IsFiniteSet(DOMAIN book \cup {id}) BY <1>2, FS_AddElement DEF HasLines
  <2>3. IsFiniteSet(DOMAIN b) BY <2>1, <2>2, FS_Subset
  <2>4. move.lines = closing BY DEF Move, move
  <2> QED BY <1>2, <1>3, <2>1, <2>3, <2>4 DEF HasLines
<1>7. IsLines(opening) BY <1>6, OpeningIs DEF opening
<1>8. ASSUME NEW a \in Accounts
      PROVE  Net(b, PostedIn(b, 0, end), a) = Net(book, PostedIn(book, 0, end), a) + Booked(move, a)
  BY <1>1, <1>2, <1>3, <1>5, InsertBooks DEF move
<1>9. ASSUME NEW a \in Accounts
      PROVE  Net(book', PostedIn(book', 0, end), a) = Net(b, PostedIn(b, 0, end), a)
  <2> DEFINE c == InsertSystemMove(b, next, date, first, opening)
  <2>1. c = InsertSystemMove(b, next, date, first, opening) OBVIOUS
  <2>2. book' = c BY <1>1
  <2> HIDE DEF c
  <2>3. Net(c, PostedIn(c, 0, end), a) = Net(b, PostedIn(b, 0, end), a) + 0
    BY <1>1, <1>5, <1>6, <1>7, <2>1, InsertBooks DEF other
  <2>4. Net(b, PostedIn(b, 0, end), a) \in Int BY <1>6, PostedInBook, NetInt
  <2> QED BY <2>2, <2>3, <2>4
<1>10. \A a \in Accounts : TrialBalance(book', 0, end)[a] = TrialBalance(book, 0, end)[a] + Booked(move, a)
  BY <1>8, <1>9 DEF TrialBalance
<1> QED BY <1>4, <1>10 DEF end

\* Accounts of the balance sheet together get the result if they hold the retained earnings.
LEMMA CloseOver ==
  ASSUME FiscalInv, NEW y \in Years, NEW retained \in Permanent, CloseFiscalYear(y, retained),
         NEW S \in SUBSET Permanent
  PROVE  /\ SumFunctionOnSet(TrialBalance(book, 0, End(y)), S) \in Int
         /\ SumFunctionOnSet(TrialBalance(book', 0, End(y)), S) =
              SumFunctionOnSet(TrialBalance(book, 0, End(y)), S)
              + IF retained \in S THEN Total(book, 0, End(y), {"income", "expense"}) ELSE 0
<1> DEFINE end == End(y)
           N == Total(book, 0, end, {"income", "expense"})
           f == TrialBalance(book, 0, end)
           h == TrialBalance(book', 0, end)
           g == [a \in Accounts |-> IF a = retained THEN N ELSE 0]
           T == S \cap {retained}
<1>1. HasLines(book) BY FiniteBook DEF FiscalInv
<1>2. \A a \in Accounts : f[a] \in Int BY <1>1, TrialBalanceIs
<1>3. N \in Int BY <1>1, TotalInt
<1>4. \A a \in Accounts : h[a] = f[a] + IF a \in Nominal THEN -f[a] ELSE IF a = retained THEN N ELSE 0
  BY CloseBooks
<1>5. IsFiniteSet(S) BY FinitePositions, FS_Subset DEF Permanent
<1>6. \A a \in S : a \in Accounts /\ a \notin Nominal BY DEF Permanent
<1>7. \A a \in S : g[a] = (IF a = retained THEN N ELSE 0) /\ g[a] \in Int BY <1>3, <1>6
<1> HIDE DEF f, h, g, N
<1>8. SumFunctionOnSet(h, S) = SumFunctionOnSet(f, S) + SumFunctionOnSet(g, S)
  <2>1. \A a \in S : f[a] \in Int /\ g[a] \in Int /\ h[a] = f[a] + g[a] BY <1>2, <1>4, <1>6, <1>7
  <2> QED BY <1>5, <2>1, SumPlus
<1>9. SumFunctionOnSet(g, S) = SumFunctionOnSet(g, T)
  <2>1. T \in SUBSET S /\ (\A a \in T : g[a] \in Int) /\ \A a \in S \ T : g[a] = 0 BY <1>7
  <2> HIDE DEF T
  <2> QED BY <1>5, <2>1, SumWithin
<1>10. SumFunctionOnSet(g, T) = IF retained \in S THEN N ELSE 0
  <2>1. CASE retained \in S
    <3>1. T = {retained} /\ g[retained] = N BY <1>7, <2>1
    <3> QED BY <1>3, <2>1, <3>1, SumSingle
  <2>2. CASE retained \notin S
    <3>1. T = {} BY <2>2
    <3> QED BY <2>2, <3>1, SumEmpty
  <2> QED BY <2>1, <2>2
<1>11. SumFunctionOnSet(f, S) \in Int BY <1>2, <1>5, <1>6, SumLaws
<1> QED BY <1>8, <1>9, <1>10, <1>11 DEF f, h, N

\* The result of the year moves into equity, where the balance sheet already showed it.
LEMMA CloseTotals ==
  ASSUME FiscalInv, NEW y \in Years, NEW retained \in Permanent, CloseFiscalYear(y, retained)
  PROVE  LET before(types) == Total(book, 0, End(y), types)
             after(types) == Total(book', 0, End(y), types)
             result == before({"income", "expense"})
             contra(types) == HeldContra(book, End(y), types)
         IN /\ \A a \in Nominal : TrialBalance(book', 0, End(y))[a] = 0
            /\ after({"asset"}) = before({"asset"})
            /\ after({"liability"}) = before({"liability"})
            /\ after({"equity"}) = before({"equity"}) + result
            /\ after({"income", "expense"}) = 0
            /\ HeldContra(book', End(y), {"asset"}) = contra({"asset"})
            /\ HeldContra(book', End(y), {"liability"}) = contra({"liability"})
            /\ HeldContra(book', End(y), {"equity"}) =
                 contra({"equity"}) + IF retained \in Contra THEN result ELSE 0
<1> DEFINE end == End(y)
           N == Total(book, 0, end, {"income", "expense"})
           f == TrialBalance(book, 0, end)
           h == TrialBalance(book', 0, end)
           A == AccountsOf({"asset"})
           L == AccountsOf({"liability"})
           Q == AccountsOf({"equity"})
           I == AccountsOf({"income", "expense"})
           X == {a \in Contra : TypeOf[a] \in {"asset"}}
           Y == {a \in Contra : TypeOf[a] \in {"liability"}}
           Z == {a \in Contra : TypeOf[a] \in {"equity"}}
           sum(g, S) == SumFunctionOnSet(g, S)
<1>1. HasLines(book) BY FiniteBook DEF FiscalInv
<1>2. \A a \in Accounts : f[a] \in Int BY <1>1, TrialBalanceIs
<1>3. \A a \in Nominal : h[a] = f[a] - f[a]
  <2>1. \A a \in Nominal : a \in Accounts /\ h[a] = f[a] + -f[a] BY CloseBooks DEF Nominal
  <2> HIDE DEF f, h
  <2> QED BY <1>2, <2>1
<1>4. retained \in Accounts /\ TypeOf[retained] = "equity" BY CloseIs
<1>5. /\ A \in SUBSET Permanent /\ L \in SUBSET Permanent /\ Q \in SUBSET Permanent
      /\ X \in SUBSET Permanent /\ Y \in SUBSET Permanent /\ Z \in SUBSET Permanent
      /\ I = Nominal /\ Nominal \subseteq Accounts
  BY FlagAssumption DEF AccountsOf, Nominal, Permanent
<1>6. /\ retained \notin A /\ retained \notin L /\ retained \in Q
      /\ retained \notin X /\ retained \notin Y /\ (retained \in Z <=> retained \in Contra)
  BY <1>4 DEF AccountsOf
<1>7. \A S \in SUBSET Permanent :
        sum(f, S) \in Int /\ sum(h, S) = sum(f, S) + IF retained \in S THEN N ELSE 0
  BY CloseOver
<1> HIDE DEF f, h, A, L, Q, I, X, Y, Z, N, sum
<1>8. \A a \in Nominal : h[a] = 0 BY <1>2, <1>3, <1>5
<1>9. /\ sum(h, A) = sum(f, A) /\ sum(h, L) = sum(f, L) /\ sum(h, Q) = sum(f, Q) + N
      /\ sum(h, X) = sum(f, X) /\ sum(h, Y) = sum(f, Y)
      /\ sum(h, Z) = sum(f, Z) + IF retained \in Contra THEN N ELSE 0
  BY <1>5, <1>6, <1>7
<1>10. sum(h, I) = 0
  <2>1. IsFiniteSet(I) /\ \A a \in I : h[a] = 0 BY <1>5, <1>8, FinitePositions, FS_Subset
  <2> QED BY <2>1, SumZero DEF sum
<1>11. /\ Total(book', 0, end, {"asset"}) = sum(h, A) /\ Total(book, 0, end, {"asset"}) = sum(f, A)
       /\ Total(book', 0, end, {"liability"}) = sum(h, L)
       /\ Total(book, 0, end, {"liability"}) = sum(f, L)
       /\ Total(book', 0, end, {"equity"}) = sum(h, Q) /\ Total(book, 0, end, {"equity"}) = sum(f, Q)
       /\ Total(book', 0, end, {"income", "expense"}) = sum(h, I)
  BY DEF Total, f, h, A, L, Q, I, sum
<1>12. /\ HeldContra(book', end, {"asset"}) = sum(h, X) /\ HeldContra(book, end, {"asset"}) = sum(f, X)
       /\ HeldContra(book', end, {"liability"}) = sum(h, Y)
       /\ HeldContra(book, end, {"liability"}) = sum(f, Y)
       /\ HeldContra(book', end, {"equity"}) = sum(h, Z)
       /\ HeldContra(book, end, {"equity"}) = sum(f, Z)
  BY DEF HeldContra, f, h, X, Y, Z, sum
<1> HIDE DEF end
<1> QED BY <1>8, <1>9, <1>10, <1>11, <1>12 DEF end, h, N

LEMMA OnlyCloseCloses ==
  ASSUME FiscalInv, [Next]_vars, NEW y \in DOMAIN years, Closes(y)
  PROVE  y \in Years /\ \E a \in Permanent : CloseFiscalYear(y, a)
<1>1. years[y].state = "open" /\ years'[y].state = "closed" BY DEF Closes
<1>2. years' # years BY <1>1
<1>3. Next BY <1>2 DEF vars
<1>4. ~\E m \in DraftIds : SaveDraft(m) \/ DeleteDraft(m) \/ PostMove(m)
  BY <1>2 DEF SaveDraft, DeleteDraft, PostMove
<1>5. ~\E m \in DraftIds, d \in EntryDates, e \in Entries : CreateDraft(m, d, e)
  BY <1>2 DEF CreateDraft, Prepare
<1>6. ~\E m \in DraftIds, d \in EntryDates : RevalueFX(m, d) BY <1>2 DEF RevalueFX, Prepare
<1>7. ~\E z \in Years, start \in Starts : CreateFiscalYear(z, start)
  BY <1>1 DEF CreateFiscalYear, Put
<1>8. ~\E z \in Years, n \in 1 .. Months, s \in AskedStates : ChangePeriodState(z, n, s)
  <2> SUFFICES ASSUME NEW z \in Years, NEW n \in 1 .. Months, NEW s, ChangePeriodState(z, n, s)
               PROVE  FALSE OBVIOUS
  <2>1. z \in DOMAIN years /\ years' = [years EXCEPT ![z].periods[n] = s] BY DEF ChangePeriodState
  <2>2. years[z] \in [start : Starts, state : {"open", "closed"}, periods : [1 .. Months -> PeriodStates]]
    BY <2>1 DEF FiscalInv, CalendarKept
  <2>3. years'[z].state = years[z].state /\ \A x \in DOMAIN years : x # z => years'[x] = years[x]
    BY <2>1, <2>2
  <2> QED BY <1>1, <2>3
<1>9. PICK z \in Years, a \in Permanent : CloseFiscalYear(z, a)
  BY <1>3, <1>4, <1>5, <1>6, <1>7, <1>8, StepIs
<1>10. years' = [years EXCEPT ![z].state = "closed"] BY <1>9 DEF CloseFiscalYear
<1>11. y = z BY <1>1, <1>10
<1> QED BY <1>9, <1>11

\* What the close of the year y does to the books as of its end.
Zeroed(y, b, c) ==
  LET end == End(y)
      result == BalanceSheet(b, end).income
  IN /\ \A a \in Nominal : NetUpTo(c, end, a) = 0
     /\ \E retained \in Accounts :
          /\ TypeOf[retained] = "equity"
          /\ \A a \in Permanent :
               NetUpTo(c, end, a) = NetUpTo(b, end, a) - (IF a = retained THEN result ELSE 0)
          /\ BalanceSheet(c, end).equity =
               BalanceSheet(b, end).equity - (IF retained \in Contra THEN 2 * result ELSE 0)
     /\ \A section \in {"assets", "liabilities"} :
          BalanceSheet(c, end)[section] = BalanceSheet(b, end)[section]

LEMMA ZeroesStep ==
  ASSUME FiscalInv, [Next]_vars, NEW y \in DOMAIN years, Closes(y)
  PROVE  Zeroed(y, book, book')
<1>1. PICK r \in Permanent : y \in Years /\ CloseFiscalYear(y, r) BY OnlyCloseCloses
<1>2. FiscalInv' BY <1>1, CloseKeeps
<1>3. HasLines(book) BY FiniteBook DEF FiscalInv
<1>4. HasLines(book') BY <1>2, FiniteBook DEF FiscalInv
<1>5. r \in Accounts \ Nominal /\ TypeOf[r] = "equity" BY <1>1, CloseIs
<1> DEFINE end == End(y)
           A(b) == Total(b, 0, end, {"asset"})
           L(b) == Total(b, 0, end, {"liability"})
           Q(b) == Total(b, 0, end, {"equity"})
           N(b) == Total(b, 0, end, {"income", "expense"})
           X(b) == HeldContra(b, end, {"asset"})
           Y(b) == HeldContra(b, end, {"liability"})
           Z(b) == HeldContra(b, end, {"equity"})
           result == BalanceSheet(book, end).income
<1>6. /\ \A a \in Nominal : TrialBalance(book', 0, end)[a] = 0
      /\ A(book') = A(book) /\ L(book') = L(book)
      /\ Q(book') = Q(book) + N(book) /\ N(book') = 0
      /\ X(book') = X(book) /\ Y(book') = Y(book)
      /\ Z(book') = Z(book) + IF r \in Contra THEN N(book) ELSE 0
  BY <1>1, CloseTotals
<1>7. \A b, a : a \in Accounts => TrialBalance(b, 0, end)[a] = NetUpTo(b, end, a)
  BY DEF TrialBalance, NetUpTo
<1>8. \A a \in Nominal : NetUpTo(book', end, a) = 0
  BY <1>6, <1>7 DEF Nominal
<1>9. N(book) \in Int /\ result = -N(book) BY <1>3, TotalInt, SheetIncome
<1>10. ASSUME NEW a \in Permanent
       PROVE  NetUpTo(book', end, a) = NetUpTo(book, end, a) - (IF a = r THEN result ELSE 0)
  <2>1. a \in Accounts /\ a \notin Nominal BY DEF Permanent
  <2>2. TrialBalance(book', 0, end)[a] =
          TrialBalance(book, 0, end)[a] + IF a = r THEN N(book) ELSE 0
    BY <1>1, <2>1, CloseBooks
  <2>3. TrialBalance(book, 0, end)[a] \in Int BY <1>3, <2>1, TrialBalanceIs
  <2>4. /\ TrialBalance(book', 0, end)[a] = NetUpTo(book', end, a)
        /\ TrialBalance(book, 0, end)[a] = NetUpTo(book, end, a) BY <1>7, <2>1
  <2> HIDE DEF result, N, end
  <2> QED BY <1>9, <2>2, <2>3, <2>4
<1>11. \A b : HasLines(b) =>
         /\ BalanceSheet(b, end).assets = A(b) - 2 * X(b)
         /\ BalanceSheet(b, end).liabilities = -L(b) + 2 * Y(b)
         /\ BalanceSheet(b, end).equity = -Q(b) + 2 * Z(b) - N(b)
         /\ Q(b) \in Int /\ N(b) \in Int /\ Z(b) \in Int
  BY SheetIs, SectionIs, TotalInt
<1> HIDE DEF end, A, L, Q, N, X, Y, Z, result
<1>12. /\ BalanceSheet(book', end).assets = BalanceSheet(book, end).assets
       /\ BalanceSheet(book', end).liabilities = BalanceSheet(book, end).liabilities
  BY <1>3, <1>4, <1>6, <1>11
<1>13. BalanceSheet(book', end).equity =
         BalanceSheet(book, end).equity - (IF r \in Contra THEN 2 * result ELSE 0)
  <2>1. /\ BalanceSheet(book, end).equity = -Q(book) + 2 * Z(book) - N(book)
        /\ BalanceSheet(book', end).equity = -Q(book') + 2 * Z(book') - N(book')
        /\ Q(book) \in Int /\ N(book) \in Int /\ Z(book) \in Int
    BY <1>3, <1>4, <1>11
  <2>2. /\ Q(book') = Q(book) + N(book) /\ N(book') = 0
        /\ Z(book') = Z(book) + IF r \in Contra THEN N(book) ELSE 0
    BY <1>6
  <2> QED BY <1>9, <2>1, <2>2
<1> QED BY <1>5, <1>8, <1>10, <1>12, <1>13 DEF Zeroed, end, result

\* The close of a year leaves no income or expense as of its end, whatever was posted,
\* revalued or closed before, and moves exactly the result the balance sheet showed into
\* one equity account (fiscalClosingLines).
THEOREM CloseLeavesNoResult == Spec => ClosingZeroes
<1> DEFINE Z == \A y \in DOMAIN years : Closes(y) => Zeroed(y, book, book')
<1>1. FiscalInv /\ [Next]_vars => Z BY ZeroesStep
<1>2. ClosingZeroes <=> [][Z]_vars BY DEF ClosingZeroes, Zeroed
<1> HIDE DEF Z
<1>3. Spec => [][Z]_vars BY <1>1, InvHolds, PTL DEF Spec
<1> QED BY <1>2, <1>3

-----------------------------------------------------------------------------
\* The cash flow statement.

\* What a move books on several accounts.
Amounts(move) == [a \in Accounts |-> Booked(move, a)]
On(move, S) == SumFunctionOnSet(Amounts(move), S)

LEMMA OnInt ==
  ASSUME NEW move, IsLines(move.lines), NEW S \in SUBSET Accounts
  PROVE  /\ IsFiniteSet(S) /\ On(move, S) \in Int
         /\ \A a \in Accounts : Amounts(move)[a] = Booked(move, a) /\ Amounts(move)[a] \in Int
<1>1. \A a \in Accounts : Amounts(move)[a] = Booked(move, a) /\ Amounts(move)[a] \in Int
  BY BookedInt DEF Amounts
<1>2. IsFiniteSet(S) BY FinitePositions, FS_Subset
<1>3. \A a \in S : Amounts(move)[a] \in Int BY <1>1
<1>4. SumFunctionOnSet(Amounts(move), S) \in Int BY <1>2, <1>3, SumLaws
<1> QED BY <1>1, <1>2, <1>4 DEF On

\* Accounts that a move does not touch may be left out.
LEMMA OnTouched ==
  ASSUME NEW move, IsLines(move.lines), NEW S \in SUBSET Accounts, NEW T \in SUBSET S,
         \A a \in S \ T : ~Touches(move, a)
  PROVE  On(move, S) = On(move, T)
<1> DEFINE f == Amounts(move)
<1>1. IsFiniteSet(S) /\ \A a \in T : f[a] \in Int BY OnInt
<1>2. \A a \in S \ T : f[a] = 0 BY OnInt, BookedInt
<1> HIDE DEF f
<1>3. SumFunctionOnSet(f, S) = SumFunctionOnSet(f, T) BY <1>1, <1>2, SumWithin
<1> QED BY <1>3 DEF On, f

LEMMA OnNothing ==
  ASSUME NEW move, IsLines(move.lines), NEW S \in SUBSET Accounts, \A a \in S : ~Touches(move, a)
  PROVE  On(move, S) = 0
<1>1. On(move, S) = On(move, {}) BY OnTouched
<1> QED BY <1>1, SumEmpty DEF On

LEMMA OnUnion ==
  ASSUME NEW move, IsLines(move.lines), NEW S \in SUBSET Accounts, NEW T \in SUBSET Accounts,
         S \cap T = {}
  PROVE  On(move, S \cup T) = On(move, S) + On(move, T)
<1>1. IsFiniteSet(S) /\ IsFiniteSet(T) BY OnInt
<1>2. \A a \in S \cup T : Amounts(move)[a] \in Int BY OnInt
<1> QED BY <1>1, <1>2, SumUnion DEF On

LEMMA CashIs ==
  ASSUME NEW move, IsLines(move.lines)
  PROVE  CashAmount(move) = On(move, Cash)
<1> DEFINE f == [a \in Cash |-> Booked(move, a)]
<1>1. Cash \in SUBSET Accounts BY FlagAssumption
<1>2. IsFiniteSet(Cash) /\ \A a \in Cash : Amounts(move)[a] \in Int /\ f[a] = Amounts(move)[a]
  BY <1>1, OnInt
<1>3. CashAmount(move) = SumFunction(f) /\ DOMAIN f = Cash BY DEF CashAmount
<1> HIDE DEF f
<1>4. SumFunction(f) = SumFunctionOnSet(f, Cash) BY <1>3, SumFunctionIs
<1>5. SumFunctionOnSet(Amounts(move), Cash) = SumFunctionOnSet(f, Cash) BY <1>2, SumSame
<1> QED BY <1>3, <1>4, <1>5 DEF On

\* The rows of the trial balance add up what the moves of the range book.
LEMMA RowsByMove ==
  ASSUME NEW b, HasLines(b), NEW from, NEW to, NEW S \in SUBSET Accounts,
         NEW g, \A m \in PostedIn(b, from, to) : g[m] = On(b[m], S)
  PROVE  SumFunctionOnSet(TrialBalance(b, from, to), S) = SumFunctionOnSet(g, PostedIn(b, from, to))
<1> DEFINE ids == PostedIn(b, from, to)
           c == [m \in ids |-> [a \in S |-> Booked(b[m], a)]]
           row == [m \in ids |-> SumFunctionOnSet(c[m], S)]
           column == [a \in S |-> SumFunctionOnSet([m \in ids |-> c[m][a]], ids)]
           rows == TrialBalance(b, from, to)
<1>1. ids \in SUBSET DOMAIN b BY PostedInBook
<1>2. IsFiniteSet(ids) /\ IsFiniteSet(S) BY <1>1, FinitePositions, FS_Subset DEF HasLines
<1>3. ASSUME NEW m \in ids PROVE IsLines(b[m].lines) BY <1>1 DEF HasLines
<1>4. ASSUME NEW m \in ids, NEW a \in S
      PROVE  c[m][a] = Booked(b[m], a) /\ c[m][a] \in Int
  <2>1. Booked(b[m], a) \in Int BY <1>3, BookedInt
  <2> HIDE DEF ids
  <2> QED BY <2>1
<1>5. SumFunctionOnSet(row, ids) = SumFunctionOnSet(column, S)
  <2>1. \A m \in ids : \A a \in S : c[m][a] \in Int BY <1>4
  <2> HIDE DEF c, ids
  <2> QED BY <1>2, <2>1, SumSwap
<1>6. ASSUME NEW m \in ids PROVE row[m] = g[m] /\ row[m] \in Int
  <2> DEFINE h == c[m]
  <2>1. row[m] = SumFunctionOnSet(h, S)
    <3> HIDE DEF c, ids
    <3> QED OBVIOUS
  <2>2. \A a \in S : h[a] = Booked(b[m], a) /\ h[a] \in Int BY <1>4
  <2>3. \A a \in S : Amounts(b[m])[a] = h[a] BY <1>3, <2>2, OnInt
  <2>4. On(b[m], S) \in Int BY <1>3, OnInt
  <2> HIDE DEF h, row, c, ids
  <2>5. SumFunctionOnSet(h, S) = SumFunctionOnSet(Amounts(b[m]), S) BY <1>2, <2>2, <2>3, SumSame
  <2>6. g[m] = On(b[m], S) BY DEF ids
  <2> QED BY <2>1, <2>4, <2>5, <2>6 DEF On
<1>7. ASSUME NEW a \in S PROVE column[a] = rows[a] /\ column[a] \in Int
  <2>1. column[a] = SumFunctionOnSet([m \in ids |-> c[m][a]], ids)
    <3> HIDE DEF c, ids
    <3> QED OBVIOUS
  <2>2. [m \in ids |-> c[m][a]] = [m \in ids |-> Booked(b[m], a)] BY <1>4
  <2>3. a \in Accounts OBVIOUS
  <2>4. rows[a] = Net(b, ids, a) /\ rows[a] \in Int BY <2>3, TrialBalanceIs
  <2> HIDE DEF column, c, ids, rows
  <2> QED BY <2>1, <2>2, <2>4, NetIs
<1> HIDE DEF row, column, ids, rows, c
<1>8. SumFunctionOnSet(row, ids) = SumFunctionOnSet(g, ids) BY <1>2, <1>6, SumSame
<1>9. SumFunctionOnSet(column, S) = SumFunctionOnSet(rows, S) BY <1>2, <1>7, SumSame
<1> QED BY <1>5, <1>8, <1>9 DEF ids, rows

\* What a move adds to the flows outside of the operating ones.
Direct(move) ==
  IF CashAmount(move) # 0 /\ (Unclassified(move) \/ Activities(move) \in {{"investing"}, {"financing"}})
  THEN CashAmount(move) ELSE 0

LEMMA OthersAre ==
  ASSUME NEW move
  PROVE  /\ Counterparts(move) = Others(move.lines)
         /\ \A a \in Accounts \ Cash : Touches(move, a) <=> a \in Others(move.lines)
BY DEF Counterparts, Others, Touches

LEMMA SetsApart ==
  /\ Cash \in SUBSET Accounts /\ Nominal \in SUBSET Accounts /\ Working \in SUBSET Accounts
  /\ NonCash \in SUBSET Accounts /\ NonCash \ Cash \in SUBSET Accounts
  /\ Cash \cap Working = {} /\ Nominal \cap Working = {}
<1>1. Cash \in SUBSET Accounts /\ NonCash \in SUBSET Accounts BY FlagAssumption
<1>2. Nominal \in SUBSET Accounts /\ Working \in SUBSET Accounts BY DEF Nominal, Working
<1>3. Cash \cap Working = {} /\ Nominal \cap Working = {} BY DEF Working, Nominal
<1> QED BY <1>1, <1>2, <1>3

\* Where no cash account of a move is income or expense.
LEMMA NominalOutsideCash ==
  ASSUME NEW move, IsLines(move.lines), \A p \in DOMAIN move.lines : p[1] \notin Cash \cap Nominal
  PROVE  On(move, Nominal) = On(move, Nominal \ Cash)
<1>1. Nominal \in SUBSET Accounts /\ Nominal \ Cash \in SUBSET Nominal BY SetsApart
<1>2. \A a \in Nominal \ (Nominal \ Cash) : ~Touches(move, a) BY DEF Touches
<1> QED BY <1>1, <1>2, OnTouched

\* An even move: what it books on cash is the opposite of all the rest.
LEMMA CashAndTheRest ==
  ASSUME NEW move, IsLines(move.lines), IsEven(move.lines)
  PROVE  On(move, Cash) + On(move, Accounts \ Cash) = 0
<1>1. Cash \in SUBSET Accounts /\ Accounts \ Cash \in SUBSET Accounts
      /\ Cash \cap (Accounts \ Cash) = {} /\ Cash \cup (Accounts \ Cash) = Accounts
  BY FlagAssumption
<1>2. On(move, Cash \cup (Accounts \ Cash)) = On(move, Cash) + On(move, Accounts \ Cash)
  BY <1>1, OnUnion
<1>3. On(move, Accounts) = 0 BY BookedTotal DEF IsEven, On, Amounts
<1> QED BY <1>1, <1>2, <1>3

LEMMA OperationsExplained ==
  ASSUME NEW move, IsLines(move.lines), IsEven(move.lines), OfOperations(move.lines),
         \A p \in DOMAIN move.lines : p[1] \notin Cash \cap Nominal
  PROVE  /\ On(move, Cash) = -On(move, Nominal) + On(move, NonCash \ Cash) - On(move, Working)
         /\ Direct(move) = 0
<1>1. /\ Cash \in SUBSET Accounts /\ Nominal \in SUBSET Accounts /\ Working \in SUBSET Accounts
      /\ NonCash \ Cash \in SUBSET Accounts
      /\ Cash \cap Working = {} /\ Nominal \cap Working = {}
  BY SetsApart
<1>2. \A a \in Accounts \ Cash : Touches(move, a) <=> a \in Others(move.lines) BY OthersAre
<1>3. On(move, NonCash \ Cash) = 0
  <2>1. \A a \in NonCash \ Cash : ~Touches(move, a) BY <1>1, <1>2 DEF OfOperations
  <2> QED BY <1>1, <2>1, OnNothing
<1>4. On(move, Accounts \ Cash) = On(move, Nominal) + On(move, Working)
  <2> DEFINE M == Nominal \ Cash
  <2>1. M \in SUBSET Accounts /\ M \cup Working \in SUBSET (Accounts \ Cash) /\ M \cap Working = {}
    BY <1>1
  <2>2. ASSUME NEW a \in (Accounts \ Cash) \ (M \cup Working) PROVE ~Touches(move, a)
    <3>1. TypeOf[a] \in {"asset", "liability", "equity", "income", "expense"} BY TypeAssumption
    <3>2. SUFFICES ASSUME a \in Others(move.lines) PROVE FALSE BY <1>2
    <3>3. ActivityOf[a] = "operating" /\ TypeOf[a] # "equity" BY <3>2 DEF OfOperations
    <3> QED BY <2>2, <3>1, <3>3 DEF Nominal, Working
  <2>3. Accounts \ Cash \in SUBSET Accounts OBVIOUS
  <2>4. On(move, Nominal) = On(move, M) BY NominalOutsideCash
  <2> HIDE DEF M
  <2>5. On(move, Accounts \ Cash) = On(move, M \cup Working) BY <2>1, <2>2, <2>3, OnTouched
  <2>6. On(move, M \cup Working) = On(move, M) + On(move, Working) BY <1>1, <2>1, OnUnion
  <2> QED BY <2>4, <2>5, <2>6
<1>5. On(move, Cash) \in Int /\ On(move, Nominal) \in Int /\ On(move, Working) \in Int BY <1>1, OnInt
<1>6. On(move, Cash) + On(move, Accounts \ Cash) = 0 BY CashAndTheRest
<1>7. Direct(move) = 0
  <2>1. SUFFICES ASSUME CashAmount(move) # 0
                 PROVE  ~Unclassified(move) /\ Activities(move) \notin {{"investing"}, {"financing"}}
    BY DEF Direct
  <2>2. Counterparts(move) = Others(move.lines) BY OthersAre
  <2>3. PICK a \in Counterparts(move) : TRUE
    <3>1. SUFFICES ASSUME Others(move.lines) = {} PROVE FALSE BY <2>2
    <3>2. \A x \in Accounts \ Cash : ~Touches(move, x) BY <1>2, <3>1
    <3>3. On(move, Accounts \ Cash) = 0 BY <3>2, OnNothing
    <3> QED BY <1>5, <1>6, <2>1, <3>3, CashIs
  <2>4. \A x \in Counterparts(move) : ActivityOf[x] = "operating" BY <2>2 DEF OfOperations
  <2>5. "operating" \in Activities(move) BY <2>3, <2>4 DEF Activities
  <2> QED BY <2>4, <2>5 DEF Unclassified
<1> QED BY <1>3, <1>4, <1>5, <1>6, <1>7

LEMMA OutsideExplained ==
  ASSUME NEW move, IsLines(move.lines), OutsideOperations(move.lines),
         \A p \in DOMAIN move.lines : p[1] \notin Cash \cap Nominal,
         CashAmount(move) = 0 \/ Unclassified(move) \/ ~(Cardinality(Activities(move)) > 1)
  PROVE  /\ On(move, Nominal) = On(move, NonCash \ Cash) /\ On(move, Working) = 0
         /\ Direct(move) = CashAmount(move)
<1>1. /\ Cash \in SUBSET Accounts /\ Nominal \in SUBSET Accounts /\ Working \in SUBSET Accounts
      /\ NonCash \ Cash \in SUBSET Accounts
      /\ Cash \cap Working = {} /\ Nominal \cap Working = {}
  BY SetsApart
<1>2. \A a \in Accounts \ Cash : Touches(move, a) <=> a \in Others(move.lines) BY OthersAre
<1>3. \A a \in Others(move.lines) : a \notin Working /\ (a \in Nominal <=> a \in NonCash)
  BY DEF OutsideOperations
<1>4. On(move, Working) = 0
  <2>1. \A a \in Working : ~Touches(move, a) BY <1>1, <1>2, <1>3
  <2> QED BY <1>1, <2>1, OnNothing
<1>5. On(move, Nominal) = On(move, NonCash \ Cash)
  <2> DEFINE M == Nominal \ Cash
             both == M \cap NonCash
  <2>1. /\ both \in SUBSET M /\ both \in SUBSET (NonCash \ Cash) /\ M \in SUBSET Accounts BY <1>1
  <2>2. \A a \in M \ both : ~Touches(move, a) BY <1>1, <1>2, <1>3
  <2>3. \A a \in (NonCash \ Cash) \ both : ~Touches(move, a) BY <1>1, <1>2, <1>3
  <2>4. On(move, Nominal) = On(move, M) BY NominalOutsideCash
  <2> HIDE DEF both, M
  <2>5. On(move, M) = On(move, both) BY <2>1, <2>2, OnTouched
  <2>6. On(move, NonCash \ Cash) = On(move, both) BY <1>1, <2>1, <2>3, OnTouched
  <2> QED BY <2>4, <2>5, <2>6
<1>6. Direct(move) = CashAmount(move)
  <2>1. SUFFICES ASSUME CashAmount(move) # 0, ~Unclassified(move)
                 PROVE  Activities(move) \in {{"investing"}, {"financing"}}
    BY DEF Direct
  <2>2. \E p \in DOMAIN move.lines : p[1] \in Cash
    <3>1. SUFFICES ASSUME \A a \in Cash : ~Touches(move, a) PROVE FALSE BY DEF Touches
    <3>2. On(move, Cash) = 0 BY <1>1, <3>1, OnNothing
    <3> QED BY <2>1, <3>2, CashIs
  <2>3. \A a \in Counterparts(move) : ActivityOf[a] # "operating"
    BY <2>2, OthersAre DEF OutsideOperations
  <2>4. Activities(move) \subseteq {"investing", "financing"}
    <3>1. \A a \in Counterparts(move) :
            ActivityOf[a] \in {"operating", "investing", "financing", "none", "unclassified"}
      BY ActivityAssumption DEF Counterparts
    <3> QED BY <2>3, <3>1 DEF Activities
  <2>5. Activities(move) # {} BY <2>1 DEF Unclassified
  <2>6. Activities(move) # {"investing", "financing"}
    <3>1. SUFFICES ASSUME Activities(move) = {"investing", "financing"} PROVE FALSE OBVIOUS
    <3>2. IsFiniteSet({}) /\ Cardinality({}) = 0 BY FS_EmptySet
    <3>3. /\ IsFiniteSet({} \cup {"investing"})
          /\ Cardinality({} \cup {"investing"}) = Cardinality({}) + 1 BY <3>2, FS_AddElement
    <3>4. Cardinality(({} \cup {"investing"}) \cup {"financing"})
            = Cardinality({} \cup {"investing"}) + 1
      <4>1. "financing" \notin {} \cup {"investing"} OBVIOUS
      <4> QED BY <3>3, <4>1, FS_AddElement
    <3>5. ({} \cup {"investing"}) \cup {"financing"} = Activities(move) BY <3>1
    <3>6. Cardinality(Activities(move)) = 2 BY <3>2, <3>3, <3>4, <3>5
    <3> QED BY <2>1, <3>6
  <2> QED BY <2>4, <2>5, <2>6
<1> QED BY <1>4, <1>5, <1>6

\* The moves of one activity, those without one, and the cash that moves move.
OfActivity(b, moves, activity) ==
  {m \in moves : ~Unclassified(b[m]) /\ Activities(b[m]) = {activity}}
OfNone(b, moves) == {m \in moves : Unclassified(b[m])}
Flow(b, moves) == SumFunction([m \in moves |-> CashAmount(b[m])])

\* The flows outside of the operating ones, each move in its class.
LEMMA FlowsByMove ==
  ASSUME NEW b, HasLines(b), NEW ids \in SUBSET DOMAIN b, NEW moves,
         moves = {m \in ids : CashAmount(b[m]) # 0}, NEW g, \A m \in ids : g[m] = Direct(b[m])
  PROVE  /\ Flow(b, OfActivity(b, moves, "investing")) \in Int
         /\ Flow(b, OfActivity(b, moves, "financing")) \in Int
         /\ Flow(b, OfNone(b, moves)) \in Int
         /\ SumFunctionOnSet(g, ids) =
              Flow(b, OfActivity(b, moves, "investing")) + Flow(b, OfActivity(b, moves, "financing"))
              + Flow(b, OfNone(b, moves))
<1> DEFINE I == OfActivity(b, moves, "investing")
           F == OfActivity(b, moves, "financing")
           U == OfNone(b, moves)
<1>1. I \in SUBSET ids /\ F \in SUBSET ids /\ U \in SUBSET ids BY DEF OfActivity, OfNone
<1>2. I \cap F = {} /\ I \cap U = {} /\ F \cap U = {}
  <2>1. {"investing"} # {"financing"} OBVIOUS
  <2> QED BY <2>1 DEF OfActivity, OfNone
<1>3. IsFiniteSet(ids) /\ IsFiniteSet(I) /\ IsFiniteSet(F) /\ IsFiniteSet(U)
  BY <1>1, FS_Subset DEF HasLines
<1>4. ASSUME NEW m \in ids PROVE CashAmount(b[m]) \in Int
  <2>1. IsLines(b[m].lines) /\ Cash \in SUBSET Accounts BY FlagAssumption DEF HasLines
  <2> QED BY <2>1, CashIs, OnInt
<1>5. ASSUME NEW m \in ids PROVE g[m] = IF m \in I \cup F \cup U THEN CashAmount(b[m]) ELSE 0
  BY DEF Direct, OfActivity, OfNone
<1> HIDE DEF I, F, U
<1>6. ASSUME NEW s \in SUBSET ids, s \subseteq I \cup F \cup U PROVE SumFunctionOnSet(g, s) = Flow(b, s)
  <2> DEFINE f == [m \in s |-> CashAmount(b[m])]
  <2>1. \A m \in s : g[m] = CashAmount(b[m]) /\ g[m] \in Int BY <1>4, <1>5, <1>6
  <2>2. \A m \in s : g[m] \in Int /\ f[m] = g[m] BY <2>1
  <2>3. IsFiniteSet(s) BY <1>3, FS_Subset
  <2>4. DOMAIN f = s /\ Flow(b, s) = SumFunction(f) BY DEF Flow
  <2> HIDE DEF f
  <2>5. SumFunctionOnSet(g, s) = SumFunctionOnSet(f, s) BY <2>2, <2>3, SumSame
  <2> QED BY <2>4, <2>5, SumFunctionIs
<1>7. SumFunctionOnSet(g, ids) = SumFunctionOnSet(g, I \cup (F \cup U))
  <2>1. I \cup (F \cup U) \in SUBSET ids BY <1>1
  <2>2. \A m \in I \cup (F \cup U) : g[m] \in Int BY <1>1, <1>4, <1>5
  <2>3. \A m \in ids \ (I \cup (F \cup U)) : g[m] = 0 BY <1>5
  <2> QED BY <1>3, <2>1, <2>2, <2>3, SumWithin
<1>8. SumFunctionOnSet(g, I \cup (F \cup U)) = SumFunctionOnSet(g, I) + SumFunctionOnSet(g, F \cup U)
  <2>1. IsFiniteSet(F \cup U) /\ I \cap (F \cup U) = {} BY <1>2, <1>3, FS_Union
  <2>2. \A m \in I \cup (F \cup U) : g[m] \in Int BY <1>1, <1>4, <1>5
  <2> QED BY <1>3, <2>1, <2>2, SumUnion
<1>9. SumFunctionOnSet(g, F \cup U) = SumFunctionOnSet(g, F) + SumFunctionOnSet(g, U)
  <2>1. \A m \in F \cup U : g[m] \in Int BY <1>1, <1>4, <1>5
  <2> QED BY <1>2, <1>3, <2>1, SumUnion
<1>10. /\ SumFunctionOnSet(g, I) = Flow(b, I) /\ SumFunctionOnSet(g, F) = Flow(b, F)
       /\ SumFunctionOnSet(g, U) = Flow(b, U) BY <1>1, <1>6
<1>11. /\ SumFunctionOnSet(g, I) \in Int /\ SumFunctionOnSet(g, F) \in Int
       /\ SumFunctionOnSet(g, U) \in Int
  <2>1. \A m \in ids : g[m] \in Int BY <1>4, <1>5
  <2> QED BY <1>1, <1>3, <2>1, SumLaws
<1>12. SumFunctionOnSet(g, ids) = Flow(b, I) + Flow(b, F) + Flow(b, U)
  BY <1>7, <1>8, <1>9, <1>10, <1>11
<1> QED BY <1>10, <1>11, <1>12 DEF I, F, U

\* What a move on its own leaves unexplained.
Left(move) ==
  On(move, Cash) + On(move, Nominal) - On(move, NonCash \ Cash) + On(move, Working) - Direct(move)

LEMMA LeftInt ==
  ASSUME NEW move, IsLines(move.lines)
  PROVE  /\ On(move, Cash) \in Int /\ On(move, Nominal) \in Int /\ On(move, Working) \in Int
         /\ On(move, NonCash \ Cash) \in Int /\ Direct(move) \in Int /\ Left(move) \in Int
<1>1. /\ On(move, Cash) \in Int /\ On(move, Nominal) \in Int
      /\ On(move, NonCash \ Cash) \in Int /\ On(move, Working) \in Int
  BY SetsApart, OnInt
<1>2. Direct(move) \in Int BY <1>1, CashIs DEF Direct
<1> QED BY <1>1, <1>2 DEF Left

\* A move that mixes nothing leaves nothing.
LEMMA NothingLeft ==
  ASSUME NEW move, IsLines(move.lines), IsEven(move.lines), ~Mixes(move.lines),
         CashAmount(move) = 0 \/ Unclassified(move) \/ ~(Cardinality(Activities(move)) > 1)
  PROVE  Left(move) = 0
<1>1. /\ On(move, Cash) \in Int /\ On(move, Nominal) \in Int /\ On(move, Working) \in Int
      /\ On(move, NonCash \ Cash) \in Int /\ Direct(move) \in Int
  BY LeftInt
<1>2. \A p \in DOMAIN move.lines : p[1] \notin Cash \cap Nominal BY DEF Mixes
<1>3. CashAmount(move) = On(move, Cash) BY CashIs
<1>4. CASE OfOperations(move.lines)
  <2>1. /\ On(move, Cash) = -On(move, Nominal) + On(move, NonCash \ Cash) - On(move, Working)
        /\ Direct(move) = 0
    BY <1>2, <1>4, OperationsExplained
  <2> QED BY <1>1, <2>1 DEF Left
<1>5. CASE OutsideOperations(move.lines)
  <2>1. /\ On(move, Nominal) = On(move, NonCash \ Cash) /\ On(move, Working) = 0
        /\ Direct(move) = CashAmount(move)
    BY <1>2, <1>5, OutsideExplained
  <2> QED BY <1>1, <1>3, <2>1 DEF Left
<1> QED BY <1>4, <1>5 DEF Mixes

\* The statement of a range leaves what its moves leave, each on its own.
LEMMA DifferenceByMove ==
  ASSUME NEW b, HasLines(b), NEW from, NEW to,
         NEW g, \A m \in PostedIn(b, from, to) : g[m] = Left(b[m])
  PROVE  CashFlow(b, from, to).difference = SumFunctionOnSet(g, PostedIn(b, from, to))
<1> DEFINE ids == PostedIn(b, from, to)
           rows == TrialBalance(b, from, to)
           moves == CashMovements(b, from, to)
           x == Flow(b, OfActivity(b, moves, "investing"))
           y == Flow(b, OfActivity(b, moves, "financing"))
           z == Flow(b, OfNone(b, moves))
           c == [m \in ids |-> On(b[m], Cash)]
           n == [m \in ids |-> On(b[m], Nominal)]
           k == [m \in ids |-> On(b[m], NonCash \ Cash)]
           w == [m \in ids |-> On(b[m], Working)]
           d == [m \in ids |-> Direct(b[m])]
           s1 == [m \in ids |-> c[m] + n[m]]
           s2 == [m \in ids |-> s1[m] + w[m]]
           s3 == [m \in ids |-> k[m] + d[m]]
           s4 == [m \in ids |-> s3[m] + g[m]]
<1>1. ids \in SUBSET DOMAIN b BY PostedInBook
<1>2. IsFiniteSet(ids) BY <1>1, FS_Subset DEF HasLines
<1>3. /\ Cash \in SUBSET Accounts /\ Nominal \in SUBSET Accounts /\ Working \in SUBSET Accounts
      /\ NonCash \ Cash \in SUBSET Accounts
  BY SetsApart
<1>4. ASSUME NEW m \in ids
      PROVE  /\ On(b[m], Cash) \in Int /\ On(b[m], Nominal) \in Int
             /\ On(b[m], NonCash \ Cash) \in Int /\ On(b[m], Working) \in Int
             /\ Direct(b[m]) \in Int
             /\ g[m] = On(b[m], Cash) + On(b[m], Nominal) - On(b[m], NonCash \ Cash)
                       + On(b[m], Working) - Direct(b[m])
  <2>1. IsLines(b[m].lines) BY <1>1 DEF HasLines
  <2> QED BY <2>1, LeftInt DEF Left
<1>5. /\ SumFunctionOnSet(rows, Cash) = SumFunctionOnSet(c, ids)
      /\ SumFunctionOnSet(rows, Nominal) = SumFunctionOnSet(n, ids)
      /\ SumFunctionOnSet(rows, NonCash \ Cash) = SumFunctionOnSet(k, ids)
      /\ SumFunctionOnSet(rows, Working) = SumFunctionOnSet(w, ids)
  <2>1. \A S \in SUBSET Accounts : \A h : (\A m \in ids : h[m] = On(b[m], S))
          => SumFunctionOnSet(rows, S) = SumFunctionOnSet(h, ids)
    BY RowsByMove
  <2>2. \A m \in ids : /\ c[m] = On(b[m], Cash) /\ n[m] = On(b[m], Nominal)
                       /\ k[m] = On(b[m], NonCash \ Cash) /\ w[m] = On(b[m], Working)
    OBVIOUS
  <2> HIDE DEF c, n, k, w, ids, rows
  <2> QED BY <1>3, <2>1, <2>2
<1>6. x \in Int /\ y \in Int /\ z \in Int /\ SumFunctionOnSet(d, ids) = x + y + z
  <2>1. moves = {m \in ids : CashAmount(b[m]) # 0} /\ moves \in SUBSET ids BY DEF CashMovements
  <2>2. \A m \in ids : d[m] = Direct(b[m]) OBVIOUS
  <2> HIDE DEF d, ids, moves
  <2> QED BY <1>1, <2>1, <2>2, FlowsByMove
<1>7. CashFlow(b, from, to).difference =
        SumFunctionOnSet(rows, Cash)
        - (IncomeStatement(b, from, to).net + SumFunctionOnSet(rows, NonCash \ Cash)
             - SumFunctionOnSet(rows, Working)
           + x + y + z)
  BY DEF CashFlow, Working, Flow, OfActivity, OfNone
<1>8. IncomeStatement(b, from, to).net = -SumFunctionOnSet(rows, Nominal)
  <2>1. AccountsOf({"income", "expense"}) = Nominal BY DEF AccountsOf, Nominal
  <2> QED BY <2>1, IncomeIs DEF Total
<1>9. ASSUME NEW m \in ids
      PROVE  /\ c[m] \in Int /\ n[m] \in Int /\ k[m] \in Int /\ w[m] \in Int /\ d[m] \in Int
             /\ s1[m] \in Int /\ s2[m] \in Int /\ s3[m] \in Int /\ g[m] \in Int
             /\ s1[m] = c[m] + n[m] /\ s2[m] = s1[m] + w[m] /\ s3[m] = k[m] + d[m]
             /\ s4[m] = s3[m] + g[m] /\ s2[m] = s4[m]
  <2>1. s1[m] = c[m] + n[m] /\ s2[m] = s1[m] + w[m] /\ s3[m] = k[m] + d[m] /\ s4[m] = s3[m] + g[m]
    OBVIOUS
  <2>2. /\ c[m] \in Int /\ n[m] \in Int /\ k[m] \in Int /\ w[m] \in Int /\ d[m] \in Int
        /\ g[m] = c[m] + n[m] - k[m] + w[m] - d[m] BY <1>4
  <2> HIDE DEF c, n, k, w, d, s1, s2, s3, s4, ids
  <2> QED BY <2>1, <2>2
<1>10. \A f \in {c, n, k, w, d, g} : \A m \in ids : f[m] \in Int BY <1>9
<1> DEFINE sum(f) == SumFunctionOnSet(f, ids)
<1> HIDE DEF c, n, k, w, d, s1, s2, s3, s4, ids, rows
<1>11. sum(s1) = sum(c) + sum(n) BY <1>2, <1>9, SumPlus
<1>12. sum(s2) = sum(s1) + sum(w) BY <1>2, <1>9, SumPlus
<1>13. sum(s3) = sum(k) + sum(d) BY <1>2, <1>9, SumPlus
<1>14. sum(s4) = sum(s3) + sum(g) BY <1>2, <1>9, SumPlus
<1>15. sum(s2) = sum(s4) BY <1>2, <1>9, SumSame
<1>16. /\ sum(c) \in Int /\ sum(n) \in Int /\ sum(k) \in Int /\ sum(w) \in Int /\ sum(d) \in Int
       /\ sum(g) \in Int
  BY <1>2, <1>10, SumLaws
<1>17. sum(c) + sum(n) + sum(w) = sum(k) + (x + y + z) + sum(g)
  BY <1>6, <1>11, <1>12, <1>13, <1>14, <1>15
<1> HIDE DEF x, y, z
<1> DEFINE C == sum(c)
           N == sum(n)
           K == sum(k)
           W == sum(w)
           G == sum(g)
           D == x + y + z
<1>18. CashFlow(b, from, to).difference = C - (-N + K - W + x + y + z) BY <1>5, <1>7, <1>8
<1>19. SumFunctionOnSet(g, ids) = G OBVIOUS
<1>20. x \in Int /\ y \in Int /\ z \in Int BY <1>6
<1>21. C \in Int /\ N \in Int /\ K \in Int /\ W \in Int /\ G \in Int BY <1>16
<1>22. C + N + W = K + D + G BY <1>17
<1>23. D = x + y + z OBVIOUS
<1> HIDE DEF sum, C, N, K, W, G, D
<1>24. CashFlow(b, from, to).difference = G BY <1>18, <1>20, <1>21, <1>22, <1>23
<1> QED BY <1>19, <1>24 DEF ids

LEMMA LeftAlone ==
  ASSUME NEW b, HasLines(b), NEW from, NEW to, NEW m \in PostedIn(b, from, to)
  PROVE  CashFlow(Alone(b, m), from, to).difference = Left(b[m])
<1> DEFINE c == Alone(b, m)
           g == [x \in {m} |-> Left(b[m])]
<1>1. m \in DOMAIN b /\ IsLines(b[m].lines) BY PostedInBook DEF HasLines
<1>2. DOMAIN c = {m} /\ c[m] = b[m] BY DEF Alone
<1>3. HasLines(c)
  <2>1. IsFiniteSet(DOMAIN c) BY <1>2, FS_Singleton
  <2>2. \A x \in DOMAIN c : IsLines(c[x].lines) BY <1>1, <1>2
  <2> HIDE DEF c
  <2> QED BY <2>1, <2>2 DEF HasLines
<1>4. PostedIn(c, from, to) = {m} BY <1>2 DEF PostedIn, Posted
<1>5. g[m] = Left(b[m]) /\ Left(b[m]) \in Int BY <1>1, LeftInt
<1> HIDE DEF c, g
<1>6. \A x \in PostedIn(c, from, to) : g[x] = Left(c[x]) BY <1>2, <1>4, <1>5
<1>7. CashFlow(c, from, to).difference = SumFunctionOnSet(g, PostedIn(c, from, to))
  BY <1>3, <1>6, DifferenceByMove
<1>8. SumFunctionOnSet(g, {m}) = Left(b[m]) BY <1>5, SumSingle
<1> QED BY <1>4, <1>7, <1>8 DEF c

LEMMA RangeExplained ==
  ASSUME NEW b, EvenBook(b), NEW from, NEW to, ~CashFlowFails(b, from, to),
         NEW mixed, mixed = {m \in PostedIn(b, from, to) : Mixes(b[m].lines)}
  PROVE  CashFlow(b, from, to).difference =
           SumFunction([m \in mixed |-> CashFlow(Alone(b, m), from, to).difference])
<1> DEFINE ids == PostedIn(b, from, to)
           g == [m \in ids |-> Left(b[m])]
           h == [m \in mixed |-> CashFlow(Alone(b, m), from, to).difference]
<1>1. HasLines(b) /\ ids \in SUBSET DOMAIN b BY PostedInBook DEF EvenBook
<1>2. IsFiniteSet(ids) BY <1>1, FS_Subset DEF HasLines
<1>3. mixed \in SUBSET ids /\ IsFiniteSet(mixed) BY <1>2, FS_Subset
<1>4. ASSUME NEW m \in ids PROVE g[m] = Left(b[m]) /\ g[m] \in Int
  <2>1. IsLines(b[m].lines) BY <1>1 DEF HasLines
  <2> QED BY <2>1, LeftInt
<1>5. ASSUME NEW m \in ids \ mixed PROVE g[m] = 0
  <2>1. IsLines(b[m].lines) /\ IsEven(b[m].lines) BY <1>1 DEF EvenBook, HasLines
  <2>2. CashAmount(b[m]) = 0 \/ Unclassified(b[m]) \/ ~(Cardinality(Activities(b[m])) > 1)
    BY DEF CashFlowFails, CashMovements
  <2>3. ~Mixes(b[m].lines) OBVIOUS
  <2>4. Left(b[m]) = 0 BY <2>1, <2>2, <2>3, NothingLeft
  <2> QED BY <1>4, <2>4
<1>6. ASSUME NEW m \in mixed PROVE h[m] = g[m]
  <2>1. m \in ids BY <1>3
  <2>2. CashFlow(Alone(b, m), from, to).difference = Left(b[m]) BY <1>1, <2>1, LeftAlone
  <2>3. h[m] = CashFlow(Alone(b, m), from, to).difference OBVIOUS
  <2> HIDE DEF g, h, ids
  <2> QED BY <1>4, <2>1, <2>2, <2>3
<1>7. CashFlow(b, from, to).difference = SumFunctionOnSet(g, ids)
  BY <1>1, <1>4, DifferenceByMove
<1>8. DOMAIN h = mixed OBVIOUS
<1> HIDE DEF g, h, ids
<1>9. SumFunctionOnSet(g, ids) = SumFunctionOnSet(g, mixed) BY <1>2, <1>3, <1>4, <1>5, SumWithin
<1>10. SumFunctionOnSet(g, mixed) = SumFunctionOnSet(h, mixed)
  <2>1. \A m \in mixed : g[m] \in Int /\ h[m] = g[m] BY <1>3, <1>4, <1>6
  <2> QED BY <1>3, <2>1, SumSame
<1>11. SumFunction(h) = SumFunctionOnSet(h, mixed) BY <1>8, SumFunctionIs
<1> QED BY <1>7, <1>9, <1>10, <1>11 DEF h

\* What the cash flow statement of any range leaves unexplained is what its mixed moves
\* leave, each on its own, whatever the chart of accounts and the entries are, unless the
\* use case refuses the range for a move with counterparts in several activities.
THEOREM CashIsExplained == Spec => []CashFlowExplained
<1>1. FiscalInv => CashFlowExplained
  <2> SUFFICES ASSUME FiscalInv PROVE CashFlowExplained OBVIOUS
  <2>1. EvenBook(book) BY FiniteBook DEF FiscalInv
  <2> QED BY <2>1, RangeExplained DEF CashFlowExplained
<1> QED BY <1>1, InvHolds, PTL

=============================================================================
