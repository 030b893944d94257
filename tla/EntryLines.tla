---------------------------- MODULE EntryLines ----------------------------
(***************************************************************************)
(* The lines of a journal entry, as internal/features/accounting reads,    *)
(* validates, stores and mirrors them.  An entry is the pair of its debit  *)
(* and credit columns, one cell per account; an account whose two cells    *)
(* are zero has no line.  Amounts are counted in HALVES of the smallest    *)
(* amount the NUMERIC(28,4) columns of account_move_lines hold, so that an *)
(* odd amount is one a client may send and the column has to round.        *)
(***************************************************************************)
EXTENDS Integers, FiniteSets, Functions

CONSTANT Accounts

ASSUME AccountsFinite == IsFiniteSet(Accounts)

Columns == [Accounts -> Nat]
Entries == [debit : Columns, credit : Columns]

NoEntry == [debit |-> [a \in Accounts |-> 0], credit |-> [a \in Accounts |-> 0]]

Total(column) == FoldFunction(+, 0, column)

TotalDebit(e) == Total(e.debit)
TotalCredit(e) == Total(e.credit)

LinesOf(e) == {a \in Accounts : e.debit[a] > 0 \/ e.credit[a] > 0}

\* AccountMove.ValidateBalance: two lines or more, equal sides.  Signs and zero
\* lines are excluded by Columns and LinesOf.
Balanced(e) ==
  /\ Cardinality(LinesOf(e)) >= 2
  /\ TotalDebit(e) = TotalCredit(e)

\* What a NUMERIC(28,4) column keeps of an amount: half rounds away from zero.
RoundToColumn(x) == 2 * ((x + 1) \div 2)

Stored(e) ==
  [debit  |-> [a \in Accounts |-> RoundToColumn(e.debit[a])],
   credit |-> [a \in Accounts |-> RoundToColumn(e.credit[a])]]

\* The lines of a reversal: every debit becomes a credit and conversely.
Mirror(e) == [debit |-> e.credit, credit |-> e.debit]
=============================================================================
