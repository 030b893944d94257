------------------------------ MODULE MCLedger ------------------------------
(* Small instances of Ledger for TLC. *)
EXTENDS Ledger, TLC

CONSTANTS cash, sales, tax, general, bank

\* n halves of the smallest column amount from sales to cash.
Simple(n) ==
  [debit  |-> [a \in Accounts |-> IF a = cash THEN n ELSE 0],
   credit |-> [a \in Accounts |-> IF a = sales THEN n ELSE 0]]

\* Balanced as submitted, not as stored: two credits of half a unit each round
\* up, the debit they pay for does not.
Fractional ==
  [debit  |-> [a \in Accounts |-> IF a = cash THEN 2 ELSE 0],
   credit |-> [a \in Accounts |-> IF a = cash THEN 0 ELSE 1]]

OneDraft == {Simple(2)}
LargeAndFractional == {Simple(6), Fractional}

\* Every journal keeps a prefix of its own; or one of them may trade it for an
\* earlier one, and back.
OwnPrefix == [j \in Journals |-> IF j = general THEN {5} ELSE {6}]
NewPrefix == [OwnPrefix EXCEPT ![general] = {3, 5}]

Symmetry == Permutations(MoveIds) \cup Permutations(Workers) \cup Permutations(Actors)
=============================================================================
