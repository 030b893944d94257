--------------------------- MODULE MCPostingLocks ---------------------------
(* Small instances of PostingLocks for TLC. *)
EXTENDS PostingLocks, TLC

CONSTANTS cash, sales, general, bank

OneDraft ==
  {[debit  |-> [a \in Accounts |-> IF a = cash THEN 2 ELSE 0],
    credit |-> [a \in Accounts |-> IF a = sales THEN 2 ELSE 0]]}

\* Each journal has a prefix of its own.
OwnPrefix == [j \in Journals |-> IF j = general THEN {5} ELSE {6}]

Symmetry == Permutations(MoveIds) \cup Permutations(Workers)
=============================================================================
