-------------------------- MODULE MCReconciliation -------------------------
(***************************************************************************)
(* An invoice and two payments at other rates, two users.                  *)
(***************************************************************************)
EXTENDS Reconciliation

CONSTANTS w1, w2

TwoWorkers == {w1, w2}

OpenInvoice == <<[net |-> 10, foreign |-> 3], [net |-> -8, foreign |-> -2],
                 [net |-> -1, foreign |-> -1]>>

Item(l, a) == [line |-> l, amount |-> a]

\* One or two units against either payment in both orders, all at once, amounts that
\* differ, and the lines that the first FX move and its reversal leave.
Asked ==
  {<<Item(1, 2), Item(2, 2)>>, <<Item(2, 1), Item(1, 1)>>, <<Item(1, 1), Item(2, 1)>>,
   <<Item(3, 1), Item(1, 1)>>, <<Item(1, 3), Item(2, 2), Item(3, 1)>>,
   <<Item(1, 2), Item(2, 1)>>, <<Item(4, 1), Item(5, 1)>>, <<Item(1, 3), Item(4, 3)>>}
=============================================================================
