------------------------- MODULE MCChartOfAccounts -------------------------
(***************************************************************************)
(* Three accounts and one to be created, two users.                        *)
(***************************************************************************)
EXTENDS ChartOfAccounts, TLC

CONSTANTS a1, a2, a3, a4, w1, w2

Row(code, type, parent) == [code |-> code, type |-> type, parent |-> parent, active |-> TRUE]

FirstChart ==
  a1 :> Row("c1", "equity", None) @@ a2 :> Row("c2", "equity", a1)
    @@ a3 :> Row("c3", "asset", None)

Update(a, code, type, parent, active) ==
  [op |-> "update", account |-> a, code |-> code, type |-> type, parent |-> parent,
   active |-> active, at |-> 0]
Create(a, code, parent) ==
  [op |-> "create", account |-> a, code |-> code, type |-> "asset", parent |-> parent,
   active |-> TRUE]
Post(lines, role) == [op |-> "post", lines |-> lines, role |-> role, done |-> 0]

\* Moves under one another, changes of code and type, lines posted in both orders, and
\* a year closed into a2.
Asked ==
  {Update(a1, "c1", "equity", None, TRUE), Update(a1, "c1", "equity", a3, TRUE),
   Update(a3, "c3", "asset", a2, TRUE), Update(a3, "c4", "asset", None, FALSE),
   Update(a2, "c2", "asset", None, TRUE), Create(a4, "c4", a3),
   Post(<<a2, a3>>, "line"), Post(<<a3, a2>>, "retained"),
   [op |-> "configure", account |-> a2], [op |-> "map", debit |-> a3, credit |-> a2]}
=============================================================================
