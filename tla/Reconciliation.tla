-------------------------- MODULE Reconciliation ---------------------------
(***************************************************************************)
(* ReconcileMoveLines and UnreconcileMoveLines of                          *)
(* internal/reconciliation.go, statement by statement as far as the locks  *)
(* on the lines go: lines are locked one by one, in the order of the       *)
(* request or of their ids, and what follows (period, journal, audit log,  *)
(* the same order in every transaction) is one step with the commit.       *)
(*                                                                         *)
(* One reconcilable account is modelled.  Its lines are in a foreign       *)
(* currency at first; realized differences and their reversals add lines   *)
(* in the functional one.  Amounts are counted in the units the columns    *)
(* hold.                                                                   *)
(***************************************************************************)
EXTENDS Integers, Sequences, FiniteSets, Functions

CONSTANTS
  Workers,      \* requests served at the same time
  FirstLines,   \* the lines posted at first, 1 .. n -> [net, foreign]
  MaxMatches,   \* bound on the reconciliations ever made
  Requests      \* requests: sequences of [line, amount]

RecIds == 1 .. MaxMatches
FxLine(r) == Len(FirstLines) + 2 * r - 1
ReversalLine(r) == Len(FirstLines) + 2 * r
LineIds == 1 .. Len(FirstLines) + 2 * MaxMatches

Items == [line : LineIds, amount : Nat \ {0}]

ASSUME BoundAssumption == MaxMatches \in Nat
ASSUME LineAssumption ==
  /\ FirstLines \in Seq([net : Int, foreign : Int])
  /\ \A l \in DOMAIN FirstLines :
       FirstLines[l].net # 0 /\ FirstLines[l].foreign * FirstLines[l].net > 0
ASSUME RequestAssumption ==
  /\ Requests \subseteq Seq(Items)
  /\ \A q \in Requests :
       Len(q) >= 2 /\ \A i, j \in DOMAIN q : i # j => q[i].line # q[j].line

VARIABLES
  lines,       \* account_move_lines of the account, posted
  reconciled,  \* account_move_lines.reconciled_amount
  recs,        \* account_reconciliations with their items and FX moves
  workers      \* transactions in flight

vars == <<lines, reconciled, recs, workers>>

Put(f, x, value) == [y \in DOMAIN f \cup {x} |-> IF y = x THEN value ELSE f[y]]
Magnitude(x) == IF x < 0 THEN -x ELSE x

\* lockReconciliationLine: a line is settled in its foreign amount if it has one.
Capacity(l) ==
  Magnitude(IF lines[l].foreign = 0 THEN lines[l].net ELSE lines[l].foreign)
Side(l) == IF lines[l].net > 0 THEN 1 ELSE -1
Residual(l) == Capacity(l) - reconciled[l]
InForeign(l) == lines[l].foreign # 0

\* ListUnreconciledLines.
Unreconciled == {l \in DOMAIN lines : Residual(l) > 0}

\* The functional part of an allocation, rounded to the column unless it is whole.
Functional(l, amount) ==
  IF amount = Capacity(l) THEN Magnitude(lines[l].net)
  ELSE (2 * Magnitude(lines[l].net) * amount + Capacity(l)) \div (2 * Capacity(l))

Idle == [op |-> "idle"]
Transactions ==
  {Idle} \cup [op : {"reconcile", "unreconcile"}, rec : RecIds \cup {0},
               queue : Seq(Items), done : Nat]

\* The state of a reconciliation: its row is deleted when it is undone.  fx is what
\* the FX move books on the account, 0 when there is none.
RecRows == [live : BOOLEAN, queue : Seq(Items), fx : Int, reversals : Nat]

TypeOK ==
  /\ DOMAIN lines \subseteq LineIds /\ DOMAIN reconciled = DOMAIN lines
  /\ \A l \in DOMAIN lines : reconciled[l] \in Nat /\ lines[l] \in [net : Int, foreign : Int]
  /\ DOMAIN recs \subseteq RecIds /\ \A r \in DOMAIN recs : recs[r] \in RecRows
  /\ workers \in [Workers -> Transactions]

Init ==
  /\ lines = FirstLines /\ reconciled = [l \in DOMAIN FirstLines |-> 0]
  /\ recs = [r \in {} |-> 0] /\ workers = [w \in Workers |-> Idle]

-----------------------------------------------------------------------------
\* Locks on lines and reconciliations.

Doing(w, op) == workers[w].op = op
Busy == {w \in Workers : ~Doing(w, "idle")}
Held(w) == {workers[w].queue[i].line : i \in 1 .. workers[w].done}
Done(w) == workers[w].done = Len(workers[w].queue)

\* What the next statement locks, and what the transaction holds.  An unreconcile
\* without a queue has not locked its reconciliation yet.
Wanted(w) ==
  IF Doing(w, "unreconcile") /\ workers[w].queue = <<>> THEN {<<"rec", workers[w].rec>>}
  ELSE IF Done(w) THEN {} ELSE {<<"line", workers[w].queue[workers[w].done + 1].line>>}
Owned(w) ==
  {<<"line", l>> : l \in Held(w)} \cup
  (IF Doing(w, "unreconcile") /\ workers[w].queue # <<>>
   THEN {<<"rec", workers[w].rec>>} ELSE {})

WaitsFor(w, v) == v # w /\ Wanted(w) \cap Owned(v) # {}
Granted(w) == w \in Busy /\ \A v \in Busy : ~WaitsFor(w, v)

\* A ring of transactions that wait for each other.
Ring(ws) == ws # {} /\ \A w \in ws : \E v \in ws : WaitsFor(w, v)

\* Leaves the counter of the new line unset.
PostLineBug(l, net, counters) ==
  lines' = Put(lines, l, [net |-> net, foreign |-> 0]) /\ reconciled' = counters

\* insertMoveLines: a new line in the functional currency, nothing of it reconciled.
PostLine(l, net, counters) ==
  /\ lines' = Put(lines, l, [net |-> net, foreign |-> 0])
  /\ reconciled' = Put(counters, l, 0)

Goes(w, transaction) == workers' = [workers EXCEPT ![w] = transaction]
Rest == UNCHANGED <<lines, reconciled, recs>>

\* Only UnreconcileMoveLines defers the rollback.
RefuseBug(w) == Doing(w, "unreconcile") /\ Goes(w, Idle) /\ Rest

\* Any error: the transaction is rolled back and gives its locks back.
Refuse(w) == w \in Busy /\ Goes(w, Idle) /\ Rest

\* The deadlock detector aborts one transaction of a ring.
Victim(w) ==
  /\ \E ws \in SUBSET Busy : w \in ws /\ Ring(ws)
  /\ Goes(w, Idle) /\ Rest

-----------------------------------------------------------------------------
\* Reconciling.

Begin(w, queue) ==
  /\ Doing(w, "idle")
  /\ Goes(w, [op |-> "reconcile", rec |-> 0, queue |-> queue, done |-> 0])
  /\ Rest

\* Accepts the residual a screen showed before the line was locked.
AcceptsBug(w, item) ==
  /\ item.line \in DOMAIN lines
  /\ InForeign(item.line) <=> InForeign(workers[w].queue[1].line)
  /\ item.amount <= Capacity(item.line)

\* What ReconcileMoveLines asks of a line it has locked: one currency, and no more
\* than the residual.
Accepts(w, item) ==
  /\ item.line \in DOMAIN lines
  /\ InForeign(item.line) <=> InForeign(workers[w].queue[1].line)
  /\ item.amount <= Residual(item.line)

\* The line is locked, then read: a transaction that waited sees the last commit.
LockLine(w) ==
  /\ Doing(w, "reconcile") /\ ~Done(w) /\ Granted(w)
  /\ IF Accepts(w, workers[w].queue[workers[w].done + 1])
     THEN Goes(w, [workers[w] EXCEPT !.done = @ + 1]) ELSE Goes(w, Idle)
  /\ Rest

\* Debits less credits of the items, in the currency of the lines, and in the functional
\* one.
Signed(queue) ==
  SumFunction([i \in DOMAIN queue |-> Side(queue[i].line) * queue[i].amount])
InBooks(queue) ==
  SumFunction([i \in DOMAIN queue |->
    Side(queue[i].line) * Functional(queue[i].line, queue[i].amount)])

\* Credits the account with a gain.
RealizedBug(queue) == Magnitude(InBooks(queue))

\* postRealizedFXMove: the line the FX move books on the account takes away what the
\* allocations leave there in the functional currency.
Realized(queue) == -InBooks(queue)

Allocated(queue, l) ==
  SumFunctionOnSet([i \in DOMAIN queue |-> queue[i].amount],
                   {i \in DOMAIN queue : queue[i].line = l})

CommitReconcile(w) ==
  LET queue == workers[w].queue
      r == Cardinality(DOMAIN recs) + 1
      fx == Realized(queue)
      total == [l \in DOMAIN lines |-> reconciled[l] + Allocated(queue, l)]
  IN /\ Doing(w, "reconcile") /\ Done(w) /\ r \in RecIds
     /\ Signed(queue) = 0
     /\ recs' = Put(recs, r, [live |-> TRUE, queue |-> queue, fx |-> fx, reversals |-> 0])
     /\ IF fx = 0 THEN lines' = lines /\ reconciled' = total
        ELSE PostLine(FxLine(r), fx, total)
     /\ Goes(w, Idle)

-----------------------------------------------------------------------------
\* Undoing.

BeginUnreconcile(w, r) ==
  /\ Doing(w, "idle") /\ r \in DOMAIN recs
  /\ Goes(w, [op |-> "unreconcile", rec |-> r, queue |-> <<>>, done |-> 0])
  /\ Rest

\* Forgets ORDER BY move_line_id.
InOrderBug(queue) == queue

\* The items of a reconciliation ORDER BY move_line_id.
InOrder(queue) ==
  CHOOSE q \in [DOMAIN queue -> Range(queue)] :
    Range(q) = Range(queue) /\ \A i, j \in DOMAIN q : i < j => q[i].line < q[j].line

\* SELECT ... FROM account_reconciliations FOR UPDATE, and its items.
LockRec(w) ==
  /\ Doing(w, "unreconcile") /\ workers[w].queue = <<>> /\ Granted(w)
  /\ LET r == workers[w].rec
     IN IF recs[r].live THEN Goes(w, [workers[w] EXCEPT !.queue = InOrder(recs[r].queue)])
        ELSE Goes(w, Idle)
  /\ Rest

\* UPDATE ... WHERE reconciled_amount >= $2, not visible before the commit.
RestoreLine(w) ==
  /\ Doing(w, "unreconcile") /\ ~Done(w) /\ Granted(w)
  /\ LET item == workers[w].queue[workers[w].done + 1]
     IN IF reconciled[item.line] >= item.amount
        THEN Goes(w, [workers[w] EXCEPT !.done = @ + 1]) ELSE Goes(w, Idle)
  /\ Rest

\* The mirror of the FX move.
Reverse(r, counters) == PostLine(ReversalLine(r), -recs[r].fx, counters)

\* Reopens the lines altogether.
RestoredBug(queue) ==
  [l \in DOMAIN lines |-> IF Allocated(queue, l) > 0 THEN 0 ELSE reconciled[l]]

\* reconciled_amount = reconciled_amount - $2 for every item.
Restored(queue) == [l \in DOMAIN lines |-> reconciled[l] - Allocated(queue, l)]

\* Does not look for a reversal made by hand.
MayReverseBug(r) == TRUE

\* reversePostedMoveInTransaction: an FX move is reversed once.
MayReverse(r) == recs[r].reversals = 0

CommitUnreconcile(w) ==
  LET r == workers[w].rec
      left == Restored(workers[w].queue)
  IN /\ Doing(w, "unreconcile") /\ workers[w].queue # <<>> /\ Done(w)
     /\ IF recs[r].fx = 0
        THEN /\ recs' = [recs EXCEPT ![r].live = FALSE]
             /\ lines' = lines /\ reconciled' = left
        ELSE /\ MayReverse(r)
             /\ recs' = [recs EXCEPT ![r].live = FALSE, ![r].reversals = @ + 1]
             /\ Reverse(r, left)
     /\ Goes(w, Idle)

\* ReverseMoveAtomic applied to an FX move by a user.
ReverseByHand(r) ==
  /\ r \in DOMAIN recs /\ recs[r].fx # 0 /\ recs[r].reversals = 0
  /\ recs' = [recs EXCEPT ![r].reversals = 1]
  /\ Reverse(r, reconciled)
  /\ UNCHANGED workers

Step(w) == LockLine(w) \/ CommitReconcile(w) \/ LockRec(w) \/ RestoreLine(w) \/ CommitUnreconcile(w)

Next ==
  \/ \E w \in Workers :
       \/ \E q \in Requests : Begin(w, q)
       \/ \E r \in RecIds : BeginUnreconcile(w, r)
       \/ Step(w) \/ Refuse(w) \/ Victim(w)
  \/ \E r \in RecIds : ReverseByHand(r)

Spec == Init /\ [][Next]_vars

\* A transaction runs on when its lock is free; PostgreSQL queues those who wait for
\* a row, looks for rings, and a statement that fails rolls its transaction back.
Fairness ==
  \A w \in Workers :
    /\ SF_vars(Step(w)) /\ WF_vars(Victim(w)) /\ WF_vars(Refuse(w) /\ Done(w))

FairSpec == Spec /\ Fairness

-----------------------------------------------------------------------------
\* Safety and liveness.

InForce == {r \in DOMAIN recs : recs[r].live}

\* The counter of a line is the sum of what the reconciliations in force took off it,
\* and never exceeds the line.
ResidualsMatch ==
  \A l \in DOMAIN lines :
    /\ reconciled[l] = SumFunction([r \in InForce |-> Allocated(recs[r].queue, l)])
    /\ Residual(l) >= 0

\* When no foreign line is open any more, what the account still shows in the
\* functional currency is rounding: half a unit for every allocation in force.
\* An FX move a user reversed by hand is missing from the account.
SettledWithinRounding ==
  LET balance == SumFunction([l \in DOMAIN lines |-> lines[l].net])
      items == SumFunction([r \in InForce |-> Len(recs[r].queue)])
  IN (\A l \in Unreconciled : ~InForeign(l)) /\ (\A r \in InForce : recs[r].reversals = 0)
       => 2 * Magnitude(balance) <= items

\* The FX move of a reconciliation is reversed at most once, and has been when the
\* reconciliation is undone.
FxReversedOnce ==
  \A r \in DOMAIN recs :
    /\ recs[r].reversals <= 1 /\ (recs[r].fx = 0 => recs[r].reversals = 0)
    /\ ~recs[r].live /\ recs[r].fx # 0 => recs[r].reversals = 1

\* Transactions wait for each other in a ring only if one of them reconciles lines in
\* another order than that of their ids.
OnlyCrossedDeadlock ==
  \A ws \in SUBSET Busy : Ring(ws) =>
    \E w \in ws : Doing(w, "reconcile") /\ workers[w].queue # InOrder(workers[w].queue)

\* Every request ends, also when others keep asking for the same lines.
RequestsEnd == \A w \in Workers : w \in Busy ~> Doing(w, "idle")

\* What each reconciliation in force took off each of its lines.
MatchesInForce ==
  [r \in InForce |-> [l \in {recs[r].queue[i].line : i \in DOMAIN recs[r].queue} |->
                        Side(l) * Allocated(recs[r].queue, l)]]

Promised == INSTANCE OpenItems WITH
  MatchIds <- RecIds,
  Allotments <- {[l \in {q[i].line : i \in DOMAIN q} |-> Allocated(q, l)] : q \in Requests},
  open <- [l \in DOMAIN lines |-> Side(l) * Residual(l)],
  matches <- MatchesInForce

\* The transactions with their locks implement the promise.
ImplementsOpenItems == Promised!Spec
=============================================================================
