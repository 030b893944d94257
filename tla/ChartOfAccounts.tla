-------------------------- MODULE ChartOfAccounts --------------------------
(***************************************************************************)
(* Accounts and what refers to them: CreateAccount, UpdateAccount, the     *)
(* accounting configuration, the subledger mapping of one event type, and  *)
(* transactions that post lines to accounts.  A request first reads in its *)
(* use case without locks, then runs the statements of its transaction     *)
(* one by one, under the locks PostgreSQL keeps until the commit: the      *)
(* advisory lock on the hierarchy, FOR UPDATE on an account, and the       *)
(* FOR KEY SHARE lock a foreign key takes on the account it refers to.     *)
(* Accounts are never deleted.                                             *)
(***************************************************************************)
EXTENDS Naturals, Sequences, FiniteSets

CONSTANTS
  Accounts, Codes, Types, None,
  Workers,        \* requests served at the same time
  FirstAccounts,  \* the chart at first
  Requests        \* what users ask for

Roles == {"line", "retained"}

\* The statements of UpdateAccount; the first two only when a parent is given.
Order == <<"hierarchy", "check", "row", "history", "write">>

\* Rows as the columns and the unique index allow them; a parent is an account.
Chart(rows) ==
  /\ DOMAIN rows \subseteq Accounts
  /\ \A a \in DOMAIN rows :
       /\ rows[a] \in [code : Codes, type : Types, parent : DOMAIN rows \cup {None},
                       active : BOOLEAN]
       /\ \A b \in DOMAIN rows \ {a} : rows[b].code # rows[a].code

\* Going from parent to parent ends: no group of accounts has all its parents in it.
Tree(rows) ==
  \A group \in SUBSET DOMAIN rows :
    group # {} => \E a \in group : rows[a].parent \notin group

CreateRequests == [op : {"create"}, account : Accounts, code : Codes, type : Types,
                   parent : Accounts \cup {None}, active : {TRUE}]
UpdateRequests == [op : {"update"}, account : Accounts, code : Codes, type : Types,
                   parent : Accounts \cup {None}, active : BOOLEAN, at : 0 .. Len(Order)]
PostRequests == [op : {"post"}, lines : Seq(Accounts), role : Roles, done : Nat]
ConfigureRequests == [op : {"configure"}, account : Accounts]
MapRequests == [op : {"map"}, debit : Accounts, credit : Accounts]

ASSUME ChartAssumption ==
  /\ IsFiniteSet(Accounts) /\ None \notin Accounts
  /\ Chart(FirstAccounts) /\ Tree(FirstAccounts)
ASSUME RequestAssumption ==
  Requests \subseteq CreateRequests \cup UpdateRequests \cup PostRequests
                      \cup ConfigureRequests \cup MapRequests

VARIABLES
  accounts,       \* table accounts
  posted,         \* accounts with lines of posted moves, and in which role
  configuration,  \* retained earnings account of accounting_configurations, or None
  mapping,        \* debit and credit account of the mapping, or None
  workers         \* requests in flight, with the statement they are at

vars == <<accounts, posted, configuration, mapping, workers>>
tables == <<accounts, posted, configuration, mapping>>

Ids == DOMAIN accounts
Idle == [op |-> "idle"]

Place(step) == CHOOSE i \in DOMAIN Order : Order[i] = step

Put(f, x, value) == [y \in DOMAIN f \cup {x} |-> IF y = x THEN value ELSE f[y]]
AccountOf(q) == [code |-> q.code, type |-> q.type, parent |-> q.parent, active |-> q.active]

\* No unique index on the code.
FreeBug(code, a) == TRUE

\* uq_accounts_code.
Free(code, a) == \A b \in Ids \ {a} : accounts[b].code # code

\* The rows are what the columns and the unique index allow; references are to rows.
TypeOK ==
  /\ Chart(accounts)
  /\ posted \subseteq Ids \X Roles
  /\ configuration \in Ids \cup {None}
  /\ mapping \in {None} \cup (Ids \X Ids)
  /\ DOMAIN workers = Workers

Init ==
  /\ accounts = FirstAccounts /\ posted = {} /\ configuration = None /\ mapping = None
  /\ workers = [w \in Workers |-> Idle]

-----------------------------------------------------------------------------
\* Locks.

Doing(w, op) == workers[w].op = op
At(w, step) == Doing(w, "update") /\ Order[workers[w].at] = step
Passed(w, step) == Doing(w, "update") /\ workers[w].at > Place(step)

HoldsHierarchy(w) == Passed(w, "hierarchy") /\ workers[w].parent # None
HoldsRow(w, a) == Passed(w, "row") /\ workers[w].account = a
Shares(w, a) == Doing(w, "post") /\ \E i \in 1 .. workers[w].done : workers[w].lines[i] = a

\* A foreign key waits for those who hold the row FOR UPDATE.
Referable(w, a) == \A v \in Workers \ {w} : ~HoldsRow(v, a)

Goes(w, request) == workers' = [workers EXCEPT ![w] = request]

Skipped(q, step) == q.parent = None /\ step \in {"hierarchy", "check"}
FollowingStep(q, at) ==
  CHOOSE i \in DOMAIN Order :
    /\ i > at /\ ~Skipped(q, Order[i])
    /\ \A j \in at + 1 .. i - 1 : Skipped(q, Order[j])
Advance(w) == Goes(w, [workers[w] EXCEPT !.at = FollowingStep(workers[w], @)])

\* Without the deferred rollback the transaction stays open.
RefuseBug(w) == UNCHANGED vars

\* An error: the transaction is rolled back.
Refuse(w) == Goes(w, Idle) /\ UNCHANGED tables

-----------------------------------------------------------------------------
\* What the use cases read before the transaction.

ParentUsable(q) ==
  q.parent # None => q.parent \in Ids /\ accounts[q.parent].active

\* UpdateAccountingConfiguration and validateClosingSetup read the same thing.
Equity(a) == a \in Ids /\ accounts[a].type = "equity"

CreateAccount(w, q) ==
  /\ q.op = "create" /\ q.account \notin Ids /\ Free(q.code, None) /\ ParentUsable(q)
  /\ Goes(w, q)

UpdateAccount(w, q) ==
  /\ q.op = "update" /\ q.account \in Ids /\ q.parent # q.account /\ ParentUsable(q)
  /\ Goes(w, [q EXCEPT !.at = FollowingStep(q, 0)])

UpdateAccountingConfiguration(w, q) == q.op = "configure" /\ Equity(q.account) /\ Goes(w, q)

SaveSubledgerMapping(w, q) == q.op = "map" /\ {q.debit, q.credit} \subseteq Ids /\ Goes(w, q)

\* A draft's lines, checked when the draft was saved; or those of a year-end close,
\* the last one for the retained earnings account.
PostMove(w, q) ==
  /\ q.op = "post" /\ \A i \in DOMAIN q.lines : q.lines[i] \in Ids
  /\ q.role = "retained" =>
       LET retained == q.lines[Len(q.lines)]
       IN configuration = retained /\ Equity(retained) /\ accounts[retained].active
  /\ Goes(w, [q EXCEPT !.done = 0])

Ask(w, q) ==
  /\ Doing(w, "idle") /\ UNCHANGED tables
  /\ \/ CreateAccount(w, q) \/ UpdateAccount(w, q) \/ PostMove(w, q)
     \/ UpdateAccountingConfiguration(w, q) \/ SaveSubledgerMapping(w, q)

-----------------------------------------------------------------------------
\* The statements of the transactions.

InsertAccount(w) ==
  LET q == workers[w]
  IN /\ Doing(w, "create") /\ (q.parent # None => Referable(w, q.parent))
     /\ IF q.account \notin Ids /\ Free(q.code, None)
        THEN /\ accounts' = Put(accounts, q.account, AccountOf(q)) /\ Goes(w, Idle)
             /\ UNCHANGED <<posted, configuration, mapping>>
        ELSE Refuse(w)

\* Takes no lock.
LockHierarchyBug(w) == At(w, "hierarchy") /\ Advance(w) /\ UNCHANGED tables

\* pg_advisory_xact_lock.
LockHierarchy(w) ==
  /\ At(w, "hierarchy") /\ \A v \in Workers \ {w} : ~HoldsHierarchy(v)
  /\ Advance(w) /\ UNCHANGED tables

Children(a) == {b \in Ids : accounts[b].parent = a}

\* WITH RECURSIVE descendants, the account itself included.
Descendants(a) ==
  LET within[n \in 0 .. Cardinality(Ids)] ==
        IF n = 0 THEN {a} ELSE within[n - 1] \cup UNION {Children(b) : b \in within[n - 1]}
  IN within[Cardinality(Ids)]

CheckHierarchy(w) ==
  /\ At(w, "check")
  /\ IF workers[w].parent \in Descendants(workers[w].account) THEN Refuse(w)
     ELSE Advance(w) /\ UNCHANGED tables

\* FOR NO KEY UPDATE: does not wait for foreign keys.
LockRowBug(w) ==
  /\ At(w, "row") /\ Referable(w, workers[w].account)
  /\ Advance(w) /\ UNCHANGED tables

\* SELECT code, account_type FROM accounts ... FOR UPDATE.
LockRow(w) ==
  /\ At(w, "row") /\ Referable(w, workers[w].account)
  /\ \A v \in Workers \ {w} : ~Shares(v, workers[w].account)
  /\ Advance(w) /\ UNCHANGED tables

Used(a) == \E role \in Roles : <<a, role>> \in posted

\* Another code or type only for an account without posted lines.
CheckHistory(w) ==
  LET q == workers[w]
      old == accounts[q.account]
  IN /\ At(w, "history")
     /\ IF (q.code # old.code \/ q.type # old.type) /\ Used(q.account) THEN Refuse(w)
        ELSE Advance(w) /\ UNCHANGED tables

WriteAccount(w) ==
  LET q == workers[w]
  IN /\ At(w, "write") /\ (q.parent # None => Referable(w, q.parent))
     /\ IF Free(q.code, q.account)
        THEN /\ accounts' = [accounts EXCEPT ![q.account] = AccountOf(q)] /\ Goes(w, Idle)
             /\ UNCHANGED <<posted, configuration, mapping>>
        ELSE Refuse(w)

\* insertMoveLines: one reference after the other.
InsertLine(w) ==
  LET q == workers[w]
  IN /\ Doing(w, "post") /\ q.done < Len(q.lines) /\ Referable(w, q.lines[q.done + 1])
     /\ Goes(w, [q EXCEPT !.done = @ + 1]) /\ UNCHANGED tables

CommitMove(w) ==
  LET q == workers[w]
      lines == {<<q.lines[i], IF i = Len(q.lines) THEN q.role ELSE "line">> : i \in DOMAIN q.lines}
  IN /\ Doing(w, "post") /\ q.done = Len(q.lines)
     /\ posted' = posted \cup lines /\ Goes(w, Idle)
     /\ UNCHANGED <<accounts, configuration, mapping>>

\* Always an INSERT, and uq_accounting_configurations_singleton allows one row.
InsertConfiguration(w) ==
  /\ Doing(w, "configure") /\ Referable(w, workers[w].account)
  /\ IF configuration = None
     THEN /\ configuration' = workers[w].account /\ Goes(w, Idle)
          /\ UNCHANGED <<accounts, posted, mapping>>
     ELSE Refuse(w)

\* INSERT ... ON CONFLICT (event_type) DO UPDATE.
SaveMapping(w) ==
  /\ Doing(w, "map")
  /\ Referable(w, workers[w].debit) /\ Referable(w, workers[w].credit)
  /\ mapping' = <<workers[w].debit, workers[w].credit>> /\ Goes(w, Idle)
  /\ UNCHANGED <<accounts, posted, configuration>>

Step(w) ==
  \/ InsertAccount(w) \/ LockHierarchy(w) \/ CheckHierarchy(w) \/ LockRow(w)
  \/ CheckHistory(w) \/ WriteAccount(w) \/ InsertLine(w) \/ CommitMove(w)
  \/ InsertConfiguration(w) \/ SaveMapping(w)

Next == \E w \in Workers : Step(w) \/ \E q \in Requests : Ask(w, q)

\* PostgreSQL queues those who wait for a lock and wakes them in turn.
Spec == Init /\ [][Next]_vars /\ \A w \in Workers : SF_vars(Step(w))

-----------------------------------------------------------------------------
\* Safety and liveness.

Roots == {a \in Ids : accounts[a].parent = None}

\* ListAccountsTree: the nodes reached from the roots.
Listed == UNION {Descendants(a) : a \in Roots}

\* The accounts always form a tree that lists each of them, whatever moves of accounts
\* under one another overlap.
TreeListsAll == Listed = Ids

\* "account code and type are immutable after posting": also when the account is
\* changed while a move is being posted to it.
UsedKeepCodeAndType ==
  [][\A a \in Ids : Used(a) =>
       accounts'[a].code = accounts[a].code /\ accounts'[a].type = accounts[a].type]_vars

\* No request waits for ever: the advisory lock, the rows and the foreign keys are
\* never taken in a ring.
RequestsEnd == \A w \in Workers : ~Doing(w, "idle") ~> Doing(w, "idle")

\* "retained earnings account must be active and have equity type" (year_close.go): a
\* year is never closed into an account of another type.
ClosedIntoEquity == \A a \in Ids : <<a, "retained">> \in posted => accounts[a].type = "equity"
=============================================================================
