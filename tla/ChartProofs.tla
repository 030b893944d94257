---------------------------- MODULE ChartProofs ----------------------------
(***************************************************************************)
(* Proofs about module ChartOfAccounts: the rows keep their constraints,   *)
(* the accounts stay a tree in which each of them is listed, and code and  *)
(* type of an account with posted lines never change.                      *)
(***************************************************************************)
EXTENDS ChartOfAccounts, SumTheorems

-----------------------------------------------------------------------------
\* The inductive invariant, in terms of the row r of a request.

Past(r, n) == r.op = "update" /\ r.at > n

\* The advisory lock, FOR UPDATE and FOR KEY SHARE on account a.
Guards(r) == Past(r, 1) /\ r.parent # None
Owns(r, a) == Past(r, 3) /\ r.account = a
Refers(r, a) == r.op = "post" /\ \E i \in 1 .. r.done : r.lines[i] = a

Compatible(r, q) ==
  /\ ~(Guards(r) /\ Guards(q))
  /\ \A a \in Accounts : ~(Owns(r, a) /\ Owns(q, a)) /\ ~(Owns(r, a) /\ Refers(q, a))
                         /\ ~(Owns(q, a) /\ Refers(r, a))

\* Locks of two requests are compatible.
Exclusive(ws) == \A v, w \in Workers : v # w => Compatible(ws[v], ws[w])

\* What a request names exists.
Names(rows, r) ==
  \/ r = Idle
  \/ r \in CreateRequests /\ r.parent \in DOMAIN rows \cup {None}
  \/ r \in UpdateRequests /\ r.parent \in DOMAIN rows \cup {None} /\ r.account \in DOMAIN rows
     /\ r.at \in 1 .. 5
  \/ r \in PostRequests /\ (\A i \in 1 .. Len(r.lines) : r.lines[i] \in DOMAIN rows)
     /\ r.done \in 0 .. Len(r.lines)
  \/ r \in ConfigureRequests /\ r.account \in DOMAIN rows
  \/ r \in MapRequests /\ r.debit \in DOMAIN rows /\ r.credit \in DOMAIN rows

\* p is outside of a group that contains a and everything under its members.
Outside(rows, a, p) ==
  \E group \in SUBSET DOMAIN rows :
    /\ a \in group /\ p \notin group
    /\ \A b \in DOMAIN rows : rows[b].parent \in group => b \in group

\* What was checked is still so.
Checked(rows, lines, r) ==
  /\ Past(r, 2) /\ r.parent # None => Outside(rows, r.account, r.parent)
  /\ Past(r, 4) /\ (\E role \in Roles : <<r.account, role>> \in lines) =>
       rows[r.account].code = r.code /\ rows[r.account].type = r.type

References(rows, lines, retained, pair) ==
  /\ lines \subseteq (DOMAIN rows) \X Roles
  /\ retained \in DOMAIN rows \cup {None}
  /\ pair \in {None} \cup ((DOMAIN rows) \X (DOMAIN rows))

ChartInv ==
  /\ Chart(accounts) /\ Tree(accounts)
  /\ References(accounts, posted, configuration, mapping)
  /\ DOMAIN workers = Workers /\ Exclusive(workers)
  /\ \A w \in Workers : Names(accounts, workers[w]) /\ Checked(accounts, posted, workers[w])
-----------------------------------------------------------------------------
\* The statements of UpdateAccount by number.

LEMMA Places ==
  /\ DOMAIN Order = 1 .. 5 /\ Len(Order) = 5
  /\ Place("hierarchy") = 1 /\ Place("check") = 2 /\ Place("row") = 3
  /\ Place("history") = 4 /\ Place("write") = 5
<1>1. DOMAIN Order = 1 .. 5 /\ Len(Order) = 5 BY DEF Order
<1>2. \A i \in 1 .. 5 : i = 1 \/ i = 2 \/ i = 3 \/ i = 4 \/ i = 5 OBVIOUS
<1>3. /\ Order[1] = "hierarchy" /\ Order[2] = "check" /\ Order[3] = "row"
      /\ Order[4] = "history" /\ Order[5] = "write" BY DEF Order
<1>4. Place("hierarchy") = 1 BY <1>1, <1>2, <1>3 DEF Place
<1>5. Place("check") = 2 BY <1>1, <1>2, <1>3 DEF Place
<1>6. Place("row") = 3 BY <1>1, <1>2, <1>3 DEF Place
<1>7. Place("history") = 4 BY <1>1, <1>2, <1>3 DEF Place
<1>8. Place("write") = 5 BY <1>1, <1>2, <1>3 DEF Place
<1> QED BY <1>1, <1>4, <1>5, <1>6, <1>7, <1>8

LEMMA AtPlace ==
  ASSUME NEW w, Doing(w, "update"), workers[w].at \in 1 .. 5
  PROVE  /\ At(w, "hierarchy") <=> workers[w].at = 1
         /\ At(w, "check") <=> workers[w].at = 2
         /\ At(w, "row") <=> workers[w].at = 3
         /\ At(w, "history") <=> workers[w].at = 4
         /\ At(w, "write") <=> workers[w].at = 5
<1>1. /\ Order[1] = "hierarchy" /\ Order[2] = "check" /\ Order[3] = "row"
      /\ Order[4] = "history" /\ Order[5] = "write" BY DEF Order
<1> QED BY <1>1 DEF At

LEMMA Following ==
  ASSUME NEW q, NEW at \in 0 .. 4
  PROVE  FollowingStep(q, at) = IF q.parent = None /\ at < 3 THEN 3 ELSE at + 1
<1>1. /\ Order[1] = "hierarchy" /\ Order[2] = "check" /\ Order[3] = "row"
      /\ Order[4] = "history" /\ Order[5] = "write" BY DEF Order
<1>2. \A i \in 1 .. 5 : Skipped(q, Order[i]) <=> q.parent = None /\ i \in {1, 2}
  BY <1>1 DEF Skipped
<1> DEFINE n == IF q.parent = None /\ at < 3 THEN 3 ELSE at + 1
           Is(i) == i > at /\ ~Skipped(q, Order[i])
                    /\ \A j \in at + 1 .. i - 1 : Skipped(q, Order[j])
<1>3. n \in 1 .. 5 OBVIOUS
<1>4. Is(n) BY <1>2, <1>3
<1>5. \A i \in 1 .. 5 : Is(i) => i = n
  <2> SUFFICES ASSUME NEW i \in 1 .. 5, Is(i), i # n PROVE FALSE OBVIOUS
  <2>1. CASE i < n BY <1>2, <2>1
  <2>2. CASE i > n
    <3>1. n \in at + 1 .. i - 1 BY <2>2
    <3> QED BY <1>2, <1>3, <3>1
  <2> QED BY <2>1, <2>2
<1> HIDE DEF n, Is
<1>6. n = CHOOSE i \in 1 .. 5 : Is(i) BY <1>3, <1>4, <1>5
<1> QED BY <1>6, Places DEF FollowingStep, n, Is

LEMMA Locks ==
  ASSUME NEW w
  PROVE  /\ HoldsHierarchy(w) <=> Guards(workers[w])
         /\ \A a : HoldsRow(w, a) <=> Owns(workers[w], a)
         /\ \A a : Shares(w, a) <=> Refers(workers[w], a)
BY Places DEF HoldsHierarchy, HoldsRow, Shares, Passed, Doing, Guards, Owns, Refers, Past

-----------------------------------------------------------------------------
\* Requests.

LEMMA Symmetric == ASSUME NEW r, NEW q, Compatible(r, q) PROVE Compatible(q, r)
BY DEF Compatible

LEMMA IdleIsFree ==
  ASSUME NEW q, NEW rows, NEW lines
  PROVE  Compatible(q, Idle) /\ Names(rows, Idle) /\ Checked(rows, lines, Idle)
<1>1. Idle.op = "idle" BY DEF Idle
<1>2. ~Guards(Idle) /\ \A a : ~Owns(Idle, a) /\ ~Refers(Idle, a)
  BY <1>1 DEF Guards, Owns, Refers, Past
<1>3. Compatible(q, Idle) BY <1>2 DEF Compatible
<1>4. Checked(rows, lines, Idle) BY <1>1 DEF Checked, Past
<1> QED BY <1>3, <1>4 DEF Names

\* A request that only begins, or is not an update, holds no lock.
LEMMA Unlocked ==
  ASSUME NEW r, r.op # "update", r.op = "post" => r.done = 0, NEW rows, NEW lines, NEW q
  PROVE  Checked(rows, lines, r) /\ Compatible(q, r)
<1>1. ~Guards(r) /\ \A a : ~Owns(r, a) BY DEF Guards, Owns, Past
<1>2. \A a : ~Refers(r, a) BY DEF Refers
<1>3. Compatible(q, r) BY <1>1, <1>2 DEF Compatible
<1>4. Checked(rows, lines, r) BY DEF Checked, Past
<1> QED BY <1>3, <1>4

LEMMA StaysExclusive ==
  ASSUME NEW ws, DOMAIN ws = Workers, Exclusive(ws), NEW w \in Workers, NEW r,
         \A v \in Workers \ {w} : Compatible(ws[v], r)
  PROVE  Exclusive([ws EXCEPT ![w] = r])
<1> DEFINE wt == [ws EXCEPT ![w] = r]
<1> SUFFICES ASSUME NEW v \in Workers, NEW u \in Workers, v # u PROVE Compatible(wt[v], wt[u])
  BY DEF Exclusive
<1>1. CASE v = w
  <2>1. wt[v] = r /\ wt[u] = ws[u] BY <1>1
  <2>2. Compatible(ws[u], r) BY <1>1
  <2> HIDE DEF wt
  <2> QED BY <2>1, <2>2, Symmetric
<1>2. CASE u = w
  <2>1. wt[u] = r /\ wt[v] = ws[v] BY <1>2
  <2>2. Compatible(ws[v], r) BY <1>2
  <2> HIDE DEF wt
  <2> QED BY <2>1, <2>2
<1>3. CASE v # w /\ u # w
  <2>1. wt[u] = ws[u] /\ wt[v] = ws[v] BY <1>3
  <2>2. Compatible(ws[v], ws[u]) BY DEF Exclusive
  <2> HIDE DEF wt
  <2> QED BY <2>1, <2>2
<1> QED BY <1>1, <1>2, <1>3

\* A step that leaves the tables alone and its request as r.
LEMMA Replaced ==
  ASSUME ChartInv, NEW w \in Workers, NEW r, Goes(w, r), UNCHANGED tables,
         Names(accounts, r), Checked(accounts, posted, r),
         \A v \in Workers \ {w} : Compatible(workers[v], r)
  PROVE  ChartInv'
<1>1. workers' = [workers EXCEPT ![w] = r] BY DEF Goes
<1>2. UNCHANGED <<accounts, posted, configuration, mapping>> BY DEF tables
<1>3. Exclusive(workers) /\ DOMAIN workers = Workers BY DEF ChartInv
<1>4. Exclusive(workers') BY <1>1, <1>3, StaysExclusive
<1>5. ASSUME NEW v \in Workers
      PROVE  Names(accounts, workers'[v]) /\ Checked(accounts, posted, workers'[v])
  <2>1. CASE v = w
    <3>1. workers'[v] = r BY <1>1, <1>3, <2>1
    <3> QED BY <3>1
  <2>2. CASE v # w
    <3>1. workers'[v] = workers[v] BY <1>1, <1>3, <2>2
    <3> QED BY <3>1 DEF ChartInv
  <2> QED BY <2>1, <2>2
<1>6. /\ Chart(accounts) /\ Tree(accounts)
      /\ References(accounts, posted, configuration, mapping) BY DEF ChartInv
<1>7. DOMAIN workers' = Workers BY <1>1, <1>3
<1>8. \A v \in Workers : Names(accounts', workers'[v]) /\ Checked(accounts', posted', workers'[v])
  BY <1>2, <1>5
<1>9. /\ Chart(accounts') /\ Tree(accounts')
      /\ References(accounts', posted', configuration', mapping') BY <1>2, <1>6
<1> QED BY <1>4, <1>7, <1>8, <1>9 DEF ChartInv

LEMMA RefuseKeeps ==
  ASSUME ChartInv, NEW w \in Workers, Refuse(w)
  PROVE  ChartInv'
BY Replaced, IdleIsFree DEF Refuse

LEMMA Kinds ==
  ASSUME NEW q \in Requests
  PROVE  /\ q.op = "create" => q \in CreateRequests
         /\ q.op = "update" => q \in UpdateRequests
         /\ q.op = "post" => q \in PostRequests
         /\ q.op = "configure" => q \in ConfigureRequests
         /\ q.op = "map" => q \in MapRequests
<1>1. \/ q \in CreateRequests \/ q \in UpdateRequests \/ q \in PostRequests
      \/ q \in ConfigureRequests \/ q \in MapRequests BY RequestAssumption
<1>2. q \in CreateRequests => q.op = "create" BY DEF CreateRequests
<1>3. q \in UpdateRequests => q.op = "update" BY DEF UpdateRequests
<1>4. q \in PostRequests => q.op = "post" BY DEF PostRequests
<1>5. q \in ConfigureRequests => q.op = "configure" BY DEF ConfigureRequests
<1>6. q \in MapRequests => q.op = "map" BY DEF MapRequests
<1> QED BY <1>1, <1>2, <1>3, <1>4, <1>5, <1>6

\* An update that has not passed the hierarchy, or has no parent and not the row.
LEMMA Beginning ==
  ASSUME NEW r, r.op = "update", r.at \in Nat, r.at <= 3, r.at > 1 => r.parent = None,
         NEW rows, NEW lines, NEW q
  PROVE  Checked(rows, lines, r) /\ Compatible(q, r)
<1>1. ~Guards(r) /\ \A a : ~Owns(r, a) /\ ~Refers(r, a) BY DEF Guards, Owns, Refers, Past
<1>2. Compatible(q, r) BY <1>1 DEF Compatible
<1>3. Checked(rows, lines, r) BY DEF Checked, Past
<1> QED BY <1>2, <1>3

LEMMA AskKeeps ==
  ASSUME ChartInv, NEW w \in Workers, NEW q \in Requests, Ask(w, q)
  PROVE  ChartInv'
<1>0. UNCHANGED tables BY DEF Ask
<1>1. CASE CreateAccount(w, q)
  <2>1. q \in CreateRequests /\ q.op = "create" BY <1>1, Kinds DEF CreateAccount
  <2>2. q.parent \in Ids \cup {None} BY <1>1 DEF CreateAccount, ParentUsable
  <2>3. Names(accounts, q) BY <2>1, <2>2 DEF Names, Ids
  <2>4. Goes(w, q) BY <1>1 DEF CreateAccount
  <2>5. \A v \in Workers : Checked(accounts, posted, q) /\ Compatible(workers[v], q)
    BY <2>1, Unlocked
  <2> QED BY <1>0, <2>3, <2>4, <2>5, Replaced
<1>2. CASE UpdateAccount(w, q)
  <2> DEFINE r == [q EXCEPT !.at = FollowingStep(q, 0)]
  <2>1. q \in UpdateRequests BY <1>2, Kinds DEF UpdateAccount
  <2>2. FollowingStep(q, 0) = IF q.parent = None THEN 3 ELSE 1 BY Following
  <2>3. /\ r \in UpdateRequests /\ r.op = "update" /\ r.parent = q.parent
        /\ r.account = q.account /\ r.at = FollowingStep(q, 0)
    BY <2>1, <2>2, Places DEF UpdateRequests
  <2>4. q.parent \in Ids \cup {None} /\ q.account \in Ids /\ Goes(w, r)
    BY <1>2 DEF UpdateAccount, ParentUsable
  <2> HIDE DEF r
  <2>5. r.at \in 1 .. 5 /\ r.at <= 3 /\ (r.at > 1 => r.parent = None) BY <2>2, <2>3
  <2>6. Names(accounts, r) BY <2>3, <2>4, <2>5 DEF Names, Ids
  <2>7. \A v \in Workers : Checked(accounts, posted, r) /\ Compatible(workers[v], r)
    BY <2>3, <2>5, Beginning
  <2> QED BY <1>0, <2>4, <2>6, <2>7, Replaced
<1>3. CASE PostMove(w, q)
  <2> DEFINE r == [q EXCEPT !.done = 0]
  <2>1. q \in PostRequests BY <1>3, Kinds DEF PostMove
  <2>2. r \in PostRequests /\ r.op = "post" /\ r.done = 0 /\ r.lines = q.lines
    BY <2>1 DEF PostRequests
  <2>3. q.lines \in Seq(Accounts) BY <2>1 DEF PostRequests
  <2>4. Len(q.lines) \in Nat /\ DOMAIN q.lines = 1 .. Len(q.lines) BY <2>3
  <2>5. \A i \in 1 .. Len(q.lines) : q.lines[i] \in Ids BY <1>3, <2>4 DEF PostMove
  <2>6. Goes(w, r) BY <1>3 DEF PostMove
  <2> HIDE DEF r
  <2>7. Names(accounts, r) BY <2>2, <2>4, <2>5 DEF Names, Ids
  <2>8. \A v \in Workers : Checked(accounts, posted, r) /\ Compatible(workers[v], r)
    BY <2>2, Unlocked
  <2> QED BY <1>0, <2>6, <2>7, <2>8, Replaced
<1>4. CASE UpdateAccountingConfiguration(w, q)
  <2>1. q \in ConfigureRequests /\ q.op = "configure"
    BY <1>4, Kinds DEF UpdateAccountingConfiguration
  <2>2. q.account \in Ids /\ Goes(w, q) BY <1>4 DEF UpdateAccountingConfiguration, Equity
  <2>3. Names(accounts, q) BY <2>1, <2>2 DEF Names, Ids
  <2>4. \A v \in Workers : Checked(accounts, posted, q) /\ Compatible(workers[v], q)
    BY <2>1, Unlocked
  <2> QED BY <1>0, <2>2, <2>3, <2>4, Replaced
<1>5. CASE SaveSubledgerMapping(w, q)
  <2>1. q \in MapRequests /\ q.op = "map" BY <1>5, Kinds DEF SaveSubledgerMapping
  <2>2. q.debit \in Ids /\ q.credit \in Ids /\ Goes(w, q) BY <1>5 DEF SaveSubledgerMapping
  <2>3. Names(accounts, q) BY <2>1, <2>2 DEF Names, Ids
  <2>4. \A v \in Workers : Checked(accounts, posted, q) /\ Compatible(workers[v], q)
    BY <2>1, Unlocked
  <2> QED BY <1>0, <2>2, <2>3, <2>4, Replaced
<1> QED BY <1>1, <1>2, <1>3, <1>4, <1>5 DEF Ask

-----------------------------------------------------------------------------
\* The recursive query.

\* Every set of numbers has a least one: induction for formulas that are sets.
LEMMA LeastNumber ==
  ASSUME NEW S \in SUBSET Nat, S # {}
  PROVE  \E n \in S : \A m \in S : n <= m
<1> PICK k \in S : TRUE OBVIOUS
<1> DEFINE F == {0 .. n : n \in {m \in S : m <= k}}
<1>1. IsFiniteSet(0 .. k) BY FS_Interval
<1>2. F \in SUBSET SUBSET (0 .. k) /\ F # {} OBVIOUS
<1>6. \A n \in S : n <= k => 0 .. n \in F OBVIOUS
<1>7. \A A \in F : \E n \in S : n <= k /\ A = 0 .. n OBVIOUS
<1> HIDE DEF F
<1>3. \E A \in F : \A B \in F : B \subseteq A => B = A
  <2> DEFINE T == 0 .. k
  <2>1. IsFiniteSet(T) /\ F \in SUBSET SUBSET T /\ F # {} BY <1>1, <1>2
  <2> HIDE DEF T
  <2> QED BY <2>1, LeastSubset
<1>8. PICK A \in F : \A B \in F : B \subseteq A => B = A BY <1>3
<1>4. PICK n \in S : n <= k /\ A = 0 .. n BY <1>8, <1>7
<1>5. ASSUME NEW m \in S PROVE n <= m
  <2> SUFFICES ASSUME m < n PROVE FALSE OBVIOUS
  <2>1. 0 .. m \in F BY <1>4, <1>6
  <2>2. 0 .. m \subseteq 0 .. n OBVIOUS
  <2>3. 0 .. m = 0 .. n BY <1>8, <1>4, <2>1, <2>2
  <2>4. n \in 0 .. n /\ n \notin 0 .. m OBVIOUS
  <2> QED BY <2>3, <2>4
<1> QED BY <1>5

Rounds(f, N, a) ==
  f = [n \in 0 .. N |-> IF n = 0 THEN {a} ELSE f[n - 1] \cup UNION {Children(b) : b \in f[n - 1]}]

LEMMA RoundsExist == ASSUME NEW a, NEW N \in Nat PROVE \E f : Rounds(f, N, a)
<1> DEFINE S == {m \in Nat : ~\E f : Rounds(f, m, a)}
           C(X) == UNION {Children(b) : b \in X}
<1> SUFFICES ASSUME S # {} PROVE FALSE OBVIOUS
<1>1. PICK m \in S : \A k \in S : m <= k BY LeastNumber
<1>2. CASE m = 0
  <2>1. Rounds([n \in 0 .. 0 |-> {a}], 0, a) BY DEF Rounds
  <2> QED BY <1>2, <2>1
<1>3. CASE m # 0
  <2>1. m - 1 \in Nat /\ m - 1 \notin S BY <1>1, <1>3
  <2>2. PICK f : Rounds(f, m - 1, a) BY <2>1
  <2> DEFINE g == [n \in 0 .. m |-> IF n = 0 THEN {a} ELSE f[n - 1] \cup C(f[n - 1])]
  <2>3. \A n \in 0 .. m - 1 : f[n] = IF n = 0 THEN {a} ELSE f[n - 1] \cup C(f[n - 1])
    BY <2>2 DEF Rounds
  <2>4. \A n \in 0 .. m : g[n] = IF n = 0 THEN {a} ELSE f[n - 1] \cup C(f[n - 1]) OBVIOUS
  <2> HIDE DEF C
  <2>9. g = [n \in 0 .. m |-> IF n = 0 THEN {a} ELSE f[n - 1] \cup C(f[n - 1])] OBVIOUS
  <2>10. 0 .. m - 1 \subseteq 0 .. m BY <2>1
  <2> HIDE DEF g
  <2>5. \A n \in 0 .. m - 1 : g[n] = f[n] BY <2>3, <2>4, <2>10
  <2>6. \A n \in 0 .. m : n # 0 => g[n - 1] = f[n - 1] BY <2>5
  <2>7. g = [n \in 0 .. m |-> IF n = 0 THEN {a} ELSE g[n - 1] \cup C(g[n - 1])] BY <2>6, <2>9
  <2>8. Rounds(g, m, a) BY <2>7 DEF Rounds, C
  <2> QED BY <2>8
<1> QED BY <1>2, <1>3

LEMMA DescendantsRounds ==
  ASSUME NEW a, Cardinality(Ids) \in Nat
  PROVE  \E f : Rounds(f, Cardinality(Ids), a) /\ Descendants(a) = f[Cardinality(Ids)]
<1> DEFINE N == Cardinality(Ids)
           f == CHOOSE g : Rounds(g, N, a)
<1>1. Rounds(f, N, a) BY RoundsExist
<1>2. Descendants(a) = f[N] BY DEF Descendants, Rounds
<1> QED BY <1>1, <1>2

\* As many rounds as there are accounts are enough: each adds an account or changes nothing.
LEMMA DescendantsClosed ==
  ASSUME Chart(accounts), NEW a \in Ids
  PROVE  /\ a \in Descendants(a) /\ Descendants(a) \subseteq Ids
         /\ \A b \in Ids : accounts[b].parent \in Descendants(a) => b \in Descendants(a)
<1>1. IsFiniteSet(Ids) BY FS_Subset, ChartAssumption DEF Chart, Ids
<1> DEFINE N == Cardinality(Ids)
           Closed(X) == \A b \in Ids : accounts[b].parent \in X => b \in X
<1>2. N \in Nat BY <1>1, FS_CardinalityType
<1>3. PICK f : Rounds(f, N, a) /\ Descendants(a) = f[N] BY <1>2, DescendantsRounds
<1> DEFINE C(X) == UNION {Children(b) : b \in X}
<1>4. \A X : X \subseteq Ids =>
        C(X) = {b \in Ids : accounts[b].parent \in X}
  BY DEF Children
<1>5. /\ f[0] = {a}
      /\ \A n \in 0 .. N : n # 0 => f[n] = f[n - 1] \cup C(f[n - 1])
  <2> HIDE DEF N
  <2>1. \A n \in 0 .. N :
          f[n] = IF n = 0 THEN {a} ELSE f[n - 1] \cup UNION {Children(b) : b \in f[n - 1]}
    BY <1>3, Zenon DEF Rounds
  <2>2. \A n \in 0 .. N : f[n] = IF n = 0 THEN {a} ELSE f[n - 1] \cup C(f[n - 1]) BY <2>1
  <2> HIDE DEF C
  <2>3. 0 \in 0 .. N BY <1>2
  <2> QED BY <2>2, <2>3
<1> HIDE DEF C
<1> DEFINE Fine(n) == /\ a \in f[n] /\ f[n] \subseteq Ids
                      /\ Closed(f[n]) \/ Cardinality(f[n]) >= n + 1
           S == {n \in 0 .. N : ~Fine(n)}
<1>6. S = {}
  <2> SUFFICES ASSUME S # {} PROVE FALSE OBVIOUS
  <2>1. S \in SUBSET Nat BY <1>2
  <2> HIDE DEF S
  <2>2. PICK n \in S : \A m \in S : n <= m BY <2>1, LeastNumber
  <2> USE DEF S
  <2>3. n \in 0 .. N /\ n \in Nat /\ ~Fine(n) BY <2>2
  <2>4. CASE n = 0
    <3>1. f[n] = {a} BY <1>5, <2>4
    <3>2. Cardinality({a}) = 1 BY FS_Singleton
    <3> QED BY <2>3, <2>4, <3>1, <3>2
  <2>5. CASE n # 0
    <3>1. n - 1 \in 0 .. N /\ n - 1 \notin S BY <1>2, <2>2, <2>3, <2>5
    <3>2. Fine(n - 1) BY <3>1
    <3> DEFINE X == f[n - 1]
    <3>3. /\ a \in X /\ X \subseteq Ids /\ (Closed(X) \/ Cardinality(X) >= n) BY <2>3, <3>2
    <3>4. f[n] = X \cup {b \in Ids : accounts[b].parent \in X}
      BY <1>4, <1>5, <2>3, <2>5, <3>3
    <3> HIDE DEF X
    <3>5. a \in f[n] /\ f[n] \subseteq Ids /\ X \subseteq f[n] BY <3>3, <3>4
    <3>6. CASE Closed(X)
      <4>1. f[n] = X BY <3>4, <3>6
      <4> QED BY <2>3, <3>5, <3>6, <4>1
    <3>7. CASE ~Closed(X)
      <4>1. PICK b \in Ids : accounts[b].parent \in X /\ b \notin X BY <3>7
      <4>2. b \in f[n] BY <3>4, <4>1
      <4>3. IsFiniteSet(X) /\ IsFiniteSet(f[n]) BY <1>1, <3>3, <3>5, FS_Subset
      <4>4. X \cup {b} \in SUBSET f[n] BY <3>5, <4>2
      <4>5. /\ Cardinality(X \cup {b}) = Cardinality(X) + 1
            /\ Cardinality(X \cup {b}) <= Cardinality(f[n])
        BY <4>1, <4>3, <4>4, FS_AddElement, FS_Subset
      <4>6. Cardinality(X) \in Nat /\ Cardinality(f[n]) \in Nat BY <4>3, FS_CardinalityType
      <4>7. Cardinality(X) >= n BY <3>3, <3>7
      <4>8. Cardinality(f[n]) >= n + 1 BY <2>3, <4>5, <4>6, <4>7
      <4> QED BY <2>3, <3>5, <4>8
    <3> QED BY <3>6, <3>7
  <2> QED BY <2>4, <2>5
<1>7. Fine(N) BY <1>2, <1>6
<1>8. Closed(f[N])
  <2> SUFFICES ASSUME Cardinality(f[N]) >= N + 1 PROVE FALSE BY <1>7
  <2>1. f[N] \in SUBSET Ids BY <1>7
  <2>2. Cardinality(f[N]) <= N BY <1>1, <2>1, FS_Subset
  <2>3. Cardinality(f[N]) \in Nat BY <1>1, <2>1, FS_Subset, FS_CardinalityType
  <2> QED BY <1>2, <2>2, <2>3
<1> QED BY <1>3, <1>7, <1>8

\* In a tree every account is reached from a root.
LEMMA TreeIsListed ==
  ASSUME Chart(accounts), Tree(accounts)
  PROVE  TreeListsAll
<1> DEFINE rest == Ids \ Listed
<1>1. \A a \in Roots : a \in Ids BY DEF Roots
<1>2. Listed \subseteq Ids BY <1>1, DescendantsClosed DEF Listed
<1>3. \A b \in Ids : accounts[b].parent \in Listed => b \in Listed
  BY <1>1, DescendantsClosed DEF Listed
<1>4. \A a \in Roots : a \in Listed BY <1>1, DescendantsClosed DEF Listed
<1>5. \A a \in Ids : accounts[a].parent \in Ids \cup {None} BY DEF Chart, Ids
<1>6. rest = {}
  <2> SUFFICES ASSUME rest # {} PROVE FALSE OBVIOUS
  <2>1. rest \in SUBSET DOMAIN accounts BY DEF Ids
  <2>2. PICK a \in rest : accounts[a].parent \notin rest BY <2>1 DEF Tree
  <2>3. accounts[a].parent \in Listed \cup {None} BY <1>5, <2>2
  <2>4. CASE accounts[a].parent = None BY <1>4, <2>2, <2>4 DEF Roots
  <2>5. CASE accounts[a].parent \in Listed BY <1>3, <2>2, <2>5
  <2> QED BY <2>3, <2>4, <2>5
<1> QED BY <1>2, <1>6 DEF TreeListsAll

-----------------------------------------------------------------------------
\* The statements of UpdateAccount.

LEMMA UpdateOf ==
  ASSUME ChartInv, NEW w \in Workers, Doing(w, "update")
  PROVE  /\ workers[w] \in UpdateRequests /\ workers[w].at \in 1 .. 5
         /\ workers[w].parent \in Ids \cup {None} /\ workers[w].account \in Ids
<1> DEFINE r == workers[w]
<1>1. Names(accounts, r) /\ r.op = "update" BY DEF ChartInv, Doing
<1>2. r # Idle BY <1>1 DEF Idle
<1>3. r \notin CreateRequests BY <1>1 DEF CreateRequests
<1>4. r \notin PostRequests BY <1>1 DEF PostRequests
<1>5. r \notin ConfigureRequests BY <1>1 DEF ConfigureRequests
<1>6. r \notin MapRequests BY <1>1 DEF MapRequests
<1> QED BY <1>1, <1>2, <1>3, <1>4, <1>5, <1>6 DEF Names, Ids

Onwards(r, q) ==
  /\ r \in UpdateRequests /\ r.op = "update"
  /\ r.account = q.account /\ r.code = q.code /\ r.type = q.type /\ r.parent = q.parent
  /\ r.at \in 1 .. 5 /\ r.at = IF q.parent = None /\ q.at < 3 THEN 3 ELSE q.at + 1

LEMMA Advanced ==
  ASSUME ChartInv, NEW w \in Workers, Doing(w, "update"), workers[w].at \in 1 .. 4, Advance(w)
  PROVE  \E r : Goes(w, r) /\ Onwards(r, workers[w]) /\ Names(accounts, r)
<1> DEFINE q == workers[w]
           r == [q EXCEPT !.at = FollowingStep(q, @)]
<1>1. /\ q \in UpdateRequests /\ q.op = "update" /\ q.parent \in Ids \cup {None} /\ q.account \in Ids
  BY UpdateOf DEF Doing
<1>2. FollowingStep(q, q.at) = IF q.parent = None /\ q.at < 3 THEN 3 ELSE q.at + 1 BY Following
<1>3. FollowingStep(q, q.at) \in 1 .. 5 BY <1>2
<1>4. /\ r \in UpdateRequests /\ r.op = "update" /\ r.account = q.account /\ r.code = q.code
      /\ r.type = q.type /\ r.parent = q.parent /\ r.at = FollowingStep(q, q.at)
  BY <1>1, <1>3, Places DEF UpdateRequests
<1>5. Goes(w, r) BY DEF Advance
<1> HIDE DEF r
<1>6. Onwards(r, q) BY <1>2, <1>3, <1>4 DEF Onwards
<1>7. Names(accounts, r) BY <1>1, <1>3, <1>4 DEF Names, Ids
<1> QED BY <1>5, <1>6, <1>7

LEMMA LockHierarchyKeeps ==
  ASSUME ChartInv, NEW w \in Workers, LockHierarchy(w)
  PROVE  ChartInv'
<1>1. Doing(w, "update") BY DEF LockHierarchy, At
<1>2. workers[w].at = 1 BY <1>1, UpdateOf, AtPlace DEF LockHierarchy
<1>3. PICK r : Goes(w, r) /\ Onwards(r, workers[w]) /\ Names(accounts, r)
  BY <1>1, <1>2, Advanced DEF LockHierarchy
<1>4. r.at \in {2, 3} /\ (r.at = 3 => r.parent = None) /\ r.op = "update" BY <1>2, <1>3 DEF Onwards
<1>5. Checked(accounts, posted, r) BY <1>4 DEF Checked, Past
<1>6. ASSUME NEW v \in Workers \ {w} PROVE Compatible(workers[v], r)
  <2>1. ~Guards(workers[v]) BY Locks DEF LockHierarchy
  <2>2. \A a : ~Owns(r, a) /\ ~Refers(r, a) BY <1>4 DEF Owns, Refers, Past
  <2> QED BY <2>1, <2>2 DEF Compatible
<1>7. UNCHANGED tables BY DEF LockHierarchy
<1> QED BY <1>3, <1>5, <1>6, <1>7, Replaced

LEMMA CheckHierarchyKeeps ==
  ASSUME ChartInv, NEW w \in Workers, CheckHierarchy(w)
  PROVE  ChartInv'
<1>1. CASE Refuse(w) BY <1>1, RefuseKeeps
<1>2. CASE /\ workers[w].parent \notin Descendants(workers[w].account)
           /\ Advance(w) /\ UNCHANGED tables
  <2> DEFINE q == workers[w]
  <2>1. Doing(w, "update") BY DEF CheckHierarchy, At
  <2>2. q.at = 2 /\ q.account \in Ids /\ q.op = "update"
    BY <2>1, UpdateOf, AtPlace DEF CheckHierarchy, Doing
  <2>3. PICK r : Goes(w, r) /\ Onwards(r, q) /\ Names(accounts, r) BY <1>2, <2>1, <2>2, Advanced
  <2>4. r.at = 3 /\ r.op = "update" /\ r.parent = q.parent /\ r.account = q.account
    BY <2>2, <2>3 DEF Onwards
  <2>5. Chart(accounts) BY DEF ChartInv
  <2> DEFINE under == Descendants(q.account)
  <2>6. /\ q.account \in under /\ under \in SUBSET Ids
        /\ \A b \in Ids : accounts[b].parent \in under => b \in under
    BY <2>2, <2>5, DescendantsClosed
  <2> HIDE DEF under
  <2>7. q.parent \notin under BY <1>2 DEF under
  <2>8. Outside(accounts, r.account, r.parent) BY <2>4, <2>6, <2>7 DEF Outside, Ids
  <2>9. Checked(accounts, posted, r) BY <2>4, <2>8 DEF Checked, Past
  <2>10. ASSUME NEW v \in Workers \ {w} PROVE Compatible(workers[v], r)
    <3>1. Compatible(workers[v], q) BY DEF ChartInv, Exclusive
    <3>2. Guards(r) => Guards(q) BY <2>2, <2>4 DEF Guards, Past
    <3>3. \A a : ~Owns(r, a) /\ ~Refers(r, a) BY <2>4 DEF Owns, Refers, Past
    <3> QED BY <3>1, <3>2, <3>3 DEF Compatible
  <2> QED BY <1>2, <2>3, <2>9, <2>10, Replaced
<1> QED BY <1>1, <1>2 DEF CheckHierarchy

LEMMA LockRowKeeps ==
  ASSUME ChartInv, NEW w \in Workers, LockRow(w)
  PROVE  ChartInv'
<1> DEFINE q == workers[w]
<1>1. Doing(w, "update") BY DEF LockRow, At
<1>2. q.at = 3 /\ q.op = "update" BY <1>1, UpdateOf, AtPlace DEF LockRow, Doing
<1>3. PICK r : Goes(w, r) /\ Onwards(r, q) /\ Names(accounts, r)
  BY <1>1, <1>2, Advanced DEF LockRow
<1>4. r.at = 4 /\ r.op = "update" /\ r.parent = q.parent /\ r.account = q.account
  BY <1>2, <1>3 DEF Onwards
<1>5. Checked(accounts, posted, q) BY DEF ChartInv
<1>6. Checked(accounts, posted, r) BY <1>2, <1>4, <1>5 DEF Checked, Past
<1>7. ASSUME NEW v \in Workers \ {w} PROVE Compatible(workers[v], r)
  <2>1. Compatible(workers[v], q) BY DEF ChartInv, Exclusive
  <2>2. Guards(r) => Guards(q) BY <1>2, <1>4 DEF Guards, Past
  <2>3. \A a : Owns(r, a) => a = q.account BY <1>4 DEF Owns
  <2>4. \A a : ~Refers(r, a) BY <1>4 DEF Refers
  <2>5. ~Owns(workers[v], q.account) /\ ~Refers(workers[v], q.account)
    BY Locks DEF LockRow, Referable
  <2> QED BY <2>1, <2>2, <2>3, <2>4, <2>5 DEF Compatible
<1>8. UNCHANGED tables BY DEF LockRow
<1> QED BY <1>3, <1>6, <1>7, <1>8, Replaced

LEMMA CheckHistoryKeeps ==
  ASSUME ChartInv, NEW w \in Workers, CheckHistory(w)
  PROVE  ChartInv'
<1> DEFINE q == workers[w]
           old == accounts[q.account]
<1>1. CASE Refuse(w) BY <1>1, RefuseKeeps
<1>2. CASE /\ ~((q.code # old.code \/ q.type # old.type) /\ Used(q.account))
           /\ Advance(w) /\ UNCHANGED tables
  <2>1. Doing(w, "update") BY DEF CheckHistory, At
  <2>2. q.at = 4 /\ q.op = "update" BY <2>1, UpdateOf, AtPlace DEF CheckHistory, Doing
  <2>3. PICK r : Goes(w, r) /\ Onwards(r, q) /\ Names(accounts, r) BY <1>2, <2>1, <2>2, Advanced
  <2>4. /\ r.at = 5 /\ r.op = "update" /\ r.parent = q.parent /\ r.account = q.account
        /\ r.code = q.code /\ r.type = q.type
    BY <2>2, <2>3 DEF Onwards
  <2>5. Checked(accounts, posted, q) BY DEF ChartInv
  <2>6. (\E role \in Roles : <<r.account, role>> \in posted) =>
          accounts[r.account].code = r.code /\ accounts[r.account].type = r.type
    BY <1>2, <2>4 DEF Used
  <2>7. Checked(accounts, posted, r) BY <2>2, <2>4, <2>5, <2>6 DEF Checked, Past
  <2>8. ASSUME NEW v \in Workers \ {w} PROVE Compatible(workers[v], r)
    <3>1. Compatible(workers[v], q) BY DEF ChartInv, Exclusive
    <3>2. Guards(r) => Guards(q) BY <2>2, <2>4 DEF Guards, Past
    <3>3. \A a : (Owns(r, a) => Owns(q, a)) /\ ~Refers(r, a)
      BY <2>2, <2>4 DEF Owns, Refers, Past
    <3> QED BY <3>1, <3>2, <3>3 DEF Compatible
  <2> QED BY <1>2, <2>3, <2>7, <2>8, Replaced
<1> QED BY <1>1, <1>2 DEF CheckHistory

-----------------------------------------------------------------------------
\* What a new or another row does to the chart.

Row(chart) == [code : Codes, type : Types, parent : DOMAIN chart \cup {None}, active : BOOLEAN]

LEMMA ChangedChart ==
  ASSUME NEW rows, Chart(rows), NEW a \in DOMAIN rows, NEW r \in Row(rows),
         \A b \in DOMAIN rows \ {a} : rows[b].code # r.code
  PROVE  Chart([rows EXCEPT ![a] = r])
<1> DEFINE new == [rows EXCEPT ![a] = r]
<1>1. DOMAIN new = DOMAIN rows /\ new[a] = r /\ \A b \in DOMAIN rows \ {a} : new[b] = rows[b]
  OBVIOUS
<1> HIDE DEF new
<1>2. ASSUME NEW b \in DOMAIN new
      PROVE  new[b] \in Row(new) /\ \A c \in DOMAIN new \ {b} : new[c].code # new[b].code
  <2>1. Row(new) = Row(rows) BY <1>1 DEF Row
  <2>2. \A c \in DOMAIN rows : rows[c] \in Row(rows) BY DEF Chart, Row
  <2>3. \A c \in DOMAIN rows : \A d \in DOMAIN rows \ {c} : rows[d].code # rows[c].code
    BY DEF Chart
  <2>4. new[b] \in Row(new) BY <1>1, <2>1, <2>2
  <2>5. \A c \in DOMAIN new \ {b} : new[c].code # new[b].code BY <1>1, <2>3
  <2> QED BY <2>4, <2>5
<1>3. DOMAIN new \subseteq Accounts BY <1>1 DEF Chart
<1>4. Chart(new) BY <1>2, <1>3 DEF Chart, Row
<1> QED BY <1>4 DEF new

\* Moving an account with all that is under it elsewhere keeps a tree.
LEMMA ChangedTree ==
  ASSUME NEW rows, Tree(rows), None \notin DOMAIN rows, NEW a \in DOMAIN rows, NEW r,
         r.parent # None => Outside(rows, a, r.parent)
  PROVE  Tree([rows EXCEPT ![a] = r])
<1> DEFINE new == [rows EXCEPT ![a] = r]
<1>1. DOMAIN new = DOMAIN rows /\ new[a] = r /\ \A b \in DOMAIN rows \ {a} : new[b] = rows[b]
  OBVIOUS
<1> HIDE DEF new
<1> SUFFICES ASSUME NEW group \in SUBSET DOMAIN rows, group # {},
                    \A b \in group : new[b].parent \in group
             PROVE  FALSE
  BY <1>1 DEF Tree, new
<1>2. CASE a \notin group
  <2>1. \A b \in group : rows[b].parent \in group BY <1>1, <1>2
  <2> QED BY <2>1 DEF Tree
<1>3. CASE a \in group
  <2>1. r.parent \in group /\ r.parent # None BY <1>1, <1>3
  <2>2. PICK under \in SUBSET DOMAIN rows :
          /\ a \in under /\ r.parent \notin under
          /\ \A b \in DOMAIN rows : rows[b].parent \in under => b \in under
    BY <2>1 DEF Outside
  <2>3. group \ under \in SUBSET DOMAIN rows /\ group \ under # {} BY <2>1, <2>2
  <2>4. PICK b \in group \ under : rows[b].parent \notin group \ under BY <2>3 DEF Tree
  <2>5. b # a /\ b \in DOMAIN rows BY <2>2, <2>4
  <2>6. rows[b].parent \in group BY <1>1, <2>4, <2>5
  <2>7. rows[b].parent \in under BY <2>4, <2>6
  <2> QED BY <2>2, <2>4, <2>5, <2>7
<1> QED BY <1>2, <1>3

\* Making an account a root takes nothing under another one.
LEMMA ChangedOutside ==
  ASSUME NEW rows, None \notin DOMAIN rows, NEW a \in DOMAIN rows, NEW r, r.parent = None,
         NEW b, NEW p, Outside(rows, b, p)
  PROVE  Outside([rows EXCEPT ![a] = r], b, p)
<1> DEFINE new == [rows EXCEPT ![a] = r]
<1>1. DOMAIN new = DOMAIN rows /\ new[a] = r /\ \A c \in DOMAIN rows \ {a} : new[c] = rows[c]
  OBVIOUS
<1> HIDE DEF new
<1>2. PICK group \in SUBSET DOMAIN rows :
        /\ b \in group /\ p \notin group
        /\ \A c \in DOMAIN rows : rows[c].parent \in group => c \in group
  BY DEF Outside
<1>3. \A c \in DOMAIN new : new[c].parent \in group => c \in group BY <1>1, <1>2
<1>4. Outside(new, b, p) BY <1>1, <1>2, <1>3 DEF Outside
<1> QED BY <1>4 DEF new

LEMMA InsertedChart ==
  ASSUME NEW rows, Chart(rows), NEW a \in Accounts, a \notin DOMAIN rows, NEW r \in Row(rows),
         \A b \in DOMAIN rows : rows[b].code # r.code
  PROVE  Chart(Put(rows, a, r))
<1> DEFINE new == Put(rows, a, r)
<1>1. /\ DOMAIN new = DOMAIN rows \cup {a} /\ new[a] = r
      /\ \A b \in DOMAIN rows : b # a /\ new[b] = rows[b] BY DEF Put
<1> HIDE DEF new
<1>2. ASSUME NEW b \in DOMAIN new
      PROVE  new[b] \in Row(new) /\ \A c \in DOMAIN new \ {b} : new[c].code # new[b].code
  <2>1. Row(rows) \subseteq Row(new) BY <1>1 DEF Row
  <2>2. \A c \in DOMAIN rows : rows[c] \in Row(rows) BY DEF Chart, Row
  <2>3. \A c \in DOMAIN rows : \A d \in DOMAIN rows \ {c} : rows[d].code # rows[c].code
    BY DEF Chart
  <2>4. new[b] \in Row(new) BY <1>1, <2>1, <2>2
  <2>5. \A c \in DOMAIN new \ {b} : new[c].code # new[b].code BY <1>1, <2>3
  <2> QED BY <2>4, <2>5
<1>3. DOMAIN new \subseteq Accounts BY <1>1 DEF Chart
<1>4. Chart(new) BY <1>2, <1>3 DEF Chart, Row
<1> QED BY <1>4 DEF new

LEMMA InsertedTree ==
  ASSUME NEW rows, Tree(rows), None \notin DOMAIN rows, NEW a, a \notin DOMAIN rows, NEW r,
         r.parent # a, \A b \in DOMAIN rows : rows[b].parent # a
  PROVE  Tree(Put(rows, a, r))
<1> DEFINE new == Put(rows, a, r)
<1>1. /\ DOMAIN new = DOMAIN rows \cup {a} /\ new[a] = r
      /\ \A b \in DOMAIN rows : b # a /\ new[b] = rows[b] BY DEF Put
<1> HIDE DEF new
<1> SUFFICES ASSUME NEW group \in SUBSET DOMAIN new, group # {},
                    \A b \in group : new[b].parent \in group
             PROVE  FALSE
  BY DEF Tree, new
<1>2. group \ {a} \in SUBSET DOMAIN rows BY <1>1
<1>3. \A b \in group \ {a} : rows[b].parent \in group \ {a} BY <1>1
<1>4. group \ {a} = {} BY <1>2, <1>3 DEF Tree
<1>5. group = {a} BY <1>4
<1> QED BY <1>1, <1>5

LEMMA InsertedOutside ==
  ASSUME NEW rows, NEW a, a \notin DOMAIN rows, NEW r, \A b \in DOMAIN rows : rows[b].parent # a,
         r.parent # a, NEW b, NEW p, p # a, Outside(rows, b, p)
  PROVE  Outside(Put(rows, a, r), b, p)
<1> DEFINE new == Put(rows, a, r)
<1>1. /\ DOMAIN new = DOMAIN rows \cup {a} /\ new[a] = r
      /\ \A c \in DOMAIN rows : c # a /\ new[c] = rows[c] BY DEF Put
<1> HIDE DEF new
<1>2. PICK group \in SUBSET DOMAIN rows :
        /\ b \in group /\ p \notin group
        /\ \A c \in DOMAIN rows : rows[c].parent \in group => c \in group
  BY DEF Outside
<1>3. \A c \in DOMAIN new : new[c].parent \in group \cup {a} => c \in group \cup {a} BY <1>1, <1>2
<1>4. Outside(new, b, p) BY <1>1, <1>2, <1>3 DEF Outside
<1> QED BY <1>4 DEF new

-----------------------------------------------------------------------------
\* The statements that write.

LEMMA Ended ==
  ASSUME ChartInv, NEW w \in Workers, Goes(w, Idle),
         Chart(accounts'), Tree(accounts'),
         References(accounts', posted', configuration', mapping'),
         \A v \in Workers \ {w} :
           Names(accounts', workers[v]) /\ Checked(accounts', posted', workers[v])
  PROVE  ChartInv'
<1>1. workers' = [workers EXCEPT ![w] = Idle] BY DEF Goes
<1>2. Exclusive(workers) /\ DOMAIN workers = Workers BY DEF ChartInv
<1>3. \A v \in Workers \ {w} : Compatible(workers[v], Idle) BY IdleIsFree
<1>4. Exclusive(workers') BY <1>1, <1>2, <1>3, StaysExclusive
<1>5. DOMAIN workers' = Workers BY <1>1, <1>2
<1>6. workers'[w] = Idle /\ \A v \in Workers \ {w} : workers'[v] = workers[v] BY <1>1, <1>2
<1>7. ASSUME NEW v \in Workers
      PROVE  Names(accounts', workers'[v]) /\ Checked(accounts', posted', workers'[v])
  <2>1. CASE v = w BY <1>6, <2>1, IdleIsFree
  <2>2. CASE v # w
    <3>1. workers'[v] = workers[v] BY <1>6, <2>2
    <3>2. Names(accounts', workers[v]) /\ Checked(accounts', posted', workers[v]) BY <2>2
    <3> QED BY <3>1, <3>2
  <2> QED BY <2>1, <2>2
<1> QED BY <1>4, <1>5, <1>7 DEF ChartInv

LEMMA NamesGrow ==
  ASSUME NEW rows, NEW more, DOMAIN rows \subseteq DOMAIN more, NEW r, Names(rows, r)
  PROVE  Names(more, r)
BY DEF Names

LEMMA NoneIsNoId == ASSUME ChartInv PROVE None \notin Ids
BY ChartAssumption DEF ChartInv, Chart, Ids

LEMMA RowOfRequest ==
  ASSUME NEW q, q \in CreateRequests \cup UpdateRequests, q.parent \in Ids \cup {None}
  PROVE  /\ AccountOf(q) \in Row(accounts) /\ AccountOf(q).parent = q.parent
         /\ AccountOf(q).code = q.code /\ AccountOf(q).type = q.type
BY DEF AccountOf, Row, Ids, CreateRequests, UpdateRequests

LEMMA WriteAccountKeeps ==
  ASSUME ChartInv, NEW w \in Workers, WriteAccount(w)
  PROVE  ChartInv'
<1> DEFINE q == workers[w]
           a == q.account
           r == AccountOf(q)
<1>1. CASE Refuse(w) BY <1>1, RefuseKeeps
<1>2. CASE /\ Free(q.code, a) /\ accounts' = [accounts EXCEPT ![a] = r] /\ Goes(w, Idle)
           /\ UNCHANGED <<posted, configuration, mapping>>
  <2>1. Doing(w, "update") BY DEF WriteAccount, At
  <2>2. /\ q.at = 5 /\ q.op = "update" /\ q \in UpdateRequests /\ a \in Ids
        /\ q.parent \in Ids \cup {None}
    BY <2>1, UpdateOf, AtPlace DEF WriteAccount, Doing
  <2>3. r \in Row(accounts) /\ r.parent = q.parent /\ r.code = q.code /\ r.type = q.type
    BY <2>2, RowOfRequest
  <2>4. Chart(accounts) /\ Tree(accounts) /\ References(accounts, posted, configuration, mapping)
    BY DEF ChartInv
  <2>5. \A b \in DOMAIN accounts \ {a} : accounts[b].code # r.code
    <3>1. \A b \in Ids \ {a} : accounts[b].code # q.code BY <1>2 DEF Free
    <3>2. r.code = q.code BY <2>3
    <3> HIDE DEF r
    <3> QED BY <3>1, <3>2 DEF Ids
  <2>6. q.parent # None => Outside(accounts, a, q.parent)
    BY <2>2 DEF ChartInv, Checked, Past
  <2>7. a \in DOMAIN accounts /\ None \notin DOMAIN accounts BY <2>2, NoneIsNoId DEF Ids
  <2> HIDE DEF r
  <2>8. Chart(accounts') BY <1>2, <2>3, <2>4, <2>5, <2>7, ChangedChart
  <2>9. Tree(accounts') BY <1>2, <2>3, <2>4, <2>6, <2>7, ChangedTree
  <2>10. DOMAIN accounts' = DOMAIN accounts BY <1>2
  <2>11. References(accounts', posted', configuration', mapping')
    BY <1>2, <2>4, <2>10 DEF References
  <2>12. ASSUME NEW v \in Workers \ {w}
         PROVE  Names(accounts', workers[v]) /\ Checked(accounts', posted', workers[v])
    <3> DEFINE p == workers[v]
    <3>1. Names(accounts, p) /\ Checked(accounts, posted, p) /\ Compatible(p, q)
      BY DEF ChartInv, Exclusive
    <3>2. Names(accounts', p) BY <2>10, <3>1, NamesGrow
    <3>7. Past(p, 2) => p.at \in 1 .. 5
      <4> SUFFICES ASSUME p.op = "update" PROVE p.at \in 1 .. 5 BY DEF Past
      <4>1. Doing(v, "update") BY DEF Doing
      <4> QED BY <4>1, UpdateOf
    <3>8. Past(p, 4) => p.at \in 1 .. 5
      <4> SUFFICES ASSUME p.op = "update" PROVE p.at \in 1 .. 5 BY DEF Past
      <4>1. Doing(v, "update") BY DEF Doing
      <4> QED BY <4>1, UpdateOf
    <3>3. ASSUME Past(p, 2), p.parent # None PROVE Outside(accounts', p.account, p.parent)
      <4>1. Past(p, 1) BY <3>3, <3>7 DEF Past
      <4>2. Guards(p) BY <3>3, <4>1 DEF Guards
      <4>3. q.parent = None BY <2>2, <3>1, <4>2 DEF Compatible, Guards, Past
      <4>4. Outside(accounts, p.account, p.parent) BY <3>1, <3>3 DEF Checked
      <4> QED BY <1>2, <2>3, <2>7, <4>3, <4>4, ChangedOutside
    <3>4. ASSUME Past(p, 4), \E role \in Roles : <<p.account, role>> \in posted
          PROVE  accounts'[p.account].code = p.code /\ accounts'[p.account].type = p.type
      <4>1. DOMAIN accounts \subseteq Accounts BY <2>4 DEF Chart
      <4>2. a \in Accounts /\ Owns(q, a) BY <2>2, <2>7, <4>1 DEF Owns, Past
      <4>3. ~Owns(p, a) BY <3>1, <4>2 DEF Compatible
      <4>4. p.at > 3 BY <3>4, <3>8 DEF Past
      <4>5. p.account # a BY <3>4, <4>3, <4>4 DEF Owns, Past
      <4>6. accounts'[p.account] = accounts[p.account] BY <1>2, <4>5
      <4> QED BY <3>1, <3>4, <4>6 DEF Checked
    <3>5. posted' = posted BY <1>2
    <3>6. Checked(accounts', posted', p) BY <3>3, <3>4, <3>5 DEF Checked
    <3> QED BY <3>2, <3>6
  <2> QED BY <1>2, <2>8, <2>9, <2>11, <2>12, Ended
<1> QED BY <1>1, <1>2 DEF WriteAccount

\* What a request that writes is.
LEMMA RequestOf ==
  ASSUME ChartInv, NEW w \in Workers
  PROVE  /\ Doing(w, "create") =>
              workers[w] \in CreateRequests /\ workers[w].parent \in Ids \cup {None}
         /\ Doing(w, "post") =>
              /\ workers[w] \in PostRequests /\ workers[w].done \in 0 .. Len(workers[w].lines)
              /\ \A i \in 1 .. Len(workers[w].lines) : workers[w].lines[i] \in Ids
         /\ Doing(w, "configure") => workers[w].account \in Ids
         /\ Doing(w, "map") => workers[w].debit \in Ids /\ workers[w].credit \in Ids
<1> DEFINE r == workers[w]
<1>1. Names(accounts, r) BY DEF ChartInv
<1>2. Idle.op = "idle" BY DEF Idle
<1>3. r \in CreateRequests => r.op = "create" BY DEF CreateRequests
<1>4. r \in UpdateRequests => r.op = "update" BY DEF UpdateRequests
<1>5. r \in PostRequests => r.op = "post" BY DEF PostRequests
<1>6. r \in ConfigureRequests => r.op = "configure" BY DEF ConfigureRequests
<1>7. r \in MapRequests => r.op = "map" BY DEF MapRequests
<1> HIDE DEF r
<1>8. /\ r.op = "create" => r \in CreateRequests /\ r.parent \in Ids \cup {None}
      /\ r.op = "post" => /\ r \in PostRequests /\ r.done \in 0 .. Len(r.lines)
                          /\ \A i \in 1 .. Len(r.lines) : r.lines[i] \in Ids
      /\ r.op = "configure" => r.account \in Ids
      /\ r.op = "map" => r.debit \in Ids /\ r.credit \in Ids
  BY <1>1, <1>2, <1>3, <1>4, <1>5, <1>6, <1>7 DEF Names, Ids
<1> QED BY <1>8 DEF Doing, r

LEMMA InsertAccountKeeps ==
  ASSUME ChartInv, NEW w \in Workers, InsertAccount(w)
  PROVE  ChartInv'
<1> DEFINE q == workers[w]
           a == q.account
           r == AccountOf(q)
<1>1. CASE Refuse(w) BY <1>1, RefuseKeeps
<1>2. CASE /\ a \notin Ids /\ Free(q.code, None) /\ accounts' = Put(accounts, a, r) /\ Goes(w, Idle)
           /\ UNCHANGED <<posted, configuration, mapping>>
  <2>1. Doing(w, "create") BY DEF InsertAccount
  <2>2. q \in CreateRequests /\ q.parent \in Ids \cup {None} BY <2>1, RequestOf
  <2>3. r \in Row(accounts) /\ r.parent = q.parent /\ r.code = q.code /\ r.type = q.type
    BY <2>2, RowOfRequest
  <2>4. Chart(accounts) /\ Tree(accounts) /\ References(accounts, posted, configuration, mapping)
    BY DEF ChartInv
  <2>5. None \notin DOMAIN accounts BY NoneIsNoId DEF Ids
  <2>6. \A b \in DOMAIN accounts : accounts[b].code # r.code
    <3>1. \A b \in Ids \ {None} : accounts[b].code # q.code BY <1>2 DEF Free
    <3>2. r.code = q.code BY <2>3
    <3> HIDE DEF r
    <3> QED BY <2>5, <3>1, <3>2 DEF Ids
  <2>7. a \in Accounts /\ a # None BY <2>2, ChartAssumption DEF CreateRequests
  <2>8. a \notin DOMAIN accounts BY <1>2 DEF Ids
  <2>9. r.parent # a BY <2>2, <2>3, <2>7, <2>8 DEF Ids
  <2>10. \A b \in DOMAIN accounts : accounts[b].parent # a BY <2>4, <2>7, <2>8 DEF Chart
  <2> HIDE DEF r
  <2>11. Chart(accounts') BY <1>2, <2>3, <2>4, <2>6, <2>7, <2>8, InsertedChart
  <2>12. Tree(accounts') BY <1>2, <2>4, <2>5, <2>8, <2>9, <2>10, InsertedTree
  <2>13. /\ DOMAIN accounts \subseteq DOMAIN accounts'
         /\ \A b \in DOMAIN accounts : accounts'[b] = accounts[b] BY <1>2, <2>8 DEF Put
  <2>14. References(accounts', posted', configuration', mapping')
    BY <1>2, <2>4, <2>13 DEF References
  <2>15. ASSUME NEW v \in Workers \ {w}
         PROVE  Names(accounts', workers[v]) /\ Checked(accounts', posted', workers[v])
    <3> DEFINE p == workers[v]
    <3>1. Names(accounts, p) /\ Checked(accounts, posted, p) BY DEF ChartInv
    <3>2. Names(accounts', p) BY <2>13, <3>1, NamesGrow
    <3>3. p.op = "update" => p.account \in Ids /\ p.parent \in Ids \cup {None}
      BY UpdateOf DEF Doing
    <3>4. ASSUME Past(p, 2), p.parent # None PROVE Outside(accounts', p.account, p.parent)
      <4>1. Outside(accounts, p.account, p.parent) BY <3>1, <3>4 DEF Checked
      <4>2. p.parent # a BY <1>2, <3>3, <3>4 DEF Past
      <4> QED BY <1>2, <2>8, <2>9, <2>10, <4>1, <4>2, InsertedOutside
    <3>5. ASSUME Past(p, 4), \E role \in Roles : <<p.account, role>> \in posted
          PROVE  accounts'[p.account].code = p.code /\ accounts'[p.account].type = p.type
      <4>1. accounts'[p.account] = accounts[p.account] BY <2>13, <3>3, <3>5 DEF Past, Ids
      <4> QED BY <3>1, <3>5, <4>1 DEF Checked
    <3>6. posted' = posted BY <1>2
    <3>7. Checked(accounts', posted', p) BY <3>4, <3>5, <3>6 DEF Checked
    <3> QED BY <3>2, <3>7
  <2> QED BY <1>2, <2>11, <2>12, <2>14, <2>15, Ended
<1> QED BY <1>1, <1>2 DEF InsertAccount

LEMMA InsertLineKeeps ==
  ASSUME ChartInv, NEW w \in Workers, InsertLine(w)
  PROVE  ChartInv'
<1> DEFINE q == workers[w]
           r == [q EXCEPT !.done = @ + 1]
<1>1. /\ Doing(w, "post") /\ q.done < Len(q.lines) /\ Referable(w, q.lines[q.done + 1])
      /\ Goes(w, r) /\ UNCHANGED tables
  BY DEF InsertLine
<1>2. /\ q \in PostRequests /\ q.done \in 0 .. Len(q.lines)
      /\ \A i \in 1 .. Len(q.lines) : q.lines[i] \in Ids
  BY <1>1, RequestOf
<1>3. q.lines \in Seq(Accounts) /\ Len(q.lines) \in Nat BY <1>2 DEF PostRequests
<1>4. r \in PostRequests /\ r.lines = q.lines /\ r.done = q.done + 1 /\ r.op = "post"
  BY <1>2, <1>3 DEF PostRequests
<1> HIDE DEF r
<1>5. Names(accounts, r) BY <1>1, <1>2, <1>3, <1>4 DEF Names, Ids
<1>6. Checked(accounts, posted, r) BY <1>4 DEF Checked, Past
<1>7. ASSUME NEW v \in Workers \ {w} PROVE Compatible(workers[v], r)
  <2>1. Compatible(workers[v], q) BY DEF ChartInv, Exclusive
  <2>2. ~Guards(r) /\ \A a : ~Owns(r, a) BY <1>4 DEF Guards, Owns, Past
  <2>3. ~Owns(workers[v], q.lines[q.done + 1]) BY <1>1, Locks DEF Referable
  <2>4. ASSUME NEW a \in Accounts, Owns(workers[v], a) PROVE ~Refers(r, a)
    <3>1. ~Refers(q, a) BY <2>1, <2>4 DEF Compatible
    <3>2. \A i \in 1 .. q.done : q.lines[i] # a BY <1>1, <3>1 DEF Refers, Doing
    <3>3. q.lines[q.done + 1] # a BY <2>3, <2>4
    <3>4. \A i \in 1 .. r.done : i \in 1 .. q.done \/ i = q.done + 1 BY <1>2, <1>3, <1>4
    <3> QED BY <1>4, <3>2, <3>3, <3>4 DEF Refers
  <2> QED BY <2>2, <2>4 DEF Compatible
<1> QED BY <1>1, <1>5, <1>6, <1>7, Replaced

LEMMA CommitMoveKeeps ==
  ASSUME ChartInv, NEW w \in Workers, CommitMove(w)
  PROVE  ChartInv'
<1> DEFINE q == workers[w]
           lines == {<<q.lines[i], IF i = Len(q.lines) THEN q.role ELSE "line">> :
                       i \in DOMAIN q.lines}
<1>1. /\ Doing(w, "post") /\ q.done = Len(q.lines) /\ posted' = posted \cup lines
      /\ Goes(w, Idle) /\ UNCHANGED <<accounts, configuration, mapping>>
  BY DEF CommitMove
<1>2. q \in PostRequests /\ \A i \in 1 .. Len(q.lines) : q.lines[i] \in Ids BY <1>1, RequestOf
<1>3. q.lines \in Seq(Accounts) /\ q.role \in Roles BY <1>2 DEF PostRequests
<1>4. DOMAIN q.lines = 1 .. Len(q.lines) /\ Len(q.lines) \in Nat BY <1>3
<1>5. ASSUME NEW l \in lines
      PROVE  /\ l \in Ids \X Roles
             /\ \E i \in 1 .. q.done : l[1] = q.lines[i]
  <2>1. PICK i \in 1 .. Len(q.lines) :
          l = <<q.lines[i], IF i = Len(q.lines) THEN q.role ELSE "line">> BY <1>4
  <2>2. (IF i = Len(q.lines) THEN q.role ELSE "line") \in Roles BY <1>3 DEF Roles
  <2> QED BY <1>1, <1>2, <2>1, <2>2
<1> HIDE DEF lines
<1>6. Chart(accounts) /\ Tree(accounts) /\ References(accounts, posted, configuration, mapping)
  BY DEF ChartInv
<1>7. References(accounts', posted', configuration', mapping')
  BY <1>1, <1>5, <1>6 DEF References, Ids
<1>8. Chart(accounts') /\ Tree(accounts') BY <1>1, <1>6
<1>9. ASSUME NEW v \in Workers \ {w}
      PROVE  Names(accounts', workers[v]) /\ Checked(accounts', posted', workers[v])
  <2> DEFINE p == workers[v]
  <2>1. Names(accounts, p) /\ Checked(accounts, posted, p) /\ Compatible(p, q)
    BY DEF ChartInv, Exclusive
  <2>2. ASSUME Past(p, 4), NEW role \in Roles, <<p.account, role>> \in posted'
        PROVE  <<p.account, role>> \in posted
    <3>1. Doing(v, "update") BY <2>2 DEF Past, Doing
    <3>2. p.at \in 1 .. 5 /\ p.account \in Accounts BY <3>1, UpdateOf DEF UpdateRequests
    <3>3. Owns(p, p.account) BY <2>2, <3>2 DEF Owns, Past
    <3>4. ~Refers(q, p.account) BY <2>1, <3>2, <3>3 DEF Compatible
    <3>5. \A i \in 1 .. q.done : q.lines[i] # p.account BY <1>1, <3>4 DEF Refers, Doing
    <3>6. <<p.account, role>> \notin lines BY <1>5, <3>5
    <3> QED BY <1>1, <2>2, <3>6
  <2>3. Checked(accounts, posted', p) BY <2>1, <2>2 DEF Checked
  <2> QED BY <1>1, <2>1, <2>3
<1> QED BY <1>1, <1>7, <1>8, <1>9, Ended

LEMMA InsertConfigurationKeeps ==
  ASSUME ChartInv, NEW w \in Workers, InsertConfiguration(w)
  PROVE  ChartInv'
<1>1. CASE Refuse(w) BY <1>1, RefuseKeeps
<1>2. CASE /\ configuration' = workers[w].account /\ Goes(w, Idle)
           /\ UNCHANGED <<accounts, posted, mapping>>
  <2>1. workers[w].account \in Ids BY RequestOf DEF InsertConfiguration
  <2>2. Chart(accounts) /\ Tree(accounts) /\ References(accounts, posted, configuration, mapping)
    BY DEF ChartInv
  <2>3. References(accounts', posted', configuration', mapping')
    BY <1>2, <2>1, <2>2 DEF References, Ids
  <2>4. \A v \in Workers : Names(accounts', workers[v]) /\ Checked(accounts', posted', workers[v])
    BY <1>2 DEF ChartInv
  <2>5. Chart(accounts') /\ Tree(accounts') BY <1>2, <2>2
  <2> QED BY <1>2, <2>3, <2>4, <2>5, Ended
<1> QED BY <1>1, <1>2 DEF InsertConfiguration

LEMMA SaveMappingKeeps ==
  ASSUME ChartInv, NEW w \in Workers, SaveMapping(w)
  PROVE  ChartInv'
<1>1. /\ mapping' = <<workers[w].debit, workers[w].credit>> /\ Goes(w, Idle)
      /\ UNCHANGED <<accounts, posted, configuration>>
  BY DEF SaveMapping
<1>2. workers[w].debit \in Ids /\ workers[w].credit \in Ids BY RequestOf DEF SaveMapping
<1>3. Chart(accounts) /\ Tree(accounts) /\ References(accounts, posted, configuration, mapping)
  BY DEF ChartInv
<1>4. References(accounts', posted', configuration', mapping')
  BY <1>1, <1>2, <1>3 DEF References, Ids
<1>5. \A v \in Workers : Names(accounts', workers[v]) /\ Checked(accounts', posted', workers[v])
  BY <1>1 DEF ChartInv
<1>6. Chart(accounts') /\ Tree(accounts') BY <1>1, <1>3
<1> QED BY <1>1, <1>4, <1>5, <1>6, Ended

-----------------------------------------------------------------------------
\* The theorems.

LEMMA ChartInvInit == Init => ChartInv
<1> SUFFICES ASSUME Init PROVE ChartInv OBVIOUS
<1>1. Chart(accounts) /\ Tree(accounts) BY ChartAssumption DEF Init
<1>2. References(accounts, posted, configuration, mapping) BY DEF Init, References
<1>3. DOMAIN workers = Workers /\ \A w \in Workers : workers[w] = Idle BY DEF Init
<1>4. \A v, w \in Workers : Compatible(workers[v], workers[w]) BY <1>3, IdleIsFree
<1>5. Exclusive(workers) BY <1>4 DEF Exclusive
<1>6. \A w \in Workers : Names(accounts, workers[w]) /\ Checked(accounts, posted, workers[w])
  BY <1>3, IdleIsFree
<1> QED BY <1>1, <1>2, <1>3, <1>5, <1>6 DEF ChartInv

LEMMA ChartInvStep == ChartInv /\ [Next]_vars => ChartInv'
<1> SUFFICES ASSUME ChartInv, [Next]_vars PROVE ChartInv' OBVIOUS
<1>1. CASE UNCHANGED vars
  <2>1. UNCHANGED <<accounts, posted, configuration, mapping, workers>> BY <1>1 DEF vars
  <2> QED BY <2>1 DEF ChartInv
<1>2. ASSUME NEW w \in Workers, NEW q \in Requests, Ask(w, q) PROVE ChartInv'
  BY <1>2, AskKeeps
<1>3. ASSUME NEW w \in Workers, Step(w) PROVE ChartInv'
  BY <1>3, InsertAccountKeeps, LockHierarchyKeeps, CheckHierarchyKeeps, LockRowKeeps,
     CheckHistoryKeeps, WriteAccountKeeps, InsertLineKeeps, CommitMoveKeeps,
     InsertConfigurationKeeps, SaveMappingKeeps DEF Step
<1> QED BY <1>1, <1>2, <1>3 DEF Next

LEMMA ChartInvAlways == Spec => []ChartInv
BY ChartInvInit, ChartInvStep, PTL DEF Spec

\* The rows keep the constraints of their columns and of the unique index, and every
\* reference is to an account that exists.
THEOREM TypeCorrect == Spec => []TypeOK
<1>1. ChartInv => TypeOK BY DEF ChartInv, TypeOK, References, Ids
<1> QED BY <1>1, ChartInvAlways, PTL

\* However moves of accounts under one another overlap, the accounts stay a tree, and
\* ListAccountsTree lists each of them.
THEOREM AccountsStayATree == Spec => []TreeListsAll
<1>1. ChartInv => TreeListsAll BY TreeIsListed DEF ChartInv
<1> QED BY <1>1, ChartInvAlways, PTL

\* An account with posted lines keeps its code and its type, also when lines are being
\* posted to it while it is updated.
THEOREM UsedAccountsStay == Spec => UsedKeepCodeAndType
<1> DEFINE Kept == \A a \in Ids : Used(a) =>
             accounts'[a].code = accounts[a].code /\ accounts'[a].type = accounts[a].type
<1>1. ASSUME ChartInv, NEW w \in Workers, WriteAccount(w) PROVE Kept
  <2> SUFFICES ASSUME NEW a \in Ids, Used(a)
               PROVE  /\ accounts'[a].code = accounts[a].code
                      /\ accounts'[a].type = accounts[a].type
    OBVIOUS
  <2> DEFINE q == workers[w]
             r == AccountOf(q)
  <2>1. CASE Refuse(w) BY <2>1 DEF Refuse, tables
  <2>2. CASE accounts' = [accounts EXCEPT ![q.account] = r]
    <3>1. Doing(w, "update") BY <1>1 DEF WriteAccount, At
    <3>2. q.at = 5 /\ q.op = "update" /\ q \in UpdateRequests /\ q.parent \in Ids \cup {None}
      BY <1>1, <3>1, UpdateOf, AtPlace DEF WriteAccount, Doing
    <3>3. r.code = q.code /\ r.type = q.type BY <3>2, RowOfRequest
    <3> HIDE DEF r
    <3>4. CASE a = q.account
      <4>1. Checked(accounts, posted, q) BY <1>1 DEF ChartInv
      <4>2. accounts[a].code = q.code /\ accounts[a].type = q.type
        BY <3>2, <3>4, <4>1 DEF Checked, Past, Used
      <4>3. accounts'[a] = r BY <2>2, <3>4 DEF Ids
      <4> QED BY <3>3, <4>2, <4>3
    <3>5. CASE a # q.account
      <4>1. accounts'[a] = accounts[a] BY <2>2, <3>5
      <4> QED BY <4>1
    <3> QED BY <3>4, <3>5
  <2> QED BY <1>1, <2>1, <2>2 DEF WriteAccount
<1>2. ASSUME NEW w \in Workers, InsertAccount(w) PROVE Kept
  <2>1. CASE UNCHANGED accounts BY <2>1
  <2>2. CASE workers[w].account \notin Ids
             /\ accounts' = Put(accounts, workers[w].account, AccountOf(workers[w]))
    <3>1. \A a \in Ids : accounts'[a] = accounts[a] BY <2>2 DEF Put, Ids
    <3> QED BY <3>1
  <2> QED BY <1>2, <2>1, <2>2 DEF InsertAccount, Refuse, tables
<1>3. ASSUME NEW w \in Workers, NEW q \in Requests, Ask(w, q) PROVE Kept
  BY <1>3 DEF Ask, tables
<1>4. ASSUME NEW w \in Workers, Step(w) PROVE UNCHANGED accounts \/ WriteAccount(w) \/ InsertAccount(w)
  BY <1>4 DEF Step, LockHierarchy, CheckHierarchy, LockRow, CheckHistory, InsertLine, CommitMove,
     InsertConfiguration, SaveMapping, Refuse, tables
<1>5. ChartInv /\ [Next]_vars => Kept
  <2> SUFFICES ASSUME ChartInv, [Next]_vars PROVE Kept OBVIOUS
  <2>1. CASE UNCHANGED vars BY <2>1 DEF vars
  <2>2. ASSUME NEW w \in Workers, Step(w) PROVE Kept BY <1>1, <1>2, <1>4, <2>2
  <2>3. CASE Next BY <1>3, <2>2, <2>3 DEF Next
  <2> QED BY <2>1, <2>3
<1>6. ChartInv /\ [Next]_vars => [Kept]_vars BY <1>5
<1> QED BY <1>6, ChartInvAlways, PTL DEF Spec, UsedKeepCodeAndType

=============================================================================
