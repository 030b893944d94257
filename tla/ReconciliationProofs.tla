------------------------ MODULE ReconciliationProofs -----------------------
(***************************************************************************)
(* Proofs about module Reconciliation, for any number of transactions,     *)
(* lines, requests and reconciliations.                                    *)
(***************************************************************************)
EXTENDS Reconciliation, SumTheorems

-----------------------------------------------------------------------------
\* Queues: the items of a request, and the same items by line.

LEMMA UpTo == ASSUME NEW n \in Nat PROVE IsFiniteSet(1 .. n) /\ Cardinality(1 .. n) = n
<1>1. IsFiniteSet(1 .. n) /\ Cardinality(1 .. n) = IF 1 > n THEN 0 ELSE n - 1 + 1 BY FS_Interval
<1> QED BY <1>1

LinesOf(queue) == {queue[i].line : i \in DOMAIN queue}

\* Items on lines that differ.
Queue(q) == q \in Seq(Items) /\ \A i, j \in DOMAIN q : i # j => q[i].line # q[j].line

LEMMA QueueFacts ==
  ASSUME NEW q, Queue(q)
  PROVE  /\ Len(q) \in Nat /\ DOMAIN q = 1 .. Len(q) /\ IsFiniteSet(DOMAIN q)
         /\ \A i \in DOMAIN q : /\ q[i] \in Items /\ q[i].line \in LineIds
                                /\ q[i].amount \in Nat \ {0}
<1>1. Len(q) \in Nat /\ DOMAIN q = 1 .. Len(q) BY DEF Queue
<1>2. IsFiniteSet(DOMAIN q) BY <1>1, UpTo
<1>3. \A i \in DOMAIN q : q[i] \in Items BY <1>1 DEF Queue
<1> QED BY <1>1, <1>2, <1>3 DEF Items

LEMMA RequestIs == ASSUME NEW q \in Requests PROVE Queue(q) /\ Len(q) >= 2
BY RequestAssumption DEF Queue

\* What an item takes off its line is all that the queue takes off it.
LEMMA AllocatedIs ==
  ASSUME NEW q, Queue(q)
  PROVE  /\ \A i \in DOMAIN q : Allocated(q, q[i].line) = q[i].amount
         /\ \A l : l \notin LinesOf(q) => Allocated(q, l) = 0
         /\ \A l : Allocated(q, l) \in Nat
<1> DEFINE amounts == [i \in DOMAIN q |-> q[i].amount]
           on(l) == {i \in DOMAIN q : q[i].line = l}
<1>1. \A i \in DOMAIN q : amounts[i] = q[i].amount /\ amounts[i] \in Int BY QueueFacts
<1>2. \A i \in DOMAIN q : on(q[i].line) = {i} BY DEF Queue
<1>3. \A l : l \notin LinesOf(q) => on(l) = {} BY DEF LinesOf
<1>4. \A l : Allocated(q, l) = SumFunctionOnSet(amounts, on(l)) BY DEF Allocated
<1> HIDE DEF amounts, on
<1>5. ASSUME NEW i \in DOMAIN q PROVE Allocated(q, q[i].line) = q[i].amount
  <2>1. SumFunctionOnSet(amounts, {i}) = amounts[i] BY <1>1, SumSingle
  <2> QED BY <2>1, <1>1, <1>2, <1>4
<1>6. ASSUME NEW l, l \notin LinesOf(q) PROVE Allocated(q, l) = 0
  BY <1>3, <1>4, <1>6, SumEmpty
<1>7. ASSUME NEW l PROVE Allocated(q, l) \in Nat
  <2>1. CASE l \in LinesOf(q)
    <3>1. PICK i \in DOMAIN q : q[i].line = l BY <2>1 DEF LinesOf
    <3> QED BY <3>1, <1>5, QueueFacts
  <2> QED BY <2>1, <1>6
<1> QED BY <1>5, <1>6, <1>7

\* The items of a queue, listed by line.
Sorted(q, queue) ==
  /\ q \in [DOMAIN queue -> Range(queue)] /\ Range(q) = Range(queue)
  /\ \A i, j \in DOMAIN q : i < j => q[i].line < q[j].line

\* The place of an item is the number of items up to its line.
LEMMA SortedExists == ASSUME NEW queue, Queue(queue) PROVE \E q : Sorted(q, queue)
<1> DEFINE R == Range(queue)
           n == Len(queue)
           upto(e) == {x \in R : x.line <= e.line}
           place == [e \in R |-> Cardinality(upto(e))]
<1>1. /\ n \in Nat /\ DOMAIN queue = 1 .. n /\ IsFiniteSet(DOMAIN queue)
      /\ \A e \in R : e.line \in Int
  BY QueueFacts DEF Range, LineIds
<1>2. \A d, e \in R : d # e => d.line # e.line BY DEF Range, Queue
<1>3. queue \in Injection(1 .. n, R) /\ queue \in Surjection(1 .. n, R)
  <2>1. queue \in [1 .. n -> R] BY <1>1, QueueFacts DEF Queue, Range
  <2>2. \A i, j \in 1 .. n : queue[i] = queue[j] => i = j BY <1>1 DEF Queue
  <2>3. \A e \in R : \E i \in 1 .. n : queue[i] = e BY <1>1 DEF Range
  <2> QED BY <2>1, <2>2, <2>3 DEF Injection, Surjection, IsInjective
<1>4. IsFiniteSet(R) /\ Cardinality(R) = n
  <2> HIDE DEF R, n
  <2>1. IsFiniteSet(1 .. n) /\ Cardinality(1 .. n) = n BY <1>1, UpTo
  <2> QED BY <1>3, <2>1, FS_Surjection
<1>5. \A e \in R : /\ IsFiniteSet(upto(e)) /\ Cardinality(upto(e)) \in Nat
                   /\ Cardinality(upto(e)) <= n /\ e \in upto(e) /\ Cardinality(upto(e)) # 0
  <2> TAKE e \in R
  <2>1. upto(e) \in SUBSET R /\ e \in upto(e) BY <1>1
  <2> HIDE DEF R, n, upto
  <2>2. IsFiniteSet(upto(e)) /\ Cardinality(upto(e)) <= Cardinality(R) BY <2>1, <1>4, FS_Subset
  <2>3. Cardinality(upto(e)) \in Nat BY <2>2, FS_CardinalityType
  <2>4. Cardinality(upto(e)) # 0 BY <2>1, <2>2, FS_EmptySet
  <2> QED BY <2>1, <2>2, <2>3, <2>4, <1>4
<1>6. \A d, e \in R : d.line < e.line => place[d] < place[e]
  <2> TAKE d, e \in R
  <2> HAVE d.line < e.line
  <2>1. upto(d) \in SUBSET upto(e) /\ upto(d) # upto(e) BY <1>1, <1>5
  <2>2. place[d] = Cardinality(upto(d)) /\ place[e] = Cardinality(upto(e)) OBVIOUS
  <2> HIDE DEF R, n, upto, place
  <2>3. Cardinality(upto(d)) <= Cardinality(upto(e)) /\ Cardinality(upto(e)) # Cardinality(upto(d))
    BY <2>1, <1>5, FS_Subset
  <2> QED BY <2>2, <2>3, <1>5
<1>7. place \in Injection(R, 1 .. n)
  <2>1. \A e \in R : place[e] \in 1 .. n BY <1>1, <1>5
  <2>2. place \in [R -> 1 .. n] BY <2>1
  <2>3. \A d, e \in R : place[d] = place[e] => d = e
    <3> HIDE DEF R, place
    <3>1. \A d \in R : place[d] \in Int BY <2>1
    <3> QED BY <1>1, <1>2, <1>6, <3>1
  <2> HIDE DEF R, n, place
  <2> QED BY <2>2, <2>3 DEF Injection, IsInjective
<1>8. place \in Surjection(R, 1 .. n)
  <2> HIDE DEF R, n, place
  <2>1. IsFiniteSet(1 .. n) /\ Cardinality(1 .. n) = n BY <1>1, UpTo
  <2> QED BY <1>4, <1>7, <2>1, FS_Injection
<1> DEFINE at(i) == CHOOSE e \in R : place[e] = i
           q == [i \in 1 .. n |-> at(i)]
<1>9. \A i \in 1 .. n : q[i] \in R /\ place[q[i]] = i
  <2> HIDE DEF R, n, place
  <2> QED BY <1>8 DEF Surjection
<1>10. \A e \in R : place[e] \in 1 .. n /\ q[place[e]] = e
  <2>1. place \in [R -> 1 .. n] BY <1>7 DEF Injection
  <2> HIDE DEF R, n, place, q
  <2> QED BY <1>7, <1>9, <2>1 DEF Injection, IsInjective
<1>11. Range(q) = R
  <2>1. DOMAIN q = 1 .. n OBVIOUS
  <2> HIDE DEF R, n, place, q
  <2> QED BY <1>9, <1>10, <2>1 DEF Range
<1>12. \A i, j \in 1 .. n : i < j => q[i].line < q[j].line
  <2> HIDE DEF R, place, q
  <2> QED BY <1>1, <1>2, <1>6, <1>9
<1>13. q \in [DOMAIN queue -> R] BY <1>1, <1>9
<1>14. DOMAIN q = 1 .. n OBVIOUS
<1> HIDE DEF q, n
<1>15. Sorted(q, queue) BY <1>11, <1>12, <1>13, <1>14 DEF Sorted
<1> QED BY <1>15

\* Two queues of the same items take the same off every line.
LEMMA SameItems ==
  ASSUME NEW q, NEW queue, Queue(q), Queue(queue), Range(q) = Range(queue)
  PROVE  LinesOf(q) = LinesOf(queue) /\ \A l : Allocated(q, l) = Allocated(queue, l)
<1>1. \A s : LinesOf(s) = {e.line : e \in Range(s)} BY DEF LinesOf, Range
<1>2. ASSUME NEW i \in DOMAIN q
      PROVE  Allocated(q, q[i].line) = Allocated(queue, q[i].line)
  <2>1. PICK j \in DOMAIN queue : queue[j] = q[i] BY DEF Range
  <2> QED BY <2>1, AllocatedIs
<1>3. ASSUME NEW l, l \notin LinesOf(q) PROVE Allocated(q, l) = Allocated(queue, l)
  BY <1>1, <1>3, AllocatedIs
<1>4. ASSUME NEW l, l \in LinesOf(q) PROVE Allocated(q, l) = Allocated(queue, l)
  BY <1>2, <1>4 DEF LinesOf
<1> QED BY <1>1, <1>3, <1>4

Ascending(q) == \A i, j \in DOMAIN q : i < j => q[i].line < q[j].line

LEMMA InOrderIs ==
  ASSUME NEW queue, Queue(queue)
  PROVE  /\ Queue(InOrder(queue)) /\ Ascending(InOrder(queue))
         /\ Len(InOrder(queue)) = Len(queue) /\ Range(InOrder(queue)) = Range(queue)
         /\ LinesOf(InOrder(queue)) = LinesOf(queue)
         /\ \A l : Allocated(InOrder(queue), l) = Allocated(queue, l)
<1> DEFINE q == InOrder(queue)
           n == Len(queue)
<1>1. Sorted(q, queue) BY SortedExists DEF Sorted, InOrder
<1> HIDE DEF q
<1>2. /\ n \in Nat /\ DOMAIN queue = 1 .. n
      /\ \A e \in Range(queue) : e \in Items /\ e.line \in Int
  BY QueueFacts DEF Range, LineIds
<1>3. q \in [1 .. n -> Items] BY <1>1, <1>2 DEF Sorted
<1>4. q \in Seq(Items) /\ Len(q) = n /\ DOMAIN q = 1 .. n BY <1>2, <1>3
<1>5. Ascending(q) /\ Range(q) = Range(queue) BY <1>1 DEF Sorted, Ascending
<1>6. \A i \in DOMAIN q : q[i].line \in Int BY <1>2, <1>5 DEF Range
<1>7. ASSUME NEW i \in DOMAIN q, NEW j \in DOMAIN q, i # j PROVE q[i].line # q[j].line
  <2>1. i < j \/ j < i BY <1>2, <1>4, <1>7
  <2> QED BY <2>1, <1>5, <1>6 DEF Ascending
<1>8. Queue(q) BY <1>4, <1>7 DEF Queue
<1>9. LinesOf(q) = LinesOf(queue) /\ \A l : Allocated(q, l) = Allocated(queue, l)
  BY <1>5, <1>8, SameItems
<1> QED BY <1>4, <1>5, <1>8, <1>9 DEF q

-----------------------------------------------------------------------------
\* What the reconciliations in force take off a line.

LiveIn(rs) == {r \in DOMAIN rs : rs[r].live}
Off(rs, l) == SumFunction([r \in LiveIn(rs) |-> Allocated(rs[r].queue, l)])

Rows(rs) == IsFiniteSet(DOMAIN rs) /\ \A r \in DOMAIN rs : Queue(rs[r].queue)

LEMMA OffIs ==
  ASSUME NEW rs, Rows(rs), NEW l, NEW f, \A r \in LiveIn(rs) : f[r] = Allocated(rs[r].queue, l)
  PROVE  /\ IsFiniteSet(LiveIn(rs)) /\ \A r \in LiveIn(rs) : f[r] \in Nat
         /\ Off(rs, l) = SumFunctionOnSet(f, LiveIn(rs)) /\ Off(rs, l) \in Nat
<1> DEFINE g == [r \in LiveIn(rs) |-> Allocated(rs[r].queue, l)]
<1>1. IsFiniteSet(LiveIn(rs)) BY FS_Subset DEF Rows, LiveIn
<1>2. \A r \in LiveIn(rs) : Allocated(rs[r].queue, l) \in Nat BY AllocatedIs DEF Rows, LiveIn
<1>3. \A r \in LiveIn(rs) : g[r] \in Int /\ g[r] \in Nat /\ f[r] = g[r] BY <1>2
<1>4. DOMAIN g = LiveIn(rs) OBVIOUS
<1>5. Off(rs, l) = SumFunction(g) BY DEF Off
<1> HIDE DEF g
<1>6. SumFunction(g) = SumFunctionOnSet(g, LiveIn(rs)) BY <1>4, SumFunctionIs
<1>7. SumFunctionOnSet(g, LiveIn(rs)) = SumFunctionOnSet(f, LiveIn(rs)) BY <1>1, <1>3, SumSame
<1>8. SumFunctionOnSet(g, LiveIn(rs)) \in Nat BY <1>1, <1>3, SumNatural
<1> QED BY <1>1, <1>3, <1>5, <1>6, <1>7, <1>8

\* One table has the reconciliation r in force besides those of another.
LEMMA OffAdds ==
  ASSUME NEW rs, Rows(rs), NEW more, Rows(more), NEW r, r \notin LiveIn(rs), NEW l,
         LiveIn(more) = LiveIn(rs) \cup {r}, \A x \in LiveIn(rs) : more[x].queue = rs[x].queue
  PROVE  Off(more, l) = Off(rs, l) + Allocated(more[r].queue, l)
<1> DEFINE f == [x \in LiveIn(more) |-> Allocated(more[x].queue, l)]
<1>1. \A x \in LiveIn(more) : f[x] = Allocated(more[x].queue, l) OBVIOUS
<1>2. \A x \in LiveIn(rs) : f[x] = Allocated(rs[x].queue, l) OBVIOUS
<1>3. f[r] = Allocated(more[r].queue, l) /\ r \in LiveIn(more) OBVIOUS
<1> HIDE DEF f
<1>4. /\ \A x \in LiveIn(more) : f[x] \in Nat
      /\ Off(more, l) = SumFunctionOnSet(f, LiveIn(rs) \cup {r})
  BY <1>1, OffIs
<1>5. IsFiniteSet(LiveIn(rs)) /\ Off(rs, l) = SumFunctionOnSet(f, LiveIn(rs)) /\ Off(rs, l) \in Nat
  BY <1>2, OffIs
<1>6. f[r] \in Int /\ \A x \in LiveIn(rs) : f[x] \in Int BY <1>3, <1>4
<1>7. SumFunctionOnSet(f, LiveIn(rs) \cup {r}) = f[r] + SumFunctionOnSet(f, LiveIn(rs))
  BY <1>5, <1>6, SumAdds
<1> QED BY <1>3, <1>4, <1>5, <1>6, <1>7

LEMMA OffSame ==
  ASSUME NEW rs, Rows(rs), NEW others, Rows(others), NEW l,
         LiveIn(others) = LiveIn(rs), \A x \in LiveIn(rs) : others[x].queue = rs[x].queue
  PROVE  Off(others, l) = Off(rs, l)
<1> DEFINE f == [x \in LiveIn(rs) |-> Allocated(rs[x].queue, l)]
<1>1. \A x \in LiveIn(rs) : f[x] = Allocated(rs[x].queue, l) OBVIOUS
<1>2. \A x \in LiveIn(others) : f[x] = Allocated(others[x].queue, l) OBVIOUS
<1> HIDE DEF f
<1>3. Off(others, l) = SumFunctionOnSet(f, LiveIn(others)) BY <1>2, OffIs
<1>4. Off(rs, l) = SumFunctionOnSet(f, LiveIn(rs)) BY <1>1, OffIs
<1> QED BY <1>3, <1>4

-----------------------------------------------------------------------------
\* The inductive invariant.

Booked == {r \in DOMAIN recs : recs[r].fx # 0}
Reversed == {r \in DOMAIN recs : recs[r].reversals # 0}

\* The first lines, and those that FX moves and their reversals added.
LinesKept ==
  /\ DOMAIN lines = DOMAIN FirstLines \cup {FxLine(r) : r \in Booked}
                      \cup {ReversalLine(r) : r \in Reversed}
  /\ \A l \in DOMAIN FirstLines : lines[l] = FirstLines[l]
  /\ \A r \in Booked : lines[FxLine(r)] = [net |-> recs[r].fx, foreign |-> 0]
  /\ \A r \in Reversed : lines[ReversalLine(r)] = [net |-> -recs[r].fx, foreign |-> 0]

\* All on posted lines of one currency kind.
OneCurrency(queue) ==
  \A i \in DOMAIN queue :
    queue[i].line \in DOMAIN lines /\ (InForeign(queue[i].line) <=> InForeign(queue[1].line))

RowKept(r) ==
  /\ recs[r] \in RecRows /\ recs[r].queue \in Requests
  /\ OneCurrency(recs[r].queue) /\ Signed(recs[r].queue) = 0
  /\ recs[r].fx = Realized(recs[r].queue)
  /\ recs[r].reversals <= 1 /\ (recs[r].fx = 0 => recs[r].reversals = 0)
  /\ ~recs[r].live /\ recs[r].fx # 0 => recs[r].reversals = 1

RecsKept ==
  /\ \E k \in 0 .. MaxMatches : DOMAIN recs = 1 .. k
  /\ \A r \in DOMAIN recs : RowKept(r)

CountersKept ==
  /\ DOMAIN reconciled = DOMAIN lines
  /\ \A l \in DOMAIN lines : reconciled[l] = Off(recs, l) /\ reconciled[l] <= Capacity(l)

\* What a reconcile has locked it has found in order; an unreconcile lists the items of a
\* reconciliation in force.
Reconciling(w) ==
  /\ Doing(w, "reconcile") /\ workers[w].queue \in Requests
  /\ workers[w].done <= Len(workers[w].queue)
  /\ \A i \in 1 .. workers[w].done : Accepts(w, workers[w].queue[i])

Unreconciling(w) ==
  /\ Doing(w, "unreconcile") /\ workers[w].rec \in DOMAIN recs
  /\ \/ workers[w].queue = <<>> /\ workers[w].done = 0
     \/ /\ recs[workers[w].rec].live
        /\ workers[w].queue = InOrder(recs[workers[w].rec].queue)
        /\ workers[w].done <= Len(workers[w].queue)

WorkerKept(w) == Doing(w, "idle") \/ Reconciling(w) \/ Unreconciling(w)

\* Locks exclude each other.
Apart(v, w) == Owned(v) \cap Owned(w) = {}

TablesKept == RecsKept /\ LinesKept /\ CountersKept

WorkersKept ==
  /\ workers \in [Workers -> Transactions]
  /\ \A w \in Workers : WorkerKept(w)
  /\ \A v, w \in Busy : v # w => Apart(v, w)

Inv == TablesKept /\ WorkersKept

-----------------------------------------------------------------------------
\* What the invariant says of lines.

LEMMA ElementIn == ASSUME NEW T, NEW s \in Seq(T), NEW i \in DOMAIN s PROVE s[i] \in T
OBVIOUS

LEMMA FirstFacts ==
  /\ Len(FirstLines) \in Nat /\ DOMAIN FirstLines = 1 .. Len(FirstLines) /\ MaxMatches \in Nat
  /\ \A l \in DOMAIN FirstLines :
       /\ FirstLines[l] \in [net : Int, foreign : Int]
       /\ FirstLines[l].net # 0 /\ FirstLines[l].foreign # 0
<1>1. FirstLines \in Seq([net : Int, foreign : Int]) /\ MaxMatches \in Nat
  BY LineAssumption, BoundAssumption
<1>2. Len(FirstLines) \in Nat /\ DOMAIN FirstLines = 1 .. Len(FirstLines) BY <1>1
<1>3. \A l \in DOMAIN FirstLines : FirstLines[l] \in [net : Int, foreign : Int]
  BY <1>1, ElementIn
<1>4. \A l \in DOMAIN FirstLines : FirstLines[l].net # 0 /\ FirstLines[l].foreign * FirstLines[l].net > 0
  BY LineAssumption
<1>5. \A n \in Int : 0 * n = 0 OBVIOUS
<1> QED BY <1>1, <1>2, <1>3, <1>4, <1>5

LEMMA RecFacts ==
  ASSUME RecsKept
  PROVE  /\ IsFiniteSet(DOMAIN recs) /\ Cardinality(DOMAIN recs) \in Nat
         /\ DOMAIN recs = 1 .. Cardinality(DOMAIN recs) /\ Cardinality(DOMAIN recs) <= MaxMatches
         /\ DOMAIN recs \subseteq RecIds /\ Rows(recs)
         /\ \A r \in DOMAIN recs : r \in Nat \ {0} /\ recs[r].fx \in Int /\ Queue(recs[r].queue)
<1>1. PICK k \in 0 .. MaxMatches : DOMAIN recs = 1 .. k BY DEF RecsKept
<1>2. k \in Nat /\ k <= MaxMatches BY <1>1, FirstFacts
<1>3. IsFiniteSet(1 .. k) /\ Cardinality(1 .. k) = k BY <1>2, UpTo
<1>4. \A r \in DOMAIN recs : recs[r].fx \in Int /\ recs[r].queue \in Requests
  BY DEF RecsKept, RowKept, RecRows
<1>5. DOMAIN recs \subseteq RecIds BY <1>1, <1>2, FirstFacts DEF RecIds
<1>6. \A r \in DOMAIN recs : Queue(recs[r].queue) BY <1>4, RequestIs
<1> QED BY <1>1, <1>2, <1>3, <1>4, <1>5, <1>6 DEF Rows

LEMMA LineFacts ==
  ASSUME RecsKept, LinesKept
  PROVE  \A l \in DOMAIN lines :
           /\ l \in LineIds /\ lines[l] \in [net : Int, foreign : Int] /\ lines[l].net # 0
           /\ Capacity(l) \in Nat \ {0} /\ Side(l) \in {1, -1}
           /\ l \notin DOMAIN FirstLines => lines[l].foreign = 0
<1> TAKE l \in DOMAIN lines
<1>1. CASE l \in DOMAIN FirstLines
  <2>1. lines[l] = FirstLines[l] BY <1>1 DEF LinesKept
  <2>2. l \in LineIds BY <1>1, FirstFacts DEF LineIds
  <2>3. lines[l] \in [net : Int, foreign : Int] /\ lines[l].net # 0
    BY <1>1, <2>1, FirstFacts
  <2> QED BY <1>1, <2>2, <2>3 DEF Capacity, Magnitude, Side
<1>2. CASE l \in {FxLine(r) : r \in Booked}
  <2>1. PICK r \in Booked : l = FxLine(r) BY <1>2
  <2>2. r \in Nat \ {0} /\ r <= MaxMatches /\ recs[r].fx \in Int /\ recs[r].fx # 0
    BY <2>1, RecFacts, FirstFacts DEF Booked, RecIds
  <2>3. lines[l] = [net |-> recs[r].fx, foreign |-> 0] BY <2>1 DEF LinesKept
  <2>4. l \in LineIds BY <2>1, <2>2, FirstFacts DEF LineIds, FxLine
  <2> QED BY <2>2, <2>3, <2>4 DEF Capacity, Magnitude, Side
<1>3. CASE l \in {ReversalLine(r) : r \in Reversed}
  <2>1. PICK r \in Reversed : l = ReversalLine(r) BY <1>3
  <2>2. r \in Nat \ {0} /\ r <= MaxMatches /\ recs[r].fx \in Int /\ recs[r].fx # 0
    BY <2>1, RecFacts, FirstFacts DEF Reversed, RecIds, RecsKept, RowKept
  <2>3. lines[l] = [net |-> -recs[r].fx, foreign |-> 0] BY <2>1 DEF LinesKept
  <2>4. l \in LineIds BY <2>1, <2>2, FirstFacts DEF LineIds, ReversalLine
  <2> QED BY <2>2, <2>3, <2>4 DEF Capacity, Magnitude, Side
<1> QED BY <1>1, <1>2, <1>3 DEF LinesKept

LinesHold == \A l \in DOMAIN lines : Capacity(l) \in Nat \ {0}

LEMMA LinesHoldNext == RecsKept' /\ LinesKept' => LinesHold'
<1>1. RecsKept /\ LinesKept => LinesHold BY LineFacts DEF LinesHold
<1> QED BY <1>1, PTL

\* The lines of the next FX move and of a reversal are not there yet.
LEMMA NewLines ==
  ASSUME RecsKept, LinesKept
  PROVE  /\ \A r \in RecIds \ DOMAIN recs : FxLine(r) \notin DOMAIN lines
         /\ \A r \in DOMAIN recs : recs[r].reversals = 0 => ReversalLine(r) \notin DOMAIN lines
<1>1. \A r \in RecIds : r \in Nat \ {0} BY FirstFacts DEF RecIds
<1>2. Len(FirstLines) \in Nat /\ DOMAIN FirstLines = 1 .. Len(FirstLines) BY FirstFacts
<1>3. \A r \in DOMAIN recs : r \in RecIds BY RecFacts
<1>4. \A r, s \in RecIds : FxLine(r) # ReversalLine(s) BY <1>1, <1>2 DEF FxLine, ReversalLine
<1>5. \A r, s \in RecIds : FxLine(r) = FxLine(s) => r = s BY <1>1, <1>2 DEF FxLine
<1>6. \A r, s \in RecIds : ReversalLine(r) = ReversalLine(s) => r = s
  BY <1>1, <1>2 DEF ReversalLine
<1>7. \A r \in RecIds : FxLine(r) \notin DOMAIN FirstLines /\ ReversalLine(r) \notin DOMAIN FirstLines
  BY <1>1, <1>2 DEF FxLine, ReversalLine
<1>8. ASSUME NEW r \in RecIds \ DOMAIN recs PROVE FxLine(r) \notin DOMAIN lines
  BY <1>3, <1>4, <1>5, <1>7 DEF LinesKept, Booked, Reversed
<1>9. ASSUME NEW r \in DOMAIN recs, recs[r].reversals = 0
      PROVE  ReversalLine(r) \notin DOMAIN lines
  BY <1>3, <1>4, <1>6, <1>7, <1>9 DEF LinesKept, Booked, Reversed
<1> QED BY <1>8, <1>9

\* Two integers have an integer quotient.
LEMMA Quotient == ASSUME NEW a \in Int, NEW b \in Nat \ {0} PROVE a \div b \in Int
OBVIOUS

LEMMA FunctionalIs ==
  ASSUME RecsKept, LinesKept, NEW l \in DOMAIN lines, NEW a \in Nat
  PROVE  Functional(l, a) \in Int
<1> DEFINE net == Magnitude(lines[l].net)
           c == Capacity(l)
<1>1. net \in Int /\ c \in Nat \ {0} BY LineFacts DEF Magnitude
<1> HIDE DEF net, c
<1>2. 2 * net * a + c \in Int /\ 2 * c \in Nat \ {0} BY <1>1
<1>3. (2 * net * a + c) \div (2 * c) \in Int BY <1>2, Quotient
<1> QED BY <1>1, <1>3 DEF Functional, net, c

LEMMA SumsAreIntegers ==
  ASSUME RecsKept, LinesKept, NEW q, Queue(q), OneCurrency(q)
  PROVE  Signed(q) \in Int /\ InBooks(q) \in Int /\ Realized(q) \in Int
<1> DEFINE f == [i \in DOMAIN q |-> Side(q[i].line) * q[i].amount]
           g == [i \in DOMAIN q |-> Side(q[i].line) * Functional(q[i].line, q[i].amount)]
<1>1. IsFiniteSet(DOMAIN q) BY QueueFacts
<1>2. ASSUME NEW i \in DOMAIN q PROVE f[i] \in Int /\ g[i] \in Int
  <2>1. q[i].line \in DOMAIN lines /\ q[i].amount \in Nat BY QueueFacts DEF OneCurrency
  <2>2. Side(q[i].line) \in Int /\ Functional(q[i].line, q[i].amount) \in Int
    BY <2>1, LineFacts, FunctionalIs
  <2> QED BY <2>1, <2>2
<1>3. DOMAIN f = DOMAIN q /\ DOMAIN g = DOMAIN q OBVIOUS
<1>4. Signed(q) = SumFunction(f) /\ InBooks(q) = SumFunction(g) BY DEF Signed, InBooks
<1> HIDE DEF f, g
<1>5. SumFunction(f) = SumFunctionOnSet(f, DOMAIN q) /\ SumFunction(g) = SumFunctionOnSet(g, DOMAIN q)
  BY <1>3, SumFunctionIs
<1>6. SumFunctionOnSet(f, DOMAIN q) \in Int BY <1>1, <1>2, SumLaws
<1>7. SumFunctionOnSet(g, DOMAIN q) \in Int BY <1>1, <1>2, SumLaws
<1> QED BY <1>4, <1>5, <1>6, <1>7 DEF Realized

-----------------------------------------------------------------------------
\* Lines that are posted keep what they are.

LinesGrow == DOMAIN lines \subseteq DOMAIN lines' /\ \A l \in DOMAIN lines : lines'[l] = lines[l]

LEMMA LineStays ==
  ASSUME NEW l, lines'[l] = lines[l]
  PROVE  /\ Capacity(l)' = Capacity(l) /\ Side(l)' = Side(l) /\ InForeign(l)' = InForeign(l)
         /\ \A a : Functional(l, a)' = Functional(l, a)
BY DEF Capacity, Side, InForeign, Functional

LEMMA QueueStays ==
  ASSUME LinesGrow, NEW q, Queue(q), q # <<>>, OneCurrency(q)
  PROVE  OneCurrency(q)' /\ Signed(q)' = Signed(q) /\ Realized(q)' = Realized(q)
<1>1. \A i \in DOMAIN q : q[i].line \in DOMAIN lines /\ lines'[q[i].line] = lines[q[i].line]
  BY DEF OneCurrency, LinesGrow
<1>2. 1 \in DOMAIN q BY QueueFacts DEF Queue
<1>3. OneCurrency(q)'
  BY <1>1, <1>2 DEF OneCurrency, InForeign, LinesGrow
<1>4. Signed(q)' = Signed(q)
  <2>1. \A i \in DOMAIN q : Side(q[i].line)' = Side(q[i].line) BY <1>1, LineStays
  <2>2. [i \in DOMAIN q |-> Side(q[i].line)' * q[i].amount]
          = [i \in DOMAIN q |-> Side(q[i].line) * q[i].amount] BY <2>1
  <2> QED BY <2>2 DEF Signed
<1>5. InBooks(q)' = InBooks(q)
  <2>1. \A i \in DOMAIN q : /\ Side(q[i].line)' = Side(q[i].line)
                            /\ Functional(q[i].line, q[i].amount)' = Functional(q[i].line, q[i].amount)
    BY <1>1, LineStays
  <2>2. [i \in DOMAIN q |-> Side(q[i].line)' * Functional(q[i].line, q[i].amount)']
          = [i \in DOMAIN q |-> Side(q[i].line) * Functional(q[i].line, q[i].amount)] BY <2>1
  <2> QED BY <2>2 DEF InBooks
<1> QED BY <1>3, <1>4, <1>5 DEF Realized

LEMMA RequestStays ==
  ASSUME LinesGrow, NEW q \in Requests, OneCurrency(q)
  PROVE  OneCurrency(q)' /\ Signed(q)' = Signed(q) /\ Realized(q)' = Realized(q)
<1>1. Queue(q) /\ q # <<>> BY RequestIs
<1> QED BY <1>1, QueueStays

-----------------------------------------------------------------------------
\* Steps of one transaction.

LEMMA TransactionIs ==
  ASSUME WorkersKept, NEW w \in Workers
  PROVE  /\ workers[w] \in Transactions /\ (Doing(w, "idle") => workers[w] = Idle)
         /\ w \in Busy => workers[w].queue \in Seq(Items) /\ workers[w].done \in Nat
                          /\ workers[w].rec \in RecIds \cup {0}
                          /\ workers[w].op \in {"reconcile", "unreconcile"}
                          /\ workers[w] = [op |-> workers[w].op, rec |-> workers[w].rec,
                                           queue |-> workers[w].queue, done |-> workers[w].done]
BY DEF WorkersKept, Transactions, Idle, Doing, Busy

\* What is left of a transaction that does not move.
LEMMA Untouched ==
  ASSUME NEW w, workers'[w] = workers[w]
  PROVE  Owned(w)' = Owned(w) /\ Held(w)' = Held(w) /\ \A op : Doing(w, op)' = Doing(w, op)
BY DEF Owned, Held, Doing

LEMMA KeptAtRest ==
  ASSUME NEW w, WorkerKept(w), workers'[w] = workers[w], Rest
  PROVE  WorkerKept(w)'
BY DEF WorkerKept, Reconciling, Unreconciling, Doing, Rest, Accepts, InForeign, Residual, Capacity

LEMMA BusyIs ==
  ASSUME NEW w \in Workers, NEW t, WorkersKept, Goes(w, t)
  PROVE  /\ workers'[w] = t /\ \A v \in Workers \ {w} : workers'[v] = workers[v]
         /\ DOMAIN workers' = Workers /\ workers' = [workers EXCEPT ![w] = t]
         /\ \A v \in Workers \ {w} : v \in Busy' <=> v \in Busy
         /\ w \in Busy' <=> t.op # "idle"
BY DEF Goes, WorkersKept, Busy, Doing

\* One transaction moves on, and gets hold of nothing that another one owns.
LEMMA OneMoves ==
  ASSUME WorkersKept, NEW w \in Workers, NEW t \in Transactions, Goes(w, t), WorkerKept(w)',
         \A v \in Workers \ {w} : WorkerKept(v)',
         t.op = "idle" \/ \A v \in Busy \ {w} : Owned(v) \cap Owned(w)' = {}
  PROVE  WorkersKept'
<1>1. /\ workers'[w] = t /\ \A v \in Workers \ {w} : workers'[v] = workers[v]
      /\ workers' = [workers EXCEPT ![w] = t]
      /\ \A v \in Workers \ {w} : v \in Busy' <=> v \in Busy
      /\ w \in Busy' <=> t.op # "idle"
  BY BusyIs
<1>2. workers' \in [Workers -> Transactions] BY <1>1 DEF WorkersKept
<1>3. \A v \in Workers : WorkerKept(v)' OBVIOUS
<1>4. ASSUME NEW u \in Busy', NEW v \in Busy', u # v PROVE Apart(u, v)'
  <2>1. u \in Workers /\ v \in Workers BY DEF Busy
  <2>2. CASE u # w /\ v # w
    <3>1. Owned(u)' = Owned(u) /\ Owned(v)' = Owned(v) BY <1>1, <2>1, <2>2, Untouched
    <3>2. u \in Busy /\ v \in Busy BY <1>1, <2>1, <2>2
    <3> QED BY <1>4, <3>1, <3>2 DEF Apart, WorkersKept
  <2>3. CASE u = w
    <3>1. Owned(v)' = Owned(v) /\ v \in Busy \ {w} BY <1>1, <1>4, <2>1, <2>3, Untouched
    <3>2. Owned(v) \cap Owned(w)' = {} BY <1>1, <2>3, <3>1
    <3> QED BY <2>3, <3>1, <3>2 DEF Apart
  <2>4. CASE v = w
    <3>1. Owned(u)' = Owned(u) /\ u \in Busy \ {w} BY <1>1, <1>4, <2>1, <2>4, Untouched
    <3>2. Owned(u) \cap Owned(w)' = {} BY <1>1, <2>4, <3>1
    <3> QED BY <2>4, <3>1, <3>2 DEF Apart
  <2> QED BY <2>2, <2>3, <2>4
<1> QED BY <1>2, <1>3, <1>4 DEF WorkersKept

LEMMA OneMovesAtRest ==
  ASSUME WorkersKept, NEW w \in Workers, NEW t \in Transactions, Goes(w, t), Rest,
         t.op = "idle" \/ (WorkerKept(w)' /\ \A v \in Busy \ {w} : Owned(v) \cap Owned(w)' = {})
  PROVE  WorkersKept'
<1>1. workers'[w] = t /\ \A v \in Workers \ {w} : workers'[v] = workers[v] BY BusyIs
<1>2. \A v \in Workers \ {w} : WorkerKept(v)' BY <1>1, KeptAtRest DEF WorkersKept
<1>3. WorkerKept(w)' BY <1>1 DEF WorkerKept, Doing
<1> QED BY <1>2, <1>3, OneMoves

LEMMA IdleAtRest ==
  ASSUME WorkersKept, NEW w \in Workers, Goes(w, Idle), Rest
  PROVE  WorkersKept'
<1>1. Idle \in Transactions /\ Idle.op = "idle" BY DEF Transactions, Idle
<1> QED BY <1>1, OneMovesAtRest

\* What is granted to a transaction is owned by no other.
LEMMA GrantedIsFree ==
  ASSUME WorkersKept, NEW w \in Workers, Granted(w), NEW got, got \subseteq Owned(w) \cup Wanted(w)
  PROVE  \A v \in Busy \ {w} : Owned(v) \cap got = {}
<1> TAKE v \in Busy \ {w}
<1>1. Wanted(w) \cap Owned(v) = {} BY DEF Granted, WaitsFor
<1>2. Owned(v) \cap Owned(w) = {} BY DEF Granted, WorkersKept, Apart
<1> QED BY <1>1, <1>2

LEMMA BeginKeeps ==
  ASSUME WorkersKept, NEW w \in Workers, NEW q \in Requests, Begin(w, q)
  PROVE  WorkersKept'
<1> DEFINE t == [op |-> "reconcile", rec |-> 0, queue |-> q, done |-> 0]
<1>1. Goes(w, t) /\ Rest /\ t.op = "reconcile" /\ t.queue = q /\ t.done = 0 BY DEF Begin
<1>2. q \in Seq(Items) /\ Len(q) \in Nat BY RequestIs, QueueFacts DEF Queue
<1>3. t \in Transactions BY <1>2 DEF Transactions
<1> HIDE DEF t
<1>4. workers'[w] = t BY <1>1, BusyIs
<1>5. WorkerKept(w)' BY <1>1, <1>2, <1>4 DEF WorkerKept, Reconciling, Doing
<1>6. Owned(w)' = {} BY <1>1, <1>4 DEF Owned, Held, Doing
<1> QED BY <1>1, <1>3, <1>5, <1>6, OneMovesAtRest

LEMMA BeginUnreconcileKeeps ==
  ASSUME TablesKept, WorkersKept, NEW w \in Workers, NEW r \in RecIds, BeginUnreconcile(w, r)
  PROVE  WorkersKept'
<1> DEFINE t == [op |-> "unreconcile", rec |-> r, queue |-> <<>>, done |-> 0]
<1>1. /\ Goes(w, t) /\ Rest /\ t.op = "unreconcile" /\ t.queue = <<>> /\ t.done = 0 /\ t.rec = r
      /\ r \in DOMAIN recs
  BY DEF BeginUnreconcile
<1>2. t \in Transactions BY DEF Transactions
<1> HIDE DEF t
<1>4. workers'[w] = t BY <1>1, BusyIs
<1>5. WorkerKept(w)' BY <1>1, <1>4 DEF WorkerKept, Unreconciling, Doing, Rest
<1>6. Owned(w)' = {} BY <1>1, <1>4 DEF Owned, Held, Doing
<1> QED BY <1>1, <1>2, <1>5, <1>6, OneMovesAtRest

\* A transaction that gets the line it wants.
LEMMA NextLine ==
  ASSUME WorkersKept, NEW w \in Workers, Granted(w), ~Done(w), WorkerKept(w),
         ~(Doing(w, "unreconcile") /\ workers[w].queue = <<>>),
         Goes(w, [workers[w] EXCEPT !.done = @ + 1])
  PROVE  /\ [workers[w] EXCEPT !.done = @ + 1] \in Transactions
         /\ workers'[w] = [workers[w] EXCEPT !.done = @ + 1]
         /\ workers'[w].op = workers[w].op /\ workers'[w].rec = workers[w].rec
         /\ workers'[w].queue = workers[w].queue /\ workers'[w].done = workers[w].done + 1
         /\ workers'[w].done <= Len(workers[w].queue)
         /\ \A v \in Busy \ {w} : Owned(v) \cap Owned(w)' = {}
<1> DEFINE t == [workers[w] EXCEPT !.done = @ + 1]
           q == workers[w].queue
           n == workers[w].done
<1>1. /\ q \in Seq(Items) /\ n \in Nat /\ workers[w].rec \in RecIds \cup {0}
      /\ workers[w].op \in {"reconcile", "unreconcile"}
      /\ workers[w] = [op |-> workers[w].op, rec |-> workers[w].rec, queue |-> q, done |-> n]
  BY TransactionIs DEF Granted
<1>2. /\ t = [op |-> workers[w].op, rec |-> workers[w].rec, queue |-> q, done |-> n + 1]
      /\ t.op = workers[w].op /\ t.rec = workers[w].rec /\ t.queue = q /\ t.done = n + 1
  BY <1>1
<1>3. t \in Transactions BY <1>1, <1>2 DEF Transactions
<1>4. workers'[w] = t BY BusyIs
<1>5. Len(q) \in Nat /\ n <= Len(q)
  <2>1. n = 0 \/ n <= Len(q)
    BY <1>1 DEF WorkerKept, Reconciling, Unreconciling, Granted, Busy
  <2> QED BY <1>1, <2>1
<1>6. n + 1 <= Len(q) BY <1>1, <1>5 DEF Done
<1>7. Owned(w)' \subseteq Owned(w) \cup Wanted(w)
  <2>1. Wanted(w) = {<<"line", q[n + 1].line>>} BY DEF Wanted
  <2>2. Held(w)' = {q[i].line : i \in 1 .. n + 1} BY <1>2, <1>4 DEF Held
  <2>3. Held(w) = {q[i].line : i \in 1 .. n} BY DEF Held
  <2>4. \A i \in 1 .. n + 1 : i \in 1 .. n \/ i = n + 1 BY <1>1
  <2>5. Held(w)' \subseteq Held(w) \cup {q[n + 1].line} BY <2>2, <2>3, <2>4
  <2>6. Owned(w)' = {<<"line", l>> : l \in Held(w)'} \cup
          (IF workers[w].op = "unreconcile" /\ q # <<>> THEN {<<"rec", workers[w].rec>>} ELSE {})
    BY <1>2, <1>4 DEF Owned, Doing
  <2>7. Owned(w) = {<<"line", l>> : l \in Held(w)} \cup
          (IF workers[w].op = "unreconcile" /\ q # <<>> THEN {<<"rec", workers[w].rec>>} ELSE {})
    BY DEF Owned, Doing
  <2> HIDE DEF q, n
  <2> QED BY <2>1, <2>5, <2>6, <2>7
<1> HIDE DEF t
<1>8. \A v \in Busy \ {w} : Owned(v) \cap Owned(w)' = {} BY <1>7, GrantedIsFree
<1> QED BY <1>2, <1>3, <1>4, <1>6, <1>8 DEF t

LEMMA LockLineKeeps ==
  ASSUME WorkersKept, NEW w \in Workers, LockLine(w)
  PROVE  WorkersKept'
<1> DEFINE t == [workers[w] EXCEPT !.done = @ + 1]
           q == workers[w].queue
           n == workers[w].done
<1>1. Doing(w, "reconcile") /\ ~Done(w) /\ Granted(w) /\ Rest /\ WorkerKept(w)
  BY DEF LockLine, WorkersKept
<1>2. CASE Accepts(w, q[n + 1])
  <2>1. Goes(w, t) BY <1>2 DEF LockLine
  <2>2. ~(Doing(w, "unreconcile") /\ q = <<>>) BY <1>1 DEF Doing
  <2>3. /\ t \in Transactions /\ workers'[w] = t /\ workers'[w].op = workers[w].op
        /\ workers'[w].queue = q /\ workers'[w].done = n + 1 /\ workers'[w].done <= Len(q)
        /\ \A v \in Busy \ {w} : Owned(v) \cap Owned(w)' = {}
    BY <1>1, <2>1, <2>2, NextLine
  <2>4. Reconciling(w) BY <1>1 DEF WorkerKept, Unreconciling, Doing
  <2>5. n \in Nat BY <1>1, TransactionIs DEF Granted
  <2>6. \A i \in 1 .. n + 1 : Accepts(w, q[i])
    <3>1. \A i \in 1 .. n + 1 : i \in 1 .. n \/ i = n + 1 BY <2>5
    <3> QED BY <1>2, <2>4, <3>1 DEF Reconciling
  <2>7. \A i \in 1 .. n + 1 : Accepts(w, q[i])'
    BY <2>3, <2>6, <1>1 DEF Accepts, InForeign, Residual, Capacity, Rest
  <2>8. Reconciling(w)' BY <1>1, <2>3, <2>4, <2>7 DEF Reconciling, Doing
  <2> HIDE DEF t
  <2> QED BY <1>1, <2>1, <2>3, <2>8, OneMovesAtRest DEF WorkerKept
<1>3. CASE ~Accepts(w, q[n + 1])
  BY <1>1, <1>3, IdleAtRest DEF LockLine
<1> QED BY <1>2, <1>3

LEMMA RestoreLineKeeps ==
  ASSUME WorkersKept, NEW w \in Workers, RestoreLine(w)
  PROVE  WorkersKept'
<1> DEFINE t == [workers[w] EXCEPT !.done = @ + 1]
           q == workers[w].queue
           item == q[workers[w].done + 1]
<1>1. Doing(w, "unreconcile") /\ ~Done(w) /\ Granted(w) /\ Rest /\ WorkerKept(w)
  BY DEF RestoreLine, WorkersKept
<1>2. CASE reconciled[item.line] >= item.amount
  <2>1. Goes(w, t) BY <1>2 DEF RestoreLine
  <2>2. Unreconciling(w) BY <1>1 DEF WorkerKept, Reconciling, Doing
  <2>3. q # <<>>
    <3>1. workers[w].done \in Nat BY <1>1, TransactionIs DEF Granted
    <3>2. q = <<>> => Len(q) = 0 OBVIOUS
    <3>3. workers[w].done = 0 \/ workers[w].done <= Len(q) BY <2>2 DEF Unreconciling
    <3> QED BY <1>1, <3>1, <3>2, <3>3 DEF Done
  <2>4. /\ t \in Transactions /\ workers'[w] = t /\ workers'[w].op = workers[w].op
        /\ workers'[w].rec = workers[w].rec
        /\ workers'[w].queue = q /\ workers'[w].done <= Len(q)
        /\ \A v \in Busy \ {w} : Owned(v) \cap Owned(w)' = {}
    BY <1>1, <2>1, <2>3, NextLine
  <2>5. Unreconciling(w)'
    BY <1>1, <2>2, <2>3, <2>4 DEF Unreconciling, Doing, Rest
  <2> HIDE DEF t
  <2> QED BY <1>1, <2>1, <2>4, <2>5, OneMovesAtRest DEF WorkerKept
<1>3. CASE ~(reconciled[item.line] >= item.amount)
  BY <1>1, <1>3, IdleAtRest DEF RestoreLine
<1> QED BY <1>2, <1>3

LEMMA LockRecKeeps ==
  ASSUME TablesKept, WorkersKept, NEW w \in Workers, LockRec(w)
  PROVE  WorkersKept'
<1> DEFINE r == workers[w].rec
           q == InOrder(recs[r].queue)
           t == [workers[w] EXCEPT !.queue = q]
<1>1. /\ Doing(w, "unreconcile") /\ workers[w].queue = <<>> /\ Granted(w) /\ Rest /\ WorkerKept(w)
      /\ IF recs[r].live THEN Goes(w, t) ELSE Goes(w, Idle)
  BY DEF LockRec, WorkersKept
<1>2. CASE recs[r].live
  <2>1. Goes(w, t) BY <1>1, <1>2
  <2>2. Unreconciling(w) BY <1>1 DEF WorkerKept, Reconciling, Doing
  <2>3. Queue(recs[r].queue) /\ Len(recs[r].queue) >= 2 BY <2>2, RequestIs
    DEF TablesKept, RecsKept, RowKept, Unreconciling
  <2>4. Queue(q) /\ Len(q) >= 2 BY <2>3, InOrderIs
  <2>5. q \in Seq(Items) /\ q # <<>> BY <2>4 DEF Queue
  <2>6. /\ workers[w] = [op |-> workers[w].op, rec |-> r, queue |-> workers[w].queue,
                         done |-> workers[w].done]
        /\ workers[w].op \in {"reconcile", "unreconcile"} /\ r \in RecIds \cup {0}
    BY <1>1, TransactionIs DEF Granted
  <2>7. workers[w].done = 0 \/ workers[w].done <= Len(workers[w].queue)
    BY <2>2 DEF Unreconciling
  <2>8. workers[w].done = 0
    <3>1. workers[w].done \in Nat BY <1>1, TransactionIs DEF Granted
    <3> QED BY <1>1, <2>7, <3>1
  <2> HIDE DEF q
  <2>9. t = [op |-> workers[w].op, rec |-> r, queue |-> q, done |-> 0] BY <2>6, <2>8
  <2>10. t \in Transactions /\ t.op = workers[w].op /\ t.rec = r /\ t.queue = q /\ t.done = 0
    BY <2>5, <2>6, <2>9 DEF Transactions
  <2> HIDE DEF t
  <2>11. workers'[w] = t BY <2>1, BusyIs
  <2>12. Owned(w)' \subseteq Owned(w) \cup Wanted(w)
    <3>1. Held(w)' = {} BY <2>10, <2>11 DEF Held
    <3>2. Owned(w)' = {<<"rec", r>>} BY <1>1, <2>5, <2>10, <2>11, <3>1 DEF Owned, Doing
    <3>3. Wanted(w) = {<<"rec", r>>} BY <1>1 DEF Wanted
    <3> QED BY <3>2, <3>3
  <2>13. \A v \in Busy \ {w} : Owned(v) \cap Owned(w)' = {} BY <1>1, <2>12, GrantedIsFree
  <2>14. Unreconciling(w)'
    <3>1. recs' = recs /\ r \in DOMAIN recs BY <1>1, <2>2 DEF Rest, Unreconciling
    <3>2. workers'[w].queue = InOrder(recs[r].queue) /\ workers'[w].rec = r BY <2>10, <2>11 DEF q
    <3>3. 0 <= Len(q) /\ Doing(w, "unreconcile")' BY <1>1, <2>4, <2>10, <2>11 DEF Doing
    <3> QED BY <1>2, <2>10, <2>11, <3>1, <3>2, <3>3 DEF Unreconciling
  <2> QED BY <1>1, <2>1, <2>10, <2>13, <2>14, OneMovesAtRest DEF WorkerKept
<1>3. CASE ~recs[r].live
  BY <1>1, <1>3, IdleAtRest
<1> QED BY <1>2, <1>3

-----------------------------------------------------------------------------
\* Steps that change the tables.

LEMMA CounterFacts ==
  ASSUME TablesKept
  PROVE  /\ \A l \in DOMAIN lines : reconciled[l] \in Nat
         /\ \A l : Off(recs, l) \in Nat
<1>1. ASSUME NEW l PROVE Off(recs, l) \in Nat
  <2> DEFINE f == [r \in LiveIn(recs) |-> Allocated(recs[r].queue, l)]
  <2>1. Rows(recs) /\ \A r \in LiveIn(recs) : f[r] = Allocated(recs[r].queue, l)
    BY RecFacts DEF TablesKept
  <2> HIDE DEF f
  <2> QED BY <2>1, OffIs
<1> QED BY <1>1 DEF TablesKept, CountersKept

\* Transactions that the step of another one leaves alone: their lines are not reconciled
\* further, and their reconciliation stays in force.
LEMMA OthersKept ==
  ASSUME TablesKept, WorkersKept, NEW v \in Workers, workers'[v] = workers[v], LinesGrow,
         \A l \in DOMAIN lines : reconciled'[l] \in Int,
         DOMAIN recs \subseteq DOMAIN recs',
         \A r \in DOMAIN recs : recs'[r].queue = recs[r].queue,
         v \in Busy =>
           /\ \A l \in Held(v) : l \in DOMAIN lines => reconciled'[l] <= reconciled[l]
           /\ \A r \in DOMAIN recs : <<"rec", r>> \in Owned(v) /\ recs[r].live => recs'[r].live
  PROVE  WorkerKept(v)'
<1> DEFINE t == workers[v]
<1>0. WorkerKept(v) /\ (~Doing(v, "idle") => t.done \in Nat /\ v \in Busy)
  BY TransactionIs DEF WorkersKept, Busy
<1>1. CASE Doing(v, "idle") BY <1>1 DEF WorkerKept, Doing
<1>2. CASE Reconciling(v)
  <2>1. ASSUME NEW i \in 1 .. t.done PROVE Accepts(v, t.queue[i])'
    <3> DEFINE l == t.queue[i].line
    <3>1. /\ l \in DOMAIN lines /\ (InForeign(l) <=> InForeign(t.queue[1].line))
          /\ t.queue[i].amount <= Residual(l)
      BY <1>2 DEF Reconciling, Accepts
    <3>2. t.queue \in Requests /\ t.done <= Len(t.queue) BY <1>2 DEF Reconciling
    <3>3. Queue(t.queue) /\ Len(t.queue) >= 2 BY <3>2, RequestIs
    <3>4. /\ Len(t.queue) \in Nat /\ DOMAIN t.queue = 1 .. Len(t.queue)
          /\ \A j \in DOMAIN t.queue : t.queue[j].amount \in Nat
      BY <3>3, QueueFacts
    <3>5. t.done \in Nat /\ v \in Busy BY <1>0, <1>2 DEF Reconciling, Doing
    <3>6. i \in DOMAIN t.queue /\ 1 \in 1 .. t.done BY <3>2, <3>3, <3>4, <3>5
    <3>7. t.queue[1].line \in DOMAIN lines BY <1>2, <3>6 DEF Reconciling, Accepts
    <3>8. /\ l \in DOMAIN lines' /\ Capacity(l)' = Capacity(l) /\ InForeign(l)' = InForeign(l)
          /\ InForeign(t.queue[1].line)' = InForeign(t.queue[1].line)
      BY <3>1, <3>7, LineStays DEF LinesGrow
    <3>9. l \in Held(v) BY DEF Held
    <3>10. /\ reconciled'[l] \in Int /\ reconciled[l] \in Int /\ reconciled'[l] <= reconciled[l]
          /\ Capacity(l) \in Int
      <4>1. Capacity(l) \in Int BY <3>1, LineFacts DEF TablesKept
      <4>2. reconciled[l] \in Nat BY <3>1, CounterFacts
      <4> QED BY <3>1, <3>5, <3>9, <4>1, <4>2
    <3>11. t.queue[i].amount \in Int BY <3>4, <3>6
    <3>12. t.queue[i].amount <= Capacity(l) - reconciled[l] BY <3>1 DEF Residual
    <3>13. t.queue[i].amount <= Capacity(l)' - reconciled'[l] BY <3>8, <3>10, <3>11, <3>12
    <3> QED BY <3>1, <3>8, <3>13 DEF Accepts, Residual
  <2> QED BY <1>2, <2>1 DEF WorkerKept, Reconciling, Doing
<1>3. CASE Unreconciling(v)
  <2>1. t.rec \in DOMAIN recs' /\ recs'[t.rec].queue = recs[t.rec].queue
    BY <1>3 DEF Unreconciling
  <2>2. ASSUME t.queue # <<>> PROVE recs'[t.rec].live
    <3>1. v \in Busy BY <1>0, <1>3 DEF Unreconciling, Doing
    <3>2. <<"rec", t.rec>> \in Owned(v) BY <1>3, <2>2 DEF Owned, Unreconciling
    <3> QED BY <1>3, <2>2, <3>1, <3>2 DEF Unreconciling
  <2>3. Doing(v, "unreconcile")' /\ t.done \in Nat BY <1>0, <1>3 DEF Unreconciling, Doing
  <2>4. t.queue = <<>> => t.done = 0
    <3>1. t.queue = <<>> => Len(t.queue) = 0 OBVIOUS
    <3> QED BY <1>3, <2>3, <3>1 DEF Unreconciling
  <2> QED BY <1>3, <2>1, <2>2, <2>3, <2>4 DEF WorkerKept, Unreconciling
<1> QED BY <1>0, <1>1, <1>2, <1>3 DEF WorkerKept

\* The reversal of an FX move adds its mirror.
LEMMA ReversalBooked ==
  ASSUME RecsKept, LinesKept, NEW r \in DOMAIN recs, recs[r].fx # 0, recs[r].reversals = 0,
         NEW counters, DOMAIN counters = DOMAIN lines, Reverse(r, counters),
         DOMAIN recs' = DOMAIN recs, \A x \in DOMAIN recs : recs'[x].fx = recs[x].fx,
         recs'[r].reversals = 1,
         \A x \in DOMAIN recs \ {r} : recs'[x].reversals = recs[x].reversals
  PROVE  /\ LinesKept' /\ LinesGrow /\ DOMAIN lines' = DOMAIN lines \cup {ReversalLine(r)}
         /\ ReversalLine(r) \notin DOMAIN lines
         /\ DOMAIN reconciled' = DOMAIN lines' /\ reconciled'[ReversalLine(r)] = 0
         /\ \A x \in DOMAIN lines : reconciled'[x] = counters[x]
<1> DEFINE new == ReversalLine(r)
           net == -recs[r].fx
<1>1. new \notin DOMAIN lines BY NewLines
<1>2. PostLine(new, net, counters) BY DEF Reverse
<1>3. /\ LinesGrow /\ DOMAIN lines' = DOMAIN lines \cup {new}
      /\ lines'[new] = [net |-> net, foreign |-> 0]
      /\ DOMAIN reconciled' = DOMAIN lines' /\ reconciled'[new] = 0
      /\ \A x \in DOMAIN lines : reconciled'[x] = counters[x]
  <2> HIDE DEF new, net
  <2> QED BY <1>1, <1>2 DEF PostLine, Put, LinesGrow
<1>4. Booked' = Booked /\ Reversed' = Reversed \cup {r} /\ r \notin Reversed
  BY DEF Booked, Reversed
<1>5. DOMAIN lines' = DOMAIN FirstLines \cup {FxLine(x) : x \in Booked'}
                        \cup {ReversalLine(x) : x \in Reversed'}
  <2>1. {ReversalLine(x) : x \in Reversed'} = {ReversalLine(x) : x \in Reversed} \cup {new}
    BY <1>4
  <2> HIDE DEF new
  <2> QED BY <1>3, <1>4, <2>1 DEF LinesKept
<1>6. \A l \in DOMAIN FirstLines : lines'[l] = FirstLines[l]
  BY <1>3 DEF LinesKept, LinesGrow
<1>7. \A x \in Booked' : lines'[FxLine(x)] = [net |-> recs'[x].fx, foreign |-> 0]
  BY <1>3, <1>4 DEF LinesKept, LinesGrow, Booked
<1>8. \A x \in Reversed' : lines'[ReversalLine(x)] = [net |-> -recs'[x].fx, foreign |-> 0]
  BY <1>3, <1>4 DEF LinesKept, LinesGrow, Reversed
<1>9. LinesKept' BY <1>5, <1>6, <1>7, <1>8 DEF LinesKept
<1> QED BY <1>1, <1>3, <1>9

\* The FX move of a new reconciliation adds a line.
LEMMA FxBooked ==
  ASSUME RecsKept, LinesKept, NEW r \in RecIds \ DOMAIN recs, NEW fx, fx # 0,
         NEW counters, DOMAIN counters = DOMAIN lines, PostLine(FxLine(r), fx, counters),
         DOMAIN recs' = DOMAIN recs \cup {r}, \A x \in DOMAIN recs : recs'[x] = recs[x],
         recs'[r].fx = fx, recs'[r].reversals = 0
  PROVE  /\ LinesKept' /\ LinesGrow /\ DOMAIN lines' = DOMAIN lines \cup {FxLine(r)}
         /\ FxLine(r) \notin DOMAIN lines
         /\ DOMAIN reconciled' = DOMAIN lines' /\ reconciled'[FxLine(r)] = 0
         /\ \A x \in DOMAIN lines : reconciled'[x] = counters[x]
<1> DEFINE new == FxLine(r)
<1>1. new \notin DOMAIN lines BY NewLines
<1>3. /\ LinesGrow /\ DOMAIN lines' = DOMAIN lines \cup {new}
      /\ lines'[new] = [net |-> fx, foreign |-> 0]
      /\ DOMAIN reconciled' = DOMAIN lines' /\ reconciled'[new] = 0
      /\ \A x \in DOMAIN lines : reconciled'[x] = counters[x]
  <2>1. PostLine(new, fx, counters) OBVIOUS
  <2> HIDE DEF new
  <2> QED BY <1>1, <2>1 DEF PostLine, Put, LinesGrow
<1>4. Booked' = Booked \cup {r} /\ Reversed' = Reversed BY DEF Booked, Reversed
<1>5. DOMAIN lines' = DOMAIN FirstLines \cup {FxLine(x) : x \in Booked'}
                        \cup {ReversalLine(x) : x \in Reversed'}
  <2>1. {FxLine(x) : x \in Booked'} = {FxLine(x) : x \in Booked} \cup {new}
    BY <1>4
  <2> HIDE DEF new
  <2> QED BY <1>3, <1>4, <2>1 DEF LinesKept
<1>6. \A l \in DOMAIN FirstLines : lines'[l] = FirstLines[l]
  BY <1>3 DEF LinesKept, LinesGrow
<1>7. \A x \in Booked' : lines'[FxLine(x)] = [net |-> recs'[x].fx, foreign |-> 0]
  BY <1>3, <1>4 DEF LinesKept, LinesGrow, Booked
<1>8. \A x \in Reversed' : lines'[ReversalLine(x)] = [net |-> -recs'[x].fx, foreign |-> 0]
  BY <1>3, <1>4 DEF LinesKept, LinesGrow, Reversed
<1>9. LinesKept' BY <1>5, <1>6, <1>7, <1>8 DEF LinesKept
<1> QED BY <1>1, <1>3, <1>9

\* A row that keeps its items and its FX move.
LEMMA RowStays ==
  ASSUME RecsKept, LinesGrow, NEW r \in DOMAIN recs,
         recs'[r] \in RecRows, recs'[r].queue = recs[r].queue, recs'[r].fx = recs[r].fx,
         recs'[r].reversals <= 1, recs[r].fx = 0 => recs'[r].reversals = 0,
         ~recs'[r].live /\ recs[r].fx # 0 => recs'[r].reversals = 1
  PROVE  RowKept(r)'
<1>1. RowKept(r) BY DEF RecsKept
<1>2. PICK q : q = recs[r].queue OBVIOUS
<1>3. q \in Requests /\ OneCurrency(q) /\ Signed(q) = 0 /\ recs[r].fx = Realized(q)
  BY <1>1, <1>2 DEF RowKept
<1>4. OneCurrency(q)' /\ Signed(q)' = Signed(q) /\ Realized(q)' = Realized(q)
  BY <1>3, RequestStays
<1>5. recs'[r].queue = q BY <1>2
<1>6. OneCurrency(recs[r].queue)' BY <1>4, <1>5 DEF OneCurrency
<1>7. Signed(recs[r].queue)' = 0 BY <1>3, <1>4, <1>5 DEF Signed
<1>8. Realized(recs[r].queue)' = recs'[r].fx BY <1>3, <1>4, <1>5 DEF Realized, InBooks
<1> QED BY <1>3, <1>5, <1>6, <1>7, <1>8 DEF RowKept

LEMMA RecsStay ==
  ASSUME RecsKept, LinesGrow, DOMAIN recs' = DOMAIN recs, NEW r \in DOMAIN recs,
         \A x \in DOMAIN recs \ {r} : recs'[x] = recs[x], RowKept(r)'
  PROVE  RecsKept'
<1>1. ASSUME NEW x \in DOMAIN recs \ {r} PROVE RowKept(x)'
  <2>1. RowKept(x) /\ recs'[x] = recs[x] BY DEF RecsKept
  <2> QED BY <2>1, RowStays DEF RowKept
<1>2. \E k \in 0 .. MaxMatches : DOMAIN recs' = 1 .. k BY DEF RecsKept
<1> QED BY <1>1, <1>2 DEF RecsKept

\* Counters after a step in which no reconciliation takes effect.
LEMMA CountersStay ==
  ASSUME TablesKept, LinesGrow, LinesKept', RecsKept', DOMAIN reconciled' = DOMAIN lines',
         \A l \in DOMAIN lines' \ DOMAIN lines : reconciled'[l] = 0 /\ Off(recs', l) = 0,
         \A l \in DOMAIN lines : reconciled'[l] = Off(recs', l) /\ reconciled'[l] <= Capacity(l)
  PROVE  CountersKept'
<1>1. ASSUME NEW l \in DOMAIN lines' PROVE reconciled'[l] = Off(recs', l) /\ reconciled'[l] <= Capacity(l)'
  <2>1. CASE l \in DOMAIN lines
    <3>1. Capacity(l)' = Capacity(l) BY <2>1, LineStays DEF LinesGrow
    <3> QED BY <2>1, <3>1
  <2>2. CASE l \notin DOMAIN lines
    <3>1. Capacity(l)' \in Nat \ {0} BY LinesHoldNext DEF LinesHold
    <3> QED BY <2>2, <3>1
  <2> QED BY <2>1, <2>2
<1> QED BY <1>1 DEF CountersKept

\* A line that is not posted has not been reconciled.
LEMMA NotReconciled ==
  ASSUME TablesKept, NEW l, l \notin DOMAIN lines
  PROVE  Off(recs, l) = 0
<1> DEFINE f == [r \in LiveIn(recs) |-> Allocated(recs[r].queue, l)]
<1>1. Rows(recs) BY RecFacts DEF TablesKept
<1>2. ASSUME NEW r \in LiveIn(recs) PROVE f[r] = Allocated(recs[r].queue, l) /\ f[r] = 0
  <2>1. r \in DOMAIN recs /\ Queue(recs[r].queue) BY <1>1 DEF LiveIn, Rows
  <2>2. OneCurrency(recs[r].queue) BY <2>1 DEF TablesKept, RecsKept, RowKept
  <2>3. l \notin LinesOf(recs[r].queue) BY <2>2 DEF OneCurrency, LinesOf
  <2> QED BY <2>1, <2>3, AllocatedIs
<1> HIDE DEF f
<1>3. IsFiniteSet(LiveIn(recs)) /\ Off(recs, l) = SumFunctionOnSet(f, LiveIn(recs))
  BY <1>1, <1>2, OffIs
<1> QED BY <1>2, <1>3, SumZero

\* A row that counts another reversal.
LEMMA RowReversed ==
  ASSUME NEW row \in RecRows, NEW n \in Nat
  PROVE  LET new == [row EXCEPT !.reversals = n]
         IN /\ new \in RecRows /\ new.live = row.live /\ new.queue = row.queue
            /\ new.fx = row.fx /\ new.reversals = n
<1>1. [row EXCEPT !.reversals = n]
        = [live |-> row.live, queue |-> row.queue, fx |-> row.fx, reversals |-> n]
  BY DEF RecRows
<1>2. /\ row.live \in BOOLEAN /\ row.queue \in Seq(Items) /\ row.fx \in Int
  BY DEF RecRows
<1> QED BY <1>1, <1>2, Zenon DEF RecRows

LEMMA ReverseByHandKeeps ==
  ASSUME Inv, NEW r \in RecIds, ReverseByHand(r)
  PROVE  /\ Inv' /\ LinesGrow /\ \A l \in DOMAIN lines : reconciled'[l] = reconciled[l]
         /\ DOMAIN recs' = DOMAIN recs
         /\ \A x \in DOMAIN recs : recs'[x].live = recs[x].live /\ recs'[x].queue = recs[x].queue
<1>1. /\ r \in DOMAIN recs /\ recs[r].fx # 0 /\ recs[r].reversals = 0
      /\ recs' = [recs EXCEPT ![r].reversals = 1] /\ Reverse(r, reconciled) /\ workers' = workers
  BY DEF ReverseByHand
<1>2. RecsKept /\ LinesKept /\ CountersKept /\ TablesKept /\ WorkersKept BY DEF Inv, TablesKept
<1>3. recs[r] \in RecRows /\ \A x \in DOMAIN recs : recs[x] \in RecRows
  BY <1>1, <1>2 DEF RecsKept, RowKept
<1>4. /\ DOMAIN recs' = DOMAIN recs /\ \A x \in DOMAIN recs \ {r} : recs'[x] = recs[x]
      /\ recs'[r] = [recs[r] EXCEPT !.reversals = 1]
  BY <1>1
<1>5. /\ recs'[r] \in RecRows /\ recs'[r].live = recs[r].live /\ recs'[r].queue = recs[r].queue
      /\ recs'[r].fx = recs[r].fx /\ recs'[r].reversals = 1
  BY <1>3, <1>4, RowReversed
<1>6. \A x \in DOMAIN recs : /\ recs'[x].live = recs[x].live /\ recs'[x].queue = recs[x].queue
                             /\ recs'[x].fx = recs[x].fx
  BY <1>4, <1>5
<1>7. /\ LinesKept' /\ LinesGrow /\ DOMAIN lines' = DOMAIN lines \cup {ReversalLine(r)}
      /\ ReversalLine(r) \notin DOMAIN lines
      /\ DOMAIN reconciled' = DOMAIN lines' /\ reconciled'[ReversalLine(r)] = 0
      /\ \A x \in DOMAIN lines : reconciled'[x] = reconciled[x]
  <2>1. DOMAIN reconciled = DOMAIN lines BY <1>2 DEF CountersKept
  <2> QED BY <1>1, <1>2, <1>4, <1>5, <1>6, <2>1, ReversalBooked
<1>8. RowKept(r)' BY <1>1, <1>2, <1>5, <1>7, RowStays
<1>9. RecsKept' BY <1>1, <1>2, <1>4, <1>7, <1>8, RecsStay
<1>10. \A l : Off(recs', l) = Off(recs, l)
  <2>1. Rows(recs) /\ Rows(recs') BY <1>2, <1>4, <1>6, RecFacts DEF Rows
  <2>2. LiveIn(recs') = LiveIn(recs) BY <1>4, <1>6 DEF LiveIn
  <2>3. \A x \in LiveIn(recs) : recs'[x].queue = recs[x].queue BY <1>6 DEF LiveIn
  <2> QED BY <2>1, <2>2, <2>3, OffSame
<1>11. CountersKept'
  <2>1. \A l \in DOMAIN lines : reconciled'[l] = Off(recs', l) /\ reconciled'[l] <= Capacity(l)
    BY <1>2, <1>7, <1>10 DEF CountersKept
  <2>2. \A l \in DOMAIN lines' \ DOMAIN lines : reconciled'[l] = 0 /\ Off(recs', l) = 0
    BY <1>2, <1>7, <1>10, NotReconciled
  <2> QED BY <1>2, <1>7, <1>9, <2>1, <2>2, CountersStay
<1>12. \A v \in Workers : WorkerKept(v)'
  <2> TAKE v \in Workers
  <2>1. \A l \in DOMAIN lines : reconciled[l] \in Nat BY <1>2, CounterFacts
  <2>2. \A l \in DOMAIN lines : reconciled'[l] \in Int /\ reconciled'[l] <= reconciled[l]
    BY <1>7, <2>1
  <2>3. workers'[v] = workers[v] BY <1>1
  <2> QED BY <1>2, <1>4, <1>6, <1>7, <2>2, <2>3, OthersKept
<1>13. WorkersKept'
  <2>1. Busy' = Busy BY <1>1 DEF Busy, Doing
  <2>2. \A v, u \in Busy : v # u => Apart(v, u)'
    BY <1>1, <1>2 DEF Apart, Owned, Held, Doing, WorkersKept
  <2> QED BY <1>1, <1>2, <1>12, <2>1, <2>2 DEF WorkersKept
<1> QED BY <1>4, <1>6, <1>7, <1>9, <1>11, <1>13 DEF Inv, TablesKept

\* The queue of a reconcile that has all its locks may be allocated.
LEMMA AllLocked ==
  ASSUME TablesKept, WorkersKept, NEW w \in Workers, Doing(w, "reconcile"), Done(w)
  PROVE  LET q == workers[w].queue
         IN /\ q \in Requests /\ Queue(q) /\ w \in Busy /\ OneCurrency(q)
            /\ Held(w) = LinesOf(q) /\ LinesOf(q) \subseteq DOMAIN lines
            /\ \A l \in DOMAIN lines : reconciled[l] + Allocated(q, l) <= Capacity(l)
<1> DEFINE q == workers[w].queue
<1>1. Reconciling(w) BY DEF WorkersKept, WorkerKept, Unreconciling, Doing
<1>2. /\ q \in Requests /\ w \in Busy /\ workers[w].done = Len(q)
      /\ \A i \in 1 .. Len(q) : Accepts(w, q[i])
  BY <1>1 DEF Reconciling, Done, Busy, Doing
<1>3. Queue(q) BY <1>2, RequestIs
<1>4. /\ DOMAIN q = 1 .. Len(q) /\ \A i \in DOMAIN q : q[i].amount \in Nat BY <1>3, QueueFacts
<1>5. ASSUME NEW i \in DOMAIN q
      PROVE  /\ q[i].line \in DOMAIN lines /\ (InForeign(q[i].line) <=> InForeign(q[1].line))
             /\ q[i].amount <= Capacity(q[i].line) - reconciled[q[i].line]
  BY <1>2, <1>4 DEF Accepts, Residual
<1>6. OneCurrency(q) /\ LinesOf(q) \subseteq DOMAIN lines BY <1>5 DEF OneCurrency, LinesOf
<1>7. Held(w) = LinesOf(q) BY <1>2, <1>4 DEF Held, LinesOf
<1>8. ASSUME NEW l \in DOMAIN lines PROVE reconciled[l] + Allocated(q, l) <= Capacity(l)
  <2>1. /\ reconciled[l] \in Nat /\ Capacity(l) \in Nat /\ reconciled[l] <= Capacity(l)
    BY CounterFacts, LineFacts DEF TablesKept, CountersKept
  <2>2. CASE l \in LinesOf(q)
    <3>1. PICK i \in DOMAIN q : q[i].line = l BY <2>2 DEF LinesOf
    <3>2. Allocated(q, l) = q[i].amount BY <1>3, <3>1, AllocatedIs
    <3>3. q[i].amount \in Nat /\ q[i].amount <= Capacity(l) - reconciled[l] BY <1>4, <1>5, <3>1
    <3> QED BY <2>1, <3>2, <3>3
  <2>3. CASE l \notin LinesOf(q)
    <3>1. Allocated(q, l) = 0 BY <1>3, <2>3, AllocatedIs
    <3> QED BY <2>1, <3>1
  <2> QED BY <2>2, <2>3
<1> QED BY <1>2, <1>3, <1>6, <1>7, <1>8

\* The tables after a reconciliation.
LEMMA ReconciledTables ==
  ASSUME Inv, NEW w \in Workers, CommitReconcile(w), NEW q, q = workers[w].queue
  PROVE  /\ TablesKept' /\ LinesGrow /\ Cardinality(DOMAIN recs) + 1 \in RecIds \ DOMAIN recs
         /\ recs' = Put(recs, Cardinality(DOMAIN recs) + 1,
                        [live |-> TRUE, queue |-> q, fx |-> Realized(q), reversals |-> 0])
         /\ \A l \in DOMAIN lines : reconciled'[l] = reconciled[l] + Allocated(q, l)
         /\ \A l \in DOMAIN lines' \ DOMAIN lines : reconciled'[l] = 0
<1> DEFINE total == [l \in DOMAIN lines |-> reconciled[l] + Allocated(q, l)]
<1>1. PICK r, fx, row : /\ r = Cardinality(DOMAIN recs) + 1 /\ fx = Realized(q)
                        /\ row = [live |-> TRUE, queue |-> q, fx |-> fx, reversals |-> 0]
  OBVIOUS
<1>2. /\ Doing(w, "reconcile") /\ Done(w) /\ r \in RecIds /\ Signed(q) = 0
      /\ recs' = Put(recs, r, row)
      /\ IF fx = 0 THEN lines' = lines /\ reconciled' = total ELSE PostLine(FxLine(r), fx, total)
  BY <1>1 DEF CommitReconcile
<1>3. RecsKept /\ LinesKept /\ CountersKept /\ TablesKept /\ WorkersKept BY DEF Inv, TablesKept
<1>4. /\ q \in Requests /\ Queue(q) /\ OneCurrency(q) /\ LinesOf(q) \subseteq DOMAIN lines
      /\ \A l \in DOMAIN lines : reconciled[l] + Allocated(q, l) <= Capacity(l)
  BY <1>2, <1>3, AllLocked
<1>5. fx \in Int BY <1>1, <1>3, <1>4, SumsAreIntegers
<1>6. /\ r \in Nat \ {0} /\ DOMAIN recs = 1 .. r - 1 /\ r \notin DOMAIN recs /\ r <= MaxMatches
      /\ Rows(recs)
  BY <1>1, <1>2, <1>3, RecFacts, FirstFacts DEF RecIds
<1>7. /\ DOMAIN recs' = DOMAIN recs \cup {r} /\ recs'[r] = row
      /\ \A x \in DOMAIN recs : recs'[x] = recs[x]
  BY <1>2, <1>6 DEF Put
<1>8. row.live = TRUE /\ row.queue = q /\ row.fx = fx /\ row.reversals = 0 BY <1>1
<1>9. row \in RecRows BY <1>1, <1>4, <1>5 DEF RecRows, Queue
<1>10. DOMAIN total = DOMAIN lines /\ \A l \in DOMAIN lines : total[l] = reconciled[l] + Allocated(q, l)
  OBVIOUS
<1> HIDE DEF total
<1>11. /\ LinesKept' /\ LinesGrow /\ DOMAIN lines' \subseteq DOMAIN lines \cup {FxLine(r)}
       /\ FxLine(r) \notin DOMAIN lines
       /\ DOMAIN reconciled' = DOMAIN lines'
       /\ FxLine(r) \in DOMAIN lines' => reconciled'[FxLine(r)] = 0
       /\ \A l \in DOMAIN lines : reconciled'[l] = total[l]
  <2>1. CASE fx = 0
    <3>1. lines' = lines /\ reconciled' = total BY <1>2, <2>1
    <3>2. FxLine(r) \notin DOMAIN lines BY <1>2, <1>3, <1>6, NewLines
    <3>3. Booked' = Booked /\ Reversed' = Reversed BY <1>6, <1>7, <1>8, <2>1 DEF Booked, Reversed
    <3>4. LinesKept'
      <4>1. \A x \in Booked : recs'[x].fx = recs[x].fx BY <1>7 DEF Booked
      <4>2. \A x \in Reversed : recs'[x].fx = recs[x].fx BY <1>7 DEF Reversed
      <4> QED BY <1>3, <3>1, <3>3, <4>1, <4>2 DEF LinesKept
    <3> QED BY <1>10, <3>1, <3>2, <3>4 DEF LinesGrow
  <2>2. CASE fx # 0
    <3>1. PostLine(FxLine(r), fx, total) BY <1>2, <2>2
    <3> QED BY <1>2, <1>3, <1>6, <1>7, <1>8, <1>10, <2>2, <3>1, FxBooked
  <2> QED BY <2>1, <2>2
<1>12. ASSUME NEW x \in DOMAIN recs PROVE RowKept(x)'
  <2>1. RowKept(x) /\ recs'[x] = recs[x] BY <1>3, <1>7 DEF RecsKept
  <2> QED BY <1>3, <1>11, <2>1, RowStays DEF RowKept
<1>13. RowKept(r)'
  <2>1. OneCurrency(q)' /\ Signed(q)' = Signed(q) /\ Realized(q)' = Realized(q)
    <3>1. q \in Requests /\ OneCurrency(q) /\ LinesGrow BY <1>4, <1>11
    <3> QED BY <3>1, RequestStays
  <2>2. recs'[r].queue = q /\ recs'[r].fx = fx /\ recs'[r].reversals = 0 /\ recs'[r].live = TRUE
    BY <1>7, <1>8
  <2>3. OneCurrency(recs[r].queue)' BY <2>1, <2>2 DEF OneCurrency
  <2>4. Signed(recs[r].queue)' = 0 BY <1>2, <2>1, <2>2 DEF Signed
  <2>5. Realized(recs[r].queue)' = recs'[r].fx BY <1>1, <2>1, <2>2 DEF Realized, InBooks
  <2>6. recs'[r] \in RecRows BY <1>7, <1>9
  <2> QED BY <1>4, <2>2, <2>3, <2>4, <2>5, <2>6 DEF RowKept
<1>14. RecsKept'
  <2>1. DOMAIN recs' = 1 .. r /\ r \in 0 .. MaxMatches BY <1>6, <1>7, FirstFacts
  <2> QED BY <1>7, <1>12, <1>13, <2>1 DEF RecsKept
<1>15. ASSUME NEW l PROVE Off(recs', l) = Off(recs, l) + Allocated(q, l)
  <2>1. Rows(recs')
    <3>1. IsFiniteSet(DOMAIN recs') BY <1>6, <1>7, FS_AddElement DEF Rows
    <3> QED BY <1>4, <1>6, <1>7, <1>8, <3>1 DEF Rows
  <2>2. r \notin LiveIn(recs) /\ LiveIn(recs') = LiveIn(recs) \cup {r}
    BY <1>6, <1>7, <1>8 DEF LiveIn
  <2>3. \A x \in LiveIn(recs) : recs'[x].queue = recs[x].queue BY <1>7 DEF LiveIn
  <2>4. Off(recs', l) = Off(recs, l) + Allocated(recs'[r].queue, l)
    BY <1>6, <2>1, <2>2, <2>3, OffAdds
  <2> QED BY <1>7, <1>8, <2>4
<1>16. \A l \in DOMAIN lines : reconciled'[l] = Off(recs', l) /\ reconciled'[l] <= Capacity(l)
  BY <1>3, <1>4, <1>10, <1>11, <1>15 DEF CountersKept
<1>17. \A l \in DOMAIN lines' \ DOMAIN lines : reconciled'[l] = 0 /\ Off(recs', l) = 0
  <2> TAKE l \in DOMAIN lines' \ DOMAIN lines
  <2>1. Off(recs, l) = 0 BY <1>3, NotReconciled
  <2>2. Allocated(q, l) = 0 BY <1>4, AllocatedIs
  <2> QED BY <1>11, <1>15, <2>1, <2>2
<1>18. CountersKept' BY <1>3, <1>11, <1>14, <1>16, <1>17, CountersStay
<1> QED BY <1>1, <1>2, <1>6, <1>10, <1>11, <1>14, <1>17, <1>18 DEF TablesKept

LEMMA CommitReconcileKeeps ==
  ASSUME Inv, NEW w \in Workers, CommitReconcile(w)
  PROVE  Inv'
<1>1. PICK q, row : /\ q = workers[w].queue
        /\ row = [live |-> TRUE, queue |-> q, fx |-> Realized(q), reversals |-> 0]
  OBVIOUS
<1>2. /\ TablesKept' /\ LinesGrow /\ Cardinality(DOMAIN recs) + 1 \in RecIds \ DOMAIN recs
      /\ recs' = Put(recs, Cardinality(DOMAIN recs) + 1, row)
      /\ \A l \in DOMAIN lines : reconciled'[l] = reconciled[l] + Allocated(q, l)
  BY <1>1, ReconciledTables
<1>3. TablesKept /\ WorkersKept /\ Doing(w, "reconcile") /\ Done(w) /\ Goes(w, Idle)
  BY DEF Inv, CommitReconcile
<1>4. /\ Queue(q) /\ w \in Busy /\ Held(w) = LinesOf(q) BY <1>1, <1>3, AllLocked
<1>5. DOMAIN recs \subseteq DOMAIN recs' /\ \A x \in DOMAIN recs : recs'[x] = recs[x]
  BY <1>2 DEF Put
<1>6. ASSUME NEW v \in Workers \ {w} PROVE WorkerKept(v)'
  <2>1. workers'[v] = workers[v] BY <1>3, BusyIs
  <2>2. \A l \in DOMAIN lines : reconciled[l] \in Nat /\ Allocated(q, l) \in Nat
    BY <1>3, <1>4, CounterFacts, AllocatedIs
  <2>3. \A l \in DOMAIN lines : reconciled'[l] \in Int BY <1>2, <2>2
  <2>4. ASSUME v \in Busy, NEW l \in Held(v), l \in DOMAIN lines
        PROVE  reconciled'[l] <= reconciled[l]
    <3>1. <<"line", l>> \in Owned(v) BY DEF Owned
    <3>2. <<"line", l>> \notin Owned(w) BY <1>3, <1>4, <2>4, <3>1 DEF WorkersKept, Apart
    <3>3. l \notin LinesOf(q) BY <1>4, <3>2 DEF Owned
    <3>4. Allocated(q, l) = 0 BY <1>4, <3>3, AllocatedIs
    <3> QED BY <1>2, <2>2, <2>4, <3>4
  <2> QED BY <1>2, <1>3, <1>5, <2>1, <2>3, <2>4, OthersKept
<1>7. WorkersKept'
  <2>1. Idle \in Transactions /\ Idle.op = "idle" BY DEF Transactions, Idle
  <2>2. WorkerKept(w)'
    <3>1. workers'[w] = Idle BY <1>3, BusyIs
    <3> QED BY <2>1, <3>1 DEF WorkerKept, Doing
  <2> QED BY <1>3, <1>6, <2>1, <2>2, OneMoves
<1> QED BY <1>2, <1>7 DEF Inv

\* A row that is undone.
LEMMA RowUndone ==
  ASSUME NEW row \in RecRows, NEW b \in BOOLEAN
  PROVE  LET new == [row EXCEPT !.live = b]
         IN /\ new \in RecRows /\ new.live = b /\ new.queue = row.queue
            /\ new.fx = row.fx /\ new.reversals = row.reversals
<1>1. [row EXCEPT !.live = b]
        = [live |-> b, queue |-> row.queue, fx |-> row.fx, reversals |-> row.reversals]
  BY DEF RecRows
<1>2. row.queue \in Seq(Items) /\ row.fx \in Int /\ row.reversals \in Nat BY DEF RecRows
<1> QED BY <1>1, <1>2, Zenon DEF RecRows

\* The reconciliation that an unreconcile with a queue undoes.
LEMMA UndoneIs ==
  ASSUME TablesKept, WorkersKept, NEW w \in Workers, Doing(w, "unreconcile"),
         workers[w].queue # <<>>
  PROVE  LET r == workers[w].rec
         IN /\ r \in DOMAIN recs /\ recs[r].live /\ recs[r] \in RecRows /\ Queue(recs[r].queue)
            /\ recs[r].queue \in Requests /\ w \in Busy /\ <<"rec", r>> \in Owned(w)
            /\ workers[w].queue = InOrder(recs[r].queue)
            /\ \A l : Allocated(workers[w].queue, l) = Allocated(recs[r].queue, l)
<1> DEFINE r == workers[w].rec
<1>1. Unreconciling(w) BY DEF WorkersKept, WorkerKept, Reconciling, Doing
<1>2. /\ r \in DOMAIN recs /\ recs[r].live /\ workers[w].queue = InOrder(recs[r].queue)
      /\ w \in Busy /\ <<"rec", r>> \in Owned(w)
  BY <1>1 DEF Unreconciling, Busy, Doing, Owned
<1>3. recs[r] \in RecRows /\ recs[r].queue \in Requests
  BY <1>2 DEF TablesKept, RecsKept, RowKept
<1>4. Queue(recs[r].queue) BY <1>3, RequestIs
<1>5. \A l : Allocated(workers[w].queue, l) = Allocated(recs[r].queue, l)
  BY <1>2, <1>4, InOrderIs
<1> QED BY <1>2, <1>3, <1>4, <1>5

\* The tables after one is undone.
LEMMA UndoneTables ==
  ASSUME Inv, NEW w \in Workers, CommitUnreconcile(w), NEW r, r = workers[w].rec
  PROVE  /\ TablesKept' /\ LinesGrow /\ r \in DOMAIN recs /\ recs[r].live
         /\ DOMAIN recs' = DOMAIN recs /\ \A x \in DOMAIN recs \ {r} : recs'[x] = recs[x]
         /\ ~recs'[r].live /\ recs'[r].queue = recs[r].queue
         /\ \A l \in DOMAIN lines : /\ reconciled'[l] = reconciled[l] - Allocated(recs[r].queue, l)
                                    /\ Allocated(recs[r].queue, l) \in Nat
         /\ \A l \in DOMAIN lines' \ DOMAIN lines : reconciled'[l] = 0
<1>0. PICK no \in BOOLEAN : no = FALSE OBVIOUS
<1>1. PICK left : left = Restored(workers[w].queue) OBVIOUS
<1>2. /\ Doing(w, "unreconcile") /\ workers[w].queue # <<>>
      /\ IF recs[r].fx = 0
         THEN recs' = [recs EXCEPT ![r].live = no] /\ lines' = lines /\ reconciled' = left
         ELSE /\ recs[r].reversals = 0
              /\ recs' = [recs EXCEPT ![r].live = no, ![r].reversals = @ + 1]
              /\ Reverse(r, left)
  BY <1>0, <1>1 DEF CommitUnreconcile, MayReverse
<1>3. RecsKept /\ LinesKept /\ CountersKept /\ TablesKept /\ WorkersKept BY DEF Inv, TablesKept
<1>4. /\ r \in DOMAIN recs /\ recs[r].live /\ recs[r] \in RecRows /\ Queue(recs[r].queue)
      /\ \A l : Allocated(workers[w].queue, l) = Allocated(recs[r].queue, l)
  BY <1>2, <1>3, UndoneIs
<1>5. /\ DOMAIN left = DOMAIN lines
      /\ \A l \in DOMAIN lines : left[l] = reconciled[l] - Allocated(recs[r].queue, l)
  BY <1>1, <1>4 DEF Restored
<1>6. /\ DOMAIN recs' = DOMAIN recs /\ \A x \in DOMAIN recs \ {r} : recs'[x] = recs[x]
      /\ recs'[r] = IF recs[r].fx = 0 THEN [recs[r] EXCEPT !.live = no]
                    ELSE [recs[r] EXCEPT !.live = no, !.reversals = @ + 1]
  BY <1>2, <1>4
<1>7. recs[r].fx = 0 => recs[r].reversals = 0 BY <1>3, <1>4 DEF RecsKept, RowKept
<1>8. /\ recs'[r] \in RecRows /\ ~recs'[r].live /\ recs'[r].queue = recs[r].queue
      /\ recs'[r].fx = recs[r].fx
      /\ recs'[r].reversals = IF recs[r].fx = 0 THEN 0 ELSE 1
  <2>1. CASE recs[r].fx = 0
    <3>1. recs'[r] = [recs[r] EXCEPT !.live = no] BY <1>6, <2>1
    <3>2. recs[r] \in RecRows BY <1>4
    <3>3. /\ recs'[r] \in RecRows /\ recs'[r].live = no /\ recs'[r].queue = recs[r].queue
          /\ recs'[r].fx = recs[r].fx /\ recs'[r].reversals = recs[r].reversals
      BY <3>1, <3>2, RowUndone
    <3> QED BY <1>0, <1>7, <2>1, <3>3
  <2>2. CASE recs[r].fx # 0
    <3>1. PICK n \in Nat : n = recs[r].reversals + 1
      <4>1. recs[r].reversals + 1 \in Nat BY <1>2, <2>2
      <4> QED BY <4>1
    <3>2. recs'[r] = [recs[r] EXCEPT !.live = no, !.reversals = n] BY <1>6, <2>2, <3>1
    <3>3. recs[r] \in RecRows /\ n = 1 BY <1>2, <1>4, <2>2, <3>1
    <3>4. /\ recs'[r] \in RecRows /\ recs'[r].live = no /\ recs'[r].queue = recs[r].queue
          /\ recs'[r].fx = recs[r].fx /\ recs'[r].reversals = n
      <4>1. PICK mid : mid = [recs[r] EXCEPT !.live = no] OBVIOUS
      <4>2. /\ mid \in RecRows /\ mid.live = no /\ mid.queue = recs[r].queue
            /\ mid.fx = recs[r].fx
        BY <1>0, <3>3, <4>1, RowUndone
      <4>3. recs'[r] = [mid EXCEPT !.reversals = n] BY <3>2, <4>1
      <4> QED BY <3>1, <4>2, <4>3, RowReversed
    <3> QED BY <1>0, <2>2, <3>3, <3>4
  <2> QED BY <2>1, <2>2
<1>9. \A x \in DOMAIN recs : recs'[x].queue = recs[x].queue /\ recs'[x].fx = recs[x].fx
  BY <1>6, <1>8
<1>10. /\ LinesKept' /\ LinesGrow /\ DOMAIN lines' \subseteq DOMAIN lines \cup {ReversalLine(r)}
       /\ DOMAIN reconciled' = DOMAIN lines'
       /\ \A l \in DOMAIN lines' \ DOMAIN lines : reconciled'[l] = 0
       /\ \A l \in DOMAIN lines : reconciled'[l] = left[l]
  <2>1. CASE recs[r].fx = 0
    <3>1. lines' = lines /\ reconciled' = left BY <1>2, <2>1
    <3>2. \A x \in DOMAIN recs : recs'[x].reversals = recs[x].reversals
      BY <1>6, <1>7, <1>8, <2>1
    <3>3. Booked' = Booked /\ Reversed' = Reversed BY <1>6, <1>9, <3>2 DEF Booked, Reversed
    <3>4. LinesKept'
      <4>1. \A x \in Booked : recs'[x].fx = recs[x].fx BY <1>9 DEF Booked
      <4>2. \A x \in Reversed : recs'[x].fx = recs[x].fx BY <1>9 DEF Reversed
      <4> QED BY <1>3, <3>1, <3>3, <4>1, <4>2 DEF LinesKept
    <3> QED BY <1>5, <3>1, <3>4 DEF LinesGrow
  <2>2. CASE recs[r].fx # 0
    <3>1. Reverse(r, left) /\ recs[r].reversals = 0 BY <1>2, <2>2
    <3>2. recs'[r].reversals = 1 BY <1>8, <2>2
    <3>3. \A x \in DOMAIN recs \ {r} : recs'[x].reversals = recs[x].reversals BY <1>6
    <3>4. /\ LinesKept' /\ LinesGrow /\ DOMAIN lines' = DOMAIN lines \cup {ReversalLine(r)}
          /\ DOMAIN reconciled' = DOMAIN lines' /\ reconciled'[ReversalLine(r)] = 0
          /\ \A l \in DOMAIN lines : reconciled'[l] = left[l]
      <4>1. DOMAIN left = DOMAIN lines /\ DOMAIN recs' = DOMAIN recs BY <1>5, <1>6
      <4>2. \A x \in DOMAIN recs : recs'[x].fx = recs[x].fx BY <1>9
      <4>3. r \in DOMAIN recs BY <1>4
      <4> QED BY <1>3, <2>2, <3>1, <3>2, <3>3, <4>1, <4>2, <4>3, ReversalBooked
    <3> QED BY <3>4
  <2> QED BY <2>1, <2>2
<1>11. RowKept(r)'
  <2>1. recs'[r].reversals <= 1 /\ (recs[r].fx = 0 => recs'[r].reversals = 0)
    BY <1>8
  <2> QED BY <1>3, <1>4, <1>8, <1>10, <2>1, RowStays
<1>12. RecsKept' BY <1>3, <1>4, <1>6, <1>10, <1>11, RecsStay
<1>13. ASSUME NEW l
       PROVE  Off(recs, l) = Off(recs', l) + Allocated(recs[r].queue, l) /\ Off(recs', l) \in Nat
  <2>1. Rows(recs) /\ Rows(recs') BY <1>3, <1>6, <1>9, RecFacts DEF Rows
  <2>2. r \notin LiveIn(recs') /\ LiveIn(recs) = LiveIn(recs') \cup {r}
    BY <1>4, <1>6, <1>8 DEF LiveIn
  <2>3. \A x \in LiveIn(recs') : recs[x].queue = recs'[x].queue BY <1>6, <1>9 DEF LiveIn
  <2>4. Off(recs, l) = Off(recs', l) + Allocated(recs[r].queue, l)
    BY <2>1, <2>2, <2>3, OffAdds
  <2>5. Off(recs', l) \in Nat
    <3> DEFINE f == [x \in LiveIn(recs') |-> Allocated(recs'[x].queue, l)]
    <3>1. \A x \in LiveIn(recs') : f[x] = Allocated(recs'[x].queue, l) OBVIOUS
    <3> HIDE DEF f
    <3> QED BY <2>1, <3>1, OffIs
  <2> QED BY <2>4, <2>5
<1>14. \A l : Allocated(recs[r].queue, l) \in Nat BY <1>4, AllocatedIs
<1>15. ASSUME NEW l \in DOMAIN lines
       PROVE  reconciled'[l] = Off(recs', l) /\ reconciled'[l] <= Capacity(l)
  <2>1. reconciled[l] = Off(recs, l) /\ reconciled[l] <= Capacity(l) /\ Capacity(l) \in Nat
    BY <1>3, LineFacts DEF CountersKept
  <2> QED BY <1>5, <1>10, <1>13, <1>14, <2>1
<1>16. ASSUME NEW l \in DOMAIN lines' \ DOMAIN lines PROVE reconciled'[l] = 0 /\ Off(recs', l) = 0
  <2>1. Off(recs, l) = 0 BY <1>3, NotReconciled
  <2> QED BY <1>10, <1>13, <1>14, <2>1
<1>17. CountersKept' BY <1>3, <1>10, <1>12, <1>15, <1>16, CountersStay
<1> QED BY <1>4, <1>5, <1>6, <1>8, <1>10, <1>12, <1>14, <1>17 DEF TablesKept

LEMMA CommitUnreconcileKeeps ==
  ASSUME Inv, NEW w \in Workers, CommitUnreconcile(w)
  PROVE  Inv'
<1>1. PICK r : r = workers[w].rec OBVIOUS
<1>2. /\ TablesKept' /\ LinesGrow /\ r \in DOMAIN recs
      /\ DOMAIN recs' = DOMAIN recs /\ \A x \in DOMAIN recs \ {r} : recs'[x] = recs[x]
      /\ recs'[r].queue = recs[r].queue
      /\ \A l \in DOMAIN lines : /\ reconciled'[l] = reconciled[l] - Allocated(recs[r].queue, l)
                                 /\ Allocated(recs[r].queue, l) \in Nat
  BY <1>1, UndoneTables
<1>3. TablesKept /\ WorkersKept /\ Goes(w, Idle) /\ Doing(w, "unreconcile") /\ workers[w].queue # <<>>
  BY DEF Inv, CommitUnreconcile
<1>4. w \in Busy /\ <<"rec", r>> \in Owned(w) BY <1>1, <1>3, UndoneIs
<1>5. ASSUME NEW v \in Workers \ {w} PROVE WorkerKept(v)'
  <2>1. workers'[v] = workers[v] BY <1>3, BusyIs
  <2>2. \A l \in DOMAIN lines : reconciled[l] \in Nat BY <1>3, CounterFacts
  <2>3. \A l \in DOMAIN lines : reconciled'[l] \in Int /\ reconciled'[l] <= reconciled[l]
    BY <1>2, <2>2
  <2>4. ASSUME v \in Busy, NEW x \in DOMAIN recs, <<"rec", x>> \in Owned(v), recs[x].live
        PROVE  recs'[x].live
    <3>1. Apart(v, w) BY <1>3, <1>4, <2>4 DEF WorkersKept
    <3>2. x # r BY <1>4, <2>4, <3>1 DEF Apart
    <3> QED BY <1>2, <2>4, <3>2
  <2>5. \A x \in DOMAIN recs : recs'[x].queue = recs[x].queue BY <1>2
  <2> QED BY <1>2, <1>3, <2>1, <2>3, <2>4, <2>5, OthersKept
<1>6. WorkersKept'
  <2>1. Idle \in Transactions /\ Idle.op = "idle" BY DEF Transactions, Idle
  <2>2. WorkerKept(w)'
    <3>1. workers'[w] = Idle BY <1>3, BusyIs
    <3> QED BY <2>1, <3>1 DEF WorkerKept, Doing
  <2> QED BY <1>3, <1>5, <2>1, <2>2, OneMoves
<1> QED BY <1>2, <1>6 DEF Inv

-----------------------------------------------------------------------------
\* The invariant holds always.

LEMMA InitInv == Init => Inv
<1> SUFFICES ASSUME Init PROVE Inv OBVIOUS
<1>1. /\ lines = FirstLines /\ reconciled = [l \in DOMAIN FirstLines |-> 0]
      /\ DOMAIN recs = {} /\ workers = [w \in Workers |-> Idle]
  BY DEF Init
<1>2. RecsKept
  <2>1. 0 \in 0 .. MaxMatches /\ 1 .. 0 = {} BY FirstFacts
  <2> QED BY <1>1, <2>1 DEF RecsKept
<1>3. LinesKept BY <1>1 DEF LinesKept, Booked, Reversed
<1>4. CountersKept
  <2>1. \A l : Off(recs, l) = 0
    <3> TAKE l
    <3> DEFINE f == [r \in LiveIn(recs) |-> Allocated(recs[r].queue, l)]
    <3>1. LiveIn(recs) = {} BY <1>1 DEF LiveIn
    <3>2. Rows(recs) BY <1>1, FS_EmptySet DEF Rows
    <3>3. \A r \in LiveIn(recs) : f[r] = Allocated(recs[r].queue, l) OBVIOUS
    <3> HIDE DEF f
    <3>4. Off(recs, l) = SumFunctionOnSet(f, LiveIn(recs)) BY <3>2, <3>3, OffIs
    <3> QED BY <3>1, <3>4, SumEmpty
  <2>2. \A l \in DOMAIN lines : Capacity(l) \in Nat \ {0} BY <1>2, <1>3, LineFacts
  <2> QED BY <1>1, <2>1, <2>2 DEF CountersKept
<1>5. WorkersKept
  <2>1. workers \in [Workers -> Transactions] BY <1>1 DEF Transactions
  <2>2. \A w \in Workers : Doing(w, "idle") BY <1>1 DEF Doing, Idle
  <2>3. Busy = {} BY <2>2 DEF Busy
  <2> QED BY <2>1, <2>2, <2>3 DEF WorkersKept, WorkerKept
<1> QED BY <1>2, <1>3, <1>4, <1>5 DEF Inv, TablesKept

LEMMA RestKeepsTables ==
  ASSUME TablesKept, Rest
  PROVE  TablesKept'
<1>1. LinesGrow BY DEF LinesGrow, Rest
<1>2. RecsKept'
  <2>1. ASSUME NEW r \in DOMAIN recs PROVE RowKept(r)'
    <3>1. RowKept(r) /\ recs' = recs BY DEF TablesKept, RecsKept, Rest
    <3> QED BY <1>1, <3>1, RowStays DEF RowKept, TablesKept
  <2> QED BY <2>1 DEF TablesKept, RecsKept, Rest
<1>3. LinesKept' BY DEF TablesKept, LinesKept, Booked, Reversed, Rest
<1>4. CountersKept' BY DEF TablesKept, CountersKept, Capacity, Rest
<1> QED BY <1>2, <1>3, <1>4 DEF TablesKept

LEMMA NextInv == Inv /\ [Next]_vars => Inv'
<1> SUFFICES ASSUME Inv, [Next]_vars PROVE Inv' OBVIOUS
<1> USE DEF Inv
<1>1. ASSUME NEW w \in Workers, NEW q \in Requests, Begin(w, q) PROVE Inv'
  <2>1. Rest BY <1>1 DEF Begin
  <2> QED BY <1>1, <2>1, BeginKeeps, RestKeepsTables
<1>2. ASSUME NEW w \in Workers, NEW r \in RecIds, BeginUnreconcile(w, r) PROVE Inv'
  <2>1. Rest BY <1>2 DEF BeginUnreconcile
  <2> QED BY <1>2, <2>1, BeginUnreconcileKeeps, RestKeepsTables
<1>3. ASSUME NEW w \in Workers, LockLine(w) PROVE Inv'
  <2>1. Rest BY <1>3 DEF LockLine
  <2> QED BY <1>3, <2>1, LockLineKeeps, RestKeepsTables
<1>4. ASSUME NEW w \in Workers, CommitReconcile(w) PROVE Inv'
  BY <1>4, CommitReconcileKeeps
<1>5. ASSUME NEW w \in Workers, LockRec(w) PROVE Inv'
  <2>1. Rest BY <1>5 DEF LockRec
  <2> QED BY <1>5, <2>1, LockRecKeeps, RestKeepsTables
<1>6. ASSUME NEW w \in Workers, RestoreLine(w) PROVE Inv'
  <2>1. Rest BY <1>6 DEF RestoreLine
  <2> QED BY <1>6, <2>1, RestoreLineKeeps, RestKeepsTables
<1>7. ASSUME NEW w \in Workers, CommitUnreconcile(w) PROVE Inv'
  BY <1>7, CommitUnreconcileKeeps
<1>8. ASSUME NEW w \in Workers, Refuse(w) \/ Victim(w) PROVE Inv'
  <2>1. Rest /\ Goes(w, Idle) BY <1>8 DEF Refuse, Victim
  <2> QED BY <2>1, IdleAtRest, RestKeepsTables
<1>9. ASSUME NEW r \in RecIds, ReverseByHand(r) PROVE Inv'
  BY <1>9, ReverseByHandKeeps
<1>10. CASE UNCHANGED vars
  <2>1. Rest /\ workers' = workers BY <1>10 DEF vars, Rest
  <2>2. \A w \in Workers : WorkerKept(w)' BY <2>1, KeptAtRest DEF WorkersKept
  <2>3. Busy' = Busy BY <2>1 DEF Busy, Doing
  <2>4. \A v, w \in Busy : v # w => Apart(v, w)'
    BY <2>1 DEF Apart, Owned, Held, Doing, WorkersKept
  <2>5. WorkersKept' BY <2>1, <2>2, <2>3, <2>4 DEF WorkersKept
  <2> QED BY <2>1, <2>5, RestKeepsTables
<1> QED
  BY <1>1, <1>2, <1>3, <1>4, <1>5, <1>6, <1>7, <1>8, <1>9, <1>10 DEF Next, Step

LEMMA InvAlways == Spec => []Inv
BY InitInv, NextInv, PTL DEF Spec

-----------------------------------------------------------------------------
\* What follows from it.

\* Lines, counters, reconciliations and transactions keep their shape.
THEOREM ReconciliationWellTyped == Spec => []TypeOK
<1>1. Inv => TypeOK
  <2> SUFFICES ASSUME Inv PROVE TypeOK OBVIOUS
  <2>1. RecsKept /\ LinesKept /\ CountersKept /\ TablesKept BY DEF Inv, TablesKept
  <2>2. DOMAIN lines \subseteq LineIds /\ \A l \in DOMAIN lines : lines[l] \in [net : Int, foreign : Int]
    BY <2>1, LineFacts
  <2>3. \A l \in DOMAIN lines : reconciled[l] \in Nat BY <2>1, CounterFacts
  <2>4. DOMAIN recs \subseteq RecIds /\ \A r \in DOMAIN recs : recs[r] \in RecRows
    BY <2>1, RecFacts DEF RecsKept, RowKept
  <2> QED BY <2>1, <2>2, <2>3, <2>4 DEF TypeOK, CountersKept, Inv, WorkersKept
<1> QED BY <1>1, InvAlways, PTL

\* reconciled_amount of a line is what the reconciliations in force took off it, and never
\* more than the line: concurrent requests cannot settle one amount twice.
THEOREM CountersAddUp == Spec => []ResidualsMatch
<1>1. Inv => ResidualsMatch
  <2> SUFFICES ASSUME Inv, NEW l \in DOMAIN lines
               PROVE  /\ reconciled[l] = SumFunction([r \in InForce |-> Allocated(recs[r].queue, l)])
                      /\ Residual(l) >= 0
    BY DEF ResidualsMatch
  <2>1. TablesKept /\ reconciled[l] = Off(recs, l) /\ reconciled[l] <= Capacity(l)
    BY DEF Inv, TablesKept, CountersKept
  <2>2. Off(recs, l) = SumFunction([r \in InForce |-> Allocated(recs[r].queue, l)])
    BY DEF Off, InForce, LiveIn
  <2>3. reconciled[l] \in Nat /\ Capacity(l) \in Nat BY <2>1, CounterFacts, LineFacts DEF TablesKept
  <2> QED BY <2>1, <2>2, <2>3 DEF Residual
<1> QED BY <1>1, InvAlways, PTL

\* The FX move of a reconciliation is reversed at most once, by undoing it or by hand.
THEOREM FxMovesReversedOnce == Spec => []FxReversedOnce
<1>1. Inv => FxReversedOnce BY DEF Inv, TablesKept, RecsKept, RowKept, FxReversedOnce
<1> QED BY <1>1, InvAlways, PTL

LEMMA HasGreatest ==
  ASSUME NEW M, IsFiniteSet(M), M \subseteq Int, M # {}
  PROVE  \E m \in M : \A l \in M : l <= m
<1> DEFINE F == {T \in SUBSET M : T = {} \/ \E m \in T : \A l \in T : l <= m}
<1>1. {} \in F OBVIOUS
<1>2. ASSUME NEW T \in SUBSET M, NEW x \in M \ T, T \in F PROVE T \cup {x} \in F
  <2>1. CASE T = {} BY <2>1
  <2>2. CASE T # {}
    <3>1. PICK m \in T : \A l \in T : l <= m BY <1>2, <2>2
    <3>2. x \in Int /\ m \in Int /\ \A l \in T : l \in Int OBVIOUS
    <3>3. CASE x <= m
      <4>1. m \in T \cup {x} /\ \A l \in T \cup {x} : l <= m BY <3>1, <3>3
      <4> QED BY <4>1
    <3>4. CASE m <= x
      <4>1. x \in T \cup {x} /\ \A l \in T \cup {x} : l <= x BY <3>1, <3>2, <3>4
      <4> QED BY <4>1
    <3> QED BY <3>2, <3>3, <3>4
  <2> QED BY <2>1, <2>2
<1> HIDE DEF F
<1>3. M \in F BY <1>1, <1>2, FiniteInduction
<1> QED BY <1>3 DEF F

\* What a transaction wants is above all the lines it holds, unless it reconciles lines in
\* another order.
LEMMA WantsAbove ==
  ASSUME Inv, NEW v \in Busy, Wanted(v) # {}, Owned(v) # {},
         ~(Doing(v, "reconcile") /\ workers[v].queue # InOrder(workers[v].queue))
  PROVE  \E l \in LineIds : /\ Wanted(v) = {<<"line", l>>}
                            /\ \A x : <<"line", x>> \in Owned(v) => x < l
<1> DEFINE q == workers[v].queue
           n == workers[v].done
<1>1. /\ v \in Workers /\ q \in Seq(Items) /\ n \in Nat /\ WorkerKept(v)
      /\ ~Doing(v, "idle")
  BY TransactionIs DEF Inv, WorkersKept, Busy
<1>2. q # <<>> /\ ~Done(v)
  <2>1. q # <<>>
    <3> SUFFICES ASSUME q = <<>> PROVE FALSE OBVIOUS
    <3>1. Held(v) # {} BY DEF Owned
    <3>2. n # 0 BY <1>1, <3>1 DEF Held
    <3>3. n <= Len(q) BY <1>1, <3>2 DEF WorkerKept, Reconciling, Unreconciling
    <3>4. Len(q) = 0 OBVIOUS
    <3> QED BY <1>1, <3>2, <3>3, <3>4
  <2> QED BY <2>1 DEF Wanted
<1>3. Queue(q) /\ Ascending(q) /\ n <= Len(q)
  <2>1. CASE Reconciling(v)
    <3>1. q \in Requests /\ q = InOrder(q) /\ n <= Len(q) BY <2>1 DEF Reconciling
    <3> QED BY <3>1, RequestIs, InOrderIs
  <2>2. CASE Unreconciling(v)
    <3>1. Doing(v, "unreconcile") BY <2>2 DEF Unreconciling
    <3>2. PICK queue : queue = recs[workers[v].rec].queue OBVIOUS
    <3>3. q = InOrder(queue) /\ Queue(queue) BY <1>1, <1>2, <3>1, <3>2, UndoneIs DEF Inv
    <3>4. n <= Len(q) BY <1>2, <2>2 DEF Unreconciling
    <3> QED BY <3>3, <3>4, InOrderIs
  <2> QED BY <1>1, <2>1, <2>2 DEF WorkerKept
<1>4. /\ Len(q) \in Nat /\ DOMAIN q = 1 .. Len(q) /\ n + 1 \in DOMAIN q
      /\ \A i \in DOMAIN q : q[i].line \in LineIds
  BY <1>1, <1>2, <1>3, QueueFacts DEF Done
<1>5. Wanted(v) = {<<"line", q[n + 1].line>>} BY <1>2 DEF Wanted
<1>6. ASSUME NEW x, <<"line", x>> \in Owned(v) PROVE x < q[n + 1].line
  <2>1. x \in Held(v) BY <1>6 DEF Owned
  <2>2. PICK i \in 1 .. n : x = q[i].line BY <2>1 DEF Held
  <2>3. i \in DOMAIN q /\ i < n + 1 BY <1>1, <1>3, <1>4
  <2> QED BY <1>3, <1>4, <2>2, <2>3 DEF Ascending
<1> QED BY <1>4, <1>5, <1>6

\* Requests that name their lines by id, and all unreconciles, never deadlock.
THEOREM DeadlocksAreCrossed == Spec => []OnlyCrossedDeadlock
<1>1. Inv => OnlyCrossedDeadlock
  <2> SUFFICES ASSUME Inv, NEW ws \in SUBSET Busy, Ring(ws),
                      \A w \in ws : ~(Doing(w, "reconcile") /\ workers[w].queue # InOrder(workers[w].queue))
               PROVE  FALSE
    BY DEF OnlyCrossedDeadlock
  <2>1. \A w \in ws : Wanted(w) # {} BY DEF Ring, WaitsFor
  <2>2. \A w \in ws : \E v \in ws : Wanted(w) \cap Owned(v) # {} BY DEF Ring, WaitsFor
  <2>3. ASSUME NEW v \in ws, Owned(v) # {}
        PROVE  \E l \in LineIds : /\ Wanted(v) = {<<"line", l>>}
                                  /\ \A x : <<"line", x>> \in Owned(v) => x < l
    BY <2>1, <2>3, WantsAbove
  <2> DEFINE M == {l \in LineIds : \E w \in ws : Wanted(w) = {<<"line", l>>}}
  <2>4. M # {}
    <3>1. PICK w \in ws : TRUE BY DEF Ring
    <3>2. PICK v \in ws : Wanted(w) \cap Owned(v) # {} BY <2>2
    <3>3. Owned(v) # {} BY <3>2
    <3> QED BY <2>3, <3>3
  <2>5. ASSUME NEW l \in M PROVE \E more \in M : l < more
    <3>1. PICK w \in ws : Wanted(w) = {<<"line", l>>} OBVIOUS
    <3>2. PICK v \in ws : Wanted(w) \cap Owned(v) # {} BY <2>2
    <3>3. <<"line", l>> \in Owned(v) BY <3>1, <3>2
    <3>4. PICK more \in LineIds : Wanted(v) = {<<"line", more>>} /\ l < more BY <2>3, <3>3
    <3> QED BY <3>4
  <2>6. IsFiniteSet(M) /\ M \subseteq Int
    <3>1. IsFiniteSet(LineIds) /\ LineIds \subseteq Int BY FirstFacts, UpTo DEF LineIds
    <3>2. M \in SUBSET LineIds OBVIOUS
    <3> HIDE DEF M
    <3> QED BY <3>1, <3>2, FS_Subset
  <2> HIDE DEF M
  <2>7. PICK m \in M : \A l \in M : l <= m BY <2>4, <2>6, HasGreatest
  <2>8. PICK more \in M : m < more BY <2>5
  <2> QED BY <2>6, <2>7, <2>8
<1> QED BY <1>1, InvAlways, PTL

-----------------------------------------------------------------------------
\* Refinement of OpenItems.

OpenAmounts == [l \in DOMAIN lines |-> Side(l) * Residual(l)]
MatchOf(q) == [l \in LinesOf(q) |-> Side(l) * Allocated(q, l)]

MatchTable == MatchesInForce = [r \in InForce |-> MatchOf(recs[r].queue)]

LEMMA MatchesAre == MatchTable
BY DEF MatchTable, MatchesInForce, MatchOf, LinesOf

LEMMA MatchesAreNext == MatchTable'
BY MatchesAre, PTL

LEMMA BecomesIs ==
  ASSUME LinesGrow, DOMAIN lines' \subseteq LineIds, NEW change,
         \A l \in DOMAIN lines : OpenAmounts'[l] = OpenAmounts[l] - Promised!Taken(change, l)
  PROVE  Promised!Becomes(change)
<1>1. DOMAIN OpenAmounts = DOMAIN lines /\ DOMAIN OpenAmounts' = DOMAIN lines'
  BY DEF OpenAmounts
<1> QED BY <1>1 DEF Promised!Becomes, OpenAmounts, LinesGrow

\* Debits and credits, in integers.
LEMMA OpenIs ==
  ASSUME TablesKept, NEW l \in DOMAIN lines
  PROVE  /\ Side(l) \in {1, -1} /\ Residual(l) \in Nat /\ Capacity(l) \in Nat
         /\ reconciled[l] \in Nat /\ Residual(l) = Capacity(l) - reconciled[l]
         /\ OpenAmounts[l] = IF Side(l) = 1 THEN Residual(l) ELSE -Residual(l)
<1>1. /\ Side(l) \in {1, -1} /\ Capacity(l) \in Nat /\ reconciled[l] \in Nat
      /\ reconciled[l] <= Capacity(l)
  BY LineFacts, CounterFacts DEF TablesKept, CountersKept
<1>2. Residual(l) = Capacity(l) - reconciled[l] BY DEF Residual
<1>3. OpenAmounts[l] = Side(l) * Residual(l) BY DEF OpenAmounts
<1> QED BY <1>1, <1>2, <1>3

LEMMA OpenNext ==
  ASSUME TablesKept, LinesGrow, NEW l \in DOMAIN lines, reconciled'[l] \in Int
  PROVE  OpenAmounts'[l] = IF Side(l) = 1 THEN Capacity(l) - reconciled'[l]
                           ELSE -(Capacity(l) - reconciled'[l])
<1>1. l \in DOMAIN lines' /\ lines'[l] = lines[l] BY DEF LinesGrow
<1>2. Side(l)' = Side(l) /\ Capacity(l)' = Capacity(l) BY <1>1, LineStays
<1>3. OpenAmounts'[l] = Side(l)' * Residual(l)' BY <1>1 DEF OpenAmounts
<1>4. Residual(l)' = Capacity(l) - reconciled'[l] BY <1>2 DEF Residual
<1>5. Side(l) \in {1, -1} /\ Capacity(l) \in Nat BY OpenIs
<1> QED BY <1>2, <1>3, <1>4, <1>5

LEMMA MatchStays ==
  ASSUME LinesGrow, NEW q, LinesOf(q) \subseteq DOMAIN lines
  PROVE  MatchOf(q)' = MatchOf(q)
<1>1. \A l \in LinesOf(q) : Side(l)' = Side(l) BY LineStays DEF LinesGrow
<1>2. [l \in LinesOf(q) |-> Side(l)' * Allocated(q, l)]
        = [l \in LinesOf(q) |-> Side(l) * Allocated(q, l)] BY <1>1
<1> QED BY <1>2 DEF MatchOf

LEMMA LinesNext == Inv' => (DOMAIN lines \subseteq LineIds)'
<1>1. Inv => DOMAIN lines \subseteq LineIds BY LineFacts DEF Inv, TablesKept
<1> QED BY <1>1, PTL

\* What the matches of the reconciliations in force become.
LEMMA MatchesNext ==
  ASSUME Inv, LinesGrow, NEW r \in DOMAIN recs, recs'[r].queue = recs[r].queue
  PROVE  MatchOf(recs[r].queue)' = MatchOf(recs[r].queue)
<1>1. PICK q : q = recs[r].queue OBVIOUS
<1>2. OneCurrency(q) BY <1>1 DEF Inv, TablesKept, RecsKept, RowKept
<1>3. LinesOf(q) \subseteq DOMAIN lines BY <1>2 DEF OneCurrency, LinesOf
<1>4. MatchOf(q)' = MatchOf(q) BY <1>3, MatchStays
<1> QED BY <1>1, <1>4 DEF MatchOf

LEMMA ReverseByHandPosts ==
  ASSUME Inv, Inv', NEW r \in RecIds, ReverseByHand(r)
  PROVE  Promised!PostLine
<1>1. /\ LinesGrow /\ \A l \in DOMAIN lines : reconciled'[l] = reconciled[l]
      /\ DOMAIN recs' = DOMAIN recs
      /\ \A x \in DOMAIN recs : recs'[x].live = recs[x].live /\ recs'[x].queue = recs[x].queue
  BY ReverseByHandKeeps
<1>2. TablesKept BY DEF Inv
<1>3. InForce' = InForce /\ InForce \subseteq DOMAIN recs BY <1>1 DEF InForce
<1>4. \A x \in InForce : MatchOf(recs[x].queue)' = MatchOf(recs[x].queue)
  BY <1>1, <1>3, MatchesNext
<1>5. MatchesInForce' = MatchesInForce
  <2>1. [x \in InForce' |-> MatchOf(recs[x].queue)'] = [x \in InForce |-> MatchOf(recs[x].queue)]
    BY <1>3, <1>4
  <2>2. (MatchesInForce = [x \in InForce |-> MatchOf(recs[x].queue)])' BY MatchesAreNext DEF MatchTable
  <2> QED BY <2>1, <2>2, MatchesAre DEF MatchTable
<1> DEFINE nothing == [l \in {} |-> 0]
<1>6. \A l : Promised!Taken(nothing, l) = 0 BY DEF Promised!Taken
<1> HIDE DEF nothing
<1>7. ASSUME NEW l \in DOMAIN lines
      PROVE  OpenAmounts'[l] = OpenAmounts[l] - Promised!Taken(nothing, l)
  <2>1. reconciled[l] \in Nat /\ reconciled'[l] = reconciled[l] BY <1>1, <1>2, OpenIs
  <2>2. reconciled'[l] \in Int BY <2>1
  <2>3. OpenAmounts'[l] = IF Side(l) = 1 THEN Capacity(l) - reconciled'[l]
                          ELSE -(Capacity(l) - reconciled'[l])
    BY <1>1, <1>2, <2>2, OpenNext
  <2> QED BY <1>2, <1>6, <2>1, <2>3, OpenIs
<1>8. DOMAIN lines' \subseteq LineIds BY LinesNext
<1>9. Promised!Becomes(nothing) BY <1>1, <1>7, <1>8, BecomesIs
<1> QED BY <1>5, <1>9 DEF Promised!PostLine, nothing

LEMMA CommitUnreconcileReopens ==
  ASSUME Inv, Inv', NEW w \in Workers, CommitUnreconcile(w)
  PROVE  \E r \in RecIds : Promised!Reopen(r)
<1>1. PICK r : r = workers[w].rec OBVIOUS
<1>2. /\ LinesGrow /\ r \in DOMAIN recs /\ recs[r].live
      /\ DOMAIN recs' = DOMAIN recs /\ \A x \in DOMAIN recs \ {r} : recs'[x] = recs[x]
      /\ ~recs'[r].live /\ recs'[r].queue = recs[r].queue
      /\ \A l \in DOMAIN lines : /\ reconciled'[l] = reconciled[l] - Allocated(recs[r].queue, l)
                                 /\ Allocated(recs[r].queue, l) \in Nat
  BY <1>1, UndoneTables
<1>3. TablesKept /\ RecsKept /\ r \in RecIds BY <1>2, RecFacts DEF Inv, TablesKept
<1>4. PICK q : q = recs[r].queue OBVIOUS
<1>5. Queue(q) /\ LinesOf(q) \subseteq DOMAIN lines
  BY <1>2, <1>3, <1>4, RecFacts DEF RecsKept, RowKept, OneCurrency, LinesOf
<1>6. InForce' = InForce \ {r} /\ r \in InForce /\ InForce \subseteq DOMAIN recs
  BY <1>2 DEF InForce
<1>7. \A x \in InForce : MatchOf(recs[x].queue)' = MatchOf(recs[x].queue)
  BY <1>2, <1>6, MatchesNext
<1>8. MatchesInForce' = Promised!Drop(MatchesInForce, r)
  <2>1. [x \in InForce' |-> MatchOf(recs[x].queue)']
          = [x \in InForce \ {r} |-> MatchOf(recs[x].queue)]
    BY <1>6, <1>7
  <2>2. (MatchesInForce = [x \in InForce |-> MatchOf(recs[x].queue)])' BY MatchesAreNext DEF MatchTable
  <2>3. MatchesInForce = [x \in InForce |-> MatchOf(recs[x].queue)] BY MatchesAre DEF MatchTable
  <2> QED BY <1>6, <2>1, <2>2, <2>3 DEF Promised!Drop
<1> DEFINE back == [l \in DOMAIN MatchesInForce[r] |-> -MatchesInForce[r][l]]
<1>9. MatchesInForce[r] = MatchOf(q) /\ r \in DOMAIN MatchesInForce BY <1>4, <1>6, MatchesAre DEF MatchTable
<1>10. \A l \in DOMAIN lines : Promised!Taken(back, l) = -(Side(l) * Allocated(q, l))
  <2> TAKE l \in DOMAIN lines
  <2>1. DOMAIN MatchOf(q) = LinesOf(q) /\ \A x \in LinesOf(q) : MatchOf(q)[x] = Side(x) * Allocated(q, x)
    BY DEF MatchOf
  <2>2. CASE l \in LinesOf(q) BY <1>9, <2>1, <2>2 DEF Promised!Taken
  <2>3. CASE l \notin LinesOf(q)
    <3>1. Promised!Taken(back, l) = 0 BY <1>9, <2>1, <2>3 DEF Promised!Taken
    <3>2. Allocated(q, l) = 0 BY <1>5, <2>3, AllocatedIs
    <3>3. Side(l) \in Int BY <1>3, OpenIs
    <3> QED BY <3>1, <3>2, <3>3
  <2> QED BY <2>2, <2>3
<1> HIDE DEF back
<1>11. ASSUME NEW l \in DOMAIN lines
       PROVE  OpenAmounts'[l] = OpenAmounts[l] - Promised!Taken(back, l)
  <2>1. /\ reconciled[l] \in Nat /\ Allocated(q, l) \in Nat /\ Capacity(l) \in Nat
        /\ reconciled'[l] = reconciled[l] - Allocated(q, l)
    BY <1>2, <1>3, <1>4, OpenIs
  <2>2. reconciled'[l] \in Int BY <2>1
  <2>3. OpenAmounts'[l] = IF Side(l) = 1 THEN Capacity(l) - reconciled'[l]
                          ELSE -(Capacity(l) - reconciled'[l])
    BY <1>2, <1>3, <2>2, OpenNext
  <2>4. /\ Side(l) \in {1, -1} /\ Residual(l) = Capacity(l) - reconciled[l]
        /\ OpenAmounts[l] = IF Side(l) = 1 THEN Residual(l) ELSE -Residual(l)
    BY <1>3, OpenIs
  <2>5. Promised!Taken(back, l) = IF Side(l) = 1 THEN -Allocated(q, l) ELSE Allocated(q, l)
    BY <1>10, <2>1, <2>4
  <2> QED BY <2>1, <2>3, <2>4, <2>5
<1>12. DOMAIN lines' \subseteq LineIds BY LinesNext
<1>13. Promised!Becomes(back) BY <1>2, <1>11, <1>12, BecomesIs
<1>14. Promised!Reopen(r) BY <1>8, <1>9, <1>13 DEF Promised!Reopen, back
<1> QED BY <1>3, <1>14

\* What a match takes off is what its items take off: in total, debits less credits.
LEMMA MatchSums ==
  ASSUME TablesKept, NEW q, Queue(q), LinesOf(q) \subseteq DOMAIN lines
  PROVE  SumFunction(MatchOf(q)) = Signed(q)
<1> DEFINE f == [i \in DOMAIN q |-> Side(q[i].line) * q[i].amount]
           g == MatchOf(q)
           pick == [i \in DOMAIN q |-> q[i].line]
<1>1. IsFiniteSet(DOMAIN q) /\ \A i \in DOMAIN q : q[i].amount \in Nat BY QueueFacts
<1>2. \A i, j \in DOMAIN q : i # j => pick[i] # pick[j] BY DEF Queue
<1>3. ASSUME NEW i \in DOMAIN q PROVE g[pick[i]] \in Int /\ f[i] = g[pick[i]]
  <2>1. q[i].line \in LinesOf(q) /\ q[i].line \in DOMAIN lines BY DEF LinesOf
  <2>2. Side(q[i].line) \in Int BY <2>1, OpenIs
  <2>3. Allocated(q, q[i].line) = q[i].amount BY AllocatedIs
  <2>4. g[q[i].line] = Side(q[i].line) * q[i].amount BY <2>1, <2>3 DEF MatchOf
  <2>5. Side(q[i].line) * q[i].amount \in Int BY <1>1, <2>2
  <2> QED BY <2>4, <2>5
<1>4. {pick[i] : i \in DOMAIN q} = LinesOf(q) BY DEF LinesOf
<1>5. DOMAIN f = DOMAIN q /\ DOMAIN g = LinesOf(q) BY DEF MatchOf
<1>6. Signed(q) = SumFunction(f) BY DEF Signed
<1> HIDE DEF f, g, pick
<1>7. SumFunctionOnSet(f, DOMAIN q) = SumFunctionOnSet(g, {pick[i] : i \in DOMAIN q})
  BY <1>1, <1>2, <1>3, SumReindex
<1>8. SumFunction(f) = SumFunctionOnSet(f, DOMAIN q) BY <1>5, SumFunctionIs
<1>9. SumFunction(g) = SumFunctionOnSet(g, LinesOf(q)) BY <1>5, SumFunctionIs
<1> QED BY <1>4, <1>6, <1>7, <1>8, <1>9 DEF g

LEMMA SumsAgree == ASSUME NEW f PROVE Promised!SumFunction(f) = SumFunction(f)
BY DEF SumFunction, SumFunctionOnSet, FoldFunctionOnSet, MapThenFoldSet,
       Promised!SumFunction, Promised!SumFunctionOnSet, Promised!FoldFunctionOnSet,
       Promised!MapThenFoldSet

AllotmentOf(q) == [l \in LinesOf(q) |-> Allocated(q, l)]
AllAllotments == {AllotmentOf(q) : q \in Requests}

LEMMA CommitReconcileSettles ==
  ASSUME Inv, Inv', NEW w \in Workers, CommitReconcile(w)
  PROVE  \E r \in RecIds : \E a \in AllAllotments : Promised!Settle(r, a)
<1>1. PICK q, r, row, a :
        /\ q = workers[w].queue /\ r = Cardinality(DOMAIN recs) + 1 /\ a = AllotmentOf(q)
        /\ row = [live |-> TRUE, queue |-> q, fx |-> Realized(q), reversals |-> 0]
  OBVIOUS
<1>2. /\ LinesGrow /\ r \in RecIds \ DOMAIN recs /\ recs' = Put(recs, r, row)
      /\ \A l \in DOMAIN lines : reconciled'[l] = reconciled[l] + Allocated(q, l)
  BY <1>1, ReconciledTables
<1>3. TablesKept /\ WorkersKept /\ Doing(w, "reconcile") /\ Done(w) /\ Signed(q) = 0
  BY <1>1 DEF Inv, CommitReconcile
<1>4. /\ q \in Requests /\ Queue(q) /\ LinesOf(q) \subseteq DOMAIN lines
      /\ \A l \in DOMAIN lines : reconciled[l] + Allocated(q, l) <= Capacity(l)
  BY <1>1, <1>3, AllLocked
<1>5. /\ DOMAIN recs' = DOMAIN recs \cup {r} /\ recs'[r] = row
      /\ \A x \in DOMAIN recs : recs'[x] = recs[x]
  BY <1>2 DEF Put
<1>6. row.live = TRUE /\ row.queue = q BY <1>1
<1>7. InForce' = InForce \cup {r} /\ InForce \subseteq DOMAIN recs /\ r \notin InForce
  BY <1>2, <1>5, <1>6 DEF InForce
<1>8. \A x \in InForce : MatchOf(recs[x].queue)' = MatchOf(recs[x].queue)
  BY <1>2, <1>5, <1>7, MatchesNext
<1>9. MatchOf(recs[r].queue)' = MatchOf(q)
  <2>1. MatchOf(q)' = MatchOf(q) BY <1>2, <1>4, MatchStays
  <2> QED BY <2>1, <1>5, <1>6 DEF MatchOf, LinesOf
<1>10. MatchesInForce' = Promised!Put(MatchesInForce, r, MatchOf(q))
  <2>1. [x \in InForce' |-> MatchOf(recs[x].queue)']
          = [x \in InForce \cup {r} |-> IF x = r THEN MatchOf(q) ELSE MatchOf(recs[x].queue)]
    BY <1>7, <1>8, <1>9
  <2>2. (MatchesInForce = [x \in InForce |-> MatchOf(recs[x].queue)])' BY MatchesAreNext DEF MatchTable
  <2>3. MatchesInForce = [x \in InForce |-> MatchOf(recs[x].queue)] BY MatchesAre DEF MatchTable
  <2> QED BY <1>7, <2>1, <2>2, <2>3 DEF Promised!Put
<1>11. r \notin DOMAIN MatchesInForce
  BY <1>7, MatchesAre DEF MatchTable
<1>12. /\ DOMAIN a = LinesOf(q) /\ \A l \in LinesOf(q) : a[l] = Allocated(q, l)
       /\ DOMAIN OpenAmounts = DOMAIN lines
  BY <1>1 DEF AllotmentOf, OpenAmounts
\* The sign of an open line is its side, and as much is open as the match takes.
<1>13. ASSUME NEW l \in LinesOf(q)
       PROVE  /\ Side(l) = IF OpenAmounts[l] > 0 THEN 1 ELSE -1
              /\ a[l] <= (IF OpenAmounts[l] > 0 THEN 1 ELSE -1) * OpenAmounts[l]
  <2>1. PICK i \in DOMAIN q : l = q[i].line BY DEF LinesOf
  <2>2. a[l] = Allocated(q, l) /\ Allocated(q, l) \in Nat \ {0}
    BY <1>4, <1>12, <2>1, AllocatedIs, QueueFacts
  <2>3. l \in DOMAIN lines /\ reconciled[l] + Allocated(q, l) <= Capacity(l) BY <1>4
  <2>4. /\ Side(l) \in {1, -1} /\ Capacity(l) \in Nat /\ reconciled[l] \in Nat
        /\ Residual(l) = Capacity(l) - reconciled[l]
        /\ OpenAmounts[l] = IF Side(l) = 1 THEN Residual(l) ELSE -Residual(l)
    BY <1>3, <2>3, OpenIs
  <2>5. Residual(l) > 0 /\ Allocated(q, l) <= Residual(l) /\ Residual(l) \in Int
    BY <2>2, <2>3, <2>4
  <2>6. CASE Side(l) = 1 BY <2>2, <2>4, <2>5, <2>6
  <2>7. CASE Side(l) = -1 BY <2>2, <2>4, <2>5, <2>7
  <2> QED BY <2>4, <2>6, <2>7
<1> DEFINE match == [l \in DOMAIN a |-> (IF OpenAmounts[l] > 0 THEN 1 ELSE -1) * a[l]]
<1>14. match = MatchOf(q)
  <2>1. \A l \in LinesOf(q) : (IF OpenAmounts[l] > 0 THEN 1 ELSE -1) * a[l] = Side(l) * Allocated(q, l)
    BY <1>12, <1>13
  <2> QED BY <1>12, <2>1 DEF MatchOf
<1>15. SumFunction(match) = 0 BY <1>3, <1>4, <1>14, MatchSums
<1>16. ASSUME NEW l \in DOMAIN lines
       PROVE  OpenAmounts'[l] = OpenAmounts[l] - Promised!Taken(MatchOf(q), l)
  <2>1. reconciled[l] \in Nat /\ Allocated(q, l) \in Nat /\ Capacity(l) \in Nat
    BY <1>3, <1>4, OpenIs, AllocatedIs
  <2>2. reconciled'[l] \in Int BY <1>2, <2>1
  <2>3. OpenAmounts'[l] = IF Side(l) = 1 THEN Capacity(l) - reconciled'[l]
                          ELSE -(Capacity(l) - reconciled'[l])
    BY <1>2, <1>3, <2>2, OpenNext
  <2>4. /\ Side(l) \in {1, -1} /\ Residual(l) = Capacity(l) - reconciled[l]
        /\ OpenAmounts[l] = IF Side(l) = 1 THEN Residual(l) ELSE -Residual(l)
    BY <1>3, OpenIs
  <2>5. Promised!Taken(MatchOf(q), l) = Side(l) * Allocated(q, l)
    <3>1. CASE l \in LinesOf(q) BY <3>1 DEF Promised!Taken, MatchOf
    <3>2. CASE l \notin LinesOf(q)
      <4>1. Promised!Taken(MatchOf(q), l) = 0 BY <3>2 DEF Promised!Taken, MatchOf
      <4>2. Allocated(q, l) = 0 BY <1>4, <3>2, AllocatedIs
      <4> QED BY <2>4, <4>1, <4>2
    <3> QED BY <3>1, <3>2
  <2>7. Promised!Taken(MatchOf(q), l) = IF Side(l) = 1 THEN Allocated(q, l) ELSE -Allocated(q, l)
    BY <2>1, <2>4, <2>5
  <2>6. reconciled'[l] = reconciled[l] + Allocated(q, l) BY <1>2
  <2> QED BY <2>1, <2>3, <2>4, <2>6, <2>7
<1>17. DOMAIN lines' \subseteq LineIds BY LinesNext
<1>18. Promised!Becomes(MatchOf(q)) BY <1>2, <1>16, <1>17, BecomesIs
<1>19. DOMAIN a \subseteq DOMAIN OpenAmounts BY <1>4, <1>12
<1>20. /\ \A l \in DOMAIN a : a[l] <= (IF OpenAmounts[l] > 0 THEN 1 ELSE -1) * OpenAmounts[l]
       /\ MatchesInForce' = Promised!Put(MatchesInForce, r, match) /\ Promised!Becomes(match)
  BY <1>10, <1>12, <1>13, <1>14, <1>18
<1>21. Promised!Settle(r, a)
  <2>2. Promised!SumFunction(match) = SumFunction(match) BY SumsAgree
  <2>1. Promised!Settle(r, a) <=>
          /\ r \notin DOMAIN MatchesInForce /\ DOMAIN a \subseteq DOMAIN OpenAmounts
          /\ \A l \in DOMAIN a : a[l] <= (IF OpenAmounts[l] > 0 THEN 1 ELSE -1) * OpenAmounts[l]
          /\ Promised!SumFunction(match) = 0
          /\ MatchesInForce' = Promised!Put(MatchesInForce, r, match)
          /\ Promised!Becomes(match)
    BY DEF Promised!Settle, OpenAmounts
  <2> HIDE DEF match
  <2> QED BY <1>11, <1>15, <1>19, <1>20, <2>1, <2>2
<1>22. a \in AllAllotments BY <1>1, <1>4 DEF AllAllotments
<1> QED BY <1>2, <1>21, <1>22

LEMMA InitPromised == Init => Promised!Init
<1> SUFFICES ASSUME Init PROVE Promised!Init OBVIOUS
<1>1. Inv BY InitInv
<1>2. TablesKept BY <1>1 DEF Inv
<1>3. \A l \in DOMAIN lines : OpenAmounts[l] \in Int
  <2> TAKE l \in DOMAIN lines
  <2>1. /\ Side(l) \in {1, -1} /\ Residual(l) \in Nat
        /\ OpenAmounts[l] = IF Side(l) = 1 THEN Residual(l) ELSE -Residual(l)
    BY <1>2, OpenIs
  <2> QED BY <2>1
<1>4. OpenAmounts \in [DOMAIN OpenAmounts -> Int] BY <1>3 DEF OpenAmounts
<1>5. InForce = {} BY DEF Init, InForce
<1>6. MatchesInForce = [r \in {} |-> 0] BY <1>5 DEF MatchesInForce
<1> QED BY <1>4, <1>6 DEF Promised!Init, OpenAmounts

\* The other steps lock and wait: nothing of the promise changes.
LEMMA RestPromised ==
  ASSUME lines' = lines, reconciled' = reconciled, recs' = recs
  PROVE  UNCHANGED Promised!vars
<1>1. OpenAmounts' = OpenAmounts BY DEF OpenAmounts, Side, Residual, Capacity
<1>2. MatchesInForce' = MatchesInForce BY DEF MatchesInForce, InForce, Side
<1> QED BY <1>1, <1>2 DEF Promised!vars, OpenAmounts

LEMMA StepPromised == Inv /\ Inv' /\ [Next]_vars => [Promised!Next]_Promised!vars
<1> SUFFICES ASSUME Inv, Inv', [Next]_vars PROVE [Promised!Next]_Promised!vars OBVIOUS
<1>1. AllAllotments = {[l \in {q[i].line : i \in DOMAIN q} |-> Allocated(q, l)] : q \in Requests}
  BY DEF AllAllotments, AllotmentOf, LinesOf
<1>2. CASE UNCHANGED vars BY <1>2, RestPromised DEF vars
<1>3. ASSUME NEW w \in Workers, CommitReconcile(w) PROVE Promised!Next
  <2>1. \E r \in RecIds : \E a \in AllAllotments : Promised!Settle(r, a)
    BY <1>3, CommitReconcileSettles
  <2> QED BY <1>1, <2>1 DEF Promised!Next
<1>4. ASSUME NEW w \in Workers, CommitUnreconcile(w) PROVE Promised!Next
  BY <1>4, CommitUnreconcileReopens DEF Promised!Next
<1>5. ASSUME NEW r \in RecIds, ReverseByHand(r) PROVE Promised!Next
  BY <1>5, ReverseByHandPosts DEF Promised!Next
<1>6. ASSUME NEW w \in Workers,
             \/ \E q \in Requests : Begin(w, q)
             \/ \E r \in RecIds : BeginUnreconcile(w, r)
             \/ LockLine(w) \/ LockRec(w) \/ RestoreLine(w) \/ Refuse(w) \/ Victim(w)
      PROVE  UNCHANGED Promised!vars
  <2>1. Rest
    BY <1>6 DEF Begin, BeginUnreconcile, LockLine, LockRec, RestoreLine, Refuse, Victim
  <2> QED BY <2>1, RestPromised DEF Rest
<1> QED BY <1>2, <1>3, <1>4, <1>5, <1>6 DEF Next, Step

\* Reconciling with locks, deadlocks and refusals does to the open amounts what OpenItems
\* promises: matches take equal debits and credits, never more than is open, and undoing
\* one gives back what it took.
THEOREM ReconciliationImplementsOpenItems == Spec => ImplementsOpenItems
<1>1. Spec => Promised!Init BY InitPromised DEF Spec
<1>2. Spec => [][Promised!Next]_Promised!vars BY StepPromised, InvAlways, PTL DEF Spec
<1> QED BY <1>1, <1>2 DEF ImplementsOpenItems, Promised!Spec

-----------------------------------------------------------------------------
\* Rounding.

\* What an allocation is worth in the functional currency, to half a unit.
LEMMA Halves ==
  ASSUME NEW n \in Nat, NEW c \in Nat \ {0}, NEW a \in Nat, NEW f \in Int,
         f = (2 * n * a + c) \div (2 * c)
  PROVE  2 * c * f - 2 * n * a <= c /\ -c <= 2 * c * f - 2 * n * a
<1>1. PICK m \in Int, k \in Nat \ {0} : m = 2 * n * a + c /\ k = 2 * c
  <2>1. 2 * n * a + c \in Int /\ 2 * c \in Nat \ {0} OBVIOUS
  <2> QED BY <2>1
<1>2. f = m \div k BY <1>1
<1>3. k * f <= m /\ m < k * f + k BY <1>2
<1>4. k * f \in Int /\ 2 * n * a \in Int /\ k * f = 2 * c * f BY <1>1
<1> QED BY <1>1, <1>3, <1>4

LEMMA RoundedBy ==
  ASSUME RecsKept, LinesKept, NEW l \in DOMAIN lines, NEW a \in Nat
  PROVE  /\ Functional(l, a) \in Int
         /\ LET d == 2 * Capacity(l) * Functional(l, a) - 2 * Magnitude(lines[l].net) * a
            IN d <= Capacity(l) /\ -Capacity(l) <= d
<1>1. PICK c \in Nat \ {0} : c = Capacity(l) BY LineFacts
<1>2. PICK n \in Nat : n = Magnitude(lines[l].net)
  <2>1. lines[l].net \in Int BY LineFacts
  <2> QED BY <2>1 DEF Magnitude
<1>3. PICK f \in Int : f = Functional(l, a) BY FunctionalIs
<1>4. CASE a = c
  <2>1. f = n BY <1>1, <1>2, <1>3, <1>4 DEF Functional
  <2>2. 2 * c * f - 2 * n * a = 0 BY <1>4, <2>1
  <2> QED BY <1>1, <1>2, <1>3, <2>2
<1>5. CASE a # c
  <2>1. f = (2 * n * a + c) \div (2 * c) BY <1>1, <1>2, <1>3, <1>5 DEF Functional
  <2>2. 2 * c * f - 2 * n * a <= c /\ -c <= 2 * c * f - 2 * n * a BY <2>1, Halves
  <2> QED BY <1>1, <1>2, <1>3, <2>2
<1> QED BY <1>4, <1>5

\* In the functional currency an allocation is worth itself.
LEMMA WorthItself ==
  ASSUME RecsKept, LinesKept, NEW l \in DOMAIN lines, ~InForeign(l), NEW a \in Nat
  PROVE  Functional(l, a) = a
<1>1. PICK c \in Nat \ {0} : c = Capacity(l) BY LineFacts
<1>2. Magnitude(lines[l].net) = c BY <1>1 DEF Capacity, InForeign
<1>3. CASE a = c BY <1>1, <1>2, <1>3 DEF Functional
<1>4. CASE a # c
  <2>1. Functional(l, a) = (2 * c * a + c) \div (2 * c) BY <1>1, <1>2, <1>4 DEF Functional
  <2>2. PICK m \in Int, k \in Nat \ {0} : m = 2 * c * a + c /\ k = 2 * c
    <3>1. 2 * c * a + c \in Int /\ 2 * c \in Nat \ {0} OBVIOUS
    <3> QED BY <3>1
  <2>3. k * a <= m /\ m < k * a + k BY <2>2
  <2>4. m \div k = a BY <2>3
  <2> QED BY <2>1, <2>2, <2>4
<1> QED BY <1>3, <1>4

\* Only first lines are in foreign currency.
LEMMA ForeignLines ==
  ASSUME RecsKept, LinesKept
  PROVE  /\ DOMAIN FirstLines \subseteq DOMAIN lines
         /\ \A l \in DOMAIN lines : InForeign(l) <=> l \in DOMAIN FirstLines
<1>1. \A l \in DOMAIN FirstLines : l \in DOMAIN lines /\ lines[l] = FirstLines[l] BY DEF LinesKept
<1>2. \A l \in DOMAIN FirstLines : FirstLines[l].foreign # 0 BY FirstFacts
<1> QED BY <1>1, <1>2, LineFacts DEF InForeign

-----------------------------------------------------------------------------
\* What the reconciliation r booked on the first line l, and whether it has an item on it.

Booking(r, l) ==
  IF l \in LinesOf(recs[r].queue) THEN Functional(l, Allocated(recs[r].queue, l)) ELSE 0
Part(r, l) == IF l \in LinesOf(recs[r].queue) THEN 1 ELSE 0

LEMMA RecIs ==
  ASSUME TablesKept, NEW r \in DOMAIN recs
  PROVE  /\ Queue(recs[r].queue) /\ OneCurrency(recs[r].queue) /\ Len(recs[r].queue) >= 2
         /\ LinesOf(recs[r].queue) \subseteq DOMAIN lines /\ Signed(recs[r].queue) = 0
         /\ recs[r].fx = Realized(recs[r].queue) /\ recs[r].fx \in Int
<1>1. /\ recs[r] \in RecRows /\ recs[r].queue \in Requests /\ OneCurrency(recs[r].queue)
      /\ Signed(recs[r].queue) = 0 /\ recs[r].fx = Realized(recs[r].queue)
  BY DEF TablesKept, RecsKept, RowKept
<1>2. PICK q : q = recs[r].queue OBVIOUS
<1>3. Queue(q) /\ Len(q) >= 2 BY <1>1, <1>2, RequestIs
<1>4. LinesOf(q) \subseteq DOMAIN lines BY <1>1, <1>2 DEF OneCurrency, LinesOf
<1>5. recs[r].fx \in Int BY <1>1 DEF RecRows
<1> QED BY <1>1, <1>2, <1>3, <1>4, <1>5

LEMMA BookingIs ==
  ASSUME TablesKept, NEW r \in DOMAIN recs, NEW l \in DOMAIN lines
  PROVE  /\ Booking(r, l) \in Int /\ Part(r, l) \in {0, 1}
         /\ Allocated(recs[r].queue, l) \in Nat
         /\ LET d == 2 * Capacity(l) * Booking(r, l)
                     - 2 * Magnitude(lines[l].net) * Allocated(recs[r].queue, l)
            IN d <= Capacity(l) * Part(r, l) /\ -(Capacity(l) * Part(r, l)) <= d
<1>1. PICK q : q = recs[r].queue OBVIOUS
<1>2. Queue(q) /\ RecsKept /\ LinesKept BY <1>1, RecIs DEF TablesKept
<1>3. PICK a \in Nat : a = Allocated(q, l) BY <1>2, AllocatedIs
<1>4. PICK c \in Nat \ {0} : c = Capacity(l) BY <1>2, LineFacts
<1>5. PICK n \in Nat : n = Magnitude(lines[l].net)
  <2>1. lines[l].net \in Int BY <1>2, LineFacts
  <2> QED BY <2>1 DEF Magnitude
<1>6. CASE l \in LinesOf(q)
  <2>1. PICK f \in Int : f = Functional(l, a) BY <1>2, RoundedBy
  <2>2. 2 * c * f - 2 * n * a <= c /\ -c <= 2 * c * f - 2 * n * a
    BY <1>2, <1>4, <1>5, <2>1, RoundedBy
  <2>3. Booking(r, l) = f /\ Part(r, l) = 1 BY <1>1, <1>3, <1>6, <2>1 DEF Booking, Part
  <2>4. c * 1 = c OBVIOUS
  <2> QED BY <1>1, <1>3, <1>4, <1>5, <2>2, <2>3, <2>4
<1>7. CASE l \notin LinesOf(q)
  <2>1. a = 0 BY <1>2, <1>3, <1>7, AllocatedIs
  <2>2. Booking(r, l) = 0 /\ Part(r, l) = 0 BY <1>1, <1>7 DEF Booking, Part
  <2>3. 2 * c * 0 - 2 * n * 0 = 0 /\ c * 0 = 0 OBVIOUS
  <2>4. \A x \in Int : x = c * 0 => x <= c * 0 /\ -(c * 0) <= x OBVIOUS
  <2> QED BY <1>1, <1>3, <1>4, <1>5, <2>1, <2>2, <2>3, <2>4
<1> QED BY <1>6, <1>7

LEMMA InForceIs == TablesKept => /\ InForce = LiveIn(recs) /\ IsFiniteSet(InForce)
                                 /\ InForce \subseteq DOMAIN recs
<1> SUFFICES ASSUME TablesKept PROVE IsFiniteSet(InForce) BY DEF InForce, LiveIn
<1>1. IsFiniteSet(DOMAIN recs) /\ InForce \in SUBSET DOMAIN recs BY RecFacts DEF TablesKept, InForce
<1> QED BY <1>1, FS_Subset

LEMMA Cancel ==
  ASSUME NEW c \in Nat \ {0}, NEW x \in Int, NEW y \in Int, c * x <= c * y
  PROVE  x <= y
<1> SUFFICES ASSUME y < x PROVE FALSE OBVIOUS
<1>1. PICK d \in Nat \ {0} : x = y + d
  <2>1. x - y \in Nat \ {0} /\ x = y + (x - y) OBVIOUS
  <2> QED BY <2>1
<1>2. c * x = c * y + c * d BY <1>1
<1>3. c * d > 0 /\ c * y \in Int /\ c * d \in Int OBVIOUS
<1> QED BY <1>2, <1>3

\* What a line that is settled leaves in the functional currency is half a unit for each of
\* its allocations.
LEMMA LineRounding ==
  ASSUME TablesKept, NEW l \in DOMAIN lines, Residual(l) = 0,
         NEW f, \A r \in InForce : f[r] = Booking(r, l),
         NEW p, \A r \in InForce : p[r] = Part(r, l)
  PROVE  LET left == 2 * (Magnitude(lines[l].net) - SumFunctionOnSet(f, InForce))
             parts == SumFunctionOnSet(p, InForce)
         IN left \in Int /\ parts \in Int /\ left <= parts /\ -parts <= left
<1>1. PICK c \in Nat \ {0} : c = Capacity(l) BY LineFacts DEF TablesKept
<1>2. PICK n \in Nat : n = Magnitude(lines[l].net)
  <2>1. lines[l].net \in Int BY LineFacts DEF TablesKept
  <2> QED BY <2>1 DEF Magnitude
<1>3. InForce = LiveIn(recs) /\ IsFiniteSet(InForce) /\ InForce \subseteq DOMAIN recs BY InForceIs
<1> DEFINE a == [r \in InForce |-> Allocated(recs[r].queue, l)]
           f2 == [r \in InForce |-> (2 * c) * f[r]]
           a2 == [r \in InForce |-> (-(2 * n)) * a[r]]
           d == [r \in InForce |-> f2[r] + a2[r]]
           cp == [r \in InForce |-> c * p[r]]
<1>4. ASSUME NEW r \in InForce
      PROVE  /\ f[r] \in Int /\ p[r] \in Int /\ a[r] \in Int /\ f2[r] \in Int /\ a2[r] \in Int
             /\ d[r] \in Int /\ cp[r] \in Int /\ d[r] <= cp[r] /\ -cp[r] <= d[r]
  <2>1. r \in DOMAIN recs BY <1>3
  <2>2. /\ f[r] \in Int /\ p[r] \in {0, 1} /\ a[r] \in Nat
        /\ 2 * c * f[r] - 2 * n * a[r] <= c * p[r] /\ -(c * p[r]) <= 2 * c * f[r] - 2 * n * a[r]
    BY <1>1, <1>2, <2>1, BookingIs
  <2> HIDE DEF a
  <2>3. f2[r] = (2 * c) * f[r] /\ a2[r] = (-(2 * n)) * a[r] /\ cp[r] = c * p[r] /\ d[r] = f2[r] + a2[r]
    OBVIOUS
  <2> HIDE DEF f2, a2, d, cp
  <2>4. d[r] = 2 * c * f[r] - 2 * n * a[r] BY <2>2, <2>3
  <2> QED BY <2>2, <2>3, <2>4
<1>5. /\ \A r \in InForce : a[r] = Allocated(recs[r].queue, l)
      /\ \A r \in InForce : f2[r] = (2 * c) * f[r]
      /\ \A r \in InForce : a2[r] = (-(2 * n)) * a[r]
      /\ \A r \in InForce : d[r] = f2[r] + a2[r]
      /\ \A r \in InForce : cp[r] = c * p[r]
  OBVIOUS
<1> HIDE DEF a, f2, a2, d, cp
<1>6. SumFunctionOnSet(a, InForce) = c
  <2>1. Off(recs, l) = SumFunctionOnSet(a, InForce)
    <3>1. Rows(recs) BY RecFacts DEF TablesKept
    <3>2. \A r \in LiveIn(recs) : a[r] = Allocated(recs[r].queue, l) BY <1>3, <1>5
    <3> QED BY <1>3, <3>1, <3>2, OffIs
  <2>2. reconciled[l] = Off(recs, l) BY DEF TablesKept, CountersKept
  <2>3. reconciled[l] \in Nat /\ Residual(l) = Capacity(l) - reconciled[l] BY OpenIs
  <2> QED BY <1>1, <2>1, <2>2, <2>3
<1>7. PICK F \in Int : F = SumFunctionOnSet(f, InForce) BY <1>3, <1>4, SumLaws
<1>8. PICK P \in Int : P = SumFunctionOnSet(p, InForce) BY <1>3, <1>4, SumLaws
<1>9. SumFunctionOnSet(f2, InForce) = (2 * c) * F
  <2>1. 2 * c \in Int OBVIOUS
  <2>2. \A r \in InForce : f[r] \in Int /\ f2[r] = (2 * c) * f[r] BY <1>4, <1>5
  <2>3. IsFiniteSet(InForce) BY <1>3
  <2>4. SumFunctionOnSet(f2, InForce) = (2 * c) * SumFunctionOnSet(f, InForce)
    BY <2>1, <2>2, <2>3, SumTimes
  <2> QED BY <1>7, <2>4
<1>10. SumFunctionOnSet(a2, InForce) = (-(2 * n)) * c
  <2>1. -(2 * n) \in Int OBVIOUS
  <2>2. \A r \in InForce : a[r] \in Int /\ a2[r] = (-(2 * n)) * a[r] BY <1>4, <1>5
  <2>3. IsFiniteSet(InForce) BY <1>3
  <2>4. SumFunctionOnSet(a2, InForce) = (-(2 * n)) * SumFunctionOnSet(a, InForce)
    BY <2>1, <2>2, <2>3, SumTimes
  <2> QED BY <1>6, <2>4
<1>11. SumFunctionOnSet(cp, InForce) = c * P
  <2>1. \A r \in InForce : p[r] \in Int /\ cp[r] = c * p[r] BY <1>4, <1>5
  <2>2. c \in Int OBVIOUS
  <2>3. IsFiniteSet(InForce) BY <1>3
  <2>4. SumFunctionOnSet(cp, InForce) = c * SumFunctionOnSet(p, InForce)
    BY <2>1, <2>2, <2>3, SumTimes
  <2> QED BY <1>8, <2>4
<1>12. SumFunctionOnSet(d, InForce) = (2 * c) * F + (-(2 * n)) * c
  <2>1. \A r \in InForce : f2[r] \in Int /\ a2[r] \in Int /\ d[r] = f2[r] + a2[r] BY <1>4, <1>5
  <2>2. SumFunctionOnSet(d, InForce) = SumFunctionOnSet(f2, InForce) + SumFunctionOnSet(a2, InForce)
    BY <1>3, <2>1, SumPlus
  <2> QED BY <1>9, <1>10, <2>2
<1>13. /\ SumFunctionOnSet(d, InForce) <= SumFunctionOnSet(cp, InForce)
       /\ -SumFunctionOnSet(cp, InForce) <= SumFunctionOnSet(d, InForce)
  <2>1. \A r \in InForce : d[r] \in Int /\ cp[r] \in Int /\ d[r] <= cp[r] /\ -cp[r] <= d[r] BY <1>4
  <2> QED BY <1>3, <2>1, SumMagnitude
<1>14. PICK left \in Int : left = 2 * (n - F)
  <2>1. 2 * (n - F) \in Int OBVIOUS
  <2> QED BY <2>1
<1>15. (2 * c) * F + (-(2 * n)) * c = -(c * left) BY <1>14
<1>16. c * left \in Int /\ c * P \in Int /\ -(c * left) <= c * P /\ -(c * P) <= -(c * left)
  BY <1>11, <1>12, <1>13, <1>15
<1>17. c * left <= c * P /\ c * (-left) <= c * P
  <2>1. c * (-left) = -(c * left) OBVIOUS
  <2> QED BY <1>16, <2>1
<1>18. left <= P /\ -left <= P
  <2>1. -left \in Int OBVIOUS
  <2> QED BY <1>17, <2>1, Cancel
<1>19. -P <= left BY <1>18
<1> QED BY <1>2, <1>7, <1>8, <1>14, <1>18, <1>19

\* The FX move of a reconciliation takes off what it booked on the first lines: between
\* lines in the functional currency there is no difference.
LEMMA FxIs ==
  ASSUME TablesKept, NEW r \in DOMAIN recs,
         NEW b, \A l \in DOMAIN FirstLines : b[l] = Side(l) * Booking(r, l)
  PROVE  /\ \A l \in DOMAIN FirstLines : b[l] \in Int
         /\ recs[r].fx = -SumFunctionOnSet(b, DOMAIN FirstLines)
<1>1. PICK q : q = recs[r].queue OBVIOUS
<1>2. /\ Queue(q) /\ OneCurrency(q) /\ Len(q) >= 2 /\ LinesOf(q) \subseteq DOMAIN lines
      /\ Signed(q) = 0 /\ recs[r].fx = -InBooks(q) /\ RecsKept /\ LinesKept
  BY <1>1, RecIs DEF Realized, TablesKept
<1>3. IsFiniteSet(DOMAIN FirstLines) BY FirstFacts, UpTo
<1>4. \A l \in DOMAIN FirstLines : b[l] \in Int
  <2> TAKE l \in DOMAIN FirstLines
  <2>1. l \in DOMAIN lines BY <1>2, ForeignLines
  <2>2. Side(l) \in Int /\ Booking(r, l) \in Int BY <2>1, OpenIs, BookingIs
  <2> QED BY <2>2
<1>5. CASE InForeign(q[1].line)
  <2>1. LinesOf(q) \in SUBSET DOMAIN FirstLines
    BY <1>2, <1>5, ForeignLines DEF OneCurrency, LinesOf
  <2>2. ASSUME NEW l \in DOMAIN FirstLines \ LinesOf(q) PROVE b[l] = 0
    <3>1. l \in DOMAIN lines BY <1>2, ForeignLines
    <3>2. Side(l) \in Int /\ Booking(r, l) = 0 BY <1>1, <3>1, OpenIs DEF Booking
    <3> QED BY <3>2
  <2>3. SumFunctionOnSet(b, DOMAIN FirstLines) = SumFunctionOnSet(b, LinesOf(q))
    BY <1>3, <1>4, <2>1, <2>2, SumWithin
  <2> DEFINE g == [i \in DOMAIN q |-> Side(q[i].line) * Functional(q[i].line, q[i].amount)]
             pick == [i \in DOMAIN q |-> q[i].line]
  <2>4. IsFiniteSet(DOMAIN q) BY <1>2, QueueFacts
  <2>5. \A i, j \in DOMAIN q : i # j => pick[i] # pick[j] BY <1>2 DEF Queue
  <2>6. ASSUME NEW i \in DOMAIN q PROVE b[pick[i]] \in Int /\ g[i] = b[pick[i]]
    <3>1. q[i].line \in LinesOf(q) /\ q[i].line \in DOMAIN FirstLines BY <2>1 DEF LinesOf
    <3>2. Allocated(q, q[i].line) = q[i].amount BY <1>2, AllocatedIs
    <3>3. Booking(r, q[i].line) = Functional(q[i].line, q[i].amount)
      BY <1>1, <3>1, <3>2 DEF Booking
    <3> QED BY <1>4, <3>1, <3>3
  <2>7. {pick[i] : i \in DOMAIN q} = LinesOf(q) BY DEF LinesOf
  <2>8. DOMAIN g = DOMAIN q OBVIOUS
  <2>9. InBooks(q) = SumFunction(g) BY DEF InBooks
  <2> HIDE DEF g, pick
  <2>10. SumFunctionOnSet(g, DOMAIN q) = SumFunctionOnSet(b, {pick[i] : i \in DOMAIN q})
    BY <2>4, <2>5, <2>6, SumReindex
  <2>11. SumFunction(g) = SumFunctionOnSet(g, DOMAIN q) BY <2>8, SumFunctionIs
  <2> QED BY <1>2, <1>4, <2>3, <2>7, <2>9, <2>10, <2>11
<1>6. CASE ~InForeign(q[1].line)
  <2>1. \A i \in DOMAIN q : q[i].line \in DOMAIN lines /\ ~InForeign(q[i].line)
    BY <1>2, <1>6 DEF OneCurrency
  <2>2. \A l \in LinesOf(q) : l \notin DOMAIN FirstLines
    BY <1>2, <2>1, ForeignLines DEF LinesOf
  <2>3. ASSUME NEW l \in DOMAIN FirstLines PROVE b[l] = 0
    <3>1. l \in DOMAIN lines BY <1>2, ForeignLines
    <3>2. Side(l) \in Int /\ Booking(r, l) = 0 BY <1>1, <2>2, <3>1, OpenIs DEF Booking
    <3> QED BY <3>2
  <2>4. SumFunctionOnSet(b, DOMAIN FirstLines) = 0 BY <1>3, <2>3, SumZero
  <2>5. InBooks(q) = Signed(q)
    <3>1. \A i \in DOMAIN q : Functional(q[i].line, q[i].amount) = q[i].amount
      <4> TAKE i \in DOMAIN q
      <4>1. q[i].amount \in Nat BY <1>2, QueueFacts
      <4> QED BY <1>2, <2>1, <4>1, WorthItself
    <3>2. [i \in DOMAIN q |-> Side(q[i].line) * Functional(q[i].line, q[i].amount)]
            = [i \in DOMAIN q |-> Side(q[i].line) * q[i].amount]
      BY <3>1
    <3> QED BY <3>2 DEF InBooks, Signed
  <2>6. -InBooks(q) = -SumFunctionOnSet(b, DOMAIN FirstLines) BY <1>2, <2>4, <2>5
  <2> QED BY <1>2, <1>4, <2>6
<1> QED BY <1>5, <1>6

LEMMA LinesFinite == ASSUME TablesKept PROVE IsFiniteSet(DOMAIN lines)
<1>1. DOMAIN lines \in SUBSET LineIds BY LineFacts DEF TablesKept
<1>2. IsFiniteSet(LineIds) BY FirstFacts, UpTo DEF LineIds
<1> QED BY <1>1, <1>2, FS_Subset

\* Lines of FX moves that are in force: the others were taken back by their reversals.
LEMMA BalanceIs ==
  ASSUME TablesKept, \A r \in InForce : recs[r].reversals = 0,
         NEW net, \A l \in DOMAIN lines : net[l] = lines[l].net,
         NEW fx, \A r \in DOMAIN recs : fx[r] = recs[r].fx
  PROVE  SumFunctionOnSet(net, DOMAIN lines)
           = SumFunctionOnSet(net, DOMAIN FirstLines) + SumFunctionOnSet(fx, InForce)
<1> DEFINE First == DOMAIN FirstLines
           A == {FxLine(r) : r \in Booked}
           B == {ReversalLine(r) : r \in Reversed}
<1>1. RecsKept /\ LinesKept BY DEF TablesKept
<1>2. /\ IsFiniteSet(Booked) /\ IsFiniteSet(Reversed) /\ IsFiniteSet(First)
      /\ Booked \subseteq DOMAIN recs /\ Reversed \subseteq DOMAIN recs /\ Reversed \subseteq Booked
  <2>1. Booked \in SUBSET DOMAIN recs /\ Reversed \in SUBSET DOMAIN recs BY DEF Booked, Reversed
  <2>2. IsFiniteSet(DOMAIN recs) BY <1>1, RecFacts
  <2>3. IsFiniteSet(Booked) BY <2>1, <2>2, FS_Subset
  <2>4. IsFiniteSet(Reversed) BY <2>1, <2>2, FS_Subset
  <2>5. IsFiniteSet(First) BY FirstFacts, UpTo
  <2>6. Reversed \subseteq Booked BY <1>1 DEF RecsKept, RowKept, Booked, Reversed
  <2> QED BY <2>1, <2>3, <2>4, <2>5, <2>6
<1>3. \A r \in DOMAIN recs : r \in Nat \ {0} /\ fx[r] \in Int BY <1>1, RecFacts
<1>4. DOMAIN lines = (First \cup A) \cup B /\ \A l \in DOMAIN lines : net[l] \in Int
  <2>1. \A l \in DOMAIN lines : lines[l].net \in Int BY <1>1, LineFacts
  <2> QED BY <1>1, <2>1 DEF LinesKept
<1>5. First \cap A = {} /\ (First \cup A) \cap B = {}
  <2>1. /\ Len(FirstLines) \in Nat /\ First = 1 .. Len(FirstLines) BY FirstFacts
  <2>2. \A l \in A : l \in Int /\ l > Len(FirstLines)
    BY <1>2, <1>3, <2>1 DEF FxLine
  <2>3. \A l \in B : l \in Int /\ l > Len(FirstLines)
    BY <1>2, <1>3, <2>1 DEF ReversalLine
  <2>4. \A r \in Booked, x \in Reversed : FxLine(r) # ReversalLine(x)
    <3> TAKE r \in Booked, x \in Reversed
    <3>1. r \in Nat /\ x \in Nat BY <1>2, <1>3
    <3> QED BY <2>1, <3>1 DEF FxLine, ReversalLine
  <2> QED BY <2>1, <2>2, <2>3, <2>4
<1> DEFINE minus == [r \in Reversed |-> -fx[r]]
           pickA == [r \in Booked |-> FxLine(r)]
           pickB == [r \in Reversed |-> ReversalLine(r)]
<1>6. IsFiniteSet(A) /\ SumFunctionOnSet(net, A) = SumFunctionOnSet(fx, Booked)
  <2>1. \A x, y \in Booked : x # y => pickA[x] # pickA[y]
    BY <1>2, <1>3, FirstFacts DEF FxLine
  <2>2. \A x \in Booked : net[pickA[x]] \in Int /\ fx[x] = net[pickA[x]]
    <3> TAKE x \in Booked
    <3>1. FxLine(x) \in DOMAIN lines /\ lines[FxLine(x)] = [net |-> recs[x].fx, foreign |-> 0]
      BY <1>1 DEF LinesKept
    <3>2. net[FxLine(x)] = recs[x].fx /\ fx[x] = recs[x].fx BY <1>2, <3>1
    <3> QED BY <1>2, <1>3, <3>2
  <2>3. {pickA[x] : x \in Booked} = A OBVIOUS
  <2>4. IsFiniteSet(A)
    <3>1. A \in SUBSET DOMAIN lines BY <1>4
    <3> HIDE DEF A
    <3> QED BY <3>1, LinesFinite, FS_Subset
  <2> HIDE DEF pickA, A
  <2>5. SumFunctionOnSet(fx, Booked) = SumFunctionOnSet(net, {pickA[x] : x \in Booked})
    BY <1>2, <2>1, <2>2, SumReindex
  <2> QED BY <2>3, <2>4, <2>5
<1>7. IsFiniteSet(B) /\ SumFunctionOnSet(net, B) = -SumFunctionOnSet(fx, Reversed)
  <2>1. \A x, y \in Reversed : x # y => pickB[x] # pickB[y]
    BY <1>2, <1>3, FirstFacts DEF ReversalLine
  <2>2. \A x \in Reversed : net[pickB[x]] \in Int /\ minus[x] = net[pickB[x]]
    <3> TAKE x \in Reversed
    <3>1. ReversalLine(x) \in DOMAIN lines /\ lines[ReversalLine(x)] = [net |-> -recs[x].fx, foreign |-> 0]
      BY <1>1 DEF LinesKept
    <3>2. net[ReversalLine(x)] = -recs[x].fx /\ fx[x] = recs[x].fx BY <1>2, <3>1
    <3> QED BY <1>2, <1>3, <3>2
  <2>3. {pickB[x] : x \in Reversed} = B OBVIOUS
  <2>4. IsFiniteSet(B)
    <3>1. B \in SUBSET DOMAIN lines BY <1>4
    <3> HIDE DEF B
    <3> QED BY <3>1, LinesFinite, FS_Subset
  <2>5. \A x \in Reversed : fx[x] \in Int /\ minus[x] = -fx[x] BY <1>2, <1>3
  <2> HIDE DEF pickB, B, minus
  <2>6. SumFunctionOnSet(minus, Reversed) = SumFunctionOnSet(net, {pickB[x] : x \in Reversed})
    BY <1>2, <2>1, <2>2, SumReindex
  <2>7. SumFunctionOnSet(minus, Reversed) = -SumFunctionOnSet(fx, Reversed) BY <1>2, <2>5, SumMinus
  <2> QED BY <2>3, <2>4, <2>6, <2>7
<1>8. SumFunctionOnSet(net, DOMAIN lines)
        = SumFunctionOnSet(net, First) + SumFunctionOnSet(net, A) + SumFunctionOnSet(net, B)
  <2> HIDE DEF First, A, B
  <2>1. IsFiniteSet(First \cup A) BY <1>2, <1>6, FS_Union
  <2>2. SumFunctionOnSet(net, (First \cup A) \cup B)
          = SumFunctionOnSet(net, First \cup A) + SumFunctionOnSet(net, B)
    BY <1>4, <1>5, <1>7, <2>1, SumUnion
  <2>3. SumFunctionOnSet(net, First \cup A) = SumFunctionOnSet(net, First) + SumFunctionOnSet(net, A)
    BY <1>2, <1>4, <1>5, <1>6, SumUnion
  <2> QED BY <1>4, <2>2, <2>3
<1> DEFINE Standing == Booked \ Reversed
<1>9. SumFunctionOnSet(fx, Booked) = SumFunctionOnSet(fx, Standing) + SumFunctionOnSet(fx, Reversed)
  <2>1. Booked = Standing \cup Reversed /\ Standing \cap Reversed = {} BY <1>2
  <2>2. \A r \in Standing \cup Reversed : fx[r] \in Int BY <1>2, <1>3
  <2>3. IsFiniteSet(Standing) BY <1>2, FS_Difference
  <2> HIDE DEF Standing
  <2> QED BY <1>2, <2>1, <2>2, <2>3, SumUnion
<1>10. SumFunctionOnSet(fx, InForce) = SumFunctionOnSet(fx, Standing)
  <2>1. Standing \in SUBSET InForce
    BY <1>1 DEF RecsKept, RowKept, Booked, Reversed, InForce
  <2>2. \A r \in InForce \ Standing : fx[r] = 0
    BY DEF Booked, Reversed, InForce
  <2>3. IsFiniteSet(InForce) /\ InForce \subseteq DOMAIN recs BY InForceIs
  <2>4. \A r \in Standing : fx[r] \in Int BY <1>2, <1>3
  <2> HIDE DEF Standing
  <2> QED BY <2>1, <2>2, <2>3, <2>4, SumWithin
<1>11. /\ SumFunctionOnSet(fx, Standing) \in Int /\ SumFunctionOnSet(fx, Reversed) \in Int
       /\ SumFunctionOnSet(net, First) \in Int
  <2>1. \A r \in Standing : fx[r] \in Int BY <1>2, <1>3
  <2>2. \A r \in Reversed : fx[r] \in Int BY <1>2, <1>3
  <2>3. IsFiniteSet(Standing) BY <1>2, FS_Difference
  <2>4. \A l \in First : net[l] \in Int BY <1>4
  <2> HIDE DEF Standing, First
  <2>5. SumFunctionOnSet(fx, Standing) \in Int BY <2>1, <2>3, SumLaws
  <2>6. SumFunctionOnSet(fx, Reversed) \in Int BY <1>2, <2>2, SumLaws
  <2>7. SumFunctionOnSet(net, First) \in Int BY <1>2, <2>4, SumLaws
  <2> QED BY <2>5, <2>6, <2>7
<1> HIDE DEF A, B, Standing
<1> QED BY <1>6, <1>7, <1>8, <1>9, <1>10, <1>11

\* A reconciliation has at most as many items on the first lines as it has items.
LEMMA PartsFit ==
  ASSUME TablesKept, NEW r \in DOMAIN recs, NEW g, \A l \in DOMAIN lines : g[l] = Part(r, l)
  PROVE  /\ SumFunctionOnSet(g, DOMAIN FirstLines) \in Int
         /\ SumFunctionOnSet(g, DOMAIN FirstLines) <= Len(recs[r].queue)
<1>1. PICK q : q = recs[r].queue OBVIOUS
<1>2. Queue(q) /\ LinesOf(q) \subseteq DOMAIN lines /\ DOMAIN FirstLines \subseteq DOMAIN lines
  BY <1>1, RecIs, ForeignLines DEF TablesKept
<1>3. IsFiniteSet(DOMAIN FirstLines) /\ IsFiniteSet(DOMAIN q) /\ Len(q) \in Nat /\ DOMAIN q = 1 .. Len(q)
  BY <1>2, FirstFacts, UpTo, QueueFacts
<1> DEFINE T == DOMAIN FirstLines \cap LinesOf(q)
           pick == [i \in DOMAIN q |-> q[i].line]
           ones == [i \in DOMAIN q |-> 1]
<1>4. \A l \in DOMAIN lines : g[l] = IF l \in LinesOf(q) THEN 1 ELSE 0 BY <1>1 DEF Part
<1>5. SumFunctionOnSet(g, DOMAIN FirstLines) = SumFunctionOnSet(g, T)
  <2>1. T \in SUBSET DOMAIN FirstLines /\ (\A l \in T : g[l] \in Int)
        /\ \A l \in DOMAIN FirstLines \ T : g[l] = 0
    BY <1>2, <1>4
  <2> HIDE DEF T
  <2> QED BY <1>3, <2>1, SumWithin
<1>6. IsFiniteSet(LinesOf(q)) BY <1>2, LinesFinite, FS_Subset
<1>7. SumFunctionOnSet(g, LinesOf(q)) = SumFunctionOnSet(g, T) + SumFunctionOnSet(g, LinesOf(q) \ T)
  <2>1. LinesOf(q) = T \cup (LinesOf(q) \ T) /\ T \cap (LinesOf(q) \ T) = {} OBVIOUS
  <2>2. IsFiniteSet(T) /\ IsFiniteSet(LinesOf(q) \ T)
    <3>1. T \in SUBSET LinesOf(q) OBVIOUS
    <3> HIDE DEF T
    <3> QED BY <1>6, <3>1, FS_Subset, FS_Difference
  <2>3. \A l \in LinesOf(q) : g[l] \in Int BY <1>2, <1>4
  <2> DEFINE R == LinesOf(q) \ T
  <2>4. \A l \in T \cup R : g[l] \in Int BY <2>1, <2>3
  <2>5. T \cup R = LinesOf(q) /\ T \cap R = {} /\ IsFiniteSet(R) BY <2>1, <2>2
  <2> HIDE DEF T, R
  <2>6. SumFunctionOnSet(g, T \cup R) = SumFunctionOnSet(g, T) + SumFunctionOnSet(g, R)
    BY <2>2, <2>4, <2>5, SumUnion
  <2> QED BY <2>5, <2>6 DEF R
<1>8. SumFunctionOnSet(g, LinesOf(q)) = Len(q)
  <2>1. {pick[i] : i \in DOMAIN q} = LinesOf(q) BY DEF LinesOf
  <2>2. \A i, j \in DOMAIN q : i # j => pick[i] # pick[j] BY <1>2 DEF Queue
  <2>3. \A i \in DOMAIN q : g[pick[i]] \in Int /\ ones[i] = g[pick[i]]
    <3> TAKE i \in DOMAIN q
    <3>1. q[i].line \in LinesOf(q) /\ q[i].line \in DOMAIN lines BY <1>2 DEF LinesOf
    <3> QED BY <1>4, <3>1
  <2>4. \A i \in DOMAIN q : ones[i] = 1 OBVIOUS
  <2> HIDE DEF pick, ones
  <2>5. SumFunctionOnSet(ones, DOMAIN q) = SumFunctionOnSet(g, {pick[i] : i \in DOMAIN q})
    <3>1. IsFiniteSet(DOMAIN q) BY <1>3
    <3> QED BY <2>2, <2>3, <3>1, SumReindex
  <2>6. SumFunctionOnSet(ones, DOMAIN q) = Cardinality(DOMAIN q) BY <1>3, <2>4, SumOnes
  <2>7. Cardinality(DOMAIN q) = Len(q) BY <1>3, UpTo
  <2> QED BY <2>1, <2>5, <2>6, <2>7
<1>9. SumFunctionOnSet(g, LinesOf(q) \ T) \in Nat
  <2> DEFINE R == LinesOf(q) \ T
  <2>1. IsFiniteSet(R) BY <1>6, FS_Difference
  <2>2. \A l \in R : g[l] \in Nat BY <1>2, <1>4
  <2> HIDE DEF R
  <2>3. SumFunctionOnSet(g, R) \in Nat BY <2>1, <2>2, SumNatural
  <2> QED BY <2>3 DEF R
<1>10. SumFunctionOnSet(g, DOMAIN FirstLines) \in Int
  <2>1. \A l \in DOMAIN FirstLines : g[l] \in Int BY <1>2, <1>4
  <2> QED BY <1>3, <2>1, SumLaws
<1> HIDE DEF T
<1> QED BY <1>1, <1>3, <1>5, <1>7, <1>8, <1>9, <1>10

\* What the first line l shows less what was booked on it, when it is settled.
LEMMA SettledLine ==
  ASSUME TablesKept, NEW l \in DOMAIN lines, Residual(l) = 0,
         NEW t, \A r \in InForce : t[r] = Side(l) * Booking(r, l),
         NEW p, \A r \in InForce : p[r] = Part(r, l)
  PROVE  LET e == 2 * (lines[l].net - SumFunctionOnSet(t, InForce))
             parts == SumFunctionOnSet(p, InForce)
         IN /\ SumFunctionOnSet(t, InForce) \in Int /\ e \in Int /\ parts \in Int
            /\ e <= parts /\ -parts <= e
<1> DEFINE f == [r \in InForce |-> Booking(r, l)]
<1>1. IsFiniteSet(InForce) /\ InForce \subseteq DOMAIN recs BY InForceIs
<1>2. \A r \in InForce : f[r] = Booking(r, l) /\ f[r] \in Int BY <1>1, BookingIs
<1> HIDE DEF f
<1>3. Side(l) \in {1, -1} /\ lines[l].net \in Int BY LineFacts DEF TablesKept
<1>4. PICK m \in Nat : m = Magnitude(lines[l].net) /\ lines[l].net = Side(l) * m
  <2>1. Magnitude(lines[l].net) \in Nat /\ lines[l].net = Side(l) * Magnitude(lines[l].net)
    BY <1>3 DEF Side, Magnitude
  <2> QED BY <2>1
<1>5. PICK F \in Int : F = SumFunctionOnSet(f, InForce) BY <1>1, <1>2, SumLaws
<1>6. SumFunctionOnSet(t, InForce) = Side(l) * F
  <2>1. Side(l) \in Int BY <1>3
  <2>2. \A r \in InForce : f[r] \in Int /\ t[r] = Side(l) * f[r] BY <1>2
  <2> QED BY <1>1, <1>5, <2>1, <2>2, SumTimes
<1>7. LET left == 2 * (m - F)
          parts == SumFunctionOnSet(p, InForce)
      IN left \in Int /\ parts \in Int /\ left <= parts /\ -parts <= left
  <2>1. \A r \in InForce : f[r] = Booking(r, l) BY <1>2
  <2> QED BY <1>4, <1>5, <2>1, LineRounding
<1>8. CASE Side(l) = 1 BY <1>4, <1>6, <1>7, <1>8
<1>9. CASE Side(l) = -1 BY <1>4, <1>6, <1>7, <1>9
<1> QED BY <1>3, <1>8, <1>9

\* When no foreign line is open and no FX move was reversed by hand, what the account still
\* shows in the functional currency is at most half a unit for every item in force, for any
\* amounts and rates.
THEOREM SettledToRounding == Spec => []SettledWithinRounding
<1> DEFINE First == DOMAIN FirstLines
<1>1. ASSUME Inv, \A l \in Unreconciled : ~InForeign(l), \A r \in InForce : recs[r].reversals = 0,
             NEW net, \A l \in DOMAIN lines : net[l] = lines[l].net,
             NEW len, \A r \in InForce : len[r] = Len(recs[r].queue)
      PROVE  /\ SumFunctionOnSet(net, DOMAIN lines) \in Int
             /\ 2 * SumFunctionOnSet(net, DOMAIN lines) <= SumFunctionOnSet(len, InForce)
             /\ -(2 * SumFunctionOnSet(net, DOMAIN lines)) <= SumFunctionOnSet(len, InForce)
             /\ SumFunctionOnSet(len, InForce) \in Int
  <2>1. TablesKept /\ RecsKept /\ LinesKept BY <1>1 DEF Inv, TablesKept
  <2>2. /\ IsFiniteSet(First) /\ First \subseteq DOMAIN lines
        /\ IsFiniteSet(InForce) /\ InForce \subseteq DOMAIN recs
    BY <2>1, FirstFacts, UpTo, ForeignLines, InForceIs
  <2>3. \A l \in First : Residual(l) = 0
    <3> TAKE l \in First
    <3>1. l \in DOMAIN lines /\ InForeign(l) BY <2>1, <2>2, ForeignLines
    <3>2. Residual(l) \in Nat BY <2>1, <3>1, OpenIs
    <3> QED BY <1>1, <3>1, <3>2 DEF Unreconciled
  <2> DEFINE fx == [r \in DOMAIN recs |-> recs[r].fx]
             T == [l \in First |-> [r \in InForce |-> Side(l) * Booking(r, l)]]
             U == [l \in First |-> [r \in InForce |-> Part(r, l)]]
             G == [l \in First |-> SumFunctionOnSet(T[l], InForce)]
             H == [r \in InForce |-> SumFunctionOnSet([l \in First |-> T[l][r]], First)]
             P == [l \in First |-> SumFunctionOnSet(U[l], InForce)]
             Q == [r \in InForce |-> SumFunctionOnSet([l \in First |-> U[l][r]], First)]
             less == [l \in First |-> -G[l]]
             left == [l \in First |-> net[l] + less[l]]
             e == [l \in First |-> 2 * left[l]]
  <2>4. \A l \in First, r \in InForce : T[l][r] = Side(l) * Booking(r, l) /\ U[l][r] = Part(r, l)
    OBVIOUS
  <2>5. \A l \in First, r \in InForce : T[l][r] \in Int /\ U[l][r] \in Int
    <3> TAKE l \in First, r \in InForce
    <3>1. Side(l) \in Int BY <2>1, <2>2, OpenIs
    <3>2. Booking(r, l) \in Int /\ Part(r, l) \in Int BY <2>1, <2>2, BookingIs
    <3> QED BY <2>4, <3>1, <3>2
  <2>6. /\ \A r \in DOMAIN recs : fx[r] = recs[r].fx
        /\ \A l \in First : G[l] = SumFunctionOnSet(T[l], InForce)
        /\ \A l \in First : P[l] = SumFunctionOnSet(U[l], InForce)
        /\ \A l \in First : less[l] = -G[l]
        /\ \A l \in First : left[l] = net[l] + less[l]
        /\ \A l \in First : e[l] = 2 * left[l]
    OBVIOUS
  <2>7. SumFunctionOnSet(G, First) = SumFunctionOnSet(H, InForce)
    <3> HIDE DEF T, First
    <3> QED BY <2>2, <2>5, SumSwap
  <2>8. SumFunctionOnSet(P, First) = SumFunctionOnSet(Q, InForce)
    <3> HIDE DEF U, First
    <3> QED BY <2>2, <2>5, SumSwap
  <2>9. \A r \in InForce : H[r] \in Int /\ fx[r] = -H[r]
    <3> TAKE r \in InForce
    <3> DEFINE b == [l \in First |-> T[l][r]]
    <3>1. \A l \in First : b[l] = Side(l) * Booking(r, l) BY <2>4
    <3>2. H[r] = SumFunctionOnSet(b, First) OBVIOUS
    <3>3. r \in DOMAIN recs BY <2>2
    <3> HIDE DEF b, T, H
    <3>4. (\A l \in First : b[l] \in Int) /\ recs[r].fx = -SumFunctionOnSet(b, First)
      BY <2>1, <3>1, <3>3, FxIs
    <3>5. SumFunctionOnSet(b, First) \in Int BY <2>2, <3>4, SumLaws
    <3> QED BY <2>6, <3>2, <3>3, <3>4, <3>5
  <2>10. \A r \in InForce : Q[r] \in Int /\ len[r] \in Int /\ Q[r] <= len[r]
    <3> TAKE r \in InForce
    <3> DEFINE g == [l \in DOMAIN lines |-> Part(r, l)]
               c == [l \in First |-> U[l][r]]
    <3>1. r \in DOMAIN recs BY <2>2
    <3>2. \A l \in DOMAIN lines : g[l] = Part(r, l) OBVIOUS
    <3>3. \A l \in First : c[l] = g[l] /\ c[l] \in Int BY <2>2, <2>4, <2>5
    <3>4. Q[r] = SumFunctionOnSet(c, First) OBVIOUS
    <3> HIDE DEF g, c, U, Q
    <3>5. SumFunctionOnSet(c, First) = SumFunctionOnSet(g, First) BY <2>2, <3>3, SumSame
    <3>6. /\ SumFunctionOnSet(g, First) \in Int
          /\ SumFunctionOnSet(g, First) <= Len(recs[r].queue)
      BY <2>1, <3>1, <3>2, PartsFit
    <3>7. Queue(recs[r].queue) BY <2>1, <3>1, RecIs
    <3>8. Len(recs[r].queue) \in Nat BY <3>7, QueueFacts
    <3> QED BY <1>1, <3>4, <3>5, <3>6, <3>8
  <2>11. ASSUME NEW l \in First
         PROVE  /\ net[l] \in Int /\ G[l] \in Int /\ less[l] \in Int /\ left[l] \in Int
                /\ e[l] \in Int /\ P[l] \in Int /\ e[l] <= P[l] /\ -P[l] <= e[l]
    <3>1. l \in DOMAIN lines /\ Residual(l) = 0 BY <2>2, <2>3
    <3>2. PICK t : t = T[l] OBVIOUS
    <3>3. PICK p : p = U[l] OBVIOUS
    <3>4. /\ \A r \in InForce : t[r] = Side(l) * Booking(r, l)
          /\ \A r \in InForce : p[r] = Part(r, l)
      BY <2>4, <3>2, <3>3
    <3>5. G[l] = SumFunctionOnSet(t, InForce) /\ P[l] = SumFunctionOnSet(p, InForce)
      BY <2>6, <3>2, <3>3
    <3> HIDE DEF T, U, G, P, less, left, e
    <3>6. /\ G[l] \in Int /\ P[l] \in Int /\ 2 * (lines[l].net - G[l]) <= P[l]
          /\ -P[l] <= 2 * (lines[l].net - G[l])
      BY <2>1, <3>1, <3>4, <3>5, SettledLine
    <3>7. lines[l].net \in Int /\ net[l] = lines[l].net BY <1>1, <2>1, <3>1, LineFacts
    <3>8. less[l] = -G[l] /\ left[l] = net[l] + less[l] /\ e[l] = 2 * left[l] BY <2>6
    <3> QED BY <3>6, <3>7, <3>8
  <2> HIDE DEF T, U, G, H, P, Q, less, left, e, fx, First
  <2>12. SumFunctionOnSet(net, DOMAIN lines)
           = SumFunctionOnSet(net, First) + SumFunctionOnSet(fx, InForce)
    BY <1>1, <2>1, <2>6, BalanceIs DEF First
  <2>13. SumFunctionOnSet(fx, InForce) = -SumFunctionOnSet(H, InForce) BY <2>2, <2>9, SumMinus
  <2>14. SumFunctionOnSet(less, First) = -SumFunctionOnSet(G, First)
    <3>1. \A l \in First : G[l] \in Int /\ less[l] = -G[l] BY <2>6, <2>11
    <3> QED BY <2>2, <3>1, SumMinus
  <2>15. SumFunctionOnSet(left, First) = SumFunctionOnSet(net, First) + SumFunctionOnSet(less, First)
    <3>1. \A l \in First : net[l] \in Int /\ less[l] \in Int /\ left[l] = net[l] + less[l]
      BY <2>6, <2>11
    <3> QED BY <2>2, <3>1, SumPlus
  <2>16. SumFunctionOnSet(e, First) = 2 * SumFunctionOnSet(left, First)
    <3>1. \A l \in First : left[l] \in Int /\ e[l] = 2 * left[l] BY <2>6, <2>11
    <3>2. 2 \in Int OBVIOUS
    <3> QED BY <2>2, <3>1, <3>2, SumTimes
  <2>17. /\ SumFunctionOnSet(e, First) <= SumFunctionOnSet(P, First)
         /\ -SumFunctionOnSet(P, First) <= SumFunctionOnSet(e, First)
         /\ SumFunctionOnSet(P, First) \in Int
    <3>1. \A l \in First : e[l] \in Int /\ P[l] \in Int /\ e[l] <= P[l] /\ -P[l] <= e[l] BY <2>11
    <3> QED BY <2>2, <3>1, SumMagnitude
  <2>18. /\ SumFunctionOnSet(Q, InForce) <= SumFunctionOnSet(len, InForce)
         /\ SumFunctionOnSet(len, InForce) \in Int
    <3>1. SumFunctionOnSet(Q, InForce) <= SumFunctionOnSet(len, InForce) BY <2>2, <2>10, SumBetween
    <3>2. SumFunctionOnSet(len, InForce) \in Int BY <2>2, <2>10, SumLaws
    <3> QED BY <3>1, <3>2
  <2>19. /\ SumFunctionOnSet(net, First) \in Int /\ SumFunctionOnSet(G, First) \in Int
    <3>1. SumFunctionOnSet(net, First) \in Int BY <2>2, <2>11, SumLaws
    <3>2. SumFunctionOnSet(G, First) \in Int BY <2>2, <2>11, SumLaws
    <3> QED BY <3>1, <3>2
  <2>20. PICK n \in Int, g \in Int, items \in Int, parts \in Int :
            /\ n = SumFunctionOnSet(net, First) /\ g = SumFunctionOnSet(G, First)
            /\ items = SumFunctionOnSet(len, InForce) /\ parts = SumFunctionOnSet(P, First)
    BY <2>17, <2>18, <2>19
  <2>21. SumFunctionOnSet(net, DOMAIN lines) = n - g BY <2>7, <2>12, <2>13, <2>20
  <2>22. SumFunctionOnSet(e, First) = 2 * (n - g) BY <2>14, <2>15, <2>16, <2>20
  <2>23. 2 * (n - g) <= parts /\ -parts <= 2 * (n - g) /\ parts <= items
    BY <2>8, <2>17, <2>18, <2>20, <2>22
  <2> QED BY <2>20, <2>21, <2>23
<1>2. Inv => SettledWithinRounding
  <2> SUFFICES ASSUME Inv, \A l \in Unreconciled : ~InForeign(l),
                      \A r \in InForce : recs[r].reversals = 0
               PROVE  2 * Magnitude(SumFunction([l \in DOMAIN lines |-> lines[l].net]))
                        <= SumFunction([r \in InForce |-> Len(recs[r].queue)])
    BY DEF SettledWithinRounding
  <2>1. PICK net, len : /\ net = [l \in DOMAIN lines |-> lines[l].net]
                        /\ len = [r \in InForce |-> Len(recs[r].queue)]
    OBVIOUS
  <2>2. /\ DOMAIN net = DOMAIN lines /\ DOMAIN len = InForce
        /\ \A l \in DOMAIN lines : net[l] = lines[l].net
        /\ \A r \in InForce : len[r] = Len(recs[r].queue)
    BY <2>1
  <2>3. /\ SumFunction(net) = SumFunctionOnSet(net, DOMAIN lines)
        /\ SumFunction(len) = SumFunctionOnSet(len, InForce)
    BY <2>2, SumFunctionIs
  <2>4. /\ SumFunctionOnSet(net, DOMAIN lines) \in Int
        /\ 2 * SumFunctionOnSet(net, DOMAIN lines) <= SumFunctionOnSet(len, InForce)
        /\ -(2 * SumFunctionOnSet(net, DOMAIN lines)) <= SumFunctionOnSet(len, InForce)
        /\ SumFunctionOnSet(len, InForce) \in Int
    BY <1>1, <2>2
  <2>5. 2 * Magnitude(SumFunction(net)) <= SumFunction(len) BY <2>3, <2>4 DEF Magnitude
  <2> QED BY <2>1, <2>5
<1> QED BY <1>2, InvAlways, PTL
=============================================================================
