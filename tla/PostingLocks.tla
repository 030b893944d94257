---------------------------- MODULE PostingLocks ----------------------------
(***************************************************************************)
(* The three posting transactions of PostgresRepository, opened statement  *)
(* by statement.  Between two statements other transactions run; what a    *)
(* transaction has read stays true only as far as its row locks, held      *)
(* until it ends, keep others away.  The module extends Ledger: requests,  *)
(* tables and all short transactions are the ones described there, and the *)
(* claim is that with the locks a posting transaction still happens as     *)
(* Ledger says, all at once, when it commits.                              *)
(*                                                                         *)
(* PostgreSQL runs at READ COMMITTED: a statement sees what was committed  *)
(* when it began, and waits while another transaction holds a lock that    *)
(* conflicts with the one it asks for.                                     *)
(***************************************************************************)
EXTENDS Ledger

CONSTANT MaxRequests   \* bound on the posting transactions begun

ASSUME RequestAssumption == MaxRequests \in Nat

VARIABLES
  tx,      \* worker -> where its transaction is, and what it has read
  held,    \* worker -> the locks its transaction holds
  logs,    \* the hash links of the rows of financial_audit_logs
  begun    \* posting transactions begun so far

lockVars == <<tx, held, logs, begun>>
allVars == <<moves, journals, periods, audit, events, workers, replies,
             tx, held, logs, begun>>

-----------------------------------------------------------------------------
\* Locks.

Modes == {"key_share", "share", "no_key_update", "update"}

\* The conflict table of row locks; an advisory lock conflicts as "update" does.
Conflict(a, b) ==
  \/ "update" \in {a, b}
  \/ {a, b} = {"share", "no_key_update"}
  \/ a = "no_key_update" /\ b = "no_key_update"

Lock(table, row, mode) == [table |-> table, row |-> row, mode |-> mode]

Clash(l, k) == l.table = k.table /\ l.row = k.row /\ Conflict(l.mode, k.mode)

\* Whether nobody but the workers of S is in the way of the locks of L.
FreeFor(S, L) == \A o \in Workers \ S : \A l \in L, k \in held[o] : ~ Clash(l, k)

-----------------------------------------------------------------------------
\* Transactions.

NoLog == [id |-> 0, previous |-> 0]
NoTx == [at |-> "none", name |-> NoName, previous |-> NoMove, log |-> NoLog]

Running(w) == tx[w].at # "none"
At(w, statement) == tx[w].at = statement
Kind(w) == workers[w].op

JournalOf(w) == IF Kind(w) = "reverse" THEN workers[w].journal ELSE workers[w].row.journal
PeriodOf(w) == IF Kind(w) = "reverse" THEN workers[w].period ELSE workers[w].row.period
MoveOf(w) == IF Kind(w) = "reverse" THEN workers[w].original ELSE Head(workers[w].queue)

\* The audit entry of a posting before its number.
StatementsBug(kind) ==
  CASE kind = "post"    -> <<"period", "move", "audit", "log", "journal", "hash", "name", "commit">>
    [] kind = "reverse" -> <<"move", "period", "journal", "hash", "name", "audit", "log", "commit">>
    [] kind = "ingest"  -> <<"period", "insert", "journal", "hash", "name", "audit", "log",
                             "key", "commit">>

\* The audit entry of a reversal before its number.
ReversalStatementsBug(kind) ==
  CASE kind = "post"    -> <<"period", "move", "journal", "hash", "name", "audit", "log", "commit">>
    [] kind = "reverse" -> <<"move", "period", "audit", "log", "journal", "hash", "name", "commit">>
    [] kind = "ingest"  -> <<"period", "insert", "journal", "hash", "name", "audit", "log",
                             "key", "commit">>

\* The order of the statements in postMoveAtomic, without and with a new move,
\* and in ReverseMoveAtomic.
Statements(kind) ==
  CASE kind = "post"    -> <<"period", "move", "journal", "hash", "name", "audit", "log", "commit">>
    [] kind = "reverse" -> <<"move", "period", "journal", "hash", "name", "audit", "log", "commit">>
    [] kind = "ingest"  -> <<"period", "insert", "journal", "hash", "name", "audit", "log",
                             "key", "commit">>

After(w) ==
  LET s == Statements(Kind(w))
  IN s[1 + CHOOSE i \in DOMAIN s : s[i] = tx[w].at]

\* The locks a statement asks for: the clauses FOR SHARE and FOR UPDATE, the rows
\* its foreign keys name, the entries of its unique indexes, the advisory lock.
Wants(w) ==
  CASE At(w, "period")  -> {Lock("period", PeriodOf(w), "share")}
    [] At(w, "insert")  -> {Lock("journal", JournalOf(w), "key_share"),
                            Lock("period", PeriodOf(w), "key_share")}
    [] At(w, "move")    -> {Lock("move", MoveOf(w), "update")}
    [] At(w, "journal") -> {Lock("journal", JournalOf(w), "update")}
    [] At(w, "name")    -> {Lock("name", tx[w].name, "update")}
    [] At(w, "audit")   -> {Lock("audit", "chain", "update")}
    [] At(w, "key")     -> {Lock("key", workers[w].key, "update")}
    [] OTHER            -> {}

Granted(w) == FreeFor({w}, Wants(w))

\* The statement succeeds: the test the code makes of its result, or the unique
\* index of the row it writes.
Accepted(w) ==
  CASE At(w, "period") -> periods[PeriodOf(w)] = "open"
    [] At(w, "move") /\ Kind(w) = "post" -> SameRow(workers[w].row, MoveOf(w))
    [] At(w, "move") /\ Kind(w) = "reverse" ->
         moves[MoveOf(w)].state = "posted" /\ \A m \in MoveIds : moves[m].reverses # MoveOf(w)
    [] At(w, "hash") /\ Kind(w) = "reverse" -> Cardinality(LinesOf(moves[MoveOf(w)].lines)) >= 2
    [] At(w, "name") -> \A m \in Posted : moves[m].name # tx[w].name
    [] At(w, "key") -> events[workers[w].key] = NoMove
    [] OTHER -> TRUE

\* What the statement leaves behind when it succeeds.
Step(w, statement, result) ==
  /\ At(w, statement) /\ Granted(w) /\ Accepted(w)
  /\ tx' = [tx EXCEPT ![w] = [result EXCEPT !.at = After(w)]]
  /\ held' = [held EXCEPT ![w] = @ \cup Wants(w)]
  /\ UNCHANGED <<vars, logs, begun>>

Inserting == {w \in Workers : Running(w) /\ Kind(w) \in {"reverse", "ingest"}}

\* Bound: a row is only begun while MoveIds has an identifier left for it, so that
\* the finite set never holds up a transaction that goes on.
IdLeft == Cardinality(Unused) > Cardinality(Inserting)

\* Begin: the move given to postMoveAtomic has been validated.
BeginTx(w) ==
  /\ ~ Running(w) /\ Kind(w) \in {"post", "reverse", "ingest"}
  /\ begun < MaxRequests /\ (Kind(w) = "post" \/ IdLeft)
  /\ Kind(w) # "reverse" => ValidateBalance(workers[w].row)
  /\ tx' = [tx EXCEPT ![w].at = Statements(Kind(w))[1]]
  /\ begun' = begun + 1
  /\ UNCHANGED <<vars, held, logs>>

\* A plain SELECT, without FOR SHARE.
LockPeriodBug(w) ==
  /\ At(w, "period") /\ Granted(w) /\ Accepted(w)
  /\ tx' = [tx EXCEPT ![w].at = After(w)]
  /\ UNCHANGED <<vars, held, logs, begun>>

\* lockOpenPeriod.
LockPeriod(w) == Step(w, "period", tx[w])

\* INSERT INTO account_moves, as a draft.
InsertMove(w) == Step(w, "insert", tx[w])

\* The draft to post, compared with the one validated; or the original to reverse.
LockMove(w) == Step(w, "move", tx[w])

\* GetNextSequenceWithLock.
DrawNumber(w) == Step(w, "journal", [tx[w] EXCEPT !.name = NextName(JournalOf(w))])

\* previousPostedMoveHash, hashMove.
ReadLastHash(w) ==
  /\ At(w, "hash")
  /\ \E m \in LastPosted(JournalOf(w)) : Step(w, "hash", [tx[w] EXCEPT !.previous = m])

\* The row becomes posted, and its name unique.
TakeName(w) == Step(w, "name", tx[w])

\* No advisory lock around the audit chain.
LockAuditBug(w) ==
  /\ At(w, "audit")
  /\ tx' = [tx EXCEPT ![w].at = After(w)]
  /\ UNCHANGED <<vars, held, logs, begun>>

\* pg_advisory_xact_lock.
LockAudit(w) == Step(w, "audit", tx[w])

LogIds == {0} \cup {l.id : l \in logs}
Latest(ids) == CHOOSE i \in ids : \A j \in ids : j <= i

\* The SELECT and the INSERT of insertAuditLog.  The id comes from a sequence,
\* above every id drawn before; numbers that were rolled back are not counted.
WriteLog(w) ==
  Step(w, "log",
       [tx[w] EXCEPT !.log =
          [id |-> 1 + Latest(LogIds \cup {tx[o].log.id : o \in Workers}),
           previous |-> Latest(LogIds)]])

\* INSERT INTO subledger_processed_events.
InsertKey(w) == Step(w, "key", tx[w])

-----------------------------------------------------------------------------
\* The end of a transaction.

\* No deferred Rollback: the connection goes back with its locks.
EndBug(w) ==
  /\ tx' = [tx EXCEPT ![w] = NoTx]
  /\ UNCHANGED <<held, begun>>

\* Commit, or the deferred Rollback: all locks are released.
End(w) ==
  /\ tx' = [tx EXCEPT ![w] = NoTx]
  /\ held' = [held EXCEPT ![w] = {}]
  /\ UNCHANGED begun

\* What the transaction wrote becomes visible.
Publishes(w, m, row, actor, entity, action) ==
  /\ moves' = [moves EXCEPT ![m] =
       [row EXCEPT !.state = "posted", !.name = tx[w].name, !.previous = tx[w].previous,
                   !.postedBy = actor]]
  /\ journals' = [journals EXCEPT ![row.journal].next = tx[w].name.number + 1]
  /\ audit' = Append(audit, [entity |-> entity, action |-> action, actor |-> actor])
  /\ logs' = logs \cup {tx[w].log}
  /\ UNCHANGED periods

\* PostMoveAtomic.
CommitPost(w) ==
  /\ At(w, "commit") /\ Kind(w) = "post"
  /\ LET req == workers[w]
         m == MoveOf(w)
     IN /\ Publishes(w, m, [moves[m] EXCEPT !.lines = Stored(req.row.lines), !.version = @ + 1],
                     req.actor, m, "POST")
        /\ Goes(w, IF Tail(req.queue) = <<>> THEN Idle
                   ELSE [op |-> "bulk", queue |-> Tail(req.queue),
                         done |-> req.done \cup {m}, actor |-> req.actor])
  /\ UNCHANGED <<events, replies>> /\ End(w)

\* ReverseMoveAtomic.
CommitReversal(w) ==
  /\ At(w, "commit") /\ Kind(w) = "reverse"
  /\ LET req == workers[w]
         o == MoveOf(w)
     IN \E m \in Unused :
          Publishes(w, m, [DraftRow(req.journal, req.period, Stored(Mirror(moves[o].lines)),
                                    1, NoActor) EXCEPT !.reverses = o],
                    req.actor, o, "REVERSE")
  /\ Goes(w, Idle)
  /\ UNCHANGED <<events, replies>> /\ End(w)

\* PostNewMoveWithEventAtomic.  The identifier of the new move matters to nobody
\* before the commit.
CommitIngest(w) ==
  /\ At(w, "commit") /\ Kind(w) = "ingest"
  /\ LET k == workers[w].key
     IN \E m \in Unused :
          /\ Publishes(w, m, [workers[w].row EXCEPT !.version = 1], NoActor, m, "INGEST_POST")
          /\ events' = [events EXCEPT ![k] = m]
          /\ \/ Reply(k, m) /\ Goes(w, Idle)
             \/ UNCHANGED replies /\ Goes(w, [op |-> "lookup", key |-> k])
  /\ End(w)

\* Nothing was written; the request fails, an ingest looks its key up.
Rollback(w) ==
  /\ Running(w)
  /\ Fail(w) \/ IngestFails(w)
  /\ End(w) /\ UNCHANGED logs

\* A statement that the code or an index refuses.
Refuse(w) == Granted(w) /\ ~ Accepted(w) /\ Rollback(w)

\* w waits for o.
WaitsFor(w, o) ==
  /\ w # o /\ Running(w)
  /\ \E l \in Wants(w), k \in held[o] : Clash(l, k)

\* The transactions of S wait for each other in a ring.
Deadlocked(S) == S # {} /\ \A w \in S : \E o \in S : WaitsFor(w, o)
InDeadlock(w) ==
  \E S \in SUBSET Workers :
    w \in S /\ Deadlocked(S) /\ \A T \in SUBSET S : Deadlocked(T) => T = S

\* PostgreSQL's deadlock detector (SQLSTATE 40P01); nothing retries.
Victim(w) == InDeadlock(w) /\ Rollback(w)

-----------------------------------------------------------------------------
\* The short transactions of Ledger wait for locks too.

\* The upsert locks the row it updates, and with their foreign keys the journal
\* and the period it names anew.
SaveGranted(w) ==
  LET row == workers[w].row
      id  == workers[w].id
      new == id = NoMove \/ moves[id].state = "absent"
  IN FreeFor({}, {Lock("move", id, "no_key_update")}
                 \cup {Lock("journal", j, "key_share") :
                         j \in {x \in {row.journal} : new \/ moves[id].journal # x}}
                 \cup {Lock("period", p, "key_share") :
                         p \in {x \in {row.period} : new \/ moves[id].period # x}})

\* Reads take no lock: a snapshot never waits.
Read(w) ==
  \/ \E j \in Journals, p \in Periods, e \in Drafts :
       \/ \E a \in Actors \cup {NoActor} : CreateDraft(w, j, p, e, a)
       \/ \E m \in MoveIds : UpdateDraft(w, m, j, p, e)
       \/ \E k \in Keys : BeginIngest(w, k, j, p, e)
  \/ \E q \in Requested, a \in Actors : BeginPosting(w, q, a)
  \/ \E m \in MoveIds, p \in Periods, a \in Actors : BeginReverse(w, m, p, a)
  \/ ReadHeader(w)
  \/ ReadLines(w)
  \/ LookUp(w)

Short ==
  \/ \E w \in Workers :
       \/ Read(w)
       \/ /\ Doing(w, "save") /\ SaveGranted(w)
          /\ workers[w].id # NoMove \/ IdLeft
          /\ SaveDraft(w)
       \/ ~ Running(w) /\ (Fail(w) \/ IngestFails(w))
  \/ \E m \in MoveIds : FreeFor({}, {Lock("move", m, "update")}) /\ DeleteDraft(m)
  \/ \E k \in Keys : AnswerKnown(k)
  \/ \E p \in Periods, s \in PeriodStates :
       FreeFor({}, {Lock("period", p, "update")}) /\ ChangePeriodState(p, s)
  \/ \E j \in Journals : \E x \in PrefixesOf[j] :
       \/ CreateJournal(j, x)
       \/ \E b \in BOOLEAN :
            FreeFor({}, {Lock("journal", j, "no_key_update")}) /\ UpdateJournal(j, x, b)

\* What a transaction that can go on does.
Progress(w) ==
  \/ LockPeriod(w)
  \/ InsertMove(w)
  \/ LockMove(w)
  \/ DrawNumber(w)
  \/ ReadLastHash(w)
  \/ TakeName(w)
  \/ LockAudit(w)
  \/ WriteLog(w)
  \/ InsertKey(w)
  \/ CommitPost(w)
  \/ CommitReversal(w)
  \/ CommitIngest(w)
  \/ Refuse(w)
  \/ Victim(w)

LockInit ==
  /\ Init
  /\ tx = [w \in Workers |-> NoTx]
  /\ held = [w \in Workers |-> {}]
  /\ logs = {} /\ begun = 0

LockNext ==
  \/ Short /\ UNCHANGED lockVars
  \/ \E w \in Workers :
       \/ BeginTx(w)
       \/ Progress(w)
       \/ Rollback(w)   \* the request is cancelled or loses its connection

LockSpec == LockInit /\ [][LockNext]_allVars

\* A statement that is not blocked is executed, and a deadlock is detected after
\* deadlock_timeout; nothing makes a client send or cancel a request.
FairLockSpec == LockSpec /\ \A w \in Workers : WF_allVars(Progress(w))

-----------------------------------------------------------------------------
(***************************************************************************)
(* Properties.                                                             *)
(***************************************************************************)

\* Posting transactions that interleave statement by statement leave the same
\* trace of tables and answers as transactions that happen at once when they
\* commit: what one has checked or read (period state, draft row, next number,
\* last hash, idempotency key) is still so when it commits.
ImplementsLedger == Spec

\* The rows of financial_audit_logs, by id, each name the row just before: commits
\* of concurrent requests never fork the hash chain (pg_advisory_xact_lock in
\* insertAuditLog; VerifyAuditIntegrity reads them in this order).
AuditChainUnbroken ==
  \A l \in logs : l.previous = Latest({i \in LogIds : i < l.id})

\* Only requests that post new moves into one journal can block each other for
\* good: two postings of drafts, reversals or period changes never do
\* (the order of the statements of postMoveAtomic and ReverseMoveAtomic).
OnlyIngestsDeadlock ==
  \A w \in Workers : InDeadlock(w) =>
    /\ Kind(w) = "ingest"
    /\ \E o \in Workers : WaitsFor(w, o) /\ InDeadlock(o) /\ JournalOf(o) = JournalOf(w)

\* Every transaction that is begun ends, refused, chosen as a victim or
\* committed: no lock outlives the transaction that took it.
RequestsEnd == \A w \in Workers : Running(w) ~> ~ Running(w)
=============================================================================
