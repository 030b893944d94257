------------------------------- MODULE Ledger -------------------------------
(***************************************************************************)
(* The general ledger of internal/features/accounting.  Every PostgreSQL   *)
(* transaction of PostgresRepository is one atomic action here: module     *)
(* PostingLocks opens the posting transactions statement by statement and  *)
(* shows that their row locks justify it.  A use case is a worker (the     *)
(* goroutine of an HTTP request): it first reads the database outside any  *)
(* transaction, keeps what it read, and only then calls the transaction,   *)
(* so that anything may happen between its two steps.                      *)
(*                                                                         *)
(* A definition whose name ends in Bug is not used by the specification:   *)
(* it is a wrong variant of the definition that follows it, substituted    *)
(* for it to see that the property it should break does notice.            *)
(***************************************************************************)
EXTENDS EntryLines, Sequences

CONSTANTS
  MoveIds,       \* primary keys of account_moves
  Journals,
  Periods,       \* fiscal periods; a date is the period that covers it
  Actors,        \* authenticated users
  Keys,          \* idempotency keys of subledger events
  Workers,       \* requests served at the same time
  PrefixesOf,    \* prefixes users may give a journal, as ranks in string order
  Drafts,        \* the entries clients submit
  Threshold,     \* MakerCheckerSettings.Threshold, 0 disables the control
  Base, Cap,     \* numbers from Cap on are one digit wider than the padding
  MaxVersion,    \* bound on how often one row is written
  MaxBulk,       \* bound on the ids of one bulk-post request
  NullHashLoads, \* whether a NULL hash_signature can be scanned
  NoMove, NoActor

ASSUME PrefixAssumption == PrefixesOf \in [Journals -> SUBSET Nat]
ASSUME TableAssumption == Journals # {} /\ Periods # {}
ASSUME DraftAssumption == Drafts \subseteq Entries
ASSUME NumberAssumption ==
  /\ Threshold \in Nat /\ MaxVersion \in Nat /\ MaxBulk \in Nat
  /\ Base \in Nat \ {0} /\ Cap \in Nat \ {0}
ASSUME NullAssumption ==
  NoMove \notin MoveIds /\ NoActor \notin Actors /\ NullHashLoads \in BOOLEAN

VARIABLES
  moves,     \* table account_moves with its lines
  journals,  \* table journals; next = 0 before the row is created
  periods,   \* fiscal_periods.state
  audit,     \* table financial_audit_logs, oldest first
  events,    \* table subledger_processed_events: key -> move_id
  workers,   \* what each request holds in memory
  replies    \* moves the server has returned to callers, per key

vars == <<moves, journals, periods, audit, events, workers, replies>>

-----------------------------------------------------------------------------
\* The tables.

Names == [prefix : Nat, number : Nat]
NoName == [prefix |-> 0, number |-> 0]

MoveRows ==
  [state : {"absent", "draft", "posted"}, journal : Journals, period : Periods,
   lines : Entries, version : Nat, createdBy : Actors \cup {NoActor},
   postedBy : Actors \cup {NoActor}, name : Names,
   previous : MoveIds \cup {NoMove}, reverses : MoveIds \cup {NoMove}]

\* A row that does not exist; version survives so that updated_at never repeats.
AbsentRow(version) ==
  [state |-> "absent", journal |-> CHOOSE j \in Journals : TRUE,
   period |-> CHOOSE p \in Periods : TRUE, lines |-> NoEntry, version |-> version,
   createdBy |-> NoActor, postedBy |-> NoActor, name |-> NoName,
   previous |-> NoMove, reverses |-> NoMove]

DraftRow(j, p, e, version, creator) ==
  [AbsentRow(version) EXCEPT !.state = "draft", !.journal = j, !.period = p,
                             !.lines = e, !.createdBy = creator]

\* Compares the sides with a tolerance.
ValidateBalanceBug(row) ==
  LET difference == TotalDebit(row.lines) - TotalCredit(row.lines)
  IN Cardinality(LinesOf(row.lines)) >= 2 /\ difference \in -2 .. 2

\* AccountMove.ValidateBalance on the row in memory.
ValidateBalance(row) == Balanced(row.lines)

Posted == {m \in MoveIds : moves[m].state = "posted"}
PostedIn(j) == {m \in Posted : moves[m].journal = j}
Unused == {m \in MoveIds : moves[m].state = "absent" /\ moves[m].version = 0}

PeriodStates == {"open", "soft_closed", "hard_closed"}
AuditRows == [entity : MoveIds, action : {"POST", "REVERSE", "INGEST_POST"},
              actor : Actors \cup {NoActor}]

-----------------------------------------------------------------------------
\* Legal numbering.

\* ORDER BY name over prefix || lpad(number, 5): numbers of equal width compare
\* as numbers, a wider one is compared by its leading digits.
NumberBefore(x, y) ==
  CASE x < Cap /\ y >= Cap -> x <= y \div Base
    [] x >= Cap /\ y < Cap -> x \div Base < y
    [] OTHER -> x < y

NameBefore(a, b) ==
  \/ a.prefix < b.prefix
  \/ a.prefix = b.prefix /\ NumberBefore(a.number, b.number)

\* Forgets WHERE journal_id.
LastPostedBug(j) ==
  IF Posted = {} THEN {NoMove}
  ELSE {m \in Posted : \A o \in Posted \ {m} : NameBefore(moves[o].name, moves[m].name)}

\* previousPostedMoveHash: what signed the last name of the journal, ORDER BY name
\* DESC LIMIT 1.  A hash stands for the move it signs.
LastPosted(j) ==
  IF PostedIn(j) = {} THEN {NoMove}
  ELSE {m \in PostedIn(j) :
          \A o \in PostedIn(j) \ {m} : NameBefore(moves[o].name, moves[m].name)}

\* GetNextSequenceWithLock: the name under which the next move is posted.
NextName(j) == [prefix |-> journals[j].prefix, number |-> journals[j].next]

\* Index uq_posted_move_name: names are unique over all journals.
NameFree(j) == \A m \in Posted : moves[m].name # NextName(j)

\* The part every posting transaction shares: number, link, sign, audit.
Publish(m, row, actor, entity, action) ==
  /\ NameFree(row.journal)
  /\ \E previous \in LastPosted(row.journal) :
       moves' = [moves EXCEPT ![m] =
         [row EXCEPT !.state = "posted", !.name = NextName(row.journal),
                     !.previous = previous, !.postedBy = actor]]
  /\ journals' = [journals EXCEPT ![row.journal].next = @ + 1]
  /\ audit' = Append(audit, [entity |-> entity, action |-> action, actor |-> actor])

-----------------------------------------------------------------------------
\* What a request keeps between two calls to the database.

Idle == [op |-> "idle"]

Queues == Seq(MoveIds) \ {<<>>}

SaveWorkers == [op : {"save"}, id : MoveIds \cup {NoMove}, row : MoveRows]
BulkWorkers == [op : {"bulk"}, queue : Queues, done : SUBSET MoveIds, actor : Actors]
PostWorkers == [op : {"read", "post"}, queue : Queues, done : SUBSET MoveIds,
                actor : Actors, row : MoveRows]
ReverseWorkers == [op : {"reverse"}, original : MoveIds, journal : Journals,
                   period : Periods, actor : Actors]
IngestWorkers == [op : {"ingest"}, key : Keys, row : MoveRows]
LookupWorkers == [op : {"lookup"}, key : Keys]

WorkerStates == {Idle} \cup SaveWorkers \cup BulkWorkers \cup PostWorkers \cup ReverseWorkers
                \cup IngestWorkers \cup LookupWorkers

Free(w) == workers[w].op = "idle"
Doing(w, op) == workers[w].op = op
Goes(w, state) == workers' = [workers EXCEPT ![w] = state]

\* GetMoveByID: scanMove reads hash_signature into a string.
Loads(m) ==
  /\ moves[m].state # "absent"
  /\ moves[m].state = "draft" => NullHashLoads

\* Every table row and every request in memory has the shape the code gives it.
TypeOK ==
  /\ moves \in [MoveIds -> MoveRows]
  /\ journals \in [Journals -> [prefix : Nat, next : Nat, active : BOOLEAN]]
  /\ periods \in [Periods -> PeriodStates]
  /\ audit \in Seq(AuditRows)
  /\ events \in [Keys -> MoveIds \cup {NoMove}]
  /\ workers \in [Workers -> WorkerStates]
  /\ replies \in [Keys -> SUBSET MoveIds]

Init ==
  /\ moves = [m \in MoveIds |-> AbsentRow(0)]
  /\ journals = [j \in Journals |-> [prefix |-> 0, next |-> 0, active |-> FALSE]]
  /\ periods = [p \in Periods |-> "open"]
  /\ audit = <<>>
  /\ events = [k \in Keys |-> NoMove]
  /\ workers = [w \in Workers |-> Idle]
  /\ replies = [k \in Keys |-> {}]

-----------------------------------------------------------------------------
\* Drafts.

\* CreateMoveRequest.Validate and CreateDraftMoveUseCase up to SaveDraftMove:
\* journal and period are read, not locked.  NoActor is a draft the system
\* creates (FX revaluation).
CreateDraft(w, j, p, e, creator) ==
  /\ Free(w)
  /\ Balanced(e) /\ journals[j].active /\ periods[p] = "open"
  /\ Goes(w, [op |-> "save", id |-> NoMove, row |-> DraftRow(j, p, e, 0, creator)])
  /\ UNCHANGED <<moves, journals, periods, audit, events, replies>>

\* UpdateDraftMoveUseCase up to SaveDraftMove.
UpdateDraft(w, m, j, p, e) ==
  /\ Free(w)
  /\ Loads(m) /\ moves[m].state = "draft"
  /\ Balanced(e) /\ journals[j].active /\ periods[p] = "open"
  /\ Goes(w, [op |-> "save", id |-> m,
              row |-> [moves[m] EXCEPT !.journal = j, !.period = p, !.lines = e]])
  /\ UNCHANGED <<moves, journals, periods, audit, events, replies>>

\* The upsert without WHERE state = 'draft'.
SaveDraftBug(w) ==
  /\ Doing(w, "save")
  /\ LET row == workers[w].row
         id  == workers[w].id
     IN /\ ValidateBalance(row)
        /\ \E m \in (IF id = NoMove THEN Unused ELSE {id}) :
             moves' = [moves EXCEPT ![m] =
               [DraftRow(row.journal, row.period, Stored(row.lines), @.version + 1, row.createdBy)
                  EXCEPT !.state = IF moves[m].state = "posted" THEN "posted" ELSE "draft"]]
  /\ Goes(w, Idle)
  /\ UNCHANGED <<journals, periods, audit, events, replies>>

\* SaveDraftMove: INSERT ... ON CONFLICT (id) DO UPDATE ... WHERE state = 'draft',
\* then the lines are replaced.  Nothing tells a row that was never written from
\* one that was deleted, nor an older row from a newer one.
SaveDraft(w) ==
  /\ Doing(w, "save")
  /\ LET row == workers[w].row
         id  == workers[w].id
     IN /\ ValidateBalance(row)
        /\ \E m \in (IF id = NoMove THEN Unused ELSE {id}) :
             /\ moves[m].state # "posted" /\ moves[m].version < MaxVersion
             /\ moves' = [moves EXCEPT ![m] =
                  DraftRow(row.journal, row.period, Stored(row.lines), @.version + 1,
                           IF @.createdBy # NoActor THEN @.createdBy ELSE row.createdBy)]
  /\ Goes(w, Idle)
  /\ UNCHANGED <<journals, periods, audit, events, replies>>

\* A soft delete, with a state no reader knows.
DeleteDraftBug(m) ==
  /\ moves[m].state = "draft"
  /\ moves' = [moves EXCEPT ![m].state = "deleted"]
  /\ UNCHANGED <<journals, periods, audit, events, workers, replies>>

DeleteDraft(m) ==
  /\ moves[m].state = "draft"
  /\ moves' = [moves EXCEPT ![m] = AbsentRow(@.version)]
  /\ UNCHANGED <<journals, periods, audit, events, workers, replies>>

-----------------------------------------------------------------------------
\* Posting.

\* BulkPostMovesUseCase; a single post is a queue of one.
BeginPosting(w, queue, actor) ==
  /\ Free(w)
  /\ Goes(w, [op |-> "bulk", queue |-> queue, done |-> {}, actor |-> actor])
  /\ UNCHANGED <<moves, journals, periods, audit, events, replies>>

\* A draft without a creator may be posted by anybody.
MayPostBug(row, actor) ==
  (Threshold > 0 /\ TotalDebit(row.lines) > Threshold) => row.createdBy # actor

\* MakerCheckerSettings: above the threshold, the creator is known and is not
\* the actor.
MayPost(row, actor) ==
  (Threshold > 0 /\ TotalDebit(row.lines) > Threshold)
    => row.createdBy # NoActor /\ row.createdBy # actor

\* getMoveByID, first query: the header of the move, draft or not.
ReadHeader(w) ==
  /\ Doing(w, "bulk")
  /\ LET m == Head(workers[w].queue)
     IN /\ Loads(m)
        /\ Goes(w, [op |-> "read", queue |-> workers[w].queue, done |-> workers[w].done,
                    actor |-> workers[w].actor, row |-> [moves[m] EXCEPT !.lines = NoEntry]])
  /\ UNCHANGED <<moves, journals, periods, audit, events, replies>>

\* Second query: the lines, as they are by now; then PostMoveUseCase up to
\* PostMoveAtomic.
ReadLines(w) ==
  /\ Doing(w, "read")
  /\ LET row == [workers[w].row EXCEPT !.lines = moves[Head(workers[w].queue)].lines]
     IN /\ row.state = "draft"
        /\ ValidateBalance(row)
        /\ MayPost(row, workers[w].actor)
        /\ periods[row.period] = "open"
        /\ Goes(w, [workers[w] EXCEPT !.op = "post", !.row = row])
  /\ UNCHANGED <<moves, journals, periods, audit, events, replies>>

\* Does not compare updated_at.
SameRowBug(row, m) ==
  /\ moves[m].state = "draft"
  /\ moves[m].journal = row.journal /\ moves[m].period = row.period

\* The row locked by PostMoveAtomic is the one the use case validated.
SameRow(row, m) ==
  /\ moves[m].state = "draft"
  /\ moves[m].journal = row.journal /\ moves[m].period = row.period
  /\ moves[m].version = row.version

\* Trusts the period read by the use case instead of lockOpenPeriod.
PostMoveBug(w) ==
  /\ Doing(w, "post")
  /\ LET req == workers[w]
         m == Head(req.queue)
     IN /\ SameRow(req.row, m) /\ ValidateBalance(req.row)
        /\ Publish(m, [moves[m] EXCEPT !.lines = Stored(req.row.lines), !.version = @ + 1],
                   req.actor, m, "POST")
        /\ Goes(w, Idle)
  /\ UNCHANGED <<periods, events, replies>>

\* postMoveAtomic with createMove = false.
PostMove(w) ==
  /\ Doing(w, "post")
  /\ LET req == workers[w]
         m == Head(req.queue)
     IN /\ periods[req.row.period] = "open"
        /\ SameRow(req.row, m) /\ ValidateBalance(req.row)
        /\ Publish(m, [moves[m] EXCEPT !.lines = Stored(req.row.lines), !.version = @ + 1],
                   req.actor, m, "POST")
        /\ Goes(w, IF Tail(req.queue) = <<>> THEN Idle
                   ELSE [op |-> "bulk", queue |-> Tail(req.queue),
                         done |-> req.done \cup {m}, actor |-> req.actor])
  /\ UNCHANGED <<periods, events, replies>>

-----------------------------------------------------------------------------
\* Reversal.

\* ReverseMoveUseCase up to ReverseMoveAtomic.
BeginReverse(w, m, p, actor) ==
  /\ Free(w)
  /\ moves[m].state = "posted" /\ periods[p] = "open"
  /\ Goes(w, [op |-> "reverse", original |-> m, journal |-> moves[m].journal,
              period |-> p, actor |-> actor])
  /\ UNCHANGED <<moves, journals, periods, audit, events, replies>>

\* Does not look for an earlier reversal.
ReverseMoveBug(w) ==
  /\ Doing(w, "reverse")
  /\ LET req == workers[w]
         o == req.original
     IN /\ moves[o].state = "posted" /\ periods[req.period] = "open"
        /\ \E m \in Unused :
             Publish(m, [DraftRow(req.journal, req.period, Stored(Mirror(moves[o].lines)),
                                  1, NoActor) EXCEPT !.reverses = o],
                     req.actor, o, "REVERSE")
  /\ Goes(w, Idle)
  /\ UNCHANGED <<periods, events, replies>>

\* ReverseMoveAtomic.
ReverseMove(w) ==
  /\ Doing(w, "reverse")
  /\ LET req == workers[w]
         o == req.original
     IN /\ moves[o].state = "posted"
        /\ \A m \in MoveIds : moves[m].reverses # o
        /\ periods[req.period] = "open"
        /\ Cardinality(LinesOf(moves[o].lines)) >= 2
        /\ \E m \in Unused :
             Publish(m, [DraftRow(req.journal, req.period, Stored(Mirror(moves[o].lines)),
                                  1, NoActor) EXCEPT !.reverses = o],
                     req.actor, o, "REVERSE")
  /\ Goes(w, Idle)
  /\ UNCHANGED <<periods, events, replies>>

-----------------------------------------------------------------------------
\* Subledger events.

Reply(k, m) == replies' = [replies EXCEPT ![k] = @ \cup {m}]

\* IngestSubledgerEventUseCase on a key that was processed before.
AnswerKnown(k) ==
  /\ events[k] # NoMove
  /\ Reply(k, events[k])
  /\ UNCHANGED <<moves, journals, periods, audit, events, workers>>

\* IngestSubledgerEventUseCase up to PostNewMoveWithEventAtomic: two lines of the
\* same amount, rounded to the column.
BeginIngest(w, k, j, p, e) ==
  /\ Free(w)
  /\ events[k] = NoMove
  /\ journals[j].active /\ periods[p] = "open"
  /\ Cardinality(LinesOf(e)) = 2 /\ Balanced(Stored(e))
  /\ Goes(w, [op |-> "ingest", key |-> k, row |-> DraftRow(j, p, Stored(e), 0, NoActor)])
  /\ UNCHANGED <<moves, journals, periods, audit, events, replies>>

\* Relies on the key having been unknown when the request began.
IngestEventBug(w) ==
  /\ Doing(w, "ingest")
  /\ LET k == workers[w].key
         row == workers[w].row
     IN /\ periods[row.period] = "open" /\ ValidateBalance(row)
        /\ \E m \in Unused :
             /\ Publish(m, [row EXCEPT !.version = 1], NoActor, m, "INGEST_POST")
             /\ events' = [events EXCEPT ![k] = m]
             /\ Reply(k, m) /\ Goes(w, Idle)
  /\ UNCHANGED periods

\* postMoveAtomic with createMove = true.  The caller learns of the commit, or
\* the answer is lost and it looks the key up again.
IngestEvent(w) ==
  /\ Doing(w, "ingest")
  /\ LET k == workers[w].key
         row == workers[w].row
     IN /\ periods[row.period] = "open" /\ ValidateBalance(row)
        /\ events[k] = NoMove
        /\ \E m \in Unused :
             /\ Publish(m, [row EXCEPT !.version = 1], NoActor, m, "INGEST_POST")
             /\ events' = [events EXCEPT ![k] = m]
             /\ \/ Reply(k, m) /\ Goes(w, Idle)
                \/ UNCHANGED replies /\ Goes(w, [op |-> "lookup", key |-> k])
  /\ UNCHANGED periods

\* The audit entry is written outside the transaction and survives its rollback.
IngestFailsBug(w) ==
  /\ Doing(w, "ingest")
  /\ \E m \in Unused :
       audit' = Append(audit, [entity |-> m, action |-> "INGEST_POST", actor |-> NoActor])
  /\ Goes(w, [op |-> "lookup", key |-> workers[w].key])
  /\ UNCHANGED <<moves, journals, periods, events, replies>>

\* Any error of PostNewMoveWithEventAtomic: the transaction is rolled back.
IngestFails(w) ==
  /\ Doing(w, "ingest")
  /\ Goes(w, [op |-> "lookup", key |-> workers[w].key])
  /\ UNCHANGED <<moves, journals, periods, audit, events, replies>>

\* The second GetProcessedEventMove: the saved move, or the error.
LookUp(w) ==
  /\ Doing(w, "lookup")
  /\ IF events[workers[w].key] = NoMove THEN UNCHANGED replies
     ELSE Reply(workers[w].key, events[workers[w].key])
  /\ Goes(w, Idle)
  /\ UNCHANGED <<moves, journals, periods, audit, events>>

-----------------------------------------------------------------------------
\* The number is drawn outside the transaction, as from a PostgreSQL sequence.
FailBug(w) ==
  /\ Doing(w, "reverse")
  /\ journals' = [journals EXCEPT ![workers[w].journal].next = @ + 1]
  /\ Goes(w, Idle)
  /\ UNCHANGED <<moves, periods, audit, events, replies>>

\* A request that is refused, or whose transaction or last query is rolled back or
\* cancelled, ends without effect.
Fail(w) ==
  /\ workers[w].op \in {"save", "bulk", "read", "post", "reverse", "lookup"}
  /\ Goes(w, Idle)
  /\ UNCHANGED <<moves, journals, periods, audit, events, replies>>

\* validPeriodTransition and the switch of UpdatePeriodState.
PeriodStep(from, to) ==
  \/ from = "open" /\ to \in {"soft_closed", "hard_closed"}
  \/ from = "soft_closed" /\ to \in {"open", "hard_closed"}

ChangePeriodState(p, s) ==
  /\ PeriodStep(periods[p], s)
  /\ periods' = [periods EXCEPT ![p] = s]
  /\ UNCHANGED <<moves, journals, audit, events, workers, replies>>

\* CreateJournalUseCase: the code is unique, the prefix is not looked at.
CreateJournal(j, prefix) ==
  /\ journals[j].next = 0
  /\ journals' = [journals EXCEPT ![j] = [prefix |-> prefix, next |-> 1, active |-> TRUE]]
  /\ UNCHANGED <<moves, periods, audit, events, workers, replies>>

\* UpdateJournal: the whole record is written; the value of is_active is the one
\* requested, or the one read before.
UpdateJournal(j, prefix, active) ==
  /\ journals[j].next > 0
  /\ journals' = [journals EXCEPT ![j].prefix = prefix, ![j].active = active]
  /\ journals' # journals
  /\ UNCHANGED <<moves, periods, audit, events, workers, replies>>

Requested == UNION {[1 .. n -> MoveIds] : n \in 1 .. MaxBulk}

Next ==
  \/ \E w \in Workers :
       \/ \E j \in Journals, p \in Periods, e \in Drafts :
            \/ \E a \in Actors \cup {NoActor} : CreateDraft(w, j, p, e, a)
            \/ \E m \in MoveIds : UpdateDraft(w, m, j, p, e)
            \/ \E k \in Keys : BeginIngest(w, k, j, p, e)
       \/ \E q \in Requested, a \in Actors : BeginPosting(w, q, a)
       \/ \E m \in MoveIds, p \in Periods, a \in Actors : BeginReverse(w, m, p, a)
       \/ SaveDraft(w)
       \/ ReadHeader(w)
       \/ ReadLines(w)
       \/ PostMove(w)
       \/ ReverseMove(w)
       \/ IngestEvent(w)
       \/ IngestFails(w)
       \/ LookUp(w)
       \/ Fail(w)
  \/ \E m \in MoveIds : DeleteDraft(m)
  \/ \E k \in Keys : AnswerKnown(k)
  \/ \E p \in Periods, s \in PeriodStates : ChangePeriodState(p, s)
  \/ \E j \in Journals : \E x \in PrefixesOf[j] :
       \/ CreateJournal(j, x)
       \/ \E b \in BOOLEAN : UpdateJournal(j, x, b)

Spec == Init /\ [][Next]_vars
-----------------------------------------------------------------------------
(***************************************************************************)
(* Properties.                                                             *)
(***************************************************************************)

Number(m) == moves[m].name.number

\* The posted moves of a journal carry the numbers 1 .. next_number - 1, each
\* exactly once: no failure, race or reversal leaves a gap or repeats a number
\* (GetNextSequenceWithLock inside the posting transaction).
GaplessNumbering ==
  \A j \in Journals :
    /\ {Number(m) : m \in PostedIn(j)} = 1 .. journals[j].next - 1
    /\ \A m, o \in PostedIn(j) : Number(m) = Number(o) => m = o

\* Of the moves numbered below it in its journal, a posted move signs the one whose
\* name sorts last, and none only when it is the first: whatever prefixes the
\* journal had since and whatever else was posted, a link passes over nothing but
\* names that sort before the one it signs (previousPostedMoveHash, hashMove).
ChainLinear ==
  \A j \in Journals : \A m \in PostedIn(j) :
    LET below == {o \in PostedIn(j) : Number(o) < Number(m)}
        previous == moves[m].previous
    IN IF below = {} THEN previous = NoMove
       ELSE /\ previous \in below
            /\ \A o \in below \ {previous} : NameBefore(moves[o].name, moves[previous].name)

\* Every posted entry balances to the cent as the columns hold it, although
\* amounts are validated before the database rounds them (ValidateBalance run
\* again by PostMoveUseCase on the rows it reads back).
PostedBalanced == \A m \in Posted : Balanced(moves[m].lines)

\* A manual move above the threshold was created by a known user and posted by
\* another one, whatever happened to the draft between its review and its
\* posting (PostMoveUseCase, COALESCE(created_by) in SaveDraftMove).
MakerChecker ==
  \A m \in Posted :
    /\ moves[m].reverses = NoMove /\ \A k \in Keys : events[k] # m
    /\ Threshold > 0 /\ TotalDebit(moves[m].lines) > Threshold
    => moves[m].createdBy \notin {NoActor, moves[m].postedBy}

\* A move is reversed at most once, in its own journal, by the exact mirror of
\* its lines, and stays posted (ReverseMoveAtomic).
ReversedOnce ==
  \A m \in Posted : moves[m].reverses # NoMove =>
    LET o == moves[m].reverses
    IN /\ o \in PostedIn(moves[m].journal)
       /\ moves[m].lines = Mirror(moves[o].lines)
       /\ \A x \in Posted : moves[x].reverses = o => x = m

\* An idempotency key names one posted move, two keys never share it, and every
\* answer any caller ever got for the key is that move, also when the first
\* answer was lost or two deliveries ran at once (IngestSubledgerEventUseCase).
OneMovePerKey ==
  \A k \in Keys :
    /\ replies[k] \subseteq {events[k]} \cap Posted
    /\ events[k] # NoMove =>
         events[k] \in Posted /\ \A l \in Keys : events[l] = events[k] => l = k

Entered(m, actions) ==
  Cardinality({i \in DOMAIN audit : audit[i].entity = m /\ audit[i].action \in actions})

\* The audit log holds one posting entry per move that was posted and one
\* reversal entry per move that was reversed, and nothing of what was rolled
\* back (insertAuditLog in the posting transaction).
AuditComplete ==
  \A m \in MoveIds :
    /\ Entered(m, {"POST", "INGEST_POST"})
         = IF m \in Posted /\ moves[m].reverses = NoMove THEN 1 ELSE 0
    /\ Entered(m, {"REVERSE"}) = Cardinality({x \in Posted : moves[x].reverses = m})

\* A posted move is never changed, unposted or deleted.
PostedImmutable == [][\A m \in Posted : moves'[m] = moves[m]]_vars

\* What is posted is the draft as it was last saved: posting from an older copy
\* never undoes a save (the updated_at test of PostMoveAtomic).
PostsWhatWasSaved ==
  [][\A m \in MoveIds :
       (moves[m].state = "draft" /\ moves'[m].state = "posted")
         => moves'[m] = [moves[m] EXCEPT !.state = "posted", !.version = @ + 1,
                                         !.name = moves'[m].name, !.postedBy = moves'[m].postedBy,
                                         !.previous = moves'[m].previous]]_vars

\* Nothing enters or leaves the books of a period that is closed, and a period
\* closed hard stays closed (lockOpenPeriod, UpdatePeriodState).
ClosedPeriodSealed ==
  [][\A p \in Periods : periods[p] # "open" =>
       /\ {m \in Posted : moves[m].period = p}' = {m \in Posted : moves[m].period = p}
       /\ periods[p] = "hard_closed" => periods'[p] = "hard_closed"]_vars
=============================================================================
